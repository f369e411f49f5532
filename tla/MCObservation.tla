--------------------------- MODULE MCObservation ----------------------------
(***************************************************************************)
(* The threads that observe the host, on small instances.  They share      *)
(* nothing but the journal, so a behaviour follows one of them: system     *)
(* says which.                                                             *)
(***************************************************************************)
EXTENDS Naturals, Sequences

CONSTANT None

VARIABLES system, stop, pc,
          s1, s2, s3, s4, s5, s6, s7, s8, s9, s10, s11, s12, s13, s14, s15, s16, s17

vars == <<system, stop, pc, s1, s2, s3, s4, s5, s6, s7, s8, s9, s10, s11, s12, s13, s14, s15, s16, s17>>

(* A tree two directories deep, and bounds of which each cuts a walk short. *)
Tree == [a |-> "root", b |-> "a", c |-> "root", d |-> "b"]
WalkLimits == {[candidates |-> 3, directories |-> 3, depth |-> 2],
               [candidates |-> 4, directories |-> 2, depth |-> 2],
               [candidates |-> 4, directories |-> 3, depth |-> 1],
               [candidates |-> 4, directories |-> 3, depth |-> 2]}

(* The components; a slot is a variable of the one that runs. *)
Capture == INSTANCE CaptureWorkers WITH
    worker <- s1, now <- s2, capture <- s3, line <- s4, due <- s5, health <- s6,
    journal <- s7, MaxAge <- 1, Interval <- 1, Retry <- 1, MaxNow <- 3,
    MaxCaptures <- 2, MaxPages <- 2
Collect == INSTANCE Collectors WITH
    collector <- s1, size <- s2, left <- s3, part <- s4, phase <- s5, pager <- s6,
    complete <- s7, halted <- s8, table <- s9, manifest <- s10, PageEntries <- 2,
    PageLimit <- 2, TotalEntries <- 4, ItemLimit <- 1, MaxItems <- 2
Supervise == INSTANCE SourceSupervision WITH
    generation <- s1, status <- s2, checkpoint <- s3, revision <- s4, pending <- s5,
    newest <- s6, counted <- s7, MaxLoss <- 2, MaxGeneration <- 2, MaxRevision <- 3
History == INSTANCE HealthHistory WITH
    freshness <- s1, observed <- s2, reports <- s3, omitted <- s4, pending <- s5,
    journal <- s6, passes <- s7, Sources <- {1, 2}, ReportLimit <- 3, ByteLimit <- 7,
    SummaryBytes <- 1, MaxPasses <- 4
Watch == INSTANCE ChangeWatchers WITH
    watcher <- s1, source <- s2, sequence <- s3, queue <- s4, refused <- s5,
    reported <- s6, snapshots <- s7, pending <- s8, batch <- s9, journal <- s10,
    discarded <- s11, Watchers <- {"registry", "service", "network"}, QueueLimit <- 2,
    DrainLimit <- 2, MaxCallbacks <- 4, MaxSnapshots <- 1
Usn == INSTANCE UsnJournal WITH
    native <- s1, saved <- s2, starts <- s3, resumed <- s4, baseline <- s5,
    revision <- s6, cursor <- s7, entry <- s8, covered <- s9, MaxUsn <- 3,
    MaxJournals <- 2, MaxStarts <- 2
Discover == INSTANCE VolumeDiscovery WITH
    mounted <- s1, stored <- s2, workers <- s3, starts <- s4, scan <- s5, entry <- s6,
    told <- s7, running <- s8, Volumes <- {1, 2}, MaximumVolumes <- 1, MaxSequence <- 4,
    MaxStarts <- 2
EventLog == INSTANCE WindowsEventLog WITH
    log <- s1, saved <- s2, starts <- s3, cursor <- s4, revision <- s5, info <- s6,
    told <- s7, forced <- s8, position <- s9, entry <- s10, missed <- s11, MaxId <- 3,
    MaxGenerations <- 2, MaxStarts <- 2, MaxRevision <- 4
Integrity == INSTANCE FileIntegrity WITH
    limits <- s1, recursive <- s2, same <- s3, saved <- s4, stack <- s5, dir <- s6,
    todo <- s7, child <- s8, candidates <- s9, visited <- s10, coverage <- s11,
    armed <- s12, notified <- s13, entry <- s14, listed <- s15, manifest <- s16,
    baselines <- s17, Root <- "root", Entries <- {"a", "b", "c", "d"},
    Directories <- {"a", "b"}, Parent <- Tree, Limits <- WalkLimits, MaxBaselines <- 1
Native == INSTANCE NativeCollectors WITH
    kind <- s1, native <- s2, accepting <- s3, sink <- s4, at <- s5, event <- s6,
    consumer <- s7, received <- s8, delivered <- s9, failed <- s10, dropped <- s11,
    hot <- s12, cold <- s13, recent <- s14, Threads <- {1, 2}, Guids <- {1, 2, 3},
    Capacity <- 2, MaxEvents <- 4
Session == INSTANCE EtwSession WITH
    step <- s1, prior <- s2, session <- s3, held <- s4, checkpoint <- s5, boot <- s6,
    overlap <- s7, Agents <- {1, 2, 3}, MaxBoots <- 2

(* The slots above the n-th are not in use. *)
Free16 == s17 = None
Free15 == s16 = None /\ Free16
Free14 == s15 = None /\ Free15
Free13 == s14 = None /\ Free14
Free12 == s13 = None /\ Free13
Free11 == s12 = None /\ Free12
Free10 == s11 = None /\ Free11
Free9 == s10 = None /\ Free10
Free8 == s9 = None /\ Free9
Free7 == s8 = None /\ Free8

Keep16 == s17' = s17
Keep15 == s16' = s16 /\ Keep16
Keep14 == s15' = s15 /\ Keep15
Keep13 == s14' = s14 /\ Keep14
Keep12 == s13' = s13 /\ Keep13
Keep11 == s12' = s12 /\ Keep12
Keep10 == s11' = s11 /\ Keep11
Keep9 == s10' = s10 /\ Keep10
Keep8 == s9' = s9 /\ Keep9
Keep7 == s8' = s8 /\ Keep8

Init ==
  \/ system = "capture" /\ Capture!Init /\ Free7
  \/ system = "collector" /\ Collect!Init /\ stop = FALSE /\ pc = None /\ Free10
  \/ system = "supervisor" /\ Supervise!Init /\ stop = FALSE /\ pc = None /\ Free7
  \/ system = "history" /\ History!Init /\ stop = FALSE /\ pc = None /\ Free7
  \/ system = "watcher" /\ Watch!Init /\ Free11
  \/ system = "usn" /\ Usn!Init /\ Free9
  \/ system = "discovery" /\ Discover!Init /\ Free8
  \/ system = "winevt" /\ EventLog!Init /\ Free11
  \/ system = "integrity" /\ Integrity!Init
  \/ system = "native" /\ Native!Init /\ Free14
  \/ system = "session" /\ Session!Init /\ stop = FALSE /\ pc = None /\ Free7

CaptureNext == system = "capture" /\ Capture!Next /\ system' = system /\ Keep7
CollectNext == system = "collector" /\ Collect!Next /\ system' = system /\ stop' = stop /\ pc' = pc /\ Keep10
SuperviseNext == system = "supervisor" /\ Supervise!Next /\ system' = system /\ stop' = stop /\ pc' = pc /\ Keep7
HistoryNext == system = "history" /\ History!Next /\ system' = system /\ stop' = stop /\ pc' = pc /\ Keep7
WatchNext == system = "watcher" /\ Watch!Next /\ system' = system /\ Keep11
UsnNext == system = "usn" /\ Usn!Next /\ system' = system /\ Keep9
DiscoverNext == system = "discovery" /\ Discover!Next /\ system' = system /\ Keep8
EventLogNext == system = "winevt" /\ EventLog!Next /\ system' = system /\ Keep11
IntegrityNext == system = "integrity" /\ Integrity!Next /\ system' = system
NativeNext == system = "native" /\ Native!Next /\ system' = system /\ Keep14
SessionNext == system = "session" /\ Session!Next /\ system' = system /\ stop' = stop /\ pc' = pc /\ Keep7

Next == CaptureNext \/ CollectNext \/ SuperviseNext \/ HistoryNext \/ WatchNext \/
        UsnNext \/ DiscoverNext \/ EventLogNext \/ IntegrityNext \/ NativeNext \/
        SessionNext

(* The threads of the components are scheduled. *)
Work ==
  \/ system = "capture" /\ Capture!Work /\ system' = system /\ Keep7
  \/ system = "watcher" /\ Watch!Work /\ system' = system /\ Keep11
  \/ system = "usn" /\ Usn!Work /\ system' = system /\ Keep9
  \/ system = "discovery" /\ Discover!Work /\ system' = system /\ Keep8
  \/ system = "winevt" /\ EventLog!Work /\ system' = system /\ Keep11
  \/ system = "integrity" /\ Integrity!Work /\ system' = system
  \/ system = "native" /\ Native!Work /\ system' = system /\ Keep14

Spec == Init /\ [][Next]_vars /\ WF_vars(Work)
-----------------------------------------------------------------------------
(* Every final record lists exactly the accepted pages of its capture: see
   ChainWhole of CaptureWorkers (the workers of main.cpp). *)
ChainWhole == system = "capture" => Capture!ChainWhole

(* A source reported healthy or degraded has a recent capture in the journal:
   see PositiveIsFresh of CaptureWorkers (publication and state_freshness.cpp). *)
PositiveIsFresh == system = "capture" => Capture!PositiveIsFresh

(* Complete means whole: a manifest claims a partition only if every item of
   it was delivered, WinRM listeners past the index limit excepted, and a
   baseline claims coverage only of a whole walk; see CompleteIsWhole of
   Collectors (src/state/) and CoverageIsWhole of FileIntegrity. *)
CompleteIsWhole ==
  /\ system = "collector" => Collect!CompleteIsWhole
  /\ system = "integrity" => Integrity!CoverageIsWhole

(* The gap records of a collector generation add up to what its durable
   baseline has counted: see GapsMatchBaseline of SourceSupervision. *)
GapsMatchBaseline == system = "supervisor" => Supervise!GapsMatchBaseline

(* What a bounded buffer drops is told in its place: the freshness changes in
   the journal form one chain per source, omissions summarised, and every
   callback of a change watcher is in a record, in a queue, or counted; see
   HistoryChained of HealthHistory and ChangesAccounted of ChangeWatchers. *)
LossesTold ==
  /\ system = "history" => History!HistoryChained
  /\ system = "watcher" => Watch!ChangesAccounted

(* A source never jumps silently over what it did not commit.  The change
   journal, the event logs and the volume set each keep a durable cursor; see
   CursorSafe of UsnJournal and of WindowsEventLog, and VolumesTold of
   VolumeDiscovery. *)
CursorSafe ==
  /\ system = "usn" => Usn!CursorSafe
  /\ system = "winevt" => EventLog!CursorSafe
  /\ system = "discovery" => Discover!VolumesTold

(* A callback source is never cut off under those who use it: no callback
   loses its sink and no event goes uncounted while a collector stops, and a
   running agent keeps its trace session while one left behind can be found;
   see CallbacksFenced of NativeCollectors and SessionsKept of EtwSession. *)
SourcesFenced ==
  /\ system = "native" => Native!CallbacksFenced
  /\ system = "session" => Session!SessionsKept

(* Every worker that is asked to stop ends, whatever the journal or the host
   answers: capture workers and change watchers (main.cpp), the workers of the
   change journal, volume discovery, the event logs and file integrity, and the
   stop of a callback collector. *)
WorkersEnd == stop ~> (pc = "ended" \/ ~stop)
=============================================================================

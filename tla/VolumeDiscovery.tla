--------------------------- MODULE VolumeDiscovery ---------------------------
(***************************************************************************)
(* The discovery thread of the change-journal source (usn_journal.cpp      *)
(* publish_discovery, sync_workers, rediscover).  Every 30 seconds it      *)
(* enumerates the volumes, commits the difference from the durable set     *)
(* together with the new set, and only then starts and stops the workers.  *)
(* A failed enumeration opens an unknown interval and moves no worker.     *)
(***************************************************************************)
EXTENDS Naturals, FiniteSets

CONSTANTS None, Volumes,
          MaximumVolumes,  \* kMaximumVolumes
          MaxSequence,     \* bound: committed transitions
          MaxStarts        \* bound: starts of the agent

VARIABLES mounted,  \* the volumes of the host
          stored,   \* the durable DiscoveryCheckpoint
          workers,  \* volumes with a running worker
          pc, stop, starts,
          scan,     \* the enumeration in hand: None, or [failed, volumes]
          entry,    \* the transition offered: [next, added, removed]
          told,     \* the set a reader of the journal derives from the transitions
          running   \* for every running worker: was its volume told when it started?

vars == <<mounted, stored, workers, pc, stop, starts, scan, entry, told, running>>

Fresh == [sequence |-> 0, initialized |-> FALSE, blind |-> FALSE, volumes |-> {}]

Init ==
  /\ mounted = {} /\ stored = Fresh /\ workers = {} /\ pc = "scan" /\ stop = FALSE /\ starts = 1
  /\ scan = None /\ entry = None /\ told = {} /\ running = TRUE

Mount ==
  /\ \E v \in Volumes : mounted' = (mounted \ {v}) \cup ({v} \ mounted)
  /\ UNCHANGED <<stored, workers, pc, stop, starts, scan, entry, told, running>>

-----------------------------------------------------------------------------
(* discover_volumes: complete within the bound, or failed with what it has. *)
Enumerate ==
  /\ pc = "scan" /\ ~stop
  /\ \E failed \in BOOLEAN :
       /\ Cardinality(mounted) > MaximumVolumes => failed
       /\ scan' = [failed |-> failed, volumes |-> mounted]
  /\ pc' = "publish"
  /\ UNCHANGED <<mounted, stored, workers, stop, starts, entry, told, running>>

(* Mutant: recovery adopts the new set without telling what changed. *)
TransitionRecoveredUntold(p, s) ==
  CASE s.failed -> [next |-> [p EXCEPT !.blind = TRUE], added |-> {}, removed |-> {}]
    [] OTHER -> [next |-> [p EXCEPT !.initialized = TRUE, !.blind = FALSE, !.volumes = s.volumes],
                 added |-> IF p.blind THEN {} ELSE s.volumes \ p.volumes,
                 removed |-> IF p.blind THEN {} ELSE p.volumes \ s.volumes]

(* The checkpoint and the differences that a transition commits. *)
Transition(p, s) ==
  CASE s.failed -> [next |-> [p EXCEPT !.blind = TRUE], added |-> {}, removed |-> {}]
    [] OTHER -> [next |-> [p EXCEPT !.initialized = TRUE, !.blind = FALSE, !.volumes = s.volumes],
                 added |-> s.volumes \ p.volumes, removed |-> p.volumes \ s.volumes]

(* Nothing is committed for a failure already told or an unchanged set. *)
NoTransition(p, s) == IF s.failed THEN p.blind ELSE p.initialized /\ ~p.blind /\ s.volumes = p.volumes

AfterPublish == IF scan.failed THEN "scan" ELSE "sync"

(* The checkpoint cannot be loaded or decoded, or its sequence is exhausted. *)
CheckpointRefused == pc' = "scan" /\ entry' = None

Publish ==
  /\ pc = "publish"
  /\ \/ NoTransition(stored, scan) /\ pc' = AfterPublish /\ entry' = None
     \/ /\ ~NoTransition(stored, scan) /\ stored.sequence < MaxSequence
        /\ entry' = Transition(stored, scan) /\ pc' = "accept"
     \/ CheckpointRefused
  /\ UNCHANGED <<mounted, stored, workers, stop, starts, scan, told, running>>

Refused == pc = "accept" /\ ~stop /\ UNCHANGED vars

Accepted ==
  /\ pc = "accept" /\ ~stop
  /\ stored' = [entry.next EXCEPT !.sequence = @ + 1]
  /\ told' = (told \ entry.removed) \cup entry.added
  /\ pc' = AfterPublish /\ entry' = None
  /\ UNCHANGED <<mounted, workers, stop, starts, scan, running>>

(* sync_workers: stop and join what is gone, then start what is new. *)
Sync ==
  /\ pc = "sync"
  /\ workers' = scan.volumes
  /\ running' = (scan.volumes \subseteq told)
  /\ pc' = "scan"
  /\ UNCHANGED <<mounted, stored, stop, starts, scan, entry, told>>

RequestStop ==
  /\ ~stop /\ stop' = TRUE
  /\ UNCHANGED <<mounted, stored, workers, pc, starts, scan, entry, told, running>>

(* UsnJournal::stop joins discovery before it stops the workers. *)
End ==
  /\ stop /\ pc \in {"scan", "accept"}
  /\ pc' = "ended" /\ workers' = {} /\ entry' = None
  /\ UNCHANGED <<mounted, stored, stop, starts, scan, told, running>>

Restart ==
  /\ starts < MaxStarts /\ starts' = starts + 1
  /\ pc' = "scan" /\ stop' = FALSE /\ workers' = {} /\ scan' = None /\ entry' = None /\ running' = TRUE
  /\ UNCHANGED <<mounted, stored, told>>

Work == Enumerate \/ Publish \/ Accepted \/ Sync \/ End
Next == Mount \/ Work \/ Refused \/ RequestStop \/ Restart
Spec == Init /\ [][Next]_vars /\ WF_vars(Work)

-----------------------------------------------------------------------------
(* The transitions in the journal add up to the durable volume set, over
   failed enumerations, refusals and crashes, and no volume gets a worker
   before the journal says it is there (publish_discovery before
   sync_workers). *)
VolumesTold == told = stored.volumes /\ running
=============================================================================

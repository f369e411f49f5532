--------------------------- MODULE WindowsEventLog ---------------------------
(***************************************************************************)
(* The event-log source (collectors/windows_event_log.cpp): the worker of  *)
(* one channel.  It resumes a strict pull subscription after its durable   *)
(* bookmark, commits every event together with the bookmark behind it, and *)
(* compares the bookmark with the log when it subscribes and every five    *)
(* seconds after; a discontinuity is committed as a gap whose cursor starts*)
(* again at the oldest retained event.                                     *)
(*                                                                         *)
(* The log overwrites its oldest events and may be cleared, which starts a *)
(* new generation; ids may then start again or continue.  Its generation   *)
(* can always be read, and a strict subscription fails as stale rather     *)
(* than skip overwritten events.                                           *)
(***************************************************************************)
EXTENDS Naturals

CONSTANTS None,
          MaxId,           \* bound: event record ids
          MaxGenerations,  \* bound: generations of the log
          MaxStarts,       \* bound: starts of the worker
          MaxRevision      \* bound: revisions of the checkpoint

VARIABLES log,      \* the channel: [gen, oldest, newest]; empty when oldest > newest
          saved,    \* the durable checkpoint, None or [revision, cursor]
          pc, stop, starts,
          cursor, revision,   \* locals of run: the BookmarkCursor and its revision
          info,     \* log_info: the generation that new cursors are labelled with
          told,     \* startup_gap_accepted
          forced,   \* force_reset_to_oldest
          position, \* the subscription: [gen, id] of the last event it gave, or None
          entry,    \* what is offered to the journal: [line, cursor], cursor None for a plain record
          missed    \* events that left the log with no committed line that holds them or says so

vars == <<log, saved, pc, stop, starts, cursor, revision, info, told, forced, position, entry, missed>>
local == <<cursor, revision, info, told, forced, position, entry>>

(* A cursor: generation, last record id (None: not known), and whether it
   holds a native bookmark.  "legacy" cursors are bare bookmarks. *)
NoCursor == [gen |-> None, last |-> None, bookmark |-> FALSE, legacy |-> FALSE]
ResetTo(gen) == [gen |-> gen, last |-> None, bookmark |-> FALSE, legacy |-> FALSE]

(* Init may find the bookmark that an older agent left. *)
Init ==
  /\ log = [gen |-> 1, oldest |-> 1, newest |-> 1]
  /\ saved \in {None, [revision |-> 1, cursor |-> [gen |-> None, last |-> None, bookmark |-> TRUE, legacy |-> TRUE]]}
  /\ pc = "load" /\ stop = FALSE /\ starts = 1
  /\ cursor = NoCursor /\ revision = 0 /\ info = None
  /\ told = FALSE /\ forced = FALSE /\ position = None
  /\ entry = None /\ missed = {}

-----------------------------------------------------------------------------
(* The channel. *)

(* Events of the present generation after the durable bookmark. *)
Unread == IF saved = None \/ saved.cursor.last = None THEN {}
          ELSE IF saved.cursor.gen = log.gen
          THEN {id \in log.oldest..log.newest : id > saved.cursor.last}
          ELSE log.oldest..log.newest
Miss(ids) == missed' = missed \cup {<<log.gen, id>> : id \in ids}

Write ==
  /\ log.newest < MaxId
  /\ log' = [log EXCEPT !.newest = @ + 1]
  /\ UNCHANGED <<saved, pc, stop, starts, local, missed>>

Overwrite ==
  /\ log.oldest < log.newest
  /\ log' = [log EXCEPT !.oldest = @ + 1]
  /\ Miss(Unread \cap {log.oldest})
  /\ UNCHANGED <<saved, pc, stop, starts, local>>

Clear ==
  /\ log.gen < MaxGenerations
  /\ \E continue \in BOOLEAN :
       LET base == IF continue THEN log.newest ELSE 0
       IN log' = [gen |-> log.gen + 1, oldest |-> base + 1, newest |-> base]
  /\ Miss(Unread)
  /\ UNCHANGED <<saved, pc, stop, starts, local>>

-----------------------------------------------------------------------------
(* lifecycle_reason: the saved cursor cannot be trusted to continue. *)

(* Mutant: only the generation is compared. *)
DiscontinuousGeneration(c) == forced \/ c.legacy \/ c.gen # log.gen

Discontinuous(c) ==
  \/ forced
  \/ c.legacy
  \/ c.gen # log.gen
  \/ /\ c.last # None
     /\ \/ log.oldest <= log.newest /\ log.newest < c.last
        \/ log.oldest > c.last + 1

Offer(line, c, next) == entry' = [line |-> line, cursor |-> c, next |-> next] /\ pc' = "accept"

(* Load, test that the channel is enabled, compare. *)
Load ==
  /\ pc = "load" /\ ~stop
  /\ revision' = IF saved = None THEN 0 ELSE saved.revision
  /\ cursor' = IF saved = None THEN NoCursor ELSE saved.cursor
  /\ info' = log.gen /\ position' = None
  /\ IF saved # None /\ Discontinuous(saved.cursor)
       THEN \* only a migrated cursor keeps its bookmark
            Offer("lifecycle",
                  IF saved.cursor.legacy /\ ~forced
                    THEN [saved.cursor EXCEPT !.gen = log.gen, !.legacy = FALSE]
                    ELSE ResetTo(log.gen), "subscribe")
       ELSE pc' = "subscribe" /\ entry' = None
  /\ UNCHANGED <<log, saved, stop, starts, told, forced, missed>>

(* EvtSubscribe: strictly after the bookmark, which must still be continuous
   with the log, or from the oldest event; then the startup gap. *)
Subscribe ==
  /\ pc = "subscribe"
  /\ cursor.bookmark /\ cursor.last # None => ~Discontinuous(cursor)
  /\ position' = IF cursor.bookmark /\ cursor.last # None THEN [gen |-> log.gen, id |-> cursor.last]
                 ELSE [gen |-> log.gen, id |-> log.oldest - 1]
  /\ IF told THEN pc' = "pull" /\ entry' = None ELSE Offer("startup", None, "pull")
  /\ UNCHANGED <<log, saved, stop, starts, cursor, revision, info, told, forced, missed>>

(* The five-second check of the inner loop; a gap here resets and resubscribes. *)
Check ==
  /\ pc = "pull" /\ ~stop
  /\ IF Discontinuous(cursor)
       THEN Offer("lifecycle", ResetTo(log.gen), "load") /\ info' = info
       ELSE info' = log.gen /\ UNCHANGED <<pc, entry>>
  /\ UNCHANGED <<log, saved, stop, starts, cursor, revision, told, forced, position, missed>>

(* EvtNext.  The subscription follows the log into a new generation unless it
   is found stale; the cursor is labelled with the generation last read.  An
   event whose id does not grow, or that does not render, is told as a gap
   without its body. *)
Continuous == \/ position.gen = log.gen /\ log.oldest <= position.id + 1
              \/ position.gen # log.gen
NextId == IF position.gen = log.gen THEN position.id + 1 ELSE log.oldest

Pull ==
  /\ pc = "pull" /\ ~stop
  /\ Continuous /\ NextId <= log.newest
  /\ \E line \in {"event", "unretained"} :
       /\ cursor.last # None /\ NextId <= cursor.last => line = "unretained"
       /\ Offer(line, [gen |-> info, last |-> NextId, bookmark |-> TRUE, legacy |-> FALSE], "pull")
  /\ position' = [gen |-> log.gen, id |-> NextId]
  /\ UNCHANGED <<log, saved, stop, starts, cursor, revision, info, told, forced, missed>>

(* A stale bookmark forces a reset; any other NativeError is a plain gap. *)
Stale ==
  /\ pc = "subscribe" \/ (pc = "pull" /\ ~stop)
  /\ forced' = TRUE /\ pc' = "load"
  /\ UNCHANGED <<log, saved, stop, starts, cursor, revision, info, told, position, entry, missed>>

SourceRefused ==
  /\ pc = "subscribe" \/ (pc \in {"load", "pull"} /\ ~stop)
  /\ Offer("refused", None, "load")
  /\ UNCHANGED <<log, saved, stop, starts, cursor, revision, info, told, forced, position, missed>>

-----------------------------------------------------------------------------
(* accept: the same line until it is taken. *)
Refused ==
  /\ pc = "accept" /\ ~stop
  /\ UNCHANGED vars

Accepted ==
  /\ pc = "accept" /\ ~stop /\ entry.cursor # None
  /\ revision = (IF saved = None THEN 0 ELSE saved.revision) /\ revision < MaxRevision
  /\ saved' = [revision |-> revision + 1, cursor |-> entry.cursor]
  /\ cursor' = entry.cursor /\ revision' = revision + 1
  /\ forced' = (forced /\ entry.line # "lifecycle") /\ told' = (told \/ entry.line = "lifecycle")
  /\ missed' = IF entry.line = "lifecycle" THEN {} ELSE missed \ {<<position.gen, position.id>>}
  /\ pc' = entry.next /\ entry' = None
  /\ UNCHANGED <<log, stop, starts, info, position>>

(* A plain gap record leaves the checkpoint alone. *)
AcceptedPlain ==
  /\ pc = "accept" /\ ~stop /\ entry.cursor = None
  /\ told' = (told \/ entry.line = "startup")
  /\ pc' = entry.next /\ entry' = None
  /\ UNCHANGED <<log, saved, stop, starts, cursor, revision, info, forced, position, missed>>

-----------------------------------------------------------------------------
RequestStop ==
  /\ ~stop /\ stop' = TRUE
  /\ UNCHANGED <<log, saved, pc, starts, local, missed>>

End ==
  /\ stop /\ pc \in {"load", "pull", "accept"}
  /\ pc' = "ended" /\ entry' = None
  /\ UNCHANGED <<log, saved, stop, starts, cursor, revision, info, told, forced, position, missed>>

Restart ==
  /\ starts < MaxStarts /\ starts' = starts + 1
  /\ pc' = "load" /\ stop' = FALSE /\ told' = FALSE /\ forced' = FALSE
  /\ cursor' = NoCursor /\ revision' = 0 /\ info' = None /\ position' = None /\ entry' = None
  /\ UNCHANGED <<log, saved, missed>>

Work == Load \/ Subscribe \/ Check \/ Pull \/ Stale \/ SourceRefused \/ Accepted \/ AcceptedPlain \/ End
Next == Write \/ Overwrite \/ Clear \/ Work \/ Refused \/ RequestStop \/ Restart
Spec == Init /\ [][Next]_vars /\ WF_vars(Work)

-----------------------------------------------------------------------------
(* While events have left the log unread and no gap has said so, the durable
   cursor is recognisably behind: the comparison that every subscription and
   every five-second check makes will report the discontinuity.  So neither a
   clear between two checks, nor overwriting while a line waits for
   acceptance, nor a crash makes the source jump over events silently
   (windows_event_log.cpp 258-275, 330-420). *)
CursorSafe == missed # {} => Discontinuous(saved.cursor)
=============================================================================

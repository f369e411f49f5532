----------------------------- MODULE UsnJournal -----------------------------
(***************************************************************************)
(* The change-journal source (collectors/usn_journal.cpp): the worker of   *)
(* one volume.  It loads its durable cursor, compares it with the native   *)
(* journal, reports what it cannot have seen as a gap, reads forward, and  *)
(* commits every batch together with the cursor behind it.  A refused      *)
(* batch is offered again, unchanged, until it is accepted or the worker   *)
(* is stopped.                                                             *)
(*                                                                         *)
(* The native journal drops old records at any time, may be deleted and    *)
(* created anew, and refuses a read outside of what it holds.  Positions   *)
(* are abstract: every number is a record.                                 *)
(***************************************************************************)
EXTENDS Naturals

CONSTANTS None,
          MaxUsn,       \* bound: records of one native journal
          MaxJournals,  \* bound: native journal instances
          MaxStarts     \* bound: starts of the worker

VARIABLES native,    \* USN_JOURNAL_DATA: [id, first, next]
          saved,     \* the durable checkpoint, None or [revision, cursor]
          pc, stop, starts,
          resumed, baseline, revision, cursor,  \* locals of run
          entry,     \* the line and cursor offered to the journal
          covered    \* records some committed line holds or declares unknown

vars == <<native, saved, pc, stop, starts, resumed, baseline, revision, cursor, entry, covered>>
local == <<resumed, baseline, revision, cursor>>

Records == (1..MaxJournals) \X (1..MaxUsn)
(* Records before a cursor, in the order of journal instances. *)
Before(c) == {r \in Records : r[1] < c.id \/ (r[1] = c.id /\ r[2] < c.next)}
(* The records of a buffer that was read from one cursor to the next. *)
Batch(from, to) == Before(to) \ Before(from)
Origin == [id |-> 1, next |-> 1]

Init ==
  /\ native = [id |-> 1, first |-> 1, next |-> 1]
  /\ saved = None /\ pc = "load" /\ stop = FALSE /\ starts = 1
  /\ resumed = FALSE /\ baseline = TRUE /\ revision = 0 /\ cursor = Origin
  /\ entry = None /\ covered = {}

-----------------------------------------------------------------------------
(* The volume. *)

Append ==
  /\ native.next <= MaxUsn
  /\ native' = [native EXCEPT !.next = @ + 1]
  /\ UNCHANGED <<saved, pc, stop, starts, local, entry, covered>>

Truncate ==
  /\ native.first < native.next
  /\ native' = [native EXCEPT !.first = @ + 1]
  /\ UNCHANGED <<saved, pc, stop, starts, local, entry, covered>>

Recreate ==
  /\ native.id < MaxJournals
  /\ native' = [id |-> native.id + 1, first |-> 1, next |-> 1]
  /\ UNCHANGED <<saved, pc, stop, starts, local, entry, covered>>

-----------------------------------------------------------------------------
(* run *)

(* Load the checkpoint and open the volume; a failure of either is retried
   after a pause with everything read again. *)
Load ==
  /\ pc = "load" /\ ~stop
  /\ pc' = "query"
  /\ baseline' = (saved = None)
  /\ revision' = IF saved = None THEN 0 ELSE saved.revision
  /\ cursor' = IF saved = None THEN Origin ELSE saved.cursor
  /\ UNCHANGED <<native, saved, stop, starts, resumed, entry, covered>>

(* Mutant: a cursor one record short of the retained range is accepted. *)
DiscontinuousOffByOne(c, current) ==
  \/ c.id # current.id
  \/ c.next + 1 < current.first
  \/ c.next > current.next

Discontinuous(c, current) ==
  \/ c.id # current.id
  \/ c.next < current.first
  \/ c.next > current.next

Offer(line, c) == entry' = [line |-> line, cursor |-> c]

Query ==
  /\ pc = "query" /\ ~stop
  /\ \/ /\ baseline
        /\ Offer("gap", [id |-> native.id, next |-> native.next])
        /\ pc' = "accept"
     \/ /\ ~baseline /\ Discontinuous(cursor, native)
        /\ Offer("gap", [id |-> native.id, next |-> native.first])
        /\ pc' = "accept"
     \/ /\ ~baseline /\ ~Discontinuous(cursor, native) /\ ~resumed
        /\ Offer("resumed", cursor)
        /\ pc' = "accept"
     \/ /\ ~baseline /\ ~Discontinuous(cursor, native) /\ resumed
        /\ entry' = entry
        /\ pc' = "read"
  /\ UNCHANGED <<native, saved, stop, starts, local, covered>>

(* FSCTL_READ_USN_JOURNAL returns some records from the cursor on; a batch
   that does not decode is kept as raw bytes, so both are one line.  A read
   that returns nothing new leaves the cursor alone. *)
Read ==
  /\ pc = "read"
  /\ cursor.id = native.id /\ cursor.next \in native.first..native.next
  /\ \E next \in cursor.next..native.next :
       IF next = cursor.next
         THEN pc' = "query" /\ entry' = entry
         ELSE pc' = "accept" /\ Offer("batch", [cursor EXCEPT !.next = next])
  /\ UNCHANGED <<native, saved, stop, starts, local, covered>>

(* NativeError from query or read: the cursor is loaded again. *)
SourceFails ==
  /\ pc = "read" \/ (pc = "query" /\ ~stop)
  /\ pc' = "load"
  /\ UNCHANGED <<native, saved, stop, starts, local, entry, covered>>

-----------------------------------------------------------------------------
(* accept *)

(* Mutant: the cursor moves on although the journal refused the batch. *)
RefusedAdvances ==
  /\ pc = "accept" /\ ~stop /\ entry.line = "batch"
  /\ cursor' = entry.cursor /\ pc' = "query" /\ entry' = None
  /\ UNCHANGED <<native, saved, stop, starts, resumed, baseline, revision, covered>>

(* A refusal, or an exception of the journal, changes nothing but health. *)
Refused ==
  /\ pc = "accept" /\ ~stop
  /\ UNCHANGED vars

Accepted ==
  /\ pc = "accept" /\ ~stop
  /\ revision = (IF saved = None THEN 0 ELSE saved.revision)
  /\ saved' = [revision |-> revision + 1, cursor |-> entry.cursor]
  /\ covered' = covered \cup
       CASE entry.line = "gap" -> Before(entry.cursor)
         [] entry.line = "batch" -> Batch(cursor, entry.cursor)
         [] OTHER -> {}
  /\ revision' = revision + 1 /\ cursor' = entry.cursor
  /\ baseline' = FALSE
  /\ resumed' = (resumed \/ entry.line # "batch")
  /\ pc' = IF entry.line = "batch" THEN "query" ELSE "read"
  /\ entry' = None
  /\ UNCHANGED <<native, stop, starts>>

-----------------------------------------------------------------------------
(* request_stop, from shutdown or because the volume is gone. *)
RequestStop ==
  /\ ~stop /\ stop' = TRUE
  /\ UNCHANGED <<native, saved, pc, starts, local, entry, covered>>

(* The loop that offers a refused batch again does not look at the token. *)
EndBetweenBatches ==
  /\ stop /\ pc \in {"load", "query"}
  /\ pc' = "ended" /\ entry' = None
  /\ UNCHANGED <<native, saved, stop, starts, local, covered>>

(* Every loop tests the stop token; only a read in progress is finished. *)
End ==
  /\ stop /\ pc \in {"load", "query", "accept"}
  /\ pc' = "ended" /\ entry' = None
  /\ UNCHANGED <<native, saved, stop, starts, local, covered>>

(* A crash at any point, or a new worker after the end. *)
Restart ==
  /\ starts < MaxStarts /\ starts' = starts + 1
  /\ pc' = "load" /\ stop' = FALSE /\ resumed' = FALSE /\ entry' = None
  /\ baseline' = TRUE /\ revision' = 0 /\ cursor' = Origin
  /\ UNCHANGED <<native, saved, covered>>

Work == Load \/ Query \/ Read \/ SourceFails \/ Accepted \/ End
Next == Append \/ Truncate \/ Recreate \/ Work \/ Refused \/ RequestStop \/ Restart
Spec == Init /\ [][Next]_vars /\ WF_vars(Work)

-----------------------------------------------------------------------------
(* Records that the volume no longer holds. *)
Gone == {r \in Records : \/ r[1] < native.id
                         \/ r[1] = native.id /\ r[2] < native.first}

(* Everything that existed before the durable cursor is in a committed batch
   or was declared unknown by a committed gap, and a record that the volume
   dropped unread makes the next comparison of cursor and journal fail, so a
   gap will tell.  This is what makes a crash, a refused commit or a journal
   deleted between query and read harmless (run, usn_journal.cpp 390-470). *)
CursorSafe ==
  saved # None =>
    /\ \A r \in Before(saved.cursor) : r \in covered
    /\ ((Gone \ covered # {}) => Discontinuous(saved.cursor, native))

(* A worker asked to stop ends, also while the journal refuses its batch and
   while its native source fails. *)
WorkerEnds == stop ~> (pc = "ended" \/ ~stop)
=============================================================================

--------------------------- MODULE DiagnosticOutput ---------------------------
(***************************************************************************)
(* The diagnostic display (diagnostic_output.cpp): any thread submits a    *)
(* line to a bounded ring, one worker writes them with blocking native     *)
(* calls that may never return, and the main thread closes within a        *)
(* deadline: it drains for a moment, abandons what is queued, cancels the  *)
(* write and at last lets the thread go.                                   *)
(***************************************************************************)
EXTENDS Naturals, Sequences, SequencesExt

CONSTANTS EventLimit, ByteLimit,
          Charges,   \* what a line may be charged
          MaxLines   \* bound: lines submitted

VARIABLES queue,     \* charges of the queued lines
          bytes, item, \* item: charge of the line being written, 0 for none
          admitted, completed, failed, abandoned, refused,
          available, accepting, closing, abort, done,
          pc,        \* the worker: "wait", "write", "ended"
          main,      \* close(): "open", "drain", "cancel", "expired", "joined", "detached"
          deadline   \* deadline_exceeded

vars == <<queue, bytes, item, admitted, completed, failed, abandoned, refused,
          available, accepting, closing, abort, done, pc, main, deadline>>
counters == <<admitted, completed, failed, abandoned, refused>>
flags == <<available, accepting, closing, abort, done>>
Owned == Len(queue) + (IF item = 0 THEN 0 ELSE 1)

(* Without a usable handle the worker is never started. *)
Init ==
  /\ queue = <<>> /\ bytes = 0 /\ item = 0
  /\ admitted = 0 /\ completed = 0 /\ failed = 0 /\ abandoned = 0 /\ refused = 0
  /\ available \in BOOLEAN /\ accepting = available /\ done = ~available
  /\ closing = FALSE /\ abort = FALSE
  /\ pc = IF available THEN "wait" ELSE "ended"
  /\ main = "open" /\ deadline = FALSE

-----------------------------------------------------------------------------
(* try_submit: the line in flight still counts against both limits. *)
TrySubmit ==
  /\ admitted + refused < MaxLines
  /\ \E charge \in Charges :
       IF ~accepting \/ Owned >= EventLimit \/ charge > ByteLimit - bytes
       THEN refused' = refused + 1 /\ UNCHANGED <<queue, bytes, admitted>>
       ELSE /\ queue' = Append(queue, charge) /\ bytes' = bytes + charge
            /\ admitted' = admitted + 1 /\ refused' = refused
  /\ UNCHANGED <<item, completed, failed, abandoned, flags, pc, main, deadline>>

Charged(lines) == FoldSeq(LAMBDA charge, sum : charge + sum, 0, lines)

AbandonQueued == queue' = <<>> /\ bytes' = bytes - Charged(queue) /\ abandoned' = abandoned + Len(queue)

(* The worker ends, or takes the next line. *)
WorkerEnds ==
  /\ pc = "wait" /\ (abort \/ ~available \/ (queue = <<>> /\ closing))
  /\ AbandonQueued /\ done' = TRUE /\ pc' = "ended"
  /\ UNCHANGED <<item, admitted, completed, failed, refused, available, accepting, closing, abort, main, deadline>>

Take ==
  /\ pc = "wait" /\ ~abort /\ available /\ queue # <<>>
  /\ item' = Head(queue) /\ queue' = Tail(queue) /\ pc' = "write"
  /\ UNCHANGED <<bytes, counters, flags, main, deadline>>

Settled == item' = 0 /\ bytes' = bytes - item /\ pc' = "wait"

(* WriteFile returns: the whole line, or after parts of it an error, no
   progress, a cancellation or the abort flag. *)
Written ==
  /\ pc = "write" /\ Settled /\ completed' = completed + 1
  /\ UNCHANGED <<queue, admitted, failed, abandoned, refused, flags, main, deadline>>
WriteFails ==
  /\ pc = "write" /\ Settled /\ failed' = failed + 1
  /\ available' = FALSE /\ accepting' = FALSE
  /\ UNCHANGED <<queue, admitted, completed, abandoned, refused, closing, abort, done, main, deadline>>

-----------------------------------------------------------------------------
(* A worker was started: it is there, or a failed write ended it. *)
Joinable == available \/ admitted > 0

Close ==
  /\ main = "open" /\ Joinable
  /\ accepting' = FALSE /\ closing' = TRUE /\ main' = "drain"
  /\ UNCHANGED <<queue, bytes, item, counters, available, abort, done, pc, deadline>>

(* The first wait is over: done, or time is up. *)
Drained == main = "drain" /\ done /\ main' = "cancel"
           /\ UNCHANGED <<queue, bytes, item, counters, flags, pc, deadline>>
Abandon ==
  /\ main = "drain" /\ ~done /\ main' = "cancel"
  /\ abort' = TRUE /\ AbandonQueued
  /\ UNCHANGED <<item, admitted, completed, failed, refused, available, accepting, closing, done, pc, deadline>>

(* The second deadline: a write that cannot be cancelled is given up. *)
Expire ==
  /\ main = "cancel" /\ ~done /\ main' = "expired"
  /\ deadline' = TRUE /\ available' = FALSE
  /\ UNCHANGED <<queue, bytes, item, counters, accepting, closing, abort, done, pc>>

(* The last look: a worker that ended meanwhile is joined all the same. *)
Join == main \in {"cancel", "expired"} /\ done /\ main' = "joined"
        /\ UNCHANGED <<queue, bytes, item, counters, flags, pc, deadline>>

(* Mutant: the write is cancelled again and again, and waited for. *)
DetachAfterWrite ==
  /\ main = "expired" /\ ~done /\ pc # "write" /\ main' = "detached"
  /\ UNCHANGED <<queue, bytes, item, counters, flags, pc, deadline>>

Detach ==
  /\ main = "expired" /\ ~done /\ main' = "detached"
  /\ UNCHANGED <<queue, bytes, item, counters, flags, pc, deadline>>

Worker == WorkerEnds \/ Take \/ Written \/ WriteFails
Main == Drained \/ Abandon \/ Expire \/ Join \/ Detach
Next == TrySubmit \/ Close \/ Worker \/ Main

(* The threads are scheduled and the deadlines run out; a native write need
   not ever return. *)
Spec == Init /\ [][Next]_vars /\ WF_vars(Main) /\ WF_vars(WorkerEnds \/ Take)

-----------------------------------------------------------------------------
(* Every admitted line is accounted for once, as written, failed, abandoned
   or still owned, and the charge of the owned ones is exact, while worker and
   close both empty the ring; nothing is owned once the worker was joined. *)
LinesAccounted ==
  /\ admitted = completed + failed + abandoned + Owned
  /\ bytes = Charged(queue) + item /\ bytes <= ByteLimit /\ Owned <= EventLimit
  /\ main = "joined" => Owned = 0
  /\ main = "detached" => deadline /\ queue = <<>> /\ ~accepting

Closing == main = "drain"
Closed == main \in {"joined", "detached"}

(* close returns, whether or not the write in progress ever does. *)
CloseReturns == Closing ~> Closed
=============================================================================

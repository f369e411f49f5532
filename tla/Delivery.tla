------------------------------ MODULE Delivery ------------------------------
(***************************************************************************)
(* Telemetry delivery (delivery/uploader.cpp): callers enqueue into the    *)
(* journal while one worker thread peeks a batch, posts it to the Manager  *)
(* and applies the receipt.  The journal is module Journal: an enqueue is  *)
(* one of its append actions, applying a receipt is its receipt            *)
(* transaction, row by row.  The Manager and the network are external.     *)
(*                                                                         *)
(* phase is where the worker is: "wait" on its condition variable, "peek"  *)
(* at the head of its burst loop, "post" with a batch, "reply" with the    *)
(* outcome of the request, "ack" inside acknowledge, or "stopped".         *)
(***************************************************************************)
EXTENDS Journal

CONSTANTS
  Refused,      \* lines the Manager rejects (schema, version or JSON)
  ReasonLength, \* length of "reason: detail" of a rejection
  BatchBytes,   \* 8 MiB in the code
  Burst,        \* 64 in the code
  BaseBackoff,  \* spool_base_backoff_ms
  MaxBackoff,   \* spool_max_backoff_ms
  NoReply,      \* no response, or a status other than 200
  MaxFaults     \* bound: stops, crashes and failures of local storage

ASSUME DeliveryAssumption ==
  /\ Refused \subseteq Records /\ ReasonLength \in ReasonSizes
  /\ BatchBytes \in Nat /\ MaxBatch >= 1 /\ \A r \in Records : WireSize[r] <= BatchBytes
  /\ Burst \in Nat \ {0} /\ MaxFaults \in Nat
  /\ BaseBackoff \in Nat \ {0} /\ MaxBackoff \in Nat /\ BaseBackoff <= MaxBackoff

VARIABLES phase, batch, reply, count, backoff, held, wake, stop, stored, faults

worker == <<phase, batch, reply, count, backoff, held>>
flags == <<wake, stop>>
dvars == <<vars, worker, flags, stored, faults>>

DeliveryInit ==
  /\ Init
  /\ phase = "wait" /\ batch = <<>> /\ reply = NoReply /\ count = 0
  /\ backoff = BaseBackoff /\ held = FALSE /\ wake = FALSE /\ stop = FALSE
  /\ stored = {} /\ faults = 0

-----------------------------------------------------------------------------
(* The constructor opens the journal, which imports the legacy spool. *)
OpenJournal ==
  /\ SkipFrame \/ BeginImport \/ ImportLine \/ CommitImport
  /\ UNCHANGED <<worker, flags, stored, faults>>

(* Callers: enqueue, enqueue_checkpointed, advance_checkpoint.  A refused    *)
(* commit only counts in the health record, which is not modelled.           *)

EnqueueLine(r) ==
  /\ ~stop /\ AppendRecord(r)
  /\ wake' = TRUE /\ UNCHANGED <<worker, stop, stored, faults>>

EnqueueCheckpointed(r, s, value, expected) ==
  /\ ~stop
  /\ AppendCheckpointed(r, s, value, expected) \/ RepeatCheckpointed(r, s, value, expected)
  /\ wake' = TRUE /\ UNCHANGED <<worker, stop, stored, faults>>

Advance(s, value, expected) ==
  /\ ~stop /\ AdvanceCheckpoint(s, value, expected)
  /\ UNCHANGED <<worker, flags, stored, faults>>

RequestStop ==
  /\ ~stop /\ faults < MaxFaults
  /\ stop' = TRUE /\ faults' = faults + 1
  /\ UNCHANGED <<vars, worker, wake, stored>>

-----------------------------------------------------------------------------
(* The worker loop. *)

(* Mutant: the wait has no timeout and no stop condition. *)
WakeOnNotifyOnly ==
  /\ phase = "wait" /\ Opened /\ wake
  /\ wake' = FALSE
  /\ phase' = IF stop THEN "stopped" ELSE IF held THEN "wait" ELSE "peek"
  /\ count' = 0
  /\ UNCHANGED <<vars, batch, reply, backoff, held, stop, stored, faults>>

(* wait_for returns on a wake, on stop or after flush_interval_ms. *)
Wake ==
  /\ phase = "wait" /\ Opened
  /\ wake' = FALSE
  /\ phase' = IF stop THEN "stopped" ELSE IF held THEN "wait" ELSE "peek"
  /\ count' = 0
  /\ UNCHANGED <<vars, batch, reply, backoff, held, stop, stored, faults>>

SeqOf(d) == [r \in Records |-> d.obs[r].seq]
Oldest(d, r) == r \in Pending(d) /\ \A q \in Pending(d) : SeqOf(d)[r] <= SeqOf(d)[q]

(* Mutant: the query orders by descending seq. *)
IsPeekNewest(d, b) ==
  \E head \in Records :
    /\ Oldest(d, head)
    /\ { b[i] : i \in DOMAIN b } =
         Page({ r \in Pending(d) : Proto[r] = Proto[head] },
              [r \in Records |-> MaxSeq - SeqOf(d)[r]], MaxBatch, BatchBytes)

(* b is what peek returns: the longest prefix of the pending lines of the   *)
(* head's protocol within the event and byte limits, in order of seq.       *)
IsPeek(d, b) ==
  \E head \in Records :
    /\ Oldest(d, head)
    /\ { b[i] : i \in DOMAIN b } =
         Page({ r \in Pending(d) : Proto[r] = Proto[head] }, SeqOf(d), MaxBatch, BatchBytes)
    /\ \A i, j \in DOMAIN b : i < j => SeqOf(d)[b[i]] < SeqOf(d)[b[j]]

EndBurst ==
  /\ phase = "peek"
  /\ stop \/ count = Burst \/ Pending(db) = {}
  /\ phase' = IF stop THEN "stopped" ELSE "wait"
  /\ UNCHANGED <<vars, batch, reply, count, backoff, held, flags, stored, faults>>

(* peek throws on an SQLite or DPAPI failure: retry after the longest delay. *)
PeekThrows ==
  /\ phase = "peek" /\ ~stop /\ count < Burst
  /\ faults < MaxFaults /\ faults' = faults + 1
  /\ phase' = "wait" /\ held' = TRUE
  /\ UNCHANGED <<vars, batch, reply, count, backoff, flags, stored>>

Peek ==
  /\ phase = "peek" /\ ~stop /\ count < Burst
  /\ \E b \in Batches : IsPeek(db, b) /\ batch' = b
  /\ phase' = "post"
  /\ UNCHANGED <<vars, reply, count, backoff, held, flags, stored, faults>>

-----------------------------------------------------------------------------
(* The Manager: stores the lines it does not refuse, once, and accounts for *)
(* every line of the batch in its receipt.                                  *)

LinesOf(b) == { b[i] : i \in DOMAIN b }
RefusedLines(b) == { i \in DOMAIN b : b[i] \in Refused }

(* The refused line numbers of b, ascending. *)
IsListing(s, S) ==
  /\ DOMAIN s = 1 .. Cardinality(S) /\ { s[i] : i \in DOMAIN s } = S
  /\ \A i, j \in DOMAIN s : i < j => s[i] < s[j]

Receipt(b, listing) ==
  [id |-> b, received |-> Len(b),
   accepted |-> Cardinality(LinesOf(b) \ (stored \cup Refused)),
   duplicates |-> Cardinality(LinesOf(b) \cap stored),
   rejected |-> listing]

(* Bodies with status 200 that do not answer this request: another batch's  *)
(* receipt, one that accounts for nothing, one that lists a line twice.     *)
Garbled(b) ==
  LET n == Len(b)
      Body(id, acc, rej) == [id |-> id, received |-> n, accepted |-> acc,
                             duplicates |-> 0, rejected |-> rej]
  IN  {Body(<<>>, n, <<>>), Body(b, 0, <<>>)}
        \cup { Body(b, 0, [i \in DOMAIN b |-> 1]) : k \in 2 .. n }

PostAnswered ==
  /\ phase = "post"
  /\ \E n \in 0 .. MaxBatch : \E listing \in [1 .. n -> 1 .. MaxBatch] :
       IsListing(listing, RefusedLines(batch)) /\ reply' = Receipt(batch, listing)
  /\ stored' = stored \cup (LinesOf(batch) \ Refused)
  /\ phase' = "reply"
  /\ UNCHANGED <<vars, batch, count, backoff, held, flags, faults>>

(* The answer is lost after the Manager stored the lines, or nothing was. *)
PostUnanswered ==
  /\ phase = "post"
  /\ stored' \in {stored, stored \cup (LinesOf(batch) \ Refused)}
  /\ reply' = NoReply /\ phase' = "reply"
  /\ UNCHANGED <<vars, batch, count, backoff, held, flags, faults>>

PostGarbled ==
  /\ phase = "post"
  /\ reply' \in Garbled(batch)
  /\ phase' = "reply"
  /\ UNCHANGED <<vars, batch, count, backoff, held, flags, stored, faults>>

-----------------------------------------------------------------------------
(* The outcome of deliver_one. *)

(* Mutant: the counts need not add up to the batch. *)
ValidReceiptPartial(b, rc) ==
  /\ rc # NoReply
  /\ rc.id = b /\ rc.received = Len(b)
  /\ rc.accepted <= rc.received /\ rc.duplicates <= rc.received

(* Mutant: a line may be rejected twice. *)
ValidReceiptRepeats(b, rc) ==
  /\ rc # NoReply
  /\ rc.id = b /\ rc.received = Len(b)
  /\ rc.accepted + rc.duplicates + Len(rc.rejected) = rc.received
  /\ \A i \in DOMAIN rc.rejected : rc.rejected[i] \in 1 .. rc.received

ValidReceipt(b, rc) ==
  /\ rc # NoReply
  /\ rc.id = b /\ rc.received = Len(b)
  /\ rc.accepted <= rc.received /\ rc.duplicates <= rc.received
  /\ rc.accepted + rc.duplicates + Len(rc.rejected) = rc.received
  /\ \A i \in DOMAIN rc.rejected : rc.rejected[i] \in 1 .. rc.received
  /\ \A i, j \in DOMAIN rc.rejected : rc.rejected[i] = rc.rejected[j] => i = j

(* Mutant: the line numbers of a receipt are taken as indices from zero. *)
ReasonsFromZero(rc) ==
  [line \in { rc.rejected[i] - 1 : i \in DOMAIN rc.rejected } |-> ReasonLength]

Reasons(rc) == [line \in { rc.rejected[i] : i \in DOMAIN rc.rejected } |-> ReasonLength]

(* Mutant: the doubling is not capped. *)
BackOffUncapped ==
  /\ phase' = "wait" /\ held' = TRUE
  /\ backoff' = 2 * backoff
  /\ batch' = <<>> /\ reply' = NoReply

(* outcome < 0: retry_at lies ahead and the next backoff doubles. *)
BackOff ==
  /\ phase' = "wait" /\ held' = TRUE
  /\ backoff' = IF 2 * backoff < MaxBackoff THEN 2 * backoff ELSE MaxBackoff
  /\ batch' = <<>> /\ reply' = NoReply

RefuseReply ==
  /\ phase = "reply" /\ ~ValidReceipt(batch, reply)
  /\ BackOff
  /\ UNCHANGED <<vars, count, flags, stored, faults>>

ApplyReceipt ==
  /\ phase = "reply" /\ ValidReceipt(batch, reply)
  /\ BeginAcknowledge(batch, Reasons(reply))
  /\ phase' = "ack"
  /\ UNCHANGED <<batch, reply, count, backoff, held, flags, stored, faults>>

ApplyRow ==
  /\ phase = "ack" /\ AcknowledgeRow
  /\ UNCHANGED <<worker, flags, stored, faults>>

ReceiptApplied ==
  /\ phase = "ack" /\ CommitAcknowledge
  /\ phase' = "peek" /\ count' = count + 1 /\ backoff' = BaseBackoff
  /\ batch' = <<>> /\ reply' = NoReply
  /\ UNCHANGED <<held, flags, stored, faults>>

(* acknowledge throws: the metadata quota refuses a rejection, or local     *)
(* storage fails.  The receipt counts as invalid.                           *)
ReceiptRefused ==
  /\ phase = "ack" /\ tx.next \in DOMAIN tx.rejected
  /\ ~RejectFits(view, tx.batch[tx.next], tx.rejected[tx.next])
  /\ Rollback /\ BackOff
  /\ UNCHANGED <<count, flags, stored, faults>>

ReceiptThrows ==
  /\ phase = "ack" /\ faults < MaxFaults /\ faults' = faults + 1
  /\ Rollback /\ BackOff
  /\ UNCHANGED <<count, flags, stored>>

RetryTimeReached ==
  /\ held /\ held' = FALSE
  /\ UNCHANGED <<vars, phase, batch, reply, count, backoff, flags, stored, faults>>

Reset ==
  /\ phase' = "wait" /\ batch' = <<>> /\ reply' = NoReply /\ count' = 0
  /\ backoff' = BaseBackoff /\ held' = FALSE /\ wake' = FALSE /\ stop' = FALSE
  /\ UNCHANGED stored

(* The process dies anywhere, or starts again after an orderly stop. *)
CrashRestart ==
  /\ faults < MaxFaults /\ faults' = faults + 1
  /\ Crash /\ Reset

Restart ==
  /\ phase = "stopped" /\ Crash /\ Reset
  /\ UNCHANGED faults

DeliveryNext ==
  \/ OpenJournal
  \/ \E r \in Appendable : EnqueueLine(r)
  \/ \E r \in Appendable, s \in Sources, value \in Cursors,
        expected \in 0 .. MaxRevision - 1 : EnqueueCheckpointed(r, s, value, expected)
  \/ \E s \in Sources, value \in Cursors, expected \in 0 .. MaxRevision - 1 :
       Advance(s, value, expected)
  \/ RequestStop \/ Wake \/ EndBurst \/ PeekThrows \/ Peek
  \/ PostAnswered \/ PostUnanswered \/ PostGarbled
  \/ RefuseReply \/ ApplyReceipt \/ ApplyRow \/ ReceiptApplied
  \/ ReceiptRefused \/ ReceiptThrows
  \/ RetryTimeReached \/ CrashRestart \/ Restart

DeliverySafe == DeliveryInit /\ [][DeliveryNext]_dvars

(* The worker thread is scheduled, timers run, a stopped service is started *)
(* again, and a Manager that keeps being asked sometimes answers.           *)
Fairness ==
  /\ WF_dvars(OpenJournal) /\ WF_dvars(Wake) /\ WF_dvars(EndBurst) /\ WF_dvars(Peek)
  /\ WF_dvars(RefuseReply) /\ WF_dvars(ApplyReceipt) /\ WF_dvars(ApplyRow)
  /\ WF_dvars(ReceiptApplied) /\ WF_dvars(ReceiptRefused)
  /\ WF_dvars(PostAnswered \/ PostUnanswered \/ PostGarbled) /\ SF_dvars(PostAnswered)
  /\ WF_dvars(RetryTimeReached) /\ WF_dvars(Restart)

DeliverySpec == DeliverySafe /\ Fairness

-----------------------------------------------------------------------------
(* Properties. *)

(* Every variable of the worker keeps its type. *)
DeliveryTypeOK ==
  /\ phase \in {"wait", "peek", "post", "reply", "ack", "stopped"}
  /\ batch \in Batches \cup {<<>>}
  /\ count \in 0 .. Burst /\ backoff \in BaseBackoff .. MaxBackoff
  /\ held \in BOOLEAN /\ wake \in BOOLEAN /\ stop \in BOOLEAN
  /\ stored \subseteq Records /\ faults \in 0 .. MaxFaults

(* "HTTP 200 alone acknowledges nothing" (DURABLE_JOURNAL.md 30): whatever  *)
(* is lost, garbled, repeated or cut short by a crash, the agent deletes a  *)
(* line as delivered only if the Manager has it.                            *)
DeliveredIsStored == confirmed \subseteq stored

(* A rejection is associated with the line it names (acknowledge 739-757):  *)
(* only lines the Manager refuses ever become dead letters.                 *)
DeadIsRefused == Dead(db) \subseteq Refused

(* Lines of one protocol leave the queue oldest first (peek 502-536): no    *)
(* line is settled while an older one of its protocol stays pending.        *)
OldestFirst ==
  [][ \A q, r \in Pending(db) :
        /\ Proto[q] = Proto[r] /\ SeqOf(db)[q] < SeqOf(db)[r]
        /\ r \notin Pending(db')
        => q \notin Pending(db') ]_dvars

Owner ==
  [r \in Records |-> IF r \in Pending(db) THEN "agent"
                     ELSE IF r \in Dead(db) THEN "refused"
                     ELSE IF r \in confirmed THEN "manager" ELSE "source"]

Handover == INSTANCE Custody WITH Refusable <- Refused, owner <- Owner, archive <- stored

(* Delivery implements Custody: each line has one owner, and changes hands  *)
(* only the way the abstract specification allows.                          *)
CustodyKept == Handover!Spec

(* A pending line is eventually settled: retries survive lost answers,      *)
(* garbled receipts, backoff, stops, crashes and failures of storage, and   *)
(* neither protocol starves the other (run 103-140, peek 506-511).          *)
EventuallySettled == \A r \in Records : r \in Pending(db) ~> r \notin Pending(db)

(* stop() joins the worker (94-101): it always leaves its loop. *)
StopCompletes == stop ~> (phase = "stopped" \/ ~stop)

-----------------------------------------------------------------------------
(* The inductive invariant, beside JournalInv. *)

(* A reply that passes validation tells the truth about this batch. *)
Truthful(b, rc) ==
  ValidReceipt(b, rc) =>
    /\ { rc.rejected[i] : i \in DOMAIN rc.rejected } = RefusedLines(b)
    /\ LinesOf(b) \ Refused \subseteq stored

(* What an open transaction has done so far to the rows it has passed, and  *)
(* that it has touched no others.                                           *)
ViewTracks ==
  /\ tx.op = "ack" =>
       /\ tx.batch = batch /\ DOMAIN tx.rejected = RefusedLines(batch)
       /\ LinesOf(batch) \ Refused \subseteq stored
       /\ \A r \in Records \ LinesOf(batch) : view.obs[r] = db.obs[r]
       /\ \A i \in DOMAIN batch : i < tx.next =>
            view.obs[batch[i]].state = IF batch[i] \in Refused THEN "dead" ELSE "absent"
       /\ \A i \in DOMAIN batch : i >= tx.next => view.obs[batch[i]] = db.obs[batch[i]]
  /\ tx.op = "import" =>
       \A r \in Records : \/ view.obs[r] = db.obs[r]
                          \/ db.obs[r].state = "absent" /\ view.obs[r].state = "pending"

(* The invariant of delivery: the batch in hand is pending until its        *)
(* receipt commits, a reply that would be applied is truthful, and the open *)
(* transaction does exactly what that reply says.                           *)
DeliveryInv ==
  /\ DeliveryTypeOK
  /\ phase = "ack" <=> tx.op = "ack"
  /\ phase \in {"post", "reply", "ack"} =>
       batch \in Batches /\ LinesOf(batch) \subseteq Pending(db) /\ count < Burst
  /\ phase = "reply" => Truthful(batch, reply)
  /\ ViewTracks
  /\ stored \cap Refused = {}
  /\ DeliveredIsStored /\ DeadIsRefused
=============================================================================

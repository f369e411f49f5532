--------------------------- MODULE DeliveryProofs ---------------------------
(***************************************************************************)
(* Delivery uses the journal correctly (every step is a journal step), its *)
(* invariant, and the proof that it implements Custody.                    *)
(***************************************************************************)
EXTENDS Delivery, JournalProofs

(* Time for each leaf: the images have many fields. *)
USE SMTT(20), ZenonT(20)

-----------------------------------------------------------------------------
(* Batches. *)

(* A batch is a non-empty sequence of distinct lines. *)
LEMMA BatchFacts ==
  ASSUME NEW b \in Batches
  PROVE  /\ b \in Seq(Records) /\ Len(b) \in Nat /\ Len(b) >= 1
         /\ DOMAIN b = 1 .. Len(b) /\ b # <<>>
         /\ \A i \in DOMAIN b : b[i] \in Records
         /\ \A i, j \in DOMAIN b : b[i] = b[j] => i = j
         /\ LinesOf(b) \subseteq Records
<1>1. PICK n \in 1 .. MaxBatch : b \in [1 .. n -> Records]
  BY DEF Batches
<1>2. n \in Nat /\ n >= 1
  BY LimitsAssumption
<1>3. b \in Seq(Records) /\ Len(b) = n
  BY <1>1, <1>2
<1>4. \A i, j \in DOMAIN b : b[i] = b[j] => i = j
  BY DEF Batches
<1> QED BY <1>1, <1>2, <1>3, <1>4 DEF LinesOf

(* The reply to a batch never validates unless it is truthful. *)
LEMMA GarbledInvalid ==
  ASSUME NEW b \in Batches, NEW rc \in Garbled(b)
  PROVE  ~ValidReceipt(b, rc)
<1>0. Len(b) \in Nat /\ Len(b) >= 1 /\ DOMAIN b = 1 .. Len(b) /\ b # <<>>
  BY BatchFacts
<1>1. CASE rc.id = <<>>
  BY <1>0, <1>1 DEF ValidReceipt
<1>2. CASE rc.rejected = <<>> /\ rc.accepted = 0 /\ rc.duplicates = 0 /\ rc.received = Len(b)
  BY <1>0, <1>2 DEF ValidReceipt
<1>3. CASE \E k \in 2 .. Len(b) : rc.rejected = [i \in DOMAIN b |-> 1]
  <2>1. 1 \in DOMAIN rc.rejected /\ 2 \in DOMAIN rc.rejected
        /\ rc.rejected[1] = rc.rejected[2]
    BY <1>0, <1>3
  <2> QED BY <2>1 DEF ValidReceipt
<1> QED BY <1>1, <1>2, <1>3 DEF Garbled

-----------------------------------------------------------------------------
(* Every step of delivery is a step of the journal: in particular a receipt *)
(* is applied only to a batch and to rejections the journal can be handed.  *)
LEMMA StepIsNext == DeliveryInv /\ [DeliveryNext]_dvars => [Next]_vars
<1> SUFFICES ASSUME DeliveryInv, [DeliveryNext]_dvars PROVE [Next]_vars
  OBVIOUS
<1>1. CASE OpenJournal
  BY <1>1 DEF OpenJournal, Next
<1>2. CASE \E r \in Appendable : EnqueueLine(r)
  BY <1>2 DEF EnqueueLine, Next
<1>3. CASE \E r \in Appendable, s \in Sources, value \in Cursors,
             expected \in 0 .. MaxRevision - 1 : EnqueueCheckpointed(r, s, value, expected)
  BY <1>3 DEF EnqueueCheckpointed, Next
<1>4. CASE \E s \in Sources, value \in Cursors, expected \in 0 .. MaxRevision - 1 :
             Advance(s, value, expected)
  BY <1>4 DEF Advance, Next
<1>5. CASE UNCHANGED vars
  BY <1>5
<1>6. CASE ApplyReceipt
  <2>1. batch \in Batches
    BY <1>6 DEF ApplyReceipt, DeliveryInv
  <2>2. DOMAIN Reasons(reply) \subseteq DOMAIN batch
    BY <1>6, <2>1, BatchFacts DEF ApplyReceipt, ValidReceipt, Reasons
  <2>3. Reasons(reply) \in [DOMAIN Reasons(reply) -> ReasonSizes]
    BY DeliveryAssumption DEF Reasons
  <2>4. Reasons(reply) \in Rejections(batch)
    BY <2>2, <2>3 DEF Rejections
  <2> QED BY <1>6, <2>1, <2>4 DEF ApplyReceipt, Next
<1>7. CASE ApplyRow \/ ReceiptApplied \/ ReceiptRefused \/ ReceiptThrows \/ CrashRestart \/ Restart
  BY <1>7 DEF ApplyRow, ReceiptApplied, ReceiptRefused, ReceiptThrows, CrashRestart,
              Restart, Next
<1> QED BY <1>1, <1>2, <1>3, <1>4, <1>5, <1>6, <1>7
    DEF DeliveryNext, RequestStop, Wake, EndBurst, PeekThrows, Peek, PostAnswered,
        PostUnanswered, PostGarbled, RefuseReply, RetryTimeReached, dvars

-----------------------------------------------------------------------------
(* What the journal's statements do to the rows of the queue. *)

(* e is d with some absent lines queued. *)
Grows(d, e) ==
  \A r \in Records : \/ e.obs[r] = d.obs[r]
                     \/ d.obs[r].state = "absent" /\ e.obs[r].state = "pending"

(* An insert queues its line if the table has no row of it. *)
LEMMA InsertGrows ==
  ASSUME NEW d \in Image, NEW r \in Records, NEW n
  PROVE  Grows(d, Insert(d, r, n))
<1>1. Archive(d, r).obs = d.obs
  BY DEF Archive, IndexProcess, Image
<1>2. d.obs \in [Records -> Row] /\ Archive(d, r) = [Archive(d, r) EXCEPT !.obs = d.obs]
      /\ "obs" \in DOMAIN Archive(d, r)
      /\ "retained" \in DOMAIN Archive(d, r) /\ "pending" \in DOMAIN Archive(d, r)
  BY <1>1, SMTT(30), ZenonT(30) DEF Archive, IndexProcess, Image
<1>3. CASE d.obs[r].state = "absent"
  <2>1. Insert(d, r, n).obs =
          [d.obs EXCEPT ![r] = [state |-> "pending", seq |-> n, reason |-> 0]]
    BY <1>1, <1>2, <1>3 DEF Insert, Enqueue, Missing
  <2> QED BY <1>2, <1>3, <2>1 DEF Grows
<1>4. CASE d.obs[r].state # "absent"
  BY <1>1, <1>4 DEF Insert, Enqueue, Missing, Grows
<1> QED BY <1>3, <1>4

(* Saving a checkpoint leaves the rows alone. *)
LEMMA SaveRows ==
  ASSUME NEW d \in Image, NEW s, NEW value, NEW digest, NEW expected
  PROVE  SaveCheckpoint(d, s, value, digest, expected).obs = d.obs
  BY DEF SaveCheckpoint, Image

(* An insert yields an image again, as far as saving a cursor needs. *)
LEMMA InsertDomain ==
  ASSUME NEW d \in Image, NEW r \in Records, NEW n, NEW s, NEW value, NEW digest, NEW expected
  PROVE  SaveCheckpoint(Insert(d, r, n), s, value, digest, expected).obs = Insert(d, r, n).obs
<1>1. "obs" \in DOMAIN Insert(d, r, n) /\ "cps" \in DOMAIN Insert(d, r, n)
  BY DEF Insert, Enqueue, Archive, IndexProcess, Image
<1> QED BY <1>1 DEF SaveCheckpoint

-----------------------------------------------------------------------------
(* The invariant, one lemma per group of steps. *)

(* Queueing keeps what is pending and adds no dead letter. *)
LEMMA GrowsRows ==
  ASSUME NEW d, NEW e, Grows(d, e)
  PROVE  Pending(d) \subseteq Pending(e) /\ Dead(e) = Dead(d)
  BY DEF Grows, Pending, Dead, In

(* A committed transaction of a caller or of the import that only queues    *)
(* lines leaves delivery's invariant alone, wherever the worker is.         *)
LEMMA QueueInv ==
  ASSUME DeliveryInv, tx.op # "ack", tx'.op = "none", Grows(db, db'),
         UNCHANGED <<worker, stop, stored, faults, confirmed>>, wake' \in BOOLEAN
  PROVE  DeliveryInv'
<1>1. Pending(db) \subseteq Pending(db') /\ Dead(db') = Dead(db)
  BY GrowsRows
<1>2. DeliveryTypeOK'
  BY DEF DeliveryInv, DeliveryTypeOK, worker
<1>3. phase' = phase /\ batch' = batch /\ count' = count /\ reply' = reply /\ phase # "ack" /\ stored' = stored
  BY DEF DeliveryInv, worker
<1>4. Truthful(batch, reply) => Truthful(batch, reply)'
  BY <1>3 DEF Truthful
<1>5. ViewTracks'
  BY DEF ViewTracks
<1>6. (DeliveredIsStored /\ DeadIsRefused)'
  BY <1>1 DEF DeliveryInv, DeliveredIsStored, DeadIsRefused
<1> QED BY <1>1, <1>2, <1>3, <1>4, <1>5, <1>6 DEF DeliveryInv

(* The callers' transactions only queue lines. *)
LEMMA CallersGrow ==
  ASSUME JournalInv, DeliveryInv,
         \/ \E r \in Appendable : EnqueueLine(r)
         \/ \E r \in Appendable, s \in Sources, value \in Cursors,
               expected \in 0 .. MaxRevision - 1 : EnqueueCheckpointed(r, s, value, expected)
         \/ \E s \in Sources, value \in Cursors, expected \in 0 .. MaxRevision - 1 :
               Advance(s, value, expected)
  PROVE  /\ Grows(db, db') /\ tx.op # "ack" /\ tx'.op = "none" /\ wake' \in BOOLEAN
         /\ UNCHANGED <<worker, stop, stored, faults, confirmed>>
<1>0. db \in Image /\ Appendable \subseteq Records
  BY DEF JournalInv, TypeOK, Appendable
<1>1. CASE \E r \in Appendable : EnqueueLine(r)
  <2>1. PICK r \in Appendable : EnqueueLine(r)
    BY <1>1
  <2>2. Grows(db, db')
    BY <1>0, <2>1, InsertGrows DEF EnqueueLine, AppendRecord, Commit
  <2> QED BY <2>1, <2>2 DEF EnqueueLine, AppendRecord, Idle
<1>2. ASSUME NEW r \in Appendable, NEW s \in Sources, NEW value \in Cursors,
             NEW expected \in 0 .. MaxRevision - 1, EnqueueCheckpointed(r, s, value, expected)
      PROVE  /\ Grows(db, db') /\ tx.op # "ack" /\ tx'.op = "none" /\ wake' \in BOOLEAN
             /\ UNCHANGED <<worker, stop, stored, faults, confirmed>>
  <2>1. CASE RepeatCheckpointed(r, s, value, expected)
    BY <1>2, <2>1 DEF EnqueueCheckpointed, RepeatCheckpointed, Idle, Grows
  <2>2. CASE AppendCheckpointed(r, s, value, expected)
    <3>1. PICK n \in 1 .. MaxSeq :
            db' = SaveCheckpoint(Insert(db, r, n), s, value, r, expected)
      BY <2>2 DEF AppendCheckpointed, Commit
    <3>2. db'.obs = Insert(db, r, n).obs
      BY <1>0, <3>1, InsertDomain
    <3>3. Grows(db, Insert(db, r, n))
      BY <1>0, InsertGrows
    <3>4. Grows(db, db')
      BY <3>2, <3>3 DEF Grows
    <3> QED BY <1>2, <2>2, <3>4 DEF EnqueueCheckpointed, AppendCheckpointed, Idle
  <2> QED BY <1>2, <2>1, <2>2 DEF EnqueueCheckpointed
<1>3. ASSUME NEW s \in Sources, NEW value \in Cursors,
             NEW expected \in 0 .. MaxRevision - 1, Advance(s, value, expected)
      PROVE  /\ Grows(db, db') /\ tx.op # "ack" /\ tx'.op = "none" /\ wake' \in BOOLEAN
             /\ UNCHANGED <<worker, stop, stored, faults, confirmed>>
  <2>1. db'.obs = db.obs
    BY <1>0, <1>3, SaveRows DEF Advance, AdvanceCheckpoint, Commit
  <2>2. Grows(db, db')
    BY <2>1 DEF Grows
  <2>3. wake' \in BOOLEAN
    BY <1>3 DEF Advance, flags, DeliveryInv, DeliveryTypeOK
  <2> QED BY <1>3, <2>2, <2>3 DEF Advance, AdvanceCheckpoint, Idle, flags
<1> QED BY <1>1, <1>2, <1>3

(* The import transaction: its view only queues lines. *)
LEMMA ImportInv ==
  ASSUME DeliveryInv, tx.op # "ack", tx'.op = "import", db' = db, Grows(db, view'),
         UNCHANGED <<worker, flags, stored, faults, confirmed>>
  PROVE  DeliveryInv'
<1>1. DeliveryTypeOK'
  BY DEF DeliveryInv, DeliveryTypeOK, worker, flags
<1>2. phase' = phase /\ batch' = batch /\ count' = count /\ reply' = reply /\ phase # "ack" /\ stored' = stored
  BY DEF DeliveryInv, worker
<1>3. Truthful(batch, reply) => Truthful(batch, reply)'
  BY <1>2 DEF Truthful
<1>4. ViewTracks'
  BY DEF ViewTracks, Grows
<1>5. (DeliveredIsStored /\ DeadIsRefused)'
  BY DEF DeliveryInv, DeliveredIsStored, DeadIsRefused
<1> QED BY <1>1, <1>2, <1>3, <1>4, <1>5 DEF DeliveryInv

(* Opening the journal keeps the invariant and only queues lines. *)
LEMMA OpenInv ==
  ASSUME JournalInv, DeliveryInv, OpenJournal
  PROVE  DeliveryInv' /\ Grows(db, db') /\ UNCHANGED <<stored, confirmed>>
<1>0. /\ UNCHANGED <<worker, flags, stored, faults>> /\ wake' \in BOOLEAN /\ stop' = stop
      /\ db \in Image /\ view \in Image
      /\ tx.op = "none" => view = db
  BY DEF OpenJournal, flags, DeliveryInv, DeliveryTypeOK, JournalInv, TypeOK, TransactionInv
<1>1. CASE SkipFrame
  <2>1. db'.obs = db.obs
    BY <1>0, <1>1 DEF SkipFrame, Commit, Image
  <2>2. Grows(db, db')
    BY <2>1 DEF Grows
  <2> QED BY <1>0, <1>1, <2>2, QueueInv DEF SkipFrame, Grows
<1>2. CASE BeginImport
  <2>1. Grows(db, view')
    BY <1>0, <1>2 DEF BeginImport, Grows
  <2> QED BY <1>0, <1>2, <2>1, ImportInv DEF BeginImport, Grows
<1>3. CASE ImportLine
  <2>1. tx.batch[tx.next] \in Records
    BY <1>3 DEF ImportLine, JournalInv, TypeOK, TransactionInv
  <2>2. Grows(view, view')
    BY <1>0, <1>3, <2>1, InsertGrows DEF ImportLine
  <2>3. Grows(db, view)
    BY <1>3 DEF ImportLine, DeliveryInv, ViewTracks, Grows
  <2>4. Grows(db, view')
    BY <2>2, <2>3 DEF Grows
  <2>5. tx'.op = "import"
    BY <1>3 DEF ImportLine, JournalInv, TypeOK
  <2> QED BY <1>0, <1>3, <2>4, <2>5, ImportInv DEF ImportLine, Grows
<1>4. CASE CommitImport
  <2>1. db'.obs = view.obs
    BY <1>0, <1>4 DEF CommitImport, Commit, Image
  <2>2. Grows(db, db')
    BY <1>4, <2>1 DEF CommitImport, DeliveryInv, ViewTracks, Grows
  <2> QED BY <1>0, <1>4, <2>2, QueueInv DEF CommitImport, NoTx
<1> QED BY <1>1, <1>2, <1>3, <1>4 DEF OpenJournal

(* The peeked page consists of pending lines. *)
LEMMA PeekPending ==
  ASSUME NEW b \in Batches, IsPeek(db, b)
  PROVE  LinesOf(b) \subseteq Pending(db)
  BY DEF IsPeek, Page, LinesOf

(* Doubling stays between the base and the longest delay. *)
LEMMA BackOffBounds ==
  ASSUME backoff \in BaseBackoff .. MaxBackoff, BackOff
  PROVE  backoff' \in BaseBackoff .. MaxBackoff
  BY DeliveryAssumption DEF BackOff

(* Steps of the worker that leave the journal alone. *)
LEMMA WorkerInv ==
  ASSUME DeliveryInv,
         \/ RequestStop \/ Wake \/ EndBurst \/ PeekThrows \/ Peek
         \/ PostAnswered \/ PostUnanswered \/ PostGarbled
         \/ RefuseReply \/ RetryTimeReached
  PROVE  DeliveryInv'
<1>0. UNCHANGED vars
  BY DEF RequestStop, Wake, EndBurst, PeekThrows, Peek, PostAnswered, PostUnanswered,
         PostGarbled, RefuseReply, RetryTimeReached
<1>1. DeliveryTypeOK'
  <2>0. MaxFaults \in Nat /\ Burst \in Nat
    BY DeliveryAssumption
  <2>1. CASE RequestStop \/ PeekThrows
    <3>1. faults' \in 0 .. MaxFaults
      BY <2>0, <2>1 DEF RequestStop, PeekThrows, DeliveryInv, DeliveryTypeOK
    <3>2. held' \in BOOLEAN /\ wake' \in BOOLEAN /\ stop' \in BOOLEAN
      BY <2>1, Zenon DEF RequestStop, PeekThrows, DeliveryInv, DeliveryTypeOK, worker, flags
    <3>3. phase' \in {phase, "wait"} /\ UNCHANGED <<batch, count, backoff, stored>>
      BY <2>1 DEF RequestStop, PeekThrows, worker
    <3> QED BY <3>1, <3>2, <3>3 DEF DeliveryInv, DeliveryTypeOK
  <2>4. CASE Wake \/ EndBurst \/ Peek \/ RetryTimeReached
    <3>1. phase' \in {"wait", "peek", "post", "reply", "ack", "stopped"}
      BY <2>4 DEF Wake, EndBurst, Peek, RetryTimeReached, DeliveryInv, DeliveryTypeOK
    <3>2. batch' \in Batches \cup {<<>>}
      BY <2>4 DEF Wake, EndBurst, Peek, RetryTimeReached, DeliveryInv, DeliveryTypeOK
    <3>3. count' \in 0 .. Burst
      BY <2>0, <2>4 DEF Wake, EndBurst, Peek, RetryTimeReached, DeliveryInv, DeliveryTypeOK
    <3>4. held' \in BOOLEAN /\ wake' \in BOOLEAN /\ stop' \in BOOLEAN
      BY <2>4, Zenon
      DEF Wake, EndBurst, Peek, RetryTimeReached, DeliveryInv, DeliveryTypeOK, flags
    <3>5. UNCHANGED <<backoff, stored, faults>>
      BY <2>4 DEF Wake, EndBurst, Peek, RetryTimeReached
    <3> QED BY <3>1, <3>2, <3>3, <3>4, <3>5 DEF DeliveryInv, DeliveryTypeOK
  <2>2. CASE PostAnswered \/ PostUnanswered \/ PostGarbled
    <3>1. LinesOf(batch) \subseteq Records
      BY <2>2, BatchFacts DEF PostAnswered, PostUnanswered, PostGarbled, DeliveryInv
    <3> QED BY <2>2, <3>1
        DEF PostAnswered, PostUnanswered, PostGarbled, DeliveryInv, DeliveryTypeOK, flags
  <2>3. CASE RefuseReply
    BY <2>3, BackOffBounds DEF RefuseReply, BackOff, DeliveryInv, DeliveryTypeOK, flags
  <2> QED BY <2>1, <2>2, <2>3, <2>4
<1>2. phase' # "ack" \/ phase = "ack"
  BY DEF RequestStop, Wake, EndBurst, PeekThrows, Peek, PostAnswered, PostUnanswered,
         PostGarbled, RefuseReply, RetryTimeReached, BackOff, worker
<1>3. phase = "ack" => UNCHANGED <<phase, batch>> /\ stored' = stored
  BY DEF RequestStop, Wake, EndBurst, PeekThrows, Peek, PostAnswered, PostUnanswered,
         PostGarbled, RefuseReply, RetryTimeReached, worker
<1>4. ViewTracks'
  BY <1>0, <1>3 DEF ViewTracks, DeliveryInv, vars
<1>5. phase' \in {"post", "reply", "ack"} =>
        batch' \in Batches /\ LinesOf(batch') \subseteq Pending(db) /\ count' < Burst
  BY PeekPending
  DEF RequestStop, Wake, EndBurst, PeekThrows, Peek, PostAnswered, PostUnanswered,
      PostGarbled, RefuseReply, RetryTimeReached, BackOff, DeliveryInv, worker
<1>6. phase' = "reply" => Truthful(batch, reply)'
  <2>1. CASE PostAnswered
    <3>0. PICK n \in 0 .. MaxBatch : \E listing \in [1 .. n -> 1 .. MaxBatch] :
            IsListing(listing, RefusedLines(batch)) /\ reply' = Receipt(batch, listing)
      BY <2>1 DEF PostAnswered
    <3>1. PICK listing \in [1 .. n -> 1 .. MaxBatch] :
            IsListing(listing, RefusedLines(batch)) /\ reply' = Receipt(batch, listing)
      BY <3>0
    <3>2. { listing[i] : i \in DOMAIN listing } = RefusedLines(batch)
      BY <3>1 DEF IsListing
    <3>3. reply'.rejected = listing
      BY <3>1 DEF Receipt
    <3>4. batch' = batch /\ LinesOf(batch) \ Refused \subseteq stored'
      BY <2>1 DEF PostAnswered
    <3>5. RefusedLines(batch)' = RefusedLines(batch)
      BY <3>4 DEF RefusedLines
    <3> QED BY <3>2, <3>3, <3>4, <3>5 DEF Truthful
  <2>2. CASE PostUnanswered
    BY <2>2 DEF PostUnanswered, Truthful, ValidReceipt
  <2>3. CASE PostGarbled
    BY <2>3, GarbledInvalid DEF PostGarbled, Truthful, DeliveryInv
  <2>4. CASE RequestStop \/ RetryTimeReached
    BY <2>4 DEF RequestStop, RetryTimeReached, Truthful, DeliveryInv, worker
  <2>5. CASE Wake \/ EndBurst \/ PeekThrows \/ Peek \/ RefuseReply
    BY <2>5 DEF Wake, EndBurst, PeekThrows, Peek, RefuseReply, BackOff
  <2> QED BY <2>1, <2>2, <2>3, <2>4, <2>5
<1>7. stored \subseteq stored' /\ stored' \cap Refused = {}
  BY DEF RequestStop, Wake, EndBurst, PeekThrows, Peek, PostAnswered, PostUnanswered,
         PostGarbled, RefuseReply, RetryTimeReached, DeliveryInv
<1>8. (DeliveredIsStored /\ DeadIsRefused)'
  BY <1>0, <1>7 DEF DeliveryInv, DeliveredIsStored, DeadIsRefused, vars
<1>9. db' = db /\ tx' = tx
  BY <1>0 DEF vars
<1> QED BY <1>1, <1>2, <1>3, <1>4, <1>5, <1>6, <1>7, <1>8, <1>9 DEF DeliveryInv

(* A valid receipt opens a transaction for exactly the lines it accounts for. *)
LEMMA ApplyReceiptInv ==
  ASSUME JournalInv, DeliveryInv, ApplyReceipt
  PROVE  DeliveryInv'
<1>0. batch \in Batches /\ LinesOf(batch) \subseteq Pending(db) /\ Truthful(batch, reply)
  BY DEF ApplyReceipt, DeliveryInv
<1>1. /\ UNCHANGED <<db, view, confirmed, batch, reply, count, backoff, held, wake, stop,
                     stored, faults>>
      /\ phase' = "ack"
      /\ tx' = [op |-> "ack", batch |-> batch, rejected |-> Reasons(reply), next |-> 1]
      /\ tx.op = "none"
  BY DEF ApplyReceipt, BeginAcknowledge, Idle, flags
<1>2. view = db
  BY <1>1 DEF JournalInv, TransactionInv
<1>3. DOMAIN Reasons(reply) = RefusedLines(batch) /\ LinesOf(batch) \ Refused \subseteq stored
  BY <1>0 DEF ApplyReceipt, Truthful, Reasons
<1>4. DOMAIN batch = 1 .. Len(batch)
  BY <1>0, BatchFacts
<1>5. ViewTracks'
  <2>1. /\ tx'.op = "ack" /\ tx'.batch = batch' /\ tx'.next = 1
        /\ DOMAIN tx'.rejected = RefusedLines(batch') /\ view' = db'
        /\ LinesOf(batch') \ Refused \subseteq stored'
    BY <1>1, <1>2, <1>3
  <2>2. \A i \in DOMAIN batch' : ~ (i < 1)
    BY <1>1, <1>4
  <2> QED BY <2>1, <2>2, Zenon DEF ViewTracks, RefusedLines, LinesOf
<1>6. DeliveryTypeOK'
  BY <1>1 DEF DeliveryInv, DeliveryTypeOK
<1>7. (DeliveredIsStored /\ DeadIsRefused)'
  BY <1>1 DEF DeliveryInv, DeliveredIsStored, DeadIsRefused
<1>8. tx'.op = "ack" /\ count < Burst /\ stored \cap Refused = {}
  BY <1>1 DEF ApplyReceipt, DeliveryInv
<1> QED BY <1>0, <1>1, <1>5, <1>6, <1>7, <1>8 DEF DeliveryInv

(* What one row of the receipt does to the rows of the view. *)
LEMMA RetireObs ==
  ASSUME NEW d \in Image, NEW r \in Pending(d), NEW e, e = Retire(d, r)
  PROVE  e.obs[r].state = "absent" /\ \A q \in Records \ {r} : e.obs[q] = d.obs[q]
<1>1. r \in Records /\ d.obs \in [Records -> Row]
  BY DEF Pending, In, Image
<1>2. e.obs = [d.obs EXCEPT ![r] = Absent]
  BY DEF Retire, Image
<1>3. e.obs[r] = Absent /\ \A q \in Records \ {r} : e.obs[q] = d.obs[q]
  BY <1>1, <1>2
<1> QED BY <1>3 DEF Absent

(* A rejected row is kept as a dead letter. *)
LEMMA MarkDeadObs ==
  ASSUME NEW d \in Image, NEW r \in Pending(d), NEW n, NEW e, e = MarkDead(d, r, n)
  PROVE  e.obs[r].state = "dead" /\ \A q \in Records \ {r} : e.obs[q] = d.obs[q]
<1>1. r \in Records /\ d.obs \in [Records -> Row]
  BY DEF Pending, In, Image
<1>2. e.obs =
        [d.obs EXCEPT ![r] = [state |-> "dead", seq |-> @.seq, reason |-> @.reason + n]]
  BY DEF MarkDead, Image
<1> QED BY <1>1, <1>2

(* One row of the receipt. *)
LEMMA ApplyRowInv ==
  ASSUME JournalInv, DeliveryInv, ApplyRow
  PROVE  DeliveryInv'
<1> DEFINE k == tx.next
           r == batch[tx.next]
<1>1. /\ UNCHANGED <<db, confirmed, phase, batch, reply, count, backoff, held, wake, stop,
                     stored, faults>>
      /\ phase = "ack" /\ tx.op = "ack" /\ k <= Len(tx.batch)
      /\ tx' = [tx EXCEPT !.next = @ + 1]
  BY DEF ApplyRow, AcknowledgeRow, worker, flags
<1>2. /\ tx.batch = batch /\ DOMAIN tx.rejected = RefusedLines(batch)
      /\ batch \in Batches /\ LinesOf(batch) \subseteq Pending(db)
  BY <1>1 DEF DeliveryInv, ViewTracks
<1>3. /\ k \in Nat /\ k >= 1 /\ view \in Image
      /\ tx' = [op |-> "ack", batch |-> batch, rejected |-> tx.rejected, next |-> k + 1]
  BY <1>1, <1>2 DEF JournalInv, TypeOK, TransactionInv
<1>4. /\ k \in DOMAIN batch /\ DOMAIN batch = 1 .. Len(batch) /\ r \in Records
      /\ \A i, j \in DOMAIN batch : batch[i] = batch[j] => i = j
      /\ LinesOf(batch) \subseteq Records /\ \A i \in DOMAIN batch : batch[i] \in Records
  BY <1>1, <1>2, <1>3, BatchFacts
<1>5. r \in Pending(view)
  <2>1. view.obs[r] = db.obs[r]
    BY <1>1, <1>3, <1>4 DEF DeliveryInv, ViewTracks
  <2>2. r \in Pending(db)
    BY <1>2, <1>4 DEF LinesOf
  <2> QED BY <2>1, <2>2 DEF Pending, In
<1>6. /\ view'.obs[r].state = IF r \in Refused THEN "dead" ELSE "absent"
      /\ \A q \in Records \ {r} : view'.obs[q] = view.obs[q]
  <2>1. k \in DOMAIN tx.rejected <=> r \in Refused
    BY <1>2, <1>4 DEF RefusedLines
  <2>2. view.obs \in [Records -> Row]
    BY <1>3 DEF Image
  <2>3. CASE r \in Refused
    <3>1. view' = MarkDead(view, r, tx.rejected[k])
      BY <1>2, <2>1, <2>3 DEF ApplyRow, AcknowledgeRow
    <3> HIDE DEF r
    <3>2. view'.obs[r].state = "dead" /\ \A q \in Records \ {r} : view'.obs[q] = view.obs[q]
      <4> DEFINE e == view'
                 n == tx.rejected[k]
      <4>1. e = MarkDead(view, r, n) /\ view \in Image
        BY <1>3, <3>1
      <4> HIDE DEF e, n
      <4>2. e.obs[r].state = "dead" /\ \A q \in Records \ {r} : e.obs[q] = view.obs[q]
        BY <1>5, <4>1, MarkDeadObs
      <4> QED BY <4>2 DEF e
    <3> QED BY <2>3, <3>2
  <2>4. CASE r \notin Refused
    <3>1. view' = Retire(view, r)
      BY <1>2, <2>1, <2>4 DEF ApplyRow, AcknowledgeRow
    <3> HIDE DEF r
    <3>2. view'.obs[r].state = "absent" /\ \A q \in Records \ {r} : view'.obs[q] = view.obs[q]
      BY <1>3, <1>5, <3>1, RetireObs
    <3> QED BY <2>4, <3>2
  <2> QED BY <2>3, <2>4
<1>7. ViewTracks'
  <2>1. \A q \in Records \ LinesOf(batch) : view'.obs[q] = db.obs[q]
    BY <1>1, <1>4, <1>6 DEF DeliveryInv, ViewTracks, LinesOf
  <2>2. \A i \in DOMAIN batch : i < k + 1 =>
          view'.obs[batch[i]].state = IF batch[i] \in Refused THEN "dead" ELSE "absent"
    <3>1. SUFFICES ASSUME NEW i \in DOMAIN batch, i < k + 1
                   PROVE  view'.obs[batch[i]].state =
                            IF batch[i] \in Refused THEN "dead" ELSE "absent"
      OBVIOUS
    <3>2. CASE i = k
      BY <1>6, <3>2
    <3>3. CASE i # k
      <4>1. i < k /\ batch[i] # r /\ batch[i] \in Records
        BY <1>3, <1>4, <3>1, <3>3
      <4>2. view.obs[batch[i]].state = IF batch[i] \in Refused THEN "dead" ELSE "absent"
        BY <1>1, <4>1 DEF DeliveryInv, ViewTracks
      <4> QED BY <1>6, <4>1, <4>2
    <3> QED BY <3>2, <3>3
  <2>3. \A i \in DOMAIN batch : i >= k + 1 => view'.obs[batch[i]] = db.obs[batch[i]]
    <3>1. SUFFICES ASSUME NEW i \in DOMAIN batch, i >= k + 1
                   PROVE  view'.obs[batch[i]] = db.obs[batch[i]]
      OBVIOUS
    <3>2. i >= k /\ batch[i] # r /\ batch[i] \in Records
      BY <1>3, <1>4, <3>1
    <3>3. view.obs[batch[i]] = db.obs[batch[i]]
      BY <1>1, <3>2 DEF DeliveryInv, ViewTracks
    <3> QED BY <1>6, <3>2, <3>3
  <2>4. LinesOf(batch) \ Refused \subseteq stored
    BY <1>1 DEF DeliveryInv, ViewTracks
  <2>5. batch' = batch /\ db' = db /\ stored' = stored
    BY <1>1
  <2> HIDE DEF k, r
  <2>6. tx'.op = "ack" /\ tx'.batch = batch /\ tx'.rejected = tx.rejected /\ tx'.next = k + 1
    BY <1>3
  <2> QED BY <1>2, <2>1, <2>2, <2>3, <2>4, <2>5, <2>6 DEF ViewTracks, RefusedLines, LinesOf
<1>8. DeliveryTypeOK'
  BY <1>1 DEF DeliveryInv, DeliveryTypeOK
<1>9. (DeliveredIsStored /\ DeadIsRefused)'
  BY <1>1 DEF DeliveryInv, DeliveredIsStored, DeadIsRefused
<1>10. tx'.op = "ack"
  BY <1>3
<1> QED BY <1>1, <1>7, <1>8, <1>9, <1>10 DEF DeliveryInv

(* A position past the end is past every element. *)
LEMMA PassedEnd ==
  ASSUME NEW n \in Nat, NEW k \in Nat, k > n
  PROVE  \A i \in 1 .. n : i < k
OBVIOUS

(* At the end of a receipt every row of the batch has been passed. *)
LEMMA ReceiptEnds ==
  ASSUME JournalInv, DeliveryInv, ReceiptApplied
  PROVE  /\ tx.batch = batch /\ batch \in Batches /\ LinesOf(batch) \subseteq Pending(db)
         /\ LinesOf(batch) \subseteq Records
         /\ db' = view /\ confirmed' = confirmed \cup (LinesOf(batch) \ Refused)
         /\ LinesOf(batch) \ Refused \subseteq stored
         /\ \A q \in Records \ LinesOf(batch) : view.obs[q] = db.obs[q]
         /\ \A q \in LinesOf(batch) :
              view.obs[q].state = IF q \in Refused THEN "dead" ELSE "absent"
<1>1. tx.op = "ack" /\ tx.next > Len(tx.batch) /\ db' = view
      /\ confirmed' = confirmed \cup Settled(tx.batch, tx.rejected) /\ phase = "ack"
  BY DEF ReceiptApplied, CommitAcknowledge, Commit
<1>2. /\ tx.batch = batch /\ DOMAIN tx.rejected = RefusedLines(batch)
      /\ LinesOf(batch) \ Refused \subseteq stored
      /\ batch \in Batches /\ LinesOf(batch) \subseteq Pending(db)
      /\ \A q \in Records \ LinesOf(batch) : view.obs[q] = db.obs[q]
      /\ \A i \in DOMAIN batch : i < tx.next =>
            view.obs[batch[i]].state = IF batch[i] \in Refused THEN "dead" ELSE "absent"
  BY <1>1 DEF DeliveryInv, ViewTracks
<1>3. Settled(tx.batch, tx.rejected) = LinesOf(batch) \ Refused
  <2>1. DOMAIN tx.batch \ DOMAIN tx.rejected = { i \in DOMAIN batch : batch[i] \notin Refused }
    BY <1>2 DEF RefusedLines
  <2>2. Settled(tx.batch, tx.rejected) = { batch[i] : i \in DOMAIN tx.batch \ DOMAIN tx.rejected }
    BY <1>2 DEF Settled
  <2>3. { batch[i] : i \in { j \in DOMAIN batch : batch[j] \notin Refused } }
          = LinesOf(batch) \ Refused
    BY DEF LinesOf
  <2> QED BY <2>1, <2>2, <2>3
<1>4. tx.next \in Nat /\ DOMAIN batch = 1 .. Len(batch) /\ Len(batch) \in Nat
      /\ LinesOf(batch) \subseteq Records
  BY <1>2, BatchFacts DEF JournalInv, TypeOK
<1>5. \A i \in DOMAIN batch : i < tx.next
  <2>1. tx.next > Len(batch)
    BY <1>1, <1>2, ZenonT(30)
  <2>2. tx.next \in Nat /\ Len(batch) \in Nat /\ DOMAIN batch = 1 .. Len(batch)
    BY <1>4
  <2>3. \A i \in 1 .. Len(batch) : i < tx.next
    BY <2>1, <2>2, PassedEnd
  <2> QED BY <2>2, <2>3, ZenonT(30)
<1>6. \A q \in LinesOf(batch) :
        view.obs[q].state = IF q \in Refused THEN "dead" ELSE "absent"
  BY <1>2, <1>5 DEF LinesOf
<1> QED BY <1>1, <1>2, <1>3, <1>4, <1>6

(* The receipt commits. *)
LEMMA ReceiptAppliedInv ==
  ASSUME JournalInv, DeliveryInv, ReceiptApplied
  PROVE  DeliveryInv'
<1>1. tx' = NoTx /\ phase' = "peek" /\ batch' = <<>> /\ count' = count + 1
      /\ backoff' = BaseBackoff /\ UNCHANGED <<held, wake, stop, stored, faults>>
      /\ phase = "ack"
  BY DEF ReceiptApplied, CommitAcknowledge, flags
<1>2. count' \in 0 .. Burst /\ backoff' \in BaseBackoff .. MaxBackoff
  BY <1>1, DeliveryAssumption DEF DeliveryInv, DeliveryTypeOK
<1>3. DeliveryTypeOK'
  BY <1>1, <1>2 DEF DeliveryInv, DeliveryTypeOK
<1>4. ViewTracks' /\ tx'.op = "none"
  BY <1>1 DEF ViewTracks, NoTx
<1>5. DeliveredIsStored'
  BY <1>1, ReceiptEnds DEF DeliveryInv, DeliveredIsStored
<1>6. DeadIsRefused'
  BY ReceiptEnds DEF DeliveryInv, DeadIsRefused, Dead, In
<1>7. stored' \cap Refused = {}
  BY <1>1 DEF DeliveryInv
<1> QED BY <1>1, <1>3, <1>4, <1>5, <1>6, <1>7 DEF DeliveryInv

(* A receipt rolled back, a crash or a restart leaves no transaction open   *)
(* and the worker outside of its burst.                                     *)
LEMMA AbortDeliveryInv ==
  ASSUME DeliveryInv, ReceiptRefused \/ ReceiptThrows \/ CrashRestart \/ Restart
  PROVE  DeliveryInv'
<1>1. /\ db' = db /\ confirmed' = confirmed /\ tx' = NoTx /\ phase' = "wait" /\ batch' = <<>>
      /\ stored' = stored
  BY DEF ReceiptRefused, ReceiptThrows, CrashRestart, Restart, Rollback, BackOff, Crash, Reset
<1>2. count' \in 0 .. Burst /\ faults' \in 0 .. MaxFaults
  BY DeliveryAssumption, SMTT(30), ZenonT(30)
  DEF ReceiptRefused, ReceiptThrows, CrashRestart, Restart, Reset, DeliveryInv, DeliveryTypeOK
<1>3. backoff' \in BaseBackoff .. MaxBackoff
  <2>1. CASE ReceiptRefused \/ ReceiptThrows
    BY <2>1, BackOffBounds DEF ReceiptRefused, ReceiptThrows, DeliveryInv, DeliveryTypeOK
  <2>2. CASE CrashRestart \/ Restart
    BY <2>2, DeliveryAssumption DEF CrashRestart, Restart, Reset
  <2> QED BY <2>1, <2>2
<1>4. held' \in BOOLEAN /\ wake' \in BOOLEAN /\ stop' \in BOOLEAN
  BY Zenon DEF ReceiptRefused, ReceiptThrows, CrashRestart, Restart, BackOff, Reset, flags,
               DeliveryInv, DeliveryTypeOK
<1>5. DeliveryTypeOK'
  BY <1>1, <1>2, <1>3, <1>4 DEF DeliveryInv, DeliveryTypeOK
<1>6. ViewTracks' /\ tx'.op = "none"
  BY <1>1 DEF ViewTracks, NoTx
<1>7. (DeliveredIsStored /\ DeadIsRefused)'
  BY <1>1 DEF DeliveryInv, DeliveredIsStored, DeadIsRefused
<1> QED BY <1>1, <1>5, <1>6, <1>7 DEF DeliveryInv

(* Stuttering. *)
LEMMA StutterDeliveryInv ==
  ASSUME DeliveryInv, UNCHANGED dvars
  PROVE  DeliveryInv'
<1>1. UNCHANGED <<db, view, tx, confirmed, phase, batch, reply, count, backoff, held, wake,
                  stop, stored, faults>>
  BY DEF dvars, vars, worker, flags
<1> QED BY <1>1
    DEF DeliveryInv, DeliveryTypeOK, ViewTracks, Truthful, DeliveredIsStored, DeadIsRefused

(* Every step preserves the invariant. *)
LEMMA DeliveryNextInv ==
  ASSUME JournalInv, DeliveryInv, [DeliveryNext]_dvars
  PROVE  DeliveryInv'
  BY CallersGrow, QueueInv, OpenInv, WorkerInv, ApplyReceiptInv, ApplyRowInv, ReceiptAppliedInv,
     AbortDeliveryInv, StutterDeliveryInv DEF DeliveryNext

(* The agent starts with an empty queue. *)
LEMMA NothingQueued ==
  ASSUME DeliveryInit
  PROVE  Pending(db) = {} /\ Dead(db) = {} /\ confirmed = {} /\ stored = {}
<1>1. confirmed = {} /\ stored = {}
  BY DEF DeliveryInit, Init
<1>2. db.obs = [r \in Records |-> Absent]
  <2>1. PICK h : db = EmptyImage(h)
    BY Zenon DEF DeliveryInit, Init
  <2> QED BY <2>1 DEF EmptyImage
<1>3. \A r \in Records : db.obs[r].state = "absent"
  BY <1>2 DEF Absent
<1> QED BY <1>1, <1>3 DEF Pending, Dead, In

(* The invariant holds initially. *)
LEMMA DeliveryInitInv == DeliveryInit => DeliveryInv
<1> SUFFICES ASSUME DeliveryInit PROVE DeliveryInv
  OBVIOUS
<1>1. DeliveryTypeOK
  <2>1. count \in 0 .. Burst /\ backoff \in BaseBackoff .. MaxBackoff /\ faults \in 0 .. MaxFaults
    BY DeliveryAssumption DEF DeliveryInit
  <2>2. held \in BOOLEAN /\ wake \in BOOLEAN /\ stop \in BOOLEAN
    BY Zenon DEF DeliveryInit
  <2> QED BY <2>1, <2>2 DEF DeliveryInit, DeliveryTypeOK
<1>2. tx.op = "none" /\ confirmed = {}
  BY DEF DeliveryInit, Init, NoTx
<1>3. DeadIsRefused
  BY NothingQueued DEF DeadIsRefused
<1> QED BY <1>1, <1>2, <1>3 DEF DeliveryInit, DeliveryInv, ViewTracks, DeliveredIsStored

(* Delivery uses the journal only through the journal's own steps, so every *)
(* theorem about the journal holds of it while delivery runs.               *)
THEOREM DeliveryUsesJournal == DeliverySafe => Spec
<1>1. DeliveryInit => Init /\ JournalInv /\ DeliveryInv
  BY InitInv, DeliveryInitInv DEF DeliveryInit
<1>2. JournalInv /\ DeliveryInv /\ [DeliveryNext]_dvars
        => [Next]_vars /\ JournalInv' /\ DeliveryInv'
  BY StepIsNext, NextInv, DeliveryNextInv
<1> QED BY <1>1, <1>2, PTL DEF DeliverySafe, Spec

(* The invariant of delivery together with the journal's. *)
THEOREM DeliveryInvariant == DeliverySafe => [](JournalInv /\ DeliveryInv)
<1>1. DeliveryInit => JournalInv /\ DeliveryInv
  BY InitInv, DeliveryInitInv DEF DeliveryInit
<1>2. JournalInv /\ DeliveryInv /\ [DeliveryNext]_dvars => JournalInv' /\ DeliveryInv'
  BY StepIsNext, NextInv, DeliveryNextInv
<1> QED BY <1>1, <1>2, PTL DEF DeliverySafe

(* Whatever the network, the Manager's answers and the crashes, a line is   *)
(* given up as delivered only if the Manager stored it.                     *)
THEOREM DeliveredTheorem == DeliverySafe => []DeliveredIsStored
<1>1. JournalInv /\ DeliveryInv => DeliveredIsStored
  BY DEF DeliveryInv
<1> QED BY <1>1, DeliveryInvariant, PTL

(* Only refused lines become dead letters. *)
THEOREM DeadTheorem == DeliverySafe => []DeadIsRefused
<1>1. JournalInv /\ DeliveryInv => DeadIsRefused
  BY DEF DeliveryInv
<1> QED BY <1>1, DeliveryInvariant, PTL

-----------------------------------------------------------------------------
(* Delivery implements Custody. *)

(* Queueing lines is taking them into custody. *)
LEMMA GrowsTakes ==
  ASSUME Grows(db, db'), UNCHANGED <<confirmed, stored>>, db \in Image, db' \in Image
  PROVE  \E S \in SUBSET Records : Handover!Take(S)
<1> DEFINE S == { r \in Records : db.obs[r].state = "absent" /\ db'.obs[r].state = "pending" }
<1>1. \A r \in Records : db.obs[r].state \in {"absent", "pending", "dead"}
  BY DEF Image, Row
<1>2. S \subseteq Handover!Owned("source") \cup Handover!Owned("manager")
  BY DEF Handover!Owned, Owner, Pending, Dead, In
<1>3. \A r \in Records : Owner'[r] = IF r \in S THEN "agent" ELSE Owner[r]
  BY <1>1 DEF Grows, Owner, Pending, Dead, In
<1>4. Owner' = [r \in Records |-> IF r \in S THEN "agent" ELSE Owner[r]]
  BY <1>3 DEF Owner
<1> HIDE DEF S
<1>5. Handover!Take(S)
  BY <1>2, <1>4 DEF Handover!Take
<1>6. S \in SUBSET Records
  BY DEF S
<1> QED BY <1>5, <1>6

(* A committed receipt settles its batch. *)
LEMMA ReceiptSettles ==
  ASSUME JournalInv, DeliveryInv, ReceiptApplied
  PROVE  \E A, R \in SUBSET Records : Handover!Settle(A, R)
<1> DEFINE A == LinesOf(batch) \ Refused
           R == LinesOf(batch) \cap Refused
<1>0. stored' = stored
  BY DEF ReceiptApplied
<1>1. A \subseteq Records /\ R \subseteq Records
  BY ReceiptEnds
<1>2. A \cup R \subseteq Handover!Owned("agent")
  BY ReceiptEnds DEF Handover!Owned, Owner
<1>3. \A r \in Records :
        Owner'[r] = IF r \in A THEN "manager" ELSE IF r \in R THEN "refused" ELSE Owner[r]
  <2> SUFFICES ASSUME NEW r \in Records
               PROVE  Owner'[r] = IF r \in A THEN "manager"
                                  ELSE IF r \in R THEN "refused" ELSE Owner[r]
    OBVIOUS
  <2>1. CASE r \in A
    <3>1. db'.obs[r].state = "absent" /\ r \in confirmed'
      BY <2>1, ReceiptEnds
    <3> QED BY <2>1, <3>1 DEF Owner, Pending, Dead, In
  <2>2. CASE r \in R
    <3>1. db'.obs[r].state = "dead"
      BY <2>2, ReceiptEnds
    <3> QED BY <2>2, <3>1 DEF Owner, Pending, Dead, In
  <2>3. CASE r \notin LinesOf(batch)
    <3>1. db'.obs[r] = db.obs[r] /\ (r \in confirmed' <=> r \in confirmed)
      BY <2>3, ReceiptEnds
    <3> QED BY <2>3, <3>1 DEF Owner, Pending, Dead, In
  <2> QED BY <2>1, <2>2, <2>3
<1>4. Owner' = [r \in Records |-> IF r \in A THEN "manager"
                                   ELSE IF r \in R THEN "refused" ELSE Owner[r]]
  BY <1>3 DEF Owner
<1>5. A \subseteq stored /\ R \subseteq Refused /\ A \cap R = {}
  BY ReceiptEnds
<1> HIDE DEF A, R
<1>6. Handover!Settle(A, R)
  BY <1>0, <1>2, <1>4, <1>5 DEF Handover!Settle
<1>7. A \in SUBSET Records /\ R \in SUBSET Records
  BY <1>1
<1> QED BY <1>6, <1>7

(* The Manager stores lines of the batch, which the agent holds. *)
LEMMA PostArchives ==
  ASSUME DeliveryInv, PostAnswered \/ PostUnanswered
  PROVE  UNCHANGED <<Owner, stored>> \/ \E S \in SUBSET Records : Handover!Archive(S)
<1>1. Owner' = Owner
  BY DEF PostAnswered, PostUnanswered, vars, Owner, Pending, Dead, In
<1>2. LinesOf(batch) \subseteq Pending(db) /\ Pending(db) \subseteq Records
  BY DEF PostAnswered, PostUnanswered, DeliveryInv, Pending, In
<1>3. LinesOf(batch) \ Refused \subseteq Handover!Owned("agent") \ Refused
  BY <1>2 DEF Handover!Owned, Owner
<1>4. stored' = stored \/ stored' = stored \cup (LinesOf(batch) \ Refused)
  BY DEF PostAnswered, PostUnanswered
<1>5. LinesOf(batch) \ Refused \in SUBSET Records
  BY <1>2
<1> QED BY <1>1, <1>3, <1>4, <1>5 DEF Handover!Archive

(* Every other step leaves every line with its owner. *)
LEMMA OwnerStays ==
  ASSUME UNCHANGED <<db, confirmed, stored>>
  PROVE  UNCHANGED Handover!vars
  BY DEF Handover!vars, Owner, Pending, Dead, In

(* Every step of delivery is a step of Custody or leaves it unchanged. *)
LEMMA StepIsCustody ==
  ASSUME JournalInv, JournalInv', DeliveryInv, [DeliveryNext]_dvars
  PROVE  [Handover!Next]_(Handover!vars)
<1>0. db \in Image /\ db' \in Image
  BY DEF JournalInv, TypeOK
<1>1. CASE OpenJournal
  BY <1>0, <1>1, OpenInv, GrowsTakes DEF Handover!Next
<1>2. CASE \/ \E r \in Appendable : EnqueueLine(r)
           \/ \E r \in Appendable, s \in Sources, value \in Cursors,
                 expected \in 0 .. MaxRevision - 1 : EnqueueCheckpointed(r, s, value, expected)
           \/ \E s \in Sources, value \in Cursors, expected \in 0 .. MaxRevision - 1 :
                 Advance(s, value, expected)
  <2>1. Grows(db, db') /\ UNCHANGED <<confirmed, stored>>
    BY <1>2, CallersGrow
  <2> QED BY <1>0, <2>1, GrowsTakes DEF Handover!Next
<1>3. CASE PostAnswered \/ PostUnanswered
  BY <1>3, PostArchives DEF Handover!Next, Handover!vars
<1>4. CASE ReceiptApplied
  BY <1>4, ReceiptSettles DEF Handover!Next
<1>5. CASE UNCHANGED <<db, confirmed, stored>>
  BY <1>5, OwnerStays
<1> QED BY <1>1, <1>2, <1>3, <1>4, <1>5
    DEF DeliveryNext, RequestStop, Wake, EndBurst, PeekThrows, Peek, PostGarbled, RefuseReply,
        RetryTimeReached, ApplyReceipt, BeginAcknowledge, ApplyRow, AcknowledgeRow,
        ReceiptRefused, ReceiptThrows, Rollback, CrashRestart, Restart, Crash, Reset, dvars, vars

(* Delivery implements Custody for every set of lines, batch size, quota    *)
(* and backoff: a line changes hands only as the abstract specification     *)
(* allows.                                                                  *)
THEOREM CustodyTheorem == DeliverySafe => CustodyKept
<1>1. DeliveryInit => Handover!Init
  BY NothingQueued DEF Handover!Init, Owner
<1>2. JournalInv /\ DeliveryInv /\ (JournalInv /\ DeliveryInv)' /\ [DeliveryNext]_dvars
        => [Handover!Next]_(Handover!vars)
  BY StepIsCustody
<1> QED BY <1>1, <1>2, DeliveryInvariant, PTL DEF DeliverySafe, CustodyKept, Handover!Spec
=============================================================================

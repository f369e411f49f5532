------------------------------- MODULE Journal -------------------------------
(***************************************************************************)
(* The durable telemetry journal (delivery/journal.cpp): one encrypted     *)
(* SQLite row per observation, a never-pruned process history with its     *)
(* graph index, compare-and-swap source checkpoints, the command inbox and *)
(* the trigger-maintained counters that quota and health decisions read.   *)
(*                                                                         *)
(* A database image d is a record of tables and counters.  Statements and  *)
(* their triggers are operators from image to image.  db is the committed  *)
(* image, view the image the connection sees inside a transaction, tx the  *)
(* open multi-statement transaction (a receipt or a legacy frame).         *)
(* Transactions of a fixed number of statements are one action each: the   *)
(* journal mutex and SQLite's atomic commit leave nothing between them.    *)
(***************************************************************************)
EXTENDS Integers, Sequences, FiniteSets, ByteSums

CONSTANTS
  Records,        \* distinct observation lines; a line stands for its key
  Size,           \* line.size()
  Proto,          \* 1 legacy, 2 canonical
  Lifecycle,      \* canonical process start/stop lines, archived on insert
  Quality,        \* 0 resolved, 1 no entity, 2 not interpretable
  Migrated,       \* lifecycle rows archived before the graph index existed
  Frames,         \* the legacy spool: [file, kind, lines], file after file
  Sources,        \* checkpoint keys
  Cursors,        \* opaque checkpoint values
  CursorSize,     \* checkpoint.size()
  ReasonSizes,    \* lengths of "reason: detail" of a rejection
  Commands,       \* command inbox keys
  CommandSize,    \* body.size() of a command
  ResultSizes,    \* lengths of a serialized command result
  CheckpointOnly, \* the record digest of advance_checkpoint
  Limit,          \* retained_payload_limit
  RebuildBytes,   \* byte bound of one rebuild_process_graph call
  EventLimit,     \* event_size_limit
  MaxSources,     \* 64 in the code
  MaxCommands,    \* 65536 in the code
  MaxBatch,       \* most rows of one batch
  MaxSeq,         \* bound: largest row sequence number
  MaxRevision     \* bound: largest checkpoint revision

(* A frame is intact, fails its checksum, or has no trustworthy length. *)
Frame == [file : Nat, kind : {"intact", "corrupt", "torn"}, lines : Seq(Records)]

LegacyLines ==
  UNION { { Frames[k].lines[i] : i \in DOMAIN Frames[k].lines } :
          k \in DOMAIN Frames }

ASSUME FiniteAssumption ==
  IsFiniteSet(Records) /\ IsFiniteSet(Sources) /\ IsFiniteSet(Commands)

ASSUME LinesAssumption ==
  /\ Size \in [Records -> Nat \ {0}] /\ Proto \in [Records -> {1, 2}]
  /\ Lifecycle \subseteq Records /\ Migrated \subseteq Lifecycle
  /\ Quality \in [Records -> 0 .. 2]

ASSUME FramesAssumption == Frames \in Seq(Frame)

ASSUME CursorsAssumption ==
  CursorSize \in [Cursors -> Nat \ {0}] /\ CheckpointOnly \notin Records

ASSUME MetadataAssumption ==
  /\ CommandSize \in [Commands -> Nat \ {0}]
  /\ ReasonSizes \subseteq Nat /\ ResultSizes \subseteq Nat

ASSUME LimitsAssumption ==
  /\ Limit \in Nat /\ RebuildBytes \in Nat /\ EventLimit \in Nat
  /\ MaxSources \in Nat /\ MaxCommands \in Nat
  /\ MaxBatch \in Nat /\ MaxSeq \in Nat /\ MaxRevision \in Nat

ASSUME MigratedAssumption == Sum(Migrated, Size) <= Limit

VARIABLES db, view, tx, frame, accepted, confirmed

vars == <<db, view, tx, frame, accepted, confirmed>>

Absent == [state |-> "absent", seq |-> 0, reason |-> 0]
Row == [state : {"absent", "pending", "dead"}, seq : 0 .. MaxSeq, reason : Nat]
NoCheckpoint == [rev |-> 0, value |-> CheckpointOnly, digest |-> CheckpointOnly]
Checkpoint == [rev : 0 .. MaxRevision, value : Cursors \cup {CheckpointOnly},
               digest : Records \cup {CheckpointOnly}]
NoCommand == [state |-> "none", bytes |-> 0]
Command == [state : {"none", "received", "executing", "result_ready", "outboxed"},
            bytes : Nat]

Image ==
  [obs : [Records -> Row], history : [Records -> Nat],
   graph : SUBSET Records, cps : [Sources -> Checkpoint], cmds : [Commands -> Command],
   imports : SUBSET Nat, gaps : SUBSET Nat,
   retained : Int, pending : Int, dead : Int,
   historyBytes : Int, historyCount : Int, graphCount : Int, unresolved : Int]

-----------------------------------------------------------------------------
(* Tables. *)

In(d, state) == { r \in Records : d.obs[r].state = state }
Pending(d) == In(d, "pending")
Dead(d) == In(d, "dead")
Rows(d) == Pending(d) \cup Dead(d)
RowBytes(d) == [r \in Records |-> Size[r] + d.obs[r].reason]
Archived(d) == { r \in Records : d.history[r] # 0 }
Checkpointed(d) == { s \in Sources : d.cps[s].rev # 0 }
CheckpointBytes(d) ==
  [s \in Sources |-> IF d.cps[s].rev = 0 THEN 0 ELSE CursorSize[d.cps[s].value]]
Inbox(d) == { c \in Commands : d.cmds[c].state # "none" }
CommandBytes(d) == [c \in Commands |-> d.cmds[c].bytes]

(* Impl::retained: two counters and sums over the two tables without one. *)
Held(d) == Sum(Commands, CommandBytes(d)) + Sum(Checkpointed(d), CheckpointBytes(d))
Retained(d) == d.retained + Held(d) + d.historyBytes

(* The rowid SQLite gives the next row: one above the largest in the table. *)
IsNextSeq(d, n) ==
  /\ \A r \in Rows(d) : d.obs[r].seq < n
  /\ n = 1 \/ \E r \in Rows(d) : d.obs[r].seq = n - 1

-----------------------------------------------------------------------------
(* Statements of Impl::insert, with the triggers they fire. *)

Missing(d, r) == d.obs[r].state = "absent"
Unarchived(d, r) == r \in Lifecycle /\ d.history[r] = 0

Copies(d, r) ==
  (IF Missing(d, r) THEN 1 ELSE 0) + (IF Unarchived(d, r) THEN 1 ELSE 0)

InsertFits(d, r) ==
  Copies(d, r) = 0 \/ Retained(d) + Copies(d, r) * Size[r] <= Limit

(* INSERT OR IGNORE: the triggers count only the rows that are new. *)
IndexProcess(d, S) ==
  LET new == S \ d.graph
  IN  [d EXCEPT !.graph = @ \cup S,
                !.graphCount = @ + Cardinality(new),
                !.unresolved = @ + Cardinality({ r \in new : Quality[r] # 0 })]

(* Mutant: an appended row is left to the backfill. *)
ArchiveUnindexed(d, r) ==
  IF Unarchived(d, r)
  THEN [d EXCEPT !.history[r] = d.historyCount + 1,
                 !.historyBytes = @ + Size[r],
                 !.historyCount = @ + 1]
  ELSE d

Archive(d, r) ==
  IF Unarchived(d, r)
  THEN IndexProcess(
         [d EXCEPT !.history[r] = d.historyCount + 1,
                   !.historyBytes = @ + Size[r],
                   !.historyCount = @ + 1], {r})
  ELSE d

Enqueue(d, r, n) ==
  IF Missing(d, r)
  THEN [d EXCEPT !.obs[r] = [state |-> "pending", seq |-> n, reason |-> 0],
                 !.retained = @ + Size[r],
                 !.pending = @ + 1]
  ELSE d

Insert(d, r, n) == Enqueue(Archive(d, r), r, n)

-----------------------------------------------------------------------------
(* Statements of the receipt and checkpoint transactions. *)

(* Mutant: the delete statement has no status condition. *)
RetireAnyState(d, r) ==
  IF r \in Rows(d)
  THEN [d EXCEPT !.obs[r] = Absent,
                 !.retained = @ - RowBytes(d)[r],
                 !.pending = IF r \in Pending(d) THEN @ - 1 ELSE @,
                 !.dead = IF r \in Dead(d) THEN @ - 1 ELSE @]
  ELSE d

Retire(d, r) ==
  IF r \in Pending(d)
  THEN [d EXCEPT !.obs[r] = Absent,
                 !.retained = @ - RowBytes(d)[r],
                 !.pending = @ - 1]
  ELSE d

RejectFits(d, r, n) == r \in Pending(d) => Retained(d) + n <= Limit

(* Mutant: a rejected line is deleted like an accepted one. *)
MarkDeadDeletes(d, r, n) == Retire(d, r)

(* Mutant: the update trigger does not charge the stored reason. *)
MarkDeadUncharged(d, r, n) ==
  IF r \in Pending(d)
  THEN [d EXCEPT !.obs[r] = [state |-> "dead", seq |-> @.seq, reason |-> @.reason + n],
                 !.pending = @ - 1,
                 !.dead = @ + 1]
  ELSE d

MarkDead(d, r, n) ==
  IF r \in Pending(d)
  THEN [d EXCEPT !.obs[r] = [state |-> "dead", seq |-> @.seq, reason |-> @.reason + n],
                 !.retained = @ + n,
                 !.pending = @ - 1,
                 !.dead = @ + 1]
  ELSE d

AlreadySaved(d, s, value, digest, expected) ==
  /\ d.cps[s].rev = expected + 1
  /\ d.cps[s].digest = digest
  /\ d.cps[s].value = value

SourceCountOk(d, s) ==
  d.cps[s].rev # 0 \/ Cardinality(Checkpointed(d)) < MaxSources

(* Mutant: the quota check of a checkpoint forgets the bytes it adds. *)
CheckpointFitsUncounted(d, s, value) == Retained(d) <= Limit

CheckpointFits(d, s, value) ==
  Retained(d) - CheckpointBytes(d)[s] + CursorSize[value] <= Limit

SaveCheckpoint(d, s, value, digest, expected) ==
  [d EXCEPT !.cps[s] = [rev |-> expected + 1, value |-> value, digest |-> digest]]

(* Rows of T up to and including r in the order of seq, as a query returns   *)
(* them; a prefix longer than k rows or m bytes (newline included) ends it.  *)
UpTo(T, seq, r) == { q \in T : seq[q] <= seq[r] }
WireSize == [r \in Records |-> Size[r] + 1]
Page(T, seq, k, m) ==
  { r \in T : /\ Cardinality(UpTo(T, seq, r)) <= k
              /\ Sum(UpTo(T, seq, r), WireSize) <= m }

-----------------------------------------------------------------------------
NoTx == [op |-> "none", batch |-> <<>>, rejected |-> <<>>, next |-> 0]

Batches ==
  { b \in UNION { [1 .. n -> Records] : n \in 1 .. MaxBatch } :
      \A i, j \in DOMAIN b : b[i] = b[j] => i = j }
Rejections(b) == UNION { [L -> ReasonSizes] : L \in SUBSET DOMAIN b }

EmptyImage(history) ==
  [obs |-> [r \in Records |-> Absent], history |-> history,
   graph |-> {}, cps |-> [s \in Sources |-> NoCheckpoint],
   cmds |-> [c \in Commands |-> NoCommand],
   imports |-> {}, gaps |-> {},
   retained |-> 0, pending |-> 0, dead |-> 0,
   historyBytes |-> Sum(Migrated, Size), historyCount |-> Cardinality(Migrated),
   graphCount |-> 0, unresolved |-> 0]

(* A new database, or one of an older schema whose history has no index. *)
Init ==
  /\ \E h \in [Records -> 0 .. Cardinality(Migrated)] :
       /\ \A r \in Records : h[r] # 0 <=> r \in Migrated
       /\ \A q, r \in Migrated : h[q] = h[r] => q = r
       /\ db = EmptyImage(h)
  /\ view = db /\ tx = NoTx /\ frame = 1
  /\ accepted = {} /\ confirmed = {}

Opened == frame > Len(Frames)
Idle == tx.op = "none" /\ Opened

Commit(d) == db' = d /\ view' = d

-----------------------------------------------------------------------------
(* Construction: import_legacy, one transaction per intact frame.  An       *)
(* exception here fails the constructor, which is Crash below.              *)

(* Mutant: a torn frame ends the whole import, not its file. *)
StartsNoFile(k, n) == n = Len(Frames) + 1

StartsNextFile(k, n) ==
  /\ \A j \in k + 1 .. n - 1 : Frames[j].file = Frames[k].file
  /\ n <= Len(Frames) => Frames[n].file # Frames[k].file

SkipFrame ==
  /\ tx.op = "none" /\ ~Opened
  /\ \/ /\ Frames[frame].kind = "intact" /\ frame \in db.imports
        /\ frame' = frame + 1 /\ UNCHANGED <<db, view>>
     \/ /\ Frames[frame].kind = "corrupt"
        /\ Commit([db EXCEPT !.gaps = @ \cup {frame}])
        /\ frame' = frame + 1
     \/ /\ Frames[frame].kind = "torn"
        /\ Commit([db EXCEPT !.gaps = @ \cup {frame}])
        /\ \E n \in frame + 1 .. Len(Frames) + 1 : StartsNextFile(frame, n) /\ frame' = n
  /\ UNCHANGED <<tx, accepted, confirmed>>

BeginImport ==
  /\ tx.op = "none" /\ ~Opened
  /\ Frames[frame].kind = "intact" /\ frame \notin db.imports
  /\ tx' = [op |-> "import", batch |-> Frames[frame].lines,
            rejected |-> <<>>, next |-> 1]
  /\ UNCHANGED <<db, view, frame, accepted, confirmed>>

ImportLine ==
  /\ tx.op = "import" /\ tx.next <= Len(tx.batch)
  /\ InsertFits(view, tx.batch[tx.next])
  /\ \E n \in 1 .. MaxSeq :
       /\ IsNextSeq(view, n)
       /\ view' = Insert(view, tx.batch[tx.next], n)
  /\ tx' = [tx EXCEPT !.next = @ + 1]
  /\ UNCHANGED <<db, frame, accepted, confirmed>>

(* Mutant: the imported lines commit without their ledger entry. *)
CommitImportUnmarked ==
  /\ tx.op = "import" /\ tx.next > Len(tx.batch)
  /\ Commit(view)
  /\ accepted' = accepted \cup { tx.batch[i] : i \in DOMAIN tx.batch }
  /\ tx' = NoTx /\ frame' = frame + 1
  /\ UNCHANGED confirmed

CommitImport ==
  /\ tx.op = "import" /\ tx.next > Len(tx.batch)
  /\ Commit([view EXCEPT !.imports = @ \cup {frame}])
  /\ accepted' = accepted \cup { tx.batch[i] : i \in DOMAIN tx.batch }
  /\ tx' = NoTx /\ frame' = frame + 1
  /\ UNCHANGED confirmed

-----------------------------------------------------------------------------
(* append, append_checkpointed and advance_checkpoint return normally.  A   *)
(* refused call throws and rolls back, which changes nothing.               *)

AppendRecord(r) ==
  /\ Idle
  /\ Size[r] <= EventLimit
  /\ InsertFits(db, r)
  /\ \E n \in 1 .. MaxSeq : IsNextSeq(db, n) /\ Commit(Insert(db, r, n))
  /\ accepted' = accepted \cup {r}
  /\ UNCHANGED <<tx, frame, confirmed>>

RepeatCheckpointed(r, s, value, expected) ==
  /\ Idle
  /\ Size[r] <= EventLimit
  /\ AlreadySaved(db, s, value, r, expected)
  /\ accepted' = accepted \cup {r}
  /\ UNCHANGED <<db, view, tx, frame, confirmed>>

(* Mutant: the cursor commits although the quota refused the record. *)
AppendCursorOnly(r, s, value, expected) ==
  /\ Idle
  /\ Size[r] <= EventLimit
  /\ db.cps[s].rev = expected
  /\ SourceCountOk(db, s)
  /\ CheckpointFits(db, s, value)
  /\ Commit(SaveCheckpoint(db, s, value, r, expected))
  /\ UNCHANGED <<tx, frame, accepted, confirmed>>

AppendCheckpointed(r, s, value, expected) ==
  /\ Idle
  /\ Size[r] <= EventLimit
  /\ db.cps[s].rev = expected
  /\ SourceCountOk(db, s)
  /\ InsertFits(db, r)
  /\ \E n \in 1 .. MaxSeq :
       /\ IsNextSeq(db, n)
       /\ CheckpointFits(Insert(db, r, n), s, value)
       /\ Commit(SaveCheckpoint(Insert(db, r, n), s, value, r, expected))
  /\ accepted' = accepted \cup {r}
  /\ UNCHANGED <<tx, frame, confirmed>>

AdvanceCheckpoint(s, value, expected) ==
  /\ Idle
  /\ db.cps[s].rev = expected
  /\ SourceCountOk(db, s)
  /\ CheckpointFits(db, s, value)
  /\ Commit(SaveCheckpoint(db, s, value, CheckpointOnly, expected))
  /\ UNCHANGED <<tx, frame, accepted, confirmed>>

RebuildProcessGraph(k) ==
  LET S == Page(Archived(db) \ db.graph, db.history, k, RebuildBytes)
  IN  /\ Idle
      /\ S # {}
      /\ Commit(IndexProcess(db, S))
      /\ UNCHANGED <<tx, frame, accepted, confirmed>>

-----------------------------------------------------------------------------
(* The command inbox: receive_command, begin_command, finish_command and    *)
(* mark_command_outboxed where they change a row.                           *)

SetCommand(d, c, state, bytes) ==
  [d EXCEPT !.cmds[c] = [state |-> state, bytes |-> bytes]]

ReceiveCommand(c) ==
  /\ Idle
  /\ db.cmds[c].state = "none"
  /\ Cardinality(Inbox(db)) < MaxCommands
  /\ Retained(db) + CommandSize[c] <= Limit
  /\ Commit(SetCommand(db, c, "received", CommandSize[c]))
  /\ UNCHANGED <<tx, frame, accepted, confirmed>>

BeginCommand(c) ==
  /\ Idle
  /\ db.cmds[c].state = "received"
  /\ Commit(SetCommand(db, c, "executing", db.cmds[c].bytes))
  /\ UNCHANGED <<tx, frame, accepted, confirmed>>

FinishCommand(c, n) ==
  /\ Idle
  /\ n <= EventLimit
  /\ db.cmds[c].state = "executing"
  /\ Retained(db) + n <= Limit
  /\ Commit(SetCommand(db, c, "result_ready", db.cmds[c].bytes + n))
  /\ UNCHANGED <<tx, frame, accepted, confirmed>>

MarkCommandOutboxed(c) ==
  /\ Idle
  /\ db.cmds[c].state = "result_ready"
  /\ Commit(SetCommand(db, c, "outboxed", db.cmds[c].bytes))
  /\ UNCHANGED <<tx, frame, accepted, confirmed>>

-----------------------------------------------------------------------------
(* acknowledge: b is any batch peek handed out, however stale, and rejected *)
(* the lines a valid receipt rejects with the length of each reason.        *)

BeginAcknowledge(b, rejected) ==
  /\ Idle
  /\ \A i \in DOMAIN b : b[i] \in accepted
  /\ tx' = [op |-> "ack", batch |-> b, rejected |-> rejected, next |-> 1]
  /\ UNCHANGED <<db, view, frame, accepted, confirmed>>

(* Mutant: every row of a receipt commits on its own. *)
AcknowledgeRowCommits ==
  LET r == tx.batch[tx.next]
  IN  /\ tx.op = "ack" /\ tx.next <= Len(tx.batch)
      /\ \/ /\ tx.next \in DOMAIN tx.rejected
            /\ RejectFits(view, r, tx.rejected[tx.next])
            /\ view' = MarkDead(view, r, tx.rejected[tx.next])
         \/ /\ tx.next \notin DOMAIN tx.rejected
            /\ view' = Retire(view, r)
      /\ db' = view'
      /\ tx' = [tx EXCEPT !.next = @ + 1]
      /\ UNCHANGED <<frame, accepted, confirmed>>

AcknowledgeRow ==
  LET r == tx.batch[tx.next]
  IN  /\ tx.op = "ack" /\ tx.next <= Len(tx.batch)
      /\ \/ /\ tx.next \in DOMAIN tx.rejected
            /\ RejectFits(view, r, tx.rejected[tx.next])
            /\ view' = MarkDead(view, r, tx.rejected[tx.next])
         \/ /\ tx.next \notin DOMAIN tx.rejected
            /\ view' = Retire(view, r)
      /\ tx' = [tx EXCEPT !.next = @ + 1]
      /\ UNCHANGED <<db, frame, accepted, confirmed>>

Settled(b, rejected) == { b[i] : i \in DOMAIN b \ DOMAIN rejected }

CommitAcknowledge ==
  /\ tx.op = "ack" /\ tx.next > Len(tx.batch)
  /\ Commit(view)
  /\ confirmed' = confirmed \cup Settled(tx.batch, tx.rejected)
  /\ tx' = NoTx
  /\ UNCHANGED <<frame, accepted>>

(* Any statement of the receipt may throw: quota, disk, DPAPI. *)
Rollback ==
  /\ tx.op = "ack"
  /\ view' = db /\ tx' = NoTx
  /\ UNCHANGED <<db, frame, accepted, confirmed>>

(* The process ends anywhere and opens the journal again. *)
Crash ==
  /\ view' = db /\ tx' = NoTx /\ frame' = 1
  /\ UNCHANGED <<db, accepted, confirmed>>

Appendable == Records \ LegacyLines

Next ==
  \/ SkipFrame \/ BeginImport \/ ImportLine \/ CommitImport
  \/ \E r \in Appendable : AppendRecord(r)
  \/ \E r \in Appendable, s \in Sources, value \in Cursors,
        expected \in 0 .. MaxRevision - 1 :
       \/ RepeatCheckpointed(r, s, value, expected)
       \/ AppendCheckpointed(r, s, value, expected)
  \/ \E s \in Sources, value \in Cursors, expected \in 0 .. MaxRevision - 1 :
       AdvanceCheckpoint(s, value, expected)
  \/ \E k \in 1 .. MaxBatch : RebuildProcessGraph(k)
  \/ \E c \in Commands :
       \/ ReceiveCommand(c) \/ BeginCommand(c) \/ MarkCommandOutboxed(c)
       \/ \E n \in ResultSizes : FinishCommand(c, n)
  \/ \E b \in Batches : \E rejected \in Rejections(b) :
       BeginAcknowledge(b, rejected)
  \/ AcknowledgeRow \/ CommitAcknowledge \/ Rollback
  \/ Crash

Spec == Init /\ [][Next]_vars

-----------------------------------------------------------------------------
(* Properties. *)

(* Every variable keeps its type; a batch has at least one row. *)
TypeOK ==
  /\ db \in Image /\ view \in Image
  /\ tx = [op |-> tx.op, batch |-> tx.batch, rejected |-> tx.rejected, next |-> tx.next]
  /\ tx.op \in {"none", "ack", "import"}
  /\ tx.batch \in Seq(Records) /\ tx.next \in Nat
  /\ \A i \in DOMAIN tx.rejected : tx.rejected[i] \in ReasonSizes
  /\ frame \in 1 .. Len(Frames) + 1
  /\ accepted \subseteq Records /\ confirmed \subseteq Records

Accounted(d) ==
  /\ d.pending = Cardinality(Pending(d))
  /\ d.dead = Cardinality(Dead(d))
  /\ d.retained = Sum(Rows(d), RowBytes(d))
  /\ d.historyCount = Cardinality(Archived(d))
  /\ d.historyBytes = Sum(Archived(d), Size)
  /\ d.graphCount = Cardinality(d.graph)
  /\ d.unresolved = Cardinality({ r \in d.graph : Quality[r] # 0 })

(* The counters that triggers maintain incrementally (journal.cpp 206-237)  *)
(* equal the tables, in every committed image and inside transactions, so   *)
(* quota checks and health reports never drift over any history of          *)
(* retries, rejections, rollbacks and crashes.                              *)
CountersExact == Accounted(db) /\ Accounted(view)

(* The plaintext quota holds although lines, rejection metadata, cursors,   *)
(* commands and their results are admitted by separate checks (journal.cpp  *)
(* 286, 444, 486, 770, 910, 965), some several times in one transaction.    *)
QuotaHeld == Retained(db) <= Limit

(* "One durable record per observation ... no retry-count expiry or quota   *)
(* eviction" (journal.hpp 63-66): a record whose append returned is still   *)
(* pending, is retained as a dead letter, or was settled by a receipt.      *)
NoLoss == accepted \subseteq Rows(db) \cup confirmed

(* append_checkpointed commits the record with its cursor: a cursor that    *)
(* names a record never outruns it, across crashes, retries and conflicts.  *)
CursorNeverAhead ==
  \A s \in Sources :
    db.cps[s].digest \in Records => db.cps[s].digest \in Rows(db) \cup confirmed

(* The archive holds every lifecycle record that was ever accepted, and     *)
(* only rows older than the graph index wait for the backfill, whatever     *)
(* appends come between its pages: every other row was indexed with its own *)
(* append.  The index stays inside the archive and counts each row once:    *)
(* the backlog process_ancestry reports from the two counters (623-626) is  *)
(* the number of rows that wait, and the check of stats() that throws       *)
(* "process graph counter accounting inconsistent" (804) never fires.       *)
HistoryComplete ==
  /\ db.graph \subseteq Archived(db)
  /\ accepted \cap Lifecycle \subseteq Archived(db)
  /\ Archived(db) \ db.graph \subseteq Migrated
  /\ db.historyCount - db.graphCount = Cardinality(Archived(db) \ db.graph)
  /\ db.unresolved <= db.graphCount

(* Sequence numbers order delivery: no two retained rows ever share one,    *)
(* although rowids are reused after the newest row is deleted.              *)
SequenceUnique ==
  /\ \A q, r \in Rows(db) : db.obs[q].seq = db.obs[r].seq => q = r
  /\ \A q, r \in Archived(db) : db.history[q] = db.history[r] => q = r

(* Once the constructor returns every frame is imported or recorded as a    *)
(* gap, or lies behind a recorded torn frame of its own file (320-378), and *)
(* nothing corrupt is ever marked imported.                                 *)
ImportComplete ==
  Opened =>
    \A k \in DOMAIN Frames :
      \/ Frames[k].kind = "intact" /\ k \in db.imports
      \/ Frames[k].kind # "intact" /\ k \in db.gaps
      \/ \E j \in db.gaps : /\ j < k /\ Frames[j].file = Frames[k].file
                            /\ Frames[j].kind = "torn"

(* A dead letter is never pruned, revived or rewritten, and the process     *)
(* archive never loses or renumbers a row.                                  *)
EvidenceIsFinal ==
  [][ /\ \A r \in Dead(db) : db'.obs[r] = db.obs[r]
      /\ \A r \in Archived(db) : db'.history[r] = db.history[r] ]_vars

(* "Invalid/partial receipts cause no changes" (journal.hpp 104): while a   *)
(* receipt is open the committed image changes only when every row of its   *)
(* batch is settled at once.                                                *)
ReceiptAtomic ==
  [][ tx.op = "ack" /\ db' # db =>
        \A i \in DOMAIN tx.batch : tx.batch[i] \notin Pending(db') ]_vars

(* "compare-and-swap" cursors (journal.hpp 75-83): a checkpoint changes only *)
(* by advancing exactly one revision.                                       *)
CheckpointByOne ==
  [][ \A s \in Sources :
        db'.cps[s] # db.cps[s] => db'.cps[s].rev = db.cps[s].rev + 1 ]_vars

(* The import ledger (352, 370): a legacy line that was delivered is never  *)
(* queued again by a later opening of the journal.                          *)
NoReimport ==
  [][ \A r \in LegacyLines \cap confirmed :
        r \notin Rows(db) => r \notin Rows(db') ]_vars

-----------------------------------------------------------------------------
(* The inductive invariant. *)

(* What an image satisfies after every statement. *)
Sound(d) ==
  /\ d \in Image
  /\ Accounted(d)
  /\ d.graph \subseteq Archived(d)
  /\ \A r \in Records : d.history[r] <= d.historyCount
  /\ \A q, r \in Archived(d) : d.history[q] = d.history[r] => q = r
  /\ \A q, r \in Rows(d) : d.obs[q].seq = d.obs[r].seq => q = r
  /\ \A s \in Checkpointed(d) : d.cps[s].value \in Cursors
  /\ \A c \in Commands : d.cmds[c].state = "none" => d.cmds[c].bytes = 0

(* What every committed and every uncommitted image satisfies between two   *)
(* insertions: no archived row waits for its own index statement.           *)
Good(d) == Sound(d) /\ Archived(d) \ d.graph \subseteq Migrated

(* e keeps what evidence may never lose of d. *)
Keeps(d, e) ==
  /\ \A r \in Dead(d) : e.obs[r] = d.obs[r]
  /\ \A r \in Archived(d) : e.history[r] = d.history[r]

(* The open transaction has only added to, or settled, what was committed:  *)
(* rows it deleted are rows its receipt accounts for, and rows it has       *)
(* passed are no longer pending (receipt) or are retained (import).         *)
TransactionInv ==
  /\ tx.op = "none" => view = db
  /\ Keeps(db, view) /\ view.cps = db.cps
  /\ tx.op # "none" => tx.next >= 1
  /\ tx.op = "import" => ~Opened
  /\ accepted \subseteq
       Rows(view) \cup confirmed \cup
       (IF tx.op = "ack" THEN Settled(tx.batch, tx.rejected) ELSE {})
  /\ tx.op = "ack" =>
       \A i \in DOMAIN tx.batch : i < tx.next => tx.batch[i] \notin Pending(view)
  /\ tx.op = "import" =>
       \A i \in DOMAIN tx.batch : i < tx.next =>
         /\ tx.batch[i] \in Rows(view)
         /\ tx.batch[i] \in Lifecycle => tx.batch[i] \in Archived(view)

(* The invariant that the steps preserve: counters, quota, retention and    *)
(* cursors of the committed image, and their counterparts in the view.      *)
JournalInv ==
  /\ TypeOK
  /\ Good(db) /\ Good(view)
  /\ Retained(db) <= Limit /\ Retained(view) <= Limit
  /\ NoLoss
  /\ accepted \cap Lifecycle \subseteq Archived(db)
  /\ \A s \in Sources : db.cps[s].digest \in Records => db.cps[s].digest \in accepted
  /\ TransactionInv
=============================================================================

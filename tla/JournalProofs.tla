---------------------------- MODULE JournalProofs ----------------------------
(***************************************************************************)
(* Theorems about the journal, for every set of lines, sources, cursors    *)
(* and commands and every quota.  The statements of a transaction are      *)
(* lemmas of JournalImageProofs; the steps of the specification combine    *)
(* them.                                                                   *)
(***************************************************************************)
EXTENDS JournalImageProofs

(* Time for each leaf: the images have many fields. *)
USE SMTT(20), ZenonT(20)

-----------------------------------------------------------------------------
(* A new or migrated database satisfies the invariant. *)
LEMMA InitInv == Init => JournalInv
<1> SUFFICES ASSUME Init PROVE JournalInv
  OBVIOUS
<1>0. PICK h \in [Records -> 0 .. Cardinality(Migrated)] :
        /\ \A r \in Records : h[r] # 0 <=> r \in Migrated
        /\ \A q, r \in Migrated : h[q] = h[r] => q = r
        /\ db = EmptyImage(h)
  BY DEF Init
<1>1. IsFiniteSet(Migrated) /\ Cardinality(Migrated) \in Nat
  BY FS_Subset, FS_CardinalityType, FiniteAssumption, LinesAssumption
<1>2. Sum(Migrated, Size) \in Nat
  BY <1>1, CellsFinite, LinesAssumption
<1>3. h \in [Records -> Nat]
  BY <1>1
<1>4. /\ db.obs = [r \in Records |-> Absent] /\ db.history = h /\ db.graph = {}
      /\ db.cmds = [c \in Commands |-> NoCommand]
      /\ db.cps = [s \in Sources |-> NoCheckpoint] /\ db.imports = {} /\ db.gaps = {}
      /\ db.retained = 0 /\ db.pending = 0 /\ db.dead = 0
      /\ db.historyBytes = Sum(Migrated, Size)
      /\ db.historyCount = Cardinality(Migrated)
      /\ db.graphCount = 0 /\ db.unresolved = 0
  BY <1>0 DEF EmptyImage
<1>5. db \in Image
  <2>1. Absent \in Row /\ NoCheckpoint \in Checkpoint /\ NoCommand \in Command
    BY LimitsAssumption DEF Absent, Row, NoCheckpoint, Checkpoint, NoCommand, Command
  <2> QED BY <1>0, <1>1, <1>2, <1>3, <2>1 DEF EmptyImage, Image
<1>6. Pending(db) = {} /\ Dead(db) = {} /\ Rows(db) = {} /\ Archived(db) = Migrated
  BY <1>0, <1>4, LinesAssumption DEF Pending, Dead, Rows, In, Archived, Absent
<1>7. Checkpointed(db) = {}
  BY <1>4 DEF Checkpointed, NoCheckpoint
<1>8. Accounted(db)
  <2>1. { r \in db.graph : Quality[r] # 0 } = {}
    BY <1>4
  <2> QED BY <1>4, <1>6, <2>1, FS_EmptySet, SumEmpty DEF Accounted
<1>9. Retained(db) <= Limit
  <2>1. \A c \in Commands : CommandBytes(db)[c] = 0
    BY <1>4 DEF CommandBytes, NoCommand
  <2>2. Sum(Commands, CommandBytes(db)) = 0
    BY <2>1, SumZero
  <2> QED BY <1>2, <1>4, <1>7, <2>2, SumEmpty, MigratedAssumption, LimitsAssumption DEF Retained, Held
<1>10. Good(db)
  <2>1. db.graph \subseteq Archived(db)
    BY <1>4
  <2>2. \A r \in Records : db.history[r] <= db.historyCount
    BY <1>0, <1>1, <1>4
  <2>3. \A q, r \in Archived(db) : db.history[q] = db.history[r] => q = r
    BY <1>0, <1>4, <1>6
  <2>4. \A c \in Commands : db.cmds[c].bytes = 0
    BY <1>4 DEF NoCommand
  <2> QED BY <1>5, <1>6, <1>7, <1>8, <2>1, <2>2, <2>3, <2>4 DEF Good, Sound
<1>11. TypeOK
  <2>1. tx.batch \in Seq(Records) /\ tx.op = "none" /\ tx.next \in Nat /\ DOMAIN tx.rejected = {}
    BY DEF Init, NoTx
  <2>2. Len(Frames) \in Nat
    OBVIOUS
  <2>3. tx = [op |-> tx.op, batch |-> tx.batch, rejected |-> tx.rejected, next |-> tx.next]
    BY DEF Init, NoTx
  <2> QED BY <1>5, <2>1, <2>2, <2>3 DEF TypeOK, Init
<1>12. TransactionInv
  BY DEF TransactionInv, Keeps, Init, NoTx
<1> QED
  <2>1. view = db /\ accepted = {}
    BY DEF Init
  <2>2. \A s \in Sources : db.cps[s].digest \notin Records
    BY <1>4, CursorsAssumption DEF NoCheckpoint
  <2> QED BY <1>9, <1>10, <1>11, <1>12, <2>1, <2>2 DEF JournalInv, NoLoss

(* A single-statement or fixed transaction commits a good image that keeps  *)
(* every retained row and retains every newly accepted record.              *)
LEMMA CommitInv ==
  ASSUME JournalInv, tx.op = "none", NEW e, Commit(e), tx' = tx,
         Good(e), Keeps(db, e), Retained(e) <= Limit, Rows(db) \subseteq Rows(e),
         frame' \in 1 .. Len(Frames) + 1, confirmed' = confirmed,
         accepted \subseteq accepted', accepted' \subseteq Records,
         \A r \in accepted' : r \in accepted \/
           (r \in Rows(e) \cup confirmed /\ (r \in Lifecycle => r \in Archived(e))),
         \A s \in Sources : e.cps[s].digest \in Records => e.cps[s].digest \in accepted'
  PROVE  JournalInv'
<1>1. db' = e /\ view' = e
  BY DEF Commit
<1>2. Archived(db) \subseteq Archived(e)
  BY DEF Keeps, Archived
<1>3. TypeOK'
  BY <1>1 DEF JournalInv, TypeOK, Good, Sound
<1>4. NoLoss'
  <2>1. accepted' \subseteq Rows(e) \cup confirmed
    BY DEF JournalInv, NoLoss
  <2> QED BY <1>1, <2>1 DEF NoLoss, Rows, Pending, Dead, In
<1>5. (accepted \cap Lifecycle \subseteq Archived(db))'
  <2>1. accepted' \cap Lifecycle \subseteq Archived(e)
    BY <1>2 DEF JournalInv
  <2> QED BY <1>1, <2>1 DEF Archived
<1>6. (Good(db) /\ Good(view) /\ Retained(db) <= Limit /\ Retained(view) <= Limit)'
  BY <1>1
<1>7. (\A s \in Sources : db.cps[s].digest \in Records => db.cps[s].digest \in accepted)'
  BY <1>1
<1>8. TransactionInv'
  BY <1>1, <1>4 DEF TransactionInv, Keeps, NoLoss
<1> QED BY <1>3, <1>4, <1>5, <1>6, <1>7, <1>8 DEF JournalInv

(* A step of an open transaction changes the view alone. *)
LEMMA ViewInv ==
  ASSUME JournalInv, tx.op \in {"ack", "import"}, db' = db,
         NEW e, view' = e, Good(e), Keeps(view, e), Retained(e) <= Limit,
         e.cps = view.cps,
         tx' = [tx EXCEPT !.next = @ + 1], tx.next <= Len(tx.batch),
         UNCHANGED <<frame, accepted, confirmed>>,
         Rows(view) \subseteq Rows(e) \cup
           (IF tx.op = "ack" THEN Settled(tx.batch, tx.rejected) ELSE {}),
         tx.op = "ack" => Pending(e) = Pending(view) \ {tx.batch[tx.next]},
         tx.op = "import" =>
           /\ tx.batch[tx.next] \in Rows(e)
           /\ tx.batch[tx.next] \in Lifecycle => tx.batch[tx.next] \in Archived(e)
  PROVE  JournalInv'
<1>0. /\ tx.batch \in Seq(Records) /\ tx.next \in Nat /\ tx.next >= 1
      /\ DOMAIN tx.batch = 1 .. Len(tx.batch)
  BY DEF JournalInv, TypeOK, TransactionInv
<1>1. /\ tx'.op = tx.op /\ tx'.batch = tx.batch /\ tx'.rejected = tx.rejected
      /\ tx'.next = tx.next + 1
      /\ tx' = [op |-> tx'.op, batch |-> tx'.batch, rejected |-> tx'.rejected, next |-> tx'.next]
  BY DEF JournalInv, TypeOK
<1>2. TypeOK'
  <2>1. db' \in Image /\ view' \in Image
    BY DEF JournalInv, TypeOK, Good, Sound
  <2>2. /\ tx.op \in {"none", "ack", "import"} /\ tx.next + 1 \in Nat
        /\ \A i \in DOMAIN tx.rejected : tx.rejected[i] \in ReasonSizes
        /\ frame \in 1 .. Len(Frames) + 1
        /\ accepted \subseteq Records /\ confirmed \subseteq Records
    BY <1>0 DEF JournalInv, TypeOK
  <2> QED BY <1>0, <1>1, <2>1, <2>2 DEF TypeOK
<1>3. (Good(db) /\ Good(view) /\ Retained(db) <= Limit /\ Retained(view) <= Limit)'
  BY DEF JournalInv
<1>4. NoLoss'
  BY DEF JournalInv, NoLoss
<1>5. (accepted \cap Lifecycle \subseteq Archived(db))'
  BY DEF JournalInv
<1>6. (\A s \in Sources : db.cps[s].digest \in Records => db.cps[s].digest \in accepted)'
  BY DEF JournalInv
<1>7. TransactionInv'
  <2>1. Keeps(db, e) /\ e.cps = db.cps
    <3>1. Keeps(db, view) /\ view.cps = db.cps
      BY DEF JournalInv, TransactionInv
    <3>2. Dead(db) \subseteq Dead(view) /\ Archived(db) \subseteq Archived(view)
      BY <3>1 DEF Keeps, Dead, In, Archived
    <3> QED BY <3>1, <3>2 DEF Keeps
  <2>2. accepted \subseteq Rows(e) \cup confirmed \cup
          (IF tx.op = "ack" THEN Settled(tx.batch, tx.rejected) ELSE {})
    BY DEF JournalInv, TransactionInv
  <2>3. tx.op = "ack" =>
          \A i \in DOMAIN tx.batch : i < tx.next + 1 => tx.batch[i] \notin Pending(e)
    <3> SUFFICES ASSUME tx.op = "ack", NEW i \in DOMAIN tx.batch, i < tx.next + 1
                 PROVE  tx.batch[i] \notin Pending(e)
      OBVIOUS
    <3>1. CASE i = tx.next
      BY <3>1
    <3>2. CASE i < tx.next
      BY <3>2 DEF JournalInv, TransactionInv
    <3> QED BY <1>0, <3>1, <3>2
  <2>4. tx.op = "import" =>
          \A i \in DOMAIN tx.batch : i < tx.next + 1 =>
            /\ tx.batch[i] \in Rows(e)
            /\ tx.batch[i] \in Lifecycle => tx.batch[i] \in Archived(e)
    <3> SUFFICES ASSUME tx.op = "import", NEW i \in DOMAIN tx.batch, i < tx.next + 1
                 PROVE  /\ tx.batch[i] \in Rows(e)
                        /\ tx.batch[i] \in Lifecycle => tx.batch[i] \in Archived(e)
      OBVIOUS
    <3>0. Archived(view) \subseteq Archived(e) /\ Rows(view) \subseteq Rows(e)
      BY DEF Keeps, Archived
    <3>1. CASE i = tx.next
      BY <3>1
    <3>2. CASE i < tx.next
      BY <3>0, <3>2 DEF JournalInv, TransactionInv
    <3> QED BY <1>0, <3>1, <3>2
  <2>5. tx.next + 1 >= 1 /\ tx.op # "none"
    BY <1>0
  <2>6. tx.op = "import" => ~(frame > Len(Frames))
    BY DEF JournalInv, TransactionInv, Opened
  <2> QED BY <1>1, <2>1, <2>2, <2>3, <2>4, <2>5, <2>6 DEF TransactionInv, Settled, Opened
<1> QED BY <1>2, <1>3, <1>4, <1>5, <1>6, <1>7 DEF JournalInv

(* Ending a transaction: by commit, by rollback or by a crash. *)
LEMMA EndInv ==
  ASSUME JournalInv, NEW e, db' = e, view' = e, tx' = NoTx,
         Good(e), Retained(e) <= Limit, Keeps(db, e),
         frame' \in 1 .. Len(Frames) + 1,
         accepted' \subseteq Records, confirmed' \subseteq Records,
         accepted' \subseteq Rows(e) \cup confirmed',
         accepted' \cap Lifecycle \subseteq Archived(e),
         \A s \in Sources : e.cps[s].digest \in Records => e.cps[s].digest \in accepted'
  PROVE  JournalInv'
<1>1. TypeOK'
  <2>1. /\ NoTx.op = "none" /\ NoTx.batch \in Seq(Records) /\ NoTx.next \in Nat
        /\ \A i \in DOMAIN NoTx.rejected : NoTx.rejected[i] \in ReasonSizes
        /\ NoTx = [op |-> NoTx.op, batch |-> NoTx.batch, rejected |-> NoTx.rejected,
                   next |-> NoTx.next]
    BY DEF NoTx
  <2> HIDE DEF NoTx
  <2> QED BY <2>1 DEF TypeOK, Good, Sound
<1>2. NoLoss' /\ TransactionInv'
  BY DEF NoLoss, TransactionInv, Keeps, NoTx
<1> QED BY <1>1, <1>2 DEF JournalInv

(* Passing over an imported, corrupt or torn frame keeps the invariant. *)
LEMMA SkipFrameInv == JournalInv /\ SkipFrame => JournalInv'
<1> SUFFICES ASSUME JournalInv, SkipFrame PROVE JournalInv'
  OBVIOUS
<1>0. /\ frame \in 1 .. Len(Frames) /\ Len(Frames) \in Nat /\ tx.op = "none"
      /\ view = db /\ Good(db) /\ Retained(db) <= Limit
      /\ UNCHANGED <<tx, accepted, confirmed>>
  BY DEF SkipFrame, Opened, JournalInv, TypeOK, TransactionInv
<1>1. frame' \in 1 .. Len(Frames) + 1
  <2>1. frame' = frame + 1 \/ frame' \in frame + 1 .. Len(Frames) + 1
    BY DEF SkipFrame
  <2> QED BY <1>0, <2>1
<1>2. CASE UNCHANGED <<db, view>>
  BY <1>0, <1>1, <1>2, CommitInv DEF Commit, Keeps, JournalInv, NoLoss, TypeOK
<1>3. CASE Commit([db EXCEPT !.gaps = @ \cup {frame}])
  <2> DEFINE e == [db EXCEPT !.gaps = @ \cup {frame}]
  <2>1. /\ Good(e) /\ Keeps(db, e) /\ Retained(e) = Retained(db)
        /\ e.obs = db.obs /\ e.history = db.history /\ e.cps = db.cps
    <3>1. frame \in Nat
      BY <1>0
    <3> QED BY <1>0, <3>1, LedgerGood
  <2>2. Commit(e)
    BY <1>3
  <2> HIDE DEF e
  <2>3. Rows(e) = Rows(db)
    BY <2>1 DEF Rows, Pending, Dead, In
  <2> QED BY <1>0, <1>1, <2>1, <2>2, <2>3, CommitInv DEF JournalInv, NoLoss, TypeOK
<1> QED BY <1>2, <1>3 DEF SkipFrame

(* So does opening the transaction of an intact frame. *)
LEMMA BeginInv == JournalInv /\ BeginImport => JournalInv'
<1> SUFFICES ASSUME JournalInv, BeginImport PROVE JournalInv'
  OBVIOUS
<1>1. /\ frame \in 1 .. Len(Frames) /\ tx.op = "none" /\ view = db
      /\ UNCHANGED <<db, view, frame, accepted, confirmed>>
      /\ tx' = [op |-> "import", batch |-> Frames[frame].lines, rejected |-> <<>>, next |-> 1]
  BY DEF BeginImport, Opened, JournalInv, TypeOK, TransactionInv
<1>2. Frames[frame] \in Frame
  BY <1>1, FramesAssumption
<1>3. TypeOK'
  BY <1>1, <1>2 DEF JournalInv, TypeOK, Frame
<1>4. TransactionInv'
  <2>1. accepted \subseteq Rows(view) \cup confirmed
    BY <1>1 DEF JournalInv, NoLoss
  <2>2. Keeps(db, view) /\ view.cps = db.cps
    BY DEF JournalInv, TransactionInv
  <2>3. tx'.op = "import" /\ tx'.next = 1 /\ tx'.batch = Frames[frame].lines
    BY <1>1
  <2>4. \A i \in DOMAIN tx'.batch : ~(i < tx'.next)
    BY <1>2, <2>3 DEF Frame
  <2>5. ~(frame > Len(Frames))
    BY <1>1
  <2> QED BY <1>1, <2>1, <2>2, <2>3, <2>4, <2>5 DEF TransactionInv, Opened
<1> QED BY <1>1, <1>3, <1>4 DEF JournalInv, NoLoss

(* So does inserting the next line of the frame. *)
LEMMA ImportLineInv == JournalInv /\ ImportLine => JournalInv'
<1> SUFFICES ASSUME JournalInv, ImportLine PROVE JournalInv'
  OBVIOUS
<1> DEFINE r == tx.batch[tx.next]
<1>1. /\ tx.op = "import" /\ tx.next <= Len(tx.batch) /\ InsertFits(view, r)
      /\ tx' = [tx EXCEPT !.next = @ + 1]
      /\ UNCHANGED <<db, frame, accepted, confirmed>>
  BY DEF ImportLine
<1>2. PICK n \in 1 .. MaxSeq : IsNextSeq(view, n) /\ view' = Insert(view, r, n)
  BY DEF ImportLine
<1>3. r \in Records
  BY <1>1 DEF JournalInv, TypeOK, TransactionInv
<1>4. Good(view) /\ Retained(view) <= Limit
  BY DEF JournalInv
<1> DEFINE e == Insert(view, r, n)
<1> HIDE DEF r
<1>5. /\ Good(e) /\ Keeps(view, e) /\ Retained(e) <= Limit
      /\ e.cps = view.cps /\ e.imports = view.imports
      /\ Rows(e) = Rows(view) \cup {r}
      /\ r \in Lifecycle => r \in Archived(e)
  BY <1>1, <1>2, <1>3, <1>4, InsertGood
<1> HIDE DEF e
<1>6. view' = e
  BY <1>2 DEF e
<1> QED BY <1>1, <1>5, <1>6, ViewInv DEF r

(* So does committing the frame with its mark in the ledger. *)
LEMMA CommitImportInv == JournalInv /\ CommitImport => JournalInv'
<1> SUFFICES ASSUME JournalInv, CommitImport PROVE JournalInv'
  OBVIOUS
<1> DEFINE e == [view EXCEPT !.imports = @ \cup {frame}]
           new == { tx.batch[i] : i \in DOMAIN tx.batch }
<1>1. /\ tx.op = "import" /\ tx.next > Len(tx.batch)
      /\ db' = e /\ view' = e /\ accepted' = accepted \cup new
      /\ tx' = NoTx /\ frame' = frame + 1 /\ confirmed' = confirmed
  BY DEF CommitImport, Commit
<1>2. frame \in 1 .. Len(Frames) + 1 /\ Good(view) /\ Retained(view) <= Limit
  BY DEF JournalInv, TypeOK
<1>3. /\ Good(e) /\ Keeps(view, e) /\ Retained(e) = Retained(view)
      /\ e.obs = view.obs /\ e.history = view.history /\ e.cps = view.cps
  <2>1. frame \in Nat
    BY <1>2
  <2> QED BY <1>2, <2>1, LedgerGood
<1> HIDE DEF e
<1>4. Rows(e) = Rows(view) /\ Archived(e) = Archived(view)
  BY <1>3 DEF Rows, Pending, Dead, In, Archived
<1>5. /\ tx.batch \in Seq(Records) /\ DOMAIN tx.batch = 1 .. Len(tx.batch)
      /\ tx.next \in Nat
  BY DEF JournalInv, TypeOK
<1>6. new \subseteq Rows(view) /\ new \cap Lifecycle \subseteq Archived(view) /\ new \subseteq Records
  BY <1>1, <1>5 DEF JournalInv, TransactionInv
<1>7. frame' \in 1 .. Len(Frames) + 1
  BY <1>1, <1>2 DEF JournalInv, TransactionInv, Opened
<1>8. Keeps(db, e) /\ e.cps = db.cps
  <2>1. Keeps(db, view) /\ view.cps = db.cps
    BY DEF JournalInv, TransactionInv
  <2> QED BY <1>3, <2>1 DEF Keeps
<1>9. accepted' \subseteq Rows(e) \cup confirmed'
  BY <1>1, <1>4, <1>6 DEF JournalInv, TransactionInv
<1>10. accepted' \cap Lifecycle \subseteq Archived(e)
  <2>1. Archived(db) \subseteq Archived(e)
    BY <1>8 DEF Keeps, Archived
  <2> QED BY <1>1, <1>4, <1>6, <2>1 DEF JournalInv
<1>11. accepted' \subseteq Records /\ confirmed' \subseteq Records
  BY <1>1, <1>6 DEF JournalInv, TypeOK
<1>12. \A s \in Sources : e.cps[s].digest \in Records => e.cps[s].digest \in accepted'
  BY <1>1, <1>8 DEF JournalInv
<1> HIDE DEF new
<1> QED BY <1>1, <1>2, <1>3, <1>7, <1>8, <1>9, <1>10, <1>11, <1>12, EndInv

(* append keeps the invariant. *)
LEMMA AppendInv ==
  ASSUME JournalInv, NEW r \in Records, AppendRecord(r) PROVE JournalInv'
<1>1. /\ tx.op = "none" /\ InsertFits(db, r) /\ accepted' = accepted \cup {r}
      /\ UNCHANGED <<tx, frame, confirmed>>
  BY DEF AppendRecord, Idle
<1>2. PICK n \in 1 .. MaxSeq : IsNextSeq(db, n) /\ Commit(Insert(db, r, n))
  BY DEF AppendRecord
<1>3. Good(db) /\ Retained(db) <= Limit /\ frame \in 1 .. Len(Frames) + 1 /\ accepted \subseteq Records
  BY DEF JournalInv, TypeOK
<1> DEFINE e == Insert(db, r, n)
<1>4. /\ Good(e) /\ Keeps(db, e) /\ Retained(e) <= Limit
      /\ e.cps = db.cps /\ e.imports = db.imports
      /\ Rows(e) = Rows(db) \cup {r}
      /\ r \in Lifecycle => r \in Archived(e)
  BY <1>1, <1>2, <1>3, InsertGood
<1>5. Commit(e)
  BY <1>2
<1> HIDE DEF e
<1>6. \A s \in Sources : e.cps[s].digest \in Records => e.cps[s].digest \in accepted'
  BY <1>1, <1>4 DEF JournalInv
<1> QED BY <1>1, <1>3, <1>4, <1>5, <1>6, CommitInv

(* A repeated append_checkpointed finds its record already accepted. *)
LEMMA RepeatInv ==
  ASSUME JournalInv, NEW r \in Records, NEW s \in Sources, NEW value, NEW expected,
         RepeatCheckpointed(r, s, value, expected)
  PROVE  JournalInv'
<1>1. r \in accepted
  BY DEF RepeatCheckpointed, AlreadySaved, JournalInv
<1>2. accepted' = accepted /\ UNCHANGED <<db, view, tx, frame, confirmed>>
  BY <1>1 DEF RepeatCheckpointed
<1> QED BY <1>2 DEF JournalInv, TypeOK, NoLoss, TransactionInv, Opened

(* append_checkpointed keeps the invariant: the record precedes its cursor. *)
LEMMA AppendCheckpointedInv ==
  ASSUME JournalInv, NEW r \in Records, NEW s \in Sources, NEW value \in Cursors,
         NEW expected \in 0 .. MaxRevision - 1, AppendCheckpointed(r, s, value, expected)
  PROVE  JournalInv'
<1>1. /\ tx.op = "none" /\ InsertFits(db, r) /\ accepted' = accepted \cup {r}
      /\ UNCHANGED <<tx, frame, confirmed>>
  BY DEF AppendCheckpointed, Idle
<1>2. PICK n \in 1 .. MaxSeq :
        /\ IsNextSeq(db, n) /\ CheckpointFits(Insert(db, r, n), s, value)
        /\ Commit(SaveCheckpoint(Insert(db, r, n), s, value, r, expected))
  BY DEF AppendCheckpointed
<1>3. Good(db) /\ Retained(db) <= Limit /\ frame \in 1 .. Len(Frames) + 1 /\ accepted \subseteq Records
  BY DEF JournalInv, TypeOK
<1> DEFINE m == Insert(db, r, n)
           e == SaveCheckpoint(m, s, value, r, expected)
<1>4. /\ Good(m) /\ Keeps(db, m) /\ Retained(m) <= Limit
      /\ m.cps = db.cps /\ m.imports = db.imports
      /\ Rows(m) = Rows(db) \cup {r}
      /\ r \in Lifecycle => r \in Archived(m)
  BY <1>1, <1>2, <1>3, InsertGood
<1>5. Commit(e) /\ CheckpointFits(m, s, value)
      /\ e = SaveCheckpoint(m, s, value, r, expected) /\ r \in Records \cup {CheckpointOnly}
  BY <1>2
<1> HIDE DEF m, e
<1>6. /\ Good(e) /\ Keeps(m, e) /\ Retained(e) <= Limit
      /\ e.obs = m.obs /\ e.history = m.history /\ e.imports = m.imports
      /\ \A t \in Sources : t # s => e.cps[t] = m.cps[t]
      /\ e.cps[s].digest = r /\ e.cps[s].rev = expected + 1
  BY <1>4, <1>5, SaveGood
<1>7. Rows(e) = Rows(m) /\ Archived(e) = Archived(m)
  BY <1>6 DEF Rows, Pending, Dead, In, Archived
<1>8. Keeps(db, e)
  BY <1>4, <1>6 DEF Keeps
<1>9. \A t \in Sources : e.cps[t].digest \in Records => e.cps[t].digest \in accepted'
  BY <1>1, <1>4, <1>6 DEF JournalInv
<1> QED BY <1>1, <1>3, <1>4, <1>5, <1>6, <1>7, <1>8, <1>9, CommitInv

(* SaveGood for a cursor that moves without a record. *)
LEMMA SaveOnlyGood ==
  ASSUME NEW d, Good(d), NEW s \in Sources, NEW value \in Cursors,
         NEW expected \in 0 .. MaxRevision - 1, CheckpointFits(d, s, value),
         NEW e, e = SaveCheckpoint(d, s, value, CheckpointOnly, expected)
  PROVE  /\ Good(e) /\ Keeps(d, e) /\ Retained(e) <= Limit
         /\ e.obs = d.obs /\ e.history = d.history /\ e.imports = d.imports
         /\ \A t \in Sources : t # s => e.cps[t] = d.cps[t]
         /\ e.cps[s].digest = CheckpointOnly /\ e.cps[s].rev = expected + 1
<1> DEFINE digest == CheckpointOnly
<1>1. digest \in Records \cup {CheckpointOnly} /\ digest = CheckpointOnly
      /\ e = SaveCheckpoint(d, s, value, digest, expected)
  OBVIOUS
<1> HIDE DEF digest
<1>2. /\ Good(e) /\ Keeps(d, e) /\ Retained(e) <= Limit
      /\ e.obs = d.obs /\ e.history = d.history /\ e.imports = d.imports
      /\ \A t \in Sources : t # s => e.cps[t] = d.cps[t]
      /\ e.cps[s].digest = digest /\ e.cps[s].rev = expected + 1
  BY <1>1, SaveGood
<1> QED BY <1>1, <1>2

(* advance_checkpoint keeps the invariant. *)
LEMMA AdvanceInv ==
  ASSUME JournalInv, NEW s \in Sources, NEW value \in Cursors,
         NEW expected \in 0 .. MaxRevision - 1, AdvanceCheckpoint(s, value, expected)
  PROVE  JournalInv'
<1>1. /\ tx.op = "none" /\ CheckpointFits(db, s, value)
      /\ UNCHANGED <<tx, frame, accepted, confirmed>>
      /\ Commit(SaveCheckpoint(db, s, value, CheckpointOnly, expected))
  BY DEF AdvanceCheckpoint, Idle
<1>2. Good(db) /\ Retained(db) <= Limit /\ frame \in 1 .. Len(Frames) + 1 /\ accepted \subseteq Records
  BY DEF JournalInv, TypeOK
<1> DEFINE e == SaveCheckpoint(db, s, value, CheckpointOnly, expected)
<1>4. Commit(e)
  BY <1>1
<1>3. /\ Good(e) /\ Keeps(db, e) /\ Retained(e) <= Limit
      /\ e.obs = db.obs /\ e.history = db.history /\ e.imports = db.imports
      /\ \A t \in Sources : t # s => e.cps[t] = db.cps[t]
      /\ e.cps[s].digest = CheckpointOnly /\ e.cps[s].rev = expected + 1
  <2> DEFINE d == db
  <2>1. /\ Good(d) /\ CheckpointFits(d, s, value) /\ d = db
        /\ e = SaveCheckpoint(d, s, value, CheckpointOnly, expected)
    BY <1>1, <1>2
  <2> HIDE DEF d, e
  <2>2. /\ Good(e) /\ Keeps(d, e) /\ Retained(e) <= Limit
        /\ e.obs = d.obs /\ e.history = d.history /\ e.imports = d.imports
        /\ \A t \in Sources : t # s => e.cps[t] = d.cps[t]
        /\ e.cps[s].digest = CheckpointOnly /\ e.cps[s].rev = expected + 1
    BY <2>1, SaveOnlyGood
  <2> QED BY <2>1, <2>2
<1> HIDE DEF e
<1>5. Rows(e) = Rows(db)
  BY <1>3 DEF Rows, Pending, Dead, In
<1>6. \A t \in Sources : e.cps[t].digest \in Records => e.cps[t].digest \in accepted'
  BY <1>1, <1>3, CursorsAssumption DEF JournalInv
<1> QED BY <1>1, <1>2, <1>3, <1>4, <1>5, <1>6, CommitInv

(* rebuild_process_graph keeps the invariant. *)
LEMMA RebuildInv ==
  ASSUME JournalInv, NEW k, RebuildProcessGraph(k) PROVE JournalInv'
<1> DEFINE S == Page(Archived(db) \ db.graph, db.history, k, RebuildBytes)
           e == IndexProcess(db, S)
<1>1. tx.op = "none" /\ Commit(e) /\ UNCHANGED <<tx, frame, accepted, confirmed>>
  BY DEF RebuildProcessGraph, Idle
<1>2. Good(db) /\ Retained(db) <= Limit /\ frame \in 1 .. Len(Frames) + 1 /\ accepted \subseteq Records
  BY DEF JournalInv, TypeOK
<1>3. /\ S \in SUBSET (Archived(db) \ db.graph) /\ Sound(db)
      /\ Archived(db) \ (db.graph \cup S) \subseteq Migrated
  BY <1>2 DEF Page, Good
<1> HIDE DEF S
<1>4. /\ Good(e) /\ Keeps(db, e) /\ Retained(e) = Retained(db)
      /\ e.obs = db.obs /\ e.history = db.history /\ e.cps = db.cps
      /\ e.imports = db.imports
  BY <1>3, IndexGood
<1> HIDE DEF e
<1>5. Rows(e) = Rows(db)
  BY <1>4 DEF Rows, Pending, Dead, In
<1>6. \A t \in Sources : e.cps[t].digest \in Records => e.cps[t].digest \in accepted'
  BY <1>1, <1>4 DEF JournalInv
<1> QED BY <1>1, <1>2, <1>4, <1>5, <1>6, CommitInv

(* A command row grows by what its check admitted, or not at all. *)
LEMMA CommandStep ==
  ASSUME JournalInv, NEW c \in Commands,
         \/ ReceiveCommand(c) \/ BeginCommand(c) \/ MarkCommandOutboxed(c)
         \/ \E n \in ResultSizes : FinishCommand(c, n)
  PROVE  /\ view' = db' /\ tx.op = "none" /\ UNCHANGED <<tx, frame, accepted, confirmed>>
         /\ Good(db') /\ Keeps(db, db') /\ Retained(db') <= Limit
         /\ db'.obs = db.obs /\ db'.history = db.history /\ db'.cps = db.cps
<1>0. Good(db) /\ Retained(db) <= Limit /\ Retained(db) \in Nat
  BY SumsNat DEF JournalInv
<1> DEFINE old == db.cmds[c].bytes
           States == {"received", "executing", "result_ready", "outboxed"}
<1>1. old \in Nat /\ (db.cmds[c].state = "none" => old = 0)
  BY <1>0 DEF Good, Sound, Image, Command
<1>2. /\ view' = db' /\ tx.op = "none" /\ UNCHANGED <<tx, frame, accepted, confirmed>>
      /\ \E state \in States, n \in Nat :
           db' = SetCommand(db, c, state, n) /\ Retained(db) - old + n <= Limit
  <2>1. CASE ReceiveCommand(c)
    <3>1. /\ db' = SetCommand(db, c, "received", CommandSize[c]) /\ old = 0
          /\ Retained(db) + CommandSize[c] <= Limit /\ CommandSize[c] \in Nat
      BY <1>1, <2>1, MetadataAssumption DEF ReceiveCommand, Commit
    <3>2. view' = db' /\ tx.op = "none" /\ UNCHANGED <<tx, frame, accepted, confirmed>>
      BY <2>1 DEF ReceiveCommand, Commit, Idle
    <3> HIDE DEF old
    <3>3. Retained(db) - old + CommandSize[c] <= Limit
      BY <1>0, <3>1
    <3> QED BY <3>1, <3>2, <3>3
  <2>2. CASE BeginCommand(c)
    <3>1. db' = SetCommand(db, c, "executing", old)
      BY <2>2 DEF BeginCommand, Commit
    <3>2. view' = db' /\ tx.op = "none" /\ UNCHANGED <<tx, frame, accepted, confirmed>>
      BY <2>2 DEF BeginCommand, Commit, Idle
    <3> HIDE DEF old
    <3>3. Retained(db) - old + old <= Limit
      BY <1>0, <1>1
    <3> QED BY <1>1, <3>1, <3>2, <3>3
  <2>3. CASE MarkCommandOutboxed(c)
    <3>1. db' = SetCommand(db, c, "outboxed", old)
      BY <2>3 DEF MarkCommandOutboxed, Commit
    <3>2. view' = db' /\ tx.op = "none" /\ UNCHANGED <<tx, frame, accepted, confirmed>>
      BY <2>3 DEF MarkCommandOutboxed, Commit, Idle
    <3> HIDE DEF old
    <3>3. Retained(db) - old + old <= Limit
      BY <1>0, <1>1
    <3> QED BY <1>1, <3>1, <3>2, <3>3
  <2>4. CASE \E n \in ResultSizes : FinishCommand(c, n)
    <3>1. PICK n \in ResultSizes : FinishCommand(c, n)
      BY <2>4
    <3>2. /\ db' = SetCommand(db, c, "result_ready", old + n)
          /\ Retained(db) + n <= Limit /\ n \in Nat
      BY <3>1, MetadataAssumption DEF FinishCommand, Commit
    <3>3. view' = db' /\ tx.op = "none" /\ UNCHANGED <<tx, frame, accepted, confirmed>>
      BY <3>1 DEF FinishCommand, Commit, Idle
    <3> HIDE DEF old
    <3>4. Retained(db) - old + (old + n) <= Limit /\ old + n \in Nat
      BY <1>0, <1>1, <3>2
    <3> QED BY <3>2, <3>3, <3>4
  <2> QED BY <2>1, <2>2, <2>3, <2>4
<1>3. PICK state \in States, n \in Nat :
        db' = SetCommand(db, c, state, n) /\ Retained(db) - old + n <= Limit
  BY <1>2
<1> DEFINE e == db'
<1>4. /\ e = SetCommand(db, c, state, n) /\ n \in Nat /\ db.cmds[c].bytes \in Nat
      /\ state # "none" /\ [state |-> state, bytes |-> n] \in Command
  BY <1>1, <1>3 DEF Command
<1> HIDE DEF e, States, old
<1>5. /\ Good(e) /\ Keeps(db, e)
      /\ \E rest \in Int : Retained(db) = rest + db.cmds[c].bytes /\ Retained(e) = rest + n
      /\ e.obs = db.obs /\ e.history = db.history /\ e.cps = db.cps
  BY <1>0, <1>4, SetCommandGood, SMTT(30), ZenonT(30)
<1>6. Retained(e) <= Limit
  <2>1. PICK rest \in Int : Retained(db) = rest + db.cmds[c].bytes /\ Retained(e) = rest + n
    BY <1>5
  <2>2. Retained(db) - db.cmds[c].bytes + n <= Limit
    BY <1>3 DEF old
  <2>3. n \in Nat /\ db.cmds[c].bytes \in Nat /\ Limit \in Int
    BY <1>4, LimitsAssumption
  <2> QED BY <2>1, <2>2, <2>3
<1> QED BY <1>2, <1>5, <1>6 DEF e

(* The invariant survives the inbox operations. *)
LEMMA CommandInv ==
  ASSUME JournalInv, NEW c \in Commands,
         \/ ReceiveCommand(c) \/ BeginCommand(c) \/ MarkCommandOutboxed(c)
         \/ \E n \in ResultSizes : FinishCommand(c, n)
  PROVE  JournalInv'
<1> DEFINE e == db'
<1>1. /\ Commit(e) /\ tx.op = "none" /\ UNCHANGED <<tx, frame, accepted, confirmed>>
      /\ Good(e) /\ Keeps(db, e) /\ Retained(e) <= Limit
      /\ e.obs = db.obs /\ e.history = db.history /\ e.cps = db.cps
  BY CommandStep DEF Commit
<1> HIDE DEF e
<1>2. frame \in 1 .. Len(Frames) + 1 /\ accepted \subseteq Records
  BY DEF JournalInv, TypeOK
<1>3. Rows(e) = Rows(db)
  BY <1>1 DEF Rows, Pending, Dead, In
<1>4. \A t \in Sources : e.cps[t].digest \in Records => e.cps[t].digest \in accepted'
  BY <1>1 DEF JournalInv
<1> QED BY <1>1, <1>2, <1>3, <1>4, CommitInv

(* Any batch, however stale, may open a receipt. *)
LEMMA BeginAcknowledgeInv ==
  ASSUME JournalInv, NEW b \in Batches, NEW rejected \in Rejections(b),
         BeginAcknowledge(b, rejected)
  PROVE  JournalInv'
<1>1. /\ tx.op = "none" /\ view = db /\ UNCHANGED <<db, view, frame, accepted, confirmed>>
      /\ tx' = [op |-> "ack", batch |-> b, rejected |-> rejected, next |-> 1]
  BY DEF BeginAcknowledge, Idle, JournalInv, TransactionInv
<1>2. b \in Seq(Records) /\ \A i \in DOMAIN rejected : rejected[i] \in ReasonSizes
  BY DEF Batches, Rejections
<1>3. TypeOK'
  BY <1>1, <1>2 DEF JournalInv, TypeOK
<1>4. TransactionInv'
  <2>1. accepted \subseteq Rows(view) \cup confirmed
    BY <1>1 DEF JournalInv, NoLoss
  <2>2. Keeps(db, view) /\ view.cps = db.cps
    BY DEF JournalInv, TransactionInv
  <2>3. tx'.op = "ack" /\ tx'.next = 1 /\ tx'.batch = b
    BY <1>1
  <2>4. \A i \in DOMAIN tx'.batch : ~(i < tx'.next)
    BY <1>2, <2>3
  <2> QED BY <1>1, <2>1, <2>2, <2>3, <2>4 DEF TransactionInv
<1> QED BY <1>1, <1>3, <1>4 DEF JournalInv, NoLoss

(* Settling or rejecting the next row of a receipt keeps the invariant. *)
LEMMA AcknowledgeRowInv == JournalInv /\ AcknowledgeRow => JournalInv'
<1> SUFFICES ASSUME JournalInv, AcknowledgeRow PROVE JournalInv'
  OBVIOUS
<1> DEFINE r == tx.batch[tx.next]
<1>1. /\ tx.op = "ack" /\ tx.next <= Len(tx.batch)
      /\ tx' = [tx EXCEPT !.next = @ + 1]
      /\ UNCHANGED <<db, frame, accepted, confirmed>>
  BY DEF AcknowledgeRow
<1>2. r \in Records /\ tx.next \in DOMAIN tx.batch
  BY <1>1 DEF JournalInv, TypeOK, TransactionInv
<1>3. Good(view) /\ Retained(view) <= Limit
  BY DEF JournalInv
<1>4. CASE /\ tx.next \in DOMAIN tx.rejected
           /\ RejectFits(view, r, tx.rejected[tx.next])
           /\ view' = MarkDead(view, r, tx.rejected[tx.next])
  <2> DEFINE n == tx.rejected[tx.next]
             e == MarkDead(view, r, n)
  <2>1. n \in Nat
    BY <1>4, MetadataAssumption DEF JournalInv, TypeOK
  <2> HIDE DEF n
  <2>2. RejectFits(view, r, n) /\ view' = e
    BY <1>4 DEF n
  <2> HIDE DEF r
  <2>3. /\ Good(e) /\ Keeps(view, e) /\ Retained(e) <= Limit
        /\ e.history = view.history /\ e.cps = view.cps /\ e.imports = view.imports
        /\ Rows(e) = Rows(view) /\ Pending(e) = Pending(view) \ {r}
    BY <1>2, <1>3, <2>1, <2>2, MarkDeadGood
  <2> HIDE DEF e
  <2> QED BY <1>1, <2>2, <2>3, ViewInv DEF r
<1>5. CASE tx.next \notin DOMAIN tx.rejected /\ view' = Retire(view, r)
  <2> DEFINE e == Retire(view, r)
  <2>1. r \in Settled(tx.batch, tx.rejected)
    BY <1>2, <1>5 DEF Settled
  <2> HIDE DEF r
  <2>2. /\ Good(e) /\ Keeps(view, e) /\ Retained(e) <= Retained(view)
        /\ e.history = view.history /\ e.cps = view.cps /\ e.imports = view.imports
        /\ Rows(view) \subseteq Rows(e) \cup {r} /\ Pending(e) = Pending(view) \ {r}
    BY <1>2, <1>3, RetireGood
  <2>3. Retained(e) <= Limit
    <3>1. Retained(e) \in Nat /\ Retained(view) \in Nat
      BY <1>3, <2>2, SumsNat
    <3> QED BY <1>3, <2>2, <3>1, LimitsAssumption
  <2>4. view' = e
    BY <1>5
  <2> HIDE DEF e
  <2> QED BY <1>1, <2>1, <2>2, <2>3, <2>4, ViewInv DEF r
<1> QED BY <1>4, <1>5 DEF AcknowledgeRow

(* So does committing the receipt. *)
LEMMA CommitAcknowledgeInv == JournalInv /\ CommitAcknowledge => JournalInv'
<1> SUFFICES ASSUME JournalInv, CommitAcknowledge PROVE JournalInv'
  OBVIOUS
<1>1. /\ tx.op = "ack" /\ db' = view /\ view' = view /\ tx' = NoTx
      /\ confirmed' = confirmed \cup Settled(tx.batch, tx.rejected)
      /\ UNCHANGED <<frame, accepted>>
  BY DEF CommitAcknowledge, Commit
<1>2. /\ Good(view) /\ Retained(view) <= Limit /\ Keeps(db, view) /\ view.cps = db.cps
      /\ frame \in 1 .. Len(Frames) + 1 /\ accepted \subseteq Records
  BY DEF JournalInv, TransactionInv, TypeOK
<1>3. confirmed' \subseteq Records
  BY <1>1 DEF JournalInv, TypeOK, Settled
<1>4. accepted \subseteq Rows(view) \cup confirmed'
  BY <1>1 DEF JournalInv, TransactionInv
<1>5. accepted \cap Lifecycle \subseteq Archived(view)
  <2>1. Archived(db) \subseteq Archived(view)
    BY <1>2 DEF Keeps, Archived
  <2> QED BY <2>1 DEF JournalInv
<1>6. \A s \in Sources : view.cps[s].digest \in Records => view.cps[s].digest \in accepted
  BY <1>2 DEF JournalInv
<1> QED BY <1>1, <1>2, <1>3, <1>4, <1>5, <1>6, EndInv

(* So do a rollback and a crash. *)
LEMMA AbortInv == JournalInv /\ (Rollback \/ Crash) => JournalInv'
<1> SUFFICES ASSUME JournalInv, Rollback \/ Crash PROVE JournalInv'
  OBVIOUS
<1>1. db' = db /\ view' = db /\ tx' = NoTx /\ UNCHANGED <<accepted, confirmed>>
  BY DEF Rollback, Crash
<1>2. frame' \in 1 .. Len(Frames) + 1
  BY DEF Rollback, Crash, JournalInv, TypeOK
<1>3. /\ Good(db) /\ Retained(db) <= Limit /\ accepted \subseteq Records
      /\ confirmed \subseteq Records /\ accepted \subseteq Rows(db) \cup confirmed
      /\ accepted \cap Lifecycle \subseteq Archived(db)
      /\ \A s \in Sources : db.cps[s].digest \in Records => db.cps[s].digest \in accepted
  BY DEF JournalInv, NoLoss, TypeOK
<1>4. Keeps(db, db)
  BY DEF Keeps
<1> QED BY <1>1, <1>2, <1>3, <1>4, EndInv

(* A step that changes nothing keeps the invariant. *)
LEMMA StutterInv == JournalInv /\ UNCHANGED vars => JournalInv'
  BY DEF vars, JournalInv, TypeOK, NoLoss, TransactionInv, Opened

(* Every step of the journal preserves the invariant. *)
LEMMA NextInv == JournalInv /\ [Next]_vars => JournalInv'
<1> SUFFICES ASSUME JournalInv, [Next]_vars PROVE JournalInv'
  OBVIOUS
<1>0. Appendable \subseteq Records
  BY DEF Appendable
<1>1. CASE SkipFrame \/ BeginImport \/ ImportLine \/ CommitImport
  BY <1>1, SkipFrameInv, BeginInv, ImportLineInv, CommitImportInv
<1>2. CASE \E r \in Appendable : AppendRecord(r)
  BY <1>0, <1>2, AppendInv
<1>3. CASE \E r \in Appendable, s \in Sources, value \in Cursors,
             expected \in 0 .. MaxRevision - 1 :
            \/ RepeatCheckpointed(r, s, value, expected)
            \/ AppendCheckpointed(r, s, value, expected)
  BY <1>0, <1>3, RepeatInv, AppendCheckpointedInv
<1>4. CASE \E s \in Sources, value \in Cursors, expected \in 0 .. MaxRevision - 1 :
             AdvanceCheckpoint(s, value, expected)
  BY <1>4, AdvanceInv
<1>5. CASE \E k \in 1 .. MaxBatch : RebuildProcessGraph(k)
  BY <1>5, RebuildInv
<1>9. CASE \E c \in Commands :
             \/ ReceiveCommand(c) \/ BeginCommand(c) \/ MarkCommandOutboxed(c)
             \/ \E n \in ResultSizes : FinishCommand(c, n)
  BY <1>9, CommandInv
<1>6. CASE \E b \in Batches : \E rejected \in Rejections(b) : BeginAcknowledge(b, rejected)
  BY <1>6, BeginAcknowledgeInv
<1>7. CASE AcknowledgeRow \/ CommitAcknowledge \/ Rollback \/ Crash
  BY <1>7, AcknowledgeRowInv, CommitAcknowledgeInv, AbortInv
<1>8. CASE UNCHANGED vars
  BY <1>8, StutterInv
<1> QED BY <1>1, <1>2, <1>3, <1>4, <1>5, <1>6, <1>7, <1>8, <1>9 DEF Next

(* The journal's inductive invariant holds in every reachable state. *)
THEOREM JournalInvariant == Spec => []JournalInv
  BY InitInv, NextInv, PTL DEF Spec

(* What the invariant says of the committed image. *)
LEMMA InvImplies ==
  JournalInv => /\ TypeOK /\ CountersExact /\ QuotaHeld /\ NoLoss /\ CursorNeverAhead
                /\ HistoryComplete /\ SequenceUnique
<1> SUFFICES ASSUME JournalInv
             PROVE  /\ TypeOK /\ CountersExact /\ QuotaHeld /\ NoLoss /\ CursorNeverAhead
                    /\ HistoryComplete /\ SequenceUnique
  OBVIOUS
<1>1. TypeOK /\ CountersExact /\ QuotaHeld /\ NoLoss
  BY DEF JournalInv, CountersExact, QuotaHeld, Good, Sound
<1>2. CursorNeverAhead
  BY DEF JournalInv, CursorNeverAhead, NoLoss
<1>3. SequenceUnique
  BY DEF JournalInv, SequenceUnique, Good, Sound
<1>4. HistoryComplete
  <2> DEFINE U == { r \in db.graph : Quality[r] # 0 }
  <2>1. /\ db.graph \subseteq Archived(db) /\ accepted \cap Lifecycle \subseteq Archived(db)
        /\ db.historyCount = Cardinality(Archived(db)) /\ db.graphCount = Cardinality(db.graph)
        /\ db.unresolved = Cardinality(U) /\ Archived(db) \ db.graph \subseteq Migrated
    BY DEF JournalInv, Good, Sound, Accounted
  <2>2. IsFiniteSet(Archived(db))
    BY TablesFinite
  <2>3. IsFiniteSet(db.graph) /\ IsFiniteSet(Archived(db) \ db.graph)
    BY <2>1, <2>2, FS_Subset
  <2>4. Cardinality(U) <= Cardinality(db.graph)
    BY <2>3, FS_Subset
  <2>5. Cardinality(Archived(db))
          = Cardinality(db.graph) + Cardinality(Archived(db) \ db.graph)
    <3>1. Archived(db) = db.graph \cup (Archived(db) \ db.graph)
      BY <2>1
    <3>2. db.graph \cap (Archived(db) \ db.graph) = {}
      OBVIOUS
    <3> QED BY <2>3, <3>1, <3>2, CardinalityDisjoint
  <2>6. Cardinality(db.graph) \in Nat /\ Cardinality(Archived(db) \ db.graph) \in Nat
    BY <2>3, FS_CardinalityType
  <2> HIDE DEF U
  <2> QED BY <2>1, <2>4, <2>5, <2>6 DEF HistoryComplete
<1> QED BY <1>1, <1>2, <1>3, <1>4

(* The counters the triggers maintain never drift from the tables. *)
THEOREM CountersTheorem == Spec => []CountersExact
  BY JournalInvariant, InvImplies, PTL

(* The plaintext quota is never exceeded. *)
THEOREM QuotaTheorem == Spec => []QuotaHeld
  BY JournalInvariant, InvImplies, PTL

(* A record whose append returned is retained until a receipt settles it. *)
THEOREM NoLossTheorem == Spec => []NoLoss
  BY JournalInvariant, InvImplies, PTL

(* A checkpoint never names a record that is not retained or delivered. *)
THEOREM CursorTheorem == Spec => []CursorNeverAhead
  BY JournalInvariant, InvImplies, PTL

(* The process archive is complete and the counter check of stats() passes. *)
THEOREM HistoryTheorem == Spec => []HistoryComplete
  BY JournalInvariant, InvImplies, PTL

(* Retained rows keep distinct sequence numbers. *)
THEOREM SequenceTheorem == Spec => []SequenceUnique
  BY JournalInvariant, InvImplies, PTL

-----------------------------------------------------------------------------
(* How one step may change the committed image. *)
LEMMA StepKeeps ==
  ASSUME JournalInv, [Next]_vars
  PROVE  /\ Keeps(db, db')
         /\ \A s \in Sources : db'.cps[s] # db.cps[s] => db'.cps[s].rev = db.cps[s].rev + 1
<1>0. /\ Good(db) /\ Good(view) /\ Retained(db) <= Limit /\ Retained(view) <= Limit
      /\ Keeps(db, view) /\ view.cps = db.cps /\ frame \in Nat
  BY DEF JournalInv, TransactionInv, TypeOK
<1>1. CASE db' = db
  BY <1>1 DEF Keeps
<1>2. CASE SkipFrame /\ db' # db
  <2> DEFINE e == [db EXCEPT !.gaps = @ \cup {frame}]
  <2>1. db' = e
    BY <1>2 DEF SkipFrame, Commit
  <2>2. Keeps(db, e) /\ e.cps = db.cps
    BY <1>0, LedgerGood
  <2> QED BY <2>1, <2>2
<1>3. CASE CommitImport
  <2> DEFINE e == [view EXCEPT !.imports = @ \cup {frame}]
  <2>1. db' = e
    BY <1>3 DEF CommitImport, Commit
  <2>2. Keeps(view, e) /\ e.cps = view.cps /\ e.obs = view.obs /\ e.history = view.history
    BY <1>0, LedgerGood
  <2> HIDE DEF e
  <2> QED BY <1>0, <2>1, <2>2 DEF Keeps
<1>4. ASSUME NEW r \in Appendable, AppendRecord(r)
      PROVE  Keeps(db, db') /\ db'.cps = db.cps
  <2>1. r \in Records /\ InsertFits(db, r)
    BY <1>4 DEF Appendable, AppendRecord
  <2>2. PICK n \in 1 .. MaxSeq : IsNextSeq(db, n) /\ db' = Insert(db, r, n)
    BY <1>4 DEF AppendRecord, Commit
  <2> QED BY <1>0, <2>1, <2>2, InsertGood
<1>5. ASSUME NEW r \in Appendable, NEW s \in Sources, NEW value \in Cursors,
             NEW expected \in 0 .. MaxRevision - 1, AppendCheckpointed(r, s, value, expected)
      PROVE  /\ Keeps(db, db') /\ db'.cps[s].rev = db.cps[s].rev + 1
             /\ \A t \in Sources : t # s => db'.cps[t] = db.cps[t]
  <2>1. r \in Records /\ InsertFits(db, r) /\ db.cps[s].rev = expected
    BY <1>5 DEF Appendable, AppendCheckpointed
  <2>2. PICK n \in 1 .. MaxSeq :
          /\ IsNextSeq(db, n) /\ CheckpointFits(Insert(db, r, n), s, value)
          /\ db' = SaveCheckpoint(Insert(db, r, n), s, value, r, expected)
    BY <1>5 DEF AppendCheckpointed, Commit
  <2> DEFINE m == Insert(db, r, n)
  <2>3. Good(m) /\ Keeps(db, m) /\ m.cps = db.cps
    BY <1>0, <2>1, <2>2, InsertGood
  <2> HIDE DEF m
  <2> DEFINE e == SaveCheckpoint(m, s, value, r, expected)
  <2>4. db' = e /\ CheckpointFits(m, s, value) /\ r \in Records \cup {CheckpointOnly}
        /\ e = SaveCheckpoint(m, s, value, r, expected)
    BY <2>1, <2>2 DEF m
  <2> HIDE DEF e
  <2>5. /\ Keeps(m, e) /\ e.obs = m.obs /\ e.history = m.history
        /\ \A t \in Sources : t # s => e.cps[t] = m.cps[t]
        /\ e.cps[s].rev = expected + 1
    BY <2>3, <2>4, SaveGood
  <2> QED BY <2>1, <2>3, <2>4, <2>5 DEF Keeps
<1>6. ASSUME NEW s \in Sources, NEW value \in Cursors,
             NEW expected \in 0 .. MaxRevision - 1, AdvanceCheckpoint(s, value, expected)
      PROVE  /\ Keeps(db, db') /\ db'.cps[s].rev = db.cps[s].rev + 1
             /\ \A t \in Sources : t # s => db'.cps[t] = db.cps[t]
  <2>1. /\ CheckpointFits(db, s, value) /\ db.cps[s].rev = expected
        /\ db' = SaveCheckpoint(db, s, value, CheckpointOnly, expected)
    BY <1>6 DEF AdvanceCheckpoint, Commit
  <2> DEFINE d == db
             e == SaveCheckpoint(d, s, value, CheckpointOnly, expected)
  <2>2. /\ db' = e /\ d = db /\ Good(d) /\ CheckpointFits(d, s, value)
        /\ e = SaveCheckpoint(d, s, value, CheckpointOnly, expected)
    BY <1>0, <2>1
  <2> HIDE DEF d, e
  <2>3. /\ Keeps(d, e) /\ \A t \in Sources : t # s => e.cps[t] = d.cps[t]
        /\ e.cps[s].rev = expected + 1
    BY <2>2, SaveOnlyGood
  <2> QED BY <2>1, <2>2, <2>3
<1>7. ASSUME NEW k, RebuildProcessGraph(k) PROVE Keeps(db, db') /\ db'.cps = db.cps
  <2> DEFINE S == Page(Archived(db) \ db.graph, db.history, k, RebuildBytes)
  <2>1. /\ S \in SUBSET (Archived(db) \ db.graph) /\ Sound(db)
        /\ Archived(db) \ (db.graph \cup S) \subseteq Migrated
    BY <1>0 DEF Page, Good
  <2>2. db' = IndexProcess(db, S)
    BY <1>7 DEF RebuildProcessGraph, Commit
  <2> HIDE DEF S
  <2> QED BY <2>1, <2>2, IndexGood
<1>8. CASE CommitAcknowledge
  <2>1. db' = view
    BY <1>8 DEF CommitAcknowledge, Commit
  <2> QED BY <1>0, <2>1
<1>10. ASSUME NEW c \in Commands,
              \/ ReceiveCommand(c) \/ BeginCommand(c) \/ MarkCommandOutboxed(c)
              \/ \E n \in ResultSizes : FinishCommand(c, n)
       PROVE  Keeps(db, db') /\ db'.cps = db.cps
  BY <1>10, CommandStep
<1>9. \/ db' = db \/ (SkipFrame /\ db' # db) \/ CommitImport \/ CommitAcknowledge
      \/ \E r \in Appendable : AppendRecord(r)
      \/ \E r \in Appendable, s \in Sources, value \in Cursors,
            expected \in 0 .. MaxRevision - 1 : AppendCheckpointed(r, s, value, expected)
      \/ \E s \in Sources, value \in Cursors, expected \in 0 .. MaxRevision - 1 :
            AdvanceCheckpoint(s, value, expected)
      \/ \E k \in 1 .. MaxBatch : RebuildProcessGraph(k)
      \/ \E c \in Commands :
           \/ ReceiveCommand(c) \/ BeginCommand(c) \/ MarkCommandOutboxed(c)
           \/ \E n \in ResultSizes : FinishCommand(c, n)
  BY DEF Next, vars, BeginImport, ImportLine, RepeatCheckpointed, BeginAcknowledge,
         AcknowledgeRow, Rollback, Crash
<1> QED BY <1>1, <1>2, <1>3, <1>4, <1>5, <1>6, <1>7, <1>8, <1>9, <1>10

(* While a receipt is open only its commit changes the committed image, and *)
(* then every row of its batch has been passed.                             *)
LEMMA StepAtomic ==
  ASSUME JournalInv, [Next]_vars, tx.op = "ack", db' # db
  PROVE  \A i \in DOMAIN tx.batch : tx.batch[i] \notin Pending(db')
<1>1. CommitAcknowledge
  BY DEF Next, vars, SkipFrame, BeginImport, ImportLine, CommitImport, AppendRecord,
         RepeatCheckpointed, AppendCheckpointed, AdvanceCheckpoint, RebuildProcessGraph,
         ReceiveCommand, BeginCommand, FinishCommand, MarkCommandOutboxed,
         BeginAcknowledge, AcknowledgeRow, Rollback, Crash, Idle
<1>2. db' = view /\ tx.next > Len(tx.batch) /\ tx.next \in Nat
      /\ DOMAIN tx.batch = 1 .. Len(tx.batch) /\ Len(tx.batch) \in Nat
  BY <1>1 DEF CommitAcknowledge, Commit, JournalInv, TypeOK
<1>3. \A i \in DOMAIN tx.batch : i < tx.next
  BY <1>2
<1> QED BY <1>2, <1>3 DEF JournalInv, TransactionInv

(* Dead letters and the process archive are never pruned or rewritten. *)
THEOREM EvidenceTheorem == Spec => EvidenceIsFinal
<1>1. JournalInv /\ [Next]_vars =>
        [ /\ \A r \in Dead(db) : db'.obs[r] = db.obs[r]
          /\ \A r \in Archived(db) : db'.history[r] = db.history[r] ]_vars
  BY StepKeeps DEF Keeps
<1> QED BY <1>1, JournalInvariant, PTL DEF Spec, EvidenceIsFinal

(* A receipt is applied to the whole batch or not at all. *)
THEOREM ReceiptTheorem == Spec => ReceiptAtomic
<1>1. JournalInv /\ [Next]_vars =>
        [ tx.op = "ack" /\ db' # db =>
            \A i \in DOMAIN tx.batch : tx.batch[i] \notin Pending(db') ]_vars
  BY StepAtomic
<1> QED BY <1>1, JournalInvariant, PTL DEF Spec, ReceiptAtomic

(* A checkpoint changes only by one revision at a time. *)
THEOREM CheckpointTheorem == Spec => CheckpointByOne
<1>1. JournalInv /\ [Next]_vars =>
        [ \A s \in Sources :
            db'.cps[s] # db.cps[s] => db'.cps[s].rev = db.cps[s].rev + 1 ]_vars
  BY StepKeeps
<1> QED BY <1>1, JournalInvariant, PTL DEF Spec, CheckpointByOne
=============================================================================

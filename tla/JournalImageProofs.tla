------------------------- MODULE JournalImageProofs -------------------------
(***************************************************************************)
(* Lemmas about database images: every statement of the journal's          *)
(* transactions, with the triggers it fires, keeps an image Good and       *)
(* changes the accounted bytes by exactly what its quota check admitted.   *)
(***************************************************************************)
EXTENDS Journal, ByteSumsProofs

(* The tables are finite, and so is what they count. *)
LEMMA TablesFinite ==
  ASSUME NEW d
  PROVE  /\ IsFiniteSet(Pending(d)) /\ IsFiniteSet(Dead(d)) /\ IsFiniteSet(Rows(d))
         /\ IsFiniteSet(Archived(d)) /\ IsFiniteSet(Checkpointed(d))
         /\ Cardinality(Pending(d)) \in Nat /\ Cardinality(Dead(d)) \in Nat
         /\ Cardinality(Archived(d)) \in Nat
<1>1. \A S \in SUBSET Records : IsFiniteSet(S)
  BY FS_Subset, FiniteAssumption
<1>2. \A S \in SUBSET Sources : IsFiniteSet(S)
  BY FS_Subset, FiniteAssumption
<1>3. /\ Pending(d) \in SUBSET Records /\ Dead(d) \in SUBSET Records
      /\ Rows(d) \in SUBSET Records /\ Archived(d) \in SUBSET Records
  BY DEF Pending, Dead, Rows, In, Archived
<1>4. Checkpointed(d) \in SUBSET Sources
  BY DEF Checkpointed
<1> QED BY <1>1, <1>2, <1>3, <1>4, FS_CardinalityType

(* Sizes are natural numbers, so the sums are. *)
LEMMA SumsNat ==
  ASSUME NEW d, Good(d)
  PROVE  /\ \A r \in Records : RowBytes(d)[r] \in Nat
         /\ \A s \in Sources : CheckpointBytes(d)[s] \in Nat
         /\ Sum(Rows(d), RowBytes(d)) \in Nat
         /\ Sum(Archived(d), Size) \in Nat
         /\ \A c \in Commands : CommandBytes(d)[c] \in Nat
         /\ Held(d) \in Nat /\ Retained(d) \in Nat
<1>1. \A r \in Records : RowBytes(d)[r] \in Nat
  BY LinesAssumption DEF RowBytes, Image, Row, Good, Sound
<1>2. \A s \in Sources : CheckpointBytes(d)[s] \in Nat
  BY CursorsAssumption DEF CheckpointBytes, Good, Sound, Checkpointed
<1>3. Sum(Rows(d), RowBytes(d)) \in Nat
  BY <1>1, TablesFinite, CellsFinite DEF Rows, Pending, Dead, In
<1>4. \A r \in Archived(d) : Size[r] \in Nat
  BY LinesAssumption DEF Archived
<1>5. Sum(Archived(d), Size) \in Nat
  BY <1>4, TablesFinite, CellsFinite
<1>6. Sum(Checkpointed(d), CheckpointBytes(d)) \in Nat
  BY <1>2, TablesFinite, CellsFinite DEF Checkpointed
<1>7. \A c \in Commands : CommandBytes(d)[c] \in Nat
  BY DEF CommandBytes, Image, Command, Good, Sound
<1>8. Sum(Commands, CommandBytes(d)) \in Nat
  BY <1>7, CellsFinite, FiniteAssumption
<1>9. Held(d) \in Nat
  BY <1>6, <1>8 DEF Held
<1>10. Retained(d) \in Nat
  BY <1>3, <1>5, <1>9 DEF Retained, Good, Sound, Accounted
<1> QED BY <1>1, <1>2, <1>3, <1>5, <1>7, <1>9, <1>10

(* Impl::retained depends only on the counters and two of the tables. *)
LEMMA RetainedBy ==
  ASSUME NEW d, NEW e, e.cps = d.cps, e.cmds = d.cmds
  PROVE  Retained(e) = e.retained + Held(d) + e.historyBytes
  BY DEF Retained, Held, Checkpointed, CheckpointBytes, CommandBytes

(* A charge added to one term of the retained bytes is added to their sum,  *)
(* and a charge replaced in one term is replaced in it.                     *)
LEMMA ChargeAdded ==
  ASSUME NEW x \in Int, NEW h \in Int, NEW y \in Int, NEW n \in Int, NEW limit \in Int,
         (x + h + y) + n <= limit
  PROVE  (x + n) + h + y <= limit
OBVIOUS

LEMMA ChargeReplaced ==
  ASSUME NEW x \in Int, NEW h \in Int, NEW y \in Int, NEW rest \in Int,
         NEW old \in Int, NEW new \in Int, NEW before, NEW after,
         before = x + (h + (rest + old)) + y, after = x + (h + (rest + new)) + y
  PROVE  after = before - old + new
OBVIOUS

(* Time for each leaf: the images have many fields. *)
USE SMTT(20), ZenonT(20)

-----------------------------------------------------------------------------
(* Indexing rows of the archive that the graph lacks makes an image good    *)
(* when it leaves only rows older than the index waiting.                   *)
LEMMA IndexGood ==
  ASSUME NEW d, Sound(d), NEW S \in SUBSET (Archived(d) \ d.graph),
         Archived(d) \ (d.graph \cup S) \subseteq Migrated
  PROVE  LET e == IndexProcess(d, S)
         IN  /\ Good(e) /\ Keeps(d, e) /\ Retained(e) = Retained(d)
             /\ e.obs = d.obs /\ e.history = d.history /\ e.cps = d.cps
             /\ e.imports = d.imports
<1> DEFINE e == IndexProcess(d, S)
           U(T) == { r \in T : Quality[r] # 0 }
<1>0. S \ d.graph = S
  OBVIOUS
<1>1. /\ e.obs = d.obs /\ e.history = d.history /\ e.cps = d.cps
      /\ e.imports = d.imports
      /\ e.graph = d.graph \cup S /\ e.cmds = d.cmds
      /\ e.retained = d.retained /\ e.pending = d.pending /\ e.dead = d.dead
      /\ e.historyBytes = d.historyBytes /\ e.historyCount = d.historyCount
      /\ e.graphCount = d.graphCount + Cardinality(S)
      /\ e.unresolved = d.unresolved + Cardinality(U(S))
  BY <1>0 DEF IndexProcess, Sound, Image
<1>2. /\ Pending(e) = Pending(d) /\ Dead(e) = Dead(d) /\ Rows(e) = Rows(d)
      /\ RowBytes(e) = RowBytes(d) /\ Archived(e) = Archived(d)
      /\ Checkpointed(e) = Checkpointed(d)
  BY <1>1 DEF Pending, Dead, Rows, In, RowBytes, Archived, Checkpointed
<1>3. Archived(d) \in SUBSET Records
  BY DEF Archived
<1>4. \A T \in SUBSET Records : IsFiniteSet(T) /\ Cardinality(T) \in Nat
  BY FS_Subset, FS_CardinalityType, FiniteAssumption
<1>5. /\ d.graph \in SUBSET Records /\ S \in SUBSET Records
      /\ U(d.graph) \in SUBSET Records /\ U(S) \in SUBSET Records
  BY <1>3 DEF Sound, Image
<1>6. Cardinality(d.graph \cup S) = Cardinality(d.graph) + Cardinality(S)
  <2>1. d.graph \cap S = {}
    OBVIOUS
  <2> QED BY <1>4, <1>5, <2>1, CardinalityDisjoint
<1>7. Cardinality(U(d.graph \cup S)) = Cardinality(U(d.graph)) + Cardinality(U(S))
  <2>1. U(d.graph) \cap U(S) = {}
    OBVIOUS
  <2>2. U(d.graph \cup S) = U(d.graph) \cup U(S)
    OBVIOUS
  <2>3. IsFiniteSet(U(d.graph)) /\ IsFiniteSet(U(S))
    BY <1>4, <1>5
  <2> HIDE DEF U
  <2> QED BY <2>1, <2>2, <2>3, CardinalityDisjoint
<1>8. e \in Image
  <2>1. Cardinality(S) \in Nat /\ Cardinality(U(S)) \in Nat
    BY <1>4, <1>5
  <2>2. d \in Image
    BY DEF Sound
  <2>3. /\ d.graph \cup S \in SUBSET Records
        /\ d.graphCount + Cardinality(S) \in Int
        /\ d.unresolved + Cardinality(U(S)) \in Int
    <3> HIDE DEF U
    <3> QED BY <1>5, <2>1, <2>2 DEF Image
  <2>4. e = [d EXCEPT !.graph = d.graph \cup S,
                      !.graphCount = d.graphCount + Cardinality(S),
                      !.unresolved = d.unresolved + Cardinality(U(S))]
    BY <1>0, <2>2 DEF IndexProcess, Image
  <2> HIDE DEF U, e
  <2> QED BY <2>2, <2>3, <2>4 DEF Image
<1>9. Accounted(e)
  BY <1>1, <1>2, <1>6, <1>7 DEF Accounted, Sound
<1>10. Retained(e) = Retained(d)
  BY <1>1, RetainedBy DEF Retained
<1> HIDE DEF e
<1>11. Good(e) /\ Keeps(d, e)
  <2>1. Sound(e) /\ Keeps(d, e)
    BY <1>1, <1>2, <1>8, <1>9 DEF Sound, Keeps
  <2>2. Archived(e) \ e.graph \subseteq Migrated
    BY <1>1, <1>2
  <2> QED BY <2>1, <2>2 DEF Good
<1> QED BY <1>1, <1>10, <1>11 DEF e

(* Archiving a lifecycle line adds one numbered row and its bytes. *)
LEMMA ArchiveGood ==
  ASSUME NEW d, Good(d), NEW r \in Records
  PROVE  LET e == Archive(d, r)
         IN  /\ Good(e) /\ Keeps(d, e)
             /\ Retained(e) = Retained(d) + (IF Unarchived(d, r) THEN Size[r] ELSE 0)
             /\ e.obs = d.obs /\ e.cps = d.cps /\ e.imports = d.imports
             /\ r \in Lifecycle => r \in Archived(e)
<1>1. CASE ~Unarchived(d, r)
  <2>1. Archive(d, r) = d
    BY <1>1 DEF Archive
  <2>2. r \in Lifecycle => r \in Archived(d)
    BY <1>1 DEF Unarchived, Archived
  <2>3. Retained(d) \in Nat
    BY SumsNat
  <2> QED BY <1>1, <2>1, <2>2, <2>3 DEF Keeps
<1>2. CASE Unarchived(d, r)
  <2> DEFINE m == [d EXCEPT !.history[r] = d.historyCount + 1,
                            !.historyBytes = @ + Size[r],
                            !.historyCount = @ + 1]
  <2>0. d \in Image /\ d.historyCount \in Nat /\ d.historyCount = Cardinality(Archived(d))
    BY TablesFinite DEF Good, Sound, Accounted
  <2>1. /\ m.obs = d.obs /\ m.cps = d.cps /\ m.imports = d.imports /\ m.graph = d.graph /\ m.cmds = d.cmds
        /\ m.history = [d.history EXCEPT ![r] = d.historyCount + 1]
        /\ m.retained = d.retained /\ m.pending = d.pending /\ m.dead = d.dead
        /\ m.historyBytes = d.historyBytes + Size[r]
        /\ m.historyCount = d.historyCount + 1
        /\ m.graphCount = d.graphCount /\ m.unresolved = d.unresolved
    BY <2>0 DEF Image
  <2> HIDE DEF m
  <2>2. d.history \in [Records -> Nat] /\ d.history[r] = 0
    BY <1>2, <2>0 DEF Unarchived, Image
  <2>3. Archived(m) = Archived(d) \cup {r} /\ r \notin Archived(d)
    <3>1. \A q \in Records :
            m.history[q] = IF q = r THEN d.historyCount + 1 ELSE d.history[q]
      BY <2>1, <2>2
    <3>2. d.historyCount + 1 # 0
      BY <2>0
    <3> QED BY <2>2, <3>1, <3>2 DEF Archived
  <2>4. /\ Pending(m) = Pending(d) /\ Dead(m) = Dead(d) /\ Rows(m) = Rows(d)
        /\ RowBytes(m) = RowBytes(d) /\ Checkpointed(m) = Checkpointed(d)
    BY <2>1 DEF Pending, Dead, Rows, In, RowBytes, Checkpointed
  <2>5. Cardinality(Archived(d) \cup {r}) = Cardinality(Archived(d)) + 1
    BY <2>3, TablesFinite, FS_AddElement
  <2>6. Sum(Archived(d) \cup {r}, Size) = Sum(Archived(d), Size) + Size[r]
    <3>1. \A q \in Archived(d) : Size[q] \in Nat
      BY LinesAssumption DEF Archived
    <3>2. Size[r] \in Nat
      BY LinesAssumption
    <3> QED BY <2>3, <3>1, <3>2, TablesFinite, SumAdd
  <2>7. m \in Image
    <3>1. [d.history EXCEPT ![r] = d.historyCount + 1] \in [Records -> Nat]
      BY <2>0, <2>2
    <3>2. d.historyBytes + Size[r] \in Int
      BY <2>0, LinesAssumption DEF Image
    <3>3. d.historyCount + 1 \in Int
      BY <2>0
    <3>4. m = [d EXCEPT !.history = [d.history EXCEPT ![r] = d.historyCount + 1],
                        !.historyBytes = d.historyBytes + Size[r],
                        !.historyCount = d.historyCount + 1]
      BY <2>0 DEF Image, m
    <3> QED BY <2>0, <3>1, <3>2, <3>3, <3>4 DEF Image
  <2>8. Accounted(m)
    BY <2>1, <2>3, <2>4, <2>5, <2>6 DEF Accounted, Good, Sound
  <2>9. /\ \A q \in Records : m.history[q] <= m.historyCount
        /\ \A p, q \in Archived(m) : m.history[p] = m.history[q] => p = q
    <3>1. \A q \in Records : d.history[q] <= d.historyCount
      BY DEF Good, Sound
    <3>2. \A p, q \in Archived(d) : d.history[p] = d.history[q] => p = q
      BY DEF Good, Sound
    <3>3. \A q \in Records :
            m.history[q] = IF q = r THEN d.historyCount + 1 ELSE d.history[q]
      BY <2>1, <2>2
    <3>4. \A q \in Records : m.history[q] <= m.historyCount
      BY <2>0, <2>1, <2>2, <3>1, <3>3
    <3>5. \A p, q \in Archived(m) : m.history[p] = m.history[q] => p = q
      <4>1. \A q \in Archived(d) : q \in Records /\ q # r
        BY <2>3 DEF Archived
      <4>2. \A q \in Archived(d) : m.history[q] = d.history[q] /\ m.history[q] # m.history[r]
        BY <2>0, <2>2, <3>1, <3>3, <4>1
      <4> QED BY <2>3, <3>2, <4>2
    <3> QED BY <3>4, <3>5
  <2>10. Sound(m)
    BY <2>1, <2>3, <2>4, <2>7, <2>8, <2>9 DEF Good, Sound
  <2>11. Keeps(d, m)
    BY <2>1, <2>2, <2>3 DEF Keeps, Dead, In, Archived
  <2>12. Retained(m) = Retained(d) + Size[r]
    <3>1. Retained(m) = m.retained + Held(d) + m.historyBytes
      BY <2>1, RetainedBy
    <3>2. d.retained \in Int /\ d.historyBytes \in Int /\ Size[r] \in Int
      BY <2>0, LinesAssumption DEF Image
    <3>3. Held(d) \in Nat
      BY SumsNat
    <3> QED BY <2>1, <3>1, <3>2, <3>3 DEF Retained
  <2> DEFINE e == IndexProcess(m, {r})
  <2>13. Archive(d, r) = e
    BY <1>2 DEF Archive, m
  <2>14. /\ {r} \in SUBSET (Archived(m) \ m.graph)
         /\ Archived(m) \ (m.graph \cup {r}) \subseteq Migrated
    BY <2>1, <2>3 DEF Good, Sound
  <2>15. /\ Good(e) /\ Keeps(m, e) /\ Retained(e) = Retained(m)
         /\ e.obs = m.obs /\ e.history = m.history /\ e.cps = m.cps
         /\ e.imports = m.imports
    BY <2>10, <2>14, IndexGood
  <2> HIDE DEF e
  <2>16. Keeps(d, e)
    BY <2>11, <2>15 DEF Keeps
  <2>17. r \in Archived(e)
    BY <2>3, <2>15 DEF Archived
  <2> QED BY <1>2, <2>1, <2>12, <2>13, <2>15, <2>16, <2>17
<1> QED BY <1>1, <1>2

(* Queueing a missing line adds one pending row and its bytes. *)
LEMMA EnqueueGood ==
  ASSUME NEW d, Good(d), NEW r \in Records, NEW n \in 1 .. MaxSeq, IsNextSeq(d, n)
  PROVE  LET e == Enqueue(d, r, n)
         IN  /\ Good(e) /\ Keeps(d, e)
             /\ Retained(e) = Retained(d) + (IF Missing(d, r) THEN Size[r] ELSE 0)
             /\ e.history = d.history /\ e.cps = d.cps /\ e.imports = d.imports
             /\ Rows(e) = Rows(d) \cup {r}
<1>0. d \in Image /\ d.obs \in [Records -> Row]
  BY DEF Good, Sound, Image
<1>1. CASE ~Missing(d, r)
  <2>1. Enqueue(d, r, n) = d
    BY <1>1 DEF Enqueue
  <2>2. r \in Rows(d)
    BY <1>0, <1>1 DEF Missing, Rows, Pending, Dead, In, Row
  <2>3. Retained(d) \in Nat
    BY SumsNat
  <2> QED BY <1>1, <2>1, <2>2, <2>3 DEF Keeps
<1>2. CASE Missing(d, r)
  <2> DEFINE new == [state |-> "pending", seq |-> n, reason |-> 0]
             e == [d EXCEPT !.obs[r] = new, !.retained = @ + Size[r], !.pending = @ + 1]
  <2>1. /\ e.obs = [d.obs EXCEPT ![r] = new]
        /\ e.history = d.history /\ e.cps = d.cps /\ e.imports = d.imports
        /\ e.graph = d.graph /\ e.cmds = d.cmds
        /\ e.retained = d.retained + Size[r] /\ e.pending = d.pending + 1
        /\ e.dead = d.dead /\ e.historyBytes = d.historyBytes
        /\ e.historyCount = d.historyCount
        /\ e.graphCount = d.graphCount /\ e.unresolved = d.unresolved
    BY <1>0 DEF Image
  <2>2. Enqueue(d, r, n) = e
    BY <1>2 DEF Enqueue
  <2>3. new \in Row
    BY DEF Row
  <2>4. e \in Image
    <3>1. [d.obs EXCEPT ![r] = new] \in [Records -> Row]
      BY <1>0, <2>3
    <3>2. d.retained + Size[r] \in Int /\ d.pending + 1 \in Int
      BY <1>0, LinesAssumption DEF Image
    <3>3. e = [d EXCEPT !.obs = [d.obs EXCEPT ![r] = new],
                        !.retained = d.retained + Size[r],
                        !.pending = d.pending + 1]
      BY <1>0 DEF Image
    <3> HIDE DEF e, new
    <3> QED BY <1>0, <3>1, <3>2, <3>3 DEF Image
  <2> HIDE DEF e
  <2>5. /\ \A q \in Records : q # r => e.obs[q] = d.obs[q]
        /\ e.obs[r] = new
    BY <1>0, <2>1
  <2>6. /\ r \notin Pending(d) /\ r \notin Dead(d) /\ r \notin Rows(d)
        /\ Pending(e) = Pending(d) \cup {r}
        /\ Dead(e) = Dead(d) /\ Rows(e) = Rows(d) \cup {r}
    <3>1. d.obs[r].state = "absent" /\ e.obs[r].state = "pending"
      BY <1>2, <2>5 DEF Missing
    <3>2. \A q \in Records : q # r => e.obs[q].state = d.obs[q].state
      BY <2>5
    <3>3. /\ r \notin Pending(d) /\ r \notin Dead(d)
          /\ Pending(e) = Pending(d) \cup {r} /\ Dead(e) = Dead(d)
      BY <3>1, <3>2 DEF Pending, Dead, In
    <3> QED BY <3>3 DEF Rows
  <2>7. Archived(e) = Archived(d) /\ Checkpointed(e) = Checkpointed(d)
    BY <2>1 DEF Archived, Checkpointed
  <2>8. Cardinality(Pending(e)) = Cardinality(Pending(d)) + 1
    BY <2>6, TablesFinite, FS_AddElement
  <2>9. Sum(Rows(e), RowBytes(e)) = Sum(Rows(d), RowBytes(d)) + Size[r]
    <3>1. \A q \in Rows(d) : q \in Records /\ q # r
      BY <2>6 DEF Rows, Pending, Dead, In
    <3>2. \A q \in Rows(d) : RowBytes(e)[q] = RowBytes(d)[q]
      BY <2>5, <3>1 DEF RowBytes
    <3>3. \A q \in Rows(d) : RowBytes(d)[q] \in Nat
      BY <3>1, SumsNat
    <3>4. RowBytes(e)[r] = Size[r] /\ Size[r] \in Nat
      BY <2>5, LinesAssumption DEF RowBytes
    <3>5. Sum(Rows(d), RowBytes(e)) = Sum(Rows(d), RowBytes(d))
      BY <3>2, SumAgree
    <3>6. Sum(Rows(d) \cup {r}, RowBytes(e)) = Sum(Rows(d), RowBytes(e)) + RowBytes(e)[r]
      <4>1. IsFiniteSet(Rows(d)) /\ r \notin Rows(d)
        BY <2>6, TablesFinite
      <4>2. (\A q \in Rows(d) : RowBytes(e)[q] \in Nat) /\ RowBytes(e)[r] \in Nat
        BY <3>2, <3>3, <3>4
      <4> QED BY <4>1, <4>2, SumAdd
    <3> QED BY <2>6, <3>4, <3>5, <3>6
  <2>10. Accounted(e)
    BY <2>1, <2>6, <2>7, <2>8, <2>9 DEF Accounted, Good, Sound
  <2>11. \A p, q \in Rows(e) : e.obs[p].seq = e.obs[q].seq => p = q
    <3>1. \A q \in Rows(d) : e.obs[q] = d.obs[q] /\ d.obs[q].seq < n
      BY <2>5, <2>6 DEF IsNextSeq, Rows, Pending, Dead, In
    <3>2. \A q \in Rows(d) : d.obs[q].seq \in Nat
      BY <1>0 DEF Rows, Pending, Dead, In, Row
    <3>3. e.obs[r].seq = n
      BY <2>5
    <3>4. \A q \in Rows(d) : e.obs[q].seq # e.obs[r].seq
      BY <3>1, <3>2, <3>3
    <3> QED BY <2>6, <3>1, <3>4 DEF Good, Sound
  <2>12. Good(e)
    BY <2>1, <2>4, <2>7, <2>10, <2>11 DEF Good, Sound
  <2>13. Keeps(d, e)
    BY <2>1, <2>5, <2>6 DEF Keeps, Dead, In
  <2>14. Retained(e) = Retained(d) + Size[r]
    <3>1. Retained(e) = e.retained + Held(d) + e.historyBytes
      BY <2>1, RetainedBy
    <3>2. d.retained \in Int /\ d.historyBytes \in Int /\ Size[r] \in Int
      BY <1>0, LinesAssumption DEF Image
    <3>3. Held(d) \in Nat
      BY SumsNat
    <3>4. Retained(e) = (d.retained + Size[r]) + Held(d) + d.historyBytes
      BY <2>1, <3>1
    <3>5. Retained(d) = d.retained + Held(d) + d.historyBytes
      BY DEF Retained
    <3> QED BY <3>2, <3>3, <3>4, <3>5
  <2> QED BY <1>2, <2>1, <2>2, <2>6, <2>12, <2>13, <2>14
<1> QED BY <1>1, <1>2

(* insert as a whole: the quota it checks is exactly what it consumes. *)
LEMMA InsertGood ==
  ASSUME NEW d, Good(d), NEW r \in Records, NEW n \in 1 .. MaxSeq, IsNextSeq(d, n),
         InsertFits(d, r), Retained(d) <= Limit
  PROVE  LET e == Insert(d, r, n)
         IN  /\ Good(e) /\ Keeps(d, e) /\ Retained(e) <= Limit
             /\ e.cps = d.cps /\ e.imports = d.imports
             /\ Rows(e) = Rows(d) \cup {r}
             /\ r \in Lifecycle => r \in Archived(e)
<1> DEFINE a == Archive(d, r)
           e == Enqueue(a, r, n)
<1>1. /\ Good(a) /\ Keeps(d, a)
      /\ Retained(a) = Retained(d) + (IF Unarchived(d, r) THEN Size[r] ELSE 0)
      /\ a.obs = d.obs /\ a.cps = d.cps /\ a.imports = d.imports
      /\ r \in Lifecycle => r \in Archived(a)
  BY ArchiveGood
<1> HIDE DEF a
<1>2. IsNextSeq(a, n) /\ Missing(a, r) = Missing(d, r) /\ Rows(a) = Rows(d)
  BY <1>1 DEF IsNextSeq, Missing, Rows, Pending, Dead, In
<1>3. /\ Good(e) /\ Keeps(a, e)
      /\ Retained(e) = Retained(a) + (IF Missing(a, r) THEN Size[r] ELSE 0)
      /\ e.history = a.history /\ e.cps = a.cps /\ e.imports = a.imports
      /\ Rows(e) = Rows(a) \cup {r}
  BY <1>1, <1>2, EnqueueGood
<1>4. Insert(d, r, n) = e
  BY DEF Insert, a
<1> HIDE DEF e
<1>5. Keeps(d, e)
  BY <1>1, <1>3 DEF Keeps, Dead, In
<1>6. r \in Lifecycle => r \in Archived(e)
  BY <1>1, <1>3 DEF Archived
<1>7. Retained(e) <= Limit
  <2>1. Retained(d) \in Nat /\ Size[r] \in Nat
    BY SumsNat, LinesAssumption
  <2>2. Retained(e) = Retained(d) + (IF Unarchived(d, r) THEN Size[r] ELSE 0)
                                  + (IF Missing(d, r) THEN Size[r] ELSE 0)
    BY <1>1, <1>2, <1>3
  <2> QED BY <2>1, <2>2 DEF InsertFits, Copies
<1> QED BY <1>1, <1>2, <1>3, <1>4, <1>5, <1>6, <1>7

-----------------------------------------------------------------------------
(* Deleting an acknowledged row gives its bytes back. *)
LEMMA RetireGood ==
  ASSUME NEW d, Good(d), NEW r \in Records
  PROVE  LET e == Retire(d, r)
         IN  /\ Good(e) /\ Keeps(d, e) /\ Retained(e) <= Retained(d)
             /\ e.history = d.history /\ e.cps = d.cps /\ e.imports = d.imports
             /\ Rows(d) \subseteq Rows(e) \cup {r} /\ Pending(e) = Pending(d) \ {r}
<1>0. d \in Image /\ d.obs \in [Records -> Row]
  BY DEF Good, Sound, Image
<1>1. CASE r \notin Pending(d)
  <2>1. Retire(d, r) = d
    BY <1>1 DEF Retire
  <2>2. Retained(d) \in Nat
    BY SumsNat
  <2> QED BY <1>1, <2>1, <2>2 DEF Keeps
<1>2. CASE r \in Pending(d)
  <2> DEFINE n == RowBytes(d)[r]
             e == [d EXCEPT !.obs[r] = Absent, !.retained = @ - n, !.pending = @ - 1]
  <2>0. n \in Nat
    BY SumsNat
  <2> HIDE DEF n
  <2>1. /\ e.obs = [d.obs EXCEPT ![r] = Absent]
        /\ e.history = d.history /\ e.cps = d.cps /\ e.imports = d.imports
        /\ e.graph = d.graph /\ e.cmds = d.cmds
        /\ e.retained = d.retained - n /\ e.pending = d.pending - 1
        /\ e.dead = d.dead /\ e.historyBytes = d.historyBytes
        /\ e.historyCount = d.historyCount
        /\ e.graphCount = d.graphCount /\ e.unresolved = d.unresolved
    BY <1>0 DEF Image
  <2>2. Retire(d, r) = e
    BY <1>2 DEF Retire, n
  <2>3. e \in Image
    <3>1. [d.obs EXCEPT ![r] = Absent] \in [Records -> Row]
      BY <1>0, LimitsAssumption DEF Absent, Row
    <3>2. d.retained - n \in Int /\ d.pending - 1 \in Int
      BY <1>0, <2>0 DEF Image
    <3>3. e = [d EXCEPT !.obs = [d.obs EXCEPT ![r] = Absent],
                        !.retained = d.retained - n,
                        !.pending = d.pending - 1]
      BY <1>0 DEF Image
    <3> HIDE DEF e
    <3> QED BY <1>0, <3>1, <3>2, <3>3 DEF Image
  <2> HIDE DEF e
  <2>4. /\ \A q \in Records : q # r => e.obs[q] = d.obs[q]
        /\ e.obs[r] = Absent
    BY <1>0, <2>1
  <2>5. /\ r \notin Dead(d) /\ r \in Rows(d)
        /\ Pending(e) = Pending(d) \ {r}
        /\ Dead(e) = Dead(d) /\ Rows(e) = Rows(d) \ {r}
    <3>1. \A q \in Records : q # r => e.obs[q].state = d.obs[q].state
      BY <2>4
    <3>2. e.obs[r].state = "absent" /\ d.obs[r].state = "pending"
      BY <1>2, <2>4 DEF Absent, Pending, In
    <3>3. Pending(e) = Pending(d) \ {r} /\ Dead(e) = Dead(d) /\ r \notin Dead(d)
      BY <3>1, <3>2 DEF Pending, Dead, In
    <3> QED BY <1>2, <3>3 DEF Rows
  <2>6. Archived(e) = Archived(d) /\ Checkpointed(e) = Checkpointed(d)
    BY <2>1 DEF Archived, Checkpointed
  <2>7. Cardinality(Pending(e)) = Cardinality(Pending(d)) - 1
    <3>1. IsFiniteSet(Pending(d))
      BY TablesFinite
    <3>2. Cardinality(Pending(d) \ {r}) = Cardinality(Pending(d)) - 1
      BY <1>2, <3>1, FS_RemoveElement
    <3> QED BY <2>5, <3>2
  <2>8. Sum(Rows(e), RowBytes(e)) = Sum(Rows(d), RowBytes(d)) - n
    <3>1. \A q \in Rows(d) : q \in Records
      BY DEF Rows, Pending, Dead, In
    <3>2. \A q \in Rows(d) \ {r} : RowBytes(e)[q] = RowBytes(d)[q]
      BY <2>4, <3>1 DEF RowBytes
    <3>3. \A q \in Rows(d) : RowBytes(d)[q] \in Nat
      BY <3>1, SumsNat
    <3>4. Sum(Rows(d) \ {r}, RowBytes(e)) = Sum(Rows(d) \ {r}, RowBytes(d))
      BY <3>2, SumAgree
    <3>5. Sum(Rows(d) \ {r}, RowBytes(d)) = Sum(Rows(d), RowBytes(d)) - RowBytes(d)[r]
      BY <2>5, <3>3, TablesFinite, SumRemove
    <3> QED BY <2>5, <3>4, <3>5 DEF n
  <2>9. Accounted(e)
    BY <2>1, <2>5, <2>6, <2>7, <2>8 DEF Accounted, Good, Sound
  <2>10. \A p, q \in Rows(e) : e.obs[p].seq = e.obs[q].seq => p = q
    <3>1. \A q \in Rows(e) : q \in Rows(d) /\ e.obs[q] = d.obs[q]
      BY <2>4, <2>5 DEF Rows, Pending, Dead, In
    <3> QED BY <3>1 DEF Good, Sound
  <2>11. Good(e)
    BY <2>1, <2>3, <2>6, <2>9, <2>10 DEF Good, Sound
  <2>12. Keeps(d, e)
    BY <2>1, <2>4, <2>5 DEF Keeps, Dead, In
  <2>13. Retained(e) <= Retained(d)
    <3>1. Retained(e) = e.retained + Held(d) + e.historyBytes
      BY <2>1, RetainedBy
    <3>2. d.retained \in Int /\ d.historyBytes \in Int
      BY <1>0 DEF Image
    <3>3. Held(d) \in Nat
      BY SumsNat
    <3> QED BY <2>0, <2>1, <3>1, <3>2, <3>3 DEF Retained
  <2> QED BY <2>1, <2>2, <2>5, <2>11, <2>12, <2>13
<1> QED BY <1>1, <1>2

(* Rejecting a pending row keeps the row and adds the bytes of its reason. *)
LEMMA MarkDeadGood ==
  ASSUME NEW d, Good(d), NEW r \in Records, NEW n \in Nat,
         RejectFits(d, r, n), Retained(d) <= Limit
  PROVE  LET e == MarkDead(d, r, n)
         IN  /\ Good(e) /\ Keeps(d, e) /\ Retained(e) <= Limit
             /\ e.history = d.history /\ e.cps = d.cps /\ e.imports = d.imports
             /\ Rows(e) = Rows(d) /\ Pending(e) = Pending(d) \ {r}
<1>0. d \in Image /\ d.obs \in [Records -> Row]
  BY DEF Good, Sound, Image
<1>1. CASE r \notin Pending(d)
  <2>1. MarkDead(d, r, n) = d
    BY <1>1 DEF MarkDead
  <2> QED BY <1>1, <2>1 DEF Keeps
<1>2. CASE r \in Pending(d)
  <2> DEFINE old == d.obs[r]
             new == [state |-> "dead", seq |-> old.seq, reason |-> old.reason + n]
             e == [d EXCEPT !.obs = [d.obs EXCEPT ![r] = new],
                            !.retained = d.retained + n,
                            !.pending = d.pending - 1, !.dead = d.dead + 1]
  <2>0. /\ old \in Row /\ new \in Row /\ new.state = "dead" /\ new.seq = old.seq
        /\ new.reason = old.reason + n
    BY <1>0 DEF Row
  <2>1. MarkDead(d, r, n) = e
    BY <1>0, <1>2, SMTT(60), ZenonT(60) DEF MarkDead
  <2> HIDE DEF new
  <2>2. /\ e.obs = [d.obs EXCEPT ![r] = new]
        /\ e.history = d.history /\ e.cps = d.cps /\ e.imports = d.imports
        /\ e.graph = d.graph /\ e.cmds = d.cmds
        /\ e.retained = d.retained + n /\ e.pending = d.pending - 1
        /\ e.dead = d.dead + 1 /\ e.historyBytes = d.historyBytes
        /\ e.historyCount = d.historyCount
        /\ e.graphCount = d.graphCount /\ e.unresolved = d.unresolved
    BY <1>0 DEF Image
  <2>3. e \in Image
    <3>1. [d.obs EXCEPT ![r] = new] \in [Records -> Row]
      BY <1>0, <2>0
    <3>2. d.retained + n \in Int /\ d.pending - 1 \in Int /\ d.dead + 1 \in Int
      BY <1>0 DEF Image
    <3> QED BY <1>0, <3>1, <3>2 DEF Image
  <2> HIDE DEF e
  <2>4. /\ \A q \in Records : q # r => e.obs[q] = d.obs[q]
        /\ e.obs[r] = new
    BY <1>0, <2>2
  <2>5. /\ r \notin Dead(d) /\ r \in Rows(d)
        /\ Pending(e) = Pending(d) \ {r}
        /\ Dead(e) = Dead(d) \cup {r} /\ Rows(e) = Rows(d)
    BY <1>2, <2>0, <2>4 DEF Pending, Dead, Rows, In
  <2>6. Archived(e) = Archived(d) /\ Checkpointed(e) = Checkpointed(d)
    BY <2>2 DEF Archived, Checkpointed
  <2>7. /\ Cardinality(Pending(e)) = Cardinality(Pending(d)) - 1
        /\ Cardinality(Dead(e)) = Cardinality(Dead(d)) + 1
    <3>1. IsFiniteSet(Pending(d)) /\ IsFiniteSet(Dead(d))
      BY TablesFinite
    <3>2. Cardinality(Pending(d) \ {r}) = Cardinality(Pending(d)) - 1
      BY <1>2, <3>1, FS_RemoveElement
    <3>3. Cardinality(Dead(e)) = Cardinality(Dead(d)) + 1
      BY <2>5, <3>1, FS_AddElement
    <3> QED BY <2>5, <3>2, <3>3
  <2>8. Sum(Rows(e), RowBytes(e)) = Sum(Rows(d), RowBytes(d)) + n
    <3> DEFINE S == Rows(d) \ {r}
    <3>1. /\ \A q \in Rows(d) : q \in Records
          /\ IsFiniteSet(S) /\ r \notin S /\ S \cup {r} = Rows(d)
      <4>1. \A q \in Rows(d) : q \in Records
        BY DEF Rows, Pending, Dead, In
      <4>2. IsFiniteSet(S)
        BY TablesFinite, FS_RemoveElement
      <4> QED BY <2>5, <4>1, <4>2
    <3>2. \A q \in S : RowBytes(e)[q] = RowBytes(d)[q]
      BY <2>4, <3>1 DEF RowBytes
    <3>3. \A q \in Rows(d) : RowBytes(d)[q] \in Nat
      BY <3>1, SumsNat
    <3>4. RowBytes(e)[r] = RowBytes(d)[r] + n /\ RowBytes(e)[r] \in Nat /\ RowBytes(d)[r] \in Nat
      <4>1. old.reason \in Nat /\ Size[r] \in Nat
        BY <2>0, LinesAssumption DEF Row
      <4>2. RowBytes(e)[r] = Size[r] + (old.reason + n)
        BY <2>0, <2>4 DEF RowBytes
      <4>3. RowBytes(d)[r] = Size[r] + old.reason
        BY DEF RowBytes
      <4> HIDE DEF old
      <4> QED BY <4>1, <4>2, <4>3
    <3> HIDE DEF S
    <3>5. Sum(S, RowBytes(e)) = Sum(S, RowBytes(d))
      BY <3>2, SumAgree
    <3>6. \A q \in S : RowBytes(e)[q] \in Nat /\ RowBytes(d)[q] \in Nat
      BY <3>1, <3>2, <3>3
    <3>7. Sum(S \cup {r}, RowBytes(e)) = Sum(S, RowBytes(e)) + RowBytes(e)[r]
      BY <3>1, <3>4, <3>6, SumAdd
    <3>8. Sum(S \cup {r}, RowBytes(d)) = Sum(S, RowBytes(d)) + RowBytes(d)[r]
      BY <3>1, <3>4, <3>6, SumAdd
    <3>9. Sum(S, RowBytes(d)) \in Nat
      BY <3>1, <3>6, CellsFinite
    <3>10. Sum(Rows(e), RowBytes(e)) = Sum(S \cup {r}, RowBytes(e))
      BY <2>5, <3>1
    <3>11. Sum(Rows(d), RowBytes(d)) = Sum(S \cup {r}, RowBytes(d))
      BY <3>1
    <3> QED BY <3>4, <3>5, <3>7, <3>8, <3>9, <3>10, <3>11
  <2>9. Accounted(e)
    BY <2>2, <2>5, <2>6, <2>7, <2>8 DEF Accounted, Good, Sound
  <2>10. \A p, q \in Rows(e) : e.obs[p].seq = e.obs[q].seq => p = q
    <3>1. \A q \in Rows(d) : e.obs[q].seq = d.obs[q].seq
      BY <2>0, <2>4 DEF Rows, Pending, Dead, In
    <3> QED BY <2>5, <3>1 DEF Good, Sound
  <2>11. Good(e)
    BY <2>2, <2>3, <2>6, <2>9, <2>10 DEF Good, Sound
  <2>12. Keeps(d, e)
    BY <2>2, <2>4, <2>5 DEF Keeps, Dead, In
  <2>13. Retained(e) <= Limit
    <3>1. Retained(e) = e.retained + Held(d) + e.historyBytes
      BY <2>2, RetainedBy
    <3>2. d.retained \in Int /\ d.historyBytes \in Int
      BY <1>0 DEF Image
    <3>3. Held(d) \in Nat
      BY SumsNat
    <3>4. (d.retained + Held(d) + d.historyBytes) + n <= Limit
      BY <1>2 DEF RejectFits, Retained
    <3>5. Retained(e) = (d.retained + n) + Held(d) + d.historyBytes
      BY <2>2, <3>1
    <3>6. n \in Nat /\ Limit \in Int
      BY LimitsAssumption
    <3> QED BY <3>2, <3>3, <3>4, <3>5, <3>6, ChargeAdded
  <2> QED BY <2>1, <2>2, <2>5, <2>11, <2>12, <2>13
<1> QED BY <1>1, <1>2

(* Replacing a cursor is charged its new size and credited its old one. *)
LEMMA SaveGood ==
  ASSUME NEW d, Good(d), NEW s \in Sources, NEW value \in Cursors,
         NEW digest \in Records \cup {CheckpointOnly},
         NEW expected \in 0 .. MaxRevision - 1, CheckpointFits(d, s, value),
         NEW e1, e1 = SaveCheckpoint(d, s, value, digest, expected)
  PROVE  /\ Good(e1) /\ Keeps(d, e1) /\ Retained(e1) <= Limit
         /\ e1.obs = d.obs /\ e1.history = d.history /\ e1.imports = d.imports
         /\ \A t \in Sources : t # s => e1.cps[t] = d.cps[t]
         /\ e1.cps[s].digest = digest /\ e1.cps[s].rev = expected + 1
<1>0. d \in Image /\ d.cps \in [Sources -> Checkpoint]
  BY DEF Good, Sound, Image
<1> DEFINE new == [rev |-> expected + 1, value |-> value, digest |-> digest]
           e == [d EXCEPT !.cps[s] = new]
           T == Checkpointed(d) \ {s}
<1>1. e1 = e
  BY DEF SaveCheckpoint
<1>2. /\ e.cps = [d.cps EXCEPT ![s] = new]
      /\ e.obs = d.obs /\ e.history = d.history /\ e.imports = d.imports
      /\ e.graph = d.graph /\ e.cmds = d.cmds
      /\ e.retained = d.retained /\ e.pending = d.pending
      /\ e.dead = d.dead /\ e.historyBytes = d.historyBytes
      /\ e.historyCount = d.historyCount
      /\ e.graphCount = d.graphCount /\ e.unresolved = d.unresolved
  BY <1>0 DEF Image
<1>3. new \in Checkpoint /\ new.rev = expected + 1 /\ new.value = value /\ new.digest = digest
  BY LimitsAssumption DEF Checkpoint
<1>4. e \in Image
  <2>1. [d.cps EXCEPT ![s] = new] \in [Sources -> Checkpoint]
    BY <1>0, <1>3
  <2>2. e = [d EXCEPT !.cps = [d.cps EXCEPT ![s] = new]]
    BY <1>0 DEF Image
  <2> HIDE DEF e, new
  <2> QED BY <1>0, <2>1, <2>2 DEF Image
<1> HIDE DEF e, new
<1>5. e.cps[s] = new /\ \A t \in Sources : t # s => e.cps[t] = d.cps[t]
  BY <1>0, <1>2
<1>6. Checkpointed(e) = T \cup {s} /\ s \notin T
  BY <1>3, <1>5 DEF Checkpointed
<1>7. /\ Pending(e) = Pending(d) /\ Dead(e) = Dead(d) /\ Rows(e) = Rows(d)
      /\ RowBytes(e) = RowBytes(d) /\ Archived(e) = Archived(d)
  BY <1>2 DEF Pending, Dead, Rows, In, RowBytes, Archived
<1>8. \A t \in Checkpointed(e) : e.cps[t].value \in Cursors
  BY <1>3, <1>5, <1>6 DEF Checkpointed, Good, Sound
<1>9. Accounted(e)
  BY <1>2, <1>7 DEF Accounted, Good, Sound
<1>10. Good(e)
  BY <1>2, <1>4, <1>7, <1>8, <1>9 DEF Good, Sound
<1>11. Keeps(d, e)
  BY <1>2 DEF Keeps
<1>12. Retained(e) = Retained(d) - CheckpointBytes(d)[s] + CursorSize[value]
  <2>1. IsFiniteSet(T)
    BY TablesFinite, FS_RemoveElement
  <2>2. /\ \A t \in T : t \in Sources /\ t # s
        /\ \A t \in Sources : CheckpointBytes(d)[t] \in Nat /\ CheckpointBytes(e)[t] \in Nat
    BY <1>10, SumsNat DEF Checkpointed
  <2>3. CheckpointBytes(e)[s] = CursorSize[value] /\ CursorSize[value] \in Nat
    BY <1>3, <1>5, CursorsAssumption DEF CheckpointBytes
  <2>4. \A t \in T : CheckpointBytes(e)[t] = CheckpointBytes(d)[t]
    BY <1>5, <2>2 DEF CheckpointBytes
  <2>5. s \notin Checkpointed(d) => CheckpointBytes(d)[s] = 0
    BY DEF Checkpointed, CheckpointBytes
  <2> HIDE DEF T
  <2>6. Sum(T, CheckpointBytes(e)) = Sum(T, CheckpointBytes(d))
    BY <2>4, SumAgree
  <2>7. Sum(T \cup {s}, CheckpointBytes(e)) = Sum(T, CheckpointBytes(e)) + CheckpointBytes(e)[s]
    BY <1>6, <2>1, <2>2, SumAdd
  <2>8. Sum(Checkpointed(d), CheckpointBytes(d))
          = Sum(T, CheckpointBytes(d)) + CheckpointBytes(d)[s]
    <3>1. Sum(T, CheckpointBytes(d)) \in Nat
      BY <2>1, <2>2, CellsFinite
    <3>2. CASE s \in Checkpointed(d)
      <4>1. T \cup {s} = Checkpointed(d)
        BY <3>2 DEF T
      <4>2. Sum(T \cup {s}, CheckpointBytes(d)) = Sum(T, CheckpointBytes(d)) + CheckpointBytes(d)[s]
        BY <1>6, <2>1, <2>2, SumAdd
      <4> QED BY <4>1, <4>2
    <3>3. CASE s \notin Checkpointed(d)
      <4>1. T = Checkpointed(d)
        BY <3>3 DEF T
      <4> QED BY <2>5, <3>1, <3>3, <4>1
    <3> QED BY <3>2, <3>3
  <2>9. /\ Sum(T, CheckpointBytes(d)) \in Nat /\ d.retained \in Int /\ d.historyBytes \in Int
        /\ CheckpointBytes(d)[s] \in Nat
    BY <1>0, <2>1, <2>2, CellsFinite DEF Image
  <2>10. Sum(Checkpointed(e), CheckpointBytes(e))
           = Sum(T, CheckpointBytes(d)) + CursorSize[value]
    BY <1>6, <2>3, <2>6, <2>7
  <2>11. Sum(Commands, CommandBytes(d)) \in Nat /\ CommandBytes(e) = CommandBytes(d)
    BY <1>2, SumsNat, CellsFinite, FiniteAssumption DEF CommandBytes
  <2>12. Retained(e) = d.retained + (Sum(Commands, CommandBytes(d))
                         + (Sum(T, CheckpointBytes(d)) + CursorSize[value])) + d.historyBytes
    BY <1>2, <2>10, <2>11 DEF Retained, Held
  <2>13. Retained(d) = d.retained + (Sum(Commands, CommandBytes(d))
                         + (Sum(T, CheckpointBytes(d)) + CheckpointBytes(d)[s])) + d.historyBytes
    BY <2>8 DEF Retained, Held
  <2> QED BY <2>3, <2>9, <2>11, <2>12, <2>13, ChargeReplaced
<1>13. Retained(e) <= Limit
  BY <1>12 DEF CheckpointFits
<1> QED BY <1>1, <1>2, <1>3, <1>5, <1>10, <1>11, <1>13

(* Replacing a command row is charged the difference of its bytes. *)
LEMMA SetCommandGood ==
  ASSUME NEW d, Good(d), NEW c \in Commands, NEW n \in Nat,
         NEW state, state # "none", [state |-> state, bytes |-> n] \in Command,
         NEW e1, e1 = SetCommand(d, c, state, n)
  PROVE  /\ Good(e1) /\ Keeps(d, e1)
         /\ \E rest \in Int : /\ Retained(d) = rest + d.cmds[c].bytes
                              /\ Retained(e1) = rest + n
         /\ e1.obs = d.obs /\ e1.history = d.history /\ e1.cps = d.cps
<1>0. d \in Image /\ d.cmds \in [Commands -> Command]
  BY DEF Good, Sound, Image
<1> DEFINE new == [state |-> state, bytes |-> n]
           e == [d EXCEPT !.cmds = [d.cmds EXCEPT ![c] = new]]
<1>1. e1 = e
  BY <1>0 DEF SetCommand, Image
<1>2. new \in Command /\ new.bytes = n /\ new.state # "none"
  BY DEF Command
<1> HIDE DEF new
<1>3. /\ e.cmds = [d.cmds EXCEPT ![c] = new]
      /\ e.obs = d.obs /\ e.history = d.history /\ e.cps = d.cps
      /\ e.graph = d.graph /\ e.retained = d.retained /\ e.pending = d.pending
      /\ e.dead = d.dead /\ e.historyBytes = d.historyBytes
      /\ e.historyCount = d.historyCount
      /\ e.graphCount = d.graphCount /\ e.unresolved = d.unresolved
  BY <1>0 DEF Image
<1>4. e \in Image
  <2>1. [d.cmds EXCEPT ![c] = new] \in [Commands -> Command]
    BY <1>0, <1>2
  <2> QED BY <1>0, <2>1 DEF Image
<1> HIDE DEF e
<1>5. /\ Pending(e) = Pending(d) /\ Dead(e) = Dead(d) /\ Rows(e) = Rows(d)
      /\ RowBytes(e) = RowBytes(d) /\ Archived(e) = Archived(d)
      /\ Checkpointed(e) = Checkpointed(d) /\ CheckpointBytes(e) = CheckpointBytes(d)
  BY <1>3 DEF Pending, Dead, Rows, In, RowBytes, Archived, Checkpointed, CheckpointBytes
<1>6. Accounted(e)
  BY <1>3, <1>5 DEF Accounted, Good, Sound
<1>7. Good(e) /\ Keeps(d, e)
  <2>1. e.cmds[c] = new /\ \A k \in Commands : k # c => e.cmds[k] = d.cmds[k]
    BY <1>0, <1>3
  <2>2. \A k \in Commands : e.cmds[k].state = "none" => e.cmds[k].bytes = 0
    BY <1>2, <2>1 DEF Good, Sound
  <2> QED BY <1>3, <1>4, <1>5, <1>6, <2>2 DEF Good, Sound, Keeps
<1>8. \E rest \in Nat : /\ Sum(Commands, CommandBytes(d)) = rest + d.cmds[c].bytes
                        /\ Sum(Commands, CommandBytes(e)) = rest + n
  <2>1. \A k \in Commands : CommandBytes(e)[k] \in Nat /\ CommandBytes(d)[k] \in Nat
    BY <1>7, SumsNat
  <2>2. \A k \in Commands : k # c => CommandBytes(e)[k] = CommandBytes(d)[k]
    BY <1>0, <1>3 DEF CommandBytes
  <2>3. CommandBytes(e)[c] = n /\ CommandBytes(d)[c] = d.cmds[c].bytes
    BY <1>0, <1>2, <1>3 DEF CommandBytes
  <2>4. \E rest \in Nat : /\ Sum(Commands, CommandBytes(d)) = rest + CommandBytes(d)[c]
                          /\ Sum(Commands, CommandBytes(e)) = rest + CommandBytes(e)[c]
    <3> DEFINE T == Commands \ {c}
    <3>1. IsFiniteSet(T) /\ c \notin T /\ T \cup {c} = Commands
      BY FiniteAssumption, FS_RemoveElement
    <3>2. \A k \in T : k \in Commands /\ k # c
      OBVIOUS
    <3> HIDE DEF T
    <3>3. \A k \in T : CommandBytes(e)[k] = CommandBytes(d)[k]
      BY <2>2, <3>2
    <3>4. Sum(T, CommandBytes(e)) = Sum(T, CommandBytes(d))
      BY <3>3, SumAgree
    <3>5. Sum(T \cup {c}, CommandBytes(e)) = Sum(T, CommandBytes(e)) + CommandBytes(e)[c]
      BY <2>1, <3>1, <3>2, SumAdd
    <3>6. Sum(T \cup {c}, CommandBytes(d)) = Sum(T, CommandBytes(d)) + CommandBytes(d)[c]
      BY <2>1, <3>1, <3>2, SumAdd
    <3>7. Sum(T, CommandBytes(d)) \in Nat
      BY <2>1, <3>1, <3>2, CellsFinite
    <3> QED BY <3>1, <3>4, <3>5, <3>6, <3>7
  <2> QED BY <2>3, <2>4
<1>9. \E rest \in Int : Retained(d) = rest + d.cmds[c].bytes /\ Retained(e) = rest + n
  <2>1. PICK rest \in Nat : /\ Sum(Commands, CommandBytes(d)) = rest + d.cmds[c].bytes
                            /\ Sum(Commands, CommandBytes(e)) = rest + n
    BY <1>8
  <2> DEFINE old == d.cmds[c].bytes
             y == Sum(Checkpointed(d), CheckpointBytes(d))
             whole == d.retained + (rest + y) + d.historyBytes
  <2>2. old \in Nat /\ y \in Nat /\ d.retained \in Int /\ d.historyBytes \in Int
    <3>1. \A s \in Checkpointed(d) : CheckpointBytes(d)[s] \in Nat
      BY SumsNat DEF Checkpointed
    <3>2. y \in Nat
      BY <3>1, TablesFinite, CellsFinite
    <3> QED BY <1>0, <3>2 DEF Image, Command
  <2>3. /\ Retained(d) = d.retained + ((rest + old) + y) + d.historyBytes
        /\ Retained(e) = d.retained + ((rest + n) + y) + d.historyBytes
    BY <1>3, <1>5, <2>1 DEF Retained, Held
  <2> HIDE DEF old, y
  <2>4. whole \in Int /\ Retained(d) = whole + old /\ Retained(e) = whole + n
    BY <2>2, <2>3
  <2> HIDE DEF whole
  <2> QED BY <2>4 DEF old
<1> QED BY <1>1, <1>3, <1>7, <1>9

(* The import ledger and the gap table are not accounted. *)
LEMMA LedgerGood ==
  ASSUME NEW d, Good(d), NEW k \in Nat
  PROVE  /\ LET e == [d EXCEPT !.gaps = @ \cup {k}]
            IN  /\ Good(e) /\ Keeps(d, e) /\ Retained(e) = Retained(d)
                /\ e.obs = d.obs /\ e.history = d.history /\ e.cps = d.cps
         /\ LET e == [d EXCEPT !.imports = @ \cup {k}]
            IN  /\ Good(e) /\ Keeps(d, e) /\ Retained(e) = Retained(d)
                /\ e.obs = d.obs /\ e.history = d.history /\ e.cps = d.cps
<1>0. d \in Image
  BY DEF Good, Sound
<1>1. ASSUME NEW e \in Image, e.obs = d.obs, e.history = d.history, e.cps = d.cps,
             e.graph = d.graph, e.cmds = d.cmds, e.retained = d.retained, e.pending = d.pending,
             e.dead = d.dead, e.historyBytes = d.historyBytes,
             e.historyCount = d.historyCount, e.graphCount = d.graphCount,
             e.unresolved = d.unresolved
      PROVE  Good(e) /\ Keeps(d, e) /\ Retained(e) = Retained(d)
  <2>1. /\ Pending(e) = Pending(d) /\ Dead(e) = Dead(d) /\ Rows(e) = Rows(d)
        /\ RowBytes(e) = RowBytes(d) /\ Archived(e) = Archived(d)
        /\ Checkpointed(e) = Checkpointed(d)
    BY <1>1 DEF Pending, Dead, Rows, In, RowBytes, Archived, Checkpointed
  <2>2. Accounted(e)
    BY <1>1, <2>1 DEF Accounted, Good, Sound
  <2>3. Retained(e) = Retained(d)
    BY <1>1, RetainedBy DEF Retained
  <2> QED BY <1>1, <2>1, <2>2, <2>3 DEF Good, Sound, Keeps
<1>2. [d EXCEPT !.gaps = @ \cup {k}] \in Image /\ [d EXCEPT !.imports = @ \cup {k}] \in Image
  BY <1>0 DEF Image
<1>3. LET e == [d EXCEPT !.gaps = @ \cup {k}]
      IN  /\ e.obs = d.obs /\ e.history = d.history /\ e.cps = d.cps
          /\ e.graph = d.graph /\ e.cmds = d.cmds
          /\ e.retained = d.retained /\ e.pending = d.pending
          /\ e.dead = d.dead /\ e.historyBytes = d.historyBytes
          /\ e.historyCount = d.historyCount /\ e.graphCount = d.graphCount
          /\ e.unresolved = d.unresolved
  BY <1>0 DEF Image
<1>4. LET e == [d EXCEPT !.imports = @ \cup {k}]
      IN  /\ e.obs = d.obs /\ e.history = d.history /\ e.cps = d.cps
          /\ e.graph = d.graph /\ e.cmds = d.cmds
          /\ e.retained = d.retained /\ e.pending = d.pending
          /\ e.dead = d.dead /\ e.historyBytes = d.historyBytes
          /\ e.historyCount = d.historyCount /\ e.graphCount = d.graphCount
          /\ e.unresolved = d.unresolved
  BY <1>0 DEF Image
<1> QED BY <1>1, <1>2, <1>3, <1>4
=============================================================================

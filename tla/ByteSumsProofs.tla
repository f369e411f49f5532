--------------------------- MODULE ByteSumsProofs ---------------------------
(* The laws of Sum that the journal's accounting rests on. *)
EXTENDS ByteSums, FiniteSetTheorems, FunctionTheorems, TLAPS

(* Disjoint finite sets add up. *)
LEMMA CardinalityDisjoint ==
  ASSUME NEW A, NEW B, IsFiniteSet(A), IsFiniteSet(B), A \cap B = {}
  PROVE  Cardinality(A \cup B) = Cardinality(A) + Cardinality(B)
<1>1. Cardinality(A \cap B) = 0
  BY FS_EmptySet
<1>2. Cardinality(A) \in Nat /\ Cardinality(B) \in Nat
  BY FS_CardinalityType
<1>3. Cardinality(A \cup B) = Cardinality(A) + Cardinality(B) - Cardinality(A \cap B)
  BY FS_Union
<1> QED BY <1>1, <1>2, <1>3

(* Cells of a new row are disjoint from those of the rows already there. *)
LEMMA CellsAdd ==
  ASSUME NEW S, NEW f, NEW x, x \notin S
  PROVE  /\ Cells(S \cup {x}, f) = Cells(S, f) \cup ({x} \X (1 .. f[x]))
         /\ Cells(S, f) \cap ({x} \X (1 .. f[x])) = {}
  BY DEF Cells

(* A finite table has finitely many cells. *)
LEMMA CellsFinite ==
  ASSUME NEW S, IsFiniteSet(S), NEW f, \A x \in S : f[x] \in Nat
  PROVE  IsFiniteSet(Cells(S, f)) /\ Sum(S, f) \in Nat
<1> DEFINE C == { {x} \X (1 .. f[x]) : x \in S }
           g == [x \in S |-> {x} \X (1 .. f[x])]
<1>1. g \in Surjection(S, C)
  BY DEF Surjection
<1>2. IsFiniteSet(C)
  BY <1>1, FS_Surjection
<1>3. \A T \in C : IsFiniteSet(T)
  <2> SUFFICES ASSUME NEW x \in S PROVE IsFiniteSet({x} \X (1 .. f[x]))
    OBVIOUS
  <2>1. IsFiniteSet({x})
    BY FS_Singleton
  <2>2. IsFiniteSet(1 .. f[x])
    BY FS_Interval
  <2> QED BY <2>1, <2>2, FS_Product
<1>4. IsFiniteSet(UNION C)
  BY <1>2, <1>3, FS_UNION
<1> QED BY <1>4, FS_CardinalityType DEF Cells, Sum

(* The empty table sums to zero. *)
LEMMA SumEmpty ==
  ASSUME NEW f
  PROVE  Sum({}, f) = 0
<1>1. Cells({}, f) = {}
  BY DEF Cells
<1> QED BY <1>1, FS_EmptySet DEF Sum

(* A row owns as many cells as its size. *)
LEMMA RowCells ==
  ASSUME NEW x, NEW n \in Nat
  PROVE  IsFiniteSet({x} \X (1 .. n)) /\ Cardinality({x} \X (1 .. n)) = n
<1>1. IsFiniteSet({x}) /\ Cardinality({x}) = 1
  BY FS_Singleton
<1>2. IsFiniteSet(1 .. n) /\ Cardinality(1 .. n) = n
  BY FS_Interval
<1>3. /\ IsFiniteSet({x} \X (1 .. n))
      /\ Cardinality({x} \X (1 .. n)) = Cardinality({x}) * Cardinality(1 .. n)
  BY <1>1, <1>2, FS_Product
<1> QED BY <1>1, <1>2, <1>3

(* Inserting a row adds its size. *)
LEMMA SumAdd ==
  ASSUME NEW S, IsFiniteSet(S), NEW f, \A y \in S : f[y] \in Nat,
         NEW x, x \notin S, f[x] \in Nat
  PROVE  Sum(S \cup {x}, f) = Sum(S, f) + f[x]
<1> DEFINE N == {x} \X (1 .. f[x])
<1>1. IsFiniteSet(Cells(S, f)) /\ Cardinality(Cells(S, f)) \in Nat
  BY CellsFinite DEF Sum
<1>2. IsFiniteSet(N) /\ Cardinality(N) = f[x]
  BY RowCells
<1>3. Cells(S \cup {x}, f) = Cells(S, f) \cup N /\ Cells(S, f) \cap N = {}
  BY CellsAdd
<1>4. Cardinality(Cells(S, f) \cup N)
        = Cardinality(Cells(S, f)) + Cardinality(N) - Cardinality(Cells(S, f) \cap N)
  BY <1>1, <1>2, FS_Union
<1>5. Cardinality(Cells(S, f) \cap N) = 0
  BY <1>3, FS_EmptySet
<1>6. Cardinality(Cells(S \cup {x}, f)) = Cardinality(Cells(S, f) \cup N)
  BY <1>3
<1> HIDE DEF N
<1> QED BY <1>1, <1>2, <1>4, <1>5, <1>6 DEF Sum

(* Deleting a row takes its size away. *)
LEMMA SumRemove ==
  ASSUME NEW S, IsFiniteSet(S), NEW f, \A y \in S : f[y] \in Nat,
         NEW x \in S
  PROVE  Sum(S \ {x}, f) = Sum(S, f) - f[x]
<1>1. IsFiniteSet(S \ {x})
  BY FS_RemoveElement
<1>2. (S \ {x}) \cup {x} = S
  OBVIOUS
<1>3. Sum((S \ {x}) \cup {x}, f) = Sum(S \ {x}, f) + f[x]
  BY <1>1, SumAdd
<1>4. Sum(S, f) = Sum(S \ {x}, f) + f[x]
  BY <1>2, <1>3
<1>5. Sum(S \ {x}, f) \in Nat /\ f[x] \in Nat
  BY <1>1, CellsFinite
<1> QED BY <1>4, <1>5

(* The sum depends only on the sizes of the rows in the table. *)
LEMMA SumAgree ==
  ASSUME NEW S, NEW f, NEW g, \A x \in S : f[x] = g[x]
  PROVE  Sum(S, f) = Sum(S, g)
<1>1. Cells(S, f) = Cells(S, g)
  BY DEF Cells
<1> QED BY <1>1 DEF Sum

(* A part of a table sums to no more than the table. *)
LEMMA SumPart ==
  ASSUME NEW S, IsFiniteSet(S), NEW f, \A y \in S : f[y] \in Nat, NEW x \in S
  PROVE  f[x] <= Sum(S, f)
<1>1. IsFiniteSet(S \ {x})
  BY FS_RemoveElement
<1>2. Sum(S \ {x}, f) \in Nat
  BY <1>1, CellsFinite
<1>3. Sum(S, f) \in Nat /\ f[x] \in Nat
  BY CellsFinite
<1>4. Sum(S \ {x}, f) = Sum(S, f) - f[x]
  BY SumRemove
<1> QED BY <1>2, <1>3, <1>4

(* Rows of no size sum to zero. *)
LEMMA SumZero ==
  ASSUME NEW S, NEW f, \A x \in S : f[x] = 0
  PROVE  Sum(S, f) = 0
<1>1. \A x \in S : 1 .. f[x] = {}
  OBVIOUS
<1>2. Cells(S, f) = {}
  BY <1>1 DEF Cells
<1> QED BY <1>2, FS_EmptySet DEF Sum
=============================================================================

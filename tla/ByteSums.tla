------------------------------ MODULE ByteSums ------------------------------
(***************************************************************************)
(* SELECT SUM(bytes) over a finite table, as the number of byte cells that *)
(* the rows own.  Row x of size f[x] owns the cells <<x, 1>> .. <<x, f[x]>>; *)
(* cells of different rows differ, so counting cells adds the sizes up.    *)
(* Stated this way a sum obeys the library's laws of Cardinality and the   *)
(* accounting theorems need no induction over the table.                   *)
(***************************************************************************)
EXTENDS Integers, FiniteSets

Cells(S, f) == UNION { {x} \X (1 .. f[x]) : x \in S }

Sum(S, f) == Cardinality(Cells(S, f))
=============================================================================

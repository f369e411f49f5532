-------------------------- MODULE UsnJournalProofs --------------------------
(***************************************************************************)
(* The cursor of the change-journal source never passes a record silently, *)
(* for every size and number of native journals and every number of        *)
(* restarts.                                                               *)
(***************************************************************************)
EXTENDS UsnJournal, TLAPS

Position == [id : Nat, next : Nat]

(* What run knows of its locals: a cursor that is not a fresh baseline has
   everything before it covered, and an offered line that is not a gap starts
   from that cursor. *)
CursorInv ==
  /\ native \in [id : Nat, first : Nat, next : Nat]
  /\ cursor \in Position
  /\ saved # None => saved.cursor \in Position /\ Before(saved.cursor) \subseteq covered
  /\ baseline \in BOOLEAN
  /\ ~baseline => Before(cursor) \subseteq covered
  /\ pc = "read" => ~baseline
  /\ pc = "accept" =>
       /\ entry.cursor \in Position
       /\ entry.line = "gap" \/ ~baseline
       /\ entry.line \in {"gap", "resumed", "batch"}
       /\ entry.line = "resumed" => entry.cursor = cursor

-----------------------------------------------------------------------------
(* The invariant holds when the first worker starts. *)
LEMMA CursorInit == Init => CursorInv
BY DEF Init, CursorInv, Position, Origin

(* Every step of the volume, of the worker and of a restart keeps it.  Only
   Accepted moves the durable cursor: by a gap that declares everything before
   it, or by a batch that starts where the covered part ends. *)
LEMMA CursorStep == CursorInv /\ [Next]_vars => CursorInv'
<1> SUFFICES ASSUME CursorInv, [Next]_vars PROVE CursorInv'
  OBVIOUS
<1>1. CASE Append \/ Truncate \/ Recreate
  <2>1. native' \in [id : Nat, first : Nat, next : Nat]
    BY <1>1 DEF Append, Truncate, Recreate, CursorInv
  <2>2. UNCHANGED <<saved, pc, baseline, cursor, entry, covered>>
    BY <1>1 DEF Append, Truncate, Recreate, local
  <2> QED BY <2>1, <2>2 DEF CursorInv, Before
<1>2. CASE Load
  BY <1>2 DEF Load, CursorInv, Origin, Position, Before
<1>3. CASE Query
  <2>1. UNCHANGED <<native, saved, baseline, cursor, covered>>
    BY <1>3 DEF Query, local
  <2>2. CASE pc' = "read"
    BY <1>3, <2>1, <2>2 DEF Query, Offer, CursorInv, Before
  <2>3. CASE pc' = "accept"
    <3>1. /\ entry'.cursor \in Position
          /\ entry'.line = "gap" \/ ~baseline
          /\ entry'.line \in {"gap", "resumed", "batch"}
          /\ entry'.line = "resumed" => entry'.cursor = cursor
      BY <1>3, <2>3 DEF Query, Offer, CursorInv, Position
    <3> QED BY <2>1, <2>3, <3>1 DEF CursorInv, Before
  <2> QED BY <1>3, <2>2, <2>3 DEF Query
<1>4. CASE Read
  <2>1. UNCHANGED <<native, saved, baseline, cursor, covered>>
    BY <1>4 DEF Read, local
  <2>2. ~baseline
    BY <1>4 DEF Read, CursorInv
  <2>3. PICK next \in cursor.next .. native.next :
          IF next = cursor.next THEN pc' = "query" /\ entry' = entry
          ELSE pc' = "accept" /\ Offer("batch", [cursor EXCEPT !.next = next])
    BY <1>4 DEF Read
  <2>4. next \in Nat
    BY <2>3 DEF CursorInv, Position
  <2> QED BY <2>1, <2>2, <2>3, <2>4 DEF Offer, CursorInv, Position, Before
<1>5. CASE SourceFails
  BY <1>5 DEF SourceFails, CursorInv, Before, local
<1>6. CASE Accepted
  <2>1. /\ saved'.cursor = entry.cursor /\ cursor' = entry.cursor /\ baseline' = FALSE
        /\ UNCHANGED native /\ pc' \in {"query", "read"} /\ entry.cursor \in Position
    BY <1>6 DEF Accepted, CursorInv
  <2>2. covered \subseteq covered'
    BY <1>6 DEF Accepted
  <2>3. Before(entry.cursor) \subseteq covered'
    <3>1. CASE entry.line = "gap"
      BY <1>6, <3>1 DEF Accepted
    <3>2. CASE entry.line = "batch"
      <4>1. Before(cursor) \subseteq covered
        BY <1>6, <3>2 DEF Accepted, CursorInv
      <4>2. Before(entry.cursor) \ Before(cursor) \subseteq covered'
        BY <1>6, <3>2 DEF Accepted, Batch
      <4> QED BY <2>2, <4>1, <4>2
    <3>3. CASE entry.line = "resumed"
      BY <1>6, <2>2, <3>3 DEF Accepted, CursorInv
    <3> QED BY <1>6, <3>1, <3>2, <3>3 DEF Accepted, CursorInv
  <2>4. Before(saved'.cursor) \subseteq covered' /\ Before(cursor') \subseteq covered'
    BY <2>1, <2>3
  <2> QED BY <2>1, <2>4 DEF CursorInv, Before
<1>7. CASE End
  BY <1>7 DEF End, CursorInv, Before, local
<1>8. CASE Refused \/ RequestStop \/ UNCHANGED vars
  BY <1>8 DEF Refused, RequestStop, CursorInv, Before, vars, local
<1>9. CASE Restart
  BY <1>9 DEF Restart, CursorInv, Before, Origin, Position
<1> QED BY <1>1, <1>2, <1>3, <1>4, <1>5, <1>6, <1>7, <1>8, <1>9 DEF Next, Work

-----------------------------------------------------------------------------
(* A record that was dropped unread lies before the retained range: if the
   saved cursor still fits the journal it lies behind everything gone. *)
LEMMA InvariantIsSafe ==
  ASSUME MaxUsn \in Nat, MaxJournals \in Nat
  PROVE CursorInv => CursorSafe
<1> SUFFICES ASSUME CursorInv, saved # None
             PROVE /\ \A r \in Before(saved.cursor) : r \in covered
                   /\ (Gone \ covered # {}) => Discontinuous(saved.cursor, native)
  BY DEF CursorSafe
<1>1. Before(saved.cursor) \subseteq covered /\ saved.cursor \in Position
  BY DEF CursorInv
<1>2. ASSUME ~Discontinuous(saved.cursor, native) PROVE Gone \subseteq Before(saved.cursor)
  BY <1>1, <1>2 DEF Discontinuous, Gone, Before, Records, CursorInv, Position
<1> QED BY <1>1, <1>2

(* Everything before the durable cursor of the change-journal worker is in a
   committed batch or was declared unknown, and whatever the volume dropped
   unread makes the next comparison fail (run, usn_journal.cpp). *)
THEOREM UsnCursorTheorem ==
  ASSUME MaxUsn \in Nat, MaxJournals \in Nat
  PROVE Spec => []CursorSafe
<1>1. CursorInv => CursorSafe
  BY InvariantIsSafe
<1> QED BY CursorInit, CursorStep, <1>1, PTL DEF Spec
=============================================================================

---------------------------- MODULE BoundedQueue ----------------------------
(***************************************************************************)
(* What the raw handoff promises its callbacks and its handler: a queue    *)
(* that takes an event or refuses it at once, hands the taken ones over    *)
(* one at a time, each once and in order, and is empty when it is closed.  *)
(***************************************************************************)
EXTENDS Integers, Sequences

CONSTANTS Events, Limit, None

VARIABLES queue, busy, done, state

vars == <<queue, busy, done, state>>

Owned == Len(queue) + (IF busy = None THEN 0 ELSE 1)

Init == queue = <<>> /\ busy = None /\ done = <<>> /\ state = "open"

Put(e) ==
  /\ state = "open" /\ Owned < Limit
  /\ queue' = Append(queue, e) /\ UNCHANGED <<busy, done, state>>

Take ==
  /\ queue # <<>> /\ busy = None
  /\ busy' = Head(queue) /\ queue' = Tail(queue) /\ UNCHANGED <<done, state>>

Finish ==
  /\ busy # None
  /\ done' = Append(done, busy) /\ busy' = None /\ UNCHANGED <<queue, state>>

Shut == state = "open" /\ state' = "shut" /\ UNCHANGED <<queue, busy, done>>

Close ==
  /\ state = "shut" /\ Owned = 0
  /\ state' = "closed" /\ UNCHANGED <<queue, busy, done>>

Next == (\E e \in Events : Put(e)) \/ Take \/ Finish \/ Shut \/ Close

Spec == Init /\ [][Next]_vars
=============================================================================

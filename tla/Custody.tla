------------------------------- MODULE Custody -------------------------------
(***************************************************************************)
(* What telemetry delivery promises: every line has exactly one owner, and *)
(* the agent gives a line up only to a Manager that already archived it,   *)
(* or keeps it for good as a refused line.                                 *)
(***************************************************************************)
CONSTANTS Records, Refusable   \* Refusable: lines the Manager may refuse

VARIABLES owner, archive

vars == <<owner, archive>>

Init == owner = [r \in Records |-> "source"] /\ archive = {}

Owned(who) == { r \in Records : owner[r] = who }

(* A source hands a line over; the same line may come again later. *)
Take(S) ==
  /\ S \subseteq Owned("source") \cup Owned("manager")
  /\ owner' = [r \in Records |-> IF r \in S THEN "agent" ELSE owner[r]]
  /\ UNCHANGED archive

(* The Manager archives lines the agent holds. *)
Archive(S) ==
  /\ S \subseteq Owned("agent") \ Refusable
  /\ archive' = archive \cup S
  /\ UNCHANGED owner

(* One receipt settles the lines it covers, all at once. *)
Settle(A, R) ==
  /\ A \cup R \subseteq Owned("agent") /\ A \cap R = {}
  /\ A \subseteq archive /\ R \subseteq Refusable
  /\ owner' = [r \in Records |-> IF r \in A THEN "manager"
                                 ELSE IF r \in R THEN "refused" ELSE owner[r]]
  /\ UNCHANGED archive

Next ==
  \/ \E S \in SUBSET Records : Take(S) \/ Archive(S)
  \/ \E A, R \in SUBSET Records : Settle(A, R)

Spec == Init /\ [][Next]_vars
=============================================================================

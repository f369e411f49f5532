----------------------------- MODULE PolicyStore ----------------------------
(***************************************************************************)
(* The signed collection policy (policy.cpp), a library.  Every operation  *)
(* runs under a file lock: it loads the state file, verifies the policies  *)
(* in it again, and replaces the file atomically.  A policy in Policies is *)
(* one whose envelope is well formed and signed by a pinned key.           *)
(***************************************************************************)
EXTENDS Naturals

CONSTANTS None,
          Policies,   \* records [gen, features, rate, issued, expires]
          Features,
          Skew,       \* how far ahead of the clock a policy may be issued
          MaxTime

VARIABLES file,     \* the state file: [desired, effective, rollback, active, rolled]
          now,
          high,     \* ghost: the largest generation that was ever written
          answer    \* accepted of the last result

vars == <<file, now, high, answer>>

Init == file = None /\ now = 1 /\ high = 0 /\ answer = None

(* The times of verify. *)
Verifies(p) == p.issued <= now + Skew
Unexpired(p) == Verifies(p) /\ now < p.expires

(* reject_weakening: features stay enabled; rate stands for the limits. *)
Weakens(old, new) == ~(old.features \subseteq new.features) \/ new.rate < old.rate

(* Mutant: the generation of a replayed policy is not compared. *)
AdmissibleReplayed(p) ==
  /\ Unexpired(p)
  /\ file # None => /\ Verifies(file.desired)
                    /\ ~Weakens(file.desired, p)

Admissible(p) ==
  /\ Unexpired(p)
  /\ file # None => /\ Verifies(file.desired)
                    /\ p.gen > file.desired.gen
                    /\ ~Weakens(file.desired, p)

(* The file is replaced; the answer is a refusal if only the confirmation of
   its durability fails. *)
Save(f) ==
  /\ file' = f /\ answer' \in BOOLEAN /\ UNCHANGED now

Activate ==
  \E p \in Policies :
    /\ Admissible(p)
    /\ high' = IF p.gen > high THEN p.gen ELSE high
    /\ Save([desired |-> p, effective |-> p,
             rollback |-> IF file = None THEN None ELSE file.effective,
             active |-> IF file = None THEN {} ELSE file.active, rolled |-> FALSE])

(* The policy that is desired already is accepted and nothing is written. *)
ActivateAgain ==
  /\ file # None
  /\ Unexpired(file.desired)
  /\ answer' = TRUE /\ UNCHANGED <<file, now, high>>

(* A replay, a fork, a weakening, an operation without its conditions, or a
   file that cannot be locked, read or written. *)
Refuse == answer' = FALSE /\ UNCHANGED <<file, now, high>>

Rollback ==
  /\ file # None
  /\ file.rollback # None
  /\ Unexpired(file.rollback)
  /\ file.rollback.gen < file.effective.gen
  /\ ~Weakens(file.effective, file.rollback)
  /\ file.active \subseteq file.rollback.features
  /\ Save([file EXCEPT !.effective = file.rollback, !.rollback = file.effective,
                       !.rolled = TRUE])
  /\ UNCHANGED high

ConfirmEffective ==
  \E generation \in 1..high, actual \in SUBSET Features :
    /\ file # None
    /\ Unexpired(file.desired) /\ Unexpired(file.effective)
    /\ generation = file.desired.gen
    /\ actual \subseteq (file.desired.features \cap file.effective.features)
    /\ Save([file EXCEPT !.active = actual])
    /\ UNCHANGED high

Tick == now < MaxTime /\ now' = now + 1 /\ UNCHANGED <<file, high, answer>>

Next == Activate \/ ActivateAgain \/ Rollback \/ ConfirmEffective \/ Refuse \/ Tick

Spec == Init /\ [][Next]_vars

(* snapshot_of: the features in effect, none once either policy has expired. *)
Effective ==
  IF file = None \/ ~Unexpired(file.desired) \/ ~Unexpired(file.effective)
  THEN {} ELSE file.desired.features \cap file.effective.features \cap file.active
-----------------------------------------------------------------------------
(* Generations never go back: the policy desired is the newest that was ever
   written (activate, 144), whatever replays, rollbacks and expiries came in
   between.  No sequence of activations and rollbacks weakens collection: a
   rollback changes the policy in effect only to one as strong as the policy
   desired, and every feature confirmed as active stays authorised by both
   (activate, rollback and confirm_effective). *)
PolicySafe ==
  file # None =>
    /\ file.desired.gen = high
    /\ file.effective.gen <= high
    /\ file.active \subseteq file.desired.features \cap file.effective.features
    /\ ~Weakens(file.desired, file.effective)
    /\ file.rolled <=> file.effective # file.desired
    /\ Unexpired(file.desired) /\ Unexpired(file.effective) => Effective = file.active
=============================================================================

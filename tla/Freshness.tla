----------------------------- MODULE Freshness -----------------------------
(***************************************************************************)
(* How a health report judges a state capture (health/state_freshness.cpp).*)
(* A capture is known by the record id, the start and the commit time its  *)
(* worker published.                                                       *)
(***************************************************************************)
EXTENDS Naturals

CONSTANTS MaxAge,  \* maximum_capture_age_ms
          None     \* a field that was never published

Positive(state) == state \in {"healthy", "degraded"}

(* Mutant: the age counts from the commit, so a late acceptance refreshes. *)
CaptureAgeFromCommit(c, now) == now - c.committed

CaptureAge(c, now) == now - c.start

(* capture_freshness: its state together with its reason.  "fresh" is the
   code's healthy, "overdue" its blind, all others its unavailable. *)
CaptureFreshness(c, now) ==
  CASE c.record = None -> "no_committed_capture"
    [] c.record # None /\ (c.start = None \/ c.committed = None) -> "clock_missing"
    [] OTHER -> IF c.start > c.committed \/ c.committed > now THEN "clock_order"
                ELSE IF CaptureAge(c, now) > MaxAge THEN "overdue" ELSE "fresh"

Derived(freshness) == IF freshness = "overdue" THEN "blind" ELSE "unavailable"

(* What the report says of a source or capability that claims this state. *)
Eligible(state, freshness) ==
  IF freshness # "fresh" /\ Positive(state) THEN Derived(freshness) ELSE state
=============================================================================

---------------------------- MODULE MCRawHandoff ----------------------------
(* A ring of two slots and a byte limit that a large event can exhaust. *)
EXTENDS RawHandoff, TLC

CONSTANTS e1, e2, e3, e4

MCCharge == e1 :> 1 @@ e2 :> 2 @@ e3 :> 1 @@ e4 :> 3
=============================================================================

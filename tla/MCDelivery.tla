----------------------------- MODULE MCDelivery -----------------------------
(* Small instances of delivery: two protocols, one line the Manager refuses. *)
EXTENDS Delivery, TLC

CONSTANTS r1, r2, r3, r4, c1

MCSize == r1 :> 1 @@ r2 :> 2 @@ r3 :> 1 @@ r4 :> 1
MCProto == r1 :> 1 @@ r2 :> 2 @@ r3 :> 2 @@ r4 :> 2
MCQuality == r1 :> 0 @@ r2 :> 0 @@ r3 :> 0 @@ r4 :> 0
MCCursorSize == c1 :> 1
NoCursorSize == <<>>
NoCommandSize == <<>>
NoFrames == <<>>

ProgressSize == r1 :> 1 @@ r2 :> 2 @@ r3 :> 1
ProgressProto == r1 :> 1 @@ r2 :> 2 @@ r3 :> 2
ProgressQuality == r1 :> 0 @@ r2 :> 0 @@ r3 :> 0

(* One legacy frame to import and one that is recorded as a gap. *)
MCFrames ==
  <<[file |-> 1, kind |-> "intact", lines |-> <<r1>>],
    [file |-> 1, kind |-> "corrupt", lines |-> <<>>]>>
=============================================================================

------------------------------ MODULE MCJournal ------------------------------
(* A small instance of the journal: a few lines under a tight quota, in an   *)
(* older installation with two spool files, a corrupt frame, a torn one that *)
(* hides the rest of its file, and a row archived before the graph index.    *)
EXTENDS Journal, TLC

CONSTANTS r1, r2, r3, r4, c1, c2, k1

MCSize == r1 :> 1 @@ r2 :> 2 @@ r3 :> 1 @@ r4 :> 1
MCProto == r1 :> 1 @@ r2 :> 2 @@ r3 :> 2 @@ r4 :> 2
MCQuality == r1 :> 0 @@ r2 :> 1 @@ r3 :> 0 @@ r4 :> 0
MCCursorSize == c1 :> 1 @@ c2 :> 2
MCCommandSize == k1 :> 2
MCFrames ==
  <<[file |-> 1, kind |-> "intact", lines |-> <<r1>>],
    [file |-> 1, kind |-> "corrupt", lines |-> <<>>],
    [file |-> 1, kind |-> "torn", lines |-> <<>>],
    [file |-> 1, kind |-> "intact", lines |-> <<r4>>],
    [file |-> 2, kind |-> "intact", lines |-> <<r4, r1>>]>>
=============================================================================

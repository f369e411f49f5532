----------------------------- MODULE CommandLife -----------------------------
(***************************************************************************)
(* What the response path promises about a command: its action runs at     *)
(* most once and never after the command was answered, and the one answer  *)
(* the Manager gets never claims more than is known.                       *)
(***************************************************************************)
CONSTANTS Commands

VARIABLES ran, answer

vars == <<ran, answer>>

Outcomes == {"succeeded", "failed", "rejected", "indeterminate"}

(* A success was performed and a rejection was not; a failure may have had  *)
(* a partial effect, and an indeterminate answer claims nothing.            *)
Honest(code, done) ==
  /\ code = "succeeded" => done = 1
  /\ code = "rejected" => done = 0

Init == ran = [c \in Commands |-> 0] /\ answer = [c \in Commands |-> "none"]

Run(c) ==
  /\ ran[c] = 0 /\ answer[c] = "none"
  /\ ran' = [ran EXCEPT ![c] = 1] /\ UNCHANGED answer

Answer(c, code) ==
  /\ answer[c] = "none" /\ Honest(code, ran[c])
  /\ answer' = [answer EXCEPT ![c] = code] /\ UNCHANGED ran

Next == \E c \in Commands : Run(c) \/ \E code \in Outcomes : Answer(c, code)

Spec == Init /\ [][Next]_vars
=============================================================================

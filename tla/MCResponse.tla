----------------------------- MODULE MCResponse -----------------------------
(* Small instances of the response thread. *)
EXTENDS Response, TLC

CONSTANTS kill, collect, acquire

KindOf ==
  [c \in Commands |-> IF c = collect THEN "collect" ELSE IF c = acquire THEN "acquire" ELSE "act"]
=============================================================================

------------------------- MODULE ProcessTermination -------------------------
(***************************************************************************)
(* terminate_process and reobserve_process (process_actions.cpp) beside    *)
(* processes that start, exit and reuse process ids.  A handle names the   *)
(* process object, and the id of an object with an open handle is not      *)
(* given to another process.                                               *)
(***************************************************************************)
EXTENDS Naturals, FiniteSets

CONSTANTS None,
          Instances,  \* process instances: [pid, start, guarded]
          Targets,    \* targets of commands: [pid, start, boot]
          Boot        \* the boot that runs

VARIABLES running,   \* instances that have not exited
          exited,
          killed,    \* instances the agent terminated
          pc, purpose, target,
          handle,    \* the instance behind the open handle
          initiated, \* action_initiated of this command
          receipt    \* the answer to this command: [code, stage, observed]

vars == <<running, exited, killed, pc, purpose, target, handle, initiated, receipt>>
processes == <<running, exited, killed>>

(* guarded: protected image, critical process, or a protection level. *)
Init ==
  /\ running = {} /\ exited = {} /\ killed = {} /\ pc = "idle" /\ purpose = None /\ target = None
  /\ handle = None /\ initiated = FALSE /\ receipt = None

-----------------------------------------------------------------------------
(* External: processes start and exit. *)
Start ==
  \E p \in Instances \ (running \cup exited) :
    /\ \A q \in (running \cup {handle}) \ {None} : q.pid # p.pid
    /\ running' = running \cup {p}
    /\ UNCHANGED <<exited, killed, pc, purpose, target, handle, initiated, receipt>>

Exit ==
  \E p \in running :
    /\ running' = running \ {p} /\ exited' = exited \cup {p}
    /\ UNCHANGED <<killed, pc, purpose, target, handle, initiated, receipt>>

-----------------------------------------------------------------------------
Command ==
  /\ pc = "idle" /\ pc' = "preflight"
  /\ purpose' \in {"kill", "observe"} /\ target' \in Targets
  /\ handle' = None /\ initiated' = FALSE /\ receipt' = None
  /\ UNCHANGED processes

(* termination_receipt: an action initiated and not observed to complete is
   indeterminate whatever else is said of it. *)
Code(state, observed) ==
  IF initiated /\ ~observed THEN "indeterminate"
  ELSE CASE state = "refused" -> "target_mismatch"
         [] state = "succeeded" /\ initiated -> "succeeded"
         [] state = "failed" -> "execution_failed"
         [] OTHER -> "indeterminate"

(* The receipt is made and the handle closed. *)
Stop(state, observed) ==
  /\ receipt' = [code |-> IF purpose = "kill" THEN Code(state, observed)
                          ELSE IF state = "succeeded" THEN "succeeded" ELSE "target_mismatch",
                 stage |-> pc, observed |-> observed]
  /\ pc' = "idle" /\ handle' = None
  /\ UNCHANGED <<processes, purpose, target, initiated>>

(* Every query may fail; nothing is done then. *)
QueryFails == pc \in {"boot", "open", "identity", "image", "liveness", "initiate"} /\ Stop("failed", FALSE)

Proceed(to) == pc' = to /\ UNCHANGED <<processes, purpose, target, handle, initiated, receipt>>

Preflight == pc = "preflight" /\ IF target.start = 0 THEN Stop("refused", FALSE) ELSE Proceed("boot")
CheckBoot == pc = "boot" /\ IF target.boot # Boot THEN Stop("refused", FALSE) ELSE Proceed("open")

(* OpenProcess by id: whoever has it now. *)
OpenProcess ==
  /\ pc = "open"
  /\ \E p \in running : p.pid = target.pid /\ handle' = p
  /\ pc' = "identity" /\ UNCHANGED <<processes, purpose, target, initiated, receipt>>
NoProcess == pc = "open" /\ (\A p \in running : p.pid # target.pid) /\ Stop("failed", FALSE)

(* Mutant: the creation time behind the handle is not compared. *)
IdentityUnchecked == pc = "identity" /\ Proceed("image")

(* The creation time behind the held handle, against a reused id. *)
Identity ==
  /\ pc = "identity"
  /\ IF handle.start # target.start THEN Stop("refused", FALSE)
     ELSE purpose = "kill" /\ Proceed("image")

(* reobserve_process ends here: parent and image are read, nothing is done. *)
Reobserved ==
  /\ pc = "identity" /\ purpose = "observe" /\ handle.start = target.start
  /\ Stop("succeeded", TRUE)

(* Image name, IsProcessCritical, protection level, each by the handle. *)
Protection == pc = "image" /\ IF handle.guarded THEN Stop("refused", FALSE) ELSE Proceed("liveness")
Liveness == pc = "liveness" /\ IF handle \in exited THEN Stop("refused", FALSE) ELSE Proceed("initiate")

(* TerminateProcess fails on a process that has exited meanwhile. *)
Initiate ==
  /\ pc = "initiate" /\ handle \in running
  /\ running' = running \ {handle} /\ killed' = killed \cup {handle} /\ exited' = exited \cup {handle}
  /\ initiated' = TRUE /\ pc' = "completion"
  /\ UNCHANGED <<purpose, target, handle, receipt>>

(* termination_completion: the bounded wait sees the exit, or not. *)
Completion ==
  /\ pc = "completion"
  /\ Stop("succeeded", TRUE) \/ Stop("indeterminate", FALSE)

Next ==
  \/ Start \/ Exit \/ Command \/ QueryFails \/ Preflight \/ CheckBoot \/ OpenProcess \/ NoProcess
  \/ Identity \/ Reobserved \/ Protection \/ Liveness \/ Initiate \/ Completion

Spec == Init /\ [][Next]_vars

-----------------------------------------------------------------------------
(* Only the instance a command names is ever terminated, whatever process has
   its id by then, and never a guarded one; and the receipt is truthful: a
   success means this agent ended it, a refusal or failure that it did
   nothing, an initiated action without an observed end is indeterminate. *)
TerminationExact ==
  /\ \A p \in killed : ~p.guarded /\ [pid |-> p.pid, start |-> p.start, boot |-> Boot] \in Targets
  /\ (handle # None /\ pc \notin {"identity", "idle"}) => handle.start = target.start
  /\ (pc = "idle" /\ receipt # None /\ purpose = "kill") =>
       LET named == {p \in killed : p.pid = target.pid /\ p.start = target.start} IN
       CASE receipt.code = "succeeded" -> named # {} /\ initiated /\ receipt.observed
         [] receipt.code = "indeterminate" -> named # {} /\ initiated /\ ~receipt.observed
         [] OTHER -> ~initiated /\ receipt.stage # "completion"
=============================================================================

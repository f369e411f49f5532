----------------------------- MODULE ServiceHost ----------------------------
(***************************************************************************)
(* The agent as a Windows service (service_host.cpp).  ServiceMain runs    *)
(* the endpoint, whose callbacks move the status machine on; the control   *)
(* handler runs on a thread of the dispatcher.  Both change the status     *)
(* under its mutex.  The service control manager knows only what it was    *)
(* told last, and sends a stop only to a service that said it accepts one. *)
(***************************************************************************)
EXTENDS Naturals

CONSTANTS None,
          MaxProgress,   \* a bound on the checkpoint
          MaxAsked       \* a bound on the controls sent

VARIABLES status,     \* the status_ of the machine: [state, checkpoint]
          terminal,   \* terminal_
          scm,        \* the state the service control manager was told last
          stop,       \* the stop event: None before it is created
          failed,     \* status_error
          pc,         \* the step of service_main and of the endpoint in it
          handler,    \* the step of the control handler
          asked       \* the number of controls sent

vars == <<status, terminal, scm, stop, failed, pc, handler, asked>>

Init ==
  /\ status = [state |-> "start", checkpoint |-> 0]
  /\ terminal = FALSE /\ scm = None /\ stop = None /\ failed = FALSE
  /\ pc = "register" /\ handler = "idle" /\ asked = 0

(* send: SetServiceStatus may fail; then the endpoint is told to stop. *)
Send(s) ==
  /\ status' = s
  /\ \/ scm' = s.state /\ UNCHANGED <<stop, failed>>
     \/ scm' = scm /\ failed' = TRUE /\ stop' = IF stop = None THEN None ELSE TRUE

Refused == UNCHANGED <<status, scm, stop, failed>>

Progress ==
  IF terminal \/ status.state \notin {"start", "stopping"}
  THEN Refused
  ELSE Send([status EXCEPT !.checkpoint = IF @ = MaxProgress THEN @ ELSE @ + 1])

Ready ==
  IF terminal \/ status.state # "start"
  THEN Refused
  ELSE Send([state |-> "running", checkpoint |-> 0])

(* Mutant: a stop that comes after the end is not refused. *)
StoppingAfterEnd ==
  Send(IF status.state = "stopping" THEN status
                                    ELSE [state |-> "stopping", checkpoint |-> 1])

Stopping ==
  IF terminal
  THEN Refused
  ELSE Send(IF status.state = "stopping" THEN status
                                         ELSE [state |-> "stopping", checkpoint |-> 1])

Goto(next) == pc' = next /\ UNCHANGED <<handler, asked>>

Register ==
  /\ pc = "register" /\ Refused /\ UNCHANGED terminal
  /\ Goto("starting") \/ Goto("returned")

Starting ==
  /\ pc = "starting"
  /\ Send([status EXCEPT !.checkpoint = 1]) /\ UNCHANGED terminal
  /\ Goto(IF failed' THEN "stopped" ELSE "event")

CreateStop ==
  /\ pc = "event"
  /\ \/ stop' = FALSE /\ Goto("startup")
     \/ stop' = None /\ Goto("stopped")
  /\ UNCHANGED <<status, terminal, scm, failed>>

(* The endpoint starts its workers; it may fail before it is ready. *)
Startup ==
  /\ pc = "startup" /\ UNCHANGED terminal
  /\ \/ Progress /\ Goto("ready")
     \/ Refused /\ Goto("stopped")

EndpointReady == pc = "ready" /\ Ready /\ UNCHANGED terminal /\ Goto("loop")

(* The main loop of the endpoint leaves for the stop event; a wait that fails
   or an exception ends it as well. *)
LoopStops ==
  /\ pc = "loop" /\ stop = TRUE
  /\ Refused /\ UNCHANGED terminal /\ Goto("stopping")

LoopFails ==
  /\ pc = "loop" /\ Refused /\ UNCHANGED terminal
  /\ Goto("stopping") \/ Goto("stopped")

Shutdown == pc = "stopping" /\ Stopping /\ UNCHANGED terminal /\ Goto("joining")

(* Inventory workers joined, sources drained, delivery closed. *)
Joining ==
  /\ pc \in {"joining", "draining", "closing"} /\ Progress /\ UNCHANGED terminal
  /\ Goto(CASE pc = "joining" -> "draining" [] pc = "draining" -> "closing" [] OTHER -> "stopped")

(* stopped(): the last status, whatever the endpoint returned. *)
Stopped ==
  /\ pc = "stopped" /\ ~terminal
  /\ terminal' = TRUE
  /\ Send([state |-> "stopped", checkpoint |-> 0])
  /\ Goto("returned")

(* The service control manager sends a control; a stop only if it was told
   that the service is running. *)
Control ==
  /\ handler = "idle" /\ asked < MaxAsked /\ pc # "register"
  /\ asked' = asked + 1
  /\ \/ scm = "running" /\ handler' = "stop"
     \/ scm # None /\ handler' = "interrogate"
  /\ UNCHANGED <<status, terminal, scm, stop, failed, pc>>

ControlStop ==
  /\ handler = "stop"
  /\ Stopping
  /\ handler' = "signal" /\ UNCHANGED <<terminal, pc, asked>>

ControlSignal ==
  /\ handler = "signal"
  /\ stop' = IF stop = None THEN None ELSE TRUE
  /\ handler' = "idle" /\ UNCHANGED <<status, terminal, scm, failed, pc, asked>>

Interrogate ==
  /\ handler = "interrogate"
  /\ IF terminal THEN Refused ELSE Send(status)
  /\ handler' = "idle" /\ UNCHANGED <<terminal, pc, asked>>

Service ==
  \/ Register \/ Starting \/ CreateStop \/ Startup \/ EndpointReady \/ LoopStops
  \/ Shutdown \/ Joining \/ Stopped

Handler == ControlStop \/ ControlSignal \/ Interrogate

Next == Service \/ LoopFails \/ Control \/ Handler

(* Both threads are scheduled; nothing makes the endpoint leave its loop but
   the stop event. *)
Spec == Init /\ [][Next]_vars /\ WF_vars(Service) /\ WF_vars(Handler)
-----------------------------------------------------------------------------
Rank(state) ==
  CASE state = None -> 0 [] state = "start" -> 1 [] state = "running" -> 2
    [] state = "stopping" -> 3 [] state = "stopped" -> 4

(* What the service control manager believes never runs ahead of the machine,
   and once ServiceMain has published the end no control handler publishes
   anything else; a stop is handled only where the event it signals exists,
   so that no stop is lost. *)
StatusTrue ==
  /\ Rank(scm) <= Rank(status.state)
  /\ terminal => status.state = "stopped"
  /\ handler \in {"stop", "signal"} => stop # None
  /\ pc = "returned" /\ scm # None /\ ~failed => scm = "stopped"

Heard == handler = "signal" \/ stop = TRUE
Ended == pc = "returned"

(* A stop that is handled, and a status that cannot be published once the
   endpoint runs, end the service. *)
StopHeard == Heard ~> Ended
=============================================================================

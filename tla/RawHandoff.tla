----------------------------- MODULE RawHandoff -----------------------------
(***************************************************************************)
(* The bounded handoff from collector callbacks to the one worker that     *)
(* normalizes and commits events (pipeline/raw_handoff.cpp), and the gap   *)
(* records the main loop writes for what the handoff refused or lost       *)
(* (main.cpp, emit_health).  Every submission is made once, by a callback. *)
(*                                                                         *)
(* worker is where the worker thread is; main where the main thread is: in *)
(* its loop, between the two halves of emit_health, or in the shutdown.    *)
(***************************************************************************)
EXTENDS ByteSums, Sequences

CONSTANTS
  Events, Charge,  \* decoded events and their capacity charge
  EventLimit,      \* 8192 in the code
  ByteLimit,       \* 64 MiB in the code
  None,            \* an empty slot, no item, no pending gap
  MaxFaults        \* bound: submissions that throw, gap records refused

ASSUME HandoffAssumption ==
  /\ IsFiniteSet(Events) /\ None \notin Events
  /\ EventLimit \in Nat \ {0} /\ ByteLimit \in Nat \ {0} /\ MaxFaults \in Nat
  /\ Charge \in [Events -> Nat]

VARIABLES ring, head, tail, queued, accepting, status,
          worker, item, main, sample, pendingGap, baseline,
          offered, finished, reported, late, faults

queueVars == <<ring, head, tail, queued, accepting, status>>
mainVars == <<main, sample, pendingGap, baseline, reported, late, faults>>
vars == <<queueVars, worker, item, mainVars, offered, finished>>

Slots == 0 .. EventLimit - 1
Zero == [refused |-> 0, failed |-> 0]

Init ==
  /\ ring = [i \in Slots |-> None] /\ head = 0 /\ tail = 0 /\ queued = 0
  /\ accepting = TRUE
  /\ status = [admitted |-> 0, completed |-> 0, failed |-> 0, refused |-> 0,
               owned |-> 0, charged |-> 0]
  /\ worker = "wait" /\ item = None
  /\ main = "loop" /\ sample = Zero /\ pendingGap = None /\ baseline = Zero
  /\ offered = {} /\ finished = <<>> /\ reported = Zero
  /\ late = FALSE /\ faults = 0

-----------------------------------------------------------------------------
(* try_submit, called by the collectors until they are stopped. *)

Collecting == main \in {"loop", "sampled"}

(* Mutant: dequeuing an event frees its capacity. *)
HasRoomQueued(e) ==
  accepting /\ queued < EventLimit /\ Charge[e] <= ByteLimit - status.charged

HasRoom(e) ==
  accepting /\ status.owned < EventLimit /\ Charge[e] <= ByteLimit - status.charged

Admit(e) ==
  /\ Collecting /\ e \notin offered /\ HasRoom(e)
  /\ ring' = [ring EXCEPT ![tail] = e]
  /\ tail' = (tail + 1) % EventLimit /\ queued' = queued + 1
  /\ status' = [status EXCEPT !.admitted = @ + 1, !.owned = @ + 1, !.charged = @ + Charge[e]]
  /\ offered' = offered \cup {e}
  /\ UNCHANGED <<head, accepting, worker, item, mainVars, finished>>

(* Either way the callback gets an error, and the source counts it. *)
Refuse(e) ==
  /\ Collecting /\ e \notin offered /\ ~HasRoom(e)
  /\ status' = [status EXCEPT !.refused = @ + 1]
  /\ offered' = offered \cup {e}
  /\ UNCHANGED <<ring, head, tail, queued, accepting, worker, item, mainVars, finished>>

(* The charge overflows or an allocation fails (exception_refused_). *)
SubmitThrows(e) ==
  /\ Collecting /\ e \notin offered /\ faults < MaxFaults
  /\ status' = [status EXCEPT !.refused = @ + 1]
  /\ offered' = offered \cup {e} /\ faults' = faults + 1
  /\ UNCHANGED <<ring, head, tail, queued, accepting, worker, item, main, sample, pendingGap,
                 baseline, reported, late, finished>>

-----------------------------------------------------------------------------
(* The worker. *)

(* Mutant: the slot is not released and the head stays. *)
DequeueStays ==
  /\ worker = "wait" /\ queued # 0
  /\ item' = ring[head] /\ queued' = queued - 1
  /\ worker' = "handle"
  /\ UNCHANGED <<ring, head, tail, accepting, status, mainVars, offered, finished>>

Dequeue ==
  /\ worker = "wait" /\ queued # 0
  /\ item' = ring[head] /\ ring' = [ring EXCEPT ![head] = None]
  /\ head' = (head + 1) % EventLimit /\ queued' = queued - 1
  /\ worker' = "handle"
  /\ UNCHANGED <<tail, accepting, status, mainVars, offered, finished>>

(* The handler returns or throws; either way the event's capacity is freed. *)
Complete(outcome) ==
  /\ worker = "handle"
  /\ status' = [status EXCEPT ![outcome] = @ + 1, !.owned = @ - 1, !.charged = @ - Charge[item]]
  /\ finished' = Append(finished, item)
  /\ item' = None /\ worker' = "wait"
  /\ UNCHANGED <<ring, head, tail, queued, accepting, mainVars, offered>>

(* Mutant: the worker leaves as soon as the handoff is closed. *)
WorkerExitsEarly ==
  /\ worker = "wait" /\ ~accepting
  /\ worker' = "exit"
  /\ UNCHANGED <<queueVars, item, mainVars, offered, finished>>

(* Mutant: closing does not end the wait for an event. *)
WorkerExitsLate ==
  /\ worker = "wait" /\ ~accepting /\ queued = 0 /\ offered = Events
  /\ worker' = "exit"
  /\ UNCHANGED <<queueVars, item, mainVars, offered, finished>>

WorkerExits ==
  /\ worker = "wait" /\ ~accepting /\ queued = 0
  /\ worker' = "exit"
  /\ UNCHANGED <<queueVars, item, mainVars, offered, finished>>

-----------------------------------------------------------------------------
(* The main thread.  emit_health reads the counters first and uses them     *)
(* after the rest of the health record is gathered.                         *)

Counters == [refused |-> status.refused, failed |-> status.failed]
Delta(a, b) == [refused |-> a.refused - b.refused, failed |-> a.failed - b.failed]
Sum2(a, b) == [refused |-> a.refused + b.refused, failed |-> a.failed + b.failed]
Grown(a, b) == a.refused > b.refused \/ a.failed > b.failed

SampleHealth ==
  /\ main \in {"loop", "drained", "last"}
  /\ sample' = Counters
  /\ main' = CASE main = "loop" -> "sampled" [] main = "drained" -> "resampled"
              [] main = "last" -> "last_sampled"
  /\ UNCHANGED <<queueVars, worker, item, pendingGap, baseline, reported, late, faults,
                 offered, finished>>

(* The gap to write: the one that waits for acceptance, or a new one. *)
Gap ==
  IF pendingGap # None THEN pendingGap
  ELSE IF Grown(sample, baseline)
       THEN [upto |-> sample, delta |-> Delta(sample, baseline)]
       ELSE None

Sampled == main \in {"sampled", "resampled", "last_sampled"}
AfterHealth ==
  main' = CASE main = "sampled" -> "loop" [] main = "resampled" -> "last"
            [] main = "last_sampled" -> "ended"

NoGap ==
  /\ Sampled /\ Gap = None
  /\ AfterHealth
  /\ UNCHANGED <<queueVars, worker, item, sample, pendingGap, baseline, reported, late, faults,
                 offered, finished>>

(* Mutant: the baseline moves to the counters of the latest sample. *)
GapAcceptedLatest ==
  /\ Sampled /\ Gap # None
  /\ reported' = Sum2(reported, Gap.delta)
  /\ pendingGap' = None /\ baseline' = sample
  /\ AfterHealth
  /\ UNCHANGED <<queueVars, worker, item, sample, late, faults, offered, finished>>

GapAccepted ==
  /\ Sampled /\ Gap # None
  /\ reported' = Sum2(reported, Gap.delta)
  /\ pendingGap' = None /\ baseline' = Gap.upto
  /\ AfterHealth
  /\ UNCHANGED <<queueVars, worker, item, sample, late, faults, offered, finished>>

GapRefused ==
  /\ Sampled /\ Gap # None
  /\ faults < MaxFaults /\ faults' = faults + 1
  /\ pendingGap' = Gap /\ late' = (main # "sampled")
  /\ AfterHealth
  /\ UNCHANGED <<queueVars, worker, item, sample, baseline, reported, offered, finished>>

(* Shutdown: the collectors stop, then the handoff closes and drains, then  *)
(* health is emitted twice more.                                            *)
StopCollectors ==
  /\ main = "loop" /\ main' = "stopping"
  /\ UNCHANGED <<queueVars, worker, item, sample, pendingGap, baseline, reported, late, faults,
                 offered, finished>>

Close ==
  /\ main = "stopping" /\ accepting' = FALSE /\ main' = "joining"
  /\ UNCHANGED <<ring, head, tail, queued, status, worker, item, sample, pendingGap, baseline,
                 reported, late, faults, offered, finished>>

Join ==
  /\ main = "joining" /\ worker = "exit" /\ main' = "drained"
  /\ UNCHANGED <<queueVars, worker, item, sample, pendingGap, baseline, reported, late, faults,
                 offered, finished>>

Ended == main = "ended" /\ UNCHANGED vars

WorkerStep == Dequeue \/ Complete("completed") \/ Complete("failed") \/ WorkerExits
MainStep ==
  SampleHealth \/ NoGap \/ GapAccepted \/ GapRefused \/ Close \/ Join

Next ==
  \/ \E e \in Events : Admit(e) \/ Refuse(e) \/ SubmitThrows(e)
  \/ WorkerStep \/ MainStep \/ StopCollectors \/ Ended

HandoffSafe == Init /\ [][Next]_vars

(* Both threads run, and the handler returns. *)
HandoffSpec == HandoffSafe /\ WF_vars(WorkerStep) /\ WF_vars(MainStep)

-----------------------------------------------------------------------------
(* Properties. *)

Queue == [i \in 1 .. queued |-> ring[(head + i - 1) % EventLimit]]
OwnedEvents == { Queue[i] : i \in DOMAIN Queue } \cup ({item} \ {None})

(* Every variable keeps its type. *)
HandoffTypeOK ==
  /\ ring \in [Slots -> Events \cup {None}]
  /\ head \in Slots /\ tail \in Slots /\ queued \in 0 .. EventLimit
  /\ accepting \in BOOLEAN /\ worker \in {"wait", "handle", "exit"}
  /\ status \in [admitted : Nat, completed : Nat, failed : Nat, refused : Nat,
                 owned : Nat, charged : Nat]
  /\ item \in Events \cup {None} /\ offered \subseteq Events

(* Ownership includes the event in hand (CALLBACK_HANDOFF.md): the counters *)
(* equal what the ring and the worker hold, within both limits, and every   *)
(* admitted event is owned, completed or failed.                            *)
OwnershipExact ==
  /\ HandoffTypeOK
  /\ status.owned = queued + (IF item = None THEN 0 ELSE 1)
  /\ status.owned <= EventLimit
  /\ status.charged = Sum(OwnedEvents, Charge)
  /\ status.charged <= ByteLimit
  /\ status.admitted = status.owned + status.completed + status.failed

(* "committed baselines advance only then" (CALLBACK_HANDOFF.md): the gaps  *)
(* the journal accepted add up to the baseline, so no refusal is reported   *)
(* twice and none is skipped.                                               *)
GapsAddUp ==
  /\ reported = baseline
  /\ pendingGap # None => Sum2(baseline, pendingGap.delta) = pendingGap.upto
  /\ baseline.refused <= status.refused /\ baseline.failed <= status.failed

(* The handoff implements BoundedQueue: the ring never overwrites, repeats  *)
(* or skips an event, and closing drains it.                                *)
Ring == INSTANCE BoundedQueue WITH
  Limit <- EventLimit, queue <- Queue, busy <- item, done <- finished,
  state <- IF accepting THEN "open" ELSE IF worker = "exit" THEN "closed" ELSE "shut"

QueueKept == Ring!Spec

(* After an orderly shutdown nothing is owned and, unless the journal       *)
(* refused a gap on the way out, every refusal and failure is on record     *)
(* (shutdown 3796-3812).                                                    *)
ShutdownAccounts ==
  main = "ended" => status.owned = 0 /\ (late \/ reported = Counters)

(* Closing never hangs, whatever the ring holds: the worker drains it. *)
ShutdownCompletes == main = "stopping" ~> main = "ended"
=============================================================================

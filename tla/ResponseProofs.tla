--------------------------- MODULE ResponseProofs ---------------------------
(***************************************************************************)
(* The invariant of the response thread, for the remaining actions, and    *)
(* what follows from it: one run per command, no lost and no contradicted  *)
(* result, and the implementation of CommandLife.                          *)
(***************************************************************************)
EXTENDS ResponseStepProofs, FiniteSetTheorems, TLAPS

-----------------------------------------------------------------------------
(* Retries, results and polled commands. *)

(* The retry commits what was held. *)
LEMMA RetryFinishKeeps == ASSUME ResponseInv, RetryFinish PROVE ResponseInv'
<1> USE ResponseAssumption DEF ResponseInv, RetryFinish, durable, worker, manager
<1>0. unsaved[1] \in Commands /\ unsaved[2] \in Outcomes
  BY DEF ResponseTypeOK
<1>1. ResponseTypeOK'
  BY <1>0 DEF ResponseTypeOK, Codes, Outcomes, Life!Outcomes, States, UnsavedInv
<1>2. AtMostOnce' /\ OutboxedKept'
  BY <1>0, SMTT(30) DEF AtMostOnce, OutboxedKept, Entries, ResponseTypeOK, InHand, CommandInv, UnsavedInv
<1>3. \A c \in Commands : CommandInv(c)'
  BY <1>0, SMTT(30)
  DEF CommandInv, Life!Honest, ResponseTypeOK, InHand, Outcomes, Life!Outcomes, UnsavedInv
<1>4. OutboxAgrees'
  <2> SUFFICES ASSUME NEW i \in DOMAIN outbox PROVE result'[outbox[i][1]] = outbox[i][2]
    BY DEF OutboxAgrees
  <2>1. outbox[i][1] \in Commands /\ outbox[i][2] # "none" /\ result[outbox[i][1]] = outbox[i][2]
    BY OutboxFacts DEF OutboxAgrees
  <2>2. result[unsaved[1]] = "none"
    BY <1>0 DEF CommandInv, InHand, UnsavedInv, ResponseTypeOK
  <2> QED BY <2>1, <2>2 DEF ResponseTypeOK
<1>5. TodoFresh'
  BY <1>0, SMTT(30) DEF TodoFresh, InHand, ResponseTypeOK, InboxRow, UnsavedInv
<1>6. InHand'
  BY <1>0 DEF InHand, Life!Honest, Outcomes, Life!Outcomes, ResponseTypeOK, UnsavedInv
<1>7. UnsavedInv'
  BY <1>0 DEF UnsavedInv, InHand, Life!Honest
<1> QED BY <1>1, <1>2, <1>3, <1>4, <1>5, <1>6, <1>7

(* The outbox lets go of what the Manager has. *)
LEMMA SubmitAcknowledgedKeeps == ASSUME ResponseInv, SubmitAcknowledged PROVE ResponseInv'
<1> USE ResponseAssumption DEF ResponseInv, SubmitAcknowledged, durable, worker, manager
<1>0. /\ 1 \in DOMAIN outbox /\ outbox[1][1] \in Commands /\ outbox[1][2] \in Outcomes
      /\ outbox[1] = <<outbox[1][1], outbox[1][2]>> /\ outbox[1][2] \in Codes
      /\ result[outbox[1][1]] = outbox[1][2]
  BY OutboxFacts DEF OutboxAgrees
<1>a. /\ outbox' \in Seq(Commands \X Outcomes)
      /\ \A i \in DOMAIN outbox' : i + 1 \in DOMAIN outbox /\ outbox'[i] = outbox[i + 1]
      /\ \A x \in Entries(outbox) : x = outbox[1] \/ x \in Entries(outbox')
  <2> DEFINE P == Commands \X Outcomes
  <2>1. outbox \in Seq(P) /\ outbox # <<>> /\ outbox' = Tail(outbox)
    BY DEF ResponseTypeOK
  <2> HIDE DEF P
  <2>2. /\ Tail(outbox) \in Seq(P)
        /\ \A i \in DOMAIN Tail(outbox) :
             i + 1 \in DOMAIN outbox /\ Tail(outbox)[i] = outbox[i + 1]
    BY <2>1, TailFacts
  <2>3. \A x \in { outbox[i] : i \in DOMAIN outbox } :
          x = outbox[1] \/ x \in { Tail(outbox)[i] : i \in DOMAIN Tail(outbox) }
    BY <2>1, TailFacts, Zenon
  <2> QED BY <2>1, <2>2, <2>3 DEF Entries, P
<1>1. ResponseTypeOK'
  BY <1>0, <1>a, SMTT(30) DEF ResponseTypeOK, Codes, Outcomes, Life!Outcomes, States, Recorded
<1>2. AtMostOnce' /\ OutboxedKept'
  <2>1. \A c \in Commands : <<c, result[c]>> = outbox[1] => answers'[c] = result[c]
    BY <1>0, SMTT(30) DEF Recorded, ResponseTypeOK
  <2>2. \A c \in Commands : answers[c] = result[c] => answers'[c] = result[c]
    BY <1>0 DEF Recorded, ResponseTypeOK
  <2> QED BY <1>a, <2>1, <2>2 DEF AtMostOnce, OutboxedKept
<1>3. \A c \in Commands : CommandInv(c)'
  BY <1>0, <1>a, SMTT(30)
  DEF CommandInv, Life!Honest, ResponseTypeOK, InHand, Outcomes, Life!Outcomes, Recorded
<1>4. OutboxAgrees'
  BY <1>a DEF OutboxAgrees
<1>5. TodoFresh' /\ InHand'
  <2>1. todo' = <<>> /\ pc' \in {"idle", "read", "flush", "poll", "receive"}
    BY DEF SubmitAcknowledged, InHand
  <2> QED BY <2>1, NothingInHand
<1>7. UnsavedInv'
  <2>1. pc # "idle" /\ unsaved' = unsaved
    BY DEF SubmitAcknowledged
  <2> QED BY <2>1, NothingUnsaved
<1> QED BY <1>1, <1>2, <1>3, <1>4, <1>5, <1>7

(* A lost answer leaves the copy in the outbox. *)
LEMMA SubmitUnacknowledgedKeeps == ASSUME ResponseInv, SubmitUnacknowledged PROVE ResponseInv'
<1> USE ResponseAssumption DEF ResponseInv, SubmitUnacknowledged, durable, worker, manager
<1>0. /\ 1 \in DOMAIN outbox /\ outbox[1][1] \in Commands /\ outbox[1][2] \in Outcomes
      /\ outbox[1] = <<outbox[1][1], outbox[1][2]>> /\ outbox[1][2] \in Codes
      /\ result[outbox[1][1]] = outbox[1][2]
  BY OutboxFacts DEF OutboxAgrees
<1>1. ResponseTypeOK'
  <2>1. answers' \in [Commands -> Codes]
    BY <1>0 DEF Recorded, ResponseTypeOK
  <2>2. sent' \in 0 .. ReadLimit
    BY DEF ResponseTypeOK, EndCycle
  <2> QED BY <2>1, <2>2 DEF ResponseTypeOK, Codes, EndCycle
<1>2. AtMostOnce' /\ OutboxedKept'
  BY <1>0, SMTT(30) DEF AtMostOnce, OutboxedKept, Entries, ResponseTypeOK, InHand, CommandInv, Recorded
<1>3. \A c \in Commands : CommandInv(c)'
  BY <1>0, SMTT(30) DEF CommandInv, Life!Honest, ResponseTypeOK, InHand, Outcomes, Life!Outcomes, Recorded
<1>4. OutboxAgrees'
  BY <1>0 DEF OutboxAgrees, ResponseTypeOK, CommandInv, InHand, Recorded
<1>5. TodoFresh' /\ InHand'
  <2>1. todo' = <<>> /\ pc' \in {"idle", "read", "flush", "poll", "receive"}
    BY DEF SubmitUnacknowledged, InHand
  <2> QED BY <2>1, NothingInHand
<1>7. UnsavedInv'
  <2>1. pc # "idle" /\ unsaved' = unsaved
    BY DEF SubmitUnacknowledged
  <2> QED BY <2>1, NothingUnsaved
<1> QED BY <1>1, <1>2, <1>3, <1>4, <1>5, <1>7

(* The Manager has the result and the outbox keeps its copy. *)
LEMMA SubmitThrowsKeeps == ASSUME ResponseInv, SubmitThrows PROVE ResponseInv'
<1> USE ResponseAssumption DEF ResponseInv, SubmitThrows, durable, worker, manager
<1>0. /\ 1 \in DOMAIN outbox /\ outbox[1][1] \in Commands /\ outbox[1][2] \in Outcomes
      /\ outbox[1] = <<outbox[1][1], outbox[1][2]>> /\ outbox[1][2] \in Codes
      /\ result[outbox[1][1]] = outbox[1][2]
  BY OutboxFacts DEF OutboxAgrees
<1>1. ResponseTypeOK'
  <2>1. answers' \in [Commands -> Codes]
    BY <1>0 DEF Recorded, ResponseTypeOK
  <2>2. sent' \in 0 .. ReadLimit /\ faults' \in 0 .. MaxFaults
    BY DEF ResponseTypeOK, EndCycle
  <2> QED BY <2>1, <2>2 DEF ResponseTypeOK, Codes, EndCycle
<1>2. AtMostOnce' /\ OutboxedKept'
  BY <1>0, SMTT(30)
  DEF AtMostOnce, OutboxedKept, Entries, ResponseTypeOK, InHand, CommandInv, Recorded,
      EndCycle
<1>3. \A c \in Commands : CommandInv(c)'
  BY <1>0, SMTT(30)
  DEF CommandInv, Life!Honest, ResponseTypeOK, InHand, Outcomes, Life!Outcomes, Recorded,
      EndCycle
<1>4. OutboxAgrees'
  BY <1>0 DEF OutboxAgrees, ResponseTypeOK, CommandInv, InHand, Recorded, EndCycle
<1>5. TodoFresh' /\ InHand'
  <2>1. todo' = <<>> /\ pc' \in {"idle", "read", "flush", "poll", "receive"}
    BY DEF SubmitThrows, EndCycle, InHand
  <2> QED BY <2>1, NothingInHand
<1>7. UnsavedInv'
  <2>1. pc # "idle" /\ unsaved' = unsaved
    BY DEF SubmitThrows, EndCycle
  <2> QED BY <2>1, NothingUnsaved
<1> QED BY <1>1, <1>2, <1>3, <1>4, <1>5, <1>7

(* A new row starts without a result or a run. *)
LEMMA ReceiveCommandKeeps == ASSUME ResponseInv, ReceiveCommand PROVE ResponseInv'
<1> USE ResponseAssumption DEF ResponseInv, ReceiveCommand, durable, worker, manager
<1>0. Head(arrived) \in Commands /\ arrived' \in Seq(Commands)
  BY TailFacts, SMTT(30) DEF ResponseTypeOK
<1>a. Cardinality(Rows) \in Nat
  BY FS_Subset, FS_CardinalityType DEF Rows
<1>1. ResponseTypeOK'
  <2>1. inbox' \in [Commands -> States]
    BY <1>0 DEF ResponseTypeOK, States
  <2>2. rowid' \in [Commands -> Nat]
    <3> DEFINE n == Cardinality(Rows) + 1
    <3>1. n \in Nat
      BY <1>a
    <3>2. rowid' = rowid \/ rowid' = [rowid EXCEPT ![Head(arrived)] = n]
      OBVIOUS
    <3> HIDE DEF n
    <3> QED BY <1>0, <3>1, <3>2 DEF ResponseTypeOK
  <2> QED BY <1>0, <2>1, <2>2 DEF ResponseTypeOK
<1>2. AtMostOnce' /\ OutboxedKept'
  <2>1. \A c \in Commands : inbox'[c] = "outboxed" => inbox[c] = "outboxed"
    BY <1>0 DEF ResponseTypeOK
  <2> QED BY <2>1 DEF AtMostOnce, OutboxedKept
<1>3. \A c \in Commands : CommandInv(c)'
  BY <1>0, SMTT(30) DEF CommandInv, Life!Honest, ResponseTypeOK, InHand, Outcomes, Life!Outcomes, Rows
<1>4. OutboxAgrees'
  BY <1>0 DEF OutboxAgrees, ResponseTypeOK, CommandInv, InHand, Rows
<1>5. TodoFresh' /\ InHand'
  <2>1. todo' = <<>> /\ pc' \in {"idle", "read", "flush", "poll", "receive"}
    BY DEF ReceiveCommand, InHand
  <2> QED BY <2>1, NothingInHand
<1>7. UnsavedInv'
  <2>1. pc # "idle" /\ unsaved' = unsaved
    BY DEF ReceiveCommand
  <2> QED BY <2>1, NothingUnsaved
<1> QED BY <1>1, <1>2, <1>3, <1>4, <1>5, <1>7

(* Polled commands are only held in memory. *)
LEMMA PollKeeps == ASSUME ResponseInv, Poll PROVE ResponseInv'
<1>1. AtMostOnce' /\ OutboxedKept' /\ OutboxAgrees' /\ (\A c \in Commands : CommandInv(c)')
  <2>1. UNCHANGED <<inbox, result, outbox, manifest, answers, performed>>
    BY DEF Poll, durable, manager
  <2> QED BY <2>1, Frame
<1>2. ResponseTypeOK'
  <2>1. PICK s \in Lists : arrived' = s
    BY DEF Poll
  <2>2. PICK n \in 0 .. ReadLimit : s \in [1 .. n -> Commands]
    BY DEF Lists
  <2>3. n \in Nat
    BY ResponseAssumption
  <2>4. s \in Seq(Commands)
    BY <2>2, <2>3
  <2>5. /\ UNCHANGED <<inbox, rowid, result, outbox, manifest, pass, todo, receipt, unsaved, sent>>
        /\ UNCHANGED <<seen, accepted, answers, expired, performed, faults>> /\ pc' = "receive"
    BY DEF Poll, durable, manager
  <2> QED BY <2>1, <2>4, <2>5 DEF ResponseInv, ResponseTypeOK
<1>3. TodoFresh' /\ InHand'
  <2>1. todo' = <<>> /\ pc' \in {"idle", "read", "flush", "poll", "receive"}
    BY DEF Poll, ResponseInv, InHand
  <2> QED BY <2>1, NothingInHand
<1>4. UnsavedInv'
  <2>1. (pc # "idle" \/ unsaved = <<>>) /\ unsaved' = unsaved
    BY DEF Poll
  <2> QED BY <2>1, NothingUnsaved
<1> QED BY <1>1, <1>2, <1>3, <1>4 DEF ResponseInv

(* The list read from the inbox is fresh. *)
LEMMA ReadInboxKeeps == ASSUME ResponseInv, ReadInbox PROVE ResponseInv'
<1>f. AtMostOnce' /\ OutboxedKept' /\ OutboxAgrees' /\ (\A c \in Commands : CommandInv(c)')
  <2>1. UNCHANGED <<inbox, result, outbox, manifest, answers, performed>>
    BY DEF ReadInbox, durable, manager
  <2> QED BY <2>1, Frame
<1> USE ResponseAssumption DEF ResponseInv, ReadInbox, durable, worker, manager
<1>0. PICK s \in Lists :
        /\ IsPendingList(s)
        /\ todo' = [i \in DOMAIN s |-> [id |-> s[i], state |-> inbox[s[i]]]]
  OBVIOUS
<1>a. PICK n \in 0 .. ReadLimit : s \in [1 .. n -> Commands]
  BY DEF Lists
<1>b. DOMAIN todo' = 1 .. n /\ n \in Nat
  BY <1>0, <1>a
<1>c. \A i \in 1 .. n : /\ todo'[i] \in InboxRow /\ todo'[i].id = s[i]
                        /\ todo'[i].state = inbox[s[i]]
  BY <1>0, <1>a DEF InboxRow, ResponseTypeOK
<1>1. ResponseTypeOK'
  <2>1. todo' \in Seq(InboxRow)
    BY <1>0, <1>a, <1>b, <1>c
  <2> QED BY <2>1 DEF ResponseTypeOK
<1>5. TodoFresh'
  <2>0. /\ DOMAIN s = 1 .. n /\ \A i \in 1 .. n : s[i] \in Commands /\ rowid[s[i]] \in Nat
        /\ \A i, j \in 1 .. n : i < j => rowid[s[i]] < rowid[s[j]]
        /\ \A i \in 1 .. n : s[i] \in { c \in Commands : Open(c) }
    BY <1>0, <1>a DEF IsPendingList, Entries, ResponseTypeOK
  <2>1. \A i, j \in 1 .. n : s[i] = s[j] => i = j
    BY <2>0, <1>b, SMTT(30)
  <2>2. \A i \in 1 .. n : inbox[s[i]] \in {"received", "executing", "result_ready"}
    BY <2>0, SMTT(30) DEF Open, ResponseTypeOK, States
  <2>3. \A i, j \in DOMAIN todo' : todo'[i].id = todo'[j].id => i = j
    BY <1>b, <1>c, <2>1, SMTT(30)
  <2>4. \A i \in DOMAIN todo' : /\ todo'[i].state \in {"received", "executing", "result_ready"}
                                 /\ inbox'[todo'[i].id] = todo'[i].state
    BY <1>b, <1>c, <2>2
  <2> QED BY <2>3, <2>4 DEF TodoFresh
<1>6. InHand'
  BY DEF InHand
<1>7. UnsavedInv'
  <2>1. pc # "idle" /\ unsaved' = unsaved
    OBVIOUS
  <2> QED BY <2>1, NothingUnsaved
<1> QED BY <1>1, <1>f, <1>5, <1>6, <1>7

(* Time only adds to the expired commands. *)
LEMMA ExpireKeeps == ASSUME ResponseInv, NEW c \in Commands, Expire(c) PROVE ResponseInv'
<1>1. /\ UNCHANGED <<inbox, result, outbox, manifest, answers, performed>>
      /\ UNCHANGED <<rowid, pc, pass, todo, arrived, receipt, unsaved, sent, seen, accepted, faults>>
      /\ expired' = expired \cup {c}
  BY DEF Expire, durable, worker, manager
<1>2. AtMostOnce' /\ OutboxedKept' /\ OutboxAgrees' /\ (\A d \in Commands : CommandInv(d)')
  BY <1>1, Frame
<1>3. ResponseTypeOK'
  BY <1>1 DEF ResponseInv, ResponseTypeOK
<1>4. TodoFresh'
  BY <1>1 DEF ResponseInv, TodoFresh
<1>5. InHand'
  BY <1>1 DEF ResponseInv, InHand, Current, Entries, Life!Honest
<1>6. UnsavedInv'
  BY <1>1 DEF ResponseInv, UnsavedInv, Life!Honest
<1> QED BY <1>2, <1>3, <1>4, <1>5, <1>6 DEF ResponseInv

(* Nothing is known, in hand or said at the start. *)
LEMMA InitKeeps == Init => ResponseInv
<1> SUFFICES ASSUME Init PROVE ResponseInv
  OBVIOUS
<1>1. ResponseTypeOK
  BY ResponseAssumption DEF Init, ResponseTypeOK, States, Codes
<1>2. AtMostOnce /\ OutboxedKept /\ OutboxAgrees /\ \A c \in Commands : CommandInv(c)
  BY SMTT(30) DEF Init, AtMostOnce, OutboxedKept, OutboxAgrees, CommandInv, Life!Honest
<1>3. TodoFresh /\ InHand /\ UnsavedInv
  BY SMTT(30) DEF Init, TodoFresh, InHand, UnsavedInv
<1> QED BY <1>1, <1>2, <1>3 DEF ResponseInv

-----------------------------------------------------------------------------
(* Theorems. *)

(* Every step of the thread, every fault and every tick keeps ResponseInv. *)
LEMMA NextKeeps == ResponseInv /\ [Next]_vars => ResponseInv'
<1> SUFFICES ASSUME ResponseInv, [Next]_vars PROVE ResponseInv'
  OBVIOUS
<1>1. CASE Step
  BY <1>1, RetryFinishKeeps, StartCycleKeeps, ReadInboxKeeps, EndLoopKeeps, ResumeResultKeeps,
     RecoverIntentKeeps, BeginCommandKeeps, GateKeeps, AcceptKeeps, DispatchExpiredKeeps,
     DispatchRefusedKeeps, PerformKeeps, EndAcquireKeeps, FinishCommandKeeps, SaveResultKeeps,
     MarkOutboxedKeeps, EndFlushKeeps, SubmitAcknowledgedKeeps, SubmitUnacknowledgedKeeps,
     PollFailsKeeps, PollKeeps, ReceiveCommandKeeps, ReceiveRefusedKeeps, SecondPassKeeps
  DEF Step
<1>2. CASE FinishThrows \/ SubmitThrows \/ CycleThrows \/ Crash
  BY <1>2, FinishThrowsKeeps, SubmitThrowsKeeps, CycleThrowsKeeps, CrashKeeps
<1>3. CASE \E c \in Commands : Expire(c)
  BY <1>3, ExpireKeeps
<1>4. CASE UNCHANGED vars
  BY <1>4
  DEF ResponseInv, ResponseTypeOK, AtMostOnce, OutboxedKept, CommandInv, OutboxAgrees, TodoFresh,
      InHand, UnsavedInv, Current, Stored, vars, durable, worker, manager
<1> QED BY <1>1, <1>2, <1>3, <1>4 DEF Next

(* The invariant of the response thread, for every set of commands, every   *)
(* read limit and any number of crashes and exceptions.                     *)
THEOREM ResponseInvariant == ResponseSafe => []ResponseInv
BY InitKeeps, NextKeeps, PTL DEF ResponseSafe

(* No command's action runs twice. *)
THEOREM OnceTheorem == ResponseSafe => []AtMostOnce
<1>1. ResponseInv => AtMostOnce
  BY DEF ResponseInv
<1> QED BY <1>1, ResponseInvariant, PTL

(* A result is given up by the inbox only when it is safe elsewhere. *)
THEOREM OutboxedTheorem == ResponseSafe => []OutboxedKept
<1>1. ResponseInv => OutboxedKept
  BY DEF ResponseInv
<1> QED BY <1>1, ResponseInvariant, PTL

(* The Manager never has to refuse a result for contradicting another. *)
THEOREM NoCollisionTheorem == ResponseSafe => []NoCollision
<1>1. ResponseInv => NoCollision
  <2> SUFFICES ASSUME ResponseInv, NEW i \in DOMAIN outbox
               PROVE  answers[outbox[i][1]] \in {"none", outbox[i][2]}
    BY DEF NoCollision
  <2>1. outbox[i][1] \in Commands
    BY OutboxFacts DEF ResponseInv
  <2> QED BY <2>1 DEF ResponseInv, OutboxAgrees, CommandInv
<1> QED BY <1>1, ResponseInvariant, PTL

(* No action runs while a result is held only in memory: a result is held   *)
(* between cycles only.                                                     *)
THEOREM UnsavedTheorem == ResponseSafe => NoActionWhileUnsaved
<1>1. ResponseInv /\ [Next]_vars => [performed' # performed => unsaved = <<>>]_vars
  <2> SUFFICES ASSUME ResponseInv, Next, performed' # performed PROVE unsaved = <<>>
    BY DEF vars
  <2>1. Perform
    BY DEF Next, Step, RetryFinish, StartCycle, ReadInbox, EndLoop, ResumeResult, RecoverIntent,
       BeginCommand, Gate, Accept, DispatchExpired, DispatchRefused, EndAcquire, FinishCommand,
       SaveResult, MarkOutboxed, EndFlush, SubmitAcknowledged, SubmitUnacknowledged, PollFails,
       Poll, ReceiveCommand, ReceiveRefused, SecondPass, FinishThrows, SubmitThrows, CycleThrows,
       Crash, Expire
  <2> QED BY <2>1 DEF Perform, ResponseInv, UnsavedInv
<1> QED BY <1>1, ResponseInvariant, PTL DEF ResponseSafe, NoActionWhileUnsaved

-----------------------------------------------------------------------------
(* The refinement. *)

(* Perform is the one run of an unanswered command. *)
LEMMA PerformRuns == ASSUME ResponseInv, Perform PROVE \E c \in Commands : Life!Run(c)
<1>1. Current \in Commands /\ performed[Current] = 0 /\ inbox[Current] = "executing"
  BY CurrentFacts DEF ResponseInv, InHand, Perform
<1>2. answers[Current] = "none"
  BY <1>1 DEF ResponseInv, CommandInv
<1>3. performed' = [performed EXCEPT ![Current] = 1] /\ UNCHANGED answers
  BY <1>1 DEF Perform, manager, ResponseInv, ResponseTypeOK
<1> QED BY <1>1, <1>2, <1>3 DEF Life!Run

(* A submitted result answers its command, or is the answer it has. *)
LEMMA SubmitAnswers ==
  ASSUME ResponseInv, outbox # <<>>, answers' = Recorded, UNCHANGED performed
  PROVE  UNCHANGED answers \/ \E c \in Commands, code \in Life!Outcomes : Life!Answer(c, code)
<1> DEFINE c == outbox[1][1]  code == outbox[1][2]
<1>1. c \in Commands /\ code \in Life!Outcomes /\ result[c] = code
  BY OutboxFacts DEF ResponseInv, OutboxAgrees, Outcomes
<1>2. Life!Honest(code, performed[c]) /\ answers[c] \in {"none", code}
  BY <1>1 DEF ResponseInv, CommandInv
<1>3. answers' = [answers EXCEPT ![c] = code] /\ answers \in [Commands -> Codes]
  BY DEF Recorded, ResponseInv, ResponseTypeOK
<1>4. CASE answers[c] = code
  BY <1>1, <1>3, <1>4
<1>5. CASE answers[c] = "none"
  BY <1>1, <1>2, <1>3, <1>5 DEF Life!Answer
<1> QED BY <1>2, <1>4, <1>5

(* Every step is a step of CommandLife or changes nothing it can see. *)
LEMMA StepIsLife == ResponseInv /\ [Next]_vars => [Life!Next]_(Life!vars)
<1> SUFFICES ASSUME ResponseInv, [Next]_vars PROVE [Life!Next]_(Life!vars)
  OBVIOUS
<1>1. CASE Perform
  BY <1>1, PerformRuns DEF Life!Next
<1>2. CASE SubmitAcknowledged \/ SubmitUnacknowledged \/ SubmitThrows
  <2>1. outbox # <<>> /\ UNCHANGED performed /\ (UNCHANGED answers \/ answers' = Recorded)
    BY <1>2 DEF SubmitAcknowledged, SubmitUnacknowledged, SubmitThrows
  <2> QED BY <2>1, SubmitAnswers DEF Life!Next, Life!vars
<1>3. CASE ~(Perform \/ SubmitAcknowledged \/ SubmitUnacknowledged \/ SubmitThrows)
  <2>1. UNCHANGED <<performed, answers>>
    BY <1>3 DEF Next, Step, RetryFinish, StartCycle, ReadInbox, EndLoop, ResumeResult,
       RecoverIntent, BeginCommand, Gate, Accept, DispatchExpired, DispatchRefused, EndAcquire,
       FinishCommand, SaveResult, MarkOutboxed, EndFlush, PollFails, Poll, ReceiveCommand,
       ReceiveRefused, SecondPass, FinishThrows, CycleThrows, Crash, Expire, vars, manager
  <2> QED BY <2>1 DEF Life!vars
<1> QED BY <1>1, <1>2, <1>3

(* The response path implements CommandLife. *)
THEOREM LifeTheorem == ResponseSafe => LifeKept
<1>1. Init => Life!Init
  BY DEF Init, Life!Init
<1> QED BY <1>1, StepIsLife, ResponseInvariant, PTL DEF ResponseSafe, LifeKept, Life!Spec
=============================================================================

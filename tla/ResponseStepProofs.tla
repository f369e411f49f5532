------------------------ MODULE ResponseStepProofs -------------------------
(***************************************************************************)
(* The invariant of the response thread, for the actions that leave the    *)
(* tables alone and for those that take a row from its intent to the mark  *)
(* that ends it.                                                           *)
(***************************************************************************)
EXTENDS Response, FiniteSetTheorems, TLAPS

-----------------------------------------------------------------------------
(* Facts about the lists the thread works through. *)

(* The elements of a list. *)
LEMMA SeqFacts ==
  ASSUME NEW S, NEW s \in Seq(S)
  PROVE  /\ Len(s) \in Nat /\ DOMAIN s = 1 .. Len(s)
         /\ \A i \in DOMAIN s : s[i] \in S
         /\ s # <<>> => 1 \in DOMAIN s
OBVIOUS

(* The row in hand is a row. *)
LEMMA CurrentFacts ==
  ASSUME ResponseTypeOK, todo # <<>>
  PROVE  /\ 1 \in DOMAIN todo /\ Len(todo) \in Nat /\ DOMAIN todo = 1 .. Len(todo)
         /\ Current \in Commands /\ Stored \in States
<1>1. todo \in Seq(InboxRow)
  BY DEF ResponseTypeOK
<1>2. 1 \in DOMAIN todo /\ Len(todo) \in Nat /\ DOMAIN todo = 1 .. Len(todo)
      /\ todo[1] \in InboxRow
  BY <1>1, SeqFacts
<1> QED BY <1>2 DEF Current, Stored, InboxRow

(* The tail of a list holds its later elements, one place earlier. *)
LEMMA TailFacts ==
  ASSUME NEW S, NEW s \in Seq(S), s # <<>>
  PROVE  /\ s[1] \in S /\ Tail(s) \in Seq(S)
         /\ \A i \in DOMAIN Tail(s) : i \in Nat /\ i + 1 \in DOMAIN s /\ i + 1 > 1
                                      /\ Tail(s)[i] = s[i + 1]
         /\ \A x \in { s[i] : i \in DOMAIN s } :
              x = s[1] \/ x \in { Tail(s)[i] : i \in DOMAIN Tail(s) }
<1>1. s[1] \in S /\ Tail(s) \in Seq(S) /\ Len(s) \in Nat /\ Len(Tail(s)) = Len(s) - 1
      /\ DOMAIN s = 1 .. Len(s) /\ DOMAIN Tail(s) = 1 .. Len(s) - 1
  OBVIOUS
<1>2. \A i \in DOMAIN Tail(s) : i \in Nat /\ i + 1 \in DOMAIN s /\ i + 1 > 1
                                /\ Tail(s)[i] = s[i + 1]
  BY <1>1
<1>3. ASSUME NEW k \in DOMAIN s, k # 1
      PROVE  k - 1 \in DOMAIN Tail(s) /\ Tail(s)[k - 1] = s[k]
  BY <1>1, <1>3
<1>4. \A x \in { s[i] : i \in DOMAIN s } :
        x = s[1] \/ x \in { Tail(s)[i] : i \in DOMAIN Tail(s) }
  BY <1>3
<1> QED BY <1>1, <1>2, <1>4

(* The copies in the outbox are results of commands. *)
LEMMA OutboxFacts ==
  ASSUME ResponseTypeOK
  PROVE  /\ \A i \in DOMAIN outbox :
              /\ outbox[i] = <<outbox[i][1], outbox[i][2]>>
              /\ outbox[i][1] \in Commands /\ outbox[i][2] \in Outcomes
         /\ outbox # <<>> => 1 \in DOMAIN outbox
         /\ \A code \in Outcomes : code \in Codes /\ code # "none"
<1>1. outbox \in Seq(Commands \X Outcomes)
  BY DEF ResponseTypeOK
<1>2. (\A i \in DOMAIN outbox : outbox[i] \in Commands \X Outcomes)
      /\ (outbox # <<>> => 1 \in DOMAIN outbox)
  BY <1>1, SeqFacts
<1> QED BY <1>2 DEF Codes, Outcomes, Life!Outcomes

(* An appended element is the only new one. *)
LEMMA AppendFacts ==
  ASSUME NEW S, NEW s \in Seq(S), NEW e \in S
  PROVE  /\ Append(s, e) \in Seq(S)
         /\ Entries(Append(s, e)) = Entries(s) \cup {e}
         /\ \A i \in DOMAIN Append(s, e) : Append(s, e)[i] = e \/ (i \in DOMAIN s /\ Append(s, e)[i] = s[i])
<1>1. Append(s, e) \in Seq(S) /\ Len(s) \in Nat /\ DOMAIN s = 1 .. Len(s)
      /\ DOMAIN Append(s, e) = 1 .. Len(s) + 1 /\ Append(s, e)[Len(s) + 1] = e
      /\ \A i \in 1 .. Len(s) : Append(s, e)[i] = s[i]
  OBVIOUS
<1>2. \A i \in DOMAIN Append(s, e) : i = Len(s) + 1 \/ i \in DOMAIN s
  BY <1>1
<1>3. DOMAIN s \subseteq DOMAIN Append(s, e) /\ Len(s) + 1 \in DOMAIN Append(s, e)
  BY <1>1
<1>4. \A i \in DOMAIN Append(s, e) :
        Append(s, e)[i] = e \/ (i \in DOMAIN s /\ Append(s, e)[i] = s[i])
  BY <1>1, <1>2
<1>5. \A i \in DOMAIN s : Append(s, e)[i] = s[i]
  BY <1>1
<1>6. Entries(Append(s, e)) = Entries(s) \cup {e}
  BY <1>1, <1>3, <1>4, <1>5, Zenon DEF Entries
<1> QED BY <1>1, <1>4, <1>6

(* The rest of the list is fresh once the row in hand is dropped. *)
LEMMA DropCurrent ==
  ASSUME ResponseTypeOK, TodoFresh, todo # <<>>,
         NEW rest, rest = Tail(todo), NEW box \in [Commands -> States],
         \A c \in Commands \ {Current} : box[c] = inbox[c]
  PROVE  /\ rest \in Seq(InboxRow)
         /\ \A i, j \in DOMAIN rest : rest[i].id = rest[j].id => i = j
         /\ \A i \in DOMAIN rest :
              /\ rest[i].state \in {"received", "executing", "result_ready"}
              /\ box[rest[i].id] = rest[i].state
<1>1. todo \in Seq(InboxRow)
  BY DEF ResponseTypeOK
<1>2. /\ rest \in Seq(InboxRow)
      /\ \A i \in DOMAIN rest : i \in Nat /\ i + 1 \in DOMAIN todo /\ i + 1 > 1
                                /\ rest[i] = todo[i + 1]
  BY <1>1, TailFacts
<1>3. ASSUME NEW i \in DOMAIN rest
      PROVE  /\ rest[i].id \in Commands /\ rest[i].id # Current
             /\ rest[i].state \in {"received", "executing", "result_ready"}
             /\ inbox[rest[i].id] = rest[i].state
  <2>1. i \in Nat /\ i + 1 \in DOMAIN todo /\ i + 1 > 1 /\ i + 1 # 1 /\ rest[i] = todo[i + 1]
    BY <1>2
  <2>2. todo[i + 1].id \in Commands
    <3>1. todo[i + 1] \in InboxRow
      BY <1>1, <2>1, SeqFacts
    <3> QED BY <3>1 DEF InboxRow
  <2>3. 1 \in DOMAIN todo
    BY CurrentFacts
  <2> QED BY <2>1, <2>2, <2>3 DEF TodoFresh, Current
<1>4. ASSUME NEW i \in DOMAIN rest, NEW j \in DOMAIN rest, rest[i].id = rest[j].id
      PROVE  i = j
  <2>1. i + 1 = j + 1
    BY <1>2, <1>4 DEF TodoFresh
  <2> QED BY <2>1, <1>2
<1> QED BY <1>2, <1>3, <1>4

(* What is durable, said and done decides the rest of the invariant: a step *)
(* that leaves it alone keeps those conjuncts.                              *)
LEMMA Frame ==
  ASSUME ResponseInv, UNCHANGED <<inbox, result, outbox, manifest, answers, performed>>
  PROVE  AtMostOnce' /\ OutboxedKept' /\ OutboxAgrees' /\ (\A c \in Commands : CommandInv(c)')
<1>1. AtMostOnce'
  BY DEF ResponseInv, AtMostOnce
<1>2. OutboxedKept'
  BY DEF ResponseInv, OutboxedKept, Entries
<1>3. OutboxAgrees'
  BY DEF ResponseInv, OutboxAgrees
<1>4. \A c \in Commands : CommandInv(c)'
  BY DEF ResponseInv, CommandInv, Life!Honest
<1> QED BY <1>1, <1>2, <1>3, <1>4

(* Between rows nothing is in hand. *)
LEMMA NothingInHand ==
  ASSUME todo' = <<>>, pc' \in {"idle", "read", "flush", "poll", "receive"}
  PROVE  TodoFresh' /\ InHand'
<1>1. TodoFresh'
  BY DEF TodoFresh
<1>2. InHand'
  BY DEF InHand
<1> QED BY <1>1, <1>2

(* While a cycle runs no result is held in memory. *)
LEMMA NothingUnsaved ==
  ASSUME ResponseInv, pc # "idle" \/ unsaved = <<>>, unsaved' = unsaved
  PROVE  unsaved = <<>> /\ UnsavedInv'
<1>1. unsaved = <<>>
  BY DEF ResponseInv, UnsavedInv
<1> QED BY <1>1 DEF UnsavedInv

-----------------------------------------------------------------------------
(* Actions that leave the tables alone. *)

(* A cycle starts only when no result is held in memory. *)
LEMMA StartCycleKeeps == ASSUME ResponseInv, StartCycle PROVE ResponseInv'
<1>1. AtMostOnce' /\ OutboxedKept' /\ OutboxAgrees' /\ (\A c \in Commands : CommandInv(c)')
  <2>1. UNCHANGED <<inbox, result, outbox, manifest, answers, performed>>
    BY DEF StartCycle, durable, manager
  <2> QED BY <2>1, Frame
<1>2. ResponseTypeOK'
  BY ResponseAssumption DEF ResponseInv, ResponseTypeOK, Codes, StartCycle, durable, worker, manager
<1>3. TodoFresh' /\ InHand'
  <2>1. todo' = <<>> /\ pc' \in {"idle", "read", "flush", "poll", "receive"}
    BY DEF StartCycle, ResponseInv, InHand
  <2> QED BY <2>1, NothingInHand
<1>4. UnsavedInv'
  <2>1. (pc # "idle" \/ unsaved = <<>>) /\ unsaved' = unsaved
    BY DEF StartCycle
  <2> QED BY <2>1, NothingUnsaved
<1> QED BY <1>1, <1>2, <1>3, <1>4 DEF ResponseInv

(* A row read as result_ready still is. *)
LEMMA ResumeResultKeeps == ResponseInv /\ ResumeResult => ResponseInv'
BY ResponseAssumption, SMTT(30)
DEF ResponseInv, ResponseTypeOK, AtMostOnce, OutboxedKept, CommandInv, OutboxAgrees, TodoFresh,
     InHand, UnsavedInv, ResumeResult, Current, Stored, Entries,
    Codes, Outcomes, Life!Outcomes, Life!Honest, States, durable, worker, manager

(* An expired command was not performed, so rejecting it is honest. *)
LEMMA DispatchExpiredKeeps == ResponseInv /\ DispatchExpired => ResponseInv'
BY ResponseAssumption, SMTT(30)
DEF ResponseInv, ResponseTypeOK, AtMostOnce, OutboxedKept, CommandInv, OutboxAgrees, TodoFresh,
     InHand, UnsavedInv, DispatchExpired, Conclude, Current, Stored, Entries,
    Codes, Outcomes, Life!Outcomes, Life!Honest, States, durable, worker, manager

(* A refused command was not performed. *)
LEMMA DispatchRefusedKeeps == ResponseInv /\ DispatchRefused => ResponseInv'
BY ResponseAssumption, SMTT(30)
DEF ResponseInv, ResponseTypeOK, AtMostOnce, OutboxedKept, CommandInv, OutboxAgrees, TodoFresh,
     InHand, UnsavedInv, DispatchRefused, Conclude, Current, Stored, Entries,
    Codes, Outcomes, Life!Outcomes, Life!Honest, States, durable, worker, manager

(* Nothing is in hand between the passes. *)
LEMMA EndFlushKeeps == ASSUME ResponseInv, EndFlush PROVE ResponseInv'
<1>1. AtMostOnce' /\ OutboxedKept' /\ OutboxAgrees' /\ (\A c \in Commands : CommandInv(c)')
  <2>1. UNCHANGED <<inbox, result, outbox, manifest, answers, performed>>
    BY DEF EndFlush, durable, manager
  <2> QED BY <2>1, Frame
<1>2. ResponseTypeOK'
  BY ResponseAssumption DEF ResponseInv, ResponseTypeOK, Codes, EndFlush, durable, worker, manager
<1>3. TodoFresh' /\ InHand'
  <2>1. todo' = <<>> /\ pc' \in {"idle", "read", "flush", "poll", "receive"}
    BY DEF EndFlush, ResponseInv, InHand
  <2> QED BY <2>1, NothingInHand
<1>4. UnsavedInv'
  <2>1. (pc # "idle" \/ unsaved = <<>>) /\ unsaved' = unsaved
    BY DEF EndFlush
  <2> QED BY <2>1, NothingUnsaved
<1> QED BY <1>1, <1>2, <1>3, <1>4 DEF ResponseInv

(* A failed poll ends the cycle. *)
LEMMA PollFailsKeeps == ASSUME ResponseInv, PollFails PROVE ResponseInv'
<1>1. AtMostOnce' /\ OutboxedKept' /\ OutboxAgrees' /\ (\A c \in Commands : CommandInv(c)')
  <2>1. UNCHANGED <<inbox, result, outbox, manifest, answers, performed>>
    BY DEF PollFails, EndCycle, durable, manager
  <2> QED BY <2>1, Frame
<1>2. ResponseTypeOK'
  BY ResponseAssumption DEF ResponseInv, ResponseTypeOK, Codes, PollFails, EndCycle, durable, worker, manager
<1>3. TodoFresh' /\ InHand'
  <2>1. todo' = <<>> /\ pc' \in {"idle", "read", "flush", "poll", "receive"}
    BY DEF PollFails, EndCycle, ResponseInv, InHand
  <2> QED BY <2>1, NothingInHand
<1>4. UnsavedInv'
  <2>1. (pc # "idle" \/ unsaved = <<>>) /\ unsaved' = unsaved
    BY DEF PollFails, EndCycle
  <2> QED BY <2>1, NothingUnsaved
<1> QED BY <1>1, <1>2, <1>3, <1>4 DEF ResponseInv

(* A full inbox ends the cycle. *)
LEMMA ReceiveRefusedKeeps == ASSUME ResponseInv, ReceiveRefused PROVE ResponseInv'
<1>1. AtMostOnce' /\ OutboxedKept' /\ OutboxAgrees' /\ (\A c \in Commands : CommandInv(c)')
  <2>1. UNCHANGED <<inbox, result, outbox, manifest, answers, performed>>
    BY DEF ReceiveRefused, EndCycle, durable, manager
  <2> QED BY <2>1, Frame
<1>2. ResponseTypeOK'
  BY ResponseAssumption DEF ResponseInv, ResponseTypeOK, Codes, ReceiveRefused, EndCycle, durable, worker, manager
<1>3. TodoFresh' /\ InHand'
  <2>1. todo' = <<>> /\ pc' \in {"idle", "read", "flush", "poll", "receive"}
    BY DEF ReceiveRefused, EndCycle, ResponseInv, InHand
  <2> QED BY <2>1, NothingInHand
<1>4. UnsavedInv'
  <2>1. (pc # "idle" \/ unsaved = <<>>) /\ unsaved' = unsaved
    BY DEF ReceiveRefused, EndCycle
  <2> QED BY <2>1, NothingUnsaved
<1> QED BY <1>1, <1>2, <1>3, <1>4 DEF ResponseInv

(* The second pass starts with nothing in hand. *)
LEMMA SecondPassKeeps == ASSUME ResponseInv, SecondPass PROVE ResponseInv'
<1>1. AtMostOnce' /\ OutboxedKept' /\ OutboxAgrees' /\ (\A c \in Commands : CommandInv(c)')
  <2>1. UNCHANGED <<inbox, result, outbox, manifest, answers, performed>>
    BY DEF SecondPass, durable, manager
  <2> QED BY <2>1, Frame
<1>2. ResponseTypeOK'
  BY ResponseAssumption DEF ResponseInv, ResponseTypeOK, Codes, SecondPass, durable, worker, manager
<1>3. TodoFresh' /\ InHand'
  <2>1. todo' = <<>> /\ pc' \in {"idle", "read", "flush", "poll", "receive"}
    BY DEF SecondPass, ResponseInv, InHand
  <2> QED BY <2>1, NothingInHand
<1>4. UnsavedInv'
  <2>1. (pc # "idle" \/ unsaved = <<>>) /\ unsaved' = unsaved
    BY DEF SecondPass
  <2> QED BY <2>1, NothingUnsaved
<1> QED BY <1>1, <1>2, <1>3, <1>4 DEF ResponseInv

(* An exception forgets the row in hand; its intent stays. *)
LEMMA CycleThrowsKeeps == ASSUME ResponseInv, CycleThrows PROVE ResponseInv'
<1>1. AtMostOnce' /\ OutboxedKept' /\ OutboxAgrees' /\ (\A c \in Commands : CommandInv(c)')
  <2>1. UNCHANGED <<inbox, result, outbox, manifest, answers, performed>>
    BY DEF CycleThrows, EndCycle, durable, manager
  <2> QED BY <2>1, Frame
<1>2. ResponseTypeOK'
  BY ResponseAssumption DEF ResponseInv, ResponseTypeOK, Codes, CycleThrows, EndCycle, durable, worker, manager
<1>3. TodoFresh' /\ InHand'
  <2>1. todo' = <<>> /\ pc' \in {"idle", "read", "flush", "poll", "receive"}
    BY DEF CycleThrows, EndCycle, ResponseInv, InHand
  <2> QED BY <2>1, NothingInHand
<1>4. UnsavedInv'
  <2>1. (pc # "idle" \/ unsaved = <<>>) /\ unsaved' = unsaved
    BY DEF CycleThrows, EndCycle
  <2> QED BY <2>1, NothingUnsaved
<1> QED BY <1>1, <1>2, <1>3, <1>4 DEF ResponseInv

-----------------------------------------------------------------------------
(* The other actions, one conjunct of the invariant at a time. *)

(* A crash forgets everything in memory. *)
LEMMA CrashKeeps == ASSUME ResponseInv, Crash PROVE ResponseInv'
<1>1. AtMostOnce' /\ OutboxedKept' /\ OutboxAgrees' /\ (\A c \in Commands : CommandInv(c)')
  <2>1. UNCHANGED <<inbox, result, outbox, manifest, answers, performed>>
    BY DEF Crash, EndCycle, durable, manager
  <2> QED BY <2>1, Frame
<1>2. ResponseTypeOK'
  BY ResponseAssumption DEF ResponseInv, ResponseTypeOK, Codes, Crash, EndCycle, durable, worker, manager
<1>3. TodoFresh' /\ InHand'
  <2>1. todo' = <<>> /\ pc' \in {"idle", "read", "flush", "poll", "receive"}
    BY DEF Crash, EndCycle, ResponseInv, InHand
  <2> QED BY <2>1, NothingInHand
<1>4. UnsavedInv'
  BY DEF Crash, EndCycle, UnsavedInv
<1> QED BY <1>1, <1>2, <1>3, <1>4 DEF ResponseInv

(* A capture that ends has been performed once. *)
LEMMA EndAcquireKeeps == ASSUME ResponseInv, EndAcquire PROVE ResponseInv'
<1> USE ResponseAssumption DEF ResponseInv, EndAcquire, durable, worker, manager
<1>0. Current \in Commands /\ Stored \in States /\ 1 \in DOMAIN todo
      /\ Current' = Current /\ Stored' = Stored
  BY CurrentFacts DEF InHand, Current, Stored
<1>1. ResponseTypeOK'
  BY <1>0 DEF ResponseTypeOK, Codes, Outcomes, Life!Outcomes, States, Conclude
<1>2. AtMostOnce' /\ OutboxedKept'
  BY <1>0 DEF AtMostOnce, OutboxedKept, Entries, ResponseTypeOK, InHand, CommandInv, Conclude
<1>3. \A c \in Commands : CommandInv(c)'
  BY <1>0 DEF CommandInv, Life!Honest, ResponseTypeOK, InHand, Outcomes, Life!Outcomes, Conclude
<1>4. OutboxAgrees'
  BY <1>0 DEF OutboxAgrees, ResponseTypeOK, CommandInv, InHand, Conclude
<1>5. TodoFresh'
  BY <1>0 DEF TodoFresh, InHand, ResponseTypeOK, InboxRow, Conclude
<1>6. InHand'
  BY <1>0 DEF InHand, Life!Honest, Outcomes, Life!Outcomes, ResponseTypeOK, Conclude
<1>7. UnsavedInv'
  BY <1>0 DEF UnsavedInv, InHand, Life!Honest, Conclude
<1> QED BY <1>1, <1>2, <1>3, <1>4, <1>5, <1>6, <1>7

(* A command is gated once its intent is committed and before it runs. *)
LEMMA GateKeeps == ASSUME ResponseInv, Gate PROVE ResponseInv'
<1>f. AtMostOnce' /\ OutboxedKept' /\ OutboxAgrees' /\ (\A c \in Commands : CommandInv(c)')
  <2>1. UNCHANGED <<inbox, result, outbox, manifest, answers, performed>>
    BY DEF Gate, durable, manager
  <2> QED BY <2>1, Frame
<1> USE ResponseAssumption DEF ResponseInv, Gate, durable, worker, manager
<1>0. Current \in Commands /\ Stored \in States /\ 1 \in DOMAIN todo
      /\ Current' = Current /\ Stored' = Stored
  BY CurrentFacts DEF InHand, Current, Stored
<1>1. ResponseTypeOK'
  BY <1>0 DEF ResponseTypeOK, Codes, Outcomes, Life!Outcomes, States, Refusal
<1>5. TodoFresh'
  BY <1>0 DEF TodoFresh, InHand, ResponseTypeOK, InboxRow, Refusal
<1>6. InHand'
  BY <1>0 DEF InHand, Life!Honest, Outcomes, Life!Outcomes, ResponseTypeOK, Refusal
<1>7. UnsavedInv'
  BY <1>0 DEF UnsavedInv, InHand, Life!Honest, Refusal
<1> QED BY <1>1, <1>f, <1>5, <1>6, <1>7

(* Acceptance changes nothing on the endpoint. *)
LEMMA AcceptKeeps == ASSUME ResponseInv, Accept PROVE ResponseInv'
<1>f. AtMostOnce' /\ OutboxedKept' /\ OutboxAgrees' /\ (\A c \in Commands : CommandInv(c)')
  <2>1. UNCHANGED <<inbox, result, outbox, manifest, answers, performed>>
    BY DEF Accept, durable, manager
  <2> QED BY <2>1, Frame
<1> USE ResponseAssumption DEF ResponseInv, Accept, durable, worker, manager
<1>0. Current \in Commands /\ Stored \in States /\ 1 \in DOMAIN todo
      /\ Current' = Current /\ Stored' = Stored
  BY CurrentFacts DEF InHand, Current, Stored
<1>1. ResponseTypeOK'
  BY <1>0 DEF ResponseTypeOK, Codes, Outcomes, Life!Outcomes, States, Conclude
<1>5. TodoFresh'
  BY <1>0 DEF TodoFresh, InHand, ResponseTypeOK, InboxRow, Conclude
<1>6. InHand'
  BY <1>0 DEF InHand, Life!Honest, Outcomes, Life!Outcomes, ResponseTypeOK, Conclude
<1>7. UnsavedInv'
  BY <1>0 DEF UnsavedInv, InHand, Life!Honest, Conclude
<1> QED BY <1>1, <1>f, <1>5, <1>6, <1>7

(* An interrupted command is reported without being run. *)
LEMMA RecoverIntentKeeps == ASSUME ResponseInv, RecoverIntent PROVE ResponseInv'
<1>f. AtMostOnce' /\ OutboxedKept' /\ OutboxAgrees' /\ (\A c \in Commands : CommandInv(c)')
  <2>1. UNCHANGED <<inbox, result, outbox, manifest, answers, performed>>
    BY DEF RecoverIntent, durable, manager
  <2> QED BY <2>1, Frame
<1> USE ResponseAssumption DEF ResponseInv, RecoverIntent, durable, worker, manager
<1>0. Current \in Commands /\ Stored \in States /\ 1 \in DOMAIN todo
      /\ Current' = Current /\ Stored' = Stored
  BY CurrentFacts DEF InHand, Current, Stored
<1>1. ResponseTypeOK'
  BY <1>0, SMTT(30)
  DEF ResponseTypeOK, Codes, Outcomes, Life!Outcomes, States, Conclude, Reconciled,
      CommandInv, TodoFresh, Current, Stored
<1>5. TodoFresh'
  BY <1>0
  DEF TodoFresh, InHand, ResponseTypeOK, InboxRow, Conclude, Reconciled, CommandInv,
      Current, Stored
<1>6. InHand'
  BY <1>0
  DEF InHand, Life!Honest, Outcomes, Life!Outcomes, ResponseTypeOK, Conclude, Reconciled,
      CommandInv, TodoFresh, Current, Stored
<1>7. UnsavedInv'
  BY <1>0
  DEF UnsavedInv, InHand, Life!Honest, Conclude, Reconciled, CommandInv, TodoFresh,
      Current, Stored
<1> QED BY <1>1, <1>f, <1>5, <1>6, <1>7

(* A pass ends with nothing in hand. *)
LEMMA EndLoopKeeps == ASSUME ResponseInv, EndLoop PROVE ResponseInv'
<1>f. AtMostOnce' /\ OutboxedKept' /\ OutboxAgrees' /\ (\A c \in Commands : CommandInv(c)')
  <2>1. UNCHANGED <<inbox, result, outbox, manifest, answers, performed>>
    BY DEF EndLoop, EndCycle, durable, manager
  <2> QED BY <2>1, Frame
<1> USE ResponseAssumption DEF ResponseInv, EndLoop, durable, worker, manager
<1>1. ResponseTypeOK'
  <2>1. CASE pass = 1
    BY <2>1 DEF ResponseTypeOK
  <2>2. CASE pass # 1
    BY <2>2 DEF ResponseTypeOK, EndCycle, Codes
  <2> QED BY <2>1, <2>2
<1>5. TodoFresh' /\ InHand'
  <2>1. todo' = <<>> /\ pc' \in {"idle", "read", "flush", "poll", "receive"}
    BY DEF EndLoop, EndCycle, InHand
  <2> QED BY <2>1, NothingInHand
<1>7. UnsavedInv'
  <2>1. pc # "idle" /\ unsaved' = unsaved
    BY DEF EndLoop, EndCycle
  <2> QED BY <2>1, NothingUnsaved
<1> QED BY <1>1, <1>f, <1>5, <1>7

(* A result that cannot be committed is held with its intent. *)
LEMMA FinishThrowsKeeps == ASSUME ResponseInv, FinishThrows PROVE ResponseInv'
<1>f. AtMostOnce' /\ OutboxedKept' /\ OutboxAgrees' /\ (\A c \in Commands : CommandInv(c)')
  <2>1. UNCHANGED <<inbox, result, outbox, manifest, answers, performed>>
    BY DEF FinishThrows, EndCycle, durable, manager
  <2> QED BY <2>1, Frame
<1> USE ResponseAssumption DEF ResponseInv, FinishThrows, durable, worker, manager
<1>0. Current \in Commands /\ Stored \in States /\ 1 \in DOMAIN todo
  BY CurrentFacts DEF InHand
<1>1. ResponseTypeOK'
  <2>1. unsaved' \in Commands \X Outcomes
    BY <1>0 DEF InHand
  <2>2. faults' \in 0 .. MaxFaults
    BY DEF ResponseTypeOK
  <2> QED BY <2>1, <2>2 DEF ResponseTypeOK, EndCycle, Codes
<1>5. TodoFresh'
  BY <1>0, SMTT(30) DEF TodoFresh, InHand, ResponseTypeOK, InboxRow, EndCycle
<1>6. InHand'
  BY <1>0 DEF InHand, Life!Honest, Outcomes, Life!Outcomes, ResponseTypeOK, EndCycle
<1>7. UnsavedInv'
  BY <1>0 DEF UnsavedInv, InHand, Life!Honest, EndCycle
<1> QED BY <1>1, <1>f, <1>5, <1>6, <1>7

(* The one run of a command. *)
LEMMA PerformKeeps == ASSUME ResponseInv, Perform PROVE ResponseInv'
<1> USE ResponseAssumption DEF ResponseInv, Perform, durable, worker, manager
<1>0. Current \in Commands /\ Stored \in States /\ 1 \in DOMAIN todo
      /\ Current' = Current /\ Stored' = Stored
  BY CurrentFacts DEF InHand, Current, Stored
<1>1. ResponseTypeOK'
  <2>1. performed' \in [Commands -> Nat]
    BY <1>0 DEF ResponseTypeOK
  <2>3. manifest' \in [Commands -> {"none", "partial", "terminal"}]
    BY <1>0 DEF ResponseTypeOK
  <2>2. receipt' \in Codes /\ pc' \in {"acquire", "finish"}
    BY DEF Conclude, ResponseTypeOK, Codes, Outcomes, Life!Outcomes
  <2> QED BY <2>1, <2>2, <2>3 DEF ResponseTypeOK
<1>2. AtMostOnce' /\ OutboxedKept'
  BY <1>0 DEF AtMostOnce, OutboxedKept, Entries, ResponseTypeOK, InHand, CommandInv, Conclude
<1>3. \A c \in Commands : CommandInv(c)'
  BY <1>0
  DEF CommandInv, Life!Honest, ResponseTypeOK, InHand, Outcomes, Life!Outcomes, Conclude,
      AtMostOnce
<1>4. OutboxAgrees'
  BY <1>0 DEF OutboxAgrees, ResponseTypeOK, CommandInv, InHand, Conclude, AtMostOnce
<1>5. TodoFresh'
  BY <1>0 DEF TodoFresh, InHand, ResponseTypeOK, InboxRow, Conclude, AtMostOnce
<1>6. InHand'
  BY <1>0, SMTT(30) DEF InHand, Life!Honest, Outcomes, Life!Outcomes, ResponseTypeOK, Conclude, AtMostOnce
<1>7. UnsavedInv'
  BY <1>0 DEF UnsavedInv, InHand, Life!Honest, Conclude, AtMostOnce
<1> QED BY <1>1, <1>2, <1>3, <1>4, <1>5, <1>6, <1>7

(* The result is committed over the intent. *)
LEMMA FinishCommandKeeps == ASSUME ResponseInv, FinishCommand PROVE ResponseInv'
<1> USE ResponseAssumption DEF ResponseInv, FinishCommand, durable, worker, manager
<1>0. Current \in Commands /\ Stored \in States /\ 1 \in DOMAIN todo
      /\ Current' = Current /\ Stored' = Stored
  BY CurrentFacts DEF InHand, Current, Stored
<1>1. ResponseTypeOK'
  BY <1>0 DEF ResponseTypeOK, Codes, Outcomes, Life!Outcomes, States, Current
<1>2. AtMostOnce' /\ OutboxedKept'
  BY <1>0, SMTT(30) DEF AtMostOnce, OutboxedKept, Entries, ResponseTypeOK, InHand, CommandInv, Current
<1>3. \A c \in Commands : CommandInv(c)'
  BY <1>0, SMTT(30) DEF CommandInv, Life!Honest, ResponseTypeOK, InHand, Outcomes, Life!Outcomes, Current
<1>4. OutboxAgrees'
  <2> SUFFICES ASSUME NEW i \in DOMAIN outbox PROVE result'[outbox[i][1]] = outbox[i][2]
    BY DEF OutboxAgrees
  <2>1. outbox[i][1] \in Commands /\ outbox[i][2] # "none" /\ result[outbox[i][1]] = outbox[i][2]
    BY OutboxFacts DEF OutboxAgrees
  <2>2. result[Current] = "none"
    BY <1>0 DEF CommandInv, InHand, UnsavedInv, ResponseTypeOK
  <2> QED BY <2>1, <2>2 DEF ResponseTypeOK
<1>5. TodoFresh'
  BY <1>0, SMTT(30) DEF TodoFresh, InHand, ResponseTypeOK, InboxRow, Current
<1>6. InHand'
  BY <1>0 DEF InHand, Life!Honest, Outcomes, Life!Outcomes, ResponseTypeOK, Current
<1>7. UnsavedInv'
  BY <1>0 DEF UnsavedInv, InHand, Life!Honest, Current
<1> QED BY <1>1, <1>2, <1>3, <1>4, <1>5, <1>6, <1>7

(* A row is given up once the outbox holds its result. *)
LEMMA MarkOutboxedKeeps == ASSUME ResponseInv, MarkOutboxed PROVE ResponseInv'
<1> USE ResponseAssumption DEF ResponseInv, MarkOutboxed, durable, worker, manager
<1>0. Current \in Commands /\ Stored \in States /\ 1 \in DOMAIN todo
  BY CurrentFacts DEF InHand
<1>1. ResponseTypeOK'
  BY <1>0 DEF ResponseTypeOK, Codes, Outcomes, Life!Outcomes, States
<1>2. AtMostOnce' /\ OutboxedKept'
  BY <1>0, SMTT(30) DEF AtMostOnce, OutboxedKept, Entries, ResponseTypeOK, InHand, CommandInv
<1>3. \A c \in Commands : CommandInv(c)'
  BY <1>0 DEF CommandInv, Life!Honest, ResponseTypeOK, InHand, Outcomes, Life!Outcomes
<1>4. OutboxAgrees'
  BY <1>0 DEF OutboxAgrees, ResponseTypeOK, CommandInv, InHand
<1>5. TodoFresh'
  <2>1. inbox' \in [Commands -> States] /\ \A c \in Commands \ {Current} : inbox'[c] = inbox[c]
    BY <1>0 DEF ResponseTypeOK, States
  <2>2. /\ todo' \in Seq(InboxRow)
        /\ \A i, j \in DOMAIN todo' : todo'[i].id = todo'[j].id => i = j
        /\ \A i \in DOMAIN todo' :
             /\ todo'[i].state \in {"received", "executing", "result_ready"}
             /\ inbox'[todo'[i].id] = todo'[i].state
    <3> DEFINE rest == todo'  box == inbox'
    <3>1. rest = Tail(todo) /\ todo # <<>> /\ box \in [Commands -> States]
          /\ \A c \in Commands \ {Current} : box[c] = inbox[c]
      BY <2>1 DEF InHand
    <3> HIDE DEF rest, box
    <3>2. /\ rest \in Seq(InboxRow)
          /\ \A i, j \in DOMAIN rest : rest[i].id = rest[j].id => i = j
          /\ \A i \in DOMAIN rest :
               /\ rest[i].state \in {"received", "executing", "result_ready"}
               /\ box[rest[i].id] = rest[i].state
      BY <3>1, DropCurrent, Zenon
    <3> QED BY <3>2 DEF rest, box
  <2> QED BY <2>2 DEF TodoFresh
<1>6. InHand'
  BY <1>0 DEF InHand, Life!Honest, Outcomes, Life!Outcomes, ResponseTypeOK
<1>7. UnsavedInv'
  BY <1>0 DEF UnsavedInv, InHand, Life!Honest
<1> QED BY <1>1, <1>2, <1>3, <1>4, <1>5, <1>6, <1>7

(* The outbox keeps one copy. *)
LEMMA SaveResultKeeps == ASSUME ResponseInv, SaveResult PROVE ResponseInv'
<1> USE ResponseAssumption DEF ResponseInv, SaveResult, durable, worker, manager
<1>0. Current \in Commands /\ Stored \in States /\ 1 \in DOMAIN todo
      /\ Current' = Current /\ Stored' = Stored
  BY CurrentFacts DEF InHand, Current, Stored
<1>a. /\ outbox' \in Seq(Commands \X Outcomes)
      /\ Entries(outbox') = Entries(outbox) \cup {<<Current, result[Current]>>}
      /\ \A i \in DOMAIN outbox' : outbox'[i] = <<Current, result[Current]>>
                                   \/ (i \in DOMAIN outbox /\ outbox'[i] = outbox[i])
  <2>1. <<Current, result[Current]>> \in Commands \X Outcomes /\ outbox \in Seq(Commands \X Outcomes)
    BY <1>0 DEF InHand, CommandInv, ResponseTypeOK, Codes
  <2>2. CASE <<Current, result[Current]>> \in Entries(outbox)
    BY <2>1, <2>2
  <2>3. CASE <<Current, result[Current]>> \notin Entries(outbox)
    <3> DEFINE e == <<Current, result[Current]>>  P == Commands \X Outcomes
    <3>1. e \in P /\ outbox \in Seq(P) /\ outbox' = Append(outbox, e)
      BY <2>1, <2>3
    <3> HIDE DEF e, P
    <3>2. /\ Append(outbox, e) \in Seq(P)
          /\ Entries(Append(outbox, e)) = Entries(outbox) \cup {e}
          /\ \A i \in DOMAIN Append(outbox, e) :
               Append(outbox, e)[i] = e \/ (i \in DOMAIN outbox /\ Append(outbox, e)[i] = outbox[i])
      BY <3>1, AppendFacts
    <3> QED BY <3>1, <3>2 DEF e, P
  <2> QED BY <2>2, <2>3
<1>1. ResponseTypeOK'
  BY <1>a DEF ResponseTypeOK
<1>2. AtMostOnce' /\ OutboxedKept'
  BY <1>a DEF AtMostOnce, OutboxedKept
<1>3. \A c \in Commands : CommandInv(c)'
  BY <1>0, <1>a DEF CommandInv, Life!Honest, ResponseTypeOK, InHand, Outcomes, Life!Outcomes
<1>4. OutboxAgrees'
  <2> SUFFICES ASSUME NEW i \in DOMAIN outbox' PROVE result[outbox'[i][1]] = outbox'[i][2]
    BY DEF OutboxAgrees
  <2>1. CASE outbox'[i] = <<Current, result[Current]>>
    BY <2>1
  <2>2. CASE i \in DOMAIN outbox /\ outbox'[i] = outbox[i]
    BY <2>2 DEF OutboxAgrees
  <2> QED BY <1>a, <2>1, <2>2
<1>5. TodoFresh'
  BY <1>0, <1>a DEF TodoFresh, InHand, ResponseTypeOK, InboxRow
<1>6. InHand'
  BY <1>0, <1>a DEF InHand
<1>7. UnsavedInv'
  BY <1>0, <1>a DEF UnsavedInv, InHand, Life!Honest
<1> QED BY <1>1, <1>2, <1>3, <1>4, <1>5, <1>6, <1>7

(* The intent is committed before anything else happens. *)
LEMMA BeginCommandKeeps == ASSUME ResponseInv, BeginCommand PROVE ResponseInv'
<1> USE ResponseAssumption DEF ResponseInv, BeginCommand, durable, worker, manager
<1>0. Current \in Commands /\ Stored \in States /\ 1 \in DOMAIN todo /\ inbox[Current] = "received"
  BY CurrentFacts DEF TodoFresh, Current, Stored
<1>a. /\ inbox' = [inbox EXCEPT ![Current] = "executing"] /\ pc' = "gate" /\ UNCHANGED todo
      /\ Current' = Current
  BY <1>0 DEF Current
<1>b. performed[Current] = 0
  BY <1>0 DEF CommandInv, AtMostOnce, ResponseTypeOK
<1>1. ResponseTypeOK'
  BY <1>0, <1>a DEF ResponseTypeOK, States
<1>2. AtMostOnce' /\ OutboxedKept'
  BY <1>0, <1>a DEF AtMostOnce, OutboxedKept, ResponseTypeOK
<1>3. \A c \in Commands : CommandInv(c)'
  BY <1>0, <1>a, <1>b
  DEF CommandInv, Life!Honest, ResponseTypeOK, InHand, Outcomes, Life!Outcomes, Current
<1>4. OutboxAgrees'
  BY <1>0, <1>a, <1>b DEF OutboxAgrees, ResponseTypeOK, CommandInv, InHand, Current
<1>5. TodoFresh'
  BY <1>0, <1>a, <1>b, SMTT(30) DEF TodoFresh, InHand, ResponseTypeOK, InboxRow, Current
<1>6. InHand'
  BY <1>0, <1>a, <1>b DEF InHand, ResponseTypeOK
<1>7. UnsavedInv'
  BY <1>0, <1>a, <1>b DEF UnsavedInv, InHand, Life!Honest, Current
<1> QED BY <1>1, <1>2, <1>3, <1>4, <1>5, <1>6, <1>7
=============================================================================

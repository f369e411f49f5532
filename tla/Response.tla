------------------------------ MODULE Response ------------------------------
(***************************************************************************)
(* The response thread (main.cpp, run_response_cycle): it polls the Manager*)
(* for commands, keeps them in a durable inbox, executes each behind a     *)
(* committed intent and delivers the result through a durable outbox.      *)
(*                                                                         *)
(* Durable: inbox (a command's state), rowid, result, outbox and manifest  *)
(* (what a file acquisition has authenticated on disk).  Everything from pc*)
(* to seen dies with the process.  accepted and answers are the Manager's. *)
(*                                                                         *)
(* pc is the call about to be made; the row in hand is the first of todo.  *)
(***************************************************************************)
EXTENDS Integers, Sequences, FiniteSets

CONSTANTS
  Commands,   \* command ids
  Kind,       \* "collect", "acquire" (ACQUIRE_FILE) or "act", of each command
  Unfit,      \* commands the gate refuses: other host, protected or unknown
  Legacy,     \* ids in the flat ledger of an earlier version
  ReadLimit,  \* 32 in the code: rows read, results sent, commands polled
  InboxRows,  \* 65536 in the code
  MaxFaults   \* bound: crashes and exceptions

ASSUME ResponseAssumption ==
  /\ IsFiniteSet(Commands) /\ Kind \in [Commands -> {"collect", "acquire", "act"}]
  /\ Unfit \subseteq Commands /\ Legacy \subseteq Commands
  /\ ReadLimit \in Nat \ {0} /\ InboxRows \in Nat /\ MaxFaults \in Nat

VARIABLES inbox, rowid, result, outbox, manifest,
          pc, pass, todo, arrived, receipt, unsaved, sent, seen,
          accepted, answers, expired, performed, faults

durable == <<inbox, rowid, result, outbox, manifest>>
worker == <<pc, pass, todo, arrived, receipt, unsaved, sent, seen>>
manager == <<accepted, answers>>
vars == <<durable, worker, manager, expired, performed, faults>>

Life == INSTANCE CommandLife WITH ran <- performed, answer <- answers

Outcomes == Life!Outcomes
Codes == Outcomes \cup {"none"}
States == {"none", "received", "executing", "result_ready", "outboxed"}
InboxRow == [id : Commands, state : States]
Lists == UNION { [1 .. n -> Commands] : n \in 0 .. ReadLimit }

(* The row key is a digest of scope and id. *)
InboxKey(c) == <<"sha256", c>>

Init ==
  /\ inbox = [c \in Commands |-> "none"] /\ rowid = [c \in Commands |-> 0]
  /\ result = [c \in Commands |-> "none"] /\ outbox = <<>>
  /\ manifest = [c \in Commands |-> "none"]
  /\ pc = "idle" /\ pass = 1 /\ todo = <<>> /\ arrived = <<>>
  /\ receipt = "none" /\ unsaved = <<>> /\ sent = 0 /\ seen = {}
  /\ accepted = {} /\ answers = [c \in Commands |-> "none"] /\ expired = {}
  /\ performed = [c \in Commands |-> 0] /\ faults = 0

Current == todo[1].id
Stored == todo[1].state
Entries(s) == { s[i] : i \in DOMAIN s }
Conclude(code) == receipt' = code /\ pc' = "finish"

(* The locals of a cycle end with it. *)
EndCycle ==
  /\ pc' = "idle" /\ pass' = 1 /\ todo' = <<>> /\ arrived' = <<>>
  /\ receipt' = "none" /\ sent' = 0

-----------------------------------------------------------------------------
(* The start of a cycle. *)

(* A result whose commit failed is committed before anything else. *)
RetryFinish ==
  /\ pc = "idle" /\ unsaved # <<>>
  /\ inbox' = [inbox EXCEPT ![unsaved[1]] = "result_ready"]
  /\ result' = [result EXCEPT ![unsaved[1]] = unsaved[2]]
  /\ unsaved' = <<>> /\ pc' = "read" /\ pass' = 1
  /\ UNCHANGED <<rowid, outbox, manifest, todo, arrived, receipt, sent, seen,
                 manager, expired, performed, faults>>

(* Mutant: the cycle goes on while a result waits for its commit. *)
StartUnchecked ==
  /\ pc = "idle"
  /\ pc' = "read" /\ pass' = 1
  /\ UNCHANGED <<durable, todo, arrived, receipt, unsaved, sent, seen,
                 manager, expired, performed, faults>>

StartCycle ==
  /\ pc = "idle" /\ unsaved = <<>>
  /\ pc' = "read" /\ pass' = 1
  /\ UNCHANGED <<durable, todo, arrived, receipt, unsaved, sent, seen,
                 manager, expired, performed, faults>>

-----------------------------------------------------------------------------
(* process_durable_commands. *)

(* Mutant: rows with a recorded intent are not read back. *)
OpenReceivedOnly(c) == inbox[c] \in {"received", "result_ready"}

Open(c) == inbox[c] \notin {"none", "outboxed"}

(* s is the result of pending_commands: the oldest rows not yet outboxed. *)
IsPendingList(s) ==
  LET rows == { c \in Commands : Open(c) } IN
  /\ Entries(s) \subseteq rows
  /\ \A i, j \in DOMAIN s : i < j => rowid[s[i]] < rowid[s[j]]
  /\ \A c \in rows \ Entries(s) :
       Len(s) = ReadLimit /\ \A i \in DOMAIN s : rowid[s[i]] < rowid[c]

ReadInbox ==
  /\ pc = "read"
  /\ \E s \in Lists :
       /\ IsPendingList(s)
       /\ todo' = [i \in DOMAIN s |-> [id |-> s[i], state |-> inbox[s[i]]]]
  /\ pc' = "loop"
  /\ UNCHANGED <<durable, pass, arrived, receipt, unsaved, sent, seen,
                 manager, expired, performed, faults>>

EndLoop ==
  /\ pc = "loop" /\ todo = <<>>
  /\ IF pass = 1 THEN pc' = "flush" /\ UNCHANGED <<pass, todo, arrived, receipt, sent>>
     ELSE EndCycle
  /\ UNCHANGED <<durable, unsaved, seen,
                 manager, expired, performed, faults>>

(* A row read as result_ready goes straight to the outbox. *)
ResumeResult ==
  /\ pc = "loop" /\ todo # <<>> /\ Stored = "result_ready"
  /\ pc' = "save"
  /\ UNCHANGED <<durable, pass, todo, arrived, receipt, unsaved, sent, seen,
                 manager, expired, performed, faults>>

(* Mutant: a recorded intent is dispatched again. *)
RecoverByRepeating ==
  /\ pc = "loop" /\ todo # <<>> /\ Stored = "executing"
  /\ receipt' = "succeeded" /\ pc' = "dispatch"
  /\ UNCHANGED <<durable, pass, todo, arrived, unsaved, sent, seen,
                 manager, expired, performed, faults>>

(* Mutant: a recorded intent is reported as rejected. *)
RecoverAsRejected ==
  /\ pc = "loop" /\ todo # <<>> /\ Stored = "executing"
  /\ Conclude("rejected")
  /\ UNCHANGED <<durable, pass, todo, arrived, unsaved, sent, seen,
                 manager, expired, performed, faults>>

(* What a capture that may only continue from its manifest can report. *)
Reconciled(c) ==
  CASE manifest[c] = "terminal" -> {"succeeded"}
    [] manifest[c] = "partial" -> {"succeeded", "failed"}
    [] OTHER -> {"indeterminate"}

(* A row read as executing was interrupted.  Only an acquisition whose row  *)
(* key equals its command id is reconciled with its manifest.               *)
RecoverIntent ==
  /\ pc = "loop" /\ todo # <<>> /\ Stored = "executing"
  /\ \E code \in IF Kind[Current] = "acquire" /\ InboxKey(Current) = Current
                 THEN Reconciled(Current) ELSE {"indeterminate"} : Conclude(code)
  /\ UNCHANGED <<durable, pass, todo, arrived, unsaved, sent, seen,
                 manager, expired, performed, faults>>

(* Mutant: the intent is not committed before the action. *)
BeginUncommitted ==
  /\ pc = "loop" /\ todo # <<>> /\ Stored = "received"
  /\ pc' = "gate"
  /\ UNCHANGED <<durable, pass, todo, arrived, receipt, unsaved,
                 sent, seen, manager, expired, performed, faults>>

(* begin_command commits the intent, if the row is still received. *)
BeginCommand ==
  /\ pc = "loop" /\ todo # <<>> /\ Stored = "received"
  /\ IF inbox[Current] = "received"
     THEN inbox' = [inbox EXCEPT ![Current] = "executing"] /\ pc' = "gate" /\ UNCHANGED todo
     ELSE todo' = Tail(todo) /\ UNCHANGED <<inbox, pc>>
  /\ UNCHANGED <<rowid, result, outbox, manifest, pass, arrived, receipt, unsaved,
                 sent, seen, manager, expired, performed, faults>>

Refusal(c) ==
  IF c \in Unfit \cup expired \cup seen THEN "rejected"
  ELSE IF c \in Legacy THEN "indeterminate" ELSE "succeeded"

(* validate_and_mark, then the check of the flat ledger. *)
Gate ==
  /\ pc = "gate"
  /\ seen' = IF Refusal(Current) = "rejected" THEN seen ELSE seen \cup {Current}
  /\ receipt' = Refusal(Current)
  /\ pc' = IF receipt' = "succeeded" THEN "accept" ELSE "finish"
  /\ UNCHANGED <<durable, pass, todo, arrived, unsaved, sent,
                 manager, expired, performed, faults>>

(* accept_command.  Without the Manager's acknowledgement a collection is   *)
(* not executed; the other actions go on.                                   *)
Accept ==
  /\ pc = "accept"
  /\ \E acknowledged \in BOOLEAN :
       /\ accepted' \in {accepted \cup {Current}}
                          \cup (IF acknowledged THEN {} ELSE {accepted})
       /\ IF Kind[Current] = "collect" /\ ~acknowledged
          THEN Conclude("failed")
          ELSE pc' = "dispatch" /\ UNCHANGED receipt
  /\ UNCHANGED <<durable, pass, todo, arrived, unsaved, sent, seen,
                 answers, expired, performed, faults>>

(* execute_command: the deadline again, then the action.  A refusal leaves   *)
(* nothing behind.                                                          *)
DispatchExpired ==
  /\ pc = "dispatch" /\ Current \in expired
  /\ Conclude("rejected")
  /\ UNCHANGED <<durable, pass, todo, arrived, unsaved, sent, seen,
                 manager, expired, performed, faults>>

DispatchRefused ==
  /\ pc = "dispatch" /\ Current \notin expired
  /\ \E code \in {"rejected", "failed"} : Conclude(code)
  /\ UNCHANGED <<durable, pass, todo, arrived, unsaved, sent, seen,
                 manager, expired, performed, faults>>

Perform ==
  /\ pc = "dispatch" /\ Current \notin expired
  /\ performed' = [performed EXCEPT ![Current] = @ + 1]
  /\ IF Kind[Current] = "acquire"
     THEN /\ manifest' = [manifest EXCEPT ![Current] = "partial"]
          /\ pc' = "acquire" /\ UNCHANGED receipt
     ELSE /\ \E code \in {"succeeded", "failed", "indeterminate"} : Conclude(code)
          /\ UNCHANGED manifest
  /\ UNCHANGED <<inbox, rowid, result, outbox, pass, todo, arrived, unsaved, sent,
                 seen, manager, expired, faults>>

(* The capture ends, complete or as a prefix that can be resumed. *)
EndAcquire ==
  /\ pc = "acquire"
  /\ \/ manifest' = [manifest EXCEPT ![Current] = "terminal"] /\ Conclude("succeeded")
     \/ UNCHANGED manifest /\ Conclude("failed")
  /\ UNCHANGED <<inbox, rowid, result, outbox, pass, todo, arrived, unsaved, sent,
                 seen, manager, expired, performed, faults>>

(* Mutant: the outbox gets the result before the inbox commits it. *)
FinishAfterSave ==
  /\ pc = "finish" /\ inbox[Current] = "executing"
  /\ outbox' = Append(outbox, <<Current, receipt>>)
  /\ pc' = "save"
  /\ UNCHANGED <<inbox, rowid, result, manifest, pass, todo, arrived, receipt, unsaved,
                 sent, seen, manager, expired, performed, faults>>

FinishCommand ==
  /\ pc = "finish" /\ inbox[Current] = "executing"
  /\ inbox' = [inbox EXCEPT ![Current] = "result_ready"]
  /\ result' = [result EXCEPT ![Current] = receipt]
  /\ pc' = "save" /\ receipt' = "none"
  /\ UNCHANGED <<rowid, outbox, manifest, pass, todo, arrived, unsaved, sent,
                 seen, manager, expired, performed, faults>>

(* Quota or storage refuses the result: it stays in memory for the retry. *)
FinishThrows ==
  /\ pc = "finish" /\ faults < MaxFaults /\ faults' = faults + 1
  /\ unsaved' = <<Current, receipt>> /\ EndCycle
  /\ UNCHANGED <<durable, seen,
                 manager, expired, performed>>

(* Mutant: only a result of this cycle is copied. *)
SaveFresh ==
  /\ pc = "save"
  /\ outbox' = IF Stored = "result_ready" THEN outbox
               ELSE Append(outbox, <<Current, result[Current]>>)
  /\ pc' = "mark"
  /\ UNCHANGED <<inbox, rowid, result, manifest, pass, todo, arrived, receipt, unsaved,
                 sent, seen, manager, expired, performed, faults>>

(* outcomes.save appends to a journal, which keeps one pending copy. *)
SaveResult ==
  /\ pc = "save"
  /\ outbox' = IF <<Current, result[Current]>> \in Entries(outbox) THEN outbox
               ELSE Append(outbox, <<Current, result[Current]>>)
  /\ pc' = "mark"
  /\ UNCHANGED <<inbox, rowid, result, manifest, pass, todo, arrived, receipt, unsaved,
                 sent, seen, manager, expired, performed, faults>>

MarkOutboxed ==
  /\ pc = "mark"
  /\ inbox' = [inbox EXCEPT ![Current] = "outboxed"]
  /\ todo' = Tail(todo) /\ pc' = "loop"
  /\ UNCHANGED <<rowid, result, outbox, manifest, pass, arrived, receipt, unsaved, sent,
                 seen, manager, expired, performed, faults>>

-----------------------------------------------------------------------------
(* ResultOutbox::flush and the Manager's result endpoint, which keeps the   *)
(* first result of a command and refuses any other.                         *)

Submittable == answers[outbox[1][1]] \in {"none", outbox[1][2]}
Recorded == [answers EXCEPT ![outbox[1][1]] = outbox[1][2]]

EndFlush ==
  /\ pc = "flush" /\ (outbox = <<>> \/ sent = ReadLimit)
  /\ pc' = "poll" /\ sent' = 0
  /\ UNCHANGED <<durable, pass, todo, arrived, receipt, unsaved, seen,
                 manager, expired, performed, faults>>

SubmitAcknowledged ==
  /\ pc = "flush" /\ outbox # <<>> /\ sent < ReadLimit /\ Submittable
  /\ answers' = Recorded
  /\ outbox' = Tail(outbox) /\ sent' = sent + 1
  /\ UNCHANGED <<inbox, rowid, result, manifest, pc, pass, todo, arrived, receipt,
                 unsaved, seen, accepted, expired, performed, faults>>

(* Refused, or the request or its answer is lost: the flush ends here. *)
SubmitUnacknowledged ==
  /\ pc = "flush" /\ outbox # <<>> /\ sent < ReadLimit
  /\ answers' \in {answers} \cup (IF Submittable THEN {Recorded} ELSE {})
  /\ pc' = "poll" /\ sent' = 0
  /\ UNCHANGED <<durable, pass, todo, arrived, receipt, unsaved, seen,
                 accepted, expired, performed, faults>>

(* The Manager has the result but the outbox cannot delete it. *)
SubmitThrows ==
  /\ pc = "flush" /\ outbox # <<>> /\ sent < ReadLimit /\ Submittable
  /\ faults < MaxFaults /\ faults' = faults + 1
  /\ answers' = Recorded /\ EndCycle
  /\ UNCHANGED <<durable, unsaved, seen,
                 accepted, expired, performed>>

-----------------------------------------------------------------------------
(* Poll and receive. *)

(* The Manager repeats a command until it is accepted, answered or expired. *)
Offered == { c \in Commands : c \notin accepted \cup expired /\ answers[c] = "none" }

(* No response, or one that does not parse as a whole. *)
PollFails ==
  /\ pc = "poll" /\ EndCycle
  /\ UNCHANGED <<durable, unsaved, seen,
                 manager, expired, performed, faults>>

Poll ==
  /\ pc = "poll"
  /\ \E s \in Lists :
       /\ Entries(s) \subseteq Offered
       /\ \A i, j \in DOMAIN s : s[i] = s[j] => i = j
       /\ arrived' = s
  /\ pc' = "receive"
  /\ UNCHANGED <<durable, pass, todo, receipt, unsaved, sent, seen,
                 manager, expired, performed, faults>>

Rows == { c \in Commands : inbox[c] # "none" }

(* receive_command: a known command is left alone, a new one gets a row. *)
ReceiveCommand ==
  /\ pc = "receive" /\ arrived # <<>>
  /\ LET c == Head(arrived) IN
     IF c \in Rows THEN UNCHANGED <<inbox, rowid>>
     ELSE /\ Cardinality(Rows) < InboxRows
          /\ inbox' = [inbox EXCEPT ![c] = "received"]
          /\ rowid' = [rowid EXCEPT ![c] = Cardinality(Rows) + 1]
  /\ arrived' = Tail(arrived)
  /\ UNCHANGED <<result, outbox, manifest, pc, pass, todo, receipt, unsaved, sent, seen,
                 manager, expired, performed, faults>>

(* The inbox is full: the cycle ends before its second pass. *)
ReceiveRefused ==
  /\ pc = "receive" /\ arrived # <<>>
  /\ Head(arrived) \notin Rows /\ Cardinality(Rows) >= InboxRows
  /\ EndCycle
  /\ UNCHANGED <<durable, unsaved, seen,
                 manager, expired, performed, faults>>

SecondPass ==
  /\ pc = "receive" /\ arrived = <<>>
  /\ pc' = "read" /\ pass' = 2
  /\ UNCHANGED <<durable, todo, arrived, receipt, unsaved, sent, seen,
                 manager, expired, performed, faults>>

-----------------------------------------------------------------------------
(* Faults and time. *)

(* A journal call, the action or the result's encoding throws: the cycle    *)
(* ends.  What a throwing action did stays done.                            *)
CycleThrows ==
  /\ pc \in {"read", "loop", "dispatch", "acquire", "finish", "save", "mark", "receive"}
  /\ faults < MaxFaults /\ faults' = faults + 1
  /\ EndCycle
  /\ UNCHANGED <<durable, unsaved, seen,
                 manager, expired, performed>>

Expire(c) ==
  /\ c \notin expired /\ expired' = expired \cup {c}
  /\ UNCHANGED <<durable, worker, manager, performed, faults>>

Crash ==
  /\ faults < MaxFaults /\ faults' = faults + 1
  /\ EndCycle /\ unsaved' = <<>> /\ seen' = {}
  /\ UNCHANGED <<durable, manager, expired, performed>>

Step ==
  \/ RetryFinish \/ StartCycle \/ ReadInbox \/ EndLoop
  \/ ResumeResult \/ RecoverIntent \/ BeginCommand \/ Gate \/ Accept
  \/ DispatchExpired \/ DispatchRefused \/ Perform \/ EndAcquire
  \/ FinishCommand \/ SaveResult \/ MarkOutboxed
  \/ EndFlush \/ SubmitAcknowledged \/ SubmitUnacknowledged
  \/ PollFails \/ Poll \/ ReceiveCommand \/ ReceiveRefused \/ SecondPass

Next ==
  \/ Step \/ FinishThrows \/ SubmitThrows \/ CycleThrows \/ Crash
  \/ \E c \in Commands : Expire(c)

ResponseSafe == Init /\ [][Next]_vars

(* The response thread runs cycle after cycle, and a Manager that is asked  *)
(* again and again acknowledges a result in the end.                        *)
ResponseSpec == ResponseSafe /\ WF_vars(Step) /\ SF_vars(SubmitAcknowledged)

-----------------------------------------------------------------------------
(* Properties. *)

(* Every variable keeps its type. *)
ResponseTypeOK ==
  /\ inbox \in [Commands -> States]
  /\ rowid \in [Commands -> Nat] /\ result \in [Commands -> Codes]
  /\ outbox \in Seq(Commands \X Outcomes)
  /\ manifest \in [Commands -> {"none", "partial", "terminal"}]
  /\ pc \in {"idle", "read", "loop", "gate", "accept", "dispatch", "acquire", "finish",
             "save", "mark", "flush", "poll", "receive"}
  /\ pass \in {1, 2} /\ todo \in Seq(InboxRow) /\ arrived \in Seq(Commands)
  /\ receipt \in Codes /\ unsaved \in {<<>>} \cup (Commands \X Outcomes)
  /\ sent \in 0 .. ReadLimit /\ seen \subseteq Commands /\ accepted \subseteq Commands
  /\ answers \in [Commands -> Codes] /\ expired \subseteq Commands
  /\ performed \in [Commands -> Nat] /\ faults \in 0 .. MaxFaults

(* "A recovered executing row never repeats the OS action"                  *)
(* (COMMAND_INBOX.md 25): across redelivery, retries, crashes and a            *)
(* second pass over the inbox, no command's action runs twice.              *)
AtMostOnce == \A c \in Commands : performed[c] <= 1

(* The Manager keeps one immutable result per command: no pending copy of a *)
(* result ever contradicts the one it has, which would block the outbox.    *)
NoCollision ==
  \A i \in DOMAIN outbox : answers[outbox[i][1]] \in {"none", outbox[i][2]}

(* The inbox lets a result go only when the outbox holds it or the Manager  *)
(* has it (process_durable_commands 821-826).                               *)
OutboxedKept ==
  \A c \in Commands : inbox[c] = "outboxed" =>
    <<c, result[c]>> \in Entries(outbox) \/ answers[c] = result[c]

(* "the response loop refuses further execution until its inbox commit      *)
(* retry succeeds" (RESULT_OUTBOX.md 44): no action runs while a result is     *)
(* held only in memory.                                                     *)
NoActionWhileUnsaved == [][performed' # performed => unsaved = <<>>]_vars

(* The response path implements CommandLife: at most one run, never after   *)
(* the answer, one answer, and an honest one.                               *)
LifeKept == Life!Spec

(* A command in the inbox is answered in the end, whatever crashed, threw,  *)
(* expired or was lost on the way.                                          *)
EventuallyAnswered ==
  \A c \in Commands : inbox[c] = "received" ~> answers[c] # "none"

(* RESPONSE.md 36, of the acceptance request: "Its outcome is never checked *)
(* and never blocks execution".  A command that reached its acceptance is   *)
(* then dispatched, unless it expired.                                      *)
AcceptanceNeverBlocks ==
  [][ pc = "accept" /\ pc' # "accept" => pc' \in {"dispatch", "idle"} ]_vars

(* FORENSIC_FILE_ACQUISITION.md 23: "A matching terminal manifest is        *)
(* committed as the result".  A finished capture is not reported as         *)
(* indeterminate.                                                           *)
ManifestReconciled ==
  \A c \in Commands : manifest[c] = "terminal" => result[c] # "indeterminate"

-----------------------------------------------------------------------------
(* The inductive invariant. *)

(* What the durable tables say of one command, and what the Manager knows. *)
CommandInv(c) ==
  /\ result[c] # "none" <=> inbox[c] \in {"result_ready", "outboxed"}
  /\ performed[c] = 1 => inbox[c] \notin {"none", "received"}
  /\ manifest[c] # "none" => performed[c] = 1
  /\ Life!Honest(result[c], performed[c])
  /\ answers[c] \in {"none", result[c]}

(* Every copy in the outbox is the result the inbox committed. *)
OutboxAgrees == \A i \in DOMAIN outbox : result[outbox[i][1]] = outbox[i][2]

(* The rows still to do are as they were when they were read. *)
TodoFresh ==
  /\ \A i, j \in DOMAIN todo : todo[i].id = todo[j].id => i = j
  /\ \A i \in DOMAIN todo :
       /\ todo[i].state \in {"received", "executing", "result_ready"}
       /\ pc = "loop" \/ i > 1 => inbox[todo[i].id] = todo[i].state

(* What the thread knows of the row in hand, at each call. *)
InHand ==
  /\ pc \in {"idle", "read", "flush", "poll", "receive"} => todo = <<>>
  /\ pc \in {"gate", "accept", "dispatch", "acquire", "finish", "save", "mark"} => todo # <<>>
  /\ pc \in {"gate", "accept", "dispatch"} =>
       inbox[Current] = "executing" /\ performed[Current] = 0
  /\ pc = "acquire" => inbox[Current] = "executing" /\ performed[Current] = 1
  /\ pc = "finish" => /\ inbox[Current] = "executing" /\ receipt \in Outcomes
                      /\ Life!Honest(receipt, performed[Current])
  /\ pc \in {"save", "mark"} => inbox[Current] = "result_ready"
  /\ pc = "mark" => \/ <<Current, result[Current]>> \in Entries(outbox)
                    \/ answers[Current] = result[Current]

(* A result held in memory still has its intent in the inbox. *)
UnsavedInv ==
  unsaved # <<>> => /\ pc = "idle" /\ inbox[unsaved[1]] = "executing"
                    /\ Life!Honest(unsaved[2], performed[unsaved[1]])

(* The invariant of the response thread: at every call the durable state of *)
(* each command bounds what was done and what was said about it, and the    *)
(* thread's snapshot of the inbox is not stale where it is used.            *)
ResponseInv ==
  /\ ResponseTypeOK /\ AtMostOnce /\ OutboxedKept
  /\ \A c \in Commands : CommandInv(c)
  /\ OutboxAgrees
  /\ TodoFresh /\ InHand /\ UnsavedInv
=============================================================================

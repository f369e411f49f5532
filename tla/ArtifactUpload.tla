--------------------------- MODULE ArtifactUpload ---------------------------
(***************************************************************************)
(* Collected evidence on its way to the Manager (retain_collection_artifact*)
(* and the artifact thread of main.cpp, artifact_outbox.hpp,               *)
(* resume_artifact_upload of transport.cpp).  The response thread signs an *)
(* artifact and saves it in the outbox before it answers the command; the  *)
(* artifact thread uploads the oldest one in chunks, resumes where the     *)
(* Manager says it has got to, and retires it on an exact receipt.         *)
(*                                                                         *)
(* The Manager keeps chunks it was sent in order, may forget an unfinished *)
(* transfer when it expires, and retains an artifact only as a whole.      *)
(* Requests and answers may be lost; a garbled answer is a lost one.       *)
(***************************************************************************)
EXTENDS Naturals, Sequences, SequencesExt

CONSTANTS Artifacts,
          Chunks,         \* the chunks of an artifact
          Unfit,          \* artifacts over the content bound or not JSON
          StepLimit,      \* chunks sent in one call (4)
          FlushLimit,     \* artifacts retired in one flush (8)
          OutboxLimit,    \* retained_payload_limit, in artifacts
          MaxExpiries     \* bound: expired transfers

VARIABLES outbox,   \* the durable outbox, oldest first
          answer,   \* what the result of each command says: "none", "succeeded", "indeterminate"
          stored,   \* the Manager: chunks of each artifact it has
          retained, \* the Manager: artifacts it has retained
          expiries,
          pc, stop,
          received, \* chunks acknowledged in this call
          steps,    \* chunks sent in this call
          retired   \* artifacts retired in this flush

vars == <<outbox, answer, stored, retained, expiries, pc, stop, received, steps, retired>>
manager == <<stored, retained, expiries>>
Oldest == Head(outbox)

Init ==
  /\ outbox = <<>> /\ answer = [a \in Artifacts |-> "none"]
  /\ stored = [a \in Artifacts |-> 0] /\ retained = {} /\ expiries = 0
  /\ pc = "idle" /\ stop = FALSE /\ received = 0 /\ steps = 0 /\ retired = 0

-----------------------------------------------------------------------------
(* make_artifact_payload and sign_artifact_payload. *)
Signed(a) == a \notin Unfit

(* Mutant: the command succeeds although its evidence was not saved. *)
RetainArtifactUnsaved ==
  \E a \in Artifacts :
    /\ answer[a] = "none"
    /\ answer' = [answer EXCEPT ![a] = "succeeded"]
    /\ outbox' = IF Len(outbox) < OutboxLimit THEN Append(outbox, a) ELSE outbox
    /\ UNCHANGED <<manager, pc, stop, received, steps, retired>>

(* retain_collection_artifact: a full outbox, a missing key or a content that
   cannot be signed make the result indeterminate; so does a crash right after the
   artifact was saved. *)
RetainArtifact ==
  \E a \in Artifacts :
    /\ answer[a] = "none"
    /\ \/ Signed(a) /\ Len(outbox) < OutboxLimit /\ outbox' = Append(outbox, a)
          /\ \E result \in {"succeeded", "indeterminate"} : answer' = [answer EXCEPT ![a] = result]
       \/ outbox' = outbox /\ answer' = [answer EXCEPT ![a] = "indeterminate"]
    /\ UNCHANGED <<manager, pc, stop, received, steps, retired>>

-----------------------------------------------------------------------------
(* flush: the front of the outbox, until one is not retired or the limit. *)
Peek ==
  /\ pc = "idle" /\ ~stop /\ outbox # <<>>
  /\ pc' = "admit" /\ retired' = 0
  /\ UNCHANGED <<outbox, answer, manager, stop, received, steps>>

(* The Manager answers the admission with what it already has. *)
Admit ==
  /\ pc = "admit"
  /\ received' = stored[Oldest] /\ steps' = 0
  /\ pc' = IF stored[Oldest] < Chunks[Oldest] THEN "put" ELSE "complete"
  /\ UNCHANGED <<outbox, answer, manager, stop, retired>>

(* The Manager takes the chunk. *)
PutApplied == stored' = [stored EXCEPT ![Oldest] = received + 1]

AfterPut ==
  CASE received + 1 = Chunks[Oldest] -> "complete"
    [] received + 1 < Chunks[Oldest] /\ steps + 1 < StepLimit -> "put"
    [] OTHER -> "idle"

Put ==
  /\ pc = "put" /\ stored[Oldest] = received
  /\ PutApplied
  /\ received' = received + 1 /\ steps' = steps + 1
  /\ pc' = AfterPut
  /\ UNCHANGED <<outbox, answer, retained, expiries, stop, retired>>

(* The transfer is complete: the receipt names the artifact and its digest. *)
Complete ==
  /\ pc = "complete" /\ stored[Oldest] = Chunks[Oldest]
  /\ retained' = retained \cup {Oldest}
  /\ pc' = "retire"
  /\ UNCHANGED <<outbox, answer, stored, expiries, stop, received, steps, retired>>

(* Mutant: progress up to the last chunk already counts as the receipt. *)
LostRetires ==
  /\ pc = "complete" /\ outbox' = Tail(outbox) /\ pc' = "idle"
  /\ UNCHANGED <<answer, manager, stop, received, steps, retired>>

(* A request is refused or lost before or after the Manager acted on it, or
   the outbox throws: the flush is over, the artifact stays. *)
Lost ==
  /\ pc \in {"admit", "put", "complete", "retire"}
  /\ \/ UNCHANGED manager
     \/ /\ pc = "put" /\ stored[Oldest] = received /\ PutApplied
        /\ UNCHANGED <<retained, expiries>>
     \/ /\ pc = "complete" /\ stored[Oldest] = Chunks[Oldest]
        /\ retained' = retained \cup {Oldest} /\ UNCHANGED <<stored, expiries>>
  /\ pc' = "idle"
  /\ UNCHANGED <<outbox, answer, stop, received, steps, retired>>

(* acknowledge: the receipt settles exactly this artifact. *)
Retire ==
  /\ pc = "retire"
  /\ outbox' = Tail(outbox) /\ retired' = retired + 1
  /\ pc' = IF outbox' # <<>> /\ retired' < FlushLimit THEN "admit" ELSE "idle"
  /\ UNCHANGED <<answer, manager, stop, received, steps>>

-----------------------------------------------------------------------------
(* The Manager forgets a transfer that was not completed. *)
Expire ==
  /\ expiries < MaxExpiries /\ expiries' = expiries + 1
  /\ \E a \in Artifacts \ retained : stored[a] > 0 /\ stored' = [stored EXCEPT ![a] = 0]
  /\ UNCHANGED <<outbox, answer, retained, pc, stop, received, steps, retired>>

(* The service crashes and starts again, or stops in order: a request in
   flight is finished before the thread looks at the stop token. *)
Crash ==
  /\ pc # "ended" /\ pc' = "idle" /\ received' = 0 /\ steps' = 0 /\ retired' = 0
  /\ UNCHANGED <<outbox, answer, manager, stop>>

RequestStop ==
  /\ ~stop /\ stop' = TRUE
  /\ UNCHANGED <<outbox, answer, manager, pc, received, steps, retired>>

End ==
  /\ pc = "idle" /\ stop /\ pc' = "ended"
  /\ UNCHANGED <<outbox, answer, manager, stop, received, steps, retired>>

Restart ==
  /\ pc = "ended" /\ pc' = "idle" /\ stop' = FALSE
  /\ UNCHANGED <<outbox, answer, manager, received, steps, retired>>

Work == Peek \/ Admit \/ Put \/ Complete \/ Lost \/ Retire \/ End \/ Restart
Next == RetainArtifact \/ Work \/ Expire \/ Crash \/ RequestStop

(* The thread is scheduled and started again; of the Manager only that a
   request made again and again is at some time answered. *)
Spec == Init /\ [][Next]_vars /\ WF_vars(Work) /\ SF_vars(Peek) /\ SF_vars(Admit) /\ SF_vars(Put)
             /\ SF_vars(Complete) /\ SF_vars(Retire)

-----------------------------------------------------------------------------
(* Evidence is never lost between the collection and the Manager: what a
   result calls committed is in the outbox or retained by the Manager, over lost
   answers, expired transfers, crashes and a full outbox. *)
EvidenceKept ==
  \A a \in Artifacts : answer[a] = "succeeded" => a \in ToSet(outbox) \cup retained

Waits(a) == a \in ToSet(outbox)
Arrived(a) == a \in retained /\ a \notin ToSet(outbox)

(* Every saved artifact is retained by the Manager and retired, however often
   its transfer was interrupted. *)
EvidenceArrives == \A a \in Artifacts : Waits(a) ~> Arrived(a)
=============================================================================

----------------------------- MODULE MCActions ------------------------------
(***************************************************************************)
(* What the agent does to the host and for the Manager, and what it keeps  *)
(* about itself, on small instances.  Each component has its own state, so *)
(* a behaviour follows one of them: system says which.                     *)
(***************************************************************************)
EXTENDS Naturals, Sequences, SequencesExt

CONSTANT None

VARIABLES system, stop, pc,
          s1, s2, s3, s4, s5, s6, s7, s8, s9, s10, s11, s12, s13, s14, s15

vars == <<system, stop, pc, s1, s2, s3, s4, s5, s6, s7, s8, s9, s10, s11, s12, s13, s14, s15>>

(* Two versions of a file of one and a half chunks; the first request has too
   small a cap, the last one is of another command. *)
Acquisitions == {[cap |-> 2, command |-> 1, resume |-> FALSE],
                 [cap |-> 4, command |-> 1, resume |-> FALSE],
                 [cap |-> 4, command |-> 1, resume |-> TRUE],
                 [cap |-> 4, command |-> 2, resume |-> TRUE]}
ArtifactChunks == [a |-> 2, b |-> 1, c |-> 1, d |-> 1]

(* Three instances of one process id, one of them guarded, and a guarded one. *)
Processes == {[pid |-> 4, start |-> 1, guarded |-> FALSE],
              [pid |-> 4, start |-> 2, guarded |-> FALSE],
              [pid |-> 4, start |-> 3, guarded |-> TRUE],
              [pid |-> 8, start |-> 1, guarded |-> TRUE]}
Terminations == {[pid |-> 4, start |-> 0, boot |-> 1], [pid |-> 4, start |-> 1, boot |-> 1],
                 [pid |-> 4, start |-> 2, boot |-> 0], [pid |-> 8, start |-> 1, boot |-> 1]}

(* Updates with a fork of generation 2 and a package that returns in
   generation 3; keysets that rotate the publisher, a fork of them, and one that a
   publisher signed. *)
Updates == {[gen |-> 1, hash |-> "x", issued |-> 1, expires |-> 4, key |-> "k"],
            [gen |-> 2, hash |-> "y", issued |-> 1, expires |-> 4, key |-> "k"],
            [gen |-> 2, hash |-> "z", issued |-> 2, expires |-> 4, key |-> "l"],
            [gen |-> 3, hash |-> "x", issued |-> 2, expires |-> 4, key |-> "l"]}
Keysets == {[gen |-> 1, issued |-> 0, expires |-> 4, signer |-> "pin", keys |-> {[id |-> "k", from |-> 0, to |-> 4]}],
            [gen |-> 2, issued |-> 1, expires |-> 4, signer |-> "pin", keys |-> {[id |-> "k", from |-> 1, to |-> 3],
                                                                             [id |-> "l", from |-> 2, to |-> 4]}],
            [gen |-> 2, issued |-> 2, expires |-> 4, signer |-> "pin", keys |-> {[id |-> "k", from |-> 2, to |-> 4]}],
            [gen |-> 3, issued |-> 2, expires |-> 4, signer |-> "l", keys |-> {[id |-> "l", from |-> 2, to |-> 4]}]}

(* Policies of which some widen, some narrow, and one expires early. *)
SignedPolicies ==
  {[gen |-> 1, features |-> {"dns"}, rate |-> 1, issued |-> 1, expires |-> 4],
   [gen |-> 2, features |-> {"dns"}, rate |-> 1, issued |-> 1, expires |-> 3],
   [gen |-> 2, features |-> {"dns", "network"}, rate |-> 1, issued |-> 2, expires |-> 4],
   [gen |-> 3, features |-> {"dns"}, rate |-> 1, issued |-> 2, expires |-> 4],
   [gen |-> 3, features |-> {"dns", "network"}, rate |-> 2, issued |-> 1, expires |-> 4]}

(* The components; a slot is a variable of the one that runs. *)
Acquire == INSTANCE FileAcquisition WITH
    source <- s1, keyfile <- s2, keys <- s3, chunks <- s4, manifest <- s5,
    request <- s6, key <- s7, before <- s8, offset <- s9, sequence <- s10,
    hashed <- s11, piece <- s12, state <- s13, Size <- <<3, 3>>, ChunkBytes <- 2,
    Requests <- Acquisitions, MaxKeys <- 2
Upload == INSTANCE ArtifactUpload WITH
    outbox <- s1, answer <- s2, stored <- s3, retained <- s4, expiries <- s5,
    received <- s6, steps <- s7, retired <- s8, Artifacts <- {"a", "b", "c", "d"},
    Chunks <- ArtifactChunks, Unfit <- {"d"}, StepLimit <- 1, FlushLimit <- 2,
    OutboxLimit <- 2, MaxExpiries <- 1
Isolate == INSTANCE Isolation WITH
    wfp <- s1, tx <- s2, action <- s3, plan <- s4, allOk <- s5, policy <- s6,
    foreign <- s7, changes <- s8, Endpoints <- {None, "a4", "b4", "c6", "name"},
    V4 <- {"a4", "b4"}, V6 <- {"c6"}, MaxForeign <- 2
Terminate == INSTANCE ProcessTermination WITH
    running <- s1, exited <- s2, killed <- s3, purpose <- s4, target <- s5,
    handle <- s6, initiated <- s7, receipt <- s8, Instances <- Processes,
    Targets <- Terminations, Boot <- 1
Store == INSTANCE Quarantine WITH
    place <- s1, locked <- s2, pending <- s3, metadata <- s4, before <- s5, state <- s6,
    code <- s7, commands <- s8, MaxCommands <- 3
Stage == INSTANCE UpdateStage WITH
    time <- s1, trust <- s2, state <- s3, packages <- s4, temp <- s5, request <- s6,
    snapshot <- s7, staged <- s8, installed <- s9, hurt <- s10, Manifests <- Updates,
    Bundles <- Keysets, Bootstrap <- {"pin"}, Pins <- {"k"}, MaxTime <- 3
Policy == INSTANCE PolicyStore WITH
    file <- s1, now <- s2, high <- s3, answer <- s4, Policies <- SignedPolicies,
    Features <- {"dns", "network"}, Skew <- 1, MaxTime <- 4
Enroll == INSTANCE Enrollment WITH
    identityFile <- s1, keyFile <- s2, registered <- s3, keys <- s4, starts <- s5,
    keypair <- s6, identity <- s7, proven <- s8, signing <- s9, MaxKeys <- 2,
    MaxStarts <- 4
Host == INSTANCE ServiceHost WITH
    status <- s1, terminal <- s2, scm <- s3, failed <- s4, handler <- s5, asked <- s6,
    MaxProgress <- 3, MaxAsked <- 3
Output == INSTANCE DiagnosticOutput WITH
    queue <- s1, bytes <- s2, item <- s3, admitted <- s4, completed <- s5, failed <- s6,
    abandoned <- s7, refused <- s8, available <- s9, accepting <- s10, closing <- s11,
    abort <- s12, done <- s13, main <- s14, deadline <- s15, EventLimit <- 2,
    ByteLimit <- 4, Charges <- {1, 2, 3}, MaxLines <- 5

(* The slots above the n-th are not in use. *)
Free14 == s15 = None
Free13 == s14 = None /\ Free14
Free12 == s13 = None /\ Free13
Free11 == s12 = None /\ Free12
Free10 == s11 = None /\ Free11
Free9 == s10 = None /\ Free10
Free8 == s9 = None /\ Free9
Free7 == s8 = None /\ Free8
Free6 == s7 = None /\ Free7
Free5 == s6 = None /\ Free6
Free4 == s5 = None /\ Free5

Keep14 == s15' = s15
Keep13 == s14' = s14 /\ Keep14
Keep12 == s13' = s13 /\ Keep13
Keep11 == s12' = s12 /\ Keep12
Keep10 == s11' = s11 /\ Keep11
Keep9 == s10' = s10 /\ Keep10
Keep8 == s9' = s9 /\ Keep9
Keep7 == s8' = s8 /\ Keep8
Keep6 == s7' = s7 /\ Keep7
Keep5 == s6' = s6 /\ Keep6
Keep4 == s5' = s5 /\ Keep5

Init ==
  \/ system = "acquisition" /\ Acquire!Init /\ stop = FALSE /\ Free13
  \/ system = "upload" /\ Upload!Init /\ Free8
  \/ system = "isolation" /\ Isolate!Init /\ stop = FALSE /\ Free8
  \/ system = "termination" /\ Terminate!Init /\ stop = FALSE /\ Free8
  \/ system = "quarantine" /\ Store!Init /\ stop = FALSE /\ Free8
  \/ system = "update" /\ Stage!Init /\ stop = FALSE /\ Free10
  \/ system = "policy" /\ Policy!Init /\ stop = FALSE /\ pc = None /\ Free4
  \/ system = "enrollment" /\ Enroll!Init /\ stop = FALSE /\ Free9
  \/ system = "service" /\ Host!Init /\ Free6
  \/ system = "diagnostics" /\ Output!Init /\ stop = FALSE

AcquireNext == system = "acquisition" /\ Acquire!Next /\ system' = system /\ stop' = stop /\ Keep13
UploadNext == system = "upload" /\ Upload!Next /\ system' = system /\ Keep8
IsolateNext == system = "isolation" /\ Isolate!Next /\ system' = system /\ stop' = stop /\ Keep8
TerminateNext == system = "termination" /\ Terminate!Next /\ system' = system /\ stop' = stop /\ Keep8
StoreNext == system = "quarantine" /\ Store!Next /\ system' = system /\ stop' = stop /\ Keep8
StageNext == system = "update" /\ Stage!Next /\ system' = system /\ stop' = stop /\ Keep10
PolicyNext == system = "policy" /\ Policy!Next /\ system' = system /\ stop' = stop /\ pc' = pc /\ Keep4
EnrollNext == system = "enrollment" /\ Enroll!Next /\ system' = system /\ stop' = stop /\ Keep9
HostNext == system = "service" /\ Host!Next /\ system' = system /\ Keep6
OutputNext == system = "diagnostics" /\ Output!Next /\ system' = system /\ stop' = stop

Next == AcquireNext \/ UploadNext \/ IsolateNext \/ TerminateNext \/ StoreNext \/
        StageNext \/ PolicyNext \/ EnrollNext \/ HostNext \/ OutputNext

(* The threads of the components are scheduled. *)
Work ==
  \/ system = "upload" /\ Upload!Work /\ system' = system /\ Keep8
  \/ system = "service" /\ Host!Service /\ system' = system /\ Keep6
  \/ system = "diagnostics" /\ Output!Main /\ system' = system /\ stop' = stop

UploadPeek == system = "upload" /\ Upload!Peek /\ system' = system /\ Keep8
UploadAdmit == system = "upload" /\ Upload!Admit /\ system' = system /\ Keep8
UploadPut == system = "upload" /\ Upload!Put /\ system' = system /\ Keep8
UploadComplete == system = "upload" /\ Upload!Complete /\ system' = system /\ Keep8
UploadRetire == system = "upload" /\ Upload!Retire /\ system' = system /\ Keep8
OutputWorker == system = "diagnostics" /\ (Output!WorkerEnds \/ Output!Take) /\ system' = system /\ stop' = stop
HostHandler == system = "service" /\ Host!Handler /\ system' = system /\ Keep6

Spec == Init /\ [][Next]_vars /\ WF_vars(Work)
             /\ SF_vars(UploadPeek) /\ SF_vars(UploadAdmit) /\ SF_vars(UploadPut)
             /\ SF_vars(UploadComplete) /\ SF_vars(UploadRetire) /\ WF_vars(OutputWorker)
             /\ WF_vars(HostHandler)
-----------------------------------------------------------------------------
(* Evidence is whole and is not lost: see EvidenceWhole of FileAcquisition and
   EvidenceKept of ArtifactUpload (acquire_file, the artifact outbox and the
   resumable upload). *)
EvidenceSafe ==
  /\ system = "acquisition" => Acquire!EvidenceWhole
  /\ system = "upload" => Upload!EvidenceKept

(* What an action reports is what it did to the host: see PolicyWhole of
   Isolation, TerminationExact of ProcessTermination and QuarantineTold of
   Quarantine. *)
ActionsTold ==
  /\ system = "isolation" => Isolate!PolicyWhole
  /\ system = "termination" => Terminate!TerminationExact
  /\ system = "quarantine" => Store!QuarantineTold

(* What the agent keeps about itself never goes back: see StageSafe of
   UpdateStage, PolicySafe of PolicyStore, EnrollmentSafe of Enrollment,
   StatusTrue of ServiceHost and LinesAccounted of DiagnosticOutput. *)
StoresSafe ==
  /\ system = "update" => Stage!StageSafe
  /\ system = "policy" => Policy!PolicySafe
  /\ system = "enrollment" => Enroll!EnrollmentSafe
  /\ system = "service" => Host!StatusTrue
  /\ system = "diagnostics" => Output!LinesAccounted

Waits(a) == IF system = "upload" THEN Upload!Waits(a) ELSE FALSE
Arrived(a) == IF system = "upload" THEN Upload!Arrived(a) ELSE FALSE
Closing == IF system = "diagnostics" THEN Output!Closing ELSE FALSE
Closed == IF system = "diagnostics" THEN Output!Closed ELSE FALSE
Stopping == IF system = "service" THEN Host!Heard ELSE FALSE
Returned == IF system = "service" THEN Host!Ended ELSE FALSE

(* What waits is not left waiting: a saved artifact arrives at the Manager and
   is retired (resume_artifact_upload), close returns although a native write
   may hang (DiagnosticOutput::close), and a stop that is handled ends the
   service (control, service_main). *)
NothingLeftWaiting ==
  /\ \A a \in {"a", "b", "c"} : Waits(a) ~> Arrived(a)
  /\ Closing ~> Closed
  /\ Stopping ~> Returned
=============================================================================

----------------------------- MODULE Enrollment -----------------------------
(***************************************************************************)
(* How the response path obtains its identity when the agent starts        *)
(* (main.cpp, with keypair.cpp, identity.cpp and the enrolment requests of *)
(* transport.cpp).  Three things survive a restart: the identity file, the *)
(* key file and what the Manager has registered.  A file that exists may   *)
(* still fail to load: it is open elsewhere, torn, or the provider that    *)
(* imports the key is not available.                                       *)
(***************************************************************************)
EXTENDS Naturals

CONSTANTS None,
          MaxKeys,     \* a bound on the keys generated
          MaxStarts    \* a bound on the starts of the agent

VARIABLES identityFile,   \* the key whose registration the stored identity is of
          keyFile,        \* the key pair on disk
          registered,     \* the keys the Manager has registered for this agent
          keys,           \* the number of keys generated
          starts,         \* the number of starts
          pc,             \* the step of the bootstrap
          keypair,        \* the key pair in memory
          identity,       \* the identity in memory
          proven,         \* the keys that were on disk when they were sent
          signing         \* the key that signs artifacts while the response runs

vars == <<identityFile, keyFile, registered, keys, starts, pc, keypair, identity,
          proven, signing>>
durable == <<identityFile, keyFile, registered, keys, proven>>

Init ==
  /\ identityFile = None /\ keyFile = None /\ registered = {} /\ keys = 0
  /\ starts = 0 /\ pc = "down" /\ keypair = None /\ identity = None
  /\ proven = {} /\ signing = None

(* What the file at hand may load as: a file that is there may not load. *)
Loads(file) == {file, None}

Disabled == pc' = "disabled" /\ UNCHANGED <<durable, starts, keypair, identity, signing>>

Start ==
  /\ pc = "down" /\ starts < MaxStarts
  /\ starts' = starts + 1 /\ pc' = "identity"
  /\ UNCHANGED <<durable, keypair, identity, signing>>

(* load_enrolled_identity, then the bootstrap token if there is no identity. *)
LoadIdentity ==
  /\ pc = "identity"
  /\ \/ /\ identity' \in Loads(identityFile)
        /\ pc' = IF identity' = None THEN "keypair" ELSE "runtime"
        /\ UNCHANGED <<durable, starts, keypair, signing>>
     \/ Disabled

LoadKeypair ==
  /\ pc = "keypair"
  /\ keypair' \in Loads(keyFile)
  /\ pc' = IF keypair' = None THEN "generate" ELSE "challenge"
  /\ UNCHANGED <<durable, starts, identity, signing>>

(* Mutant: the key is sent although it could not be stored. *)
GenerateUnstored ==
  /\ pc = "generate"
  /\ \/ /\ keys < MaxKeys
        /\ keys' = keys + 1 /\ keypair' = keys + 1 /\ keyFile' \in {keyFile, keys + 1}
        /\ pc' = "challenge"
        /\ UNCHANGED <<identityFile, registered, starts, identity, proven, signing>>
     \/ Disabled

(* generate_ec_p256_keypair and store_ec_keypair, whose rename replaces a
   file that is there; either may fail. *)
Generate ==
  /\ pc = "generate"
  /\ \/ /\ keys < MaxKeys
        /\ keys' = keys + 1 /\ keypair' = keys + 1 /\ keyFile' = keys + 1
        /\ pc' = "challenge"
        /\ UNCHANGED <<identityFile, registered, starts, identity, proven, signing>>
     \/ Disabled

RequestChallenge ==
  /\ pc = "challenge"
  /\ \/ pc' = "enroll" /\ UNCHANGED <<durable, starts, keypair, identity, signing>>
     \/ Disabled

(* The Manager may refuse, register and answer, or register while the answer
   is lost or malformed. *)
Enroll ==
  /\ pc = "enroll"
  /\ \/ Disabled
     \/ /\ registered' = registered \cup {keypair}
        /\ proven' = proven \cup ({keyFile} \cap {keypair})
        /\ \/ identity' = keypair /\ pc' = "store"
           \/ identity' = None /\ pc' = "disabled"
        /\ UNCHANGED <<identityFile, keyFile, keys, starts, keypair, signing>>

(* store_enrolled_identity; a failure is only diagnosed. *)
StoreIdentity ==
  /\ pc = "store"
  /\ identityFile' \in {identity, identityFile}
  /\ pc' = "runtime"
  /\ UNCHANGED <<keyFile, registered, keys, starts, keypair, identity, proven, signing>>

(* The replay ledger is loaded and the response runtime built, which loads the
   key file again to sign artifacts. *)
RunResponse ==
  /\ pc = "runtime"
  /\ \/ /\ pc' = "running" /\ signing' \in Loads(keyFile)
        /\ UNCHANGED <<durable, starts, keypair, identity>>
     \/ Disabled

(* The process ends or crashes at any step; memory is gone. *)
Stop ==
  /\ pc # "down"
  /\ pc' = "down" /\ keypair' = None /\ identity' = None /\ signing' = None
  /\ UNCHANGED <<durable, starts>>

Next ==
  \/ Start \/ LoadIdentity \/ LoadKeypair \/ Generate \/ RequestChallenge
  \/ Enroll \/ StoreIdentity \/ RunResponse \/ Stop

Spec == Init /\ [][Next]_vars
-----------------------------------------------------------------------------
(* The Manager registers only keys that were on disk when they were sent
   (store_ec_keypair comes before enroll, and a failure drops the key), so a
   crash after the registration leaves the key behind; the response runs only
   under an identity the Manager issued; and a run that enrolled signs its
   artifacts with the key it registered or not at all. *)
EnrollmentSafe ==
  /\ registered \subseteq proven
  /\ pc = "running" => identity \in registered
  /\ pc = "running" /\ keypair # None => signing \in {keypair, None}

(* A key the Manager has registered stays on disk: the comment in main.cpp
   says the bootstrap will "never silently regenerate over an existing key
   file". *)
KeyKept == \A k \in registered : keyFile = k
=============================================================================

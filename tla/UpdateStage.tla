----------------------------- MODULE UpdateStage -----------------------------
(***************************************************************************)
(* The update library (update_package.cpp): signed publisher keysets and   *)
(* signed packages, both with a durable generation that only rises, in one *)
(* protected directory under one interprocess lock.  A package is copied   *)
(* to a temporary file, renamed to a name made of its generation and       *)
(* digest, and only then named by the state file, which is replaced        *)
(* atomically.  A signature is the name of the key that made it, and a     *)
(* unit of time is more than the tolerated clock difference.               *)
(***************************************************************************)
EXTENDS Naturals

CONSTANTS None,
          Manifests,  \* [gen, hash, issued, expires, key]
          Bundles,    \* [gen, issued, expires, signer, keys: set of [id, from, to]], to: retired or revoked
          Bootstrap,  \* the provisioned pins that may sign keysets
          Pins,       \* the publishers of a store with static pins
          MaxTime     \* bound: the clock

VARIABLES time,
          trust,     \* publisher-trust-state.json: a bundle or None
          state,     \* update-stage-state.json
          packages,  \* name -> None, "whole", "damaged"
          temp,      \* the temporary file: None or the digest of what was copied
          pc, request,
          snapshot,  \* the trust bundle the manifest was verified with, None for static pins
          staged, installed, \* history: what was answered with staged, installed
          hurt       \* names of packages damaged after the state named them

vars == <<time, trust, state, packages, temp, pc, request, snapshot, staged, installed, hurt>>

Name(m) == <<m.gen, m.hash>>
Named == {Name(m) : m \in {state.manifest, state.previous} \ {None}}
Generation(m) == IF m = None THEN 0 ELSE m.gen

(* load_state without a file. *)
NoState == [manifest |-> None, previous |-> None, intent |-> 0, bundle |-> None, previousBundle |-> None]

Init ==
  /\ time = 0 /\ trust = None /\ temp = None /\ pc = "idle" /\ request = None /\ snapshot = None
  /\ state = NoState
  /\ packages = [n \in {Name(m) : m \in Manifests} |-> None]
  /\ staged = {} /\ installed = {} /\ hurt = {}

-----------------------------------------------------------------------------
(* recover_transaction_temporaries, when a call begins under the lock. *)
Recover == temp' = None

(* atomic_write: a flushed temporary replaces the file. *)
Save(next) == state' = next

(* verify_staged_file: the size and the digest of what the name holds now. *)
Verified(n) == packages[n] = "whole"

(* verify_signed_payload: the signature of one of the pinned keys. *)
Signed(b) == b.signer \in Bootstrap

Active(b, t) == {k.id : k \in {key \in b.keys : key.from <= t /\ t < key.to}}

(* parse_trust_bundle: the signature, the window, and a publisher active now. *)
Parses(b) == Signed(b) /\ b.issued <= time /\ time < b.expires /\ Active(b, time) # {}

(* historical_publishers: the key was active when the manifest was issued,
   and the manifest was issued within the bundle's window. *)
Historical(b, m) == b.issued <= m.issued /\ m.issued < b.expires /\ m.key \in Active(b, m.issued)

(* install_signed_bundle: replays and forks are refused. *)
InstallBundle ==
  /\ pc = "idle"
  /\ \E b \in Bundles :
       /\ Parses(b) /\ b.gen > Generation(trust)
       /\ trust' = b /\ installed' = installed \cup {b}
  /\ Recover
  /\ UNCHANGED <<time, state, packages, pc, request, snapshot, staged, hurt>>

-----------------------------------------------------------------------------
(* verify_persisted_manifest, of what is staged already: by its own bundle, by
   the current one if the state has none, or by the static pins. *)
PriorVerifies ==
  state.manifest # None =>
    Historical(IF state.bundle = None THEN trust ELSE state.bundle, state.manifest)
PriorPinned == state.manifest # None => state.manifest.key \in Pins

(* Mutant: only a replay of the very manifest that is staged is refused. *)
AdmissibleOverStale(m) == state.manifest # None /\ m.gen = state.manifest.gen => m = state.manifest

(* Neither a replay below the high-water mark nor a fork of it. *)
Admissible(m) == m.gen > Generation(state.manifest) \/ m = state.manifest

(* verify_manifest: signed by one of the keys, within its window. *)
ManifestVerifies(m, keys) == m.key \in keys /\ m.issued <= time /\ time < m.expires

(* stage up to the copy; abandoned temporaries are removed first. *)
Begin ==
  /\ pc = "idle" /\ trust # None
  /\ \E m \in Manifests :
       /\ Parses(trust) /\ ManifestVerifies(m, Active(trust, time)) /\ PriorVerifies /\ Admissible(m)
       /\ request' = m
  /\ snapshot' = trust /\ Recover /\ pc' = "copy"
  /\ UNCHANGED <<time, trust, state, packages, staged, installed, hurt>>

(* The same for the deprecated store, whose pins have no lifecycle. *)
BeginPinned ==
  /\ pc = "idle"
  /\ \E m \in Manifests :
       /\ ManifestVerifies(m, Pins) /\ PriorPinned /\ Admissible(m)
       /\ request' = m
  /\ snapshot' = None /\ Recover /\ pc' = "copy"
  /\ UNCHANGED <<time, trust, state, packages, staged, installed, hurt>>

(* The call returns, and with it go its locals. *)
Return == pc' = "idle" /\ request' = None /\ snapshot' = None
Continue(next) == pc' = next /\ UNCHANGED <<request, snapshot>>

(* digest_open_handle copies the source it holds open; it may not be the
   package, and a package staged already is only verified. *)
Copy ==
  /\ pc = "copy"
  /\ \/ /\ temp' = request.hash
        /\ Continue(IF request = state.manifest THEN "again" ELSE "promote")
     \/ temp' = None /\ Return
  /\ UNCHANGED <<time, trust, state, packages, staged, installed, hurt>>

Again ==
  /\ pc = "again" /\ Return /\ temp' = None
  /\ UNCHANGED <<time, trust, state, packages, staged, installed, hurt>>

(* The rename replaces nothing: a file left by an interrupted call is
   verified instead. *)
Promote ==
  /\ pc = "promote" /\ temp' = None
  /\ IF packages[Name(request)] = None
     THEN packages' = [packages EXCEPT ![Name(request)] = "whole"] /\ Continue("commit")
     ELSE /\ packages' = packages
          /\ IF Verified(Name(request)) THEN Continue("commit") ELSE Return
  /\ UNCHANGED <<time, trust, state, staged, installed, hurt>>

Commit ==
  /\ pc = "commit" /\ Return
  /\ Save([manifest |-> request, previous |-> state.manifest, intent |-> 0, bundle |-> snapshot,
           previousBundle |-> IF state.manifest # None /\ state.bundle = None THEN snapshot ELSE state.bundle])
  /\ staged' = staged \cup {request} /\ hurt' = hurt \ {Name(request)}
  /\ UNCHANGED <<time, trust, packages, temp, installed>>

(* Any call fails, or the process ends: the lock is free, files stay. *)
Fails ==
  /\ pc # "idle" /\ Return
  /\ UNCHANGED <<time, trust, state, packages, temp, staged, installed, hurt>>

(* record_rollback_intent: both manifests against their bundles, or the static
   pins, and the candidate against its digest. *)
RecordRollbackIntent ==
  /\ pc = "idle" /\ state.previous # None
  /\ \/ /\ None \notin {state.bundle, state.previousBundle}
        /\ Historical(state.bundle, state.manifest)
        /\ Historical(state.previousBundle, state.previous)
     \/ {state.manifest.key, state.previous.key} \subseteq Pins
  /\ Verified(Name(state.previous))
  /\ Save([state EXCEPT !.intent = state.previous.gen]) /\ Recover
  /\ UNCHANGED <<time, trust, packages, pc, request, snapshot, staged, installed, hurt>>

(* External: the clock; a file is damaged. *)
Tick == time < MaxTime /\ time' = time + 1
        /\ UNCHANGED <<trust, state, packages, temp, pc, request, snapshot, staged, installed, hurt>>
Damage ==
  /\ pc = "idle"
  /\ \E n \in DOMAIN packages :
       /\ packages[n] = "whole" /\ packages' = [packages EXCEPT ![n] = "damaged"]
       /\ hurt' = IF n \in Named THEN hurt \cup {n} ELSE hurt
  /\ UNCHANGED <<time, trust, state, temp, pc, request, snapshot, staged, installed>>

Next == InstallBundle \/ Begin \/ BeginPinned \/ Copy \/ Again \/ Promote \/ Commit \/ Fails
        \/ RecordRollbackIntent \/ Tick \/ Damage
Spec == Init /\ [][Next]_vars

-----------------------------------------------------------------------------
(* The store never goes back and never names what it does not hold: the
   staged generation is the highest ever staged, no generation has two
   manifests or keysets, a pinned key signed every keyset, the state names only
   packages that were whole when it did, a rollback selects an older staged
   package, and what is staged was signed by a publisher of the keyset recorded
   with it, by a static pin if none is; over crashes between rename and state,
   retries, damaged leftovers and stores of both kinds on one directory. *)
StageSafe ==
  /\ \A m \in staged : m.gen <= Generation(state.manifest)
  /\ \A m, n \in staged : m.gen = n.gen => m = n
  /\ \A b \in installed : b.signer \in Bootstrap /\ b.gen <= trust.gen /\ (b.gen = trust.gen => b = trust)
  /\ \A n \in Named : packages[n] = "whole" \/ n \in hurt
  /\ state.intent # 0 => state.previous.gen = state.intent /\ state.intent < state.manifest.gen
  /\ state.manifest # None =>
       IF state.bundle = None THEN state.manifest.key \in Pins
       ELSE state.bundle \in installed /\ state.manifest.key \in {k.id : k \in state.bundle.keys}
=============================================================================

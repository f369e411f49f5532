------------------------------ MODULE EtwSession ------------------------------
(***************************************************************************)
(* Ownership of the kernel trace session (etw_process_collector.cpp).  A   *)
(* session outlives the process that started it.  Its name and GUID are    *)
(* committed as an intent before it is started, so that the next agent can *)
(* stop exactly this session and no other.  Agents are processes; two of   *)
(* them may overlap, and each makes at most one GUID, so that the agent    *)
(* also names its session.                                                 *)
(***************************************************************************)
EXTENDS Naturals

CONSTANTS None,
          Agents,    \* processes that are ever started
          MaxBoots   \* bound: boots of the host

VARIABLES step,      \* the step of each agent: "new", ..., "dead"
          prior,     \* the checkpoint it loaded
          session,   \* the native session of each name: None, "own", "foreign"
          held,      \* its session handle is not zero
          checkpoint, \* None or [guid, boot, revision]; the guid is also the owner
          boot,
          overlap    \* ghost: a session was found absent that its owner was about to start

vars == <<step, prior, session, held, checkpoint, boot, overlap>>

Init ==
  /\ step = [a \in Agents |-> "new"] /\ prior = [a \in Agents |-> None]
  /\ session = [a \in Agents |-> None] /\ held = [a \in Agents |-> FALSE]
  /\ checkpoint = None /\ boot = 1 /\ overlap = FALSE

Alive(a) == step[a] \notin {"new", "dead"}
Go(a, to) == step' = [step EXCEPT ![a] = to]
Quiet == UNCHANGED <<prior, session, held, checkpoint, boot, overlap>>

-----------------------------------------------------------------------------
(* prepare_session: load the checkpoint and reclaim what it names.  Every call
   may be refused; the agent is then idle: it runs without this source. *)
Load(a) ==
  /\ step[a] = "new" /\ Go(a, IF checkpoint = None THEN "intent" ELSE "query")
  /\ prior' = [prior EXCEPT ![a] = checkpoint]
  /\ UNCHANGED <<session, held, checkpoint, boot, overlap>>

(* The session of the recorded name; one with another GUID is left alone, and
   one of another or an unknown boot is not reclaimed. *)
Query(a) ==
  /\ step[a] = "query"
  /\ \/ /\ session[prior[a].guid] = None /\ Go(a, "intent")
        /\ overlap' = (overlap \/ step[prior[a].guid] = "start")
     \/ session[prior[a].guid] = "own" /\ prior[a].boot = boot /\ Go(a, "owner") /\ UNCHANGED overlap
     \/ Go(a, "idle") /\ UNCHANGED overlap
  /\ UNCHANGED <<prior, session, held, checkpoint, boot>>

(* Mutant: whether the recorded owner still runs is not looked at. *)
CheckOwnerUnread(a) ==
  /\ step[a] = "owner" /\ (Go(a, "requery") \/ Go(a, "idle")) /\ Quiet

(* The recorded process and creation time: a living owner keeps its session. *)
CheckOwner(a) ==
  /\ step[a] = "owner"
  /\ \/ ~Alive(prior[a].guid) /\ Go(a, "requery")
     \/ Go(a, "idle")
  /\ Quiet

Requery(a) ==
  /\ step[a] = "requery"
  /\ \/ session[prior[a].guid] = None /\ Go(a, "intent")
     \/ session[prior[a].guid] = "own" /\ Go(a, "stop")
     \/ Go(a, "idle")
  /\ Quiet

(* EVENT_TRACE_CONTROL_STOP by name: what has the name by now. *)
StopOrphan(a) ==
  /\ step[a] = "stop"
  /\ \/ Go(a, "intent") /\ session' = [session EXCEPT ![prior[a].guid] = None]
     \/ Go(a, "idle") /\ UNCHANGED session
  /\ UNCHANGED <<prior, held, checkpoint, boot, overlap>>

Revision(c) == IF c = None THEN 0 ELSE c.revision

(* The intent is committed against the revision that was loaded; the boot may
   be unknown. *)
CommitIntent(a) ==
  /\ step[a] = "intent"
  /\ \/ /\ Revision(checkpoint) = Revision(prior[a])
        /\ \E b \in {boot, None} :
             checkpoint' = [guid |-> a, boot |-> b, revision |-> Revision(prior[a]) + 1]
        /\ Go(a, "start")
     \/ Go(a, "idle") /\ UNCHANGED checkpoint
  /\ UNCHANGED <<prior, session, held, boot, overlap>>

-----------------------------------------------------------------------------
(* start: StartTrace, then provider, trace and consumer thread. *)
StartTrace(a) ==
  /\ step[a] = "start"
  /\ \/ Go(a, "open") /\ session' = [session EXCEPT ![a] = "own"] /\ held' = [held EXCEPT ![a] = TRUE]
     \/ Go(a, "idle") /\ UNCHANGED <<session, held>>
  /\ UNCHANGED <<prior, checkpoint, boot, overlap>>

Opened(a) == step[a] = "open" /\ Go(a, "running") /\ Quiet

(* stop_session_only: a session that cannot be queried, has another GUID or
   refuses to stop stays. *)
StopSessionOnly(a) ==
  /\ held[a] /\ held' = [held EXCEPT ![a] = FALSE]
  /\ \/ session[a] = "own" /\ session' = [session EXCEPT ![a] = None]
     \/ UNCHANGED session
  /\ Go(a, "idle") /\ UNCHANGED <<prior, checkpoint, boot, overlap>>

OpenFails(a) == step[a] = "open" /\ StopSessionOnly(a)
Stop(a) == step[a] = "running" /\ StopSessionOnly(a)

-----------------------------------------------------------------------------
(* External: an agent ends in any step; the host restarts; an administrator
   replaces or removes a session. *)
Ends(a) ==
  /\ Alive(a) /\ Go(a, "dead") /\ held' = [held EXCEPT ![a] = FALSE]
  /\ UNCHANGED <<prior, session, checkpoint, boot, overlap>>

Reboot ==
  /\ boot < MaxBoots /\ boot' = boot + 1
  /\ step' = [a \in Agents |-> IF Alive(a) THEN "dead" ELSE step[a]]
  /\ session' = [a \in Agents |-> None] /\ held' = [a \in Agents |-> FALSE]
  /\ UNCHANGED <<prior, checkpoint, overlap>>

Replace(a) ==
  /\ session[a] = "own" /\ session' = [session EXCEPT ![a] = "foreign"]
  /\ UNCHANGED <<step, prior, held, checkpoint, boot, overlap>>

Next ==
  \/ Reboot
  \/ \E a \in Agents :
       \/ Load(a) \/ Query(a) \/ CheckOwner(a) \/ Requery(a) \/ StopOrphan(a) \/ CommitIntent(a)
       \/ StartTrace(a) \/ Opened(a) \/ OpenFails(a) \/ Stop(a) \/ Ends(a) \/ Replace(a)

Spec == Init /\ [][Next]_vars

-----------------------------------------------------------------------------
(* No agent loses its session to another one's recovery, however the two
   overlap; and a session that its owner left behind, by a crash in any step
   or a refused stop, is the one the checkpoint names, so that none is ever
   beyond recovery.  The second holds as long as no agent found the session of
   another absent that had committed its intent and not started it yet. *)
SessionsKept ==
  /\ \A a \in Agents : held[a] => session[a] # None
  /\ ~overlap => \A a \in Agents : session[a] = "own" => checkpoint # None /\ checkpoint.guid = a
=============================================================================

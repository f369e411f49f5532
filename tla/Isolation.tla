------------------------------ MODULE Isolation ------------------------------
(***************************************************************************)
(* Host isolation (isolation.cpp, the isolate_host and                     *)
(* release_host_isolation cases of main.cpp): one transaction of the       *)
(* Windows Filtering Platform replaces the agent's filters, or removes     *)
(* them, and in both cases migrates the filters of an earlier version.     *)
(*                                                                         *)
(* The platform keeps a committed image and the image of the open          *)
(* transaction, which excludes other writers and is aborted when its       *)
(* session ends.  Another program may have taken one of the agent's keys.  *)
(***************************************************************************)
EXTENDS Naturals

CONSTANTS None,
          Endpoints,   \* manager exceptions; None for a host without one
          V4, V6,      \* the endpoints that are specific addresses of a family
          MaxForeign   \* bound: changes by another program

VARIABLES wfp,      \* committed: key -> None, "foreign", "block", or a permitted endpoint
          tx,       \* the image of the open transaction, or None
          pc, action, plan,
          allOk,    \* release_isolation: every object could be removed
          policy,   \* the objects the last successful command asked for
          foreign,  \* keys another program has taken
          changes

vars == <<wfp, tx, pc, action, plan, allOk, policy, foreign, changes>>

Blocks == {"out4", "in4", "out6", "in6"}
Filters == Blocks \cup {"permit4", "permit6"}
Legacy == {"v1"}
Layers == {"layer", "v1layer"}
Keys == Filters \cup Legacy \cup Layers

(* The objects on the host of an isolated agent; the layers hold "block". *)
Isolated(e) ==
  [k \in Keys |-> CASE k \in Blocks \cup {"layer"} -> "block"
                    [] k = "permit4" /\ e \in V4 -> e
                    [] k = "permit6" /\ e \in V6 -> e
                    [] OTHER -> None]
Released == [k \in Keys |-> None]
IsolatedV1 == [k \in Keys |-> IF k \in Legacy \cup {"v1layer"} THEN "block" ELSE None]

Init ==
  /\ wfp \in {Released, IsolatedV1}
  /\ policy = wfp
  /\ tx = None /\ pc = "idle" /\ action = None /\ plan = None
  /\ allOk = TRUE /\ foreign = {} /\ changes = 0

-----------------------------------------------------------------------------
(* The handler returns nullopt; the transaction's destructor aborts it. *)
Fails == pc' = "idle" /\ tx' = None /\ allOk' = TRUE /\ UNCHANGED <<wfp, policy>>

Step(from, to) == pc = from /\ pc' = to /\ UNCHANGED <<wfp, policy, action, plan, foreign, changes>>

(* Any call may report an error; the process may end in any of them. *)
CallFails == pc # "idle" /\ Fails /\ UNCHANGED <<action, plan, foreign, changes>>

Command ==
  /\ pc = "idle" /\ pc' = "open"
  /\ action' \in {"isolate", "release"} /\ plan' \in Endpoints
  /\ UNCHANGED <<wfp, tx, allOk, policy, foreign, changes>>

(* parse_numeric_manager comes before the engine is opened. *)
BadException == pc = "open" /\ action = "isolate" /\ plan \notin V4 \cup V6 \cup {None}

Open ==
  /\ ~BadException
  /\ Step("open", IF action = "isolate" THEN "ensure" ELSE "remove")
  /\ tx' = wfp /\ UNCHANGED allOk

(* delete_filter_if_owned, delete_sublayer_if_owned. *)
Deleted(image, keys) == [k \in Keys |-> IF k \in keys /\ image[k] # "foreign" THEN None ELSE image[k]]
Owned(image, keys) == \A k \in keys : image[k] # "foreign"

EnsureSublayer ==
  /\ Step("ensure", "replace") /\ tx.layer # "foreign"
  /\ tx' = [tx EXCEPT !.layer = "block"] /\ UNCHANGED allOk

(* Mutant: only the filters that will be added again are deleted. *)
ReplaceFiltersOfPlan ==
  LET again == Blocks \cup (IF plan \in V4 THEN {"permit4"} ELSE IF plan \in V6 THEN {"permit6"} ELSE {})
  IN /\ Step("replace", "add") /\ Owned(tx, again)
     /\ tx' = Deleted(tx, again) /\ UNCHANGED allOk

ReplaceFilters ==
  /\ Step("replace", "add") /\ Owned(tx, Filters)
  /\ tx' = Deleted(tx, Filters) /\ UNCHANGED allOk

(* add_block four times, then add_manager_permit for the family; a key that
   is still taken is an error. *)
AddFilters ==
  LET added == {k \in Filters : Isolated(plan)[k] # None}
  IN /\ Step("add", "legacy") /\ \A k \in added : tx[k] = None
     /\ tx' = [k \in Keys |-> IF k \in added THEN Isolated(plan)[k] ELSE tx[k]]
     /\ UNCHANGED allOk

(* release_isolation goes on after an object it does not own. *)
RemoveFilters ==
  /\ Step("remove", "legacy")
  /\ tx' = Deleted(tx, Filters \cup {"layer"})
  /\ allOk' = Owned(tx, Filters \cup {"layer"})

RemoveLegacy ==
  /\ Step("legacy", "commit")
  /\ Owned(tx, Legacy \cup {"v1layer"}) /\ allOk
  /\ tx' = Deleted(tx, Legacy \cup {"v1layer"}) /\ UNCHANGED allOk

Commit ==
  /\ pc = "commit" /\ pc' = "idle" /\ wfp' = tx /\ tx' = None
  /\ policy' = IF action = "isolate" THEN Isolated(plan) ELSE Released
  /\ UNCHANGED <<action, plan, allOk, foreign, changes>>

(* External: another program adds an object under a free key, or removes it. *)
Foreign ==
  /\ tx = None /\ changes < MaxForeign /\ changes' = changes + 1
  /\ \E k \in Keys :
       \/ wfp[k] = None /\ wfp' = [wfp EXCEPT ![k] = "foreign"] /\ foreign' = foreign \cup {k}
       \/ wfp[k] = "foreign" /\ wfp' = [wfp EXCEPT ![k] = None] /\ foreign' = foreign \ {k}
  /\ UNCHANGED <<tx, pc, action, plan, allOk, policy>>

Next ==
  \/ Command \/ Open \/ EnsureSublayer \/ ReplaceFilters \/ AddFilters \/ RemoveFilters
  \/ RemoveLegacy \/ Commit \/ CallFails \/ Foreign

Spec == Init /\ [][Next]_vars

-----------------------------------------------------------------------------
(* The host is always under exactly one whole policy: the agent's objects are
   those of the last command that succeeded, blocks and the one permit for
   its manager address together, over repeated isolation with another
   address, migration, failing calls and aborted transactions; and what
   another program put under one of the keys is not touched. *)
PolicyWhole ==
  /\ \A k \in Keys : wfp[k] = "foreign" <=> k \in foreign
  /\ \A k \in Keys \ foreign : wfp[k] = policy[k]
=============================================================================

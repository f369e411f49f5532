--------------------------- MODULE ChangeWatchers ---------------------------
(***************************************************************************)
(* The registry, service and network change watchers: a native source      *)
(* whose callbacks fill a bounded queue, and the worker of src/main.cpp    *)
(* that takes one notification at a time, keeps it as the pending record   *)
(* until the journal accepts it, and reports refused callbacks as a gap.   *)
(* One behaviour exercises one watcher.                                    *)
(***************************************************************************)
EXTENDS Naturals, Sequences, FiniteSets, SequencesExt

CONSTANTS None,
          Watchers,      \* the watchers exercised
          QueueLimit, DrainLimit,   \* callback queue; rows of one shutdown drain
          MaxCallbacks, MaxSnapshots

VARIABLES watcher,
          source,        \* "off", "on", "stopping", "stopped"
          sequence,      \* callbacks that reached the process
          queue,         \* notifications not drained, by sequence number
          refused,       \* callbacks counted as lost by the source
          reported,      \* how many of them the worker has put into a gap
          snapshots,     \* snapshots the source still holds
          stop, pc,      \* the stop request; the worker
          pending,       \* the record awaiting acceptance, or None
          batch,         \* records drained at shutdown and not yet retained
          journal,       \* what the journal holds: rows, gap totals, snapshots, manifest
          discarded      \* ghost: rows drained and then dropped

vars == <<watcher, source, sequence, queue, refused, reported, snapshots, stop, pc, pending,
          batch, journal, discarded>>

Rows == 1 .. MaxCallbacks
Row(n) == [kind |-> "row", row |-> n]
Gap(n) == [kind |-> "gap", lost |-> n]
Other(k) == [kind |-> k]
RowsOf(records) == {r.row : r \in {q \in Range(records) : q.kind = "row"}}

Init ==
    /\ watcher \in Watchers
    /\ source = IF watcher = "registry" THEN "on" ELSE "off"
    /\ pc = IF watcher = "registry" THEN "run" ELSE "start"
    /\ sequence = 0 /\ queue = <<>> /\ refused = 0 /\ reported = 0
    /\ snapshots = 0 /\ stop = FALSE /\ pending = None /\ batch = <<>> /\ discarded = {}
    /\ journal = [rows |-> <<>>, lost |-> 0, snapshots |-> 0, manifest |-> FALSE]

Sourced == UNCHANGED <<watcher, source, sequence, queue, refused, snapshots>>
Held == UNCHANGED <<batch, discarded, stop>>
Smaller(m, n) == IF m < n THEN m ELSE n

-----------------------------------------------------------------------------
(* The source.                                                             *)

\* A full queue refuses the notification and counts it.
Enqueue ==
    /\ sequence < MaxCallbacks /\ sequence' = sequence + 1
    /\ IF source = "on" /\ Len(queue) < QueueLimit
       THEN queue' = Append(queue, sequence') /\ UNCHANGED refused
       ELSE refused' = refused + 1 /\ UNCHANGED queue
    /\ UNCHANGED <<watcher, source, reported, snapshots, stop, pc, pending, batch, journal, discarded>>

RegistryCallback == watcher = "registry" /\ source = "on" /\ Enqueue

\* While it is being stopped the service source ignores callbacks.
ServiceCallback == watcher = "service" /\ source = "on" /\ Enqueue

\* The network source counts them as refused then.
NetworkCallback == watcher = "network" /\ source \in {"on", "stopping"} /\ Enqueue

Callback == RegistryCallback \/ ServiceCallback \/ NetworkCallback

\* The service source enumerates again and again; the registry watch has no snapshots.
Reconcile ==
    /\ watcher = "service" /\ source = "on"
    /\ snapshots = 0 /\ journal.snapshots < MaxSnapshots /\ snapshots' = 1
    /\ UNCHANGED <<watcher, source, sequence, queue, refused, reported, stop, pc, pending, batch,
                   journal, discarded>>

-----------------------------------------------------------------------------
(* The pending record.                                                     *)

Committed(p) ==
    CASE p.kind = "row"      -> [journal EXCEPT !.rows = Append(@, p.row)]
      [] p.kind = "gap"      -> [journal EXCEPT !.lost = @ + p.lost]
      [] p.kind = "snapshot" -> [journal EXCEPT !.snapshots = @ + 1]
      [] p.kind = "manifest" -> [journal EXCEPT !.manifest = TRUE]
      [] OTHER               -> journal

Accept == pending # None /\ journal' = Committed(pending) /\ pending' = None
Refuse == pending # None /\ UNCHANGED <<journal, pending>>

\* A plausible slip: the total already reported is not carried forward.
ReportLossKeepingTotal == pending' = Gap(refused - reported) /\ UNCHANGED reported

ReportLoss == pending' = Gap(refused - reported) /\ reported' = refused

TakeRow == /\ queue # <<>> /\ pending' = Row(Head(queue)) /\ queue' = Tail(queue)
           /\ UNCHANGED <<watcher, source, sequence, refused, snapshots>>

-----------------------------------------------------------------------------
(* The registry worker.                                                    *)

\* A notification first; the losses are read under another lock.
RegistryTake ==
    /\ watcher = "registry" /\ pc = "run" /\ pending = None
    /\ \/ TakeRow /\ UNCHANGED pc
       \/ queue = <<>> /\ pc' = "losses" /\ Sourced /\ UNCHANGED pending
    /\ Held /\ UNCHANGED <<reported, journal>>

RegistryLosses ==
    /\ watcher = "registry" /\ pc = "losses"
    /\ IF refused > reported THEN ReportLoss /\ pc' = "run"
       ELSE pc' = (IF stop THEN "ended" ELSE "run") /\ UNCHANGED <<pending, reported>>
    /\ Sourced /\ Held /\ UNCHANGED journal

RegistryCommit ==
    /\ watcher = "registry" /\ pc = "run"
    /\ \/ Accept /\ UNCHANGED pc
       \/ Refuse /\ pc' = (IF stop THEN "ended" ELSE "run")
    /\ Sourced /\ Held /\ UNCHANGED reported

\* Shutdown stops the watch, and only then its worker.
RegistryWatchStops ==
    /\ watcher = "registry" /\ source = "on" /\ source' = "stopped"
    /\ UNCHANGED <<watcher, sequence, queue, refused, reported, snapshots, stop, pc, pending, batch,
                   journal, discarded>>

RequestStop ==
    /\ ~stop /\ (watcher = "registry" => source = "stopped") /\ stop' = TRUE
    /\ UNCHANGED <<watcher, source, sequence, queue, refused, reported, snapshots, pc, pending,
                   batch, journal, discarded>>

-----------------------------------------------------------------------------
(* The service worker.                                                     *)

ServiceStart ==
    /\ watcher = "service" /\ pc = "start" /\ pc' = "run"
    /\ source' \in {"on", "off"} /\ snapshots' = (IF source' = "on" THEN 1 ELSE 0)
    /\ pending' = Other("begin")
    /\ Held /\ UNCHANGED <<watcher, sequence, queue, refused, reported, journal>>

ServiceCommit ==
    /\ watcher = "service" /\ pc = "run" /\ ~stop
    /\ Accept \/ Refuse
    /\ Sourced /\ Held /\ UNCHANGED <<pc, reported>>

ServiceTake ==
    /\ watcher = "service" /\ pc = "run" /\ ~stop /\ pending = None
    /\ \/ /\ snapshots > 0 /\ snapshots' = 0 /\ pending' = Other("snapshot")
          /\ UNCHANGED <<watcher, source, sequence, queue, refused, reported>>
       \/ /\ snapshots = 0 /\ refused > reported /\ ReportLoss /\ Sourced
       \/ /\ snapshots = 0 /\ refused = reported /\ TakeRow /\ UNCHANGED reported
    /\ Held /\ UNCHANGED <<pc, journal>>

ServiceStop ==
    /\ watcher = "service" /\ pc = "run" /\ stop
    /\ source' = "stopped" /\ pc' = "drain"
    /\ Held /\ UNCHANGED <<watcher, sequence, queue, refused, reported, snapshots, pending, journal>>

\* One row at a time; the first refusal ends the drain with the row still pending.
ServiceDrain ==
    /\ watcher = "service" /\ pc = "drain"
    /\ \/ Accept /\ Sourced /\ UNCHANGED pc
       \/ Refuse /\ Sourced /\ pc' = "ended"
       \/ pending = None /\ TakeRow /\ UNCHANGED <<pc, journal>>
       \/ pending = None /\ queue = <<>> /\ Sourced /\ pc' = "ended" /\ UNCHANGED <<pending, journal>>
    /\ Held /\ UNCHANGED reported

-----------------------------------------------------------------------------
(* The network worker.                                                     *)

\* The source takes callbacks as soon as the first table is registered.
NetworkStart ==
    /\ watcher = "network" /\ pc = "start" /\ ~stop /\ pc' = "register"
    /\ source' = "on" /\ pending' = Other("begin")
    /\ Held /\ UNCHANGED <<watcher, sequence, queue, refused, reported, snapshots, journal>>

\* When a registration fails, those made are cancelled and the callbacks in flight awaited;
\* what they queued stays.  A cancel that fails leaves the source stopping.
NetworkRegister ==
    /\ watcher = "network"
    /\ \/ /\ pc = "register" /\ pc' = "run" /\ snapshots' = MaxSnapshots /\ UNCHANGED source
       \/ /\ pc = "register" /\ pc' = "cancel" /\ source' = "stopping" /\ UNCHANGED snapshots
       \/ /\ pc = "cancel" /\ pc' = "run" /\ source' \in {"stopped", "stopping"}
          /\ UNCHANGED snapshots
    /\ Held /\ UNCHANGED <<watcher, sequence, queue, refused, reported, pending, journal>>

NetworkCommit ==
    /\ watcher = "network" /\ pc = "run" /\ ~stop
    /\ Accept \/ Refuse
    /\ Sourced /\ Held /\ UNCHANGED <<pc, reported>>

\* The manifest as soon as every snapshot is committed, then snapshots before rows.
NetworkTake ==
    /\ watcher = "network" /\ pc = "run" /\ ~stop /\ pending = None
    /\ \/ /\ journal.snapshots = MaxSnapshots /\ ~journal.manifest
          /\ pending' = Other("manifest") /\ Sourced /\ UNCHANGED reported
       \/ /\ journal.snapshots = MaxSnapshots => journal.manifest
          /\ source = "on"
          /\ \/ /\ snapshots > 0 /\ snapshots' = snapshots - 1 /\ pending' = Other("snapshot")
                /\ UNCHANGED <<watcher, source, sequence, queue, refused, reported>>
             \/ /\ snapshots = 0 /\ TakeRow /\ UNCHANGED reported
             \/ /\ snapshots = 0 /\ queue = <<>> /\ refused > reported /\ ReportLoss /\ Sourced
    /\ Held /\ UNCHANGED <<pc, journal>>

\* Cancelling the subscriptions waits for the callbacks in flight; it too may fail.
NetworkStop ==
    /\ watcher = "network"
    /\ \/ pc \in {"start", "run"} /\ stop /\ pc' = (IF source = "off" THEN "ended" ELSE "stopping")
          /\ source' = (IF source = "on" THEN "stopping" ELSE source)
       \/ pc = "stopping" /\ pc' = "drain" /\ source' \in {source, "stopped"}
    /\ Held /\ UNCHANGED <<watcher, sequence, queue, refused, reported, snapshots, pending, journal>>

\* Up to DrainLimit records leave the source together, the snapshots left first.
NetworkDrain ==
    /\ watcher = "network" /\ pc = "drain" /\ batch = <<>>
    /\ \/ Accept /\ Sourced /\ UNCHANGED <<batch, pc>>
       \/ Refuse /\ Sourced /\ pc' = "final" /\ UNCHANGED batch
       \/ /\ pending = None
          /\ LET n == Smaller(DrainLimit, snapshots + Len(queue))
                 k == Smaller(n, snapshots)
             IN  IF n = 0
                 THEN pc' = "final" /\ Sourced /\ UNCHANGED <<batch, journal, pending>>
                 ELSE /\ batch' = [i \in 1 .. k |-> Other("snapshot")]
                                  \o [i \in 1 .. n - k |-> Row(queue[i])]
                      /\ queue' = SubSeq(queue, n - k + 1, Len(queue))
                      /\ snapshots' = snapshots - k
                      /\ UNCHANGED <<watcher, source, sequence, refused, pc, journal, pending>>
    /\ UNCHANGED <<reported, stop, discarded>>

\* Each record of the batch is offered once; a refusal leaves it pending, and the rest of
\* the batch is dropped when the loop returns to the pending record.
NetworkRow ==
    /\ watcher = "network" /\ pc = "drain" /\ batch # <<>>
    /\ \/ /\ journal' = Committed(Head(batch)) /\ batch' = Tail(batch)
          /\ UNCHANGED <<pending, discarded>>
       \/ /\ pending' = Head(batch) /\ batch' = <<>>
          /\ discarded' = discarded \cup RowsOf(Tail(batch)) /\ UNCHANGED journal
    /\ Sourced /\ UNCHANGED <<reported, stop, pc>>

\* The last gap is offered once.
NetworkFinal ==
    /\ watcher = "network" /\ pc = "final" /\ pc' = "ended"
    /\ \/ /\ refused > reported /\ reported' = refused
          /\ journal' = [journal EXCEPT !.lost = @ + (refused - reported)]
       \/ UNCHANGED <<reported, journal>>
    /\ Sourced /\ Held /\ UNCHANGED pending

-----------------------------------------------------------------------------
Work == \/ RegistryTake \/ RegistryLosses \/ RegistryCommit
        \/ ServiceStart \/ ServiceCommit \/ ServiceTake \/ ServiceStop \/ ServiceDrain
        \/ NetworkStart \/ NetworkRegister \/ NetworkCommit \/ NetworkTake \/ NetworkStop \/ NetworkDrain
        \/ NetworkRow \/ NetworkFinal

Next == Callback \/ Reconcile \/ RegistryWatchStops \/ RequestStop \/ Work
Spec == Init /\ [][Next]_vars /\ WF_vars(Work)

-----------------------------------------------------------------------------
InHand == RowsOf(batch) \cup (IF pending # None THEN RowsOf(<<pending>>) ELSE {})
LostInHand == IF pending # None /\ pending.kind = "gap" THEN pending.lost ELSE 0

\* Every notification that reached the process is in one place: the queue, the worker's
\* hands, the journal or the source's loss count; rows reach the journal in the order they
\* came; the gaps tell each loss once; a manifest follows all of its snapshots.  The one
\* exception is discarded: the rest of a batch of the network worker's last drain, when the
\* journal refuses a record of it.
ChangesAccounted ==
    /\ sequence = Len(queue) + Cardinality(InHand) + Len(journal.rows) + refused
                  + Cardinality(discarded)
    /\ Range(queue) \cap InHand = {} /\ Range(journal.rows) \cap (Range(queue) \cup InHand) = {}
    /\ \A i, j \in 1 .. Len(journal.rows) : i < j => journal.rows[i] < journal.rows[j]
    /\ reported = journal.lost + LostInHand
    /\ journal.manifest => journal.snapshots = MaxSnapshots

\* A watcher that is asked to stop ends, whatever the journal answers, as long as it answers.
WatcherEnds == stop ~> pc = "ended"

=============================================================================

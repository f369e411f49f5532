# Officer: a TLA+ verification of the endpoint agent

Officer is the Windows endpoint agent of Panopticon. It collects telemetry, keeps
every observation in an encrypted SQLite journal, delivers it to the Manager,
and, when response is enabled, executes commands the Manager issues. This
directory holds TLA+ specifications of the parts of Officer whose correctness
depends on interleaving, crashes and retries, the TLC models that check them on
small instances, and proofs, checked by TLAPS, of the properties that matter most
for every value of the parameters.

## The system

| Part | Source | Runs as | Module |
|---|---|---|---|
| Durable journal | `src/delivery/journal.cpp` | under one mutex, any thread | `Journal` |
| Uploader | `src/delivery/uploader.cpp` | one worker; callers enqueue | `Delivery` |
| Legacy spool | `src/delivery/spool.cpp` | its files are imported once | `Journal` (frames) |
| Raw handoff | `src/pipeline/raw_handoff.cpp` | callbacks, one worker, main thread | `RawHandoff` |
| Response runtime | `src/main.cpp` 430-882, `src/response/command.cpp`, `result_outbox.hpp` | one thread | `Response` |
| Response transport | `src/response/transport.cpp` | called by the response thread | outcomes in `Response`; `ArtifactUpload`, `Enrollment` |
| Artifact outbox | `artifact_outbox.hpp`, `main.cpp` 500-557 | one upload thread | `ArtifactUpload` |
| Process termination | `src/response/process_actions.cpp` | response thread | `ProcessTermination`; one step in `Response` |
| Host isolation | `src/response/isolation.cpp` | response thread | `Isolation`; one step in `Response` |
| Quarantine, evidence | `src/response/file_evidence.cpp` | response thread | `Quarantine`; one step in `Response` |
| File acquisition | `src/forensics/file_acquisition.cpp` | response thread | `FileAcquisition`; its manifest in `Response` |
| Keys, identity, enrolment | `src/response/keypair.cpp`, `identity.cpp`, `main.cpp` 3260-3330 | main thread | `Enrollment` |
| Source supervision | `src/main.cpp` 3381-3527, `src/health/source_supervisor.cpp` | main thread | `SourceSupervision` |
| Health records | `src/health/state_freshness.cpp`, `src/main.cpp` 3534-3745 | main thread | `Freshness`, `HealthHistory` |
| Capture workers | `src/main.cpp` 1229-3173 | a thread per inventory | `CaptureWorkers` |
| State inventories | `src/state/` | called by a capture worker | `Collectors` |
| Callback collectors | ETW, Sysmon | native threads | `NativeCollectors`, `EtwSession` |
| Checkpointed collectors | USN journal, event log, file integrity | a worker per source | `UsnJournal`, `VolumeDiscovery`, `WindowsEventLog`, `FileIntegrity` |
| Change watchers | registry, service, network | a worker each | `ChangeWatchers` |
| Diagnostic output | `src/pipeline/diagnostic_output.cpp` | one worker | `DiagnosticOutput` |
| Service host | `src/runtime/service_host.cpp`, `main.cpp` shutdown | main thread, control handler | `ServiceHost`, `RawHandoff` |
| Signed configuration | `src/configuration/policy.cpp` | library only | `PolicyStore` |
| Update staging | `src/deployment/update_package.cpp` | library only | `UpdateStage` |
| Process identity and graph | `src/core/`, `journal.cpp` 613-725 | under the journal mutex | index counters in `Journal` |
| Decoding, normalization, serialization, HTTP, query tool | several | sequential | not modelled |

Everything a collector observes becomes a line. Callback collectors give decoded
events to the raw handoff, whose worker turns them into lines; the other
collectors produce lines themselves, mostly together with a source checkpoint.
Lines are committed to the journal, the uploader's worker posts them in batches
and settles them by the Manager's receipt. The response thread has its own
database: an inbox of commands and an outbox of results. `PROJECT.json` lists the
components with what is left out of each and why, the source lines each definition
translates, and the hazards the code is exposed to with the properties that watch
them.

## Modules

* **`ByteSums`**: the sum of a function over a finite set, defined by counting
  pairs so that it can be reasoned about without recursion.
* **`Journal`**: the database as a record of tables and counters. `db` is the
  committed image, `view` what the connection sees inside a transaction, `tx` the
  open transaction of a receipt or of a legacy frame. Triggers are part of the
  operators that insert and delete rows. Appends, checkpointed appends, checkpoint
  advances, graph backfill, receipts, the inbox statements, legacy import,
  rollback and crash are the actions. Receipts and imports take a step per
  row, so that a crash or a failing statement can fall between two rows.
* **`Custody`**: the abstract promise of delivery. A line belongs to the source, the
  agent, the Manager or the dead letters, and changes hands only in these ways.
* **`Delivery`**: extends `Journal` with the uploader: callers, the worker's loop
  (wait, burst, backoff, stop), the request and its outcomes, and a Manager that
  stores what it accepts. Answers are lost, repeated, garbled or refused.
* **`CommandLife`**: the abstract promise of the response path. A command runs at
  most once, and an answer, once given, is one that the run justifies and stays.
* **`Response`**: the response thread, a step per call that changes durable state:
  poll, receive, begin, gate, acceptance, execution, finish, save to the outbox,
  mark outboxed, flush. Any of them may throw; the process may crash before each.
* **`BoundedQueue`**: an abstract FIFO with a limit.
* **`RawHandoff`**: the ring with its head, tail and counters, the worker, the main
  thread that samples the counters and reports growth as a gap record, and the
  shutdown that stops collectors, closes the ring and joins the worker.

The observing threads share nothing but the journal, whose answer each of them takes as
accepted or refused:

* **`CaptureWorkers`** (with **`Freshness`**, the pure derivation of a published state):
  every inventory worker of `main.cpp`. The loops differ in pages, in what a refused page
  means and in when they publish; each worker is a definition over the shared steps.
* **`Collectors`**: the enumerations those workers call, item by item, with page, entry and
  item limits, refused pages, unreadable items and cancellation.
* **`SourceSupervision`**: the comparison of sampled counters with the durable baseline.
* **`HealthHistory`**: the bounded history of freshness changes and its omission summaries.
* **`ChangeWatchers`**: callbacks, queues, drains, losses and shutdown of three watchers, with
  subscriptions that fail half-way. Rows that the last drain of the network watcher leaves behind
  after a refused commit are counted in `discarded`: the code drops them, and `LossesTold` is
  about all others.
* **`UsnJournal`**, **`WindowsEventLog`**: load the cursor, compare, gap, read, commit, with a
  native journal that is trimmed, cleared and created anew at any time.
  **`VolumeDiscovery`**: the set of volumes and their workers.
* **`FileIntegrity`**: the bounded walk of a tree and the change notifications around it.
* **`NativeCollectors`**: start, callbacks and stop of the Sysmon subscription and of the
  trace consumer, with the two-generation image cache. **`EtwSession`**: agents that start,
  overlap, crash and reclaim the trace session through its durable intent.

What a command does to the host, and the stores beside the journal:

* **`ProcessTermination`**: one step per native call, next to processes that exit and ids that
  are used again. **`Isolation`**: the WFP objects, the transaction, old and foreign filters.
  **`Quarantine`**: the staged rename of a file and its metadata.
* **`FileAcquisition`**: key, chunks and manifest with a crash between any two writes.
* **`ArtifactUpload`**: outbox, upload thread and a Manager that forgets and expires transfers.
* **`Enrollment`**: key and identity files around an enrolment, over restarts.
* **`DiagnosticOutput`**, **`ServiceHost`**, **`PolicyStore`**, **`UpdateStage`**: the writer with
  its deadlines, the service status machine, and two stores of signed documents. `PolicyStore`
  remembers in `high` the highest generation ever activated, which only the property reads: the
  stored generation never falls below it. `UpdateStage` has both stores of the code, the one with
  a rotating trust bundle and the deprecated one with static pins, over one protected root.

* **`MC*`**: the constants of the models below. `MCObservation` and `MCActions` put the
  modules of one family side by side: a behaviour follows one of them, chosen by `system` in
  the initial state, and every module keeps its own variables through `INSTANCE`.
* **`*Proofs`**: the theorems.

A definition marked as a mutant or a plausible slip belongs to no specification: it is a bug
of the definition after it, and the property of its module fails when it takes its place.

## What the runs check

| Run | Instance | Shows |
|---|---|---|
| `journal` | 4 lines of sizes 1 and 2, three of them lifecycle lines, one of these archived before the graph index; 2 spool files with intact, corrupt and torn frames; quota 9, one source, a command in the inbox, batches of 2 | the inductive invariant of the proofs (counters equal the tables, rows are numbered uniquely), the quota holds, accepted lines are never lost, cursors never run ahead, every lifecycle row is archived and indexed once with only old rows waiting for the backfill, receipts are all or nothing, dead letters and archive are final, every frame is imported or recorded as a gap, a delivered line is never imported again |
| `delivery` | 4 lines of two protocols, one refused, quota 5, one fault | the uploader's invariant, nothing is given up that the Manager did not store, order within a protocol, `Custody` |
| `delivery_progress` | 3 lines, room for rejection metadata, two faults | every pending line is settled, a stop ends the worker |
| `response` | 3 commands (action, collection, acquisition), one of them in the old ledger, 2 inbox rows, two faults | at most one execution, one result per command, nothing outboxed is lost, no action while a result is unsaved, `CommandLife` |
| `response_progress` | 2 commands, one refused by the gate, reads of one row | every command in the inbox is answered |
| `response_acceptance` | 1 collection | **violated**: see findings |
| `response_recovery` | 1 acquisition | **violated**: see findings |
| `raw_handoff` | 4 events, 2 slots, a byte limit one large event can exhaust, two faults | ownership of the ring, FIFO, gap records add up to the refusals, shutdown drains and ends |
| `observation` | eleven observing components, each on its own instance: captures of 2 pages, lists of 2 items, 3 native records, 2 journal instances, 3 agents for the trace session, 2 callback threads | capture chains are whole, published states are fresh, complete means whole, gap records match the baseline, losses are told, cursors never jump silently, callbacks and sessions are not cut off, workers end |
| `remote_access_claim` | lists of 2 items, a walk limit of 1 | **violated**: see findings |
| `actions` | every action and store on its own instance: 3 storable artifacts for an outbox of 2, two versions of a file of one and a half chunks, 3 processes of one id, 3 generations of packages and keysets | evidence is neither lost nor mixed up, the result told of an action is what happened, stores survive crashes in a legal state, uploads and closes end |
| `enrollment_key` | two keys, four starts | **violated**: see findings |

**Bounds.** Lines, commands and events are few because each property speaks of one
or two of them and a third that competes for the quota, the slots or the order. The
quotas are chosen so that they refuse: a line, a rejection reason, a cursor, a
fourth event. `MaxSeq` and `MaxRevision` bound row and revision numbers, `MaxFaults`
the crashes, stops and exceptions of one behaviour; two faults are enough for a fault
during the recovery from another. The limits of the code (64 checkpoints, 65,536
command rows, 32 rows per read, 64 batches per burst) are parameters. The proofs
hold for every value of all of them.

In the two families the bounds are chosen so that each limit of a component is met: a list
that meets an item limit, an outbox and a queue that fill, a walk that each of three bounds
cuts at a different place, a restart during a recovery, two instances of a native journal.
The names `Max...` are bounds of the models, the others parameters of the code.

**Deadlock** is checked in the runs of the journal, the uploader, the response thread and the
raw handoff, which never stop: producers, crashes or the ended main thread can always take a
step. In `observation`, `remote_access_claim`, `actions` and `enrollment_key` it is not: a
worker that has been asked to stop ends, and a service that has stopped does nothing more.

**Fairness.** Every thread is scheduled (weak fairness of its steps), a timer runs
out, and a stopped service is started again. Of the Manager we assume only that a
request made again and again is answered as it should be infinitely often (strong
fairness of `PostAnswered` and `SubmitAcknowledged`). Without it nothing can be
promised: the agent retries for ever by design. Nothing is assumed of producers.
`EventuallySettled` also needs room for rejection metadata: at the quota the code posts the
oldest batch again and again, and only safety is claimed there (`delivery`). In the families
the steps of the threads themselves are fair (`Work` of each module): `WorkersEnd` holds
although the journal may refuse for ever, and a close of the diagnostic output returns
although a native write may never do so. A closed trace is assumed to make its consumer
return. Only the artifact upload needs more, as the uploader does: each kind of request
made again and again is answered at some time (strong fairness of `Peek`, `Admit`, `Put`,
`Complete`, `Retire`).

## Findings

* `response_recovery`: the branch that reconciles an interrupted `ACQUIRE_FILE` with
  its manifest compares the inbox key with the command id (`main.cpp` 810), but the
  key is a hash of scope and id (872). The branch is unreachable and such a command is
  answered as indeterminate, while `FORENSIC_FILE_ACQUISITION.md` line 23 says a
  matching terminal manifest is committed as the result.
* `response_acceptance`: a collection whose acceptance is not acknowledged is not
  executed (`main.cpp` 803), while `RESPONSE.md` line 36 says the outcome "is never
  checked and never blocks execution".
* `remote_access_claim`: the walk over the WinRM listeners ends at index 64 without marking
  anything (`remote_access_inventory.cpp` 240-255), so partition and manifest say
  `enumeration_complete` with listeners unread, while `REMOTE_ACCESS_STATE.md` lines 5-8 say
  that the collector "records native query failures and incomplete partitions" (written
  of its two SMB partitions; the listeners came later). `CompleteIsWhole`, which
  `observation` checks of all collectors, allows exactly these listeners (`Unseen`) and nothing else.
* `enrollment_key`: a key file that exists and cannot be read is treated as a missing one, and
  a new key is generated and stored over it (`main.cpp` 3279), while the comment above it
  (3274) says "never silently regenerate over an existing key file".

## What is proved

TLAPS checks the following from the assumptions named in the modules
(`FiniteAssumption`, `LinesAssumption`, ... in `Journal`, `DeliveryAssumption`,
`ResponseAssumption`): finite sets of lines, sources and commands, sizes that are natural
numbers, an archive that fitted the quota before the migration, and batches wide
enough for each single line.

* **Journal** (`ByteSumsProofs`, `JournalImageProofs`, `JournalProofs`). `CountersExact`
  alone is not inductive: a receipt and an import work on `view`, so the
  invariant `JournalInv` states the counters, the quota and the numbering of rows for
  both images (`Good`), and relates them while a transaction is open (`TransactionInv`):
  rows passed are settled or retained, nothing final is lost. `JournalImageProofs` proves
  once per table operation that a good image stays good, with the sums of `ByteSums`
  (between archiving a row and indexing it an image is only `Sound`);
  `JournalProofs` has one lemma per action. From the invariant follow the state
  properties of `journal` and, with one more look at the steps, the action
  properties `EvidenceIsFinal`, `ReceiptAtomic` and `CheckpointByOne`.
* **Delivery** (`DeliveryProofs`). Every step of `DeliveryNext` is a step of the journal
  or leaves it alone, so the journal's theorems carry over. `DeliveryInv` adds what the
  batch in hand has to do with the pending rows, that a receipt that passes
  validation is truthful about this batch, and how far the open receipt has got
  (`ViewTracks`). `DeliveredIsStored`, `DeadIsRefused` and the refinement of `Custody` follow.
* **Response** (`ResponseStepProofs` for the single steps, `ResponseProofs`). `ResponseInv` says, per command, which combinations of
  inbox state, stored result, executions and answers are possible (`CommandInv`), that
  the rows read into `todo` are still what was read (`TodoFresh`), what the step in
  progress may assume about its row (`InHand`), and that the unsaved result belongs to an
  executing row (`UnsavedInv`). At-most-once execution, the immutability of results, the
  kept outbox, `NoActionWhileUnsaved` and the refinement of `CommandLife` follow.

* **Change journal** (`UsnJournalProofs`). `CursorSafe` speaks of the durable cursor only;
  `CursorInv` adds that the worker's own cursor, unless it is a fresh baseline, has everything
  before it covered, and that an offered batch starts there. It needs no bound on records,
  journal instances or restarts.
* **Source supervision** (`SourceSupervisionProofs`). `SupervisionInv` adds to
  `GapsMatchBaseline` that a pending commit is still the comparison of the present baseline
  with a sample of the present generation, and that failure counts only grow within one. The
  theorem assumes that `None` is no count and no record.

Only model-checked: everything about liveness, `OldestFirst`, `ImportComplete` and
`NoReimport`, all of `RawHandoff`, and the families except the two parts above. Liveness and
`ENABLED` are outside what the prover handles.

## What the models leave out

* A line stands for its own key: equal lines have equal keys, and different lines are assumed
  to hash differently. A row that does not decrypt is not modelled; where a store decides on
  damage (chunks, manifests, staged packages) it is a damaged value that fails verification.
* Disk growth (`admit_growth`) is a separate limit that refuses like the quota does; only
  the payload quota is modelled. The `acknowledged` statistics and the uploader's
  health text influence nothing and are omitted.
* `Response` executes a command in one step and leaves what it does to the host to the
  modules of the actions. Gate decisions are a set of unfit commands, expiry an event that
  can happen at any time.
* A malformed poll answer is a failed poll. `Response` starts after the enrolment.
* Time passes only through timers that may fire; durations are compared, never measured.

## Not modelled

* **HTTP client, event decoding, normalization, serialization**: sequential functions of one
  input without state. Their outcomes (answered, refused, garbled; decoded or not) are what
  the models quantify over. A model of their formats would repeat the code.
* **Single-document state queries** (host, firewall profiles, security center, Defender status,
  Device Guard, volume encryption) and decoders of one native structure: one call, one
  record. The workers that call them are in `CaptureWorkers`.
* **Process ancestry and history queries, process graph, audit semantics**: read only.
* **Command line, configuration parsing, coverage tables, query tool**: no interaction.
* **Interaction of the families with the journal** is by answer only: that a commit is durable
  and atomic is what `Journal` shows, and is assumed by each worker. A composition of
  several workers with one journal would only multiply interleavings of commits, which the
  checkpoint revisions of `Journal` already separate by source.

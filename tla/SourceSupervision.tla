------------------------- MODULE SourceSupervision -------------------------
(***************************************************************************)
(* supervise_sources of src/main.cpp for one collector.  Each pass of the  *)
(* main loop samples the collector's status and compares it with the       *)
(* status saved in the journal as the baseline.  A difference becomes a    *)
(* gap record, and the record and the new baseline are committed in one    *)
(* transaction; until they are, the pass repeats the same commit and no    *)
(* newer sample is compared.                                               *)
(***************************************************************************)
EXTENDS Naturals

CONSTANTS None, MaxLoss, MaxGeneration, MaxRevision

VARIABLES generation,  \* the collector generation: one per start of the agent
          status,      \* what the collector reports now
          checkpoint,  \* the baseline in the journal, or None
          revision,    \* its revision, 0 when there is none
          pending,     \* the gap and baseline awaiting acceptance, or None
          newest,      \* ghost: the newest gap record in the journal, or None
          counted      \* ghost: the increases reported by the gap records of its generation

vars == <<generation, status, checkpoint, revision, pending, newest, counted>>

\* failures is a count of the agent's own, lost a native one that may be unreadable.
Status == [running : BOOLEAN, failures : 0 .. MaxLoss, lost : (0 .. MaxLoss) \cup {None}]
Started == [running |-> TRUE, failures |-> 0, lost |-> 0]

Init ==
    /\ generation = 1 /\ status = Started
    /\ checkpoint = None /\ revision = 0 /\ pending = None
    /\ newest = None /\ counted = 0

-----------------------------------------------------------------------------
(* source_gap_since                                                        *)

\* What is said of a counter: the increase, "unknown" where no increase can be inferred,
\* or None where there is nothing to say.
Counter(before, after, sampled) ==
    IF before = after THEN None
    ELSE IF after = None \/ (before = None /\ sampled) THEN "unknown"
    ELSE IF before = None THEN IF after = 0 THEN None ELSE after
    ELSE IF after < before THEN "unknown" ELSE after - before

GapSince(before, after) ==
    LET old == IF before = None THEN [running |-> None, failures |-> None, lost |-> None] ELSE before
    IN  [startup  |-> before = None,
         flipped  |-> before # None /\ old.running # after.running,
         failures |-> Counter(old.failures, after.failures, FALSE),
         lost     |-> Counter(old.lost, after.lost, before # None)]

IsGap(g) == g.startup \/ g.flipped \/ g.failures # None \/ g.lost # None

-----------------------------------------------------------------------------
(* supervise_sources                                                       *)

Previous ==
    IF checkpoint # None /\ checkpoint.generation = generation THEN checkpoint.status ELSE None

Baseline == [generation |-> generation, status |-> status]

Report(p) ==
    /\ newest' = p.baseline
    /\ counted' = (IF newest # None /\ newest.generation = generation THEN counted ELSE 0)
                   + (IF p.gap.failures = None THEN 0 ELSE p.gap.failures)

\* A plausible slip: the new baseline is kept although its gap record was refused.
CommitBaselineFirst(p, accepted) ==
    /\ checkpoint' = p.baseline /\ revision' = revision + 1
    /\ IF accepted THEN Report(p) /\ pending' = None
                   ELSE UNCHANGED <<newest, counted>> /\ pending' = p

\* persist_checkpointed_record: both or neither, and only over the expected revision.
Commit(p, accepted) ==
    IF accepted /\ p.expected = revision
    THEN /\ checkpoint' = p.baseline /\ revision' = revision + 1
         /\ Report(p) /\ pending' = None
    ELSE pending' = p /\ UNCHANGED <<checkpoint, revision, newest, counted>>

\* One pass without a pending gap: compare, then commit the gap or the quiet baseline.
Sample ==
    /\ pending = None /\ revision < MaxRevision
    /\ LET gap == GapSince(Previous, status) IN
       \/ /\ IsGap(gap)
          /\ \E accepted \in BOOLEAN :
                 Commit([gap |-> gap, baseline |-> Baseline, expected |-> revision], accepted)
       \/ /\ ~IsGap(gap)
          /\ \/ checkpoint' = Baseline /\ revision' = revision + 1
             \/ UNCHANGED <<checkpoint, revision>>
          /\ UNCHANGED <<pending, newest, counted>>
    /\ UNCHANGED <<generation, status>>

\* The same bytes and the same expected revision are offered until they are accepted.
Retry ==
    /\ pending # None
    /\ \E accepted \in BOOLEAN : Commit(pending, accepted)
    /\ UNCHANGED <<generation, status>>

\* The collector meanwhile.
Change ==
    /\ status' \in Status /\ status' # status
    /\ status'.failures \in {status.failures, status.failures + 1}
    /\ UNCHANGED <<generation, checkpoint, revision, pending, newest, counted>>

Crash ==
    /\ generation < MaxGeneration /\ generation' = generation + 1
    /\ status' = Started /\ pending' = None
    /\ UNCHANGED <<checkpoint, revision, newest, counted>>

Next == Sample \/ Retry \/ Change \/ Crash
Spec == Init /\ [][Next]_vars

-----------------------------------------------------------------------------
\* The baseline never forgets a loss: it always equals the status the newest gap record
\* shows, and the increases reported in its generation add up to the total in it, across
\* refused commits, retries, samples missed meanwhile, and crashes.
GapsMatchBaseline ==
    /\ checkpoint = newest
    /\ newest # None => counted = newest.status.failures

=============================================================================

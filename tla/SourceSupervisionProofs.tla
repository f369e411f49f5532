---------------------- MODULE SourceSupervisionProofs ----------------------
(***************************************************************************)
(* The gap records of a collector add up to its durable baseline, for      *)
(* every bound on losses, generations and revisions.                       *)
(***************************************************************************)
EXTENDS SourceSupervision, TLAPS

(* None is neither a count nor one of the records it stands in for. *)
NoneIsFresh ==
  /\ MaxLoss \in Nat
  /\ None \notin Nat /\ None \notin Status /\ None \notin [generation : Nat, status : Status]

Told(c) == IF c = None THEN 0 ELSE c

(* The status an earlier sample showed: failures only grow in a generation. *)
Earlier(s) == s \in Status /\ s.failures <= status.failures

(* The baseline is the newest gap record and its total is what was reported; a
   pending commit is still the comparison of this baseline with a sample of
   this generation, which is why offering it again is right. *)
SupervisionInv ==
  /\ generation \in Nat /\ revision \in Nat /\ status \in Status
  /\ checkpoint = newest
  /\ checkpoint # None =>
       /\ checkpoint \in [generation : Nat, status : Status]
       /\ counted = checkpoint.status.failures
       /\ checkpoint.generation <= generation
       /\ checkpoint.generation = generation => Earlier(checkpoint.status)
  /\ pending # None =>
       /\ pending.baseline \in [generation : {generation}, status : Status]
       /\ Earlier(pending.baseline.status)
       /\ Previous # None => Previous.failures <= pending.baseline.status.failures
       /\ pending.gap = GapSince(Previous, pending.baseline.status)

-----------------------------------------------------------------------------
(* source_gap_since says of a count that did not shrink exactly its increase,
   and of a new one its value. *)
LEMMA IncreaseTold ==
  ASSUME NoneIsFresh, NEW a \in Nat, NEW b \in Nat, a <= b
  PROVE /\ a + Told(Counter(a, b, FALSE)) = b
        /\ Told(Counter(None, b, FALSE)) = b
        /\ Counter(a, b, FALSE) = None => a = b
BY DEF NoneIsFresh, Told, Counter

(* Where nothing is said of a native count in two samples, it is the same. *)
LEMMA SilenceIsEqual ==
  ASSUME NoneIsFresh, "unknown" # None,
         NEW a \in (0 .. MaxLoss) \cup {None}, NEW b \in (0 .. MaxLoss) \cup {None},
         Counter(a, b, TRUE) = None
  PROVE a = b
BY DEF NoneIsFresh, Counter

(* The previous status is the baseline's if that is of this generation. *)
LEMMA PreviousStatus ==
  ASSUME NoneIsFresh, SupervisionInv
  PROVE /\ Previous # None => /\ checkpoint # None /\ checkpoint.generation = generation
                              /\ Previous = checkpoint.status /\ Earlier(Previous)
                              /\ counted = Previous.failures
        /\ Previous = None => checkpoint = None \/ checkpoint.generation # generation
BY DEF NoneIsFresh, SupervisionInv, Previous

(* A commit of a comparison with the baseline, accepted or refused, keeps the
   invariant (persist_checkpointed_record). *)
LEMMA CommitStep ==
  ASSUME NoneIsFresh, SupervisionInv, UNCHANGED <<generation, status>>,
         NEW p, NEW accepted \in BOOLEAN, Commit(p, accepted),
         p.baseline \in [generation : {generation}, status : Status],
         Earlier(p.baseline.status),
         Previous # None => Previous.failures <= p.baseline.status.failures,
         p.gap = GapSince(Previous, p.baseline.status)
  PROVE SupervisionInv'
<1> DEFINE s == p.baseline.status
<1>0. p.baseline.generation = generation /\ s \in Status /\ s.failures \in Nat /\ status.failures \in Nat
      /\ p.baseline \in [generation : Nat, status : Status]
  BY DEF SupervisionInv, Status, NoneIsFresh
<1>1. CASE accepted /\ p.expected = revision
  <2>1. /\ checkpoint' = p.baseline /\ revision' = revision + 1 /\ pending' = None /\ newest' = p.baseline
        /\ counted' = (IF newest # None /\ newest.generation = generation THEN counted ELSE 0)
                        + Told(p.gap.failures)
    BY <1>1 DEF Commit, Report, Told
  <2>2. counted' = s.failures
    <3>1. CASE Previous = None
      <4>1. p.gap.failures = Counter(None, s.failures, FALSE)
        BY <3>1 DEF GapSince
      <4>2. ~(newest # None /\ newest.generation = generation)
        BY <3>1, PreviousStatus DEF SupervisionInv
      <4>3. 0 <= s.failures
        BY <1>0
      <4>4. Told(Counter(None, s.failures, FALSE)) = s.failures
        BY <1>0, <4>3, IncreaseTold
      <4>5. counted' = 0 + Told(p.gap.failures)
        BY <2>1, <4>2
      <4>6. Told(p.gap.failures) = s.failures
        BY <4>1, <4>4
      <4> QED BY <1>0, <4>5, <4>6
    <3>2. CASE Previous # None
      <4>1. p.gap.failures = Counter(Previous.failures, s.failures, FALSE)
        BY <3>2 DEF GapSince
      <4>2. newest # None /\ newest.generation = generation /\ counted = Previous.failures
        BY <3>2, PreviousStatus DEF SupervisionInv
      <4>3. Previous.failures \in Nat /\ Previous.failures <= s.failures
        BY <3>2, PreviousStatus DEF Earlier, Status, NoneIsFresh
      <4>4. Previous.failures + Told(Counter(Previous.failures, s.failures, FALSE)) = s.failures
        BY <1>0, <4>3, IncreaseTold
      <4> QED BY <2>1, <4>1, <4>2, <4>4
    <3> QED BY <3>1, <3>2
  <2> QED BY <1>0, <2>1, <2>2 DEF SupervisionInv, Earlier
<1>2. CASE ~(accepted /\ p.expected = revision)
  <2>1. pending' = p /\ UNCHANGED <<checkpoint, revision, newest, counted>>
    BY <1>2 DEF Commit
  <2>2. Previous' = Previous
    BY <2>1 DEF Previous
  <2> QED BY <2>1, <2>2 DEF SupervisionInv, Earlier
<1> QED BY <1>1, <1>2

-----------------------------------------------------------------------------
(* A sample that differs in nothing from the baseline writes the baseline
   again: a quiet pass loses no count. *)
LEMMA QuietBaseline ==
  ASSUME NoneIsFresh, "unknown" # None, SupervisionInv, ~IsGap(GapSince(Previous, status))
  PROVE checkpoint # None /\ Baseline = checkpoint
<1>1. /\ Previous # None /\ Previous.running = status.running
      /\ Counter(Previous.failures, status.failures, FALSE) = None
      /\ Counter(Previous.lost, status.lost, TRUE) = None
  BY DEF IsGap, GapSince
<1>2. /\ checkpoint # None /\ checkpoint.generation = generation
      /\ Previous = checkpoint.status /\ Earlier(Previous)
  BY <1>1, PreviousStatus
<1>3. Previous.failures = status.failures
  <2>1. Previous.failures \in Nat /\ status.failures \in Nat /\ Previous.failures <= status.failures
    BY <1>2 DEF Earlier, Status, SupervisionInv, NoneIsFresh
  <2> QED BY <1>1, <2>1, IncreaseTold
<1>4. Previous.lost = status.lost
  BY <1>1, <1>2, SilenceIsEqual DEF Earlier, Status, SupervisionInv
<1>5. Previous = status
  BY <1>1, <1>2, <1>3, <1>4 DEF Earlier, Status, SupervisionInv
<1> QED BY <1>2, <1>5 DEF Baseline, SupervisionInv

(* Every step keeps the invariant. *)
LEMMA SupervisionStep ==
  ASSUME NoneIsFresh, "unknown" # None, SupervisionInv, [Next]_vars
  PROVE SupervisionInv'
<1>1. CASE Sample
  <2>0. UNCHANGED <<generation, status>> /\ pending = None
    BY <1>1 DEF Sample
  <2>1. CASE IsGap(GapSince(Previous, status))
    <3> DEFINE p == [gap |-> GapSince(Previous, status), baseline |-> Baseline, expected |-> revision]
    <3>1. PICK accepted \in BOOLEAN : Commit(p, accepted)
      BY <1>1, <2>1 DEF Sample
    <3>2. p.baseline \in [generation : {generation}, status : Status] /\ p.baseline.status = status
      BY DEF Baseline, SupervisionInv
    <3>3. Earlier(status)
      BY DEF Earlier, SupervisionInv, Status, NoneIsFresh
    <3>4. Previous # None => Previous.failures <= status.failures
      BY PreviousStatus DEF Earlier
    <3>5. p.gap = GapSince(Previous, p.baseline.status)
      BY <3>2
    <3> HIDE DEF p
    <3> QED BY <2>0, <3>1, <3>2, <3>3, <3>4, <3>5, CommitStep
  <2>2. CASE ~IsGap(GapSince(Previous, status))
    <3>1. UNCHANGED <<checkpoint, pending, newest, counted>> /\ revision' \in {revision, revision + 1}
      BY <1>1, <2>2, QuietBaseline DEF Sample
    <3> QED BY <2>0, <3>1 DEF SupervisionInv, Earlier
  <2> QED BY <2>1, <2>2
<1>2. CASE Retry
  <2>1. PICK accepted \in BOOLEAN : Commit(pending, accepted)
    BY <1>2 DEF Retry
  <2>2. pending # None /\ UNCHANGED <<generation, status>>
    BY <1>2 DEF Retry
  <2> QED BY <2>1, <2>2, CommitStep DEF SupervisionInv
<1>3. CASE Change
  <2>1. /\ status' \in Status /\ status.failures \in Nat
        /\ status'.failures \in {status.failures, status.failures + 1}
        /\ UNCHANGED <<generation, checkpoint, revision, pending, newest, counted>>
    BY <1>3 DEF Change, SupervisionInv, Status, NoneIsFresh
  <2>2. Previous' = Previous
    BY <2>1 DEF Previous
  <2>3. \A s : Earlier(s) => Earlier(s)'
    BY <2>1 DEF Earlier, Status, NoneIsFresh
  <2> QED BY <2>1, <2>2, <2>3 DEF SupervisionInv
<1>4. CASE Crash
  <2>1. Started \in Status
    BY DEF Started, Status, NoneIsFresh
  <2>2. checkpoint # None => checkpoint.generation <= generation /\ checkpoint.generation \in Nat
    BY DEF SupervisionInv
  <2> QED BY <1>4, <2>1, <2>2 DEF Crash, SupervisionInv
<1>5. CASE UNCHANGED vars
  BY <1>5 DEF vars, SupervisionInv, Previous, Earlier
<1> QED BY <1>1, <1>2, <1>3, <1>4, <1>5 DEF Next

(* The durable baseline of a collector is the status its newest gap record
   shows, and the increases reported in its generation add up to the total in
   it, across refusals, retries and crashes (supervise_sources, main.cpp). *)
THEOREM SupervisionTheorem ==
  ASSUME NoneIsFresh, "unknown" # None
  PROVE Spec => []GapsMatchBaseline
<1>1. Init => SupervisionInv
  BY DEF Init, SupervisionInv, Started, Status, NoneIsFresh
<1>2. SupervisionInv /\ [Next]_vars => SupervisionInv'
  BY SupervisionStep
<1>3. SupervisionInv => GapsMatchBaseline
  BY DEF SupervisionInv, GapsMatchBaseline
<1> QED BY <1>1, <1>2, <1>3, PTL DEF Spec
=============================================================================

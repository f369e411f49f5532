--------------------------- MODULE HealthHistory ---------------------------
(***************************************************************************)
(* StateCaptureGapBuffer of src/health/state_freshness.cpp and the part of *)
(* emit_health in src/main.cpp that fills and drains it.  Each health pass *)
(* compares the freshness of every capture with what the pass before saw,  *)
(* queues a report per change in a bounded history, and offers the oldest  *)
(* report to the journal.  What does not fit is counted and summarised.    *)
(***************************************************************************)
EXTENDS Naturals, Sequences, SequencesExt

CONSTANTS None,
          Sources,      \* the state sources, 1 .. n, in table order
          ReportLimit, ByteLimit,   \* bounds of the history
          SummaryBytes, \* size of an omission summary
          MaxPasses

VARIABLES freshness,    \* of each capture, as evaluated in this pass
          observed,     \* of each source, what the last pass saw, or None
          reports,      \* the history
          omitted,      \* changes not yet summarised
          pending,      \* the report offered to the journal, or None
          journal, passes

vars == <<freshness, observed, reports, omitted, pending, journal, passes>>

Values == {"no_committed_capture", "fresh", "overdue"}

Init ==
    /\ freshness = [s \in Sources |-> "no_committed_capture"]
    /\ observed = [s \in Sources |-> None]
    /\ reports = <<>> /\ omitted = 0 /\ pending = None /\ journal = <<>> /\ passes = 0

-----------------------------------------------------------------------------
\* A report of a capture that has clock evidence is larger.
Bytes(r) == IF r.kind = "summary" THEN SummaryBytes
            ELSE IF r.now = "no_committed_capture" THEN 2 ELSE 3

Used(h) == FoldSeq(LAMBDA r, n : Bytes(r) + n, 0, h)
Fits(h, r) == Len(h) < ReportLimit /\ Bytes(r) <= ByteLimit - Used(h)

Transition(s) == [kind |-> "transition", source |-> s, before |-> observed[s], now |-> freshness[s]]
Summary(n) == [kind |-> "summary", count |-> n]

\* A plausible slip: the count is reset although its summary found no room.
FlushOmissionsUnqueued(b) ==
    IF b.omitted > 0 /\ Fits(b.reports, Summary(b.omitted))
    THEN [reports |-> Append(b.reports, Summary(b.omitted)), omitted |-> 0] ELSE [b EXCEPT !.omitted = 0]

FlushOmissions(b) ==
    IF b.omitted > 0 /\ Fits(b.reports, Summary(b.omitted))
    THEN [reports |-> Append(b.reports, Summary(b.omitted)), omitted |-> 0] ELSE b

Retain(b, r) ==
    IF b.omitted = 0 /\ Fits(b.reports, r)
    THEN [b EXCEPT !.reports = Append(@, r)] ELSE [b EXCEPT !.omitted = @ + 1]

Observe(b) ==
    FoldLeft(LAMBDA h, s : IF observed[s] = freshness[s] THEN h ELSE Retain(h, Transition(s)),
             FlushOmissions(b), SetToSortSeq(Sources, <))

\* One health pass: observe, offer the front, acknowledge it when it is accepted.
EmitHealth ==
    /\ passes < MaxPasses /\ passes' = passes + 1
    /\ observed' = freshness
    /\ LET b == Observe([reports |-> reports, omitted |-> omitted])
           front == IF pending = None /\ b.reports # <<>> THEN Head(b.reports) ELSE pending
       IN  \E accepted \in BOOLEAN :
               IF front # None /\ accepted
               THEN LET acked == FlushOmissions([b EXCEPT !.reports = Tail(@)])
                    IN  /\ journal' = Append(journal, front) /\ pending' = None
                        /\ reports' = acked.reports /\ omitted' = acked.omitted
               ELSE /\ pending' = front /\ reports' = b.reports /\ omitted' = b.omitted
                    /\ UNCHANGED journal
    /\ UNCHANGED freshness

\* Captures commit, fail to, and age between two passes.
Age ==
    /\ \E s \in Sources : \E v \in Values \ {"no_committed_capture"} :
           freshness' = [freshness EXCEPT ![s] = v]
    /\ UNCHANGED <<observed, reports, omitted, pending, journal, passes>>

Next == EmitHealth \/ Age
Spec == Init /\ [][Next]_vars

-----------------------------------------------------------------------------
Trail == journal \o reports

\* The durable history of capture freshness has no silent hole: two reports of a source
\* with no omission summary between them join (the later starts where the earlier ended),
\* the newest one agrees with what the last pass saw unless omissions are pending, and the
\* report offered to the journal is still the front of the history when it is acknowledged.
HistoryChained ==
    /\ \A i, j \in 1 .. Len(Trail) :
           (/\ i < j /\ Trail[i].kind = "transition" /\ Trail[j].kind = "transition"
            /\ Trail[i].source = Trail[j].source
            /\ \A k \in i + 1 .. j - 1 :
                   Trail[k].kind = "transition" /\ Trail[k].source # Trail[j].source)
           => Trail[j].before = Trail[i].now
    /\ \A s \in Sources :
           \/ omitted > 0 \/ observed[s] = None
           \/ \E i \in 1 .. Len(Trail) :
                  /\ Trail[i].kind = "summary" \/ (Trail[i].source = s /\ Trail[i].now = observed[s])
                  /\ \A k \in i + 1 .. Len(Trail) : Trail[k].kind = "transition" /\ Trail[k].source # s
    /\ pending # None => reports # <<>> /\ Head(reports) = pending

=============================================================================

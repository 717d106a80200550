---------------------------- MODULE MetricWindow ----------------------------
(***************************************************************************)
(* Verdicts on window aggregates (packages/harness/...: the data-plane     *)
(* part of policy, the latency part of time_authority, and the assertions  *)
(* of metrics) against what an instrumented process really did.            *)
(*                                                                         *)
(* Time is counted in slots: slot t lies between the instants t - 1 and t, *)
(* and a point observed at t covers the slots up to t.  The process        *)
(* handles one message per slot; it collects its instruments (the age      *)
(* histogram, the received, lost and sequence_error counters, a gauge) at  *)
(* some instants, a collected point may get lost or be delivered twice or  *)
(* without one of its instruments, and the process may restart.  The       *)
(* source is external; all other definitions translate the harness.        *)
(***************************************************************************)
EXTENDS MetricAggregates

CONSTANTS
  End,            \* the last instant
  Series,         \* sets of attributes the process may report under; all of
                  \* them identify the measured channel
  Event,          \* [kind, age, inOrder] of what may happen to a message
  Layouts,        \* [bounds, records]: explicit_bounds, and whether sum, min
                  \* and max are recorded
  Early,          \* bound of the model: events before the window
  Mishaps         \* bound of the model: restarts and faulty deliveries

Instruments == {"age", "received", "lost", "sequence", "gauge"}

ASSUME SourceAssumption ==
  /\ End \in Nat /\ Window.end <= End /\ Mishaps \in Nat
  /\ \A e \in Event : e.kind \in {"received", "lost"} /\ e.age \in (-Infinity)..Infinity
  /\ Early \subseteq Event
  /\ \A l \in Layouts : /\ l.bounds \in Seq(Int) /\ l.records \in BOOLEAN
                        /\ \A j, k \in DOMAIN l.bounds : j < k => l.bounds[j] < l.bounds[k]

VARIABLES
  temporality,  \* of every instrument of the process
  now,
  truth,        \* truth[t]: what happened in slot t
  process,      \* the running process: [series, layout, born, known]
  first,        \* its first collection
  collected,    \* instant of its last collection
  points,       \* the metric points in the evidence file
  mishaps

vars == <<temporality, now, truth, process, first, collected, points, mishaps>>
-----------------------------------------------------------------------------
(***************************************************************************)
(* The instrumented process (external).                                    *)
(***************************************************************************)
Received(S) == {t \in S : truth[t].kind = "received"}
CountOf(i, S) ==
  Cardinality({t \in S : CASE i = "received" -> truth[t].kind = "received"
                           [] i = "lost" -> truth[t].kind = "lost"
                           [] i = "sequence" -> ~truth[t].inOrder})
AgeSum(S) == Total([t \in S |-> truth[t].age])

\* What the process p has to report now of the slots after from.
Report(p, from, stamp, instruments, id) ==
  LET slots == (from + 1)..now
      S == Received(slots)
      Extreme(Of(_)) == IF p.layout.records /\ S # {}
                        THEN Of({truth[x].age : x \in S}) ELSE None
  IN [id |-> id, instruments |-> instruments, series |-> p.series,
      start |-> stamp, at |-> now, bounds |-> p.layout.bounds,
      count |-> Cardinality(S),
      buckets |-> [k \in 1..(Len(p.layout.bounds) + 1) |->
         Cardinality({x \in S : BucketOf(p.layout.bounds, truth[x].age) = k})],
      sum |-> IF p.layout.records THEN AgeSum(S) ELSE None,
      min |-> Extreme(Least), max |-> Extreme(Greatest),
      received |-> Cardinality(S),
      lost |-> CountOf("lost", slots), sequence |-> CountOf("sequence", slots),
      gauge |-> truth[now].age]

\* A process that starts at t.
Processes(t) == [series : Series, layout : Layouts, born : {t}, known : BOOLEAN]

Init ==
  /\ temporality \in {"delta", "cumulative"}
  /\ now = 0 /\ truth = <<>> /\ points = {}
  /\ process \in Processes(0)
  /\ temporality = "delta" => process.known
  /\ first = None /\ collected = 0 /\ mishaps = 0

Happen ==
  /\ now < End /\ now' = now + 1
  /\ \E e \in IF now < Window.start THEN Early ELSE Event : truth' = Append(truth, e)
  /\ UNCHANGED <<temporality, process, first, collected, points, mishaps>>

\* A collection is stamped with the interval it covers; one who joined a
\* cumulative stream does not know its start and stamps the first point seen.
Collect(instruments, copies) ==
  LET from == IF temporality = "delta" THEN collected ELSE process.born
      stamp == IF process.known THEN from
               ELSE IF first = None THEN now ELSE first
      Point(k) == Report(process, from, stamp, instruments, Cardinality(points) + k)
  IN /\ now > collected
     /\ points' = points \cup {Point(k) : k \in 1..copies}
     /\ collected' = now /\ first' = IF first = None THEN now ELSE first
     /\ UNCHANGED <<temporality, now, truth, process>>

Deliver == Collect(Instruments, 1) /\ UNCHANGED mishaps

\* A lost delta is a gap; a lost cumulative point is as if not collected.  The point that stamps an
\* unknown start is seen by definition.
Misdeliver ==
  /\ mishaps < Mishaps /\ mishaps' = mishaps + 1
  /\ process.known \/ first # None
  /\ \/ Collect(Instruments, 0)
     \/ Collect(Instruments, 2)
     \/ \E i \in Instruments : Collect(Instruments \ {i}, 1)

Restart ==
  /\ mishaps < Mishaps /\ mishaps' = mishaps + 1
  /\ 0 < now /\ now < End
  /\ process' \in Processes(now) /\ process'.known = process.known
  /\ collected' = now /\ first' = None
  /\ UNCHANGED <<temporality, now, truth, points>>

Next == Happen \/ Deliver \/ Misdeliver \/ Restart

Spec == Init /\ [][Next]_vars
-----------------------------------------------------------------------------
(***************************************************************************)
(* The harness, on the points of the evidence file.                        *)
(***************************************************************************)
PointsOf(i) == {p \in points : i \in p.instruments}

OnStatistic(aggregation, operator, threshold) ==
  [kind |-> "metric_aggregate", aggregation |-> aggregation, operator |-> operator,
   threshold |-> threshold]

\* All aggregates of the policy: the age evidence is clipped before its coverage
\* is required, the counters are not.
Evidence ==
  LET P == PointsOf("age")
      parts == Contributions(P, temporality)
      Counter(i) == CounterAggregate(PointsOf(i), i, temporality)
  IN [ages |-> P,
      merged |-> HistogramAggregate(P, temporality),
      slots |-> IF parts.status = "ok" THEN SlotsOf(Coverage(parts.of)) ELSE {},
      covered |-> parts.status = "ok" /\ Covers(Clipped(parts.of), temporality),
      received |-> Counter("received"),
      lost |-> Counter("lost"),
      sequence |-> Counter("sequence")]

\* The three counters must have collected at the same intervals.
CountersAgree(e) ==
  /\ \A i \in {"received", "lost", "sequence"} : e[i].status = "ok"
  /\ e.received.coverage = e.lost.coverage
  /\ e.lost.coverage = e.sequence.coverage
  /\ Covers({[series |-> i.series, start |-> i.start, at |-> i.end]
              : i \in e.received.coverage}, temporality)

PassedIf(b) == IF b THEN "passed" ELSE "failed"

SequenceIntegrity(e) ==
  IF CountersAgree(e) THEN PassedIf(e.sequence.total = 0) ELSE "error"

\* At most maxLost of every `of` messages are lost.
LossRatio(e, maxLost, of) ==
  LET all == e.received.total + e.lost.total
  IN IF CountersAgree(e) /\ all > 0 THEN PassedIf(e.lost.total * of <= maxLost * all)
     ELSE "error"

\* evaluate_data_plane_policy for the one measured channel.
DataPlane(e, maxAge, maxLost, of) ==
  IF ~e.covered THEN [age |-> "error", sequence |-> "error", loss |-> "error"]
  ELSE [age |-> MetricAssertion(e.ages, "histogram", Statistic(e.merged, "p95", FALSE),
                                OnStatistic("p95", "lte", maxAge)),
        sequence |-> SequenceIntegrity(e), loss |-> LossRatio(e, maxLost, of)]

\* _latency_policy, with one maximum for each of p50, p95 and max.
LatencyPolicy(h, p50, p95, maximum, minSamples) ==
  LET Bound(a) == Statistic(h, a, TRUE)
      failure == {a \in {"p50", "p95", "max"} : Bound(a).status # "ok"}
      outcomes == {Compare(Bound("p50").is, "lte", p50),
                   Compare(Bound("p95").is, "lte", p95),
                   Compare(Bound("max").is, "lte", maximum),
                   IF h.count >= minSamples THEN "passed" ELSE "failed"}
  IN IF h.count = 0 THEN "failed"
     ELSE IF failure # {} THEN "error"
     ELSE IF "failed" \in outcomes THEN "failed"
     ELSE IF "skipped" \in outcomes THEN "skipped" ELSE "passed"

\* evaluate_time_authority on the histogram of the window, if there is one.
TimeAuthority(h, p50, p95, maximum, minSamples) ==
  IF h.status = "ok" THEN LatencyPolicy(h, p50, p95, maximum, minSamples)
  ELSE IF h.status = "insufficient" THEN "skipped" ELSE "error"
-----------------------------------------------------------------------------
(***************************************************************************)
(* What really happened, and the properties of the verdicts on the         *)
(* evidence of a finished process.                                         *)
(***************************************************************************)
Ages == {e.age : e \in {x \in Event : x.kind = "received"}}
Operators == {"lt", "lte", "eq", "gte", "gt"}
Thresholds == Ages \cup {a - 1 : a \in Ages}

AtMost(a, S) == Cardinality({t \in Received(S) : truth[t].age <= a})

\* The least age that a share p of the messages in the slots S does not exceed.
Quantile(p, S) ==
  Least({a \in Ages : AtMost(a, S) * p[2] >= p[1] * AtMost(Infinity, S)})

Actual(aggregation, S) ==
  LET ages == {truth[t].age : t \in Received(S)}
  IN CASE aggregation = "count" -> Cardinality(Received(S))
       [] aggregation = "min" -> Least(ages)
       [] aggregation = "max" -> Greatest(ages)
       [] aggregation = "p50" -> Quantile(<<1, 2>>, S)
       [] aggregation = "p95" -> Quantile(<<19, 20>>, S)

ActuallyHolds(aggregation, operator, threshold, S) ==
  IF aggregation = "mean"
  THEN Holds(AgeSum(Received(S)), operator, threshold * Cardinality(Received(S)))
  ELSE Holds(Actual(aggregation, S), operator, threshold)

\* A histogram verdict is true of the messages of the slots it counts.
AgeVerdictIsTrue(e) ==
  LET early == HistogramAggregate(Until(e.ages, Window.end), temporality)
      Sound(verdict, isTrue) ==
        verdict \in {"passed", "failed"} =>
          /\ (verdict = "passed" <=> isTrue)
          /\ e.slots \subseteq WindowSlots
          /\ Cardinality(WindowSlots \ e.slots) <= Tolerance
  IN /\ \A a \in {"min", "max", "p50", "p95", "mean", "count"} :
           LET statistic == Statistic(e.merged, a, FALSE)
           IN \A o \in Operators, x \in Thresholds :
                Sound(MetricAssertion(e.ages, "histogram", statistic, OnStatistic(a, o, x)),
                      ActuallyHolds(a, o, x, e.slots))
     /\ \A x, y \in Thresholds \cap Nat :
           Sound(TimeAuthority(early, x, y, y, 2),
                 /\ Cardinality(Received(e.slots)) >= 2
                 /\ ActuallyHolds("p50", "lte", x, e.slots)
                 /\ ActuallyHolds("max", "lte", y, e.slots))

\* A loss-ratio or sequence verdict of the data-plane policy is true of the
\* messages of the slots its three counters cover.
LossVerdictIsTrue(e) ==
  LET S == SlotsOf(e.received.coverage)
  IN \A maxLost \in 0..1 :
    LET verdict == DataPlane(e, Infinity, maxLost, 2)
        Sound(v, isTrue) ==
          v \in {"passed", "failed"} =>
            /\ (v = "passed" <=> isTrue)
            /\ Cardinality(WindowSlots \ S) <= Tolerance
            /\ Cardinality(S \ WindowSlots) <= Tolerance
    IN /\ Sound(verdict.loss, CountOf("lost", S) * 2 <=
                  maxLost * (CountOf("lost", S) + CountOf("received", S)))
       /\ Sound(verdict.sequence, CountOf("sequence", S) = 0)

\* A verdict "passed" or "failed" on a histogram, or on counters that are
\* exported and lost one by one, is true of the messages of the slots it rests
\* on, and they are all but a tolerable part of the window, whatever was lost,
\* repeated, missing, or reset by a restart (metrics.py 389-551 and 606-733,
\* _histogram_estimates.py, policy.py 112-196, time_authority.py 72-162).
VerdictIsTrue ==
  now = End => LET e == Evidence
               IN AgeVerdictIsTrue(e) /\ (process.known => LossVerdictIsTrue(e))

Samples(P) == {p \in P : Window.start <= p.at /\ p.at <= Window.end}
LatestOf(S, t) == CHOOSE p \in S : p.at < t /\ \A q \in S : q.at < t => q.at <= p.at

\* A sample, or the start of the window, is no older than gap in every slot.
FreshWithin(S, gap) ==
  \A t \in WindowSlots : \E at \in {Window.start} \cup {p.at : p \in S} : at < t /\ t - at <= gap

\* In slot t there is a latest sample, and value says whether it is x or more.
ValueIn(S, x, value, t) ==
  (\E p \in S : p.at < t) /\ (LatestOf(S, t).gauge >= x <=> value)

Lasts(S, n, x, value) ==
  \E t \in WindowSlots : /\ t + n - 1 \in WindowSlots
                         /\ \A u \in t..(t + n - 1) : ValueIn(S, x, value, u)

OnDuration(x, gap, requirement, duration) ==
  [kind |-> "metric_duration", operator |-> "gte", threshold |-> x,
   maxGap |-> gap, requirement |-> requirement, duration |-> duration]

\* A duration predicate is decided just when a gauge sample of one series was
\* never older than the allowed gap, and then says whether the latest sample
\* satisfied it, slot by slot, for long enough; statistics of the samples are
\* between their extremes and agree with it (metrics.py 135-165 and 828-1046).
DurationIsHeld ==
  now = End =>
    LET S == Samples(PointsOf("gauge"))
        Verdict(a) == MetricAssertion(PointsOf("gauge"), "gauge", None, a)
        Statistics(aggregations, x, verdict) ==
          \A a \in aggregations : Verdict(OnStatistic(a, "gte", x)) = verdict
    IN \A x \in Ages :
         /\ Statistics({"min"}, x, "passed") =>
              /\ Verdict(OnDuration(x, 2, "maximum_violation", 0)) # "failed"
              /\ Statistics({"mean", "p50"}, x, "passed")
         /\ Statistics({"max"}, x, "failed") => Statistics({"mean", "p50"}, x, "failed")
         /\ \A gap \in 1..2 :
              LET n == 3 - gap
                  long == Verdict(OnDuration(x, gap, "minimum_contiguous", n))
                  short == Verdict(OnDuration(x, gap, "maximum_violation", n))
                  decided == Cardinality({p.series : p \in S}) = 1 /\ FreshWithin(S, gap)
              IN /\ (long # "error" <=> decided) /\ (short # "error" <=> decided)
                 /\ decided => (long = "passed" <=> Lasts(S, n, x, TRUE))
                 /\ decided => (short = "passed" <=> ~Lasts(S, n + 1, x, FALSE))

\* The increase of a counter is that of the intervals returned with it
\* (metrics.py 615: "Return a monotonic Sum increase and the exact intervals
\* that produced it."), also for a stream whose start is not known.
CounterIsExact ==
  now = End => LET e == Evidence IN \A i \in {"received", "lost", "sequence"} :
    e[i].status = "ok" => e[i].total = CountOf(i, SlotsOf(e[i].coverage))
=============================================================================

-------------------------- MODULE MetricAggregates --------------------------
(***************************************************************************)
(* What the harness computes from the OTLP metric points of one window     *)
(* (packages/harness/...: metrics, _histogram_estimates): counter totals,  *)
(* merged histograms, bounds of their statistics, and the comparison of a  *)
(* bound with a threshold.                                                 *)
(*                                                                         *)
(* A point is a record [id, series, start, at, ...]; its series stands for *)
(* the sorted attributes, and instruments have their declared names, units *)
(* and one temporality.  A result has the status "ok", "error" (a          *)
(* MetricAggregationError) or "insufficient" (a MetricInsufficientData).   *)
(***************************************************************************)
EXTENDS Integers, Sequences, FiniteSets, Functions

CONSTANTS
  Window,         \* [start, end] of the evaluation
  Tolerance,      \* METRIC_WINDOW_COVERAGE_TOLERANCE_NS
  MaxUncovered,   \* METRIC_WINDOW_MAX_UNCOVERED_FRACTION is 1 / MaxUncovered
  Infinity,       \* above every value
  None

ASSUME WindowAssumption ==
  /\ Window.start \in Nat /\ Window.end \in Nat /\ Window.start < Window.end
  /\ Tolerance \in Nat /\ MaxUncovered \in Nat \ {0}
  /\ Infinity \in Nat /\ None \notin Int

Least(S) == CHOOSE x \in S : \A y \in S : x <= y
Greatest(S) == CHOOSE x \in S : \A y \in S : y <= x
Total(f) == SumFunction(f)
Status(s) == [status |-> s]

\* The members of S, each where as many precede it as are before it.
Sorted(S, Before(_, _)) ==
  LET rank(p) == Cardinality({q \in S : Before(q, p)})
  IN [k \in 1..Cardinality(S) |-> CHOOSE p \in S : rank(p) = k - 1]
-----------------------------------------------------------------------------
(***************************************************************************)
(* Intervals and their coverage of the window.                             *)
(***************************************************************************)
WindowSlots == (Window.start + 1)..Window.end
SlotsOf(I) == UNION {(i.start + 1)..i.end : i \in I}

Overlap(i, j) == i.start < j.end /\ j.start < i.end

Selected(P) == {p \in P : /\ Window.start <= p.at /\ p.at <= Window.end
                          /\ Window.start <= p.start}

ValidDelta(P) ==
  /\ \A p \in P : p.start < p.at
  /\ \A p, q \in P : p # q /\ p.series = q.series => p.at <= q.start \/ q.at <= p.start

Coverage(P) == {[series |-> p.series, start |-> p.start, end |-> p.at] : p \in P}

SeriesCoversEnds(I, temporality, tolerance) ==
  /\ Least({i.start : i \in I}) - Window.start \in -tolerance..tolerance
  /\ Greatest({i.end : i \in I}) - Window.end \in -tolerance..tolerance

\* I are the intervals of one series: in order, without gaps unless they are
\* deltas, and leaving no more of the window uncovered than tolerated.
SeriesCovers(I, temporality, tolerance) ==
  LET from == Least({i.start : i \in I})
      to == Greatest({i.end : i \in I})
      Near(a, b) == a - b <= tolerance /\ b - a <= tolerance
  IN /\ temporality = "delta" \/ (from + 1)..to \subseteq SlotsOf(I)
     /\ Near(from, Window.start) /\ Near(to, Window.end)
     /\ Cardinality(WindowSlots \ SlotsOf(I)) <= tolerance

Allowed == LET part == (Window.end - Window.start) \div MaxUncovered
           IN IF part < Tolerance THEN part ELSE Tolerance

\* require_window_coverage does not raise for the contributions C.
Covers(C, temporality) ==
  /\ C # {}
  /\ \A c \in C : c.start < c.at
  /\ \A c, d \in C : c # d /\ c.series = d.series => ~Overlap(
        [start |-> c.start, end |-> c.at], [start |-> d.start, end |-> d.at])
  /\ \A s \in {c.series : c \in C} :
        SeriesCovers(Coverage({c \in C : c.series = s}), temporality, Allowed)

\* The part of the contributions inside the window.
Clipped(C) ==
  LET Clip(c) == [c EXCEPT !.start = Greatest({c.start, Window.start}),
                           !.at = Least({c.at, Window.end})]
  IN {d \in {Clip(c) : c \in C} : d.start < d.at}
-----------------------------------------------------------------------------
(***************************************************************************)
(* Points of one cumulative series with one start, in order of time.       *)
(***************************************************************************)
Earlier(p, q) == p.at < q.at \/ (p.at = q.at /\ p.id < q.id)
InOrder(S) == Sorted(S, Earlier)

Streams(P) ==
  {{q \in P : q.series = p.series /\ q.start = p.start} : p \in P}

Until(P, t) == {p \in P : p.at <= t}

\* The first adjacent pair that is not as it should be decides.
OrderStatus(o, PairStatus(_, _)) ==
  LET bad == {k \in 1..(Len(o) - 1) : PairStatus(o[k], o[k + 1]) # "ok"}
  IN IF bad = {} THEN "ok" ELSE LET k == Least(bad) IN PairStatus(o[k], o[k + 1])

\* The results of the streams are taken in the order they first appear in.
FirstFailure(Result(_), P) ==
  LET failed == {S \in Streams(P) : Result(S).status \in {"error", "insufficient"}}
      earliest == CHOOSE S \in failed : \A T \in failed :
                    Least({p.id : p \in S}) <= Least({p.id : p \in T})
  IN IF failed = {} THEN "ok" ELSE Result(earliest).status
-----------------------------------------------------------------------------
(***************************************************************************)
(* Counters: the increase of field f of the points P.                      *)
(***************************************************************************)
CounterStream(S, f) ==
  LET o == InOrder(S)
      latest == o[Len(o)]
      Pair(p, q) == IF q.at = p.at \/ q[f] < p[f] THEN "error" ELSE "ok"
      baselines == {p \in Until(S, Window.start) : p.at < latest.at}
      base == InOrder(baselines)[Cardinality(baselines)]
      Increase(by, from) ==
        IF from >= latest.at THEN Status("error")
        ELSE [status |-> "ok", id |-> latest.id, total |-> by,
              series |-> latest.series, start |-> from, at |-> latest.at]
  IN IF OrderStatus(o, Pair) # "ok" THEN Status("error")
     ELSE IF latest.at < Window.start THEN Status("outside")
     ELSE IF latest.start >= Window.start THEN Increase(latest[f], latest.start)
     ELSE IF baselines = {} THEN Status("error")
     ELSE Increase(latest[f] - base[f], base.at)

CounterAggregate(P, f, temporality) ==
  LET deltas == Selected(P)
      Stream(S) == CounterStream(S, f)
      parts == {Stream(S) : S \in Streams(Until(P, Window.end))} \ {Status("outside")}
  IN IF temporality = "delta"
     THEN IF deltas = {} \/ ~ValidDelta(deltas) THEN Status("error")
          ELSE [status |-> "ok", coverage |-> Coverage(deltas),
                total |-> Total([p \in deltas |-> p[f]])]
     ELSE IF \/ parts = {} \/ Status("error") \in parts
             \/ \E c, d \in parts : c # d /\ c.series = d.series /\ c.start < d.at
                                    /\ d.start < c.at
          THEN Status("error")
          ELSE [status |-> "ok", coverage |-> Coverage(parts),
                total |-> Total([c \in parts |-> c.total])]
-----------------------------------------------------------------------------
(***************************************************************************)
(* Histograms.                                                             *)
(***************************************************************************)
Subtract(latest, base) ==
  LET buckets == [k \in DOMAIN latest.buckets |-> latest.buckets[k] - base.buckets[k]]
      count == latest.count - base.count
      baseSum == IF base.count = 0 THEN 0 ELSE base.sum
  IN IF \/ latest.bounds # base.bounds
        \/ count < 0 \/ \E k \in DOMAIN buckets : buckets[k] < 0
        \/ base.count # 0 /\ (latest.sum = None) # (base.sum = None)
     THEN Status("error")
     ELSE [status |-> "ok", id |-> latest.id, series |-> latest.series,
           bounds |-> latest.bounds, start |-> base.at, at |-> latest.at,
           count |-> count, buckets |-> buckets,
           sum |-> IF None \in {latest.sum, baseSum} THEN None
                   ELSE latest.sum - baseSum,
           min |-> IF base.count = 0 THEN latest.min ELSE None,
           max |-> IF base.count = 0 THEN latest.max ELSE None]

Entire(p) ==
  [status |-> "ok", id |-> p.id, series |-> p.series, bounds |-> p.bounds,
   start |-> p.start, at |-> p.at, count |-> p.count, buckets |-> p.buckets,
   sum |-> p.sum, min |-> p.min, max |-> p.max]

CumulativePair(p, q) ==
  IF q.at = p.at \/ q.bounds # p.bounds THEN "error"
  ELSE IF \E k \in DOMAIN p.buckets : q.buckets[k] < p.buckets[k] THEN "insufficient"
  ELSE "ok"

\* A first point that starts when it was observed carries history of unknown
\* start.  A baseline before the window is moved to its start when the buckets
\* of the next point show that nothing happened in between.
CumulativeWindowSample(S) ==
  LET o == InOrder(S)
      latest == o[Len(o)]
      n == Cardinality(Until(S, Window.start))
  IN IF OrderStatus(o, CumulativePair) # "ok"
       THEN Status(OrderStatus(o, CumulativePair))
     ELSE IF latest.at <= Window.start THEN Status("outside")
     ELSE IF latest.start >= Window.start
       THEN IF o[1].start = o[1].at THEN Subtract(latest, o[1]) ELSE Entire(latest)
     ELSE IF n = 0 \/ (o[n].at < Window.start /\ o[n].buckets # o[n + 1].buckets)
       THEN Status("insufficient")
     ELSE Subtract(latest, [o[n] EXCEPT !.at = Window.start])

Contributions(P, temporality) ==
  LET deltas == Selected(P)
      early == Until(P, Window.end)
      failure == FirstFailure(CumulativeWindowSample, early)
  IN IF P = {} THEN Status("insufficient")
     ELSE IF temporality = "delta"
       THEN IF ValidDelta(deltas)
            THEN [status |-> "ok", of |-> {Entire(p) : p \in deltas}]
            ELSE Status("error")
     ELSE IF failure # "ok" THEN Status(failure)
     ELSE [status |-> "ok", of |-> {CumulativeWindowSample(S) : S \in Streams(early)}
                                     \ {Status("outside")}]

\* A summary is known when every contribution with events recorded it.
Merge(C) ==
  LET bounds == (CHOOSE c \in C : TRUE).bounds
      full == {c \in C : c.count # 0}
      Known(f) == \A c \in full : c[f] # None
  IN IF C = {} THEN Status("insufficient")
     ELSE IF \E c \in C : c.bounds # bounds THEN Status("error")
     ELSE [status |-> "ok", bounds |-> bounds,
           count |-> Total([c \in C |-> c.count]),
           buckets |-> [k \in 1..(Len(bounds) + 1) |-> Total([c \in C |-> c.buckets[k]])],
           sum |-> IF Known("sum") THEN Total([c \in full |-> c.sum]) ELSE None,
           min |-> IF full # {} /\ Known("min") THEN Least({c.min : c \in full}) ELSE None,
           max |-> IF full # {} /\ Known("max") THEN Greatest({c.max : c \in full})
                   ELSE None]

HistogramAggregate(P, temporality) ==
  LET parts == Contributions(P, temporality)
      merged == Merge(parts.of)
  IN IF parts.status # "ok" THEN parts
     ELSE IF merged.status # "ok" THEN merged
     ELSE IF Covers(parts.of, temporality) THEN merged
     ELSE Status("insufficient")
-----------------------------------------------------------------------------
(***************************************************************************)
(* Bounds of a statistic, and their comparison.  A value is over the       *)
(* denominator "over", which is the count for a mean and 1 otherwise.      *)
(***************************************************************************)
BucketOf(bounds, v) == 1 + Cardinality({k \in DOMAIN bounds : bounds[k] < v})

BucketEstimate(h, k, nonnegative) ==
  LET open == IF k = 1 THEN -Infinity ELSE h.bounds[k - 1]
      lower == Greatest({open} \cup (IF nonnegative THEN {0} ELSE {})
                               \cup ({h.min} \ {None}))
      upper == Least({IF k > Len(h.bounds) THEN Infinity ELSE h.bounds[k]}
                       \cup ({h.max} \ {None}))
  IN [lower |-> lower, upper |-> upper, above |-> k > 1 /\ lower = open, over |-> 1]

Exactly(v, n) == [lower |-> v, upper |-> v, above |-> FALSE, over |-> n]

\* The extremes lie in the first and the last occupied bucket.
ValidExtrema(h) ==
  LET occupied == {k \in DOMAIN h.buckets : h.buckets[k] # 0}
  IN /\ h.min # None => BucketOf(h.bounds, h.min) = Least(occupied)
     /\ h.max # None => BucketOf(h.bounds, h.max) = Greatest(occupied)

HasNegativeEvent(h) ==
  \/ h.min # None /\ h.min < 0
  \/ h.sum # None /\ h.sum < 0
  \/ \E k \in DOMAIN h.bounds : h.bounds[k] < 0 /\ h.buckets[k] > 0

RankBucket(h, rank) ==
  Least({k \in DOMAIN h.buckets : Total([j \in 1..k |-> h.buckets[j]]) >= rank})

Level(aggregation) ==
  CASE aggregation = "p50" -> <<1, 2>>
    [] aggregation = "p95" -> <<19, 20>>
    [] aggregation = "p99" -> <<99, 100>>

\* ceil(p * count)
QuantileRank(aggregation, count) ==
  LET q == Level(aggregation) IN (count * q[1] + q[2] - 1) \div q[2]

RankEstimate(h, aggregation, nonnegative) ==
  IF aggregation = "min" /\ h.min # None THEN Exactly(h.min, 1)
  ELSE IF aggregation = "max" /\ h.max # None THEN Exactly(h.max, 1)
  ELSE LET rank == CASE aggregation = "min" -> 1
                     [] aggregation = "max" -> h.count
                     [] OTHER -> QuantileRank(aggregation, h.count)
       IN BucketEstimate(h, RankBucket(h, rank), nonnegative)

\* Of a histogram, or of one that could not be merged.
Statistic(h, aggregation, nonnegative) ==
  LET e == RankEstimate(h, aggregation, nonnegative)
      Found(x) == [status |-> "ok", is |-> x]
  IN IF h.status # "ok" THEN h
     ELSE IF aggregation # "count" /\ h.count = 0 THEN Status("insufficient")
     ELSE IF aggregation = "mean" /\ h.sum = None THEN Status("insufficient")
     ELSE IF h.count # 0 /\ ~ValidExtrema(h) THEN Status("error")
     ELSE IF aggregation = "count" THEN Found(Exactly(h.count, 1))
     ELSE IF nonnegative /\ HasNegativeEvent(h) THEN Status("error")
     ELSE IF aggregation = "mean" THEN Found(Exactly(h.sum, h.count))
     ELSE IF e.lower > e.upper \/ (e.above /\ e.lower = e.upper) THEN Status("error")
     ELSE Found(e)

\* "skipped": the bounds do not decide.
Compare(e, operator, threshold) ==
  LET limit == threshold * e.over
      above == e.lower > limit \/ (e.above /\ e.lower = limit)
      Decide(passed, failed) ==
        IF passed THEN "passed" ELSE IF failed THEN "failed" ELSE "skipped"
  IN CASE operator = "lt"  -> Decide(e.upper < limit, e.lower >= limit)
       [] operator = "lte" -> Decide(e.upper <= limit, above)
       [] operator = "gt"  -> Decide(above, e.upper <= limit)
       [] operator = "gte" -> Decide(e.lower >= limit, e.upper < limit)
       [] operator = "eq"  -> Decide(e.lower = limit /\ e.upper = limit,
                                     above \/ limit > e.upper)

Holds(v, operator, threshold) ==
  CASE operator = "lt" -> v < threshold
    [] operator = "lte" -> v <= threshold
    [] operator = "eq" -> v = threshold
    [] operator = "gte" -> v >= threshold
    [] operator = "gt" -> v > threshold

-----------------------------------------------------------------------------
(***************************************************************************)
(* Gauges: the longest time a predicate held, from sample to sample.       *)
(***************************************************************************)
\* A sample that holds for no time counts for nothing.
Holding(S) == {p \in S : \A q \in S : q.at = p.at => q.id <= p.id}

GaugeGapsBetween(o) == {o[k + 1].at - o[k].at : k \in 1..(Len(o) - 1)}

GaugeGaps(o) ==
  {o[1].at - Window.start, Window.end - o[Len(o)].at}
    \cup {o[k + 1].at - o[k].at : k \in 1..(Len(o) - 1)}

\* Lengths of the segments, added up while the predicate keeps its value.
LongestHold(o, value, operator, threshold) ==
  LET Truth(k) == Holds(o[k].gauge, operator, threshold)
      till(k) == IF k = Len(o) THEN Window.end ELSE o[k + 1].at
      hold[k \in 0..Len(o)] ==
        IF k = 0 THEN 0
        ELSE till(k) - o[k].at
               + IF k > 1 /\ Truth(k) = Truth(k - 1) THEN hold[k - 1] ELSE 0
  IN Greatest({0} \cup {hold[k] : k \in {j \in 1..Len(o) : Truth(j) = value}})

DurationAssertion(S, a) ==
  LET o == InOrder(Holding(S))
  IN IF Cardinality({p.series : p \in S}) # 1 THEN "error"
     ELSE IF \E gap \in GaugeGaps(o) : gap > a.maxGap THEN "error"
     ELSE IF IF a.requirement = "minimum_contiguous"
             THEN LongestHold(o, TRUE, a.operator, a.threshold) >= a.duration
             ELSE LongestHold(o, FALSE, a.operator, a.threshold) <= a.duration
     THEN "passed" ELSE "failed"
-----------------------------------------------------------------------------
(***************************************************************************)
(* Assertions.                                                             *)
(***************************************************************************)
\* Gauge values in their order; a quantile is interpolated between two of them.
Lower(p, q) == p.gauge < q.gauge \/ (p.gauge = q.gauge /\ p.id < q.id)
Values(S) == LET o == Sorted(S, Lower) IN [k \in DOMAIN o |-> o[k].gauge]

Percentile(v, q) ==
  LET position == (Len(v) - 1) * q[1]
      low == position \div q[2] + 1
      part == position % q[2]
  IN Exactly(v[low] * q[2] + (IF part = 0 THEN 0 ELSE (v[low + 1] - v[low]) * part), q[2])

ScalarStatistic(v, aggregation) ==
  CASE aggregation = "min" -> Exactly(v[1], 1)
    [] aggregation = "max" -> Exactly(v[Len(v)], 1)
    [] aggregation = "mean" -> Exactly(Total(v), Len(v))
    [] aggregation = "count" -> Exactly(Len(v), 1)
    [] OTHER -> Percentile(v, Level(aggregation))

\* A sum has no scalar statistic.
GenericAggregate(S, instrument, aggregation) ==
  IF instrument = "gauge"
  THEN [status |-> "ok", is |-> ScalarStatistic(Values(S), aggregation)]
  ELSE Status("error")

\* A statistic that cannot be known is skipped, one that is wrong is an error.
Judged(statistic, a) ==
  CASE statistic.status = "insufficient" -> "skipped"
    [] statistic.status = "error" -> "error"
    [] OTHER -> Compare(statistic.is, a.operator, a.threshold)

\* One assertion on the points P of an instrument; statistic is that of the
\* merged histogram when it is one.
MetricAssertion(P, instrument, statistic, a) ==
  LET S == {p \in P : Window.start <= p.at /\ p.at <= Window.end}
      of == IF instrument = "histogram" THEN statistic
            ELSE GenericAggregate(S, instrument, a.aggregation)
  IN IF S = {} THEN "error"
     ELSE IF a.kind = "metric_duration"
       THEN IF instrument = "gauge" THEN DurationAssertion(S, a) ELSE "error"
     ELSE Judged(of, a)
=============================================================================

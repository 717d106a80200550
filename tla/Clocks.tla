------------------------------- MODULE Clocks -------------------------------
(***************************************************************************)
(* Verdicts on an observed source clock (packages/harness/.../timing)      *)
(* against what the clock really showed.                                   *)
(*                                                                         *)
(* The unit of time is the nanosecond of the code, so that the instant     *)
(* "just before a sample" is the one before it.  The clock is external: it *)
(* advances, stops, jumps or moves back from one instant to the next, and  *)
(* its observer gets a callback at some instants and not at others.  Real- *)
(* time factors are fractions <<progress, duration>>.  Deadline ratios and *)
(* the observer that runs without measurement bounds are left out.         *)
(***************************************************************************)
EXTENDS Integers, Sequences, FiniteSets, FiniteSetsExt

CONSTANTS
  Measured,       \* [start, end] of the measurement
  RtfWindow,      \* rtf_window_sec
  MaxGap,         \* max_sample_gap_ns
  LastInstant,    \* bound of the model
  Rates,          \* how far the clock goes in one instant
  Factors,        \* values of min_realtime_factor, as fractions
  Step, MaxSkipped  \* step_size_sec, max_skipped_steps

ASSUME ClockAssumption ==
  /\ {RtfWindow, MaxGap, Step} \subseteq Nat \ {0} /\ MaxSkipped \in Nat
  /\ {Measured.start, Measured.end, LastInstant} \subseteq Nat
  /\ Measured.start < Measured.end /\ Measured.end <= LastInstant
  /\ Rates \subseteq Int /\ Factors \subseteq Nat \X (Nat \ {0})

VARIABLES
  shown,          \* shown[t + 1] is the source time at instant t
  seen            \* instants of the callbacks

clockVars == <<shown, seen>>
-----------------------------------------------------------------------------
(***************************************************************************)
(* The clock and its observer (external).                                  *)
(***************************************************************************)
Instant == Len(shown) - 1
SourceTime(t) == shown[t + 1]

ClockInit == shown = <<0>> /\ seen \in SUBSET {0}

Advance ==
  /\ Instant < LastInstant
  /\ \E d \in Rates : shown' = Append(shown, SourceTime(Instant) + d)
  /\ seen' \in {seen, seen \cup {Instant + 1}}

ClockNext == Advance

ClockSpec == ClockInit /\ [][ClockNext]_clockVars
-----------------------------------------------------------------------------
(***************************************************************************)
(* The harness, on the samples <<t, SourceTime(t)>> of the instants in seen.   *)
(***************************************************************************)
FirstFrom(a) == Min({t \in seen : t >= a})
LastUpTo(b) == Max({t \in seen : t <= b})
Neighbours == {n \in seen \X seen :
                 n[1] < n[2] /\ ~\E v \in seen : n[1] < v /\ v < n[2]}

Monotonic == seen # {} /\ \A n \in Neighbours : SourceTime(n[1]) <= SourceTime(n[2])
Outside == \E t \in seen : t < Measured.start \/ Measured.end < t
Gaps == {FirstFrom(0) - Measured.start, Measured.end - LastUpTo(LastInstant)}
          \cup {n[2] - n[1] : n \in Neighbours}
Covered == ~Outside /\ \A g \in Gaps : g <= MaxGap

\* Progress between samples at or inside the ends of an interval.
Lowest(a, b) ==
  IF \E t, u \in seen : a <= t /\ t < u /\ u <= b
  THEN <<SourceTime(LastUpTo(b)) - SourceTime(FirstFrom(a)), b - a>> ELSE <<0, b - a>>

\* The first and last interval, and those ending at a sample or just before.
LowerAtSamples ==
  {Lowest(t - RtfWindow, t) : t \in {u \in seen : u - RtfWindow >= Measured.start}}

LowerBounds ==
  {Lowest(Measured.start, Measured.end)} \cup
  IF Measured.end - Measured.start < RtfWindow THEN {}
  ELSE {Lowest(Measured.start, Measured.start + RtfWindow),
        Lowest(Measured.end - RtfWindow, Measured.end)}
       \cup LowerAtSamples
       \cup {Lowest(t - 1 - RtfWindow, t - 1) :
               t \in {u \in seen : u - 1 - RtfWindow >= Measured.start}}

\* Progress between samples that enclose an interval ending at a sample.
UpperBounds ==
  {<<SourceTime(Measured.end) - SourceTime(Measured.start), Measured.end - Measured.start>> :
     x \in {y \in {0} : FirstFrom(0) = Measured.start /\ LastUpTo(LastInstant) = Measured.end}}
  \cup {<<SourceTime(t) - SourceTime(LastUpTo(t - RtfWindow)), RtfWindow>> :
          t \in {u \in seen : /\ u - RtfWindow >= Measured.start
                              /\ FirstFrom(0) <= u - RtfWindow}}

AtLeast(f, min) == min[1] = 0 \/ f[1] * min[2] >= min[1] * f[2]

\* simulation_realtime with min_realtime_factor = min.
Realtime(min) ==
  LET few == Cardinality(seen) < 2
      below == ~few /\ \E f \in UpperBounds : ~AtLeast(f, min)
      reached == IF ~few /\ Covered THEN \A f \in LowerBounds : AtLeast(f, min)
                 ELSE min[1] = 0
  IN IF below \/ (seen # {} /\ ~Monotonic) \/ (~few /\ Outside) THEN "failed"
     ELSE IF few \/ ~Covered \/ ~reached THEN "insufficient" ELSE "passed"

ClockChanges == {n \in Neighbours : SourceTime(n[1]) # SourceTime(n[2])}
Elapsed == LastUpTo(LastInstant) - FirstFrom(0)
Advanced == SourceTime(FirstFrom(0)) < SourceTime(LastUpTo(LastInstant))

\* playback_clocked with min_clock_hz = hz[1] / hz[2].
Playback(hz) ==
  IF seen = {} \/ ~Monotonic \/ ~Advanced
       \/ Cardinality(ClockChanges) * hz[2] < hz[1] * Elapsed
  THEN "failed" ELSE "passed"

\* round() of delta / Step, halves to even, and at least one step.
Steps(delta) ==
  LET down == delta \div Step
      rest == 2 * (delta % Step)
      up == rest > Step \/ (rest = Step /\ down % 2 = 1)
  IN Max({1, IF up THEN down + 1 ELSE down})
Residual(delta) == LET r == delta - Steps(delta) * Step IN Max({r, -r})

\* simulation_stepped
Stepped ==
  IF seen = {} \/ ~Monotonic \/ ~Advanced \/
       \E n \in ClockChanges : LET delta == SourceTime(n[2]) - SourceTime(n[1]) IN
         delta <= 0 \/ Residual(delta) > 1 \/ Steps(delta) - 1 > MaxSkipped
  THEN "failed" ELSE "passed"

TimeModes == {"hardware_realtime", "simulation_realtime", "simulation_stepped", "playback_clocked"}

\* _evaluate_timing in each of them, `rate` being what the policy asks of it.
Timing(mode, rate) ==
  IF mode = "simulation_realtime" THEN Realtime(rate)
  ELSE IF mode = "playback_clocked" THEN Playback(rate)
  ELSE IF mode = "simulation_stepped" THEN Stepped
  ELSE IF seen = {} \/ ~Monotonic THEN "failed" ELSE "passed"
-----------------------------------------------------------------------------
(***************************************************************************)
(* Properties.                                                             *)
(***************************************************************************)
Between(a, b) == {t \in 0..Instant : a <= t /\ t <= b}
MovesOn == \A t \in 1..Instant : SourceTime(t - 1) <= SourceTime(t)
MovesInSteps == \A t \in 1..Instant : \E k \in 0..(SourceTime(t) - SourceTime(t - 1)) :
                  SourceTime(t) - SourceTime(t - 1) = k * Step

\* The factor really reached over the measurement and in every window of it.
TrulyAtLeast(min) ==
  /\ AtLeast(<<SourceTime(Measured.end) - SourceTime(Measured.start),
               Measured.end - Measured.start>>, min)
  /\ \A a \in Between(Measured.start, Measured.end - RtfWindow) :
       AtLeast(<<SourceTime(a + RtfWindow) - SourceTime(a), RtfWindow>>, min)

\* Of a clock that never moves back, a real-time verdict "passed" or "failed" is
\* true of every window of the measurement, also of those no callback starts or
\* ends, and callbacks at every instant decide it; a playback that passed changed
\* often enough, a clock that moves in whole steps and passed showed no more unseen
\* steps between two callbacks than allowed, and a clock seen to move back fails in
\* every time mode (timing.py 147-301 and 385-450: the two-sided bounds).
ClockVerdictIsTrue ==
  Instant = LastInstant =>
    /\ MovesOn => \A min \in Factors :
         /\ Realtime(min) = "passed" => TrulyAtLeast(min)
         /\ Realtime(min) = "failed" => Outside \/ ~TrulyAtLeast(min)
         /\ seen = Between(Measured.start, Measured.end) => Realtime(min) # "insufficient"
    /\ MovesInSteps /\ Stepped = "passed" =>
         \A n \in Neighbours :
           Cardinality({SourceTime(t) : t \in Between(n[1] + 1, n[2])} \ {SourceTime(n[1])})
             <= MaxSkipped + 1
    /\ \A min \in Factors : Playback(min) = "passed" =>
         min[1] * Elapsed <= min[2] * Cardinality({t \in 1..Instant :
           /\ FirstFrom(0) < t /\ t <= LastUpTo(LastInstant)
           /\ SourceTime(t) # SourceTime(t - 1)})
    /\ (\E t, u \in seen : t < u /\ SourceTime(u) < SourceTime(t)) =>
         \A mode \in TimeModes, rate \in Factors : Timing(mode, rate) = "failed"
=============================================================================

------------------------------- MODULE Traces -------------------------------
(***************************************************************************)
(* Causal chains and channel deliveries read off OTLP spans                *)
(* (packages/harness/.../traces, contracts/.../qualification_policy).      *)
(*                                                                         *)
(* Messages travel over channel 1 and, forwarded by its consumer or sent   *)
(* for another reason, over channel 2, and so on; each channel ends in the *)
(* domain the next one starts in.  Every send and every receipt records a  *)
(* span [key, id, at, refs] on the clock of its domain, where refs are the *)
(* spans its parent and its links name.  The system is external; the       *)
(* evaluation translates the harness.  A span starts and ends at `at`.     *)
(***************************************************************************)
EXTENDS Integers, Sequences, FiniteSets, SequencesExt

CONSTANTS
  Channels,       \* number of channels of the chain
  Sends,          \* bound of the model: messages sent per channel
  Ticks,          \* bound of the model: the last instant
  SpanFaults,     \* bound of the model: repeated, unlinked, misexported ...
  Skews,          \* how far the clock of each receiving domain may be off
  Nothing

Keys == [channel : 1..Channels, side : {"producer", "consumer"}, n : Nat, copy : Nat]
Spans == [key : Keys, id : Int \cup {Nothing}, at : Int, refs : SUBSET Keys,
          real : Nat, cause : Keys \cup {Nothing}]

ASSUME ChainAssumption ==
  /\ Channels \in Nat \ {0} /\ Sends \in Nat \ {0} /\ Ticks \in Nat
  /\ SpanFaults \in Nat /\ Skews \subseteq [1..Channels -> Int]
  /\ Nothing \notin Int \cup Keys \cup Spans

VARIABLES
  skew,           \* per channel, the clock of its destination domain
  tick,
  spans,          \* spans as recorded, with `real` instants and causes
  misexported,    \* <<key, n>>: a span that its evidence file has n # 1 times
  spanFaults

traceVars == <<skew, tick, spans, misexported, spanFaults>>
-----------------------------------------------------------------------------
(***************************************************************************)
(* The system (external).                                                  *)
(***************************************************************************)
Clock(c, side) ==
  tick + IF side = "consumer" THEN skew[c] ELSE IF c = 1 THEN 0 ELSE skew[c - 1]

Of(S, c, side) == {s \in S : s.key.channel = c /\ s.key.side = side}

TraceInit ==
  /\ skew \in Skews /\ tick = 0 /\ spans = {} /\ misexported = {} /\ spanFaults = 0

Tick == tick < Ticks /\ tick' = tick + 1
        /\ UNCHANGED <<skew, spans, misexported, spanFaults>>

Record(c, side, n, copy, id, refs, cause) ==
  spans' = spans \cup {[key |-> [channel |-> c, side |-> side, n |-> n, copy |-> copy],
                        id |-> id, at |-> Clock(c, side), refs |-> refs,
                        real |-> tick, cause |-> cause]}

Numbers(c) == {s.key.n : s \in Of(spans, c, "producer")}

Send(c) ==
  LET n == 1 + Cardinality(Numbers(c))
      causes == IF c = 1 THEN {} ELSE {s.key : s \in Of(spans, c - 1, "consumer")}
  IN /\ n <= Sends
     /\ \/ \E k \in causes : Record(c, "producer", n, 1, n, {k}, k)
        \/ Record(c, "producer", n, 1, n, {}, Nothing)
     /\ UNCHANGED <<skew, tick, misexported, spanFaults>>

Receipts(p) == {s \in Of(spans, p.key.channel, "consumer") : s.key.n = p.key.n}

Receive(p) ==
  /\ p.key.side = "producer" /\ Receipts(p) = {}
  /\ Record(p.key.channel, "consumer", p.key.n, 1, p.id, {p.key}, p.key)
  /\ UNCHANGED <<skew, tick, misexported, spanFaults>>

\* A message arrives again, its receipt is recorded without its link or its
\* message ID, a message ID is used again, or a span is exported twice or never.
SpanFault ==
  /\ spanFaults < SpanFaults /\ spanFaults' = spanFaults + 1
  /\ \/ \E p \in spans :
          /\ p.key.side = "producer"
          /\ LET copy == 1 + Cardinality(Receipts(p))
             IN \/ copy = 2 /\ Record(p.key.channel, "consumer", p.key.n, copy, p.id,
                                      {p.key}, p.key)
                \/ \E id \in {p.id, Nothing} : copy = 1 /\
                     Record(p.key.channel, "consumer", p.key.n, copy, id,
                            IF id = Nothing THEN {p.key} ELSE {}, p.key)
          /\ UNCHANGED misexported
     \/ \E c \in 1..Channels :
          /\ Cardinality(Numbers(c)) \in 1..(Sends - 1)
          /\ Record(c, "producer", 1 + Cardinality(Numbers(c)), 1, 1, {}, Nothing)
          /\ UNCHANGED misexported
     \/ \E s \in spans, n \in {0, 2} :
          misexported' = misexported \cup {<<s.key, n>>} /\ UNCHANGED spans
  /\ UNCHANGED <<skew, tick>>

TraceNext ==
  \/ Tick
  \/ \E c \in 1..Channels : Send(c)
  \/ \E p \in spans : Receive(p)
  \/ SpanFault

TraceSpec == TraceInit /\ [][TraceNext]_traceVars
-----------------------------------------------------------------------------
(***************************************************************************)
(* evaluate_causal_chain on the exported spans S.                          *)
(***************************************************************************)
Exported == {s \in spans : <<s.key, 0>> \notin misexported}

\* load_otlp_json_traces refuses a domain's file without spans, and one that
\* repeats a span; then nothing is evaluated.
Loads ==
  /\ \A d \in 0..Channels : \E s \in Exported :
       d = IF s.key.side = "consumer" THEN s.key.channel ELSE s.key.channel - 1
  /\ \A s \in Exported : <<s.key, 2>> \notin misexported

Earliest(S) == CHOOSE x \in S : \A y \in S : x <= y
Latest(S) == CHOOSE x \in S : \A y \in S : y <= x

Pairs(S, c) ==
  {pair \in Of(S, c, "producer") \X Of(S, c, "consumer") :
     pair[1].id # Nothing /\ pair[1].id = pair[2].id}

\* _relationship_matches: the receipt names the send as its parent or in a link.
Related(p, q) == p.key \in q.refs

ChannelViolation(S, c) ==
  IF \E side \in {"producer", "consumer"} : Of(S, c, side) = {} THEN "missing_span"
  ELSE IF Pairs(S, c) = {} THEN "message_id_mismatch"
  ELSE IF \E pair \in Pairs(S, c) : ~Related(pair[1], pair[2])
    THEN "relationship_mismatch"
  ELSE IF \E pair \in Pairs(S, c) : pair[2].at < pair[1].at
    THEN "temporal_order_mismatch"
  ELSE "none"

\* Edges lead from a span to those that name it and do not start before it.
Follows(S, s) == {t \in S : s.key \in t.refs /\ s.at <= t.at}

Widened(S, W) == W \cup UNION {Follows(S, t) : t \in W}

Descendants(S, s) ==
  LET within[k \in Nat] == IF k = 0 THEN {s} ELSE Widened(S, within[k - 1])
  IN within[Cardinality(S)]

CandidatesByTime(S, c, previous) ==
  {pair \in Pairs(S, c) : previous = Nothing \/ pair[1].at >= previous.at}

\* The pairs of channel c that can follow the receipt `previous`.
Candidates(S, c, previous) ==
  IF previous = Nothing THEN Pairs(S, c)
  ELSE {pair \in Pairs(S, c) : /\ pair[1].at >= previous.at
                               /\ pair[1] \in Descendants(S, previous)}

Onward(S, c, V) == {pair[2] : pair \in UNION {Candidates(S, c, q) : q \in V}}

\* The receipts from which the search looks into channel c + 1: it visits each
\* at most once, and all of them when it finds no path.
Visited(S) ==
  LET visit[c \in Nat] == IF c = 0 THEN {Nothing} ELSE Onward(S, c, visit[c - 1])
  IN visit

PathViolation(S) ==
  LET visit == Visited(S)
      deepest == Latest({c \in 0..Channels : visit[c] # {}})
      early == \E q \in visit[deepest], pair \in Pairs(S, deepest + 1) :
                 q # Nothing /\ pair[1].at < q.at
  IN IF deepest = Channels THEN "none"
     ELSE IF early THEN "temporal_order_mismatch" ELSE "relationship_mismatch"

Chain(S) ==
  LET codes == {ChannelViolation(S, c) : c \in 1..Channels} \ {"none"}
  IN IF codes = {} THEN IF PathViolation(S) = "none" THEN "passed" ELSE "failed"
     ELSE IF codes = {"missing_span"} THEN "incomplete" ELSE "failed"
-----------------------------------------------------------------------------
(***************************************************************************)
(* evaluate_channel_delivery for channel c.                                *)
(***************************************************************************)
ById(S, id) == {s \in S : s.id = id}

Before(s, t) ==
  \/ s.at < t.at
  \/ s.at = t.at /\ s.id < t.id
  \/ s.at = t.at /\ s.id = t.id /\ s.key.n < t.key.n
  \/ s.at = t.at /\ s.id = t.id /\ s.key.n = t.key.n /\ s.key.copy < t.key.copy
Rank(S, s) == Cardinality({t \in S : Before(t, s)})

SurplusOfAll(P, Q) == LET n == Cardinality(P) - Cardinality(Q) IN IF n > 0 THEN n ELSE 0

\* The messages of P beyond the messages of Q with the same ID.
Surplus(P, Q) ==
  Cardinality({s \in P : Rank(ById(P, s.id), s) >= Cardinality(ById(Q, s.id))})

\* The k-th send of an ID is matched with its k-th receipt.
Matched(P, Q) ==
  {m \in P \X Q : /\ m[1].id = m[2].id
                  /\ Rank(ById(P, m[1].id), m[1]) = Rank(ById(Q, m[2].id), m[2])}

\* The receipts that follow that of a message that was sent later.
OutOfOrder(M) ==
  {m \in M : \E later \in M : Before(later[2], m[2]) /\ Before(m[1], later[1])}

\* The spans in the observation window, which opens with the first send.
InWindow(S, c, window) ==
  LET sends == Of(S, c, "producer")
      all == sends \cup Of(S, c, "consumer")
      start == Earliest({s.at : s \in IF sends = {} THEN all ELSE sends})
  IN {s \in all : start <= s.at /\ s.at <= start + window}

HaveIds(S) == S # {} /\ \A s \in S : s.id # Nothing

MessageAges(M) == {m[2].at - m[1].at : m \in M}

\* What makes an observation an error: spans outside of the window, IDs sent more
\* than once, receipts before their sends.
Faulty(S, c, P, Q) ==
  \/ P \cup Q # Of(S, c, "producer") \cup Of(S, c, "consumer")
  \/ \E p \in P : Cardinality(ById(P, p.id)) > 1
  \/ \E a \in MessageAges(Matched(P, Q)) : a < 0

\* What is counted in the window, if its spans all carry IDs and if not.
Observation(S, c, window) ==
  LET inside == InWindow(S, c, window)
      P == inside \cap Of(S, c, "producer")
      Q == inside \cap Of(S, c, "consumer")
      named == HaveIds(inside)
      ages == IF named THEN MessageAges(Matched(P, Q)) ELSE {}
  IN [seen |-> Of(S, c, "producer") \cup Of(S, c, "consumer") # {},
      error |-> ~named \/ Faulty(S, c, P, Q),
      sent |-> Cardinality(P), received |-> Cardinality(Q),
      lost |-> IF named THEN Surplus(P, Q) ELSE Cardinality(P),
      repeated |-> IF named THEN Surplus(Q, P) ELSE Cardinality(Q),
      late |-> IF named THEN Cardinality(OutOfOrder(Matched(P, Q))) ELSE 0,
      age |-> IF ages = {} THEN 0 ELSE Latest(ages)]

\* channel_observation_status, for the limits [sent, lost, of, repeated, late, age].
Delivery(m, limits) ==
  LET short == m.sent < limits.sent
      exceeded == \/ m.lost * limits.of > limits.lost * m.sent
                  \/ m.repeated > limits.repeated
                  \/ m.late > limits.late
                  \/ m.age > limits.age
  IN IF ~m.seen THEN "incomplete"
     ELSE IF m.error THEN "error"
     ELSE IF exceeded THEN "failed"
     ELSE IF short THEN "incomplete" ELSE "passed"

\* What evaluate_channel_delivery returns: what it counted, and its status.
Reported(m, limits) == [counts |-> m, status |-> Delivery(m, limits)]

\* _validate_transport_channel_observation, without which no reader takes them.
ObservationAccepted(d) ==
  LET m == d.counts
  IN /\ m.lost <= m.sent
     /\ m.received = m.sent - m.lost + m.repeated
     /\ m.late <= m.sent - m.lost
     /\ d.status = "passed" => m.sent # 0
-----------------------------------------------------------------------------
(***************************************************************************)
(* Properties.                                                             *)
(***************************************************************************)
Caused(s) == {t \in spans : t.cause = s.key}

\* The receipts at the end of channel c of messages sent because of receipts in R.
Delivered(c, R) ==
  {q \in Of(spans, c, "consumer") : \E p \in Of(spans, c, "producer") :
     /\ q.cause = p.key
     /\ c = 1 \/ \E r \in R : p.cause = r.key}

\* Those at the end of channel c that go back to a send on channel 1.
Arrived ==
  LET arrived[c \in Nat] == IF c = 0 THEN {} ELSE Delivered(c, arrived[c - 1])
  IN arrived

\* A chain that passed is one message's way through all channels, whatever was
\* repeated, not linked, exported twice or never, named twice or recorded by a
\* clock that is off; and such a way is found among all others when the records are whole
\* and no clock contradicts a cause (traces.py 473-541: the search visits a
\* receipt once and gives it up for good).
ChainIsCaused ==
  tick = Ticks =>
    LET passed == Loads /\ Chain(Exported) = "passed"
        consistent == \A s \in spans : \A t \in Caused(s) : s.at <= t.at
    IN /\ passed => Arrived[Channels] # {}
       /\ spanFaults = 0 /\ consistent => passed = (Arrived[Channels] # {})

Limits == [sent : {1}, lost : {0, 1}, of : {2}, repeated : {0, 1}, late : {0}, age : {Ticks}]

\* When every send is recorded under an ID of its own, a channel that passed did
\* not lose, repeat or overtake more messages than allowed, whatever the clock of
\* the receiver; and the counts are exact when each receipt has its ID and lies
\* in the window (traces.py 639-867).  Whatever was recorded, the counts add up
\* as the readers of an observation demand: each message is received or lost, and
\* each receipt is that of one message or repeats one (semantics.py 1102-1140).
DeliveryIsMeasured ==
  tick = Ticks => \A c \in 1..Channels, window \in {1, Ticks} :
    LET P == Of(spans, c, "producer")
        Q == Of(spans, c, "consumer")
        m == Observation(Exported, c, window)
        first(p) == Earliest({q.real : q \in {r \in Q : r.cause = p.key}})
        received == {p \in P : \E q \in Q : q.cause = p.key}
        lost == Cardinality(P \ received)
        repeated == Cardinality(Q) - Cardinality(received)
        late == Cardinality({p \in received : \E r \in received :
                               p.real < r.real /\ first(r) < first(p)})
        ordered == \A p, r \in P : p # r =>
          /\ p.real # r.real
          /\ {p, r} \subseteq received => first(p) # first(r)
        identified == misexported = {} /\ \A p, r \in P : p # r => p.id # r.id
    IN
    /\ \A limits \in Limits : ObservationAccepted(Reported(m, limits))
    /\ identified =>
       /\ \A limits \in Limits : Reported(m, limits).status = "passed" =>
            /\ lost * limits.of <= limits.lost * Cardinality(P)
            /\ repeated <= limits.repeated
            /\ ordered => late <= limits.late
            /\ \A p, r \in P \cup Q : r.at - p.at <= window
       /\ P # {} /\ ~m.error =>
            /\ m.sent = Cardinality(P) /\ m.lost = lost /\ m.repeated = repeated
            /\ ordered => m.late = late
=============================================================================

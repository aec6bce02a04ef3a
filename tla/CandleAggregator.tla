-------------------------- MODULE CandleAggregator --------------------------
(***************************************************************************)
(* The aggregator of one symbol: closed candles of one minute go in, one   *)
(* strategy candle (a bucket of Slots minutes, aligned to the clock) comes *)
(* out when it is complete, or when a later minute closes it as it is.     *)
(* Minutes are numbers; what a candle costs is a function of its minute.   *)
(* The counters of AggregationStats are only displayed and left out.       *)
(***************************************************************************)
EXTENDS Integers, FiniteSets, FiniteSetsExt, Sequences

CONSTANT Slots      \* CandleAggregator.expected_slots
ASSUME SlotsAssumption == Slots \in Nat \ {0}

Never == -1         \* None where a minute is expected: before every minute

bucket_start(m) == m - (m % Slots)
ExpectedSlots(b) == b .. b + Slots - 1

\* open: start of the bucket in formation; last: start of the last one finalised
FreshAggregator == [open |-> Never, slots |-> {}, last |-> Never]
Aggregator == [open : Int, slots : SUBSET Nat, last : Int]

NoBucket == [start |-> Never, slots |-> {}]
Built(b, slots) == [start |-> b, slots |-> slots]
\* Seeded variant: a bucket that lacks minutes is as good as a whole one
CompleteEnough(bucket) == bucket.slots # {}

Complete(bucket) == ExpectedSlots(bucket.start) \subseteq bucket.slots

Finalized(a) == [open |-> Never, slots |-> {}, last |-> a.open]

\* Its bucket is final, or older than the one in formation: discarded
Late(a, m) == bucket_start(m) <= a.last \/ bucket_start(m) < a.open

\* The minute opens another bucket: what there is of the previous one is final
Turns(a, m) == a.open # Never /\ bucket_start(m) # a.open

Opened(a, m) ==
  LET b == IF Turns(a, m) THEN Finalized(a) ELSE a IN
  IF b.open = Never THEN [b EXCEPT !.open = bucket_start(m), !.slots = {}] ELSE b

\* [agg |-> the aggregator after the candle of m, out |-> the bucket it finalised]
Push(a, m) ==
  LET base  == Opened(a, m)
      grown == [base EXCEPT !.slots = @ \union {m}]
      prior == IF Turns(a, m) THEN Built(a.open, a.slots) ELSE NoBucket
  IN  CASE Late(a, m) -> [agg |-> a, out |-> NoBucket]
        [] ~Late(a, m) /\ m \notin base.slots /\ Cardinality(grown.slots) >= Slots ->
             [agg |-> Finalized(grown),
              out |-> IF prior = NoBucket THEN Built(grown.open, grown.slots) ELSE prior]
        [] OTHER -> [agg |-> grown, out |-> prior]

\* hydrate: the candles pushed one by one in order of time, and those of the buckets they
\* finalised that are complete
Take(h, m) ==
  LET p == Push(h.agg, m) IN
  [agg   |-> p.agg,
   whole |-> IF p.out # NoBucket /\ Complete(p.out) THEN Append(h.whole, p.out) ELSE h.whole]

HydratedAggregator(minutes) ==
  LET After[S \in SUBSET minutes] ==
        IF S = {} THEN [agg |-> FreshAggregator, whole |-> <<>>]
        ELSE Take(After[S \ {Max(S)}], Max(S))
  IN  After[minutes]
=============================================================================

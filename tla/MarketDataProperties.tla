------------------------ MODULE MarketDataProperties ------------------------
(* What the path of the candles promises. *)
EXTENDS MarketData, SequencesExt

\* Every variable has its type.
TypeOK ==
  /\ now \in Minute /\ venue \subseteq Minute /\ source \in Sources /\ price \in Prices
  /\ prov \in Provider /\ poll \in Poll /\ stored \subseteq Minute
  /\ agg.open \in Minute \union {Never} /\ agg.last \in Minute \union {Never}
  /\ agg.slots \subseteq Minute /\ strat.prev \in Cross /\ degraded \in BOOLEAN
  /\ signal.bucket \in Minute \union {Never} /\ signal.direction \in Direction
  /\ report \in Reports /\ faults \in 0 .. MaxFaults
  /\ lost \subseteq Minute /\ ahead \subseteq lost

-----------------------------------------------------------------------------
(* Reference definitions: what a set of stored minutes amounts to *)

\* In order of time
Before(S, m) == {k \in S : k < m}
Ranked(S, i) == {m \in S : Cardinality(Before(S, m)) = i - 1}
InOrder(S) == [i \in 1 .. Cardinality(S) |-> CHOOSE m \in Ranked(S, i) : TRUE]

BucketsOf(S) == {bucket_start(m) : m \in S}
WholeBuckets(S) == {b \in BucketsOf(S) : ExpectedSlots(b) \subseteq S}
BarsOf(S) ==
  LET starts == InOrder(WholeBuckets(S))
  IN  [i \in DOMAIN starts |-> Bar(Built(starts[i], ExpectedSlots(starts[i])))]
FormingOf(S) ==
  IF S = {} \/ bucket_start(Max(S)) \in WholeBuckets(S) THEN {}
  ELSE S \intersect ExpectedSlots(bucket_start(Max(S)))

\* The aggregator holds no candle that the database lost, and none was stored after
\* later ones, which happens only to a fixture that is replayed after a lost candle
InStep == ahead = {} /\ lost \intersect stored = {}

UpTo(S, m) == {k \in S : k <= m}
FirstStored == Min(stored)

\* What a process that never stopped would have signalled on the bucket b
DueAt(b) ==
  LET bars == BarsOf(UpTo(stored, b + Slots - 1))
  IN  Signalled(HydratedStrategy(Front(bars)), Last(bars))

\* No minute is missing among the last ones that a restart reads again
RecentWhole ==
  \A m \in Minute : m < LastStored /\ m > LastStored - HydrationDepth /\ m >= FirstStored
                      => m \in stored

-----------------------------------------------------------------------------
(* Safety *)

\* No candle is skipped: a minute missing between stored ones was delivered to a tick
\* that was undone, or is missing from the fixture too.  The cursor passes over
\* neither a hole of the exchange, however large and whenever it is filled, nor a
\* candle on a page, nor one fetched before a failure or a restart
\* (bybit_provider.py:135-385, orchestrator.py:190-193).
NoCandleSkipped ==
  \A m \in Minute : stored # {} /\ FirstStored < m /\ m < LastStored /\ m \notin stored
                      => m \in lost \/ (source = "replay" /\ m \notin venue)

\* Whatever restarts there were, the strategy stands where a process that never
\* stopped would: same bucket in formation, same last bars, same side of the
\* averages.  Required while nothing is missing in the depth that hydration reads
\* (orchestrator.py:482-527, aggregator.py:244-263, engine.py:108-144).
RestartChangesNothing ==
  stored # {} /\ InStep /\ RecentWhole =>
    LET bars == BarsOf(stored)
        w    == warmup_required - 1
    IN  /\ agg.slots = FormingOf(stored)
        /\ Len(bars) >= w => /\ Len(strat.bars) >= w
                             /\ LastOf(strat.bars, w) = LastOf(bars, w)
        /\ Len(bars) < w  => strat.bars = bars
        /\ strat.prev = FastVsSlow(bars)

\* With holes a restart may know less, never something else: the bars are the last
\* ones of those that the stored candles amount to, so that a signal to trade is the
\* one that a process that never stopped would give
\* (orchestrator.py:320-345, engine.py:165-250).
NoInventedSignal ==
  InStep =>
    LET bars == BarsOf(stored) IN
    /\ \E n \in 0 .. Len(bars) : strat.bars = LastOf(bars, n)
    /\ signal.direction # "HOLD" => signal.direction = DueAt(signal.bucket)

-----------------------------------------------------------------------------
(* Why no candle is skipped: the inductive invariant *)

\* The last minute the provider is done with: what it hands out next comes after it
Reached == IF prov.queue # {} THEN Min(prov.queue) - 1 ELSE Later(prov.cursor, LastStored)

\* Everything up to there, from the first stored candle on, was delivered.
DeliveredSoFar ==
  /\ \A m \in stored : m <= Reached
  /\ \A m \in Minute : m <= Reached /\ (\E k \in stored : k < m) => m \in stored \union lost

\* What is queued follows without interruption, and so does what a call has collected.
NothingLeftOut ==
  /\ \A k \in prov.queue : \A m \in Minute : Reached < m /\ m <= k => m \in prov.queue
  /\ poll.phase \in {"bootstrap", "paging"} => prov.queue = {}
  /\ poll.phase = "bootstrap" => stored = {} /\ poll.got = {}
  /\ poll.phase = "paging" => /\ LastStored <= prov.cursor /\ prov.cursor <= poll.cursor
                              /\ poll.got = prov.cursor + 1 .. poll.cursor

\* A fixture is delivered in order, from the beginning after every restart.
FixtureInOrder ==
  /\ \A m \in venue : m <= prov.cursor \/ (\E k \in stored : m <= k) => m \in stored \union lost
  /\ poll.phase \in {"idle", "deliver"}
  /\ \A q \in prov.queue : q \in venue /\ \A m \in venue : m < q => m <= prov.cursor
  /\ \A q, r \in prov.queue : q = r

CursorInv ==
  /\ now \in Minute /\ venue \subseteq Minute /\ source \in Sources
  /\ prov \in Provider /\ poll \in Poll /\ stored \subseteq Minute /\ lost \subseteq Minute
  /\ poll.phase = "deliver" => prov.queue # {}
  /\ source = "bybit" => DeliveredSoFar /\ NothingLeftOut
  /\ source = "replay" => FixtureInOrder

-----------------------------------------------------------------------------
(* Why a restart knows enough, and never something else: the inductive invariant *)

\* What the minutes of S, pushed in order of time, make of aggregator and strategy
AggregatorOf(S) ==
  LET final == S \ FormingOf(S) IN
  [open  |-> IF FormingOf(S) = {} THEN Never ELSE bucket_start(Max(S)),
   slots |-> FormingOf(S),
   last  |-> IF final = {} THEN Never ELSE bucket_start(Max(final))]
StrategyOf(S) == [bars |-> BarsOf(S), prev |-> FastVsSlow(BarsOf(S))]

Since(S, m) == {k \in S : k > m}

\* Aggregator and strategy are what all that is stored amounts to, or its end from
\* somewhere on, as long as hydration reads; and the last signal to trade was due.
MemoryInv ==
  InStep =>
    /\ \E m \in Minute \union {Never} :
         /\ m = Never \/ Cardinality(Since(stored, m)) >= HydrationDepth
         /\ agg = AggregatorOf(Since(stored, m)) /\ strat = StrategyOf(Since(stored, m))
    /\ signal.direction # "HOLD" => /\ signal.bucket + Slots - 1 \in stored
                                    /\ signal.direction = DueAt(signal.bucket)

-----------------------------------------------------------------------------
(* Liveness, under LiveSpec *)

HoleAhead ==
  /\ source = "bybit" /\ prov.cursor # Never
  /\ prov.cursor + 1 \notin venue /\ prov.cursor + 1 < now

NothingToBeginWith ==
  prov.cursor = Never /\ Rows(Later(0, now - PageSize + 1), now - 1) = {}

\* A backlog of whatever length is drained: in the end everything that closed is
\* stored, unless the exchange still has a hole right after the cursor,
\* or had nothing at the first boot
\* (bybit_provider.py:293-367).
BacklogDrained ==
  source = "bybit" =>
    <>[](\/ HoleAhead \/ NothingToBeginWith
         \/ LastStored = now - 1 \/ now - 1 \in lost)

\* A hole that stays is reported again and again, if a page reaches beyond it
\* (bybit_provider.py:329-345, orchestrator.py:246-260).
HoleIsReported ==
  [](<>[](/\ HoleAhead
          /\ \E m \in venue : m > prov.cursor /\ m <= prov.cursor + PageSize)
     => []<>(report = "gap_detected"))
=============================================================================

----------------------------- MODULE MarketData -----------------------------
(***************************************************************************)
(* How candles reach the strategy of one symbol: the provider that pages   *)
(* through what the exchange has (or replays a fixture), the tick that     *)
(* stores a candle and feeds aggregator and strategy, the transaction that *)
(* may be undone around it, and the restart that rebuilds the strategy     *)
(* from the stored candles.                                                *)
(*                                                                         *)
(* Time is the minute now forming.  The queue of the provider is a set:    *)
(* it is filled in order of time and emptied from its first element, and   *)
(* so is a page.  Stored candles, provider, aggregator and strategy        *)
(* belong to one symbol, and only its ticks touch them.                    *)
(***************************************************************************)
EXTENDS CandleAggregator, StrategyEngine

CONSTANTS
  MaxMinute,        \* bound on time
  PageSize,         \* page_size
  MaxPages,         \* max_pages_per_poll
  InitialStart,     \* market_data_initial_start, or Never
  Sources,          \* the providers of this instance
  Prices,           \* the courses the price may take: functions of the minute
  MaxFaults,        \* bound on what goes wrong
  Faults            \* what may go wrong in this instance

Minute == 0 .. MaxMinute

ASSUME MinuteAssumption == MaxMinute \in Nat \ {0}
ASSUME PageAssumption == PageSize \in Nat \ {0} /\ MaxPages \in Nat \ {0}
ASSUME StartAssumption == InitialStart \in Minute \union {Never}
ASSUME SourcesAssumption == Sources \subseteq {"bybit", "replay"}
ASSUME FaultsAssumption ==
  MaxFaults \in Nat /\ Faults \subseteq {"hole", "fetch", "raise", "crash"}

VARIABLES
  now,        \* the minute in formation
  venue,      \* minutes of which the exchange, or the fixture, has a candle
  source,     \* which provider
  prov,       \* the provider's memory
  poll,       \* the call of next_candle in progress
  stored,     \* table candles
  price,      \* the course of the price
  agg,        \* CandleAggregator
  strat,      \* StrategyEngine
  degraded,   \* strategy_gap_degraded
  signal,     \* the last signal: its bucket and direction
  report,     \* the status of the last tick
  faults,     \* number of faults so far
  lost,       \* history: candles delivered to a tick that was undone
  ahead       \* history: those of them that the aggregator kept

clock    == <<now, venue, price, source>>
strategy == <<agg, strat, degraded, signal>>
history  == <<faults, lost, ahead>>
vars == <<clock, prov, poll, stored, strategy, report, history>>

-----------------------------------------------------------------------------
(* State *)

FreshProvider == [cursor |-> Never, queue |-> {}, gap |-> FALSE]
Provider == [cursor : Minute \union {Never}, queue : SUBSET Minute, gap : BOOLEAN]

Idle == [phase |-> "idle", cursor |-> Never, got |-> {}, pages |-> 0, at |-> 0]
Poll ==
  [phase : {"idle", "bootstrap", "paging", "deliver"},
   cursor : Minute \union {Never}, got : SUBSET Minute, pages : 0 .. MaxPages - 1, at : Minute]

NoSignal == [bucket |-> Never, direction |-> "HOLD"]
Reports ==
  {"none", "no_data", "no_new_candle", "retryable_error", "gap_detected",
   "duplicate_candle", "aggregating", "incomplete_bucket", "complete", "raised"}

Later(x, y) == IF x > y THEN x ELSE y
LastStored == IF stored = {} THEN Never ELSE Max(stored)

\* A strategy candle of a complete bucket
Bar(bucket) ==
  [close |-> price[Max(bucket.slots)],
   high  |-> Max({price[m] : m \in bucket.slots}),
   low   |-> Min({price[m] : m \in bucket.slots})]

-----------------------------------------------------------------------------
(* Restart: hydrate_strategy_state *)

\* strategy_hydration_depth: minutes read again, with a bucket to spare
HydrationDepth == (warmup_required + 1) * Slots

\* recent_candles: the last ones
RecentCandles(limit) == {m \in stored : Cardinality({k \in stored : k > m}) < limit}

Hydrated ==
  LET h == HydratedAggregator(RecentCandles(HydrationDepth)) IN
  [agg |-> h.agg, strat |-> HydratedStrategy([i \in DOMAIN h.whole |-> Bar(h.whole[i])])]

\* The process dies, whatever it was doing, and boots
Crash ==
  /\ "crash" \in Faults /\ faults < MaxFaults
  /\ faults' = faults + 1
  /\ prov' = FreshProvider /\ poll' = Idle /\ report' = "none"
  /\ agg' = Hydrated.agg /\ strat' = Hydrated.strat
  /\ degraded' = FALSE /\ signal' = NoSignal /\ ahead' = {}
  /\ UNCHANGED <<clock, stored, lost>>

-----------------------------------------------------------------------------
(* The exchange *)

\* A minute closes; the exchange may have no candle of the new one (yet)
MinutePasses ==
  /\ source = "bybit" /\ now < MaxMinute
  /\ now' = now + 1
  /\ \/ venue' = venue \union {now'} /\ UNCHANGED faults
     \/ /\ "hole" \in Faults /\ faults < MaxFaults /\ now' < MaxMinute
        /\ faults' = faults + 1 /\ UNCHANGED venue
  /\ UNCHANGED <<price, source, prov, poll, stored, strategy, report, lost, ahead>>

Backfill ==
  /\ source = "bybit"
  /\ \E m \in 0 .. now : m \notin venue /\ venue' = venue \union {m}
  /\ UNCHANGED <<now, price, source, prov, poll, stored, strategy, report, history>>

-----------------------------------------------------------------------------
(* next_candle *)

Ends(status) == poll' = Idle /\ report' = status

\* sync_cursor only ever moves forward
Synced == [prov EXCEPT !.cursor = Later(@, LastStored)]

\* _fetch_window: start and end are always sent together
Rows(first, last) == venue \intersect (first .. last)

\* Seeded variants: an interruption makes no difference; the newest closed candle
\* passes for forming; a hole is noticed only behind a usable candle
UsableAcrossHoles(rows, cursor, at) == {m \in rows : m > cursor /\ m < at}

UsableLate(rows, cursor, at) ==
  {m \in rows : m > cursor /\ m + 1 < at /\ \A k \in cursor + 1 .. m : k \in rows}

\* The closed minutes of a page without interruption after the cursor
Usable(rows, cursor, at) ==
  {m \in rows : m > cursor /\ m < at /\ \A k \in cursor + 1 .. m : k \in rows}

BrokenBehindUsable(rows, cursor, at) ==
  /\ Usable(rows, cursor, at) # {}
  /\ \E m \in rows : m > cursor + 1 /\ m - 1 \notin rows

\* Some row breaks the sequence, before any that is still forming
Broken(rows, cursor, at) ==
  \E m \in rows \ Usable(rows, cursor, at) :
     /\ \A k \in rows \ Usable(rows, cursor, at) : m <= k
     /\ m # cursor + 1 + Cardinality(Usable(rows, cursor, at))

\* Candles already fetched are delivered before anything is asked
TickFromQueue ==
  /\ poll.phase = "idle" /\ source = "bybit" /\ prov.queue # {}
  /\ prov' = Synced /\ poll' = [Idle EXCEPT !.phase = "deliver"]
  /\ UNCHANGED <<clock, stored, strategy, report, history>>

\* _refill_queue: from the cursor, from the configured start, or from a page
\* that ends now.  The instant is read once for the whole call
TickFromExchange ==
  /\ poll.phase = "idle" /\ source = "bybit" /\ prov.queue = {}
  /\ LET from == IF Synced.cursor # Never THEN Synced.cursor
                 ELSE IF InitialStart # Never THEN InitialStart - 1 ELSE Never
     IN  /\ prov' = [Synced EXCEPT !.cursor = from]
         /\ poll' = [Idle EXCEPT !.phase = IF Synced.cursor = Never /\ InitialStart = Never
                                           THEN "bootstrap" ELSE "paging",
                                 !.cursor = from, !.at = now]
  /\ UNCHANGED <<clock, stored, strategy, report, history>>

\* What the call has collected is queued; a gap waits until the queue is empty
Collected(got, gap) ==
  LET queue == prov.queue \union got
      known == prov.gap \/ gap
  IN  IF queue # {}
      THEN /\ prov' = [prov EXCEPT !.queue = queue, !.gap = known]
           /\ poll' = [Idle EXCEPT !.phase = "deliver"] /\ UNCHANGED report
      ELSE /\ prov' = [prov EXCEPT !.gap = FALSE]
           /\ Ends(IF known THEN "gap_detected" ELSE "no_new_candle")

\* First boot: the candles of the one page that ends now, from its oldest one
BootstrapPage ==
  /\ poll.phase = "bootstrap"
  /\ LET rows   == Rows(Later(0, poll.at - PageSize + 1), poll.at)
         before == Min(rows) - 1
         usable == Usable(rows, before, poll.at)
     IN  IF rows = {} \/ usable = {}
         THEN Ends("no_new_candle") /\ UNCHANGED prov
         ELSE /\ prov' = [cursor |-> Max(usable), queue |-> usable,
                          gap |-> prov.gap \/ \E m \in rows \ usable : m < poll.at]
              /\ poll' = [Idle EXCEPT !.phase = "deliver"] /\ UNCHANGED report
  /\ UNCHANGED <<clock, stored, strategy, history>>

\* The cap of pages for one call
LastPage(pages) == pages + 1 = MaxPages

FetchPage ==
  /\ poll.phase = "paging"
  /\ LET rows   == Rows(poll.cursor + 1, poll.cursor + PageSize)
         usable == Usable(rows, poll.cursor, poll.at)
         broken == Broken(rows, poll.cursor, poll.at)
         got    == poll.got \union usable
     IN  CASE usable = {} /\ broken /\ poll.got = {} ->
                Ends("gap_detected") /\ UNCHANGED prov
           [] usable = {} /\ ~(broken /\ poll.got = {}) -> Collected(got, broken)
           [] usable # {} ->
                IF broken \/ Cardinality(usable) < PageSize \/ LastPage(poll.pages)
                THEN Collected(got, broken)
                ELSE /\ poll' = [poll EXCEPT !.cursor = Max(usable), !.got = got,
                                             !.pages = @ + 1]
                     /\ UNCHANGED <<prov, report>>
  /\ UNCHANGED <<clock, stored, strategy, history>>

\* A timeout or the rate limit: what was collected before is kept
FetchFails ==
  /\ poll.phase \in {"bootstrap", "paging"}
  /\ "fetch" \in Faults /\ faults < MaxFaults
  /\ faults' = faults + 1
  /\ IF poll.got = {} THEN Ends("retryable_error") /\ UNCHANGED prov
                      ELSE Collected(poll.got, FALSE)
  /\ UNCHANGED <<clock, stored, strategy, lost, ahead>>

\* ReplayMarketDataProvider: the next row of the fixture, from the first one
\* after every restart; the end of the fixture ends the loop
TickFromFixture ==
  /\ poll.phase = "idle" /\ source = "replay"
  /\ LET rest == {m \in venue : m > prov.cursor} IN
     IF rest = {} THEN Ends("no_data") /\ UNCHANGED prov
     ELSE /\ prov' = [prov EXCEPT !.queue = {Min(rest)}]
          /\ poll' = [Idle EXCEPT !.phase = "deliver"] /\ UNCHANGED report
  /\ UNCHANGED <<clock, stored, strategy, history>>

-----------------------------------------------------------------------------
(* The candle in the tick *)

NextUp == Min(prov.queue)

\* _pop_from_queue: the cursor moves with what is delivered
Popped == [prov EXCEPT !.queue = @ \ {NextUp}, !.cursor = NextUp]

\* The candle goes to the aggregator, a complete bucket to the strategy.  A stop or
\* target hit on the candle returns only after this, and before the gap is noted
Final(m) == Push(agg, m).out
Whole(m) == Final(m) # NoBucket /\ Complete(Final(m))
GapNoted(m, stopped) == Final(m) # NoBucket /\ ~Whole(m) /\ ~stopped

Learns(m, stopped) ==
  /\ agg' = Push(agg, m).agg
  /\ strat' = IF Whole(m) THEN Seen(strat, Bar(Final(m))) ELSE strat
  /\ degraded' = (GapNoted(m, stopped) \/ (degraded /\ ~Whole(m)))

\* save_candle, the rest of the tick and the commit
Deliver ==
  /\ poll.phase = "deliver"
  /\ prov' = Popped /\ poll' = Idle
  /\ IF NextUp \in stored
     THEN report' = "duplicate_candle" /\ UNCHANGED <<stored, strategy>>
     ELSE /\ stored' = stored \union {NextUp}
          /\ \E stopped \in BOOLEAN :
               /\ Learns(NextUp, stopped)
               /\ report' = CASE Whole(NextUp) -> "complete"
                              [] GapNoted(NextUp, stopped) -> "incomplete_bucket"
                              [] OTHER -> "aggregating"
          /\ signal' = IF Whole(NextUp)
                       THEN [bucket    |-> Final(NextUp).start,
                             direction |-> Signalled(strat, Bar(Final(NextUp)))]
                       ELSE signal
  /\ UNCHANGED <<clock, history>>

\* The tick raises, before or after the aggregator has the candle: the database is
\* as it was, the memory of provider, aggregator and strategy is not
DeliverRaises ==
  /\ poll.phase = "deliver"
  /\ "raise" \in Faults /\ faults < MaxFaults /\ NextUp \notin stored
  /\ faults' = faults + 1
  /\ prov' = Popped /\ poll' = Idle /\ report' = "raised"
  /\ lost' = lost \union {NextUp}
  /\ \/ UNCHANGED <<agg, strat, degraded, ahead>>
     \/ ahead' = ahead \union {NextUp} /\ \E stopped \in BOOLEAN : Learns(NextUp, stopped)
  /\ UNCHANGED <<clock, stored, signal>>

-----------------------------------------------------------------------------

Init ==
  /\ source \in Sources
  /\ price \in Prices
  /\ IF source = "bybit" THEN now \in 0 .. 1 /\ venue = 0 .. now
     ELSE now = MaxMinute /\ venue \in SUBSET Minute /\ Cardinality(Minute \ venue) <= 1
  /\ prov = FreshProvider /\ poll = Idle /\ stored = {}
  /\ agg = FreshAggregator /\ strat = FreshStrategy /\ degraded = FALSE
  /\ signal = NoSignal /\ report = "none"
  /\ faults = 0 /\ lost = {} /\ ahead = {}

TickStep ==
  \/ TickFromQueue \/ TickFromExchange \/ TickFromFixture
  \/ BootstrapPage \/ FetchPage \/ Deliver

Next ==
  \/ TickStep \/ FetchFails \/ DeliverRaises \/ Crash
  \/ MinutePasses \/ Backfill

Spec == Init /\ [][Next]_vars

\* Time goes on.  A tick of bybit can always take its next step, so that the steps of
\* its ticks come again and again; those of a replay come to an end with the fixture.
LiveSpec == Spec /\ (source = "replay" \/ []<><<TickStep>>_vars) /\ WF_vars(MinutePasses)
=============================================================================

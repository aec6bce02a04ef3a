--------------------------- MODULE StrategyEngine ---------------------------
(***************************************************************************)
(* The strategy of one symbol: a crossing of two moving averages, filtered *)
(* by the average true range, over the strategy candles seen so far.       *)
(* Prices are small integers; averages are compared as sums, cross         *)
(* multiplied, and the filter's band is in percent of the price.           *)
(***************************************************************************)
EXTENDS Integers, Sequences, FiniteSetsExt

CONSTANTS
  Fast, Slow, AtrPeriod,   \* StrategyConfig.fast_period, slow_period, atr_period
  MinAtr, MaxAtr           \* min_atr_pct_of_price, max_atr_pct_of_price, in percent
ASSUME PeriodsAssumption == {Fast, Slow, AtrPeriod} \subseteq Nat \ {0}

Cross == {"none", "above", "below"}      \* _prev_fast_above_slow
Direction == {"HOLD", "BUY", "SELL"}

FreshStrategy == [bars |-> <<>>, prev |-> "none"]

\* Seeded variant: without the room for the range and the first crossing
warmup_of_averages == Max({Slow, Fast}) - 1

warmup_required == Max({Slow, Fast, AtrPeriod + 1}) + 1

LastOf(s, n) == SubSeq(s, Len(s) - n + 1, Len(s))
SumOver(S, Value(_)) == FoldSet(LAMBDA i, acc : Value(i) + acc, 0, S)

\* _sma times its period: the last closes added up
Total(w) == SumOver(DOMAIN w, LAMBDA i : w[i].close)
Closes(bars, n) == Total(LastOf(bars, n))

\* fast > slow, undefined until both averages exist
FastVsSlow(bars) ==
  CASE Len(bars) < Fast \/ Len(bars) < Slow -> "none"
    [] OTHER -> IF Closes(bars, Fast) * Slow > Closes(bars, Slow) * Fast
                THEN "above" ELSE "below"

\* _atr times its period
Distance(x, y) == IF x > y THEN x - y ELSE y - x
TrueRange(bars, i) ==
  Max({bars[i].high - bars[i].low, Distance(bars[i].high, bars[i - 1].close),
       Distance(bars[i].low, bars[i - 1].close)})
AtrReady(bars) == Len(bars) >= AtrPeriod + 1
Ranges(w) == SumOver(2 .. Len(w), LAMBDA i : TrueRange(w, i))
AtrSum(bars) == Ranges(LastOf(bars, AtrPeriod + 1))

\* The volatility filter: too quiet or too wild a market decides nothing
InBand(bars) ==
  LET price == AtrPeriod * bars[Len(bars)].close IN
  /\ AtrSum(bars) * 100 >= MinAtr * price
  /\ AtrSum(bars) * 100 <= MaxAtr * price

\* on_candle: every path remembers on which side the fast average now is
Seen(st, bar) ==
  LET bars == Append(st.bars, bar) IN [bars |-> bars, prev |-> FastVsSlow(bars)]

\* on_candle: the signal, once warm, in the band, when the averages have crossed
Signalled(st, bar) ==
  LET now == Seen(st, bar) IN
  IF \/ now.prev = "none" \/ st.prev = "none" \/ now.prev = st.prev
     \/ ~AtrReady(now.bars) \/ ~InBand(now.bars)
  THEN "HOLD"
  ELSE IF now.prev = "above" THEN "BUY" ELSE "SELL"

\* hydrate: the same state, bar by bar, with none of the effects
HydratedStrategy(bars) ==
  LET After[n \in 0 .. Len(bars)] ==
        IF n = 0 THEN FreshStrategy ELSE Seen(After[n - 1], bars[n])
  IN  After[Len(bars)]
=============================================================================

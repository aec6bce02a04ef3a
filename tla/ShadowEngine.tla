---------------------------- MODULE ShadowEngine ----------------------------
(***************************************************************************)
(* The shadow engine: two hypothetical portfolios, one per model, fed with *)
(* the candles and signals of all symbols.  What it decides is written in  *)
(* SAVEPOINTs of the transaction of a tick; what it remembers (the         *)
(* experiment in use, streaks of losses, cooldown, daily loss, exits of    *)
(* the tick) stays in memory, whatever becomes of the rows.                *)
(*                                                                         *)
(* Prices are left out: a candle touches the stop or the target of a       *)
(* position or neither, and a trade is lost or not.                        *)
(***************************************************************************)
EXTENDS Integers, Sequences, FiniteSets, FiniteSetsExt

CONSTANTS
  Symbols,
  Configs,            \* configurations that differ in their fingerprint
  Earlier,            \* the configurations of earlier lives, in order; each saw one signal
  LeftSymbol,         \* the symbol of what they left
  Bucket,             \* candles of a strategic bucket
  Day,                \* candles of a day
  max_position_usd, max_total_exposure_usd, min_order_notional_usd,
  max_daily_loss,     \* in trades lost
  cooldown_after_losses, cooldown_minutes,
  MaxTime,            \* bound on the candles of each symbol
  MaxBoots, MaxFaults \* bounds

ASSUME ShadowAssumption ==
  /\ {Bucket, Day, min_order_notional_usd, MaxBoots} \subseteq Nat \ {0}
  /\ {max_position_usd, max_total_exposure_usd, max_daily_loss, cooldown_after_losses,
      cooldown_minutes, MaxFaults} \subseteq Nat
  /\ MaxTime \in [Symbols -> Nat]
  /\ min_order_notional_usd <= max_position_usd

\* Each earlier configuration was another one than that before, or its life would have
\* gone on with the same experiment; what was opened was worth an order.
ASSUME EarlierAssumption ==
  /\ Earlier \in Seq(Configs) /\ LeftSymbol \in Symbols
  /\ \A i \in 1 .. Len(Earlier) - 1 : Earlier[i] # Earlier[i + 1]
  /\ Earlier # <<>> => min_order_notional_usd <= max_total_exposure_usd

MODELS == <<"baseline", "h2">>
Models == {"baseline", "h2"}
Directions == {"BUY", "SELL"}
Lesser(x, y) == IF x < y THEN x ELSE y
DayOf(time) == time \div Day
Days == UNION {0 .. DayOf(MaxTime[s]) : s \in Symbols}

VARIABLES
  clock,      \* latest candle of each symbol
  config,     \* the configuration of this life of the process
  db,         \* the shadow tables
  mem,        \* the memory of the engine
  boots, faults,
  life,       \* history: what this life of the process recorded first (its trade)
  strayed     \* history: an experiment was remembered whose row was undone

vars == <<clock, config, db, mem, boots, faults, life, strayed>>

-----------------------------------------------------------------------------
(* State *)

\* Rows are numbered in the order of insertion; an id that a rollback frees is given
\* again.  A position carries the direction of its entry; source is the open time of
\* the bucket that a row stems from, at the candle it was written at (history).
Experiment  == [model : Models, config : Configs, active : BOOLEAN]
Opportunity ==
  [experiment : Nat, model : Models, symbol : Symbols, source : Nat, approved : BOOLEAN,
   config : Configs, at : Nat]
Position ==
  [experiment : Nat, model : Models, symbol : Symbols, side : Directions, notional : Nat,
   opened : Nat, at : Nat, open : BOOLEAN]
Trade ==
  [experiment : Nat, model : Models, symbol : Symbols, opened : Nat, closed : Nat,
   lost : BOOLEAN, reason : {"stop", "target", "opposite_signal"}]

Database ==
  [experiments : Seq(Experiment), opportunities : Seq(Opportunity),
   positions : SUBSET Position, trades : Seq(Trade)]
Memory ==
  [experiment : [Models -> Nat], losses : [Models -> Nat], until : [Models -> Nat],
   daily : [Models -> [Days -> Nat]], exit : [Models -> [Symbols -> Nat]]]

NoMemory ==
  [experiment |-> [m \in Models |-> 0],       \* 0: not resolved yet
   losses |-> [m \in Models |-> 0],
   until  |-> [m \in Models |-> 0],
   daily  |-> [m \in Models |-> [d \in Days |-> 0]],
   exit   |-> [m \in Models |-> [s \in Symbols |-> 0]]]

\* What the earlier lives left: an experiment of each model for each of them, the last
\* ones active, an opportunity in each, and the position that the first life opened
ModelOf(i) == MODELS[((i - 1) % 2) + 1]
LifeOf(i) == ((i - 1) \div 2) + 1
Left ==
  [experiments |-> [i \in 1 .. 2 * Len(Earlier) |->
     [model |-> ModelOf(i), config |-> Earlier[LifeOf(i)], active |-> LifeOf(i) = Len(Earlier)]],
   opportunities |-> [i \in 1 .. 2 * Len(Earlier) |->
     [experiment |-> i, model |-> ModelOf(i), symbol |-> LeftSymbol,
      source |-> 0, approved |-> LifeOf(i) = 1, config |-> Earlier[LifeOf(i)], at |-> Bucket - 1]],
   positions |-> {[experiment |-> i, model |-> ModelOf(i), symbol |-> LeftSymbol, side |-> "BUY",
                   notional |-> Lesser(max_position_usd, max_total_exposure_usd),
                   opened |-> 0, at |-> Bucket - 1, open |-> TRUE] :
                    i \in {j \in 1 .. 2 * Len(Earlier) : LifeOf(j) = 1}},
   trades |-> <<>>]

Init ==
  /\ clock = [s \in Symbols |-> Bucket - 1]
  /\ config \in Configs
  /\ db = Left
  /\ mem = NoMemory
  /\ boots = 1 /\ faults = 0 /\ life = 1 /\ strayed = FALSE

-----------------------------------------------------------------------------
(* Steps of the engine, on a world: tables and memory *)

\* Seeded variant: whatever experiment is active ends at a start
experiment_anew(w, model) ==
  LET rows == w.db.experiments
      ended == [i \in DOMAIN rows |->
                  IF rows[i].model = model THEN [rows[i] EXCEPT !.active = FALSE] ELSE rows[i]]
  IN  IF w.mem.experiment[model] # 0 THEN w
      ELSE [db |-> [w.db EXCEPT !.experiments =
                      Append(ended, [model |-> model, config |-> config, active |-> TRUE])],
            mem |-> [w.mem EXCEPT !.experiment[model] = Len(rows) + 1]]

\* Seeded variant: an experiment that once ran under this configuration goes on
experiment_resurrected(w, model) ==
  LET same == {i \in DOMAIN w.db.experiments :
                 w.db.experiments[i].model = model /\ w.db.experiments[i].config = config}
      id == IF same # {} THEN CHOOSE i \in same : TRUE ELSE Len(w.db.experiments) + 1
  IN  [db |-> [w.db EXCEPT !.experiments =
                 IF same # {} THEN @ ELSE Append(@, [model |-> model, config |-> config, active |-> TRUE])],
       mem |-> [w.mem EXCEPT !.experiment[model] = id]]

\* experiment_id: from memory; or the active experiment, if its fingerprint is this
\* one; or a new one, after the active one has ended
experiment_id(w, model) ==
  LET rows == w.db.experiments
      active == {i \in DOMAIN rows : rows[i].model = model /\ rows[i].active}
      same == {i \in active : rows[i].config = config}
      ended == [i \in DOMAIN rows |->
                  IF i \in active THEN [rows[i] EXCEPT !.active = FALSE] ELSE rows[i]]
  IN  IF w.mem.experiment[model] # 0 THEN w
      ELSE IF same # {}
      THEN [w EXCEPT !.mem.experiment[model] = CHOOSE i \in same : TRUE]
      ELSE [db |-> [w.db EXCEPT !.experiments =
                      Append(ended, [model |-> model, config |-> config, active |-> TRUE])],
            mem |-> [w.mem EXCEPT !.experiment[model] = Len(rows) + 1]]

\* Seeded variant: positions of the experiment in use
open_of_experiment(w, model) ==
  {p \in w.db.positions : p.model = model /\ p.open /\ p.experiment = w.mem.experiment[model]}

\* Open positions of a model, whatever experiment opened them
open_positions(w, model) == {p \in w.db.positions : p.model = model /\ p.open}
open_position(w, model, symbol) == {p \in open_positions(w, model) : p.symbol = symbol}
Notional(positions) == MapThenSumSet(LAMBDA p : p.notional, positions)
open_exposure(w, model) == Notional(open_positions(w, model))

\* Seeded variant: the streak is not cleared by a cooldown, the cooldown is not started
close_without_cooldown(w, model, pos, lost, time) ==
  [w.mem EXCEPT !.losses[model] = IF lost THEN @ + 1 ELSE 0]

\* What memory makes of a closed trade
close_in_memory(w, model, pos, lost, time) ==
  LET streak == w.mem.losses[model] + 1
      cooling == streak >= cooldown_after_losses
  IN  IF ~ lost THEN [w.mem EXCEPT !.losses[model] = 0]
      ELSE [w.mem EXCEPT
              !.daily[model][DayOf(time)] = @ + 1,
              !.losses[model] = IF cooling THEN 0 ELSE streak,
              !.until[model] = IF cooling THEN time + cooldown_minutes ELSE @]

\* Seeded variant: the status of the position is left alone
close_without_status(w, model, pos, lost, reason, time) ==
  [db |-> [w.db EXCEPT !.trades = Append(@,
     [experiment |-> pos.experiment, model |-> model, symbol |-> pos.symbol,
      opened |-> pos.opened, closed |-> time, lost |-> lost, reason |-> reason])],
   mem |-> close_in_memory(w, model, pos, lost, time)]

\* register_close
register_close(w, model, pos, lost, reason, time) ==
  LET trade == [experiment |-> pos.experiment, model |-> model, symbol |-> pos.symbol,
                opened |-> pos.opened, closed |-> time, lost |-> lost, reason |-> reason]
      known == \E i \in DOMAIN w.db.trades :
                 /\ w.db.trades[i].experiment = trade.experiment
                 /\ w.db.trades[i].symbol = trade.symbol
                 /\ w.db.trades[i].opened = trade.opened /\ w.db.trades[i].closed = time
  IN  [db |-> [w.db EXCEPT
                 !.trades = IF known THEN @ ELSE Append(@, trade),
                 !.positions = (@ \ {pos}) \union {[pos EXCEPT !.open = FALSE]}],
       mem |-> close_in_memory(w, model, pos, lost, time)]

\* on_operational_candle, for one model: the stop comes before the target, and a candle
\* not after the entry closes nothing
StopOrTarget(w, model, symbol, time, touched, lost) ==
  LET hit == {p \in open_position(w, model, symbol) : time > p.opened}
      reason == IF "stop" \in touched THEN "stop" ELSE "target"
      pos == CHOOSE p \in hit : TRUE
  IN  IF hit = {} \/ touched = {} THEN w
      ELSE LET after == register_close(w, model, pos, reason = "stop" \/ lost, reason, time)
           IN  [after EXCEPT !.mem.exit[model][symbol] = time]

-----------------------------------------------------------------------------
(* A signal, for one model *)

\* _decide, once exit and opposite signal are dealt with
PortfolioAllows(w, model, symbol, signal) ==
  LET remaining == max_total_exposure_usd - open_exposure(w, model) IN
  /\ model = "h2" => signal.marked
  /\ ~ signal.source < w.mem.until[model]
  /\ open_position(w, model, symbol) = {}
  /\ w.mem.daily[model][DayOf(signal.source)] < max_daily_loss
  /\ remaining > 0
  /\ Lesser(max_position_usd, remaining) >= min_order_notional_usd

\* Seeded variant: an exit of the same tick is forgotten
NeverExited(w, model, symbol, time) == FALSE

ExitedThisTick(w, model, symbol, time) == w.mem.exit[model][symbol] = time

Opened(w, model, symbol, signal, time) ==
  [w EXCEPT !.db.positions = @ \union
     {[experiment |-> w.mem.experiment[model], model |-> model, symbol |-> symbol,
       side |-> signal.direction,
       notional |-> Lesser(max_position_usd, max_total_exposure_usd - open_exposure(w, model)),
       opened |-> signal.source, at |-> time, open |-> TRUE]}]

WithOpportunity(w, model, symbol, signal, time, approved) ==
  [w EXCEPT !.db.opportunities = Append(@,
     [experiment |-> w.mem.experiment[model], model |-> model, symbol |-> symbol,
      source |-> signal.source, approved |-> approved, config |-> config, at |-> time])]

\* on_strategy_signal, for one model
Signalled(world, model, symbol, signal, time) ==
  LET w == experiment_id(world, model)
      seen == \E i \in DOMAIN w.db.opportunities :
                /\ w.db.opportunities[i].experiment = w.mem.experiment[model]
                /\ w.db.opportunities[i].symbol = symbol
                /\ w.db.opportunities[i].source = signal.source
      opposed == {p \in open_position(w, model, symbol) : p.side # signal.direction}
      approved == PortfolioAllows(w, model, symbol, signal)
  IN  CASE seen -> w
        [] ~ seen /\ ExitedThisTick(w, model, symbol, time) ->
             WithOpportunity(w, model, symbol, signal, time, FALSE)
        [] ~ seen /\ ~ ExitedThisTick(w, model, symbol, time) /\ opposed # {} ->
             WithOpportunity(
               register_close(w, model, CHOOSE p \in opposed : TRUE, signal.lost,
                               "opposite_signal", signal.source),
               model, symbol, signal, time, FALSE)
        [] OTHER ->
             LET told == WithOpportunity(w, model, symbol, signal, time, approved)
             IN  IF approved THEN Opened(told, model, symbol, signal, time) ELSE told

-----------------------------------------------------------------------------
(* A tick *)

\* run_shadow, over what the first model made of w and what both made of it: a failure
\* after some of the models undoes the rows and leaves the memory
run_shadow(w, first, both, reached) ==
  CASE reached = "end"   -> both
    [] reached = "both"  -> [w EXCEPT !.mem = both.mem]
    [] reached = "first" -> [w EXCEPT !.mem = first.mem]

\* What the candle of a tick may bring: the signal of the bucket that it completes,
\* marked when its separation reaches the threshold of h2, or none
Hold == [direction |-> "HOLD", marked |-> FALSE, lost |-> FALSE, source |-> 0]
Signals(time) ==
  {Hold} \union
    IF (time + 1) % Bucket # 0 THEN {}
    ELSE [direction : Directions, marked : BOOLEAN, lost : BOOLEAN, source : {time - Bucket + 1}]

\* The candle touches the stop or the target of an open position; where it touches the
\* stop, it is taken to touch both.  Positions of one entry have one stop and target.
Touches(s) ==
  {touched \in [Models -> {{}, {"target"}, {"stop", "target"}}] :
     /\ \A m \in Models :
          touched[m] # {} => open_position([db |-> db, mem |-> mem], m, s) # {}
     /\ \A p, q \in db.positions :
          /\ p.open /\ q.open /\ p.symbol = s /\ q.symbol = s
          /\ p.opened = q.opened /\ p.side = q.side
          => touched[p.model] = touched[q.model]}

\* Whether a close loses: a stop does, a target may (fees), and where nothing can close it
\* makes no difference.
Losses(touched) == {lost \in BOOLEAN : lost \/ \E m \in Models : touched[m] = {"target"}}
SignalsTo(s, time) ==
  {signal \in Signals(time) : signal.lost => \E p \in db.positions : p.open /\ p.symbol = s}

Reach == {"first", "both", "end"}
Mishaps(fate) ==
  Cardinality({part \in {"candle", "signal"} : fate[part] # "end"}) + (IF fate.undone THEN 1 ELSE 0)

\* How far the two savepoints get, and whether the tick is undone in the end
Fates ==
  {fate \in [candle : Reach, signal : Reach, undone : BOOLEAN] :
     faults + Mishaps(fate) <= MaxFaults}

\* Memory names an experiment that is not on disk
Stray(d, memory) ==
  \E m \in Models : memory.experiment[m] \notin {0} \union DOMAIN d.experiments

\* ... which is remembered for good
StrayNoted == strayed' = (strayed \/ Stray(db', mem'))

\* The tick of a symbol: stops and targets, then the signal.  After a tick that is undone,
\* time stands still, and another one follows: an empty one, where the provider does not
\* deliver the candle again.
Tick(s) ==
  LET time == clock[s] + 1 IN
  /\ time <= MaxTime[s]
  /\ \E touched \in Touches(s), signal \in SignalsTo(s, time), fate \in Fates :
     \E lost \in Losses(touched) :
       LET Candle(w, m) == StopOrTarget(w, m, s, time, touched[m], lost)
           Signal(w, m) == IF signal = Hold THEN w ELSE Signalled(w, m, s, signal, time)
           begun   == [db |-> db, mem |-> mem]
           exited  == run_shadow(begun, Candle(begun, MODELS[1]),
                                 Candle(Candle(begun, MODELS[1]), MODELS[2]), fate.candle)
           after   == run_shadow(exited, Signal(exited, MODELS[1]),
                                 Signal(Signal(exited, MODELS[1]), MODELS[2]), fate.signal)
       IN  /\ faults' = faults + Mishaps(fate)
           /\ mem' = after.mem
           /\ db' = IF fate.undone THEN db ELSE after.db
           /\ clock' = IF fate.undone THEN clock ELSE [clock EXCEPT ![s] = time]
  /\ StrayNoted
  /\ UNCHANGED <<config, boots, life>>

\* The process ends and starts again, perhaps configured anew
Restart ==
  /\ boots < MaxBoots
  /\ boots' = boots + 1
  /\ config' \in Configs
  /\ mem' = NoMemory
  /\ life' = Len(db.trades) + 1
  /\ UNCHANGED <<clock, db, faults, strayed>>

Next == Restart \/ \E s \in Symbols : Tick(s)

Spec == Init /\ [][Next]_vars
=============================================================================

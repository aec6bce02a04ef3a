# A verification of the multi-asset trading agent

The repository is a trading agent in Python: it reads one-minute candles of
several symbols, builds five-minute candles and indicators from them, decides,
passes every decision through a deterministic risk engine, sends orders to a
paper book or to Bybit's demo environment, and keeps orders, fills, positions
and its own operational state in one SQLite database. This directory holds TLA+
specifications of it, the TLC configurations that check them on small instances
and proofs, checked by TLAPS, that hold for every instance. Paths below are relative to `src/app/` unless
they start with `docs/` or `tests/`.

## 1. The system

### Components

| Component | Where | State it keeps | Operations |
|---|---|---|---|
| Order status machine | `execution/order_state.py` | a table of allowed moves | `validate_transition` |
| System gate | `persistence/repo.py` 36-116, `risk/engine.py` 138-180 | the singleton row `system_state`: independent causes of a block, the derived `trading_blocked`, the operational state | `recompute_trading_blocked`, the common gates of the risk engine |
| Orders, fills, positions | `orchestrator.py`, `execution/fill_service.py`, `execution/fill_ledger.py`, `persistence/repo.py` | rows `orders`, `executions`, `positions` | save, submit, poll, apply a snapshot, partial-fill policy, close |
| Exchange adapter | `execution/bybit_demo.py`, `bybit_pybit_client.py`, `base.py` | none (the exchange keeps it) | `submit`, `poll_order`, `request_cancel`, `list_open_orders`, `get_position` |
| Reconciliation | `execution/reconciliation.py`, `orchestrator.py` 1046-1177 | flags of the gate | `reconcile` (positions, then orders) |
| Control endpoints | `api/routes_control.py` | the gate | engage and disengage the kill switch, activate, pause |
| Boot and shutdown | `api/main.py` 250-534 | the whole process | `build_orchestrator`, `_graceful_shutdown` |
| Transactions | `persistence/db.py` | the session in flight | `session_scope` |
| Poll engine | `api/poll_engine.py` | `PollHealth`, the pending future | worker, supervisor |
| Scheduler of symbols | `orchestrator.py` 1212-1511 | `SymbolHealth` per symbol, round-robin index | `tick`, `_update_health`, `_sync` |
| Aggregation and hydration | `strategy/aggregator.py`, `strategy/engine.py`, `orchestrator.py` 495-545 | buckets, closed candles, indicators | `push`, `hydrate` |
| Market data | `market_data/*.py` | cursor and queue of candles | `next_candle`, `sync_cursor` |
| Paper execution | `execution/paper_local.py` | book in memory | `submit`, `poll_order`, `hydrate_positions` |
| Funding | `execution/funding.py` | events, checkpoint | collection in windows |
| Sessions | `sessions.py` | operational sessions | start, resume, finish, accounting base |
| Risk sizing, costs | `risk/engine.py` 182-451, `risk/cost_model.py` | none | `evaluate`, `evaluate_close` |
| Shadow engine | `shadow/*.py` | experiments, hypothetical positions, caches | `process`, statistics |
| Migrations | `persistence/migrations.py` | schema version | apply in order |
| Clock, timeframes, freshness | `core/clock.py`, `timeframe.py`, `freshness.py` | none | classification |
| Configuration, logging, errors | `core/config.py`, `logging.py`, `errors.py` | settings | validation |
| AI shadow | `ai_shadow/*.py` | none | an advisory call whose answer is only stored |
| Metrics, dashboards | `metrics/*.py`, `api/routes_{dashboard,diagnostics,shadow}.py` | none | read-only views |

### How they interact

One asyncio worker (`poll_worker`) hands one `MultiSymbolOrchestrator.tick` at a
time to a thread. The tick chooses the next symbol round robin, opens one
database transaction and runs that symbol's `Orchestrator.tick` in it:
reconcile if due, poll the open orders if due, fetch a candle, decide, ask the
risk engine, save the order, submit it, poll it. FastAPI runs the control
endpoints in threads of its own, each with its own transaction on the same
database. A supervisor coroutine restarts the worker when it dies and watches
its heartbeat. The exchange moves by itself between any two calls.

### What is hard

* **One answer, two calls.** `poll_order` asks for the status and then for the
  pages of fills; the order moves in between and the walk over the pages may be
  cut short.
* **Effects that cannot be rolled back.** A submission or a cancel sits inside a
  transaction that may fail afterwards.
* **Many causes, one flag.** Seven handlers raise and lower the causes of
  `trading_blocked`; none may lower another's.
* **Verdicts of two moments.** Reconciliation compares the position before it
  polls the orders.
* **A tick that outlives its timeout.** Python cannot cancel the thread; the
  worker has to keep waiting for the tick it gave up on.
* **State in memory beside state in the database.** Aggregator, caches of the
  shadow engine, cursors and the health of symbols survive a rollback.
* **Recovery that must be earned**, per symbol and for the engine, while new
  incidents keep arriving.

What makes each component correct is section 3; what is not modelled is section 7.

## 2. Modules

| Module | What it is |
|---|---|
| `OrderStatus` | the statuses and the table of `order_state.py` |
| `SystemGate` | `system_state` as a record, `Recompute`, the common gates |
| `OrderLifecycle` | the orders of one symbol: tick, control endpoints, boot, shutdown, transactions, exchange |
| `OrderProperties` | its properties, inductive invariants, fairness and refinement mapping |
| `SettlementContract` | the abstract specification of the bookkeeping of orders |
| `SymbolHealth` | the health of one symbol and what a tick's result does to it |
| `MarketEngine`, `EngineProperties` | worker, supervisor, tick in its thread, round robin, shutdown; what must hold of them |
| `CandleAggregator` | one-minute candles into strategy candles: `push`, `hydrate` |
| `StrategyEngine` | crossing averages with a volatility band: `on_candle`, hydration |
| `MarketData`, `MarketDataProperties` | provider, stored candles, aggregator and strategy of one symbol, live and replayed |
| `Portfolio` | several symbols over one portfolio in the paper modes: limits, sizing, cooldown, the book in memory |
| `OperationalSessions` | sessions, their frozen configuration, guards and accounting base |
| `AccountBook`, `AccountProperties` | boots, trades and the dashboard's equity over sessions |
| `Funding` | the walk over windows of settlements, its table and its checkpoint |
| `Migrations` | schema versions, recorded history, one transactional run |
| `ShadowEngine`, `ShadowProperties` | the two hypothetical portfolios, their rows in savepoints and their memory |
| `*_proofs` | theorems about `OrderLifecycle`, `MarketEngine`, `MarketData`, `Portfolio`, `AccountBook` (`Account_proofs`), `Funding`, `Migrations` and `ShadowEngine` (`Shadow_proofs`) |
| `MC*` | constants for TLC |

*Composition.* `Portfolio` and `OrderLifecycle` extend the same `SystemGate`: the
row `system_state` is what the components share. `MarketData` extends aggregator
and strategy, `AccountBook` the sessions, `MarketEngine` the health of a symbol.
`OrderLifecycle` and `MarketEngine` meet at the tick: the first opens it up and
leaves free when ticks come and whether the strategy may enter; the second says
when they come and when they may enter, and abstracts what happens inside to what
the tick reports. `MarketData` produces those reports, and says what a signal is
worth. `Portfolio` replaces the exchange of `OrderLifecycle` by the paper engine,
whose orders fill at once, and adds what several symbols share.

### OrderLifecycle against the code

*State.* `db` is the committed database: `order[k]` the row of the order whose
idempotency key is `k` together with the executions recorded for it, `pos` the
row of `positions` as a signed quantity, `gate` the row `system_state`. `w` is
the same for the session of the transaction in flight. `txn` says which handler
runs (`kind`), at which step (`pc`), about which order (`cur`), with what it
learned so far (`seen`, `verdict`), and where the subroutine it is in returns to
(`then`, `after`). `venue` and `xpos` are the exchange's orders and position.
`held` is a history variable, set where `fill_service.py` 155-190 refuses a fill,
applies only a part of it, or reduces by a close a position that its order does not
oppose.

*Actions.* One per step between two calls to the exchange, because that is where
the exchange, a crash or an error can come in. `TickBegin`, `PollDue`,
`PollNext`, `CancelStalled`, `NewCandle`, `DecideEntry`, `DecideClose`,
`Submit...`, `Outcome` follow `Orchestrator.tick` from top to bottom;
`Recon...` is `reconcile`, entered from a tick, from a failed submission, from
the kill switch, at boot and at shutdown; `PollStatus`, `FillsComplete` and
their failing siblings are `poll_order` with `apply_order_snapshot`, whose
effect on the rows, the position and the gate is the operator `Apply`.
`KillBegin`, `KillNext`, `KillEnd` are the kill switch; `Disengage`, `Activate`,
`Pause` the endpoints that call no exchange.

*Abstractions.* Prices, fees, profit and average prices are left out, so
reconciliation compares sides and quantities only. One fill is one unit. What
the strategy and the sizing decide is free: any entry the gates let through may
be tried at any candle. Intervals (poll, reconcile, stall) are free as well.
There is one symbol; `Disturbances` selects the faults of an instance.
`ReportedSide` is how the exchange spells a side; the instances use the
database's spelling (see section 3).

*One transaction at a time.* SQLite in its default mode takes the lock for
reading when a transaction starts and allows one writer. A handler that writes
takes the reserved lock at its first flush - for a tick the candle or the gate,
before anything is submitted or cancelled - and another that had read before it
fails with "database is locked" when it tries to write. The transactions that
matter therefore run one after the other; the loser's fate is `Rollback`.

*SettlementContract.* The books are a faithful, possibly late copy of the market:
a recorded fill is real and stays; an entry is closed only when the market closed
the order and all its fills are there, in one publication. `KeepsTheBooks` says
that the committed database of `OrderLifecycle` implements it, statuses mapped
to four phases.

### MarketEngine against the code

*State.* `engine` is `PollHealth` with the portfolio's `engine_degraded`;
`worker` and `boss` are the coroutines `poll_worker` and `supervise_poll_loop`,
`worker.proven` being `consecutive_healthy`; `inFlight` is
`app.state.poll_in_flight_future`; `tick` the ticks handed to the thread, with
what they learned on the way. `health` and `turn` belong to
`MultiSymbolOrchestrator`; `flag` is the copy of the engine's and the
portfolio's health that `_sync_engine_degraded_to_orchestrators` writes for the risk
engine; `active` is `operational_state = ATIVO`; `phase` how far
`_graceful_shutdown` is. Two are history: `debt`, the successful ticks still
owed since the last incident, and `tick.sound`, whether nothing was owed and
every symbol was healthy when the tick began.

*Actions.* A coroutine's action runs from one await to the next: handing out a
tick (`SubmitTick`), waiting again for a pending one (`AwaitAgain`), the three
ends of a wait (`TimedOut`, `TickRaised`, `TickReturned`), the supervisor's
checks, the steps of the shutdown. A tick's actions are its touches of shared
state: reading the health and choosing the symbol (`Turn`), writing the flag
(`Sync`), taking the write lock (`FirstWrite`), opening a position (`Enter`),
its end (`Return`, `UpdateHealth`, `Raise`). Between any two the event loop may
run. `Slots` is the set of places for ticks. With one place, `OneTickAtATime` still
fails in TLC when a tick is dropped from `inFlight` while it runs; that a second
tick is never handed out to another place is proved for any `Slots`.

*Abstractions.* Time is what may have elapsed: a wait may time out as long as
the tick is not over, a rest may end, a heartbeat may age. `HeartbeatAges` waits
for `worker.proven = 0`: with the default settings the interval (5 s) and the
timeout of a tick (30 s) fit in the heartbeat's age (60 s), so a late heartbeat
has a failure before it; the validators of `core/config.py` do not enforce this.
The number of failures saturates at the threshold, where it is only compared.
`Activate` has the conditions on engine and portfolio; freshness and warm-up
only restrict it further. `active` falls only at the end: what lowers it
earlier only restricts the entries. A tick may enter on any of its results that
closes a complete bucket, which is also where `strategy_gap_degraded` is
cleared, so that flag is left out. A cancellation reaches a coroutine at its await.
A single-symbol deployment has no scheduler and is the case of one symbol.

### MarketData against the code

*State.* `prov` is what `BybitCandleProvider` (or `ReplayProvider`) remembers:
cursor, queue, pending gap; `poll` is a call of `next_candle` between two pages;
`stored` is the table of candles; `agg` and `strat` are the aggregator and the
strategy; `degraded` is `strategy_gap_degraded`. `venue` is what the exchange has.
`lost` and `ahead` are history: candles delivered to a tick that was undone, and
those of them that the aggregator in memory kept.

*Actions.* Each page is a step of its own, since time passes and the exchange
fills holes between pages. A delivered candle is stored, pushed and evaluated in one
step, or undone after any part of it. A restart hydrates from the last stored
candles, `HydrationDepth` of them (`orchestrator.py` 482-527).

*Abstractions.* A candle is its minute; its price is a function of the minute.
Averages are compared as sums, the band in percent. The queue of the provider is
a set, as it is filled and emptied in order of time. The legacy spelling of
timeframes (`1` beside `1m`) is left out.

### Portfolio against the code

*State.* `db` holds the open positions, the closed ones with the instant and the
sign of their result, the streak of losses and the end of the cooldown of
`system_state`, and the gate; `book` is `PaperLocalExecutionEngine._positions`.
`undone` and `faults` are history.

*Actions.* A tick orders nothing (`Observe`), closes (`Close`: stop, target or
opposing signal) or enters (`Enter`), beginning with a reconciliation if one is
due. `Submit` changes the book before the transaction commits, or is undone: only
the book then keeps what was filled. `Restart` hydrates the book and reconciles.

*Abstractions.* There is one price: what the size depends on is that the
risk engine presumes the fill's slippage (`adverse_fill_price`). Losses are
counted in trades, quantities are whole units, and the cost gate, freshness and
the engine's health are an arbitrary refusal. Partial fills of the paper engine,
which only tests configure, are left out.

### AccountBook, Funding, Migrations, ShadowEngine

*AccountBook.* Sessions are rows with their frozen configuration, of which the
model keeps what sessions tell apart: portfolio, balance, timeframe, and the rest of
the fingerprint. A boot resumes, replaces, starts or refuses as
`start_or_resume_session` does; one open session per portfolio is a unique index of
the database and holds of what an earlier release left (`InheritedAssumption`); trades are ordered, filled and closed across boots;
`Equity` and `LastPointOfCurve` are the two routes of the dashboard. Every row
has an instant of its own.

*Funding.* A settlement is its instant, `funding_events` a bag of them. `Walk`
is the loop of `_maybe_collect_funding` over windows with `list_funding` inside:
some whole windows and an arbitrary part of the next. It is one step, because the
exchange does not settle in the past. A settlement is assumed to be published at
its instant. While no window has ever completed the first one slides with the
clock; `anchor` remembers where it began.

*Migrations.* A schema is the set of its tables and of the facts that the ten upgrades
establish on them. A run detects or validates the version and applies every upgrade
statement by statement, or, without `system_state`, creates table by table what
`create_all` finds missing and records every version. `Start` is `engine.begin()` with the
listener that sends BEGIN (`persistence/db.py` 40), `Statement` one statement with the
driver's autocommit off (38): inside a transaction it reaches the run's copy only, outside
it would reach the disk; the seeded variant is the driver that commits a change of the
schema at once. The tables that no upgrade looks at (`ai_recommendations`,
`account_snapshots`, `security_events`) are left out.

*ShadowEngine.* `db` are its tables, `mem` the caches of
`ShadowEngine`; a savepoint may be rolled back, and so may the tick around it,
while `mem` stays. Prices are reduced to "stop, target or neither" and "lost or
not". A tick that is undone is followed by one at the same minute, which may be an empty
one, since the provider does not deliver the candle again. `life` and `strayed` are
history: where the trades of this life begin, and whether an experiment was ever remembered
whose row was undone. Statistics and the health shown for the shadow are left out.

## 3. Properties

"Inv" is an invariant, "act" an action property, "live" a liveness property;
"proved" names the theorem.

| Module | Property | Kind | What it says |
|---|---|---|---|
| orders | `TerminalMeansSettled` | inv, proved | a row is FILLED or CANCELLED only when the exchange is done with it and every fill is on file |
| | `PositionExplained` | inv, proved | the position is what the recorded fills add up to, until a fill did not fit the position it met |
| | `UnknownBlocks` | inv, proved | an UNKNOWN order with an id blocks trading |
| | `GateMirrorsCauses` | inv, proved | derived flag and causes agree; ATIVO only unblocked and reconciled |
| | `KillStopsSubmissions` | act, proved | nothing is submitted once the emergency block is committed |
| | `KeepsTheBooks` | refinement, proved | the database implements `SettlementContract` |
| | `OrderSettles` | live | an order that ended at the exchange ends in the database |
| | `NoSilentMismatch` | live | a mismatch of positions is repaired or blocks |
| engine | `OneTickAtATime` | inv, proved | no tick is handed out before the previous one really ended, whatever timed out and whoever restarted |
| | `NothingAfterClose` | inv, proved | after the final reconciliation no tick writes and no health changes |
| | `EntriesAreEarned` | inv, proved | a tick that opens a position began when the last incident was made up for and every symbol was healthy |
| | `EngineInv` | inv, proved | why: the debt is counted, and holds back the entries |
| | `EngineRecovers` | live | once faults cease, engine and portfolio become healthy and stay so |
| | `EverySymbolServed` | live | no symbol waits for ever for its turn, not even if another fails, raises or is too slow at each of its own, for ever |
| | `ShutdownEnds` | live | a shutdown ends |
| candles | `NoCandleSkipped` | inv, proved | a minute missing between stored ones was lost with a tick, not passed over by the cursor |
| | `RestartChangesNothing` | inv, proved | aggregator and strategy stand where a process that never stopped would |
| | `NoInventedSignal` | inv, proved | with holes a restart may know less, never something else |
| | `BacklogDrained` | live | a backlog longer than one call may fetch is stored in the end |
| | `HoleIsReported` | live | a hole that stays is reported again and again |
| portfolio | `ExposureWithinLimit` | inv, proved | the exposure at fill prices keeps to the limit, in any order of entries and additions |
| | `DailyLossIsBounded` | inv, proved | the losses of a day exceed the limit at most by one position per symbol |
| | `BookFollowsDatabase` | inv, proved | the book in memory is the database's positions, except where an order outlived its tick |
| | `CooldownHolds` | act, proved | no symbol enters while the latest closings make a cooldown, through restarts |
| account | `RunsUnderItsSnapshot` | inv, proved | the process works under the settings frozen in the only open session |
| | `KeepsItsTerms` | inv, proved | a position keeps the timeframe it was decided on, where the guard can see it |
| | `CurveMeetsEquity` | inv, proved | the equity curve ends at the equity of the summary |
| | `RestartKeepsEquity` | act, proved | a boot with the same portfolio and balance leaves the equity alone |
| funding | `CoveredIsCollected` | inv, proved | nothing older than the checkpoint is missing |
| | `BookedOnce` | inv, proved | nothing is booked twice |
| migrations | `UpMeansHead` | inv, proved | the program comes up only on a database recorded as head that is so, tables and rows included; the exception is one found with tables but without `system_state`, which the next start refuses |
| | `AllOrNothing` | inv, proved | a run refused, failed or killed at any statement has changed nothing on disk, schema included |
| | `RowsSurvive` | inv, proved | de-duplication keeps the first row; closing orders stay so |
| | `RefusedForCause` | inv, proved | without faults only what is no release's database is refused |
| shadow | `ApartUnlessStrayed` | inv, proved | opportunities of different configurations are never mixed in one experiment, none is taken up again, and a restart under the same configuration begins no new one, through undone savepoints and ticks |
| | `WithinItsMeans` | inv, proved | exposure, one position per symbol, minimum size, over all experiments, under limits that stay |
| | `OneTradePerPosition` | inv, proved | closed positions and trades correspond one to one through undone savepoints |
| | `NoReentryOnExit` | inv, proved | no entry on the candle that ended a position |
| | `BrakesHold` | act, proved | daily loss and, while nothing was undone, cooldown keep a model out within one life of the process |

Where a property is weaker than one would wish, its condition says what the code
does not give: `held`, `undone`, `lost`, `Missed`, `strayed`, `faults = 0`, `StampedUnseen`
and the open hole of `BacklogDrained` each stand for one of the observations below. `TypeOK` of each
module is its type invariant; it is checked by `disturbed` and inside `EngineInv`,
and proved for every module.

Three limits of what is checked. TLC meets `BrakesHold` with a limit of one loss to a
cooldown and on one day only: the counting of longer streaks, and of the losses of several
days apart, rests on the proof. `BrakesHold` takes the cooldown from
the closing that was recorded last, and so accepts one that a lagging symbol set back (see
the observations). `WithinItsMeans` has one set of limits: a life under smaller ones may
find more open than it would allow itself.

`UnknownOpensNothing` states what `docs/ORDEM_E_FILLS.md` 40 says and ends in a
counterexample: a timed-out submission leaves an UNKNOWN row without an id; it
sets no flag, a clean reconciliation lifts the rest, and the next entry goes out.

### Observations

Met while modelling, each traced in the code and not given a run of its own.

Orders and control
* A cancel that the exchange refuses (the order just ended) rolls back the whole
  kill handler, the block included (`api/routes_control.py` 119);
  `docs/OPERACAO_DEMO.md` 224 says that the block is immediate.
* `execution/reconciliation.py` 42 compares sides as text: local rows hold
  `BUY`/`SELL`, and with an exchange that answers `Buy`/`Sell` a position that agrees
  is reported as diverging (`orchestrator.py` 1060 says it lifts the block).
* `docs/ORDEM_E_FILLS.md` 139 says that deduplication keeps the next tick from
  sending an order again. The row goes with the transaction of a tick that
  crashes; the replayed candle gives the same key, and only the exchange refuses
  the duplicate.
* `persistence/repo.py` 105 says that BLOQUEADO always mirrors the block;
  `pause` writes PAUSADO over it. A pause followed by a block and its end leaves
  OBSERVANDO.
* `docs/ROTEIRO_TESTE_MANUAL_DEMO.md` step 9 says closing stays possible under
  the kill switch, but `evaluate_close` passes through the gate that refuses it.
* A close that fills only on a later poll is applied by the poller, which never
  counts the loss: streak and cooldown miss it (`orchestrator.py` 844;
  `docs/OPERACAO_DEMO.md` 246-249).
* The side of a fill is compared with that of the position for entries only
  (`execution/fill_service.py` 155). A close whose fill is read late, after its
  position was closed by another order and the next one opened on the other side,
  reduces that one; `docs/ORDEM_E_FILLS.md` 198 says that a late or opposite fill is
  never counted on the wrong position. It takes three entries, two closes and the
  exchange's own stop in between, which is beyond the instances run; `held` covers it.

Engine and scheduler
* The incident of a late tick meets that tick's write lock and is swallowed
  (`api/poll_engine.py` 165-172).
* Any other failure clears `has_gap`, and the next success heals the symbol
  without a whole bucket (`docs/ESTRATEGIA_MULTITEMPORAL.md` 125).
* `api/poll_engine.py` 149-152 says that an engine that is ENCERRANDO opens
  nothing; the supervisor sets only the status, and the tick in flight may enter.
  So may one whose engine fails between `Turn` and `Sync`.
* When a stop or target is hit on the candle that ends an incomplete bucket, `tick`
  returns that instead (`orchestrator.py` 331), and the portfolio's health never
  hears of the gap.

Portfolio
* Concurrent positions are counted per symbol (`orchestrator.py` 410) against a
  limit meant for the portfolio (`docs/ARQUITETURA.md` 189-191, `api/main.py` 285-288).
* Each symbol's reconciliation overwrites the verdict of the one before: a
  position of the book without a row is seen on one symbol's turn and forgotten
  on the next (`orchestrator.py` 1096).

Candles
* The candle of a tick that is undone is gone: the provider has handed it out
  and advanced (`market_data/bybit_provider.py` 286).
* A hole at least a page wide stops the symbol: no page reaches beyond it, and
  it is not reported either (`HoleIsReported` and `BacklogDrained` except it).
* A gap remembered by the provider is reported once more after it was filled.

Sessions, shadow, migrations
* After a graceful end the guard against a changed timeframe or portfolio no
  longer sees the positions left open (`Missed`).
* The curve sums all symbols while the summary filters the configured ones
  (`api/routes_dashboard.py` 1069).
* After a rollback the shadow's memory may name an experiment that is not on
  file, and a later one takes its id (`strayed`; anything else that is undone leaves the
  experiments apart); a
  candle of a lagging symbol overwrites `cooldown_until` with an earlier instant. A close
  that is undone stays counted in memory: a streak that it completed begins anew, and when
  the close comes again it no longer starts the cooldown that is due (`BrakesHold`
  requires the cooldown only while nothing was undone; the losses of a day are never
  counted short).
* A database with other tables but no `system_state` counts as new:
  `create_all` leaves its tables as they are and the head version is recorded unvalidated
  (`persistence/migrations.py` 1112-1122). The program comes up on it once; the next start
  refuses it if any fact is missing. `UpMeansHead` states it as its exception (`StampedUnseen`), and the run has such
  databases (`Headless`).

## 4. Runs

| Run | Instance | Distinct states | What it shows |
|---|---|---|---|
| `opposing` | two entries of one fill, either side; drifting clock | 1,373,752 | fills that arrive late and crosswise add up to the position, unless one was refused |
| `closing` | one entry of two fills and the order that closes it; the emergency block, rolled back by a refused cancel | 2,943,877 | partial closes, close fills with nothing left to close; nothing is submitted once the block is committed |
| `disturbed` | one entry of two fills; crash, error, market, exchange's stop, kill, pause, shutdown, cancelled remainder | 1,283,499 | the gate mirrors its causes and the books are those of the abstract contract at every commit |
| `live` | one entry; crash and error | 90,939 | with finitely many faults every order that ended ends in the database; no mismatch stays unblocked |
| `engine` | two symbols, slow and failing ticks, dying worker, old heartbeat, shutdown | 203,531 | safety of the entries, turns for every symbol whatever recurs, recovery of engine and portfolio once faults cease |
| `candles` | nine minutes, two pages of two, two faults, restarts, replay | 170,306 | nothing is passed over, a restart changes nothing, a backlog is drained |
| `account` | four boots, two orders | 2,222,888 | sessions, their settings, and the equity over them |
| `funding` | three windows of two instants | 24,196 | nothing behind the checkpoint is missing or booked twice |
| `migrations` | every release, half upgraded, tampered with or without `system_state` | 11,830 | a database comes up at head, or is refused and left as it was |
| `shadow` | two models, two symbols, three lives | 236,250 | the hypothetical books through undone savepoints and restarts |
| `portfolio` | two symbols, three closings, days | 949,320 | limits and cooldown shared by the symbols, and the paper book |
| `doc_unknown` | two entries of one fill | counterexample | what `docs/ORDEM_E_FILLS.md` says of UNKNOWN orders, and the code does not do |

The temporal runs, `closing`, `disturbed` (a refinement) and `shadow` are the slow ones:
one to two minutes with two workers. The others take seconds to a minute.

*Bounds of the orders.* Keys are never reused, so an instance trades at most as
many orders as it has keys. Two entries are the least for a fill to meet a
position of another order; one entry and one close the least for a close; two fills
the least for a partial fill, a partial close and an interrupted walk that brings
some fills and not others. `MaxApiFailures` saturates the counter, which the code
only compares with the limit and resets: 2 distinguishes "counted" from
"blocking". `MaxPositions` is 1, or 2 where a second entry must get past the
sizing. Deadlock is not checked: with no key left, nothing due and the process
down, an instance may stop.

*Of the engine.* Two symbols are the least for a turn to be taken from one by
another and for one to degrade the portfolio of the other. `Threshold` and
`HealthyTicks` are 2: the code's 3 adds one more state of the same kind, "failed,
not yet PARADO" and "proven, not yet enough". A replay or a shutdown stops it.

*Of the candles.* Nine minutes are four buckets of two, one more than warm-up
needs, with a price that turns twice so that the averages cross. Two pages of two
candles make a backlog of five longer than one call fetches; two faults
of any kind, one of them a hole that is filled later or never. Deadlock is
checked: the provider polls for ever.

*Of the portfolio.* Two symbols that may each add to a position
(`MaxConcurrent` 2), an exposure that the second lot fills to the last unit, two
losses to a cooldown of two, days of two units, one undone tick. At most three closings,
so that a cooldown, a gain or loss after it, and a day's change all occur.
The symbols are interchangeable (symmetry).

*Of the rest.* Four boots and two orders over nine events: a session resumed,
replaced and inherited from an earlier release, and trades that cross them. Three
windows of two instants and six of time. For the migrations, every release, with
and without history, each upgrade stopped after any statement, facts taken away
by hand, misshapen columns, rows that break the indexes, and databases without
`system_state` that are empty, have one table, or those of a release: three starts, two
faults. For the shadow, the candles of one symbol up to minute five, with two signals,
beside those of another up to minute two, on one day; three lives, after earlier ones under
two configurations, so that a configuration comes again with and without another in
between; one undone savepoint or tick.
These instances stop at their bounds, so deadlock is not checked.

*Fairness* (`LiveSpec` of `OrderProperties`). A handler that has started goes on (`SystemStep`), and a
stopped process is started again (`Boot`). The poll loop ticks for ever and its
intervals elapse, so a tick that reconciles and a poll of open orders come up
again and again, even if other handlers get in between: strong fairness on
these two. Faults - unanswered or interrupted calls, errors of the database,
crashes - may happen any finite number of times. Nothing is assumed of the
exchange: it may never fill or end an order. Steps that a fault shares with
ordinary operation (rolling back a transaction that changed nothing is also its
commit) do not count as faults (`Smooth`).

*Fairness* (`LiveSpec` of `EngineProperties`). The event loop resumes its
coroutines and the thread's tick ends, because every call it makes has a timeout
of its own: weak fairness on them. The worker hands out ticks again and again, however
often it dies, is restarted or waits out a backoff: strong fairness on `SubmitTick`, which
leaves out only a worker that dies each time just before it hands one out.
`eligible_again_at` passes. Nothing limits the faults (timeouts, exceptions, deaths of the
worker, old heartbeats, failing results): `EverySymbolServed` and `ShutdownEnds` hold while
they recur for ever. `EngineRecovers` alone has a premise, `CalmReturns`: from some time
on there is no fault, and a symbol that is served again and again closes a complete bucket
again and again, whatever is reported in between (strong fairness, per symbol).

*Fairness* (`LiveSpec` of `MarketData`). Minutes pass (weak fairness, up to the
bound), and the ticks of this symbol take steps again and again, which the worker's
loop and `EverySymbolServed` provide; a replay's come to an end with its fixture.
Nothing is assumed of the exchange, whose holes may stay for ever; faults are
bounded by `MaxFaults`.

## 5. Proofs

From the named assumptions on the constants, for any instance. An invariant is seldom
inductive as it stands; what each needed is named.

`OrderLifecycle_proofs`: `TypeCorrect` (`Spec => []TypeOK`; needs `CurrentOrder`:
a step about an order has one), `BooksFaithful` (`Spec => []Bookkeeping`) and
its corollary `TerminalSettled`. `TerminalMeansSettled` is not inductive: an answer
is applied one step after the status was read, so the proof needs `SeenIsTrue` -
an end read by the first call is still the end when the fills arrive, because
ended orders do not move. And completing the fills of a row gives exactly those of
the exchange only if the row held no others: `Faithful`. Both hold for the
committed rows and for those of the transaction in flight, since a rollback may
bring either back.

`BooksImplemented` (`Spec => KeepsTheBooks`), the refinement.
The market of the contract moves when the exchange does, a commit is a publication,
and every other step is a stutter - also the one by which the exchange receives an
order, which is not filled yet. A commit publishes what many steps did, so the
invariant `ContractInv` says at each of them that what was done so far might be
published (`Ahead`): `Follows` is transitive (`FollowsFurther`) and stays true
when the market moves on (`FollowsLater`), so each step has only to bring its one row
up to date. That the row was live, and no report reaches one that is closed, is
`InHand`: what a handler still has to do are live orders, each of them once. A
refused order has no fills because the exchange rejects only what it has not filled
(`NothingTraded`, external) and a submission is of a row without fills.

`PositionIsExplained` (`Spec => []PositionExplained`). Bought
less sold is a difference of cardinalities, so `PositionInv` adds that the recorded
fills are finite sets (`Countable`). Only `Apply` moves the position: it adds to one
side as many pairs of key and fill as are new (`FillsAdded`), and moves the position
by as many, or sets `held` (`PositionMoves`); that is where a fill reported twice
would count twice. Every other step keeps what was counted (`SameFills`): a row may
be filled in with its side by a submission only because, by `ContractInv`, a row not
yet there has no fills. The transaction in flight is explained as well as the
committed database, since either may become the other.

`GateMirrors`, `UnknownIsBlocked`, `KillIsFinal`, from `GateInv`. The flag does not follow its causes at every step: a handler changes a
cause and derives the flag again later, in the reconciliation or the poll that it
is in (`Rederiving`). `GateInv` says at which steps the transaction's gate may lag
behind and that none of them can commit or submit; that an UNKNOWN row has
its cause noted (`UnknownNoted`), whoever resets the other causes; and that the step
before a submission has read a gate without the emergency block.

`MarketEngine_proofs`: `EngineSafe` (`Spec => []EngineInv`) and from it
`TicksAlone`, `ClosedForGood`, `EntriesEarned`, `HealthConsistent`, for any symbols,
thresholds, disturbances and places for ticks. That an entry was earned follows from
what its tick knows (`TickKnows`), and that in turn, when the tick begins, from
`DebtHoldsBack`: while anything is owed the entries are held back, by the engine's
own flag, or - before the first success ever, when that flag is still down - by
the symbols, of which one has not been served. The gap between the last symbol
becoming healthy and the worker counting that tick is covered because that tick is
still in its place, so no other can begin: safety of the entries rests on
`OneTickAtATime`. `DebtIsCounted` says that the worker's counter and the debt never
add up to more than is required, so a recovery leaves nothing owed; the restart,
which lowers the counter without an incident, and the heartbeat, which raises the
debt without touching the counter, are why it is needed.

`Portfolio_proofs`: `BookFollows` and `CooldownKept`, from `PortfolioInv`.
The book follows because an order that does not oppose what is held adds to book
and rows alike (`IncreaseFollows`) and a close is for all of it (`CloseFollows`);
both need that an open row has a side and a quantity (`Proper`). A cooldown is a
fact about the closed rows; the code keeps counters instead, and `StreakIsCounted`
says that the two agree: the streak is that of the latest rows, no more and no
less, and a streak that is long enough has set `cooldown_until`.

`ExposureLimited` and `DailyLossLimited`, from `LimitsInv`. The exposure is a sum over
symbols in the order in which CHOOSE picks them; the proof replaces it by the number of
units held (`Units`, one element for each unit of notional), in which no order appears,
and shows the two equal by a smallest set where they would differ. So an entry adds its
units to those of the others and the gate compares the same number. The day's losses are
bounded by `LossesAreCovered`: losses of the day and open positions together stay below
the limit and one per symbol, since a close turns one into the other and an entry needs
room. `SymbolsAssumption`: the symbols are a finite set.

`Account_proofs`: `SnapshotKept` and `TermsKept`, from `AccountInv`. A boot finds the
one open session of its portfolio or begins a new one (`BootsOne`), so the session
of a running process is open and has its settings. `KeepsItsTerms` is about the
session that is active, which says nothing of what the guard will see at the next
boot; `Terms` therefore follows each trade: the session that the guard will look at
has the timeframe of the one the trade was decided in (`Guarded`), or the trade went
out of the guard's sight (`Gone`) - an entry still unfilled when its session was
replaced is out of sight already, before it is a position.

`CurveMeets` and `EquityKept`, from `MoneyInv`. The accounting base is found by a
recursive walk back over the sessions; `IsBase` says which session it finds, and that
there is exactly one. The curve adds fees fill by fill, the summary trade by trade:
`Ledger` says that every trade has one fill of its entry, a closed one a second, and no
two trades share an instant, so that the fees of a set of trades are those of twice as
many fills. A boot that changes neither portfolio nor balance finds the same base
because the session that was open is the last one of its portfolio (`SessionsInOrder`);
that this holds of the sessions inherited from an earlier release is part of
`InheritedAssumption` (`OpenIsLast`: `start_or_resume_session` ends an open session
before it starts another).

`Funding_proofs`: `NothingPassedOver` and `NothingTwice`, from `FundingInv`.
`WalkReaches` says that a walk which stops anywhere has brought everything from
its beginning to its checkpoint; what is behind the old checkpoint was there
before. That a settlement is booked once needs the table to be exactly the bag of
its own elements (`OneOfEach`).

`Migrations_proofs`: `HeadOrNothing`, `RowsKept`, `RefusalsHaveCause` and
`NothingHalfDone`, from `MigrationsInv`, for any set of databases - of a release, tampered
with, or without `system_state` - and any faults. `RunIsolated` says that a run has its
transaction open and the disk is still what it found, which is why a rollback loses
everything and nothing else; every statement has to keep it (`StatementInside`). It
also says that the copy has no shapes and open rows but those found, so that what one
refuses the other would. `StageFits` says what the copy is at each stage: while tables are
created, only facts about the tables found may be missing; while upgrading, by `TypeOK`, the
versions passed are recorded and their facts there, and the tables expected are (`FirstTables`);
before the commit, what `UpMeansHead` asks for. `Survived` and `Kept` - tables own their
columns, rows keep to the unique indexes - hold of the disk and of the copy, since the copy
may become the disk at any time; `Kept` is assumed of the databases found
(`DatabasesAssumption`), because SQLite enforces it.

`Shadow_proofs`, for any symbols, limits, inherited experiments and candles. `ShadowSafe`
gives `ShadowInv`, and from it `MeansKept`, `NoReentry`, `TradesMatch` and
`ExperimentsApart`. `Booked` says that a position and its trade are known by experiment,
symbol and opening candle, each once, and were opportunities before; that holds of any
part of a tick, so it survives undoing a savepoint or the tick. `NoReentry` needs in
addition what the tick has seen so far: that nothing is stamped ahead of the clock of its
symbol (`Past`), and that a model that left a position on this candle has the memory of
it. `ExperimentsApart` rests on `Apart`: rows belong to experiments of their
configuration (`RowsFit`), experiments follow one another (`RowsInOrder`, `NoneLater`) and
the one in memory is the active one (`OneInUse`), and each differs in configuration from the
one that follows it. A rollback brings the older rows back beside the newer memory: that
keeps `Apart` unless the id in memory has no row any more, which is what `strayed` records.
`BrakesKept` is the action property `BrakesHold`, from `BrakesInv`. An entry is checked
against the memory of its model, the property speaks of the trades of this life:
`LossesCounted` says that the memory counts at least the losses of a day, whatever was
undone, and `StreakCounted` that its streak and cooldown are those of the trades while
nothing was. The streak that restarts after each cooldown is the length of the latest run
of losses modulo the limit, so the step is the next remainder (`NextRemainder`). A model
that enters had no exit on the same candle, so its memory is still that of before the
tick.

`MarketData_proofs`: `NoneSkipped`, from `CursorInv`, for any page size, number of pages,
start and faults. `Reached` is the last minute that the provider is done with: the one
before the first queued, or, with nothing queued, its cursor or the last stored candle,
whichever is later. `DeliveredSoFar` says that everything up to there, from the first
stored candle on, was stored or lost; `NothingLeftOut`, that the queue and what a call has
collected so far follow it without interruption - the cursor alone does not say so, since
the first page sets it to its end before anything is delivered. A fixture restarts from its
beginning and has holes of its own, so `FixtureInOrder` is stated over what it has.

`RestartKnows` and `NothingInvented`, from `MemoryInv`. A set of stored minutes amounts to
an aggregator (`AggregatorOf`: the bucket of the last minute, unless it is whole) and to a
sequence of bars (`BarsOf`: one for each whole bucket, in order of time). While memory and
tables are in step, what the process holds is what all stored minutes amount to, or those
since some minute if hydration's depth of them was read. The argument has four parts.
One minute more: `PushNext` follows every path of `Push` - a bucket opened, filled, turned
or finalised - and shows that the aggregator of `S` becomes that of `S` with a later
minute, and hands out a whole bucket exactly if that minute completes one (`BarsGrow`).
Hydration: `HydrationEnds` and `StrategyEnds` give the recursive functions of the model in
closed form, so a restart lands in the invariant (`CrashRemembers`). The end of the bars:
`BarsOfEnd` says that the last minutes amount to the last bars, `SideOfEnd` and
`SignalOfEnd` that averages, range and crossing look only at these, so a signal to trade is
the one on all bars. And enough of them: `RunHoldsBuckets` counts `w` whole buckets in a run
of `(w + 1) * Slots` minutes wherever it begins, which is why the depth has a bucket to
spare, and `FormingStays` that the bucket in formation is not cut. Both theorems need the
walk of the cursor: that a candle which is new and in step comes after all stored ones
(`NewComesLast`) follows from `CursorSafe`'s invariant.

The library's induction theorems cannot be applied here, but a smallest counterexample can
be: sums and recursive walks over finite sets are handled by well-foundedness of the
numbers (`WFMin`) applied to the set of sizes at which the claim fails; a recursive function
is the one that CHOOSE picks, so it is enough to exhibit its closed form and refute a
smallest argument at which the two differ.

Only model-checked: the liveness properties - `OrderSettles`, `NoSilentMismatch`,
`EngineRecovers`, `EverySymbolServed`, `ShutdownEnds`, `BacklogDrained`, `HoleIsReported` -
as fairness and ENABLED are beyond the prover.

## 6. Plan

Done: all modules of section 2, and a theorem for every safety invariant and action
property of section 3. Worth doing next, in this order: a run of `MarketEngine` with the
reports of `MarketData` in the place of free ones; partial fills in `Portfolio`; an instance
of the orders with the three entries and two closes of the late close fill among the
observations.

## 7. Not modelled

* Clock, timeframes and freshness classify one instant against another and keep
  no state; a stale signal is an arbitrary refusal of an entry.
* Configuration, logging and errors: settings are read once; those that matter are
  CONSTANTS.
* The AI shadow is asked after the signal, and its answer is only stored.
* Metrics, diagnostics and the dashboard's other routes are read-only views and
  arithmetic over stored rows.
* The cost gate of the risk engine is arithmetic on prices that only refuses.
* `shadow/diagnostics.py` and `shadow/metrics.py` are statistics.
* Of activation, freshness and warm-up only restrict what the models allow.
* `run.py` and the scripts start or measure the program.

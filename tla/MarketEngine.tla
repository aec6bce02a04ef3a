---------------------------- MODULE MarketEngine ----------------------------
(***************************************************************************)
(* What drives the ticks: the worker coroutine that hands one tick at a    *)
(* time to a thread, its supervisor, the round robin over the symbols in   *)
(* that thread, and the shutdown.  Coroutines run from await to await; the *)
(* thread runs beside them, and nothing can stop it.                       *)
(*                                                                         *)
(* A tick is abstracted to what this level sees of it: when it reads the   *)
(* health of engine and portfolio, when it takes the write lock of the     *)
(* database, whether it opens a position, what it reports.  Time is        *)
(* abstracted to what may have elapsed.                                    *)
(***************************************************************************)
EXTENDS SymbolHealth, Sequences, FiniteSets

CONSTANTS
  SymbolOrder,     \* settings.symbols, in order
  HealthyTicks,    \* settings.poll_healthy_ticks_to_recover
  Slots,           \* places for ticks handed to a thread (the code needs one)
  NoSlot,
  Reports,         \* the results a tick may come back with in this instance
  Disturbances     \* what may disturb the engine in this instance

Symbols == {SymbolOrder[i] : i \in DOMAIN SymbolOrder}

ASSUME SymbolsAssumption ==
  /\ SymbolOrder \in Seq(Symbols) /\ Len(SymbolOrder) >= 1
  /\ \A i, j \in DOMAIN SymbolOrder : SymbolOrder[i] = SymbolOrder[j] => i = j
ASSUME TicksAssumption == HealthyTicks \in Nat \ {0}
ASSUME SlotsAssumption == NoSlot \notin Slots
ASSUME ReportsAssumption == Reports \subseteq Results
ASSUME EngineDisturbancesAssumption ==
  Disturbances \subseteq {"slow", "raise", "death", "stop"}

VARIABLES
  engine,    \* PollHealth and MultiSymbolOrchestrator._engine_degraded
  worker,    \* the coroutine poll_worker
  boss,      \* the coroutine supervise_poll_loop
  inFlight,  \* app.state.poll_in_flight_future: the slot of the pending tick
  tick,      \* the ticks handed to the thread, by slot
  health,    \* SymbolHealth of every symbol
  turn,      \* _rr_index
  flag,      \* engine_degraded of the symbols' orchestrators
  active,    \* operational_state is ATIVO
  phase,     \* how far the shutdown is
  debt       \* history: successful ticks still owed since the last incident

vars ==
  <<engine, worker, boss, inFlight, tick, health, turn, flag, active, phase, debt>>

coroutines == <<worker, boss, inFlight, phase>>
market     == <<health, turn, active>>

-----------------------------------------------------------------------------
(* State *)

EngineStatus == {"INICIANDO", "SAUDAVEL", "DEGRADADO", "PARADO", "ENCERRANDO"}

\* late: the heartbeat is older than poll_heartbeat_max_age_seconds; succeeded:
\* there is a poll_last_success_at for it to be measured from.
FreshEngine ==
  [status |-> "INICIANDO", degraded |-> FALSE, heartbeatAlert |-> FALSE,
   timeoutAlert |-> FALSE, succeeded |-> FALSE, late |-> FALSE]

NoTick ==
  [pc |-> "idle", symbol |-> SymbolOrder[1], degraded |-> FALSE, sound |-> FALSE,
   result |-> "none"]

\* The phases of a tick: handed over, health read, flag written, transaction
\* open, write lock taken, position being opened, returned to the scheduler, done
Writing(t)  == t.pc \in {"writing", "entering"}
Running(t)  == t.pc \notin {"idle", "over"}

PortfolioHealthy == \A s \in Symbols : Healthy(health[s]) /\ ~health[s].gap

-----------------------------------------------------------------------------
(* Incidents: what the worker and the supervisor do when something is wrong *)

\* The setter of engine_degraded reaches every symbol at once.
Degrade(new) ==
  /\ engine' = [new EXCEPT !.degraded = TRUE]
  /\ flag' = TRUE
  /\ debt' = HealthyTicks

-----------------------------------------------------------------------------
(* poll_worker *)

\* The top of the loop: a new tick if none is pending.  Until the first success the
\* heartbeat is measured from here.
SubmitTick ==
  /\ worker.pc = "paused" /\ inFlight = NoSlot
  /\ \E s \in Slots :
       /\ tick[s].pc = "idle"
       /\ tick' = [tick EXCEPT ![s] = [NoTick EXCEPT !.pc = "queued"]]
       /\ inFlight' = s
  /\ worker' = [worker EXCEPT !.pc = "awaiting"]
  /\ engine' = [engine EXCEPT !.late = @ /\ engine.succeeded]
  /\ UNCHANGED <<boss, phase, market, flag, debt>>

\* ... or the same one again, still pending
AwaitAgain ==
  /\ worker.pc = "paused" /\ inFlight # NoSlot
  /\ worker' = [worker EXCEPT !.pc = "awaiting"]
  /\ UNCHANGED <<engine, boss, inFlight, tick, market, flag, phase, debt>>

\* Mutant: the tick that timed out is given up
TimedOutAbandoned ==
  /\ worker.pc = "awaiting" /\ tick[inFlight].pc # "over"
  /\ "slow" \in Disturbances
  /\ worker' = [pc |-> "paused", proven |-> 0]
  /\ Degrade([engine EXCEPT !.status = "DEGRADADO", !.timeoutAlert = TRUE])
  /\ inFlight' = NoSlot
  /\ UNCHANGED <<boss, tick, market, phase>>

\* wait_for gave up; the tick is shielded and goes on.
TimedOut ==
  /\ worker.pc = "awaiting" /\ tick[inFlight].pc # "over"
  /\ "slow" \in Disturbances
  /\ worker' = [pc |-> "paused", proven |-> 0]
  /\ Degrade([engine EXCEPT !.status = "DEGRADADO", !.timeoutAlert = TRUE])
  /\ UNCHANGED <<boss, inFlight, tick, market, phase>>

Collected ==
  /\ worker.pc = "awaiting" /\ tick[inFlight].pc = "over"
  /\ tick' = [tick EXCEPT ![inFlight] = NoTick]
  /\ inFlight' = NoSlot

\* Mutant: the successes before the failure still count
TickRaisedProvenKept ==
  /\ Collected
  /\ tick[inFlight].result = "raised"
  /\ worker' = [worker EXCEPT !.pc = "paused"]
  /\ Degrade([engine EXCEPT !.status = "DEGRADADO", !.timeoutAlert = FALSE])
  /\ UNCHANGED <<boss, market, phase>>

TickRaised ==
  /\ Collected
  /\ tick[inFlight].result = "raised"
  /\ worker' = [pc |-> "paused", proven |-> 0]
  /\ Degrade([engine EXCEPT !.status = "DEGRADADO", !.timeoutAlert = FALSE])
  /\ UNCHANGED <<boss, market, phase>>

\* Mutant: only a DEGRADADO engine is ever brought back
RecoversFromDegradado(proven) ==
  \/ engine.status = "INICIANDO" /\ proven >= 1
  \/ engine.status = "DEGRADADO" /\ proven >= HealthyTicks

\* _maybe_recover: one success proves a new engine, several a broken one
Recovers(proven) ==
  /\ engine.status # "SAUDAVEL"
  /\ proven >= IF engine.status = "INICIANDO" THEN 1 ELSE HealthyTicks

TickReturned ==
  LET result == tick[inFlight].result
      proven == IF worker.proven < HealthyTicks THEN worker.proven + 1 ELSE HealthyTicks
      beaten == [engine EXCEPT !.timeoutAlert = FALSE, !.succeeded = TRUE, !.late = FALSE]
      new    == IF Recovers(proven)
                THEN [beaten EXCEPT !.status = "SAUDAVEL", !.degraded = FALSE,
                                    !.heartbeatAlert = FALSE]
                ELSE beaten
  IN
  /\ Collected
  /\ result # "raised"
  /\ flag' = (flag /\ ~Recovers(proven))
  /\ IF result = "noData"
     THEN /\ engine' = [new EXCEPT !.status = "PARADO"]
          /\ worker' = [pc |-> "finished", proven |-> proven]
     ELSE /\ engine' = new
          /\ worker' = [pc |-> "paused", proven |-> proven]
  /\ debt' = IF debt > 0 THEN debt - 1 ELSE 0
  /\ UNCHANGED <<boss, market, phase>>

\* Something outside the barrier: no thread could be started for the tick
WorkerDies ==
  /\ "death" \in Disturbances
  /\ worker.pc = "paused" /\ inFlight = NoSlot
  /\ worker' = [worker EXCEPT !.pc = "dead"]
  /\ UNCHANGED <<engine, boss, inFlight, tick, market, flag, phase, debt>>

-----------------------------------------------------------------------------
(* supervise_poll_loop *)

\* Time passes without a success.  With the default settings an interval and the
\* timeout of a tick fit in the age of the heartbeat, so a failure comes first.
HeartbeatAges ==
  /\ ~engine.late /\ worker.proven = 0
  /\ phase = "up" /\ worker.pc # "finished"
  /\ engine' = [engine EXCEPT !.late = TRUE]
  /\ UNCHANGED <<coroutines, tick, market, flag, debt>>

HeartbeatExpired ==
  /\ boss = "watching"
  /\ engine.late /\ ~engine.heartbeatAlert
  /\ Degrade([engine EXCEPT !.heartbeatAlert = TRUE, !.status = "PARADO"])
  /\ UNCHANGED <<coroutines, tick, market>>

HeartbeatBack ==
  /\ boss = "watching"
  /\ ~engine.late /\ engine.heartbeatAlert
  /\ engine' = [engine EXCEPT !.heartbeatAlert = FALSE]
  /\ UNCHANGED <<coroutines, tick, market, flag, debt>>

DeathNoticed ==
  /\ boss = "watching" /\ worker.pc = "dead"
  /\ boss' = "restarting"
  /\ Degrade([engine EXCEPT !.status = "PARADO"])
  /\ UNCHANGED <<worker, inFlight, tick, market, phase>>

RestartWorker ==
  /\ boss = "restarting"
  /\ boss' = "watching"
  /\ worker' = [pc |-> "paused", proven |-> 0]
  /\ engine' = [engine EXCEPT !.late = @ /\ engine.succeeded]
  /\ UNCHANGED <<inFlight, tick, market, flag, phase, debt>>

ReplayOver ==
  /\ boss = "watching" /\ worker.pc = "finished"
  /\ boss' = "over"
  /\ UNCHANGED <<engine, worker, inFlight, tick, market, flag, phase, debt>>

-----------------------------------------------------------------------------
(* _graceful_shutdown *)

Stop ==
  /\ "stop" \in Disturbances
  /\ phase = "up"
  /\ phase' = IF boss = "over" THEN "waiting" ELSE "stopping"
  /\ UNCHANGED <<engine, worker, boss, inFlight, tick, market, flag, debt>>

\* The supervisor is cancelled and cancels the worker at its await.
LoopCancelled ==
  /\ phase = "stopping" /\ boss # "over"
  /\ phase' = "waiting" /\ boss' = "over"
  /\ engine' = [engine EXCEPT !.status = "ENCERRANDO"]
  /\ worker' = [worker EXCEPT !.pc = IF @ \in {"finished", "dead"} THEN @ ELSE "cancelled"]
  /\ UNCHANGED <<inFlight, tick, market, flag, debt>>

\* The supervisor ended by itself before the cancellation reached it.
LoopOver ==
  /\ phase = "stopping" /\ boss = "over"
  /\ phase' = "waiting"
  /\ UNCHANGED <<engine, worker, boss, inFlight, tick, market, flag, debt>>

\* wait_for_in_flight_tick_before_shutdown, without a limit; the exceeded wait
\* itself is only one more incident.
InFlightOver == inFlight # NoSlot => tick[inFlight].pc = "over"

\* Mutant: the wait ends when the coroutines have
CloseAtOnce ==
  /\ phase = "waiting"
  /\ phase' = "closed"
  /\ health' = [s \in Symbols |-> [health[s] EXCEPT !.status = "ENCERRANDO"]]
  /\ active' = FALSE
  /\ UNCHANGED <<engine, worker, boss, inFlight, tick, turn, flag, debt>>

\* Mutant: a tick that has ended is still waited for
CloseWithoutTick ==
  /\ phase = "waiting" /\ inFlight = NoSlot
  /\ phase' = "closed"
  /\ health' = [s \in Symbols |-> [health[s] EXCEPT !.status = "ENCERRANDO"]]
  /\ active' = FALSE
  /\ UNCHANGED <<engine, worker, boss, inFlight, tick, turn, flag, debt>>

\* mark_shutting_down, then the last transaction: ENCERRANDO and a reconciliation
Close ==
  /\ phase = "waiting" /\ InFlightOver
  /\ phase' = "closed"
  /\ health' = [s \in Symbols |-> [health[s] EXCEPT !.status = "ENCERRANDO"]]
  /\ active' = FALSE
  /\ UNCHANGED <<engine, worker, boss, inFlight, tick, turn, flag, debt>>

-----------------------------------------------------------------------------
(* MultiSymbolOrchestrator.tick, in its thread *)

\* The symbol i turns after the round-robin index (sequences start at 1)
After(i) == SymbolOrder[((turn + i) % Len(SymbolOrder)) + 1]

Awake == {i \in 0 .. Len(SymbolOrder) - 1 : ~health[After(i)].resting}

Step(s, t) == tick' = [tick EXCEPT ![s] = t]

\* The next symbol that is not resting; the health of engine and portfolio is read.
Turn(s) ==
  /\ tick[s].pc = "queued"
  /\ \E i \in Awake :
       /\ \A j \in Awake : i <= j
       /\ Step(s, [tick[s] EXCEPT !.pc = "syncing", !.symbol = After(i),
                                  !.degraded = engine.degraded \/ ~PortfolioHealthy,
                                  !.sound = debt = 0 /\ PortfolioHealthy])
       /\ turn' = (turn + i + 1) % Len(SymbolOrder)
  /\ UNCHANGED <<engine, coroutines, health, active, flag, debt>>

\* all_symbols_in_cooldown counts as a success of the engine.
NobodysTurn(s) ==
  /\ tick[s].pc = "queued" /\ Awake = {}
  /\ Step(s, [tick[s] EXCEPT !.pc = "over", !.result = "cooldown"])
  /\ UNCHANGED <<engine, coroutines, market, flag, debt>>

\* ... and written to the orchestrators of the symbols.
Sync(s) ==
  /\ tick[s].pc = "syncing"
  /\ flag' = tick[s].degraded
  /\ Step(s, [tick[s] EXCEPT !.pc = "reading"])
  /\ UNCHANGED <<engine, coroutines, market, debt>>

\* The first flush takes the write lock.
FirstWrite(s) ==
  /\ tick[s].pc = "reading"
  /\ \A other \in Slots : ~Writing(tick[other])
  /\ Step(s, [tick[s] EXCEPT !.pc = "writing"])
  /\ UNCHANGED <<engine, coroutines, market, flag, debt>>

\* RiskEngine.evaluate lets an entry through on a complete bucket.
Enter(s) ==
  /\ tick[s].pc = "writing"
  /\ active /\ ~flag
  /\ Step(s, [tick[s] EXCEPT !.pc = "entering"])
  /\ UNCHANGED <<engine, coroutines, market, flag, debt>>

Return(s) ==
  /\ Writing(tick[s])
  /\ \E result \in Reports :
       /\ tick[s].pc = "entering" => result = "complete"
       /\ Step(s, [tick[s] EXCEPT !.pc = "returning", !.result = result])
  /\ UNCHANGED <<engine, coroutines, market, flag, debt>>

UpdateHealth(s) ==
  /\ tick[s].pc = "returning"
  /\ health' = [health EXCEPT ![tick[s].symbol] = AfterTick(@, tick[s].result)]
  /\ Step(s, [tick[s] EXCEPT !.pc = "over"])
  /\ UNCHANGED <<engine, coroutines, turn, active, flag, debt>>

\* Mutant: the index is moved on only when the tick has come back
RaiseKeepsTurn(s) ==
  /\ "raise" \in Disturbances
  /\ tick[s].pc = "reading" \/ Writing(tick[s])
  /\ Step(s, [tick[s] EXCEPT !.pc = "over", !.result = "raised"])
  /\ turn' \in {i \in 0 .. Len(SymbolOrder) - 1 : SymbolOrder[i + 1] = tick[s].symbol}
  /\ UNCHANGED <<engine, coroutines, health, active, flag, debt>>

\* An exception leaves the health of the symbol as it was.
Raise(s) ==
  /\ "raise" \in Disturbances
  /\ tick[s].pc = "reading" \/ Writing(tick[s])
  /\ Step(s, [tick[s] EXCEPT !.pc = "over", !.result = "raised"])
  /\ UNCHANGED <<engine, coroutines, market, flag, debt>>

\* eligible_again_at is reached.
Rested(s) ==
  /\ health[s].resting
  /\ health' = [health EXCEPT ![s].resting = FALSE]
  /\ UNCHANGED <<engine, coroutines, tick, turn, active, flag, debt>>

-----------------------------------------------------------------------------
(* activate_operational_state *)

Activate ==
  /\ ~active /\ phase # "closed"
  /\ engine.status = "SAUDAVEL" /\ ~engine.late
  /\ PortfolioHealthy /\ \A s \in Symbols : health[s].failures = 0
  /\ \A s \in Slots : ~Writing(tick[s])
  /\ active' = TRUE
  /\ UNCHANGED <<engine, coroutines, tick, health, turn, flag, debt>>

-----------------------------------------------------------------------------
Init ==
  /\ engine = FreshEngine
  /\ worker = [pc |-> "paused", proven |-> 0]
  /\ boss = "watching"
  /\ inFlight = NoSlot
  /\ tick = [s \in Slots |-> NoTick]
  /\ health = [s \in Symbols |-> FreshHealth]
  /\ turn = 0
  /\ flag = FALSE /\ active = FALSE
  /\ phase = "up"
  /\ debt = 1

WorkerStep ==
  SubmitTick \/ AwaitAgain \/ TimedOut \/ TickRaised \/ TickReturned \/ WorkerDies

BossStep ==
  HeartbeatExpired \/ HeartbeatBack \/ DeathNoticed \/ RestartWorker \/ ReplayOver

ShutdownStep == Stop \/ LoopCancelled \/ LoopOver \/ Close

TickStep(s) ==
  \/ Turn(s) \/ NobodysTurn(s) \/ Sync(s) \/ FirstWrite(s) \/ Enter(s) \/ Return(s)
  \/ UpdateHealth(s) \/ Raise(s)

Next ==
  \/ WorkerStep \/ BossStep \/ ShutdownStep
  \/ HeartbeatAges
  \/ \E s \in Slots : TickStep(s)
  \/ \E s \in Symbols : Rested(s)
  \/ Activate

Spec == Init /\ [][Next]_vars
=============================================================================

-------------------------- MODULE EngineProperties --------------------------
(***************************************************************************)
(* What must hold of MarketEngine.                                         *)
(***************************************************************************)
EXTENDS MarketEngine

Engine ==
  [status : EngineStatus, degraded : BOOLEAN, heartbeatAlert : BOOLEAN,
   timeoutAlert : BOOLEAN, succeeded : BOOLEAN, late : BOOLEAN]

TickPcs ==
  {"idle", "queued", "syncing", "reading", "writing", "entering", "returning", "over"}

Tick ==
  [pc : TickPcs, symbol : Symbols, degraded : BOOLEAN, sound : BOOLEAN,
   result : Results \cup {"none", "cooldown", "raised"}]

\* The state has the shape described in MarketEngine; a worker that waits has a
\* tick to wait for (poll_worker never awaits a future it does not have).
TypeOK ==
  /\ engine \in Engine
  /\ worker \in [pc : {"paused", "awaiting", "finished", "dead", "cancelled"},
                 proven : 0 .. HealthyTicks]
  /\ boss \in {"watching", "restarting", "over"}
  /\ inFlight \in Slots \cup {NoSlot}
  /\ tick \in [Slots -> Tick]
  /\ health \in [Symbols -> Health]
  /\ turn \in 0 .. Len(SymbolOrder) - 1
  /\ flag \in BOOLEAN /\ active \in BOOLEAN
  /\ phase \in {"up", "stopping", "waiting", "closed"}
  /\ debt \in 0 .. HealthyTicks
  /\ worker.pc = "awaiting" => inFlight # NoSlot

-----------------------------------------------------------------------------
(* Safety *)

\* A tick is never handed to the thread before the previous one has really ended,
\* however often it timed out and whoever restarted the worker (poll_worker).
OneTickAtATime == \A s \in Slots : tick[s].pc # "idle" => s = inFlight

\* Nothing of a tick happens after the final reconciliation: not a write to the
\* database, not a change to the health of a symbol (_graceful_shutdown).
NothingAfterClose ==
  phase = "closed" =>
    /\ \A s \in Slots : ~Running(tick[s])
    /\ \A s \in Symbols : health[s].status = "ENCERRANDO"
    /\ ~active

\* A tick opens a position only if, when it began, the engine had made up for its
\* last incident with enough successful ticks in a row and every symbol was
\* healthy and without a gap (engine_degraded, _portfolio_healthy).
EntriesAreEarned == \A s \in Slots : tick[s].pc = "entering" => tick[s].sound

\* SAUDAVEL is only ever shown by an engine that owes nothing, has no open alert of
\* a stuck tick and does not hold the entries back (_maybe_recover and every place
\* that sets engine_degraded).
HealthIsConsistent ==
  engine.status = "SAUDAVEL" => debt = 0 /\ ~engine.degraded /\ ~engine.timeoutAlert

-----------------------------------------------------------------------------
(* Why these hold: the inductive invariant *)

\* The worker that still runs has proved no more than was owed ...
DebtIsCounted ==
  /\ worker.pc \in {"paused", "awaiting"} => debt + worker.proven <= HealthyTicks
  /\ engine.late => worker.proven = 0 \/ worker.pc \notin {"paused", "awaiting"}
  /\ engine.status = "INICIANDO" => debt <= 1

\* ... and the entries are held back while anything is owed, by the engine's flag
\* or, before the first success, by the symbols that have not been served yet.
DebtHoldsBack ==
  ~engine.degraded /\ debt > 0 =>
    /\ debt = 1
    /\ PortfolioHealthy => \E s \in Slots : tick[s].pc = "over"

\* What a tick knows of its own soundness on its way to the entry
TickKnows ==
  \A s \in Slots :
    /\ tick[s].pc = "syncing" /\ ~tick[s].degraded => tick[s].sound
    /\ tick[s].pc \in {"reading", "writing"} /\ ~flag => tick[s].sound
    /\ tick[s].pc = "entering" => tick[s].sound

\* After the shutdown has stopped the coroutines nobody hands out a tick.
Stopped ==
  /\ phase \in {"waiting", "closed"} => boss = "over"
  /\ boss = "over" => worker.pc \notin {"paused", "awaiting"}

EngineInv ==
  /\ TypeOK /\ OneTickAtATime
  /\ HealthIsConsistent /\ DebtIsCounted /\ DebtHoldsBack
  /\ TickKnows
  /\ Stopped /\ NothingAfterClose

-----------------------------------------------------------------------------
(* Liveness *)

Progress(s) ==
  Turn(s) \/ NobodysTurn(s) \/ Sync(s) \/ FirstWrite(s) \/ Return(s) \/ UpdateHealth(s)

WholeBucket(s, symbol) ==
  Return(s) /\ tick[s].symbol = symbol /\ tick'[s].result = "complete"

\* Coroutines are resumed, a tick ends (every call it makes has a timeout), a thread
\* can be had again and again, and the rest of each symbol is over some time.
Fairness ==
  /\ SF_vars(SubmitTick)
  /\ WF_vars(AwaitAgain \/ TickRaised \/ TickReturned)
  /\ WF_vars(BossStep)
  /\ WF_vars(LoopCancelled \/ LoopOver \/ Close)
  /\ \A s \in Slots : WF_vars(Progress(s))
  /\ \A symbol \in Symbols : WF_vars(Rested(symbol))

\* Timeouts, exceptions, failing results, dead workers and old heartbeats may all
\* recur for ever.
LiveSpec == Spec /\ Fairness

Fault ==
  \/ TimedOut \/ WorkerDies \/ HeartbeatAges
  \/ \E s \in Slots : Raise(s)
  \/ \E s \in Slots : Return(s) /\ tick'[s].result \notin {"aggregating", "complete"}

\* The faults are over some time, and a symbol that is served again and again
\* closes a whole bucket again and again.
CalmReturns ==
  /\ <>[][~Fault]_vars
  /\ \A symbol \in Symbols : SF_vars(\E s \in Slots : WholeBucket(s, symbol))

\* After the last fault the engine and every symbol become healthy and stay so,
\* unless the process is stopped or a replay is over, in whatever order timeouts,
\* exceptions, a dead worker, the heartbeat and resting symbols came before
\* (_maybe_recover).
EngineRecovers ==
  CalmReturns =>
    <>[](\/ phase # "up" \/ worker.pc = "finished"
         \/ engine.status = "SAUDAVEL" /\ PortfolioHealthy /\ ~engine.degraded)

\* No symbol waits for ever for its turn, not even if another one fails, raises or
\* is too slow at each of its turns, for ever (MultiSymbolOrchestrator.tick).
EverySymbolServed ==
  \A symbol \in Symbols :
    []<>(\/ phase # "up" \/ worker.pc = "finished"
         \/ \E s \in Slots : tick[s].pc = "reading" /\ tick[s].symbol = symbol)

\* A shutdown that was asked for comes to its end (_graceful_shutdown waits without
\* a limit, for something that ends).
ShutdownEnds == phase # "up" ~> phase = "closed"

=============================================================================

------------------------ MODULE MarketEngine_proofs ------------------------
(***************************************************************************)
(* The safety of MarketEngine for any symbols, thresholds and disturbances *)
(* and any number of places for ticks.                                     *)
(***************************************************************************)
EXTENDS EngineProperties, TLAPS

-----------------------------------------------------------------------------
(* Facts about the helpers *)

\* The result of a tick leaves the health of a symbol well formed.
LEMMA AfterTickType ==
  ASSUME NEW h \in Health, NEW result
  PROVE  AfterTick(h, result) \in Health
<1>1. AfterFailure(h, result) \in Health
  <2> DEFINE n == IF h.failures < Threshold THEN h.failures + 1 ELSE Threshold
  <2>1. n \in 0 .. Threshold
    BY ThresholdAssumption DEF Health
  <2> HIDE DEF n
  <2>2. [h EXCEPT !.failures = n, !.gap = result = "gap",
                  !.status = IF n = Threshold THEN "PARADO" ELSE "DEGRADADO",
                  !.resting = @ \/ n = Threshold] \in Health
    BY <2>1 DEF Health, SymbolStatus
  <2> QED
    BY <2>2 DEF AfterFailure, n
<1>2. 0 \in 0 .. Threshold
  BY ThresholdAssumption
<1>3. AfterIncomplete(h) \in Health
  BY <1>2 DEF AfterIncomplete, Health, SymbolStatus
<1>4. AfterSuccess(h, result) \in Health
  BY <1>2 DEF AfterSuccess, Health, SymbolStatus
<1> QED
  BY <1>1, <1>3, <1>4 DEF AfterTick

\* There is a first symbol, and it is one of them.
LEMMA FirstSymbol == SymbolOrder[1] \in Symbols /\ Len(SymbolOrder) \in Nat \ {0}
  BY SymbolsAssumption DEF Symbols

\* The round-robin index, moved on, is an index again.
LEMMA TurnRange ==
  ASSUME NEW i \in Nat
  PROVE  i % Len(SymbolOrder) \in 0 .. Len(SymbolOrder) - 1
<1> DEFINE n == Len(SymbolOrder)
<1>1. n \in Nat \ {0}
  BY FirstSymbol
<1> HIDE DEF n
<1>2. i % n \in 0 .. n - 1
  BY <1>1
<1> QED
  BY <1>2 DEF n

\* The symbol some turns away is a symbol.
LEMMA AfterIsSymbol ==
  ASSUME TypeOK, NEW i \in Nat
  PROVE  After(i) \in Symbols
<1>1. turn + i \in Nat
  BY FirstSymbol DEF TypeOK
<1>2. DOMAIN SymbolOrder = 1 .. Len(SymbolOrder)
  BY SymbolsAssumption
<1>3. (turn + i) % Len(SymbolOrder) \in 0 .. Len(SymbolOrder) - 1
  BY <1>1, TurnRange
<1>4. \A k \in 0 .. Len(SymbolOrder) - 1 : k + 1 \in DOMAIN SymbolOrder
  BY <1>2, FirstSymbol
<1>5. ((turn + i) % Len(SymbolOrder)) + 1 \in DOMAIN SymbolOrder
  BY <1>3, <1>4
<1> QED
  BY <1>5 DEF After, Symbols

\* A portfolio whose symbols are all closing is not healthy.
LEMMA ClosingIsUnhealthy ==
  ASSUME \A s \in Symbols : health[s].status = "ENCERRANDO"
  PROVE  ~PortfolioHealthy
  BY FirstSymbol DEF PortfolioHealthy, Healthy

\* The tick that is not idle is the one in flight, and the only one.
LEMMA OnlyTick ==
  ASSUME EngineInv, NEW s \in Slots, tick[s].pc # "idle"
  PROVE  inFlight = s /\ \A other \in Slots \ {s} : tick[other].pc = "idle"
  BY DEF EngineInv, OneTickAtATime

\* A step of a tick leaves a table of ticks.
LEMMA StepType ==
  ASSUME EngineInv, NEW s \in Slots, NEW t \in Tick, Step(s, t)
  PROVE  /\ tick' \in [Slots -> Tick]
         /\ tick'[s] = t
         /\ \A other \in Slots \ {s} : tick'[other] = tick[other]
  BY DEF Step, EngineInv, TypeOK

-----------------------------------------------------------------------------
(* The worker *)

\* Handing out a tick needs no pending one.
LEMMA SubmitKeeps == ASSUME EngineInv, SubmitTick PROVE EngineInv'
<1> USE DEF EngineInv, SubmitTick, coroutines, market
<1>1. PICK s \in Slots : /\ tick[s].pc = "idle"
                         /\ tick' = [tick EXCEPT ![s] = [NoTick EXCEPT !.pc = "queued"]]
                         /\ inFlight' = s
  OBVIOUS
<1>2. /\ [NoTick EXCEPT !.pc = "queued"] \in Tick
      /\ [NoTick EXCEPT !.pc = "queued"].pc = "queued"
  BY FirstSymbol DEF NoTick, Tick, TickPcs
<1>3. /\ tick' \in [Slots -> Tick] /\ tick'[s].pc = "queued"
      /\ \A other \in Slots \ {s} : tick'[other] = tick[other] /\ tick[other].pc = "idle"
  BY <1>1, <1>2, SlotsAssumption DEF TypeOK, OneTickAtATime
<1>4. TypeOK'
  BY <1>1, <1>3, SlotsAssumption DEF TypeOK, Engine
<1>5. OneTickAtATime'
  BY <1>1, <1>3 DEF OneTickAtATime
<1>6. HealthIsConsistent' /\ DebtIsCounted'
  BY DEF HealthIsConsistent, DebtIsCounted, TypeOK, Engine
<1>7. DebtHoldsBack'
  BY <1>1, <1>3 DEF DebtHoldsBack, TypeOK, Engine, PortfolioHealthy
<1>8. TickKnows'
  BY <1>3 DEF TickKnows
<1>9. Stopped' /\ NothingAfterClose'
  BY DEF Stopped, NothingAfterClose, TypeOK
<1> QED
  BY <1>4, <1>5, <1>6, <1>7, <1>8, <1>9

\* Waiting again for the same tick changes nothing else.
LEMMA AwaitKeeps == ASSUME EngineInv, AwaitAgain PROVE EngineInv'
<1> USE DEF EngineInv, AwaitAgain, coroutines, market
<1>1. TypeOK'
  BY DEF TypeOK
<1>2. OneTickAtATime' /\ TickKnows'
  BY DEF OneTickAtATime, TickKnows
<1>3. HealthIsConsistent' /\ DebtIsCounted' /\ DebtHoldsBack'
  BY DEF HealthIsConsistent, DebtIsCounted, DebtHoldsBack, TypeOK, PortfolioHealthy
<1>4. Stopped' /\ NothingAfterClose'
  BY DEF Stopped, NothingAfterClose, TypeOK
<1> QED
  BY <1>1, <1>2, <1>3, <1>4

\* What an incident leaves: the debt is all of it, and the entries are held back.
LEMMA DegradeKeeps ==
  ASSUME EngineInv, NEW new \in Engine, Degrade(new), new.status # "INICIANDO",
         new.status # "SAUDAVEL"
  PROVE  /\ engine' \in Engine /\ flag' \in BOOLEAN /\ debt' \in 0 .. HealthyTicks
         /\ engine'.late = new.late /\ engine'.status = new.status
         /\ HealthIsConsistent' /\ DebtHoldsBack' /\ debt' = HealthyTicks /\ flag' = TRUE
<1>1. /\ engine' \in Engine /\ engine'.late = new.late /\ engine'.status = new.status
      /\ engine'.degraded
  BY DEF Degrade, Engine
<1>2. debt' = HealthyTicks /\ flag' = TRUE
  BY DEF Degrade
<1>3. debt' \in 0 .. HealthyTicks
  BY <1>2, TicksAssumption
<1>4. HealthIsConsistent' /\ DebtHoldsBack'
  BY <1>1 DEF HealthIsConsistent, DebtHoldsBack
<1> QED
  BY <1>1, <1>2, <1>3, <1>4

\* A worker that starts from nothing has a place in the type, and owes everything.
LEMMA NewWorker ==
  ASSUME worker' = [pc |-> "paused", proven |-> 0]
  PROVE  /\ worker' \in [pc : {"paused", "awaiting", "finished", "dead", "cancelled"},
                          proven : 0 .. HealthyTicks]
         /\ worker'.pc = "paused" /\ worker'.proven = 0
<1>1. 0 \in 0 .. HealthyTicks
  BY TicksAssumption
<1> QED
  BY <1>1

\* A timeout makes the engine start again to prove itself; the tick goes on.
LEMMA TimedOutKeeps == ASSUME EngineInv, TimedOut PROVE EngineInv'
<1> USE DEF EngineInv, TimedOut, coroutines, market
<1> DEFINE new == [engine EXCEPT !.status = "DEGRADADO", !.timeoutAlert = TRUE]
<1>1. new \in Engine /\ new.status = "DEGRADADO" /\ Degrade(new)
  BY DEF TypeOK, Engine, EngineStatus
<1> HIDE DEF new
<1>2. worker' = [pc |-> "paused", proven |-> 0]
  OBVIOUS
<1>3. TypeOK'
  BY <1>1, <1>2, DegradeKeeps, NewWorker DEF TypeOK
<1>4. OneTickAtATime' /\ TickKnows'
  BY <1>1, DegradeKeeps DEF OneTickAtATime, TickKnows
<1>5. HealthIsConsistent' /\ DebtHoldsBack' /\ debt' = HealthyTicks
      /\ engine'.status = "DEGRADADO"
  BY <1>1, DegradeKeeps
<1>6. DebtIsCounted'
  BY <1>2, <1>5, NewWorker, TicksAssumption DEF DebtIsCounted
<1>7. Stopped' /\ NothingAfterClose'
  BY <1>2 DEF Stopped, NothingAfterClose, TypeOK
<1> QED
  BY <1>3, <1>4, <1>5, <1>6, <1>7

\* After the result is collected no tick is in flight.
LEMMA CollectedType ==
  ASSUME EngineInv, Collected
  PROVE  /\ tick' \in [Slots -> Tick]
         /\ \A s \in Slots : tick'[s].pc = "idle"
         /\ OneTickAtATime' /\ TickKnows'
         /\ inFlight \in Slots /\ tick[inFlight] \in Tick /\ inFlight' = NoSlot
<1> USE DEF EngineInv, Collected
<1>1. inFlight \in Slots /\ tick[inFlight] \in Tick /\ inFlight' = NoSlot
  BY DEF TypeOK
<1>2. NoTick \in Tick /\ NoTick.pc = "idle"
  BY FirstSymbol DEF NoTick, Tick, TickPcs
<1>3. tick' \in [Slots -> Tick] /\ \A s \in Slots : tick'[s].pc = "idle"
  BY <1>1, <1>2 DEF TypeOK, OneTickAtATime
<1>4. OneTickAtATime' /\ TickKnows'
  BY <1>3 DEF OneTickAtATime, TickKnows
<1> QED
  BY <1>1, <1>3, <1>4

\* So does a tick that raised.
LEMMA TickRaisedKeeps == ASSUME EngineInv, TickRaised PROVE EngineInv'
<1> USE DEF EngineInv, TickRaised, coroutines, market
<1> DEFINE new == [engine EXCEPT !.status = "DEGRADADO", !.timeoutAlert = FALSE]
<1>1. new \in Engine /\ new.status = "DEGRADADO" /\ Degrade(new)
  BY DEF TypeOK, Engine, EngineStatus
<1> HIDE DEF new
<1>2. worker' = [pc |-> "paused", proven |-> 0]
  OBVIOUS
<1>3. TypeOK'
  BY <1>1, <1>2, DegradeKeeps, NewWorker, CollectedType DEF TypeOK
<1>4. OneTickAtATime' /\ TickKnows'
  BY CollectedType
<1>5. HealthIsConsistent' /\ DebtHoldsBack' /\ debt' = HealthyTicks
      /\ engine'.status = "DEGRADADO"
  BY <1>1, DegradeKeeps
<1>6. DebtIsCounted'
  BY <1>2, <1>5, NewWorker, TicksAssumption DEF DebtIsCounted
<1>7. worker.pc = "awaiting"
  BY DEF Collected
<1>8. Stopped' /\ NothingAfterClose'
  BY <1>2, <1>7 DEF Stopped, NothingAfterClose, TypeOK
<1> QED
  BY <1>3, <1>4, <1>5, <1>6, <1>8

\* A success pays one tick of the debt, and recovers only when nothing is left.
LEMMA TickReturnedKeeps == ASSUME EngineInv, TickReturned PROVE EngineInv'
<1> USE DEF EngineInv, TickReturned, coroutines, market
<1> DEFINE result == tick[inFlight].result
           proven == IF worker.proven < HealthyTicks THEN worker.proven + 1
                     ELSE HealthyTicks
           beaten == [engine EXCEPT !.timeoutAlert = FALSE, !.succeeded = TRUE,
                                    !.late = FALSE]
           cured  == [beaten EXCEPT !.status = "SAUDAVEL", !.degraded = FALSE,
                                    !.heartbeatAlert = FALSE]
           new    == IF Recovers(proven) THEN cured ELSE beaten
<1>1. worker.pc = "awaiting" /\ worker.proven \in 0 .. HealthyTicks
  BY DEF Collected, TypeOK
<1>2. proven \in 1 .. HealthyTicks /\ debt + worker.proven <= HealthyTicks
  BY <1>1, TicksAssumption DEF DebtIsCounted
<1>3. debt' = (IF debt > 0 THEN debt - 1 ELSE 0) /\ debt \in 0 .. HealthyTicks
  BY DEF TypeOK
<1>4. debt' \in 0 .. HealthyTicks /\ debt' + proven <= HealthyTicks
  BY <1>1, <1>2, <1>3, TicksAssumption
<1>5. Recovers(proven) => debt' = 0
  BY <1>1, <1>2, <1>3, TicksAssumption DEF Recovers, DebtIsCounted
<1>6. engine.status = "INICIANDO" => Recovers(proven)
  BY <1>2, TicksAssumption DEF Recovers
<1>7. /\ beaten \in Engine /\ beaten.status = engine.status
      /\ beaten.degraded = engine.degraded /\ ~beaten.late /\ ~beaten.timeoutAlert
  BY DEF TypeOK, Engine
<1> HIDE DEF beaten
<1>8. /\ cured \in Engine /\ cured.status = "SAUDAVEL" /\ ~cured.degraded
      /\ ~cured.late /\ ~cured.timeoutAlert
  BY <1>7 DEF Engine, EngineStatus
<1> HIDE DEF cured
<1>9. /\ new \in Engine /\ ~new.late /\ ~new.timeoutAlert
      /\ new.status # "INICIANDO"
      /\ new.status = "SAUDAVEL" => ~new.degraded /\ debt' = 0
      /\ ~new.degraded => ~engine.degraded \/ debt' = 0
  BY <1>3, <1>5, <1>6, <1>7, <1>8 DEF HealthIsConsistent
<1>10. /\ engine' = (IF result = "noData" THEN [new EXCEPT !.status = "PARADO"] ELSE new)
       /\ worker' = [pc |-> IF result = "noData" THEN "finished" ELSE "paused",
                     proven |-> proven]
       /\ flag' = (flag /\ ~Recovers(proven))
       /\ Collected /\ UNCHANGED <<boss, phase, health, turn, active>>
  BY DEF beaten, cured
<1> HIDE DEF new, proven, result, TickReturned
<1>11. /\ engine' \in Engine /\ ~engine'.late /\ ~engine'.timeoutAlert
       /\ engine'.status # "INICIANDO"
       /\ engine'.status = "SAUDAVEL" => ~engine'.degraded /\ debt' = 0
       /\ ~engine'.degraded => ~engine.degraded \/ debt' = 0
  BY <1>9, <1>10 DEF Engine, EngineStatus
<1>12. TypeOK'
  BY <1>2, <1>4, <1>10, <1>11, CollectedType DEF TypeOK
<1>13. OneTickAtATime' /\ TickKnows'
  BY <1>10, CollectedType
<1>14. HealthIsConsistent' /\ DebtIsCounted'
  BY <1>4, <1>10, <1>11 DEF HealthIsConsistent, DebtIsCounted
<1>15. DebtHoldsBack'
  BY <1>3, <1>11 DEF DebtHoldsBack
<1>16. Stopped' /\ NothingAfterClose'
  BY <1>1, <1>10 DEF Stopped, NothingAfterClose, TypeOK
<1> QED
  BY <1>12, <1>13, <1>14, <1>15, <1>16

\* A worker that dies leaves everything as it is.
LEMMA WorkerDiesKeeps == ASSUME EngineInv, WorkerDies PROVE EngineInv'
<1> USE DEF EngineInv, WorkerDies, coroutines, market
<1>1. TypeOK'
  BY DEF TypeOK
<1>2. OneTickAtATime' /\ TickKnows'
  BY DEF OneTickAtATime, TickKnows
<1>3. HealthIsConsistent' /\ DebtIsCounted' /\ DebtHoldsBack'
  BY DEF HealthIsConsistent, DebtIsCounted, DebtHoldsBack, TypeOK, PortfolioHealthy
<1>4. Stopped' /\ NothingAfterClose'
  BY DEF Stopped, NothingAfterClose, TypeOK
<1> QED
  BY <1>1, <1>2, <1>3, <1>4

-----------------------------------------------------------------------------
(* The supervisor and the shutdown *)

\* Only the age of the heartbeat changes, before anything was proven.
LEMMA HeartbeatAgesKeeps == ASSUME EngineInv, HeartbeatAges PROVE EngineInv'
<1> USE DEF EngineInv, HeartbeatAges, coroutines, market
<1>1. /\ engine' \in Engine
      /\ engine'.status = engine.status /\ engine'.degraded = engine.degraded
      /\ engine'.timeoutAlert = engine.timeoutAlert
  BY DEF TypeOK, Engine
<1>2. TypeOK'
  BY <1>1 DEF TypeOK
<1>3. OneTickAtATime' /\ TickKnows'
  BY DEF OneTickAtATime, TickKnows
<1>4. HealthIsConsistent' /\ DebtIsCounted' /\ DebtHoldsBack'
  BY <1>1 DEF HealthIsConsistent, DebtIsCounted, DebtHoldsBack, TypeOK, PortfolioHealthy
<1>5. Stopped' /\ NothingAfterClose'
  BY DEF Stopped, NothingAfterClose
<1> QED
  BY <1>2, <1>3, <1>4, <1>5

\* An expired heartbeat is an incident; the worker had proven nothing.
LEMMA HeartbeatExpiredKeeps == ASSUME EngineInv, HeartbeatExpired PROVE EngineInv'
<1> USE DEF EngineInv, HeartbeatExpired, coroutines, market
<1> DEFINE new == [engine EXCEPT !.heartbeatAlert = TRUE, !.status = "PARADO"]
<1>1. new \in Engine /\ new.status = "PARADO" /\ new.late /\ Degrade(new)
  BY DEF TypeOK, Engine, EngineStatus
<1> HIDE DEF new
<1>3. TypeOK'
  BY <1>1, DegradeKeeps DEF TypeOK
<1>4. OneTickAtATime' /\ TickKnows'
  BY <1>1, DegradeKeeps DEF OneTickAtATime, TickKnows
<1>5. HealthIsConsistent' /\ DebtHoldsBack' /\ debt' = HealthyTicks
      /\ engine'.status = "PARADO"
  BY <1>1, DegradeKeeps
<1>6. worker.pc \in {"paused", "awaiting"} => worker.proven = 0
  BY DEF DebtIsCounted
<1>7. DebtIsCounted'
  BY <1>5, <1>6, TicksAssumption DEF DebtIsCounted
<1>8. Stopped' /\ NothingAfterClose'
  BY DEF Stopped, NothingAfterClose, TypeOK
<1> QED
  BY <1>3, <1>4, <1>5, <1>7, <1>8

\* A heartbeat that is back takes nothing from the debt.
LEMMA HeartbeatBackKeeps == ASSUME EngineInv, HeartbeatBack PROVE EngineInv'
<1> USE DEF EngineInv, HeartbeatBack, coroutines, market
<1>1. /\ engine' \in Engine /\ engine'.late = engine.late
      /\ engine'.status = engine.status /\ engine'.degraded = engine.degraded
      /\ engine'.timeoutAlert = engine.timeoutAlert
  BY DEF TypeOK, Engine
<1>2. TypeOK'
  BY <1>1 DEF TypeOK
<1>3. OneTickAtATime' /\ TickKnows'
  BY DEF OneTickAtATime, TickKnows
<1>4. HealthIsConsistent' /\ DebtIsCounted' /\ DebtHoldsBack'
  BY <1>1 DEF HealthIsConsistent, DebtIsCounted, DebtHoldsBack, TypeOK, PortfolioHealthy
<1>5. Stopped' /\ NothingAfterClose'
  BY DEF Stopped, NothingAfterClose
<1> QED
  BY <1>2, <1>3, <1>4, <1>5

\* The death of the worker is an incident.
LEMMA DeathNoticedKeeps == ASSUME EngineInv, DeathNoticed PROVE EngineInv'
<1> USE DEF EngineInv, DeathNoticed, coroutines, market
<1> DEFINE new == [engine EXCEPT !.status = "PARADO"]
<1>1. new \in Engine /\ new.status = "PARADO" /\ Degrade(new)
  BY DEF TypeOK, Engine, EngineStatus
<1> HIDE DEF new
<1>3. TypeOK'
  BY <1>1, DegradeKeeps DEF TypeOK
<1>4. OneTickAtATime' /\ TickKnows'
  BY <1>1, DegradeKeeps DEF OneTickAtATime, TickKnows
<1>5. HealthIsConsistent' /\ DebtHoldsBack' /\ engine'.status = "PARADO"
  BY <1>1, DegradeKeeps
<1>6. DebtIsCounted'
  BY <1>5 DEF DebtIsCounted
<1>7. Stopped' /\ NothingAfterClose'
  BY DEF Stopped, NothingAfterClose, TypeOK
<1> QED
  BY <1>3, <1>4, <1>5, <1>6, <1>7

\* The new worker starts from nothing, and the debt stays.
LEMMA RestartKeeps == ASSUME EngineInv, RestartWorker PROVE EngineInv'
<1> USE DEF EngineInv, RestartWorker, coroutines, market
<1>1. /\ engine' \in Engine
      /\ engine'.status = engine.status /\ engine'.degraded = engine.degraded
      /\ engine'.timeoutAlert = engine.timeoutAlert
  BY DEF TypeOK, Engine
<1>2. TypeOK'
  BY <1>1, NewWorker DEF TypeOK
<1>3. OneTickAtATime' /\ TickKnows'
  BY DEF OneTickAtATime, TickKnows
<1>4. HealthIsConsistent' /\ DebtHoldsBack'
  BY <1>1 DEF HealthIsConsistent, DebtHoldsBack, PortfolioHealthy
<1>5. DebtIsCounted'
  BY <1>1, NewWorker, TicksAssumption DEF DebtIsCounted, TypeOK
<1>6. Stopped' /\ NothingAfterClose'
  BY DEF Stopped, NothingAfterClose, TypeOK
<1> QED
  BY <1>2, <1>3, <1>4, <1>5, <1>6

\* The supervisor of a finished replay just ends.
LEMMA ReplayOverKeeps == ASSUME EngineInv, ReplayOver PROVE EngineInv'
<1> USE DEF EngineInv, ReplayOver, coroutines, market
<1>1. TypeOK'
  BY DEF TypeOK
<1>2. OneTickAtATime' /\ TickKnows'
  BY DEF OneTickAtATime, TickKnows
<1>3. HealthIsConsistent' /\ DebtIsCounted' /\ DebtHoldsBack'
  BY DEF HealthIsConsistent, DebtIsCounted, DebtHoldsBack, PortfolioHealthy
<1>4. Stopped' /\ NothingAfterClose'
  BY DEF Stopped, NothingAfterClose
<1> QED
  BY <1>1, <1>2, <1>3, <1>4

\* The shutdown goes on only when the supervisor is over.
LEMMA StopKeeps == ASSUME EngineInv, Stop \/ LoopOver PROVE EngineInv'
<1> USE DEF EngineInv, Stop, LoopOver, coroutines, market
<1>1. /\ phase' \in {"stopping", "waiting"} /\ (phase' = "waiting" => boss = "over")
      /\ UNCHANGED <<engine, worker, boss, inFlight, tick, market, flag, debt>>
  OBVIOUS
<1>2. TypeOK'
  BY <1>1 DEF TypeOK
<1>3. OneTickAtATime' /\ TickKnows'
  BY <1>1 DEF OneTickAtATime, TickKnows
<1>4. HealthIsConsistent' /\ DebtIsCounted' /\ DebtHoldsBack'
  BY <1>1 DEF HealthIsConsistent, DebtIsCounted, DebtHoldsBack, PortfolioHealthy
<1>5. Stopped' /\ NothingAfterClose'
  BY <1>1 DEF Stopped, NothingAfterClose
<1> QED
  BY <1>2, <1>3, <1>4, <1>5

\* A cancelled worker hands out nothing any more; its tick goes on.
LEMMA LoopCancelledKeeps == ASSUME EngineInv, LoopCancelled PROVE EngineInv'
<1> USE DEF EngineInv, LoopCancelled, coroutines, market
<1>1. /\ engine' \in Engine /\ engine'.status = "ENCERRANDO"
      /\ engine'.degraded = engine.degraded
  BY DEF TypeOK, Engine, EngineStatus
<1>2. /\ worker' \in [pc : {"finished", "dead", "cancelled"}, proven : 0 .. HealthyTicks]
      /\ worker'.pc \in {"finished", "dead", "cancelled"}
  BY DEF TypeOK
<1>3. TypeOK'
  BY <1>1, <1>2 DEF TypeOK
<1>4. OneTickAtATime' /\ TickKnows'
  BY DEF OneTickAtATime, TickKnows
<1>5. HealthIsConsistent' /\ DebtIsCounted' /\ DebtHoldsBack'
  BY <1>1, <1>2 DEF HealthIsConsistent, DebtIsCounted, DebtHoldsBack, PortfolioHealthy
<1>6. Stopped' /\ NothingAfterClose'
  BY <1>2 DEF Stopped, NothingAfterClose
<1> QED
  BY <1>3, <1>4, <1>5, <1>6

\* The last transaction waits for the tick in flight, and there is no other.
LEMMA CloseKeeps == ASSUME EngineInv, Close PROVE EngineInv'
<1> USE DEF EngineInv, Close, coroutines, market
<1>1. \A s \in Symbols : /\ health[s] \in Health
                         /\ [health[s] EXCEPT !.status = "ENCERRANDO"] \in Health
                         /\ [health[s] EXCEPT !.status = "ENCERRANDO"].status = "ENCERRANDO"
  BY DEF TypeOK, Health, SymbolStatus
<1>2. /\ health' \in [Symbols -> Health]
      /\ \A s \in Symbols : health'[s].status = "ENCERRANDO"
  BY <1>1
<1>3. TypeOK'
  BY <1>2 DEF TypeOK
<1>4. OneTickAtATime' /\ TickKnows'
  BY DEF OneTickAtATime, TickKnows
<1>5. \A s \in Slots : ~Running(tick[s])
  BY SlotsAssumption DEF InFlightOver, OneTickAtATime, Running
<1>6. ~PortfolioHealthy'
  BY <1>2, FirstSymbol DEF PortfolioHealthy, Healthy
<1>7. HealthIsConsistent' /\ DebtIsCounted' /\ DebtHoldsBack'
  BY <1>6 DEF HealthIsConsistent, DebtIsCounted, DebtHoldsBack
<1>8. Stopped' /\ NothingAfterClose'
  BY <1>2, <1>5 DEF Stopped, NothingAfterClose
<1> QED
  BY <1>3, <1>4, <1>7, <1>8

-----------------------------------------------------------------------------
(* The tick in its thread *)

\* A tick on its way needs a process that is not closed: after the last transaction
\* none is left to take a step.
LEMMA NotClosed ==
  ASSUME EngineInv, NEW s \in Slots, Running(tick[s])
  PROVE  phase # "closed"
  BY DEF EngineInv, NothingAfterClose

\* A step of a tick that leaves it handed out, and leaves the other state to which
\* the invariant refers, keeps all but what the tick knows of itself.
LEMMA TickStepKeeps ==
  ASSUME EngineInv, NEW s \in Slots, NEW t \in Tick, Step(s, t),
         tick[s].pc \notin {"idle", "over"},
         flag' \in BOOLEAN, turn' \in 0 .. Len(SymbolOrder) - 1,
         UNCHANGED <<engine, coroutines, health, active, debt>>,
         t.pc = "syncing" /\ ~t.degraded => t.sound,
         t.pc \in {"reading", "writing"} /\ ~flag' => t.sound,
         t.pc = "entering" => t.sound
  PROVE  EngineInv'
<1> USE DEF EngineInv, coroutines
<1>1. /\ tick' \in [Slots -> Tick] /\ tick'[s] = t
      /\ \A other \in Slots \ {s} : tick'[other].pc = "idle"
      /\ inFlight' = s
  BY StepType, OnlyTick
<1>2. TypeOK'
  BY <1>1 DEF TypeOK
<1>3. OneTickAtATime' /\ TickKnows'
  BY <1>1 DEF OneTickAtATime, TickKnows
<1>4. \A other \in Slots : tick[other].pc # "over"
  BY OnlyTick
<1>5. HealthIsConsistent' /\ DebtIsCounted' /\ DebtHoldsBack'
  BY <1>4 DEF HealthIsConsistent, DebtIsCounted, DebtHoldsBack, PortfolioHealthy
<1>6. Stopped' /\ NothingAfterClose'
  BY NotClosed DEF Stopped, NothingAfterClose, Running
<1> QED
  BY <1>2, <1>3, <1>5, <1>6

\* A tick that begins sees a healthy engine only if nothing is owed.
LEMMA TurnKeeps == ASSUME EngineInv, NEW s \in Slots, Turn(s) PROVE EngineInv'
<1> USE DEF EngineInv, coroutines, market
<1>1. PICK i \in Awake :
        /\ Step(s, [tick[s] EXCEPT !.pc = "syncing", !.symbol = After(i),
                                   !.degraded = engine.degraded \/ ~PortfolioHealthy,
                                   !.sound = debt = 0 /\ PortfolioHealthy])
        /\ turn' = (turn + i + 1) % Len(SymbolOrder)
  BY DEF Turn
<1>2. /\ tick[s].pc = "queued"
      /\ UNCHANGED <<engine, coroutines, health, active, flag, debt>>
  BY DEF Turn
<1>3. i \in Nat /\ After(i) \in Symbols
  BY AfterIsSymbol, FirstSymbol DEF Awake
<1>4. turn + i + 1 \in Nat
  BY <1>3, FirstSymbol DEF TypeOK
<1>5. turn' \in 0 .. Len(SymbolOrder) - 1
  BY <1>1, <1>4, TurnRange
<1>6. ~engine.degraded /\ PortfolioHealthy => debt = 0
  BY <1>2, OnlyTick DEF DebtHoldsBack, TypeOK
<1> DEFINE t == [tick[s] EXCEPT !.pc = "syncing", !.symbol = After(i),
                                !.degraded = engine.degraded \/ ~PortfolioHealthy,
                                !.sound = debt = 0 /\ PortfolioHealthy]
<1>7. tick[s] \in Tick /\ engine.degraded \in BOOLEAN
  BY DEF TypeOK, Engine
<1>8. t \in Tick /\ t.pc = "syncing" /\ t.degraded = (engine.degraded \/ ~PortfolioHealthy)
      /\ t.sound = (debt = 0 /\ PortfolioHealthy)
  BY <1>3, <1>7 DEF Tick, TickPcs, PortfolioHealthy
<1>9. Step(s, t)
  BY <1>1
<1> HIDE DEF t
<1>10. flag' \in BOOLEAN
  BY <1>2 DEF TypeOK
<1> QED
  BY <1>2, <1>5, <1>6, <1>8, <1>9, <1>10, TickStepKeeps

\* A turn nobody takes ends at once.
LEMMA NobodyKeeps == ASSUME EngineInv, NEW s \in Slots, NobodysTurn(s) PROVE EngineInv'
<1> USE DEF EngineInv, NobodysTurn, coroutines, market
<1> DEFINE t == [tick[s] EXCEPT !.pc = "over", !.result = "cooldown"]
<1>1. t \in Tick /\ t.pc = "over" /\ Step(s, t)
  BY DEF TypeOK, Tick, TickPcs
<1> HIDE DEF t
<1> QED
  BY <1>1, TickStepKeeps DEF TypeOK

\* The flag is what the tick has read; no other tick looks at it.
LEMMA SyncKeeps == ASSUME EngineInv, NEW s \in Slots, Sync(s) PROVE EngineInv'
<1> USE DEF EngineInv, Sync, coroutines, market
<1> DEFINE t == [tick[s] EXCEPT !.pc = "reading"]
<1>1. t \in Tick /\ t.pc = "reading" /\ t.sound = tick[s].sound /\ Step(s, t)
  BY DEF TypeOK, Tick, TickPcs
<1>2. flag' = tick[s].degraded /\ flag' \in BOOLEAN
  BY DEF TypeOK, Tick
<1>3. ~flag' => tick[s].sound
  BY <1>2 DEF TickKnows
<1> HIDE DEF t
<1> QED
  BY <1>1, <1>2, <1>3, TickStepKeeps DEF TypeOK

\* Taking the lock changes nothing of what the tick knows.
LEMMA FirstWriteKeeps == ASSUME EngineInv, NEW s \in Slots, FirstWrite(s) PROVE EngineInv'
<1> USE DEF EngineInv, FirstWrite, coroutines, market
<1> DEFINE t == [tick[s] EXCEPT !.pc = "writing"]
<1>1. t \in Tick /\ t.pc = "writing" /\ t.sound = tick[s].sound /\ Step(s, t)
  BY DEF TypeOK, Tick, TickPcs
<1>2. ~flag' => tick[s].sound
  BY DEF TickKnows
<1> HIDE DEF t
<1> QED
  BY <1>1, <1>2, TickStepKeeps DEF TypeOK

\* An entry is let through only where the flag is down.
LEMMA EnterKeeps == ASSUME EngineInv, NEW s \in Slots, Enter(s) PROVE EngineInv'
<1> USE DEF EngineInv, Enter, coroutines, market
<1> DEFINE t == [tick[s] EXCEPT !.pc = "entering"]
<1>1. t \in Tick /\ t.pc = "entering" /\ t.sound = tick[s].sound /\ Step(s, t)
  BY DEF TypeOK, Tick, TickPcs
<1>2. tick[s].sound
  BY DEF TickKnows
<1> HIDE DEF t
<1> QED
  BY <1>1, <1>2, TickStepKeeps DEF TypeOK

\* What a tick reports is one of the results.
LEMMA ReturnKeeps == ASSUME EngineInv, NEW s \in Slots, Return(s) PROVE EngineInv'
<1> USE DEF EngineInv, Return, coroutines, market
<1>1. PICK result \in Reports :
        Step(s, [tick[s] EXCEPT !.pc = "returning", !.result = result])
  OBVIOUS
<1> DEFINE t == [tick[s] EXCEPT !.pc = "returning", !.result = result]
<1>2. t \in Tick /\ t.pc = "returning" /\ Step(s, t)
  BY <1>1, ReportsAssumption DEF TypeOK, Tick, TickPcs
<1> HIDE DEF t
<1> QED
  BY <1>2, TickStepKeeps DEF TypeOK, Writing

\* A tick that raises says so, whatever it was about.
LEMMA RaiseKeeps == ASSUME EngineInv, NEW s \in Slots, Raise(s) PROVE EngineInv'
<1> USE DEF EngineInv, Raise, coroutines, market
<1> DEFINE t == [tick[s] EXCEPT !.pc = "over", !.result = "raised"]
<1>1. t \in Tick /\ t.pc = "over" /\ Step(s, t)
  BY DEF TypeOK, Tick, TickPcs
<1> HIDE DEF t
<1> QED
  BY <1>1, TickStepKeeps DEF TypeOK, Writing

\* The result reaches the health of its symbol with the end of the tick.
LEMMA UpdateHealthKeeps ==
  ASSUME EngineInv, NEW s \in Slots, UpdateHealth(s) PROVE EngineInv'
<1> USE DEF EngineInv, UpdateHealth, coroutines, market
<1> DEFINE t == [tick[s] EXCEPT !.pc = "over"]
<1>1. t \in Tick /\ t.pc = "over" /\ Step(s, t)
  BY DEF TypeOK, Tick, TickPcs
<1> HIDE DEF t
<1>2. /\ tick' \in [Slots -> Tick] /\ tick'[s].pc = "over"
      /\ \A other \in Slots \ {s} : tick'[other].pc = "idle"
      /\ inFlight' = s
  BY <1>1, StepType, OnlyTick
<1>3. tick[s].symbol \in Symbols /\ health[tick[s].symbol] \in Health
  BY DEF TypeOK, Tick
<1>4. health' \in [Symbols -> Health]
  BY <1>3, AfterTickType DEF TypeOK
<1>5. TypeOK'
  BY <1>2, <1>4 DEF TypeOK
<1>6. OneTickAtATime' /\ TickKnows'
  BY <1>2 DEF OneTickAtATime, TickKnows
<1>7. HealthIsConsistent' /\ DebtIsCounted' /\ DebtHoldsBack'
  BY <1>2 DEF HealthIsConsistent, DebtIsCounted, DebtHoldsBack
<1>8. Stopped' /\ NothingAfterClose'
  BY NotClosed DEF Stopped, NothingAfterClose, Running
<1> QED
  BY <1>5, <1>6, <1>7, <1>8

\* A symbol that has rested is as healthy as before.
LEMMA RestedKeeps == ASSUME EngineInv, NEW s \in Symbols, Rested(s) PROVE EngineInv'
<1> USE DEF EngineInv, Rested, coroutines, market
<1>1. /\ health' \in [Symbols -> Health]
      /\ \A symbol \in Symbols : /\ health'[symbol].status = health[symbol].status
                                 /\ health'[symbol].gap = health[symbol].gap
  BY DEF TypeOK, Health
<1>2. PortfolioHealthy' <=> PortfolioHealthy
  BY <1>1 DEF PortfolioHealthy, Healthy
<1>3. TypeOK'
  BY <1>1 DEF TypeOK
<1>4. OneTickAtATime' /\ TickKnows'
  BY DEF OneTickAtATime, TickKnows
<1>5. HealthIsConsistent' /\ DebtIsCounted' /\ DebtHoldsBack'
  BY <1>2 DEF HealthIsConsistent, DebtIsCounted, DebtHoldsBack
<1>6. Stopped' /\ NothingAfterClose'
  BY <1>1 DEF Stopped, NothingAfterClose
<1> QED
  BY <1>3, <1>4, <1>5, <1>6

\* Nothing is activated after the process has closed.
LEMMA ActivateKeeps == ASSUME EngineInv, Activate PROVE EngineInv'
<1> USE DEF EngineInv, Activate, coroutines, market
<1>1. TypeOK'
  BY DEF TypeOK
<1>2. OneTickAtATime' /\ TickKnows'
  BY DEF OneTickAtATime, TickKnows
<1>3. HealthIsConsistent' /\ DebtIsCounted' /\ DebtHoldsBack'
  BY DEF HealthIsConsistent, DebtIsCounted, DebtHoldsBack, PortfolioHealthy
<1>4. Stopped' /\ NothingAfterClose'
  BY DEF Stopped, NothingAfterClose
<1> QED
  BY <1>1, <1>2, <1>3, <1>4

-----------------------------------------------------------------------------
(* The invariant *)

\* A new engine owes one tick, and its symbols have not been served.
LEMMA InitHolds == Init => EngineInv
<1> SUFFICES ASSUME Init PROVE EngineInv
  OBVIOUS
<1> USE DEF Init
<1>1. NoTick \in Tick /\ NoTick.pc = "idle"
  BY FirstSymbol DEF NoTick, Tick, TickPcs
<1>2. FreshEngine \in Engine
  BY DEF FreshEngine, Engine, EngineStatus
<1>3. FreshHealth \in Health
  BY ThresholdAssumption DEF FreshHealth, Health, SymbolStatus
<1>4. 0 \in 0 .. HealthyTicks /\ 1 \in 0 .. HealthyTicks /\ 0 \in 0 .. Len(SymbolOrder) - 1
  BY TicksAssumption, FirstSymbol
<1>5. TypeOK
  BY <1>1, <1>2, <1>3, <1>4 DEF TypeOK
<1>6. OneTickAtATime /\ TickKnows
  BY <1>1 DEF OneTickAtATime, TickKnows
<1>7. ~PortfolioHealthy
  BY FirstSymbol DEF PortfolioHealthy, Healthy, FreshHealth
<1>8. HealthIsConsistent /\ DebtIsCounted /\ DebtHoldsBack
  BY <1>7, TicksAssumption
     DEF HealthIsConsistent, DebtIsCounted, DebtHoldsBack, FreshEngine
<1>9. Stopped /\ NothingAfterClose
  BY DEF Stopped, NothingAfterClose
<1> QED
  BY <1>5, <1>6, <1>8, <1>9 DEF EngineInv

\* Every step keeps the invariant.
LEMMA NextKeeps == EngineInv /\ [Next]_vars => EngineInv'
<1> SUFFICES ASSUME EngineInv, [Next]_vars PROVE EngineInv'
  OBVIOUS
<1>1. CASE WorkerStep
  BY <1>1, SubmitKeeps, AwaitKeeps, TimedOutKeeps, TickRaisedKeeps, TickReturnedKeeps,
     WorkerDiesKeeps DEF WorkerStep
<1>2. CASE BossStep
  BY <1>2, HeartbeatExpiredKeeps, HeartbeatBackKeeps, DeathNoticedKeeps, RestartKeeps,
     ReplayOverKeeps DEF BossStep
<1>3. CASE ShutdownStep
  BY <1>3, StopKeeps, LoopCancelledKeeps, CloseKeeps DEF ShutdownStep
<1>4. CASE HeartbeatAges
  BY <1>4, HeartbeatAgesKeeps
<1>5. ASSUME NEW s \in Slots, TickStep(s) PROVE EngineInv'
  BY <1>5, TurnKeeps, NobodyKeeps, SyncKeeps, FirstWriteKeeps, EnterKeeps, ReturnKeeps,
     UpdateHealthKeeps, RaiseKeeps DEF TickStep
<1>6. ASSUME NEW s \in Symbols, Rested(s) PROVE EngineInv'
  BY <1>6, RestedKeeps
<1>7. CASE Activate
  BY <1>7, ActivateKeeps
<1>8. CASE UNCHANGED vars
  BY <1>8 DEF vars, EngineInv, TypeOK, OneTickAtATime, HealthIsConsistent, DebtIsCounted,
     DebtHoldsBack, PortfolioHealthy, TickKnows, Stopped, NothingAfterClose
<1> QED
  BY <1>1, <1>2, <1>3, <1>4, <1>5, <1>6, <1>7, <1>8 DEF Next

\* The inductive invariant of the engine holds in every behaviour of it.
THEOREM EngineSafe == Spec => []EngineInv
<1> QED
  BY InitHolds, NextKeeps, PTL DEF Spec

\* However ticks time out and workers are restarted, there is one tick at a time
\* (poll_worker keeps the pending future).
THEOREM TicksAlone == Spec => []OneTickAtATime
<1>1. EngineInv => OneTickAtATime
  BY DEF EngineInv
<1> QED
  BY <1>1, EngineSafe, PTL

\* After the final reconciliation nothing of a tick happens (_graceful_shutdown).
THEOREM ClosedForGood == Spec => []NothingAfterClose
<1>1. EngineInv => NothingAfterClose
  BY DEF EngineInv
<1> QED
  BY <1>1, EngineSafe, PTL

\* A position is opened only by a tick that began when the engine had made up for
\* its last incident and every symbol was healthy (engine_degraded).
THEOREM EntriesEarned == Spec => []EntriesAreEarned
<1>1. EngineInv => EntriesAreEarned
  BY DEF EngineInv, TickKnows, EntriesAreEarned
<1> QED
  BY <1>1, EngineSafe, PTL

\* SAUDAVEL is shown only by an engine that owes nothing and holds nothing back.
THEOREM HealthConsistent == Spec => []HealthIsConsistent
<1>1. EngineInv => HealthIsConsistent
  BY DEF EngineInv
<1> QED
  BY <1>1, EngineSafe, PTL
=============================================================================

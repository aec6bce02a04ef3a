------------------------------ MODULE Portfolio ------------------------------
(***************************************************************************)
(* Several symbols over one portfolio in the paper modes: the limits that  *)
(* the risk engine asks of an entry (exposure, size, losses, cooldown),    *)
(* the positions in the database, and the book that the paper engine keeps *)
(* in memory in the place of an exchange.  An order fills at once, inside  *)
(* submit(); the tick that submitted it may still be undone, and then the  *)
(* book holds what the database does not.                                  *)
(*                                                                         *)
(* One price is enough: what matters is that an order is sized before its  *)
(* fill and pays the slippage.  Which signals come, and whether freshness, *)
(* costs or the health of the engine refuse them, is arbitrary.            *)
(***************************************************************************)
EXTENDS SystemGate, Sequences, FiniteSets, FiniteSetsExt

CONSTANTS
  Symbols,          \* settings.symbols
  Price, Slip,      \* reference price of every order; slippage on it
  MaxPosition,      \* RiskLimits.max_position_usd
  MaxExposure,      \* RiskLimits.max_total_exposure_usd
  MinNotional,      \* RiskLimits.min_order_notional_usd
  MaxConcurrent,    \* RiskLimits.max_concurrent_positions
  MaxDailyLoss,     \* RiskLimits.max_daily_loss_usd, in losing trades
  LossesToCool,     \* settings.risk_cooldown_after_losses
  CooldownTime,     \* settings.risk_cooldown_minutes
  DayLength,
  MaxTime, MaxTrades, MaxFaults   \* bounds on the clock, on closed positions, on undone ticks

ASSUME PriceAssumption == Slip \in Nat /\ Price \in Nat /\ Price > Slip
ASSUME LimitsAssumption ==
  /\ {MaxPosition, MaxExposure, MaxConcurrent, MaxDailyLoss, CooldownTime} \subseteq Nat
  /\ MinNotional \in Nat \ {0} /\ LossesToCool \in Nat \ {0} /\ DayLength \in Nat \ {0}
  /\ {MaxTime, MaxTrades, MaxFaults} \subseteq Nat
ASSUME SymbolsAssumption == IsFiniteSet(Symbols)

VARIABLES
  now,      \* the clock
  db,       \* the committed rows
  book,     \* PaperLocalExecutionEngine._positions
  undone,   \* history: the symbols whose order outlived its tick, in this life
  faults    \* history: ticks undone so far

vars == <<now, db, book, undone, faults>>

-----------------------------------------------------------------------------
(* State *)

Side == {"BUY", "SELL"}
Opposite == [BUY |-> "SELL", SELL |-> "BUY"]

\* An open position; notional is qty * avg_entry_price.  Of quantity 0: there is none.
Position == [side : Side \cup {"none"}, qty : Nat, notional : Nat]
Flat == [side |-> "none", qty |-> 0, notional |-> 0]
Proper(p) == p = Flat \/ (p.qty > 0 /\ p.side \in Side)

\* A closed row of positions
Trade == [symbol : Symbols, at : 0 .. MaxTime, lost : BOOLEAN]

\* losses and until are consecutive_losses and cooldown_until of system_state
Database ==
  [pos : [Symbols -> Position], trades : Seq(Trade), losses : Nat, until : Nat, gate : Gate]

open_positions(d) == {s \in Symbols : d.pos[s].qty > 0}
OpenExposure(d) == MapThenSumSet(LAMBDA s : d.pos[s].notional, open_positions(d))

Today(t) == t \div DayLength

\* daily_realized_loss_usd: over every symbol
LossesOn(d, day) == {i \in DOMAIN d.trades : d.trades[i].lost /\ Today(d.trades[i].at) = day}
DailyLoss(d) == Cardinality(LossesOn(d, Today(now)))

-----------------------------------------------------------------------------
(* Prices and sizes *)

\* PaperLocalExecutionEngine.submit
FillPrice(side) == IF side = "BUY" THEN Price + Slip ELSE Price - Slip

\* Seeded variant: sized at the price of the signal
signal_price(side) == Price

\* The risk engine's own estimate of it
adverse_fill_price(side) == IF side = "BUY" THEN Price + Slip ELSE Price - Slip

PositionUsd(d) ==
  LET remaining == MaxExposure - OpenExposure(d)
  IN  IF remaining < MaxPosition THEN remaining ELSE MaxPosition

\* Seeded variant: the daily loss may be at its limit
ApprovesAtLimit(d, s) ==
  /\ CommonGatesPass(d.gate) /\ d.gate.opstate = "ATIVO"
  /\ now >= d.until
  /\ DailyLoss(d) <= MaxDailyLoss
  /\ Cardinality(open_positions(d) \cap {s}) < MaxConcurrent
  /\ OpenExposure(d) < MaxExposure
  /\ PositionUsd(d) >= MinNotional

\* RiskEngine.evaluate, of an entry in s whose signal is good in itself
Approves(d, s) ==
  /\ CommonGatesPass(d.gate) /\ d.gate.opstate = "ATIVO"
  /\ now >= d.until
  /\ DailyLoss(d) < MaxDailyLoss
  /\ Cardinality(open_positions(d) \cap {s}) < MaxConcurrent
  /\ OpenExposure(d) < MaxExposure
  /\ PositionUsd(d) >= MinNotional

ApprovedQty(d, side) == PositionUsd(d) \div adverse_fill_price(side)

-----------------------------------------------------------------------------
(* The book in memory *)

Holding(side, qty) == [side |-> side, qty |-> qty]
Nothing == Holding("none", 0)

\* PaperLocalExecutionEngine._apply_to_position
apply_to_position(held, side, qty) ==
  CASE held = Nothing                              -> Holding(side, qty)
    [] held.side = side                            -> Holding(side, held.qty + qty)
    [] held.side = Opposite[side] /\ qty < held.qty -> Holding(held.side, held.qty - qty)
    [] held.side = Opposite[side] /\ qty = held.qty -> Nothing
    [] held.side = Opposite[side] /\ qty > held.qty -> Holding(side, qty - held.qty)

HeldOf(position) == Holding(position.side, position.qty)

\* Seeded variant: what the old list did not name stays
hydrate_merging(positions) ==
  [s \in Symbols |-> IF positions[s].qty > 0 THEN HeldOf(positions[s]) ELSE book[s]]

\* hydrate_positions: the whole book, from the open rows
hydrate_positions(positions) ==
  [s \in Symbols |-> IF positions[s].qty > 0 THEN HeldOf(positions[s]) ELSE Nothing]

-----------------------------------------------------------------------------
(* Reconciliation *)

\* _reconcile_positions_step, by the orchestrator of s: the open rows and s itself
PositionsAgree(d, held, s) ==
  \A x \in open_positions(d) \cup {s} : held[x] = HeldOf(d.pos[x])

\* reconcile(); the paper engine has no open orders
Reconciled(d, held, s) ==
  LET bad == ~ PositionsAgree(d, held, s) IN
  [d EXCEPT !.gate = Recompute([d.gate EXCEPT !.diverged = bad, !.ambiguous = bad,
                                              !.notReconciled = FALSE])]

\* A tick of s begins with one when the interval is over
Begun(s) == {db, Reconciled(db, book, s)}

-----------------------------------------------------------------------------
(* The rows after a fill *)

\* open_position, add_to_position
Increased(d, s, side, qty) ==
  [d EXCEPT !.pos[s] = [side |-> side, qty |-> @.qty + qty,
                        notional |-> @.notional + qty * FillPrice(side)]]

\* Seeded variant: the streak starts anew with the cooldown
CountedForgetful(d, lost) ==
  [d EXCEPT !.losses = IF lost /\ @ + 1 < LossesToCool THEN @ + 1 ELSE 0,
            !.until  = IF lost /\ d.losses + 1 >= LossesToCool THEN now + CooldownTime ELSE @]

\* consecutive_losses, cooldown_until
Counted(d, lost) ==
  LET losses == IF lost THEN d.losses + 1 ELSE 0 IN
  [d EXCEPT !.losses = losses,
            !.until  = IF losses >= LossesToCool THEN now + CooldownTime ELSE @]

\* close_position
Closed(d, s, lost) ==
  [d EXCEPT !.pos[s] = Flat,
            !.trades = Append(@, [symbol |-> s, at |-> now, lost |-> lost])]

-----------------------------------------------------------------------------
(* Ticks *)

\* submit() changes the book; the rows follow with the commit, or not at all
Submit(s, side, qty, rows) ==
  /\ book' = [book EXCEPT ![s] = apply_to_position(@, side, qty)]
  /\ \/ db' = rows /\ UNCHANGED <<undone, faults>>
     \/ /\ faults < MaxFaults /\ faults' = faults + 1
        /\ undone' = undone \cup {s} /\ db' = db
  /\ UNCHANGED now

\* A tick that orders nothing
Observe(s) ==
  /\ db' \in Begun(s)
  /\ UNCHANGED <<now, book, undone, faults>>

\* A stop, a target or an opposing signal closes the position of s
Close(s, lost) ==
  /\ s \in open_positions(db) /\ Len(db.trades) < MaxTrades
  /\ \E d \in Begun(s) :
       /\ CommonGatesPass(d.gate)
       /\ Submit(s, Opposite[d.pos[s].side], d.pos[s].qty, Counted(Closed(d, s, lost), lost))

\* A signal that does not oppose the position of s is approved
Enter(s, side) ==
  /\ db.pos[s].side # Opposite[side]
  /\ \E d \in Begun(s) :
       /\ Approves(d, s)
       /\ \E qty \in {ApprovedQty(d, side)} \cap (1 .. MaxPosition) :
            Submit(s, side, qty, Increased(d, s, side, qty))

-----------------------------------------------------------------------------
(* The operator, and the process *)

\* POST /operational-state/activate
Activate ==
  /\ ~ db.gate.blocked /\ ~ db.gate.notReconciled
  /\ db.gate.opstate = "OBSERVANDO"
  /\ db' = [db EXCEPT !.gate.opstate = "ATIVO"]
  /\ UNCHANGED <<now, book, undone, faults>>

\* build_orchestrator: hydrates the book, reconciles, comes up observing
Booted(d, held, s) ==
  LET checked == Reconciled(d, held, s) IN
  [checked EXCEPT !.gate.opstate = IF checked.gate.blocked THEN "BLOQUEADO" ELSE "OBSERVANDO"]

Restart ==
  /\ book' = hydrate_positions(db.pos)
  /\ \E s \in Symbols : db' = Booted(db, book', s)
  /\ undone' = {}
  /\ UNCHANGED <<now, faults>>

Clock ==
  /\ now < MaxTime
  /\ now' = now + 1
  /\ UNCHANGED <<db, book, undone, faults>>

Fresh ==
  [pos |-> [s \in Symbols |-> Flat], trades |-> <<>>, losses |-> 0, until |-> 0,
   gate |-> FreshGate]

\* The first boot has just ended
Init ==
  /\ now = 0
  /\ book = [s \in Symbols |-> Nothing]
  /\ \E s \in Symbols : db = Booted(Fresh, book, s)
  /\ undone = {} /\ faults = 0

Next ==
  \/ \E s \in Symbols :
       \/ Observe(s)
       \/ \E lost \in BOOLEAN : Close(s, lost)
       \/ \E side \in Side : Enter(s, side)
  \/ Activate \/ Restart \/ Clock

Spec == Init /\ [][Next]_vars

-----------------------------------------------------------------------------
(* Properties *)

\* Every variable has its type, and a row that is open has a side and a quantity.
TypeOK ==
  /\ now \in 0 .. MaxTime
  /\ db \in Database
  /\ \A s \in Symbols : Proper(db.pos[s])
  /\ book \in [Symbols -> {Nothing} \cup [side : Side, qty : Nat]]
  /\ undone \subseteq Symbols /\ faults \in 0 .. MaxFaults

\* What is held, at the prices it was filled at, never exceeds the exposure of the
\* portfolio, whichever symbols enter in whatever order and however often they add
\* (RiskEngine.evaluate sizes at the price the paper engine will fill at).
ExposureWithinLimit == OpenExposure(db) <= MaxExposure

\* The losses of one day, over all symbols, exceed the limit at most by those of the
\* positions that were open when it was reached: one for each symbol.
DailyLossIsBounded ==
  \A i \in DOMAIN db.trades :
    Cardinality(LossesOn(db, Today(db.trades[i].at))) < MaxDailyLoss + Cardinality(Symbols)

\* While the latest closings were all losses, and enough of them, nothing is entered
\* until the cooldown after the latest one is over, whichever symbols they were of, and
\* whatever restarts came between (_close_position_via_risk, cooldown_expired).
Cooling ==
  LET n == Len(db.trades) IN
  /\ n >= LossesToCool
  /\ \A i \in n - LossesToCool + 1 .. n : db.trades[i].lost
  /\ now < db.trades[n].at + CooldownTime

CooldownHolds ==
  [][\A s \in Symbols : db'.pos[s].qty > db.pos[s].qty => ~ Cooling]_vars

\* The book in memory is the database's positions, except for the symbols of which an
\* order outlived its tick since the last boot: restarts put it right, and no legal
\* sequence of entries, additions and closes sets the two apart (paper_local.py).
BookFollowsDatabase ==
  \A s \in Symbols \ undone : book[s] = HeldOf(db.pos[s])

-----------------------------------------------------------------------------
(* Why CooldownHolds does: the inductive invariant *)

\* The counters of system_state say what the closed rows say: the streak is that of the
\* latest rows, no more and no less, and one that is long enough has set the cooldown.
StreakIsCounted ==
  LET n == Len(db.trades) IN
  /\ db.losses <= n
  /\ \A i \in n - db.losses + 1 .. n : db.trades[i].lost
  /\ db.losses < n => ~ db.trades[n - db.losses].lost
  /\ db.losses >= LossesToCool => db.until >= db.trades[n].at + CooldownTime

PortfolioInv == TypeOK /\ BookFollowsDatabase /\ StreakIsCounted

-----------------------------------------------------------------------------
(* Why DailyLossIsBounded does *)

\* Every position that is open may still end in a loss of today: the two together stay
\* below the bound, because entries stop at the limit and a close turns one into the other.
LossesAreCovered ==
  /\ \A i \in DOMAIN db.trades : db.trades[i].at <= now
  /\ MaxDailyLoss = 0 => open_positions(db) = {}
  /\ DailyLoss(db) + Cardinality(open_positions(db)) < MaxDailyLoss + Cardinality(Symbols)

LimitsInv == ExposureWithinLimit /\ LossesAreCovered /\ DailyLossIsBounded
=============================================================================

--------------------------- MODULE OrderLifecycle ---------------------------
(***************************************************************************)
(* The life of the orders of one symbol in BYBIT_DEMO: the tick of the     *)
(* orchestrator, the emergency block ("kill switch"), boot and shutdown,   *)
(* against an exchange that moves on its own between any two HTTP calls.   *)
(*                                                                         *)
(* Every handler runs inside ONE database transaction (session_scope): it  *)
(* works on the copy w of the committed state db, and either commits all   *)
(* of w or, when anything raises or the process dies, none of it - while   *)
(* whatever it already asked of the exchange stays done.  SQLite lets at   *)
(* most one writer commit, so one transaction is in flight at a time and a *)
(* losing writer ("database is locked") is one more Rollback.              *)
(*                                                                         *)
(* Prices, fees and wording are abstracted; a fill is one unit of quantity *)
(* named by its number.  A position is a signed quantity: > 0 is BUY.      *)
(***************************************************************************)
EXTENDS OrderStatus, SystemGate, FiniteSets

CONSTANTS
  EntryKeys, CloseKeys,   \* idempotency keys of entry and of close decisions
  NoKey,
  EntrySides,             \* the sides the strategy may signal
  EntryQty,               \* the quantity of an entry, in fills
  MaxPositions,           \* settings.risk_max_concurrent_positions
  CancelRemainder,        \* partial_fill_policy is not "WAIT"
  ReportedSide,           \* how the exchange's answers spell "BUY" and "SELL"
  Disturbances            \* what may disturb the trading in this instance

Keys == EntryKeys \cup CloseKeys
Side == {"BUY", "SELL"}

ASSUME KeysAssumption == EntryKeys \cap CloseKeys = {} /\ NoKey \notin Keys
ASSUME EntryAssumption == EntrySides \subseteq Side /\ EntryQty \in Nat \ {0}
ASSUME PolicyAssumption == CancelRemainder \in BOOLEAN /\ MaxPositions \in Nat
ASSUME DisturbancesAssumption ==
  Disturbances \subseteq
    {"kill", "pause", "stop", "crash", "error", "market", "clock", "protection"}
ASSUME SpellingAssumption == ReportedSide \in [Side -> STRING]

VARIABLES
  db,      \* the committed database: order rows, position, system_state
  w,       \* the session of the transaction in flight (equal to db otherwise)
  txn,     \* which handler is running and how far it is
  venue,   \* the exchange's view of every order, by orderLinkId
  xpos     \* the exchange's net position

vars == <<db, w, txn, venue, xpos>>

-----------------------------------------------------------------------------
(* State *)

Sign(side) == IF side = "BUY" THEN 1 ELSE -1
SideOf(p)  == IF p > 0 THEN "BUY" ELSE "SELL"
Abs(i)     == IF i < 0 THEN -i ELSE i

\* A row of orders with its executions; id is exchange_order_id being set, and
\* pending is pending_exchange_status (fills_sync_status is PENDING exactly
\* when it is not "none").
Row ==
  [status : Status \cup {"ABSENT"}, id : BOOLEAN, close : BOOLEAN, side : Side,
   qty : Nat, execs : SUBSET (Nat \ {0}), pending : Terminal \cup {"none"}]

NoRow ==
  [status |-> "ABSENT", id |-> FALSE, close |-> FALSE, side |-> "BUY",
   qty |-> 0, execs |-> {}, pending |-> "none"]

\* held is a history variable: some recorded fill was not, or not wholly, applied
\* to the position, or to one that its order does not close (the code keeps no
\* flag of its own).
FreshDb ==
  [order |-> [k \in Keys |-> NoRow], pos |-> 0, held |-> FALSE, gate |-> FreshGate]

OpenVenue == {"New", "PartiallyFilled"}
DoneVenue == {"Filled", "Cancelled", "Rejected"}

NoOrder == [st |-> "none", side |-> "BUY", close |-> FALSE, qty |-> 0, filled |-> 0]

Kinds == {"down", "idle", "boot", "tick", "kill", "stop"}

Idle(kind) ==
  [kind |-> kind, pc |-> "none", todo |-> {}, cur |-> NoKey, seen |-> "none",
   verdict |-> "none", then |-> "none", after |-> "none"]

\* The steps that are about one order, which the others forget
AboutAnOrder == {"pollStatus", "pollFills", "policy", "cancel", "submit", "outcome"}

Goto(pc) ==
  txn' = IF pc \in AboutAnOrder
         THEN [txn EXCEPT !.pc = pc, !.seen = "none"]
         ELSE [txn EXCEPT !.pc = pc, !.seen = "none", !.cur = NoKey, !.then = "none"]

\* Mutant: the query for open orders forgets the UNKNOWN ones
LiveForgettingUnknown(d) ==
  {k \in Keys : d.order[k].status \in NonTerminal \ {"UNKNOWN"}}

Live(d)       == {k \in Keys : d.order[k].status \in NonTerminal}
Trackable(d)  == {k \in Live(d) : d.order[k].id}
OpenPositions(d) == IF d.pos = 0 THEN 0 ELSE 1
HasUnknown(d) == \E k \in Keys : d.order[k].status = "UNKNOWN"

-----------------------------------------------------------------------------
(* Applying what the exchange reports *)

Translate(st) ==
  CASE st = "New" -> "SUBMITTED"
    [] st = "PartiallyFilled" -> "PARTIALLY_FILLED"
    [] st = "Filled" -> "FILLED"
    [] st = "Cancelled" -> "CANCELLED"
    [] st = "Rejected" -> "REJECTED"
    [] OTHER -> "UNKNOWN"

NeedsFills(st) == Translate(st) \in {"PARTIALLY_FILLED", "FILLED", "CANCELLED"}

Snapshot(status, fills, complete) ==
  [status |-> status, fills |-> fills, complete |-> complete]

\* Mutants: an end is believed without its fills; the wrong status is noted
StatusSyncedEagerly(row, snap) ==
  IF CanMove(row.status, snap.status) THEN [row EXCEPT !.status = snap.status] ELSE row

StatusSyncedMisnoted(row, snap) ==
  IF snap.complete THEN [row EXCEPT !.status = snap.status]
  ELSE [row EXCEPT !.pending = row.status]

\* The status half of apply_order_snapshot: a terminal status whose fills are
\* not proved complete is only noted, an unexpected one becomes UNKNOWN.
StatusSynced(row, snap) ==
  CASE snap.status \in Terminal /\ ~snap.complete ->
         [row EXCEPT !.pending = snap.status]
    [] (snap.complete \/ snap.status \notin Terminal) /\ snap.status = row.status ->
         row
    [] OTHER ->
         IF CanMove(row.status, snap.status)
         THEN [row EXCEPT !.status = snap.status,
                          !.pending = IF snap.status \in Terminal THEN "none" ELSE @]
         ELSE IF row.status \in Terminal THEN row
         ELSE [row EXCEPT !.status = "UNKNOWN"]

\* Mutant: fills already on file are applied again
NewFillsRepeated(row, snap) == snap.fills

\* record_new_fills: only fills not on file yet are inserted and applied
NewFills(row, snap) == snap.fills \ row.execs

Opposes(pos, row) == pos # 0 /\ SideOf(pos) # row.side

\* The position after n new fills of the order in row
PositionAfter(pos, row, n) ==
  IF row.close
  THEN IF n >= Abs(pos) THEN 0 ELSE pos - Sign(SideOf(pos)) * n
  ELSE IF Opposes(pos, row) THEN pos ELSE pos + Sign(row.side) * n

\* A blocked opposite fill; a close fill with nothing left to close, or on a
\* position opened since on its own side, which it reduces all the same
FillsHeld(pos, row, n) ==
  n > 0 /\ IF row.close THEN n > Abs(pos) \/ ~Opposes(pos, row) ELSE Opposes(pos, row)

\* fill_service.apply_order_snapshot
Apply(d, k, snap) ==
  LET row   == d.order[k]
      n     == Cardinality(NewFills(row, snap))
      order == [d.order EXCEPT ![k] =
                  [StatusSynced(row, snap) EXCEPT !.execs = row.execs \cup snap.fills]]
      flags == [d.gate EXCEPT
                  !.ambiguous = @ \/ (n > 0 /\ ~row.close /\ Opposes(d.pos, row)),
                  !.unknown   = \E j \in Keys : order[j].status = "UNKNOWN"]
  IN [order |-> order,
      pos   |-> PositionAfter(d.pos, row, n),
      held  |-> d.held \/ FillsHeld(d.pos, row, n),
      gate  |-> Recompute(flags)]

SetStatus(d, k, s) == [d EXCEPT !.order[k].status = s]

-----------------------------------------------------------------------------
(* The exchange, which the code only sees through its answers *)

\* A reduce-only order fills only against an opposite position.
MayFill(o) ==
  o.st \in OpenVenue /\ (o.close => xpos # 0 /\ SideOf(xpos) # o.side)

VenueFill(k) ==
  LET o == venue[k] IN
  /\ MayFill(o)
  /\ venue' = [venue EXCEPT
       ![k] = [o EXCEPT !.filled = @ + 1,
                        !.st = IF o.filled + 1 = o.qty THEN "Filled" ELSE "PartiallyFilled"]]
  /\ xpos' = xpos + Sign(o.side)
  /\ UNCHANGED <<db, w, txn>>

\* On request, or because a market order found no more liquidity or (reduce
\* only) nothing left to reduce.
VenueCancel(k) ==
  /\ venue[k].st \in OpenVenue
  /\ venue' = [venue EXCEPT ![k].st = "Cancelled"]
  /\ UNCHANGED <<db, w, txn, xpos>>

VenueReject(k) ==
  /\ venue[k].st = "New"
  /\ venue' = [venue EXCEPT ![k].st = "Rejected"]
  /\ UNCHANGED <<db, w, txn, xpos>>

\* The stop-loss and take-profit sent along with an entry belong to the exchange,
\* which closes the position on its own when one is touched.
VenueProtect ==
  /\ "protection" \in Disturbances
  /\ xpos # 0
  /\ xpos' = 0
  /\ UNCHANGED <<db, w, txn, venue>>

VenueMoves ==
  VenueProtect \/ \E k \in Keys : VenueFill(k) \/ VenueCancel(k) \/ VenueReject(k)

-----------------------------------------------------------------------------
(* Transactions *)

Begin(kind, d, t) ==
  /\ w' = d
  /\ txn' = [t EXCEPT !.kind = kind]
  /\ UNCHANGED <<db, venue, xpos>>

At(pc) == txn.kind \notin {"idle", "down"} /\ txn.pc = pc

\* reconcile(): stamp, positions first, then orders; after is where it returns
Reconciling(t, after) ==
  [t EXCEPT !.pc = "reconPositions", !.after = after, !.cur = NoKey, !.then = "none"]

Polling(t, k, then) == [t EXCEPT !.pc = "pollStatus", !.cur = k, !.then = then]

Commit ==
  /\ At("commit")
  /\ db' = w
  /\ txn' = Idle(IF txn.kind = "stop" THEN "down" ELSE "idle")
  /\ UNCHANGED <<w, venue, xpos>>

\* The handler met an error of its own making
Failing == txn.pc \in {"illegalMove", "cancelRefused"}

\* An exception in the handler, or a commit refused by the database
Rollback ==
  /\ txn.kind \notin {"idle", "down"}
  /\ "error" \in Disturbances \/ Failing
  /\ w' = db
  /\ txn' = Idle(IF txn.kind \in {"boot", "stop"} THEN "down" ELSE "idle")
  /\ UNCHANGED <<db, venue, xpos>>

Crash ==
  /\ "crash" \in Disturbances
  /\ txn.kind # "down"
  /\ w' = db
  /\ txn' = Idle("down")
  /\ UNCHANGED <<db, venue, xpos>>

-----------------------------------------------------------------------------
(* poll_order followed by apply_order_snapshot: two calls to the exchange *)

Answered(snap) ==
  /\ w' = Apply(w, txn.cur, snap)
  /\ Goto(txn.then)
  /\ UNCHANGED <<db, venue, xpos>>

\* A timeout, a rate limit, or no row for the order
PollUnanswered ==
  /\ At("pollStatus")
  /\ Answered(Snapshot("UNKNOWN", {}, TRUE))

PollStatus ==
  /\ At("pollStatus")
  /\ ~NeedsFills(venue[txn.cur].st)
  /\ Answered(Snapshot(Translate(venue[txn.cur].st), {}, TRUE))

PollStatusThenFills ==
  /\ At("pollStatus")
  /\ NeedsFills(venue[txn.cur].st)
  /\ txn' = [txn EXCEPT !.pc = "pollFills", !.seen = venue[txn.cur].st]
  /\ UNCHANGED <<db, w, venue, xpos>>

\* Mutant: the fills are asked for first, the status afterwards
FillsBeforeStatus ==
  /\ At("pollFills")
  /\ \E n \in 0 .. venue[txn.cur].filled :
       Answered(Snapshot(Translate(venue[txn.cur].st), 1 .. n, TRUE))

FillsComplete ==
  /\ At("pollFills")
  /\ Answered(Snapshot(Translate(txn.seen), 1 .. venue[txn.cur].filled, TRUE))

\* The walk over the pages was interrupted: some of the fills, marked incomplete
FillsInterrupted ==
  /\ At("pollFills")
  /\ \E got \in SUBSET (1 .. venue[txn.cur].filled) :
       Answered(Snapshot(Translate(txn.seen), got, FALSE))

-----------------------------------------------------------------------------
(* Orchestrator.reconcile *)

PositionsAgree ==
  /\ Abs(w.pos) = Abs(xpos)
  /\ w.pos # 0 => ReportedSide[SideOf(xpos)] = SideOf(w.pos)

ReconPositions ==
  /\ At("reconPositions")
  /\ \E verdict \in {IF PositionsAgree THEN "ok" ELSE "bad", "unreachable"} :
       txn' = [txn EXCEPT !.pc = "reconOrders", !.verdict = verdict,
                          !.todo = Trackable(w)]
  /\ UNCHANGED <<db, w, venue, xpos>>

ReconNextOrder ==
  /\ At("reconOrders")
  /\ \E k \in txn.todo :
       txn' = [Polling(txn, k, "reconOrders") EXCEPT !.todo = @ \ {k}]
  /\ UNCHANGED <<db, w, venue, xpos>>

OpenOrdersAgree ==
  /\ Trackable(w) = {k \in Keys : venue[k].st \in OpenVenue}
  /\ \A k \in Trackable(w) :
       /\ ReportedSide[venue[k].side] = w.order[k].side
       /\ venue[k].qty = w.order[k].qty

\* Mutant: a clean verdict lifts the block of the unknown orders as well
VerifiedForgiving(g, reached, agreed) ==
  Recompute([g EXCEPT !.notReconciled = @ /\ ~reached, !.diverged = ~agreed,
                      !.ambiguous = ~agreed, !.unknown = @ /\ ~agreed])

\* Both causes follow the verdict; reaching the exchange for the positions is
\* what counts as the initial reconciliation.
Verified(g, reached, agreed) ==
  Recompute([g EXCEPT !.notReconciled = @ /\ ~reached,
                      !.diverged = ~agreed, !.ambiguous = ~agreed])

\* Mutant: one half finding nothing is enough
ReconFinishEither(ordersOk) ==
  /\ w' = [w EXCEPT !.gate =
             Verified(@, txn.verdict # "unreachable", txn.verdict = "ok" \/ ordersOk)]
  /\ txn' = [Idle(txn.kind) EXCEPT !.pc = txn.after]
  /\ UNCHANGED <<db, venue, xpos>>

ReconFinish(ordersOk) ==
  /\ w' = [w EXCEPT !.gate =
             Verified(@, txn.verdict # "unreachable", txn.verdict = "ok" /\ ordersOk)]
  /\ txn' = [Idle(txn.kind) EXCEPT !.pc = txn.after]
  /\ UNCHANGED <<db, venue, xpos>>

ReconOpenOrders ==
  /\ At("reconOrders") /\ txn.todo = {}
  /\ ReconFinish(OpenOrdersAgree)

\* Any exception while polling or listing: that half could not be verified,
\* what it already applied stays.
ReconUnreachable ==
  /\ \/ At("reconOrders")
     \/ txn.pc \in {"pollStatus", "pollFills"} /\ txn.then = "reconOrders"
  /\ ReconFinish(FALSE)

-----------------------------------------------------------------------------
(* Orchestrator.tick *)

TickBegin ==
  /\ txn.kind = "idle"
  /\ \/ Begin("tick", db, Reconciling(txn, "pollDue"))
     \/ Begin("tick", db, [txn EXCEPT !.pc = "pollDue"])

\* _maybe_poll_open_orders
PollDue ==
  /\ At("pollDue")
  /\ w' = [w EXCEPT !.gate = Recompute(@)]
  /\ txn' = [txn EXCEPT !.pc = "pollNext", !.todo = Trackable(w)]
  /\ UNCHANGED <<db, venue, xpos>>

PollNotDue ==
  /\ At("pollDue")
  /\ w' = [w EXCEPT !.gate = Recompute(@)]
  /\ Goto("market")
  /\ UNCHANGED <<db, venue, xpos>>

PollNext ==
  /\ At("pollNext")
  /\ \/ /\ txn.todo = {}
        /\ Goto("market")
     \/ \E k \in txn.todo :
          txn' = [Polling(txn, k, "policy") EXCEPT !.todo = @ \ {k}]
  /\ UNCHANGED <<db, w, venue, xpos>>

\* _maybe_apply_partial_fill_policy, when the order is stalled
CancelStalled ==
  /\ At("policy")
  /\ CancelRemainder
  /\ w.order[txn.cur].status = "PARTIALLY_FILLED"
  /\ w' = SetStatus(w, txn.cur, "CANCEL_PENDING")
  /\ txn' = [txn EXCEPT !.pc = "cancel", !.then = "pollNext"]
  /\ UNCHANGED <<db, venue, xpos>>

LeaveOrder ==
  /\ At("policy")
  /\ Goto("pollNext")
  /\ UNCHANGED <<db, w, venue, xpos>>

\* request_cancel: accepted or lost, the code goes on to poll; refused (the
\* order is no longer open), the transport's error reaches the handler.
RequestCancel ==
  /\ At("cancel")
  /\ \/ Goto("pollStatus")
     \/ venue[txn.cur].st \notin OpenVenue /\ Goto("cancelRefused")
  /\ UNCHANGED <<db, w, venue, xpos>>

\* next_candle: the outcomes that end the tick without a decision ...
NoCandle ==
  /\ At("market")
  /\ Goto("commit")
  /\ UNCHANGED <<db, w, venue, xpos>>

\* Mutant: the failure is counted, the block not derived again
MarketFailedUnshown ==
  /\ At("market") /\ "market" \in Disturbances
  /\ w' = [w EXCEPT !.gate = OneMoreFailure(@)]
  /\ Goto("commit")
  /\ UNCHANGED <<db, venue, xpos>>

MarketFailed ==
  /\ At("market") /\ "market" \in Disturbances
  /\ w' = [w EXCEPT !.gate = Recompute(OneMoreFailure(@))]
  /\ Goto("commit")
  /\ UNCHANGED <<db, venue, xpos>>

GapDetected ==
  /\ At("market") /\ "market" \in Disturbances
  /\ w' = [w EXCEPT !.gate = Recompute([@ EXCEPT !.ambiguous = TRUE])]
  /\ Goto("commit")
  /\ UNCHANGED <<db, venue, xpos>>

\* ... and a new candle, saved; the clock is compared at once
NewCandle ==
  /\ At("market")
  /\ \E drift \in BOOLEAN :
       /\ drift => "clock" \in Disturbances
       /\ w' = [w EXCEPT !.gate = Recompute([@ EXCEPT !.failures = 0, !.clock = drift])]
  /\ Goto("decide")
  /\ UNCHANGED <<db, venue, xpos>>

\* Still aggregating, HOLD, or refused by the RiskEngine
NoOrderDecided ==
  /\ At("decide")
  /\ Goto("commit")
  /\ UNCHANGED <<db, w, venue, xpos>>

\* save_order, unless find_order_by_idempotency_key knows the key
SaveOrder(k, close, side, qty) ==
  /\ w.order[k].status = "ABSENT"
  /\ w' = [w EXCEPT !.order[k] =
             [NoRow EXCEPT !.status = "PENDING_SUBMIT", !.close = close,
                           !.side = side, !.qty = qty]]
  /\ txn' = [txn EXCEPT !.pc = "submit", !.cur = k]
  /\ UNCHANGED <<db, venue, xpos>>

\* Stop, target or an opposing signal: _close_position_via_risk
DecideClose ==
  /\ At("decide")
  /\ w.pos # 0
  /\ CommonGatesPass(w.gate)
  /\ \E k \in CloseKeys :
       SaveOrder(k, TRUE, IF w.pos > 0 THEN "SELL" ELSE "BUY", Abs(w.pos))

\* RiskEngine.evaluate, then _submit_and_record.  Orders still pending do not
\* count; an opposite signal closes the position instead.
DecideEntry ==
  /\ At("decide")
  /\ OpenPositions(w) < MaxPositions
  /\ CommonGatesPass(w.gate)
  /\ w.gate.opstate = "ATIVO"
  /\ \E k \in EntryKeys, side \in EntrySides :
       /\ w.pos # 0 => SideOf(w.pos) = side
       /\ SaveOrder(k, FALSE, side, EntryQty)

-----------------------------------------------------------------------------
(* _submit_and_track and what its callers do with the result *)

\* The exchange takes each orderLinkId once.
Received ==
  LET row == w.order[txn.cur] IN
  /\ venue[txn.cur].st = "none"
  /\ venue' = [venue EXCEPT ![txn.cur] =
       [st |-> "New", side |-> row.side, close |-> row.close, qty |-> row.qty,
        filled |-> 0]]

SubmitAccepted ==
  /\ At("submit")
  /\ Received
  /\ w' = [w EXCEPT !.order[txn.cur].id = TRUE, !.order[txn.cur].status = "SUBMITTED"]
  /\ txn' = Polling(txn, txn.cur, "outcome")
  /\ UNCHANGED <<db, xpos>>

\* Neither SUBMITTED: count a failure, reconcile, and end the tick
NotAccepted(status) ==
  /\ w' = [SetStatus(w, txn.cur, status) EXCEPT !.gate = OneMoreFailure(@)]
  /\ txn' = Reconciling(txn, "commit")
  /\ UNCHANGED <<db, xpos>>

SubmitRefused ==
  /\ At("submit")
  /\ NotAccepted("REJECTED")
  /\ UNCHANGED venue

\* No answer: the order may have arrived or not
SubmitTimedOut ==
  /\ At("submit")
  /\ NotAccepted("UNKNOWN")
  /\ Received \/ UNCHANGED venue

Outcome ==
  LET row == w.order[txn.cur] IN
  /\ At("outcome")
  /\ IF row.execs = {} /\ row.status = "UNKNOWN"
     THEN /\ w' = [w EXCEPT !.gate = OneMoreFailure(@)]
          /\ txn' = Reconciling(txn, "commit")
     ELSE /\ Goto("commit")
          /\ UNCHANGED w
  /\ UNCHANGED <<db, venue, xpos>>

-----------------------------------------------------------------------------
(* The control endpoints (routes_control.py) *)

KillBegin ==
  /\ txn.kind = "idle" /\ "kill" \in Disturbances
  /\ Begin("kill", [db EXCEPT !.gate = Recompute([@ EXCEPT !.kill = TRUE])],
           [txn EXCEPT !.pc = "killNext", !.todo = Trackable(db)])

KillNext ==
  /\ At("killNext")
  /\ \E k \in txn.todo :
       IF CanMove(w.order[k].status, "CANCEL_PENDING")
       THEN /\ w' = SetStatus(w, k, "CANCEL_PENDING")
            /\ txn' = [txn EXCEPT !.pc = "cancel", !.cur = k, !.then = "killNext",
                                  !.todo = @ \ {k}]
       ELSE /\ Goto("illegalMove")
            /\ UNCHANGED w
  /\ UNCHANGED <<db, venue, xpos>>

KillEnd ==
  LET cancelledHere == {k \in Trackable(db) : w.order[k].status = "CANCELLED"} IN
  /\ At("killNext") /\ txn.todo = {}
  /\ w' = [w EXCEPT !.gate = Recompute([@ EXCEPT !.unknown = HasUnknown(w)])]
  /\ txn' = IF cancelledHere # {} \/ Live(w) # {}
            THEN Reconciling(txn, "commit")
            ELSE [txn EXCEPT !.pc = "commit"]
  /\ UNCHANGED <<db, venue, xpos>>

\* The other endpoints call no exchange: one step each
Endpoint(gate) ==
  /\ txn.kind = "idle"
  /\ db' = [db EXCEPT !.gate = gate]
  /\ w' = db'
  /\ UNCHANGED <<txn, venue, xpos>>

Disengage == Endpoint(Recompute([db.gate EXCEPT !.kill = FALSE]))

Activate ==
  /\ ~db.gate.blocked /\ ~db.gate.notReconciled
  /\ db.gate.opstate \in {"OBSERVANDO", "PAUSADO"}
  /\ Endpoint([db.gate EXCEPT !.opstate = "ATIVO"])

Pause ==
  /\ "pause" \in Disturbances
  /\ Endpoint([db.gate EXCEPT !.opstate = "PAUSADO"])

-----------------------------------------------------------------------------
(* Boot (build_orchestrator) and graceful shutdown *)

Boot ==
  /\ txn.kind = "down"
  /\ Begin("boot", db, Reconciling(txn, "bootEnd"))

BootEnd ==
  /\ At("bootEnd")
  /\ w' = [w EXCEPT !.gate.opstate = IF w.gate.blocked THEN "BLOQUEADO" ELSE "OBSERVANDO"]
  /\ Goto("commit")
  /\ UNCHANGED <<db, venue, xpos>>

Shutdown ==
  /\ txn.kind = "idle" /\ "stop" \in Disturbances
  /\ Begin("stop", [db EXCEPT !.gate.opstate = "ENCERRANDO"], Reconciling(txn, "commit"))

-----------------------------------------------------------------------------
Init ==
  /\ db = FreshDb /\ w = FreshDb
  /\ txn = Idle("down")
  /\ venue = [k \in Keys |-> NoOrder]
  /\ xpos = 0

PollStep ==
  PollUnanswered \/ PollStatus \/ PollStatusThenFills \/ FillsComplete \/ FillsInterrupted

ReconStep == ReconPositions \/ ReconNextOrder \/ ReconOpenOrders \/ ReconUnreachable

TickStep ==
  \/ PollDue \/ PollNotDue \/ PollNext \/ CancelStalled \/ LeaveOrder \/ RequestCancel
  \/ NoCandle \/ MarketFailed \/ GapDetected \/ NewCandle
  \/ NoOrderDecided \/ DecideClose \/ DecideEntry
  \/ SubmitAccepted \/ SubmitRefused \/ SubmitTimedOut \/ Outcome

ControlStep == KillBegin \/ KillNext \/ KillEnd \/ Disengage \/ Activate \/ Pause

Next ==
  \/ VenueMoves
  \/ PollStep \/ ReconStep \/ TickBegin \/ TickStep \/ ControlStep
  \/ Boot \/ BootEnd \/ Shutdown
  \/ Commit \/ Rollback \/ Crash

Spec == Init /\ [][Next]_vars
=============================================================================

-------------------------- MODULE OrderProperties --------------------------
(***************************************************************************)
(* What must hold of OrderLifecycle.                                       *)
(***************************************************************************)
EXTENDS OrderLifecycle

Database ==
  [order : [Keys -> Row], pos : Int, held : BOOLEAN, gate : Gate]

Pcs ==
  {"none", "reconPositions", "reconOrders", "pollStatus", "pollFills", "pollDue",
   "pollNext", "policy", "cancel", "cancelRefused", "illegalMove", "market", "decide",
   "submit", "outcome", "killNext", "bootEnd", "commit"}

\* Where polling one order, and a whole reconciliation, may return to
PollReturns  == {"none", "reconOrders", "policy", "pollNext", "killNext", "outcome"}
ReconReturns == {"none", "pollDue", "bootEnd", "commit"}

Transaction ==
  [kind : Kinds, pc : Pcs, todo : SUBSET Keys, cur : Keys \cup {NoKey},
   seen : {"none"} \cup OpenVenue \cup DoneVenue,
   verdict : {"none", "ok", "bad", "unreachable"}, then : PollReturns,
   after : ReconReturns]

VenueOrder ==
  [st : {"none"} \cup OpenVenue \cup DoneVenue, side : Side, close : BOOLEAN,
   qty : Nat, filled : Nat]

\* The state has the shape described in OrderLifecycle: in particular the status
\* of an order and the pending status noted for it are always ones of the table
\* in order_state.py.
TypeOK ==
  /\ db \in Database /\ w \in Database
  /\ txn \in Transaction
  /\ venue \in [Keys -> VenueOrder]
  /\ xpos \in Int

\* While a handler is at a step about an order, there is such an order.
CurrentOrder == txn.pc \in AboutAnOrder => txn.cur \in Keys

Formed == TypeOK /\ CurrentOrder

-----------------------------------------------------------------------------
(* Safety *)

Settled(row, k) ==
  row.status \in {"FILLED", "CANCELLED"} =>
    /\ venue[k].st \in DoneVenue
    /\ row.execs = 1 .. venue[k].filled

\* An order is terminal in the database only when the exchange is done with it
\* and every fill it made is on file, whichever call noticed the end, however
\* the walk over the pages of fills was interrupted and wherever the process was
\* stopped (fill_service.apply_order_snapshot, non_terminal_orders).
TerminalMeansSettled ==
  \A k \in Keys : Settled(db.order[k], k) /\ Settled(w.order[k], k)

\* Why it holds: no fill on file is invented, and what the first call of a poll
\* learned about an end is still true when the second call returns the fills.
Faithful(row, k) == row.execs \subseteq 1 .. venue[k].filled /\ Settled(row, k)

SeenIsTrue ==
  txn.pc = "pollFills" /\ txn.seen \in DoneVenue => venue[txn.cur].st = txn.seen

\* The inductive invariant behind TerminalMeansSettled, for both halves of the
\* state: the committed rows and those of the transaction in flight.
Bookkeeping ==
  /\ \A k \in Keys : Faithful(db.order[k], k) /\ Faithful(w.order[k], k)
  /\ \A k \in Keys : venue[k].st = "none" => venue[k].filled = 0
  /\ SeenIsTrue

RecordedFills(d, side) ==
  UNION {{k} \X d.order[k].execs : k \in {j \in Keys : d.order[j].side = side}}

NetOfFills(d) ==
  Cardinality(RecordedFills(d, "BUY")) - Cardinality(RecordedFills(d, "SELL"))

\* The position kept fill by fill is what the recorded fills add up to, in whatever
\* order and however often they are reported, until one of them does not fit the
\* position it meets (fill_service.apply_order_snapshot).
Explained(d) == d.held \/ d.pos = NetOfFills(d)

PositionExplained == \A d \in {db, w} : Explained(d)

\* As long as an order the exchange knows about is UNKNOWN, trading is blocked,
\* whatever other causes came and went since (has_unknown_orders,
\* recompute_trading_blocked).
UnknownBlocks ==
  \A k \in Keys :
    db.order[k].id /\ db.order[k].status = "UNKNOWN" => db.gate.unknown /\ db.gate.blocked

\* Every committed system_state is consistent: the derived flag agrees with the
\* independent causes, and new entries are authorised only when nothing blocks
\* and a reconciliation has been completed (recompute_trading_blocked).
Mirrors(g) == (g.blocked <=> HasCause(g)) /\ (g.opstate = "ATIVO" => ~g.blocked)
Authorised(g) == g.opstate = "ATIVO" => ~g.notReconciled

GateMirrorsCauses == Mirrors(db.gate) /\ Authorised(db.gate)

\* Once the emergency block is committed no order reaches the exchange, entry or
\* close, even from a tick that was already deciding (engage_kill_switch).
KillStopsSubmissions ==
  [][db.gate.kill => \A k \in Keys : venue[k].st = "none" => venue'[k].st = "none"]_vars

\* The inductive invariant behind the three: a failure counted on the way into a
\* reconciliation is the only cause that waits to be derived, and no step that may
\* follow leaves the reconciliation without deriving it ...
Rederiving == txn.pc \in {"reconPositions", "reconOrders", "pollStatus", "pollFills"}

\* ... an order is UNKNOWN with an id only by a report, which notes it ...
UnknownNoted(d) ==
  \A k \in Keys : d.order[k].id /\ d.order[k].status = "UNKNOWN" => d.gate.unknown

\* ... and no handler but the emergency block itself changes its flag, so that the
\* common gates, asked before an order is saved, speak for the committed one.
GateInv ==
  /\ GateMirrorsCauses /\ Authorised(w.gate)
  /\ Mirrors(w.gate) \/ Rederiving
  /\ UnknownNoted(db) /\ UnknownNoted(w)
  /\ At("submit") => ~w.order[txn.cur].id /\ ~w.gate.kill
  /\ IF txn.kind = "kill" THEN w.gate.kill ELSE w.gate.kill = db.gate.kill

-----------------------------------------------------------------------------
(* The promise this bookkeeping keeps *)

Phase(status) ==
  CASE status = "ABSENT" -> "none"
    [] status \in NonTerminal -> "live"
    [] status \in {"FILLED", "CANCELLED"} -> "settled"
    [] status = "REJECTED" -> "refused"

Market(k)  == [filled |-> venue[k].filled, done |-> venue[k].st \in DoneVenue]
Entry(row) == [phase |-> Phase(row.status), fills |-> row.execs]

Contract == INSTANCE SettlementContract WITH
  market <- [k \in Keys |-> Market(k)],
  book   <- [k \in Keys |-> Entry(db.order[k])]

\* The committed database implements the abstract books.
KeepsTheBooks == Contract!Spec

\* The inductive invariant behind it: a handler has only live orders in hand, each
\* of them once, and one that it has not sent yet has no fills ...
InHand ==
  /\ txn.todo \subseteq Live(w)
  /\ txn.kind \in {"idle", "down"} => txn.todo = {} /\ txn.pc \notin AboutAnOrder
  /\ txn.pc \in AboutAnOrder => txn.cur \notin txn.todo
  /\ txn.pc \in AboutAnOrder \ {"policy", "outcome"} =>
       w.order[txn.cur].status \in NonTerminal
  /\ txn.pc = "submit" => w.order[txn.cur].execs = {}

\* ... so that, wherever it is, committing what it has done so far would be a
\* publication that the contract allows; an order that is not saved, or that the
\* exchange refuses, has no fills.
Ahead ==
  \A k \in Keys :
    /\ Contract!Follows(Entry(w.order[k]), Entry(db.order[k]), Market(k))
    /\ db.order[k].status = "ABSENT" => db.order[k].execs = {}

NothingTraded == \A k \in Keys : venue[k].st \in {"none", "New", "Rejected"} => venue[k].filled = 0

ContractInv == InHand /\ Ahead /\ NothingTraded

-----------------------------------------------------------------------------
(* Liveness *)

SystemStep ==
  PollStep \/ ReconStep \/ TickStep \/ KillNext \/ KillEnd \/ BootEnd \/ Commit
  \/ (Failing /\ Rollback)

\* The poll loop keeps ticking, intervals elapse, and whoever stopped the
\* process starts it again.
Fairness ==
  /\ WF_vars(SystemStep) /\ WF_vars(Boot)
  /\ SF_vars(TickBegin /\ txn'.pc = "reconPositions")
  /\ SF_vars(PollDue)

\* The same steps when nothing goes wrong
Smooth ==
  \/ PollStatus \/ FillsComplete \/ ReconOpenOrders \/ Commit
  \/ ReconPositions /\ txn'.verdict # "unreachable"

\* A call that is not answered, or that only brings part of the answer; an error
\* of the database; a crash - unless the step is no different from a smooth one,
\* such as the rollback of a transaction that changed nothing.
Fault ==
  /\ \/ PollUnanswered \/ FillsInterrupted \/ ReconUnreachable
     \/ ReconPositions /\ txn'.verdict = "unreachable"
     \/ ~Failing /\ Rollback
     \/ Crash
  /\ ~Smooth

\* Faults happen as often as they like, but not for ever.
LiveSpec == Spec /\ Fairness /\ <>[][~Fault]_vars

\* An order that ended at the exchange ends in the database too, through
\* whatever statuses the earlier faults took it.
OrderSettles ==
  \A k \in Keys :
    venue[k].st \in DoneVenue /\ db.order[k].id ~> db.order[k].status \in Terminal

\* The database never goes on for ever trading on a position the exchange does
\* not have: either they agree again or trading is blocked (reconcile).
NoSilentMismatch == []<>(db.pos = xpos \/ db.gate.blocked)

-----------------------------------------------------------------------------
(* What a document of the repository says, and the code does not *)

\* docs/ORDEM_E_FILLS.md: no UNKNOWN order lets new exposure be opened
\* (Orchestrator._submit_and_track records UNKNOWN without going through the
\* recalculation of order_state_unknown).
UnknownOpensNothing ==
  At("submit") /\ ~w.order[txn.cur].close =>
    \A k \in Keys : w.order[k].status # "UNKNOWN"
=============================================================================

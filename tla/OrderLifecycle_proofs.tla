----------------------- MODULE OrderLifecycle_proofs -----------------------
(***************************************************************************)
(* Type correctness of OrderLifecycle and its main safety property, for    *)
(* any sets of keys, any quantity and any disturbances; and what the       *)
(* committed system_state promises about the orders: its flag is derived   *)
(* from its causes, an UNKNOWN order blocks, and no order passes the       *)
(* emergency block, all three from GateInv.  The committed orders are      *)
(* books that SettlementContract allows; and, from the same invariant, the *)
(* position is what the recorded fills add up to, as long as each met a    *)
(* position that it fits.                                                  *)
(***************************************************************************)
EXTENDS OrderProperties, FiniteSetTheorems, TLAPS

-----------------------------------------------------------------------------
(* Facts about the helpers *)

SnapshotType ==
  [status : Status, fills : {f \in SUBSET (Nat \ {0}) : IsFiniteSet(f)}, complete : BOOLEAN]

\* Re-deriving the block leaves a well-formed system_state.
LEMMA RecomputeType ==
  ASSUME NEW g \in Gate
  PROVE  Recompute(g) \in Gate
  BY DEF Gate, Recompute, HasCause, OpStateAfter, OpStates

\* So does counting one more failure.
LEMMA OneMoreFailureType ==
  ASSUME NEW g \in Gate
  PROVE  OneMoreFailure(g) \in Gate
  BY MaxApiFailuresAssumption DEF Gate, OneMoreFailure

\* The row after the status half of a snapshot is a row, with the fills it had.
LEMMA StatusSyncedType ==
  ASSUME NEW row \in Row, NEW snap \in SnapshotType
  PROVE  StatusSynced(row, snap) \in Row /\ StatusSynced(row, snap).execs = row.execs
  BY DEF Row, SnapshotType, StatusSynced, Status, Terminal, NonTerminal

\* The number of new fills is a number.
LEMMA NewFillsCount ==
  ASSUME NEW row \in Row, NEW snap \in SnapshotType
  PROVE  Cardinality(NewFills(row, snap)) \in Nat
<1>1. IsFiniteSet(snap.fills)
  BY DEF SnapshotType
<1>2. IsFiniteSet(NewFills(row, snap))
  BY <1>1, FS_Difference DEF NewFills
<1> QED
  BY <1>2, FS_CardinalityType

\* The position stays a whole number.
LEMMA PositionAfterType ==
  ASSUME NEW pos \in Int, NEW row, NEW n \in Nat
  PROVE  PositionAfter(pos, row, n) \in Int
  BY DEF PositionAfter, Sign, SideOf, Abs

\* Applying a snapshot to a database gives a database.
LEMMA ApplyType ==
  ASSUME NEW d \in Database, NEW k \in Keys, NEW snap \in SnapshotType
  PROVE  Apply(d, k, snap) \in Database
<1> DEFINE row == d.order[k]
           n == Cardinality(NewFills(row, snap))
           synced == [StatusSynced(row, snap) EXCEPT !.execs = row.execs \cup snap.fills]
           order == [d.order EXCEPT ![k] = synced]
           flags == [d.gate EXCEPT
                       !.ambiguous = @ \/ (n > 0 /\ ~row.close /\ Opposes(d.pos, row)),
                       !.unknown   = \E j \in Keys : order[j].status = "UNKNOWN"]
<1>1. row \in Row /\ d.gate \in Gate /\ d.pos \in Int /\ d.held \in BOOLEAN
  BY DEF Database
<1>2. synced \in Row
  BY <1>1, StatusSyncedType DEF Row, SnapshotType
<1>3. order \in [Keys -> Row]
  BY <1>2 DEF Database
<1>4. n \in Nat
  BY <1>1, NewFillsCount
<1>5. Recompute(flags) \in Gate
  <2>1. flags \in Gate
    BY <1>1 DEF Gate
  <2> QED
    BY <2>1, RecomputeType
<1>6. PositionAfter(d.pos, row, n) \in Int
  BY <1>1, <1>4, PositionAfterType
<1>7. (d.held \/ FillsHeld(d.pos, row, n)) \in BOOLEAN
  BY <1>1 DEF FillsHeld, Opposes
<1>8. Apply(d, k, snap) =
        [order |-> order, pos |-> PositionAfter(d.pos, row, n),
         held |-> d.held \/ FillsHeld(d.pos, row, n), gate |-> Recompute(flags)]
  BY DEF Apply
<1> HIDE DEF row, n, order, flags
<1> QED
  BY <1>3, <1>5, <1>6, <1>7, <1>8 DEF Database

-----------------------------------------------------------------------------
(* Type correctness, group of actions by group *)

USE DEF Side

\* Moving to another step of the handler keeps the transaction well formed, and
\* a step about an order is only reached from one.
LEMMA GotoType ==
  ASSUME txn \in Transaction, NEW pc \in Pcs, Goto(pc),
         pc \in AboutAnOrder => txn.cur \in Keys
  PROVE  txn' \in Transaction /\ CurrentOrder'
<1>1. txn' \in Transaction
  BY DEF Transaction, Goto, Pcs, PollReturns
<1>2. CurrentOrder'
  BY DEF Transaction, Goto, CurrentOrder
<1> QED
  BY <1>1, <1>2

\* One more fill leaves a well-formed order at the exchange.
LEMMA FilledOrderType ==
  ASSUME NEW o \in VenueOrder, NEW st \in {"Filled", "PartiallyFilled"}
  PROVE  [o EXCEPT !.filled = @ + 1, !.st = st] \in VenueOrder
<1> DEFINE m == o.filled + 1
<1>1. m \in Nat
  BY DEF VenueOrder
<1> HIDE DEF m
<1>2. [o EXCEPT !.filled = m, !.st = st] \in VenueOrder
  BY <1>1 DEF VenueOrder, OpenVenue, DoneVenue
<1> QED
  BY <1>2 DEF m

\* What the exchange does on its own is well typed.
LEMMA VenueType ==
  ASSUME Formed, VenueMoves
  PROVE  Formed'
<1> USE DEF Formed, TypeOK, CurrentOrder, VenueOrder, OpenVenue, DoneVenue
<1>1. CASE VenueProtect
  BY <1>1 DEF VenueProtect
<1>2. ASSUME NEW k \in Keys, VenueFill(k)
      PROVE  Formed'
  <2> DEFINE o == venue[k]
             st == IF o.filled + 1 = o.qty THEN "Filled" ELSE "PartiallyFilled"
  <2>1. [o EXCEPT !.filled = @ + 1, !.st = st] \in VenueOrder
    <3>1. o \in VenueOrder /\ st \in {"Filled", "PartiallyFilled"}
      OBVIOUS
    <3> HIDE DEF o, st
    <3> QED
      BY <3>1, FilledOrderType
  <2>2. venue' = [venue EXCEPT ![k] = [o EXCEPT !.filled = @ + 1, !.st = st]]
    BY <1>2 DEF VenueFill
  <2>3. xpos' \in Int /\ UNCHANGED <<db, w, txn>>
    BY <1>2 DEF VenueFill, Sign
  <2> QED
    BY <2>1, <2>2, <2>3
<1>3. ASSUME NEW k \in Keys, VenueCancel(k)
      PROVE  Formed'
  BY <1>3 DEF VenueCancel
<1>4. ASSUME NEW k \in Keys, VenueReject(k)
      PROVE  Formed'
  BY <1>4 DEF VenueReject
<1> QED
  BY <1>1, <1>2, <1>3, <1>4 DEF VenueMoves

\* The answer of a poll, applied, is well typed.
LEMMA AnsweredType ==
  ASSUME TypeOK, txn.cur \in Keys, NEW snap \in SnapshotType, Answered(snap)
  PROVE  Formed'
<1>1. w' \in Database
  BY ApplyType DEF Answered, TypeOK
<1>2. txn' \in Transaction /\ CurrentOrder'
  BY GotoType DEF Answered, TypeOK, Transaction, PollReturns, Pcs
<1> QED
  BY <1>1, <1>2 DEF Answered, TypeOK, Formed

\* The statuses the exchange may report translate to statuses of the table.
LEMMA TranslateType ==
  ASSUME NEW st
  PROVE  Translate(st) \in Status
  BY DEF Translate, Status, Terminal, NonTerminal

\* The first n fills are a legitimate list of fills.
LEMMA FillsType ==
  ASSUME NEW n \in Nat, NEW got \in SUBSET (1 .. n)
  PROVE  got \in SUBSET (Nat \ {0}) /\ IsFiniteSet(got)
<1>1. IsFiniteSet(1 .. n)
  BY FS_Interval
<1>2. got \subseteq 1 .. n
  OBVIOUS
<1>3. IsFiniteSet(got)
  BY <1>1, <1>2, FS_Subset
<1>4. got \subseteq Nat \ {0}
  BY <1>2
<1> QED
  BY <1>3, <1>4

\* Polling, both calls of it, is well typed.
LEMMA PollType ==
  ASSUME Formed, PollStep
  PROVE  Formed'
<1> USE DEF At, CurrentOrder, AboutAnOrder, TypeOK, Formed
<1>1. CASE PollUnanswered
  <2>1. Snapshot("UNKNOWN", {}, TRUE) \in SnapshotType
    BY FS_EmptySet DEF Snapshot, SnapshotType, Status, NonTerminal
  <2> QED
    BY <1>1, <2>1, AnsweredType DEF PollUnanswered
<1>2. CASE PollStatus
  <2>1. Snapshot(Translate(venue[txn.cur].st), {}, TRUE) \in SnapshotType
    BY FS_EmptySet, TranslateType DEF Snapshot, SnapshotType
  <2> QED
    BY <1>2, <2>1, AnsweredType DEF PollStatus
<1>3. CASE PollStatusThenFills
  BY <1>3 DEF PollStatusThenFills, Transaction, VenueOrder, Pcs
<1>4. ASSUME NEW got \in SUBSET (1 .. venue[txn.cur].filled), NEW complete \in BOOLEAN,
             At("pollFills"), Answered(Snapshot(Translate(txn.seen), got, complete))
      PROVE  Formed'
  <2>1. txn.cur \in Keys /\ venue[txn.cur].filled \in Nat
    BY <1>4 DEF VenueOrder
  <2>2. Snapshot(Translate(txn.seen), got, complete) \in SnapshotType
    BY <2>1, FillsType, TranslateType DEF Snapshot, SnapshotType
  <2> QED
    BY <1>4, <2>1, <2>2, AnsweredType
<1>5. CASE FillsComplete
  BY <1>5, <1>4 DEF FillsComplete
<1>6. CASE FillsInterrupted
  BY <1>6, <1>4 DEF FillsInterrupted
<1> QED
  BY <1>1, <1>2, <1>3, <1>5, <1>6 DEF PollStep

\* Replacing the system_state of a database leaves a database.
LEMMA GateChangeType ==
  ASSUME NEW d \in Database, NEW g \in Gate
  PROVE  [d EXCEPT !.gate = g] \in Database
  BY DEF Database

\* So does the verdict of a reconciliation, in the system_state.
LEMMA VerifiedType ==
  ASSUME NEW g \in Gate, NEW reached \in BOOLEAN, NEW agreed
  PROVE  Verified(g, reached, agreed) \in Gate
<1>1. [g EXCEPT !.notReconciled = @ /\ ~reached,
                !.diverged = ~agreed, !.ambiguous = ~agreed] \in Gate
  BY DEF Gate
<1> QED
  BY <1>1, RecomputeType DEF Verified

\* So does replacing one of its order rows.
LEMMA RowChangeType ==
  ASSUME NEW d \in Database, NEW k \in Keys, NEW row \in Row
  PROVE  [d EXCEPT !.order[k] = row] \in Database
  BY DEF Database

\* So does writing the status of one of its order rows.
LEMMA SetStatusType ==
  ASSUME NEW d \in Database, NEW k \in Keys, NEW s \in Status
  PROVE  SetStatus(d, k, s) \in Database
<1>1. [d.order[k] EXCEPT !.status = s] \in Row
  BY DEF Database, Row
<1>2. SetStatus(d, k, s) = [d EXCEPT !.order[k] = [d.order[k] EXCEPT !.status = s]]
  BY DEF SetStatus, Database
<1> QED
  BY <1>1, <1>2, RowChangeType

\* A transaction about to reconcile, or at rest, is well formed.
LEMMA TransactionType ==
  ASSUME NEW t \in Transaction, NEW kind \in Kinds, NEW pc \in Pcs, NEW k \in Keys,
         NEW after \in ReconReturns, NEW then \in PollReturns
  PROVE  /\ Idle(kind) \in Transaction
         /\ [Idle(kind) EXCEPT !.pc = pc] \in Transaction
         /\ Reconciling(t, after) \in Transaction
         /\ Polling(t, k, then) \in Transaction
         /\ [t EXCEPT !.kind = kind] \in Transaction
<1>1. Idle(kind) \in Transaction
  BY DEF Transaction, Idle, Pcs, PollReturns, ReconReturns
<1>2. [Idle(kind) EXCEPT !.pc = pc] \in Transaction
  BY <1>1 DEF Transaction
<1>3. Reconciling(t, after) \in Transaction
  BY DEF Transaction, Reconciling, Pcs, PollReturns
<1>4. Polling(t, k, then) \in Transaction
  BY DEF Transaction, Polling, Pcs
<1>5. [t EXCEPT !.kind = kind] \in Transaction
  BY DEF Transaction
<1> QED
  BY <1>1, <1>2, <1>3, <1>4, <1>5

\* So is one about to poll the next order of its list.
LEMMA NextOrderType ==
  ASSUME NEW t \in Transaction, NEW k \in t.todo, NEW then \in PollReturns
  PROVE  /\ [Polling(t, k, then) EXCEPT !.todo = @ \ {k}] \in Transaction
         /\ [Polling(t, k, then) EXCEPT !.todo = @ \ {k}].cur \in Keys
<1>1. k \in Keys
  BY DEF Transaction
<1>2. Polling(t, k, then) \in Transaction /\ Polling(t, k, then).cur = k
  BY <1>1 DEF Transaction, Polling, Pcs
<1> QED
  BY <1>1, <1>2 DEF Transaction

\* Reconciliation is well typed.
LEMMA ReconType ==
  ASSUME Formed, ReconStep
  PROVE  Formed'
<1> USE DEF TypeOK, Formed
<1>1. CASE ReconPositions
  <2>1. PICK verdict \in {"ok", "bad", "unreachable"} :
          txn' = [txn EXCEPT !.pc = "reconOrders", !.verdict = verdict,
                             !.todo = Trackable(w)]
    BY <1>1 DEF ReconPositions
  <2>2. Trackable(w) \in SUBSET Keys
    BY DEF Trackable, Live
  <2>3. txn' \in Transaction /\ CurrentOrder'
    BY <2>1, <2>2 DEF Transaction, Pcs, CurrentOrder, AboutAnOrder
  <2> QED
    BY <1>1, <2>3 DEF ReconPositions
<1>2. CASE ReconNextOrder
  <2>1. PICK k \in txn.todo :
          txn' = [Polling(txn, k, "reconOrders") EXCEPT !.todo = @ \ {k}]
    BY <1>2 DEF ReconNextOrder
  <2>2. txn' \in Transaction /\ CurrentOrder'
    BY <2>1, NextOrderType DEF CurrentOrder, PollReturns
  <2> QED
    BY <1>2, <2>2 DEF ReconNextOrder
<1>3. ASSUME NEW ordersOk, ReconFinish(ordersOk)
      PROVE  Formed'
  <2>1. w' \in Database
    BY <1>3, VerifiedType, GateChangeType DEF ReconFinish, Database
  <2>2. txn' \in Transaction /\ CurrentOrder'
    <3>1. txn' = [Idle(txn.kind) EXCEPT !.pc = txn.after]
      BY <1>3 DEF ReconFinish
    <3>2. txn.kind \in Kinds /\ txn.after \in ReconReturns
      BY DEF Transaction
    <3>3. Idle(txn.kind) \in Transaction
      BY <3>2 DEF Transaction, Idle, Pcs, PollReturns, ReconReturns
    <3>4. txn' \in Transaction /\ txn'.pc = txn.after
      BY <3>1, <3>2, <3>3 DEF Transaction, ReconReturns, Pcs
    <3> QED
      BY <3>2, <3>4 DEF CurrentOrder, AboutAnOrder, ReconReturns
  <2> QED
    BY <1>3, <2>1, <2>2 DEF ReconFinish
<1> QED
  BY <1>1, <1>2, <1>3 DEF ReconStep, ReconOpenOrders, ReconUnreachable

\* A step of a tick or of a control endpoint that only moves on is well typed.
LEMMA MoveOnType ==
  ASSUME Formed, NEW pc \in Pcs, Goto(pc), pc \in AboutAnOrder => txn.cur \in Keys,
         w' \in Database, UNCHANGED <<db, venue, xpos>>
  PROVE  Formed'
  BY GotoType DEF Formed, TypeOK

\* Saving a new order before its submission is well typed.
LEMMA SaveOrderType ==
  ASSUME Formed, NEW k \in Keys, NEW close \in BOOLEAN, NEW side \in Side,
         NEW qty \in Nat, SaveOrder(k, close, side, qty)
  PROVE  Formed'
<1> DEFINE row == [NoRow EXCEPT !.status = "PENDING_SUBMIT", !.close = close,
                                !.side = side, !.qty = qty]
<1>1. row \in Row
  BY DEF Row, NoRow, Status, NonTerminal
<1>2. w' \in Database
  <2>1. w' = [w EXCEPT !.order[k] = row]
    BY DEF SaveOrder
  <2> HIDE DEF row
  <2> QED
    BY <1>1, <2>1, RowChangeType DEF Formed, TypeOK
<1>3. txn' \in Transaction /\ CurrentOrder'
  BY DEF SaveOrder, Formed, TypeOK, Transaction, CurrentOrder, Pcs
<1> QED
  BY <1>2, <1>3 DEF SaveOrder, Formed, TypeOK

\* The steps of the periodic polling of open orders are well typed.
LEMMA PollingTickType ==
  ASSUME Formed,
         PollDue \/ PollNotDue \/ PollNext \/ CancelStalled \/ LeaveOrder \/ RequestCancel
  PROVE  Formed'
<1> USE DEF Formed, TypeOK, At, Pcs
<1>1. [w EXCEPT !.gate = Recompute(@)] \in Database
  BY RecomputeType, GateChangeType DEF Database
<1>2. CASE PollDue
  <2>1. Trackable(w) \in SUBSET Keys
    BY DEF Trackable, Live
  <2>2. txn' \in Transaction /\ CurrentOrder'
    BY <1>2, <2>1 DEF PollDue, Transaction, CurrentOrder, AboutAnOrder
  <2> QED
    BY <1>1, <1>2, <2>2 DEF PollDue
<1>3. CASE PollNotDue
  BY <1>1, <1>3, MoveOnType DEF PollNotDue, AboutAnOrder
<1>4. CASE PollNext
  <2>1. CASE Goto("market")
    BY <1>4, <2>1, MoveOnType DEF PollNext, AboutAnOrder
  <2>2. CASE \E k \in txn.todo :
               txn' = [Polling(txn, k, "policy") EXCEPT !.todo = @ \ {k}]
    <3>1. txn' \in Transaction /\ CurrentOrder'
      BY <2>2, NextOrderType DEF CurrentOrder, PollReturns
    <3> QED
      BY <1>4, <3>1 DEF PollNext
  <2> QED
    BY <1>4, <2>1, <2>2 DEF PollNext
<1>5. CASE CancelStalled
  <2>1. txn.cur \in Keys
    BY <1>5 DEF CancelStalled, CurrentOrder, AboutAnOrder
  <2>2. w' \in Database
    BY <1>5, <2>1, SetStatusType DEF CancelStalled, Status, NonTerminal
  <2>3. txn' \in Transaction /\ CurrentOrder'
    BY <1>5, <2>1 DEF CancelStalled, Transaction, CurrentOrder, PollReturns
  <2> QED
    BY <1>5, <2>2, <2>3 DEF CancelStalled
<1>6. CASE LeaveOrder
  BY <1>6, MoveOnType DEF LeaveOrder, AboutAnOrder
<1>7. CASE RequestCancel
  <2>1. txn.cur \in Keys
    BY <1>7 DEF RequestCancel, CurrentOrder, AboutAnOrder
  <2> QED
    BY <1>7, <2>1, MoveOnType DEF RequestCancel, AboutAnOrder
<1> QED
  BY <1>2, <1>3, <1>4, <1>5, <1>6, <1>7

\* So are the outcomes of asking for a candle and the decisions it leads to.
LEMMA DecisionType ==
  ASSUME Formed,
         \/ NoCandle \/ MarketFailed \/ GapDetected \/ NewCandle
         \/ NoOrderDecided \/ DecideClose \/ DecideEntry
  PROVE  Formed'
<1> USE DEF Formed, TypeOK, At, Pcs, AboutAnOrder
<1>0. w.gate \in Gate /\ w.pos \in Int
  BY DEF Database
<1>1. CASE NoCandle \/ NoOrderDecided
  BY <1>1, MoveOnType DEF NoCandle, NoOrderDecided
<1>2. CASE MarketFailed
  <2>1. w' \in Database
    BY <1>0, <1>2, OneMoreFailureType, RecomputeType, GateChangeType DEF MarketFailed
  <2> QED
    BY <1>2, <2>1, MoveOnType DEF MarketFailed
<1>3. CASE GapDetected
  <2>1. [w.gate EXCEPT !.ambiguous = TRUE] \in Gate
    BY <1>0 DEF Gate
  <2>2. w' \in Database
    BY <1>3, <2>1, RecomputeType, GateChangeType DEF GapDetected
  <2> QED
    BY <1>3, <2>2, MoveOnType DEF GapDetected
<1>4. CASE NewCandle
  <2>1. PICK drift \in BOOLEAN :
          w' = [w EXCEPT !.gate = Recompute([@ EXCEPT !.failures = 0, !.clock = drift])]
    BY <1>4 DEF NewCandle
  <2>2. [w.gate EXCEPT !.failures = 0, !.clock = drift] \in Gate
    <3>1. 0 \in 0 .. MaxApiFailures
      BY MaxApiFailuresAssumption
    <3> QED
      BY <1>0, <3>1 DEF Gate
  <2>3. w' \in Database
    BY <2>1, <2>2, RecomputeType, GateChangeType
  <2> QED
    BY <1>4, <2>3, MoveOnType DEF NewCandle
<1>5. CASE DecideClose
  <2>1. Abs(w.pos) \in Nat
    BY <1>0 DEF Abs
  <2> QED
    BY <1>5, <2>1, SaveOrderType DEF DecideClose, Keys
<1>6. CASE DecideEntry
  BY <1>6, EntryAssumption, SaveOrderType DEF DecideEntry, Keys
<1> QED
  BY <1>1, <1>2, <1>3, <1>4, <1>5, <1>6

\* A step that goes on to reconcile is well typed.
LEMMA ReconcileNextType ==
  ASSUME Formed, NEW after \in ReconReturns, txn' = Reconciling(txn, after),
         w' \in Database, db' = db, venue' \in [Keys -> VenueOrder], xpos' = xpos
  PROVE  Formed'
<1>1. txn' \in Transaction
  BY DEF Transaction, Reconciling, Pcs, PollReturns, Formed, TypeOK
<1>2. CurrentOrder'
  BY DEF Reconciling, CurrentOrder, AboutAnOrder, Transaction, Formed, TypeOK
<1> QED
  BY <1>1, <1>2 DEF Formed, TypeOK

\* An order received by the exchange is well formed there.
LEMMA ReceivedType ==
  ASSUME Formed, txn.cur \in Keys, Received
  PROVE  venue' \in [Keys -> VenueOrder]
<1>1. w.order[txn.cur] \in Row
  BY DEF Formed, TypeOK, Database
<1> DEFINE row == w.order[txn.cur]
           new == [st |-> "New", side |-> row.side, close |-> row.close,
                   qty |-> row.qty, filled |-> 0]
<1>2. new \in VenueOrder
  BY <1>1 DEF VenueOrder, Row, OpenVenue
<1>3. venue' = [venue EXCEPT ![txn.cur] = new]
  BY DEF Received
<1> HIDE DEF new
<1> QED
  BY <1>2, <1>3 DEF Formed, TypeOK

\* The outcomes of a submission are well typed.
LEMMA SubmitType ==
  ASSUME Formed, SubmitAccepted \/ SubmitRefused \/ SubmitTimedOut \/ Outcome
  PROVE  Formed'
<1> USE DEF Formed, TypeOK, At
<1>1. txn.cur \in Keys
  BY DEF CurrentOrder, AboutAnOrder, SubmitAccepted, SubmitRefused, SubmitTimedOut, Outcome
<1>2. CASE SubmitAccepted
  <2> DEFINE row == [w.order[txn.cur] EXCEPT !.id = TRUE, !.status = "SUBMITTED"]
  <2>1. row \in Row
    <3>1. w.order[txn.cur] \in Row
      BY <1>1 DEF Database
    <3> QED
      BY <3>1 DEF Row, Status, NonTerminal
  <2>2. w' = [w EXCEPT !.order[txn.cur] = row]
    BY <1>1, <1>2 DEF SubmitAccepted, Database
  <2> HIDE DEF row
  <2>3. w' \in Database
    BY <1>1, <2>1, <2>2, RowChangeType
  <2>4. txn' \in Transaction /\ CurrentOrder'
    BY <1>1, <1>2 DEF SubmitAccepted, Polling, Transaction, CurrentOrder, PollReturns, Pcs
  <2> QED
    BY <1>1, <1>2, <2>3, <2>4, ReceivedType DEF SubmitAccepted
<1>3. ASSUME NEW status \in Status, NotAccepted(status), venue' \in [Keys -> VenueOrder]
      PROVE  Formed'
  <2>1. SetStatus(w, txn.cur, status) \in Database
    BY <1>1, SetStatusType
  <2>2. w' \in Database
    BY <1>3, <2>1, OneMoreFailureType, GateChangeType DEF NotAccepted, Database
  <2> QED
    BY <1>3, <2>2, ReconcileNextType DEF NotAccepted, ReconReturns
<1>4. CASE SubmitRefused
  BY <1>3, <1>4 DEF SubmitRefused, Status, Terminal
<1>5. CASE SubmitTimedOut
  BY <1>1, <1>3, <1>5, ReceivedType DEF SubmitTimedOut, Status, NonTerminal
<1>6. CASE Outcome
  <2>1. CASE Goto("commit") /\ w' = w
    BY <1>6, <2>1, MoveOnType DEF Outcome, Pcs, AboutAnOrder
  <2>2. CASE /\ w' = [w EXCEPT !.gate = OneMoreFailure(@)]
             /\ txn' = Reconciling(txn, "commit")
    <3>1. w' \in Database
      BY <2>2, OneMoreFailureType, GateChangeType DEF Database
    <3> QED
      BY <1>6, <2>2, <3>1, ReconcileNextType DEF Outcome, ReconReturns
  <2> QED
    BY <1>6, <2>1, <2>2 DEF Outcome
<1> QED
  BY <1>2, <1>4, <1>5, <1>6

\* A handler begins well typed.
LEMMA BeginType ==
  ASSUME Formed, NEW kind \in Kinds, NEW d \in Database, NEW t \in Transaction,
         t.pc \notin AboutAnOrder, Begin(kind, d, t)
  PROVE  Formed'
<1>1. txn' \in Transaction /\ CurrentOrder'
  BY DEF Begin, Transaction, CurrentOrder
<1> QED
  BY <1>1 DEF Begin, Formed, TypeOK

\* The beginnings of the tick, of boot and of shutdown are well typed.
LEMMA BeginningType ==
  ASSUME Formed, TickBegin \/ Boot \/ Shutdown
  PROVE  Formed'
<1> USE DEF Formed, TypeOK
<1>1. ASSUME NEW after \in ReconReturns
      PROVE  /\ Reconciling(txn, after) \in Transaction
             /\ Reconciling(txn, after).pc \notin AboutAnOrder
  <2>1. Reconciling(txn, after) \in Transaction
    BY <1>1 DEF Transaction, Reconciling, Pcs, PollReturns
  <2>2. Reconciling(txn, after).pc = "reconPositions"
    BY DEF Transaction, Reconciling
  <2> QED
    BY <2>1, <2>2 DEF AboutAnOrder
<1>2. /\ [txn EXCEPT !.pc = "pollDue"] \in Transaction
      /\ [txn EXCEPT !.pc = "pollDue"].pc \notin AboutAnOrder
  BY DEF Transaction, Pcs, AboutAnOrder
<1>3. [db EXCEPT !.gate.opstate = "ENCERRANDO"] \in Database
  BY DEF Database, Gate, OpStates
<1>4. CASE TickBegin
  BY <1>1, <1>2, <1>4, BeginType DEF TickBegin, Kinds, ReconReturns
<1>5. CASE Boot
  BY <1>1, <1>5, BeginType DEF Boot, Kinds, ReconReturns
<1>6. CASE Shutdown
  BY <1>1, <1>3, <1>6, BeginType DEF Shutdown, Kinds, ReconReturns
<1> QED
  BY <1>4, <1>5, <1>6

\* The control endpoints are well typed.
LEMMA ControlType ==
  ASSUME Formed, ControlStep
  PROVE  Formed'
<1> USE DEF Formed, TypeOK, At
<1>0. db.gate \in Gate /\ w.gate \in Gate
  BY DEF Database
<1>1. CASE KillBegin
  <2>1. [db.gate EXCEPT !.kill = TRUE] \in Gate
    BY <1>0 DEF Gate
  <2>2. [db EXCEPT !.gate = Recompute([@ EXCEPT !.kill = TRUE])] \in Database
    BY <2>1, RecomputeType, GateChangeType
  <2>3. Trackable(db) \in SUBSET Keys
    BY DEF Trackable, Live
  <2>4. /\ [txn EXCEPT !.pc = "killNext", !.todo = Trackable(db)] \in Transaction
        /\ [txn EXCEPT !.pc = "killNext", !.todo = Trackable(db)].pc \notin AboutAnOrder
    BY <2>3 DEF Transaction, Pcs, AboutAnOrder
  <2> QED
    BY <1>1, <2>2, <2>4, BeginType DEF KillBegin, Kinds
<1>2. CASE KillNext
  <2>1. PICK k \in txn.todo :
          \/ /\ w' = SetStatus(w, k, "CANCEL_PENDING")
             /\ txn' = [txn EXCEPT !.pc = "cancel", !.cur = k, !.then = "killNext",
                                   !.todo = @ \ {k}]
          \/ Goto("illegalMove") /\ w' = w
    BY <1>2 DEF KillNext
  <2>2. k \in Keys
    BY DEF Transaction
  <2>3. CASE /\ w' = SetStatus(w, k, "CANCEL_PENDING")
             /\ txn' = [txn EXCEPT !.pc = "cancel", !.cur = k, !.then = "killNext",
                                   !.todo = @ \ {k}]
    <3>1. w' \in Database
      BY <2>2, <2>3, SetStatusType DEF Status, NonTerminal
    <3>2. txn' \in Transaction /\ CurrentOrder'
      BY <2>2, <2>3 DEF Transaction, Pcs, PollReturns, CurrentOrder
    <3> QED
      BY <1>2, <3>1, <3>2 DEF KillNext
  <2>4. CASE Goto("illegalMove") /\ w' = w
    BY <1>2, <2>4, MoveOnType DEF KillNext, Pcs, AboutAnOrder
  <2> QED
    BY <2>1, <2>3, <2>4
<1>3. CASE KillEnd
  <2>1. [w.gate EXCEPT !.unknown = HasUnknown(w)] \in Gate
    BY <1>0 DEF Gate, HasUnknown
  <2>2. w' \in Database
    BY <1>3, <2>1, RecomputeType, GateChangeType DEF KillEnd
  <2>3. CASE txn' = Reconciling(txn, "commit")
    BY <1>3, <2>2, <2>3, ReconcileNextType DEF KillEnd, ReconReturns
  <2>4. CASE txn' = [txn EXCEPT !.pc = "commit"]
    <3>1. txn' \in Transaction /\ CurrentOrder'
      BY <2>4 DEF Transaction, Pcs, CurrentOrder, AboutAnOrder
    <3> QED
      BY <1>3, <2>2, <3>1 DEF KillEnd
  <2> QED
    BY <1>3, <2>3, <2>4 DEF KillEnd
<1>4. ASSUME NEW g \in Gate, Endpoint(g)
      PROVE  Formed'
  BY <1>4, GateChangeType DEF Endpoint, CurrentOrder
<1>5. CASE Disengage
  <2>1. [db.gate EXCEPT !.kill = FALSE] \in Gate
    BY <1>0 DEF Gate
  <2> QED
    BY <1>4, <1>5, <2>1, RecomputeType DEF Disengage
<1>6. CASE Activate
  <2>1. [db.gate EXCEPT !.opstate = "ATIVO"] \in Gate
    BY <1>0 DEF Gate, OpStates
  <2> QED
    BY <1>4, <1>6, <2>1 DEF Activate
<1>7. CASE Pause
  <2>1. [db.gate EXCEPT !.opstate = "PAUSADO"] \in Gate
    BY <1>0 DEF Gate, OpStates
  <2> QED
    BY <1>4, <1>7, <2>1 DEF Pause
<1> QED
  BY <1>1, <1>2, <1>3, <1>5, <1>6, <1>7 DEF ControlStep

\* The end of boot, and the ends of a transaction, are well typed.
LEMMA EndingType ==
  ASSUME Formed, BootEnd \/ Commit \/ Rollback \/ Crash
  PROVE  Formed'
<1> USE DEF Formed, TypeOK, At
<1>1. CASE BootEnd
  <2>1. w' \in Database
    BY <1>1 DEF BootEnd, Database, Gate, OpStates
  <2> QED
    BY <1>1, <2>1, MoveOnType DEF BootEnd, Pcs, AboutAnOrder
<1>2. ASSUME NEW kind \in Kinds, txn' = Idle(kind)
      PROVE  txn' \in Transaction /\ CurrentOrder'
  BY <1>2 DEF Transaction, Idle, CurrentOrder, AboutAnOrder, Pcs, PollReturns, ReconReturns
<1>3. CASE Commit
  BY <1>2, <1>3 DEF Commit, Kinds
<1>4. CASE Rollback
  BY <1>2, <1>4 DEF Rollback, Kinds
<1>5. CASE Crash
  BY <1>2, <1>5 DEF Crash, Kinds
<1> QED
  BY <1>1, <1>3, <1>4, <1>5

\* The initial state is well formed.
LEMMA InitType == Init => Formed
<1> SUFFICES ASSUME Init PROVE Formed
  OBVIOUS
<1>1. FreshGate \in Gate
  BY MaxApiFailuresAssumption DEF FreshGate, Gate, OpStates
<1>2. NoRow \in Row
  BY DEF NoRow, Row
<1>3. FreshDb \in Database
  BY <1>1, <1>2 DEF FreshDb, Database
<1>4. Idle("down") \in Transaction /\ CurrentOrder
  BY DEF Init, Idle, Transaction, Kinds, Pcs, PollReturns, ReconReturns, CurrentOrder,
         AboutAnOrder
<1>5. NoOrder \in VenueOrder
  BY DEF NoOrder, VenueOrder
<1> QED
  BY <1>3, <1>4, <1>5 DEF Init, Formed, TypeOK

\* Every step of the system keeps the state well formed.
LEMMA StepType == Formed /\ [Next]_vars => Formed'
<1> SUFFICES ASSUME Formed, [Next]_vars PROVE Formed'
  OBVIOUS
<1>1. CASE UNCHANGED vars
  BY <1>1 DEF vars, Formed, TypeOK, CurrentOrder
<1>2. CASE Next
  BY <1>2, VenueType, PollType, ReconType, PollingTickType, DecisionType, SubmitType,
     BeginningType, ControlType, EndingType
     DEF Next, TickStep
<1> QED
  BY <1>1, <1>2

\* Type correctness: whatever the keys, quantities and disturbances, every state
\* the handlers reach is one of well-formed rows, system_state and transaction.
THEOREM TypeCorrect == Spec => []TypeOK
<1>1. Init => Formed
  BY InitType
<1>2. Formed /\ [Next]_vars => Formed'
  BY StepType
<1>3. Formed => TypeOK
  BY DEF Formed
<1> QED
  BY <1>1, <1>2, <1>3, PTL DEF Spec

-----------------------------------------------------------------------------
(* Terminal means settled *)

\* Whatever the exchange does, a done order stays as it is, an order never loses
\* fills, and one it never received has none.
Grows(k) ==
  /\ venue'[k].filled >= venue[k].filled
  /\ venue[k].st \in DoneVenue =>
       venue'[k].st = venue[k].st /\ venue'[k].filled = venue[k].filled
  /\ venue'[k].st = "none" => venue'[k].filled = 0

\* A step preserves the bookkeeping if the exchange only moves forward, the rows
\* it leaves in the session are faithful to the exchange as it was, and what it
\* commits comes from there.
LEMMA BookkeepingStep ==
  ASSUME Formed, Formed', Bookkeeping, SeenIsTrue',
         \A k \in Keys : Grows(k),
         \A k \in Keys : Faithful(w'.order[k], k),
         db'.order = db.order \/ db'.order = w.order
  PROVE  Bookkeeping'
<1> SUFFICES ASSUME NEW k \in Keys
             PROVE  /\ Faithful(db.order[k], k)' /\ Faithful(w.order[k], k)'
                    /\ (venue[k].st = "none" => venue[k].filled = 0)'
  BY DEF Bookkeeping
<1>1. venue[k].filled \in Nat /\ venue'[k].filled \in Nat
  BY DEF Formed, TypeOK, VenueOrder
<1>2. ASSUME NEW row, Faithful(row, k)
      PROVE  /\ row.execs \subseteq 1 .. venue'[k].filled
             /\ row.status \in {"FILLED", "CANCELLED"} =>
                  /\ venue'[k].st \in DoneVenue
                  /\ row.execs = 1 .. venue'[k].filled
  BY <1>1, <1>2 DEF Grows, Faithful, Settled
<1>3. Faithful(db'.order[k], k)
  BY DEF Bookkeeping
<1> QED
  BY <1>2, <1>3 DEF Faithful, Settled, Grows

\* The status half of a snapshot makes an order terminal only on a complete
\* report.
LEMMA StatusSyncedTerminal ==
  ASSUME NEW row \in Row, NEW snap \in SnapshotType,
         StatusSynced(row, snap).status \in Terminal
  PROVE  \/ StatusSynced(row, snap).status = row.status
         \/ StatusSynced(row, snap).status = snap.status /\ snap.complete
  BY DEF StatusSynced, Row, SnapshotType, Terminal

\* Applying a true report keeps every row faithful.
LEMMA ApplyFaithful ==
  ASSUME NEW d \in Database, NEW k \in Keys, NEW snap \in SnapshotType,
         \A j \in Keys : Faithful(d.order[j], j),
         snap.fills \subseteq 1 .. venue[k].filled,
         snap.status \in {"FILLED", "CANCELLED"} /\ snap.complete =>
           venue[k].st \in DoneVenue /\ snap.fills = 1 .. venue[k].filled
  PROVE  \A j \in Keys : Faithful(Apply(d, k, snap).order[j], j)
<1> DEFINE row == d.order[k]
           synced == [StatusSynced(row, snap) EXCEPT !.execs = row.execs \cup snap.fills]
<1>1. row \in Row
  BY DEF Database
<1>2. Apply(d, k, snap).order = [d.order EXCEPT ![k] = synced]
  BY DEF Apply
<1>3. /\ synced.status = StatusSynced(row, snap).status
      /\ synced.execs = row.execs \cup snap.fills
  BY <1>1, StatusSyncedType DEF Row
<1>4. Faithful(synced, k)
  <2>1. synced.execs \subseteq 1 .. venue[k].filled
    BY <1>3 DEF Faithful
  <2>2. ASSUME synced.status \in {"FILLED", "CANCELLED"}
        PROVE  venue[k].st \in DoneVenue /\ synced.execs = 1 .. venue[k].filled
    <3>1. \/ synced.status = row.status
          \/ synced.status = snap.status /\ snap.complete
      BY <1>1, <1>3, <2>2, StatusSyncedTerminal DEF Terminal
    <3>2. Faithful(row, k)
      OBVIOUS
    <3> HIDE DEF row, synced
    <3> QED
      BY <1>3, <2>2, <3>1, <3>2 DEF Faithful, Settled
  <2> QED
    BY <2>1, <2>2 DEF Faithful, Settled
<1> HIDE DEF synced
<1>5. d.order \in [Keys -> Row]
  BY DEF Database
<1> QED
  BY <1>2, <1>4, <1>5

\* A step that asks nothing of the exchange and leaves the rows of the session as
\* they were, or takes the committed ones again.
LEMMA RowsKept ==
  ASSUME Formed, Formed', Bookkeeping, venue' = venue, txn'.pc # "pollFills",
         db'.order = db.order \/ db'.order = w.order,
         w'.order = w.order \/ w'.order = db.order
  PROVE  Bookkeeping'
<1>1. SeenIsTrue'
  BY DEF SeenIsTrue
<1>2. \A k \in Keys : Grows(k)
  BY DEF Grows, Bookkeeping, Formed, TypeOK, VenueOrder
<1>3. \A k \in Keys : Faithful(w'.order[k], k)
  BY DEF Bookkeeping
<1> QED
  BY <1>1, <1>2, <1>3, BookkeepingStep

\* A step that changes the status of one order, without closing it.
LEMMA OneRowStays ==
  ASSUME Formed, Formed', Bookkeeping, \A k \in Keys : Grows(k),
         txn'.pc # "pollFills", db' = db,
         NEW k \in Keys, NEW row \in Row, w'.order = [w.order EXCEPT ![k] = row],
         row.status \notin {"FILLED", "CANCELLED"},
         row.execs \subseteq w.order[k].execs
  PROVE  Bookkeeping'
<1>1. SeenIsTrue'
  BY DEF SeenIsTrue
<1>2. w.order \in [Keys -> Row]
  BY DEF Formed, TypeOK, Database
<1>3. ASSUME NEW j \in Keys
      PROVE  Faithful(w'.order[j], j)
  <2>1. Faithful(w.order[k], k) /\ Faithful(w.order[j], j)
    BY DEF Bookkeeping
  <2>2. Faithful(row, k)
    BY <2>1 DEF Faithful, Settled
  <2>3. w'.order[j] = IF j = k THEN row ELSE w.order[j]
    BY <1>2
  <2> QED
    BY <2>1, <2>2, <2>3
<1> QED
  BY <1>1, <1>3, BookkeepingStep

\* Whatever the exchange does, it only moves forward.
LEMMA VenueGrows ==
  ASSUME Formed, Bookkeeping, VenueMoves
  PROVE  \A k \in Keys : Grows(k)
<1> USE DEF Formed, TypeOK
<1> SUFFICES ASSUME NEW k \in Keys PROVE Grows(k)
  OBVIOUS
<1>0. venue[k].filled \in Nat /\ (venue[k].st = "none" => venue[k].filled = 0)
  BY DEF VenueOrder, Bookkeeping
<1>1. CASE VenueProtect
  BY <1>0, <1>1 DEF VenueProtect, Grows
<1>2. ASSUME NEW j \in Keys, VenueFill(j)
      PROVE  Grows(k)
  <2>1. venue[j].st \notin DoneVenue /\ venue[j].st \in OpenVenue
    BY <1>2 DEF VenueFill, MayFill, OpenVenue, DoneVenue
  <2>2. CASE k = j
    <3>0. venue[k] \in VenueOrder
      OBVIOUS
    <3>1. venue'[k].filled = venue[k].filled + 1
      BY <1>2, <2>2, <3>0 DEF VenueFill, VenueOrder
    <3>2. venue'[k].st \in {"Filled", "PartiallyFilled"}
      BY <1>2, <2>2, <3>0 DEF VenueFill, VenueOrder
    <3> QED
      BY <1>0, <2>1, <2>2, <3>1, <3>2 DEF Grows
  <2>3. CASE k # j
    BY <1>0, <1>2, <2>3 DEF VenueFill, Grows
  <2> QED
    BY <2>2, <2>3
<1>3. ASSUME NEW j \in Keys, VenueCancel(j) \/ VenueReject(j)
      PROVE  Grows(k)
  <2>1. venue[j].st \notin DoneVenue
    BY <1>3 DEF VenueCancel, VenueReject, OpenVenue, DoneVenue
  <2>2. PICK st \in {"Cancelled", "Rejected"} : venue' = [venue EXCEPT ![j].st = st]
    BY <1>3 DEF VenueCancel, VenueReject
  <2>3. venue[k] \in VenueOrder
    OBVIOUS
  <2>4. venue'[k].filled = venue[k].filled
    BY <2>2, <2>3 DEF VenueOrder
  <2>5. venue'[k].st = IF k = j THEN st ELSE venue[k].st
    BY <2>2, <2>3 DEF VenueOrder
  <2> QED
    BY <1>0, <2>1, <2>4, <2>5 DEF Grows
<1> QED
  BY <1>1, <1>2, <1>3 DEF VenueMoves

\* What the exchange does on its own keeps the books faithful: fills may be
\* missing from them, never too many.
LEMMA VenueKeepsBooks ==
  ASSUME Formed, Formed', Bookkeeping, VenueMoves
  PROVE  Bookkeeping'
<1> USE DEF Formed, TypeOK
<1>1. \A k \in Keys : Grows(k)
  BY VenueGrows
<1>2. UNCHANGED <<db, w, txn>>
  BY DEF VenueMoves, VenueProtect, VenueFill, VenueCancel, VenueReject
<1>3. SeenIsTrue'
  <2>1. txn.pc = "pollFills" => txn.cur \in Keys
    BY DEF CurrentOrder, AboutAnOrder
  <2> QED
    BY <1>1, <1>2, <2>1 DEF SeenIsTrue, Bookkeeping, Grows
<1>4. \A k \in Keys : Faithful(w'.order[k], k)
  BY <1>2 DEF Bookkeeping
<1> QED
  BY <1>1, <1>2, <1>3, <1>4, BookkeepingStep

\* A true report keeps the books faithful.
LEMMA AnsweredKeepsBooks ==
  ASSUME Formed, Formed', Bookkeeping, txn.cur \in Keys,
         NEW snap \in SnapshotType, Answered(snap),
         snap.fills \subseteq 1 .. venue[txn.cur].filled,
         snap.status \in {"FILLED", "CANCELLED"} /\ snap.complete =>
           venue[txn.cur].st \in DoneVenue /\ snap.fills = 1 .. venue[txn.cur].filled
  PROVE  Bookkeeping'
<1> USE DEF Formed, TypeOK
<1>1. txn'.pc # "pollFills"
  <2>1. txn.then # "pollFills"
    BY DEF Transaction, PollReturns
  <2>2. txn'.pc = txn.then
    BY DEF Answered, Goto, Transaction
  <2> QED
    BY <2>1, <2>2
<1>2. SeenIsTrue'
  BY <1>1 DEF SeenIsTrue
<1>3. \A k \in Keys : Grows(k)
  BY DEF Grows, Bookkeeping, VenueOrder, Answered
<1>4. \A k \in Keys : Faithful(w.order[k], k)
  BY DEF Bookkeeping
<1>5. w' = Apply(w, txn.cur, snap) /\ db' = db
  BY DEF Answered
<1>6. \A k \in Keys : Faithful(w'.order[k], k)
  BY <1>4, <1>5, ApplyFaithful
<1> QED
  BY <1>2, <1>3, <1>5, <1>6, BookkeepingStep

\* Only the statuses of a finished order translate to a finished one.
LEMMA TranslateEnds ==
  ASSUME NEW st, Translate(st) \in {"FILLED", "CANCELLED"}
  PROVE  st \in DoneVenue /\ NeedsFills(st)
  BY DEF Translate, DoneVenue, NeedsFills

\* Polling an order, both calls, keeps the books faithful: an end noticed by the
\* first call is still true at the second, which then brings every fill.
LEMMA PollKeepsBooks ==
  ASSUME Formed, Formed', Bookkeeping, PollStep
  PROVE  Bookkeeping'
<1> USE DEF At
<1>0. Formed => /\ txn.pc \in AboutAnOrder => txn.cur \in Keys
                /\ txn.cur \in Keys => venue[txn.cur] \in VenueOrder
  BY DEF Formed, TypeOK, CurrentOrder
<1>1. CASE PollUnanswered
  <2>1. Snapshot("UNKNOWN", {}, TRUE) \in SnapshotType
    BY FS_EmptySet DEF Snapshot, SnapshotType, Status, NonTerminal
  <2> QED
    BY <1>0, <1>1, <2>1, AnsweredKeepsBooks
       DEF PollUnanswered, Snapshot, AboutAnOrder
<1>2. CASE PollStatus
  <2>1. Snapshot(Translate(venue[txn.cur].st), {}, TRUE) \in SnapshotType
    BY FS_EmptySet, TranslateType DEF Snapshot, SnapshotType
  <2>2. Translate(venue[txn.cur].st) \notin {"FILLED", "CANCELLED"}
    BY <1>2, TranslateEnds DEF PollStatus
  <2> QED
    BY <1>0, <1>2, <2>1, <2>2, AnsweredKeepsBooks DEF PollStatus, Snapshot, AboutAnOrder
<1>3. CASE PollStatusThenFills
  <2>1. txn' = [txn EXCEPT !.pc = "pollFills", !.seen = venue[txn.cur].st]
        /\ UNCHANGED <<db, w, venue, xpos>>
    BY <1>3 DEF PollStatusThenFills
  <2>2. txn'.seen = venue'[txn'.cur].st
    BY <2>1 DEF Formed, TypeOK, Transaction
  <2>3. SeenIsTrue'
    BY <2>2 DEF SeenIsTrue
  <2>4. \A k \in Keys : Grows(k)
    BY <2>1 DEF Grows, Bookkeeping, Formed, TypeOK, VenueOrder
  <2>5. \A k \in Keys : Faithful(w'.order[k], k)
    BY <2>1 DEF Bookkeeping
  <2> QED
    BY <2>1, <2>3, <2>4, <2>5, BookkeepingStep
<1>4. ASSUME NEW got \in SUBSET (1 .. venue[txn.cur].filled), NEW complete \in BOOLEAN,
             complete => got = 1 .. venue[txn.cur].filled,
             At("pollFills"), Answered(Snapshot(Translate(txn.seen), got, complete))
      PROVE  Bookkeeping'
  <2>1. txn.cur \in Keys /\ venue[txn.cur].filled \in Nat
    BY <1>0, <1>4 DEF VenueOrder, AboutAnOrder
  <2>2. Snapshot(Translate(txn.seen), got, complete) \in SnapshotType
    BY <2>1, FillsType, TranslateType DEF Snapshot, SnapshotType
  <2>3. Translate(txn.seen) \in {"FILLED", "CANCELLED"} => venue[txn.cur].st \in DoneVenue
    BY <1>4, TranslateEnds DEF Bookkeeping, SeenIsTrue
  <2> HIDE DEF At
  <2> QED
    BY <1>4, <2>1, <2>2, <2>3, AnsweredKeepsBooks DEF Snapshot
<1>5. CASE FillsComplete
  BY <1>5, <1>4 DEF FillsComplete
<1>6. CASE FillsInterrupted
  BY <1>6, <1>4 DEF FillsInterrupted
<1> QED
  BY <1>1, <1>2, <1>3, <1>5, <1>6 DEF PollStep

\* Reconciling changes no order by itself; it polls them.
LEMMA ReconKeepsBooks ==
  ASSUME Formed, Formed', Bookkeeping, ReconStep
  PROVE  Bookkeeping'
<1> USE DEF Formed, TypeOK
<1>1. ASSUME NEW ordersOk, ReconFinish(ordersOk)
      PROVE  Bookkeeping'
  <2>1. w'.order = w.order
    BY <1>1 DEF ReconFinish, Database
  <2>2. txn'.pc = txn.after
    BY <1>1 DEF ReconFinish, Idle
  <2>3. txn'.pc # "pollFills"
    BY <2>2 DEF Transaction, ReconReturns
  <2> QED
    BY <1>1, <2>1, <2>3, RowsKept DEF ReconFinish
<1>2. CASE ReconPositions
  <2>1. txn'.pc # "pollFills"
    BY <1>2 DEF ReconPositions, Transaction
  <2> QED
    BY <1>2, <2>1, RowsKept DEF ReconPositions
<1>3. CASE ReconNextOrder
  <2>1. txn'.pc # "pollFills"
    BY <1>3 DEF ReconNextOrder, Polling, Transaction
  <2> QED
    BY <1>3, <2>1, RowsKept DEF ReconNextOrder
<1> QED
  BY <1>1, <1>2, <1>3 DEF ReconStep, ReconOpenOrders, ReconUnreachable

\* The steps of a tick that poll the open orders and apply the policy.
LEMMA PollingTickKeepsBooks ==
  ASSUME Formed, Formed', Bookkeeping,
         \/ PollDue \/ PollNotDue \/ PollNext \/ CancelStalled \/ LeaveOrder
         \/ RequestCancel
  PROVE  Bookkeeping'
<1> USE DEF Formed, TypeOK
<1>1. ASSUME txn' \in Transaction, w'.order = w.order, db' = db, venue' = venue,
             txn'.pc # "pollFills"
      PROVE  Bookkeeping'
  BY <1>1, RowsKept
<1>2. ASSUME NEW pc, Goto(pc)
      PROVE  txn'.pc = pc
  BY <1>2 DEF Goto, Transaction
<1>3. CASE PollDue
  BY <1>1, <1>3 DEF PollDue, Transaction, Database
<1>4. CASE PollNotDue
  BY <1>1, <1>2, <1>4 DEF PollNotDue, Database
<1>5. CASE PollNext
  <2>1. txn'.pc # "pollFills"
    BY <1>2, <1>5 DEF PollNext, Polling, Transaction
  <2> QED
    BY <1>1, <1>5, <2>1 DEF PollNext
<1>6. CASE CancelStalled
  <2>0. txn.cur \in Keys
    BY <1>6 DEF CancelStalled, At, CurrentOrder, AboutAnOrder
  <2> DEFINE row == [w.order[txn.cur] EXCEPT !.status = "CANCEL_PENDING"]
  <2>1. w.order[txn.cur] \in Row
    BY <2>0 DEF Database
  <2>2. row \in Row /\ row.status = "CANCEL_PENDING" /\ row.execs = w.order[txn.cur].execs
    BY <2>1 DEF Row, Status, NonTerminal
  <2>3. w'.order = [w.order EXCEPT ![txn.cur] = row]
    BY <1>6 DEF CancelStalled, SetStatus, Database
  <2>4. txn'.pc # "pollFills"
    BY <1>6 DEF CancelStalled, Transaction
  <2>5. \A k \in Keys : Grows(k)
    BY <1>6 DEF CancelStalled, Grows, Bookkeeping, VenueOrder
  <2>6. db' = db
    BY <1>6 DEF CancelStalled
  <2> HIDE DEF row
  <2> QED
    BY <2>0, <2>2, <2>3, <2>4, <2>5, <2>6, OneRowStays
<1>7. CASE LeaveOrder
  BY <1>1, <1>2, <1>7 DEF LeaveOrder
<1>8. CASE RequestCancel
  BY <1>1, <1>2, <1>8 DEF RequestCancel
<1> QED
  BY <1>3, <1>4, <1>5, <1>6, <1>7, <1>8

\* The steps of a tick that look at the market and decide.
LEMMA DecisionKeepsBooks ==
  ASSUME Formed, Formed', Bookkeeping,
         \/ NoCandle \/ MarketFailed \/ GapDetected \/ NewCandle
         \/ NoOrderDecided \/ DecideClose \/ DecideEntry
  PROVE  Bookkeeping'
<1> USE DEF Formed, TypeOK
<1>1. ASSUME NEW pc, Goto(pc), pc # "pollFills", w'.order = w.order, db' = db,
             venue' = venue
      PROVE  Bookkeeping'
  BY <1>1, RowsKept DEF Goto, Transaction
<1>2. ASSUME NEW k \in Keys, NEW close \in BOOLEAN, NEW side \in Side, NEW qty \in Nat,
             SaveOrder(k, close, side, qty)
      PROVE  Bookkeeping'
  <2> DEFINE row == [NoRow EXCEPT !.status = "PENDING_SUBMIT", !.close = close,
                                  !.side = side, !.qty = qty]
  <2>1. row \in Row /\ row.status = "PENDING_SUBMIT" /\ row.execs = {}
    BY DEF NoRow, Row, Status, NonTerminal
  <2>2. w'.order = [w.order EXCEPT ![k] = row]
    BY <1>2 DEF SaveOrder, Database
  <2>3. txn'.pc # "pollFills"
    BY <1>2 DEF SaveOrder, Transaction
  <2>4. \A j \in Keys : Grows(j)
    BY <1>2 DEF SaveOrder, Grows, Bookkeeping, VenueOrder
  <2>5. db' = db
    BY <1>2 DEF SaveOrder
  <2> HIDE DEF row
  <2> QED
    BY <2>1, <2>2, <2>3, <2>4, <2>5, OneRowStays
<1>3. CASE NoCandle
  BY <1>1, <1>3 DEF NoCandle
<1>4. CASE MarketFailed
  BY <1>1, <1>4 DEF MarketFailed, Database
<1>5. CASE GapDetected
  BY <1>1, <1>5 DEF GapDetected, Database
<1>6. CASE NewCandle
  <2>1. w'.order = w.order
    BY <1>6 DEF NewCandle, Database
  <2> QED
    BY <1>1, <1>6, <2>1 DEF NewCandle
<1>7. CASE NoOrderDecided
  BY <1>1, <1>7 DEF NoOrderDecided
<1>8. CASE DecideClose
  <2>1. PICK k \in CloseKeys :
          SaveOrder(k, TRUE, IF w.pos > 0 THEN "SELL" ELSE "BUY", Abs(w.pos))
    BY <1>8 DEF DecideClose
  <2>2. Abs(w.pos) \in Nat /\ k \in Keys
    BY DEF Database, Abs, Keys
  <2> QED
    BY <1>2, <2>1, <2>2 DEF Side
<1>9. CASE DecideEntry
  BY <1>2, <1>9, EntryAssumption DEF DecideEntry, Keys, Side
<1> QED
  BY <1>3, <1>4, <1>5, <1>6, <1>7, <1>8, <1>9

\* The order the exchange receives is new there, and has no fill yet.
LEMMA ReceivedGrows ==
  ASSUME Formed, Bookkeeping, txn.cur \in Keys, Received \/ UNCHANGED venue
  PROVE  \A k \in Keys : Grows(k)
<1> SUFFICES ASSUME NEW k \in Keys PROVE Grows(k)
  OBVIOUS
<1>1. venue[k].filled \in Nat /\ (venue[k].st = "none" => venue[k].filled = 0)
  BY DEF Formed, TypeOK, VenueOrder, Bookkeeping
<1>2. CASE UNCHANGED venue
  BY <1>1, <1>2 DEF Grows
<1>3. CASE Received
  <2>1. CASE k = txn.cur
    <3>1. venue[k].st = "none"
      BY <1>3, <2>1 DEF Received
    <3>2. venue'[k].st = "New" /\ venue'[k].filled = 0
      BY <1>3, <2>1 DEF Received, Formed, TypeOK
    <3> QED
      BY <1>1, <3>1, <3>2 DEF Grows, DoneVenue
  <2>2. CASE k # txn.cur
    BY <1>1, <1>3, <2>2 DEF Grows, Received, Formed, TypeOK
  <2> QED
    BY <2>1, <2>2
<1> QED
  BY <1>2, <1>3

\* Submitting, and noting its result, closes no order as filled or cancelled.
LEMMA SubmitKeepsBooks ==
  ASSUME Formed, Formed', Bookkeeping,
         SubmitAccepted \/ SubmitRefused \/ SubmitTimedOut \/ Outcome
  PROVE  Bookkeeping'
<1> USE DEF Formed, TypeOK
<1>0. txn.pc \in AboutAnOrder => txn.cur \in Keys
  BY DEF CurrentOrder
<1>1. ASSUME NEW row \in Row, txn.cur \in Keys,
             row.status \notin {"FILLED", "CANCELLED"},
             row.execs = w.order[txn.cur].execs,
             w'.order = [w.order EXCEPT ![txn.cur] = row],
             Received \/ UNCHANGED venue, txn'.pc # "pollFills", db' = db
      PROVE  Bookkeeping'
  <2>1. \A k \in Keys : Grows(k)
    BY <1>1, ReceivedGrows
  <2> QED
    BY <1>1, <2>1, OneRowStays
<1>2. CASE SubmitAccepted
  <2>1. txn.cur \in Keys
    BY <1>0, <1>2 DEF SubmitAccepted, At, AboutAnOrder
  <2>2. w.order[txn.cur] \in Row
    BY <2>1 DEF Database
  <2> DEFINE row == [w.order[txn.cur] EXCEPT !.id = TRUE, !.status = "SUBMITTED"]
  <2>3. row \in Row /\ row.status = "SUBMITTED" /\ row.execs = w.order[txn.cur].execs
    BY <2>2 DEF Row, Status, NonTerminal
  <2>4. w' = [w EXCEPT !.order[txn.cur] = row]
    BY <1>2, <2>1 DEF SubmitAccepted, Database
  <2> HIDE DEF row
  <2>5. w'.order = [w.order EXCEPT ![txn.cur] = row]
    BY <2>4 DEF Database
  <2>6. txn'.pc # "pollFills"
    BY <1>2 DEF SubmitAccepted, Polling, Transaction
  <2>7. (Received \/ UNCHANGED venue) /\ db' = db
    BY <1>2 DEF SubmitAccepted
  <2> QED
    BY <1>1, <2>1, <2>3, <2>5, <2>6, <2>7
<1>3. ASSUME NEW status \in {"REJECTED", "UNKNOWN"}, At("submit"), NotAccepted(status),
             Received \/ UNCHANGED venue
      PROVE  Bookkeeping'
  <2>1. txn.cur \in Keys
    BY <1>0, <1>3 DEF At, AboutAnOrder
  <2>2. w.order[txn.cur] \in Row
    BY <2>1 DEF Database
  <2> DEFINE row == [w.order[txn.cur] EXCEPT !.status = status]
  <2>3. row \in Row /\ row.status = status /\ row.execs = w.order[txn.cur].execs
    BY <2>2 DEF Row, Status, NonTerminal, Terminal
  <2>4. SetStatus(w, txn.cur, status).order = [w.order EXCEPT ![txn.cur] = row]
    BY <2>1 DEF SetStatus, Database
  <2> HIDE DEF row
  <2>5. w'.order = SetStatus(w, txn.cur, status).order
    BY <1>3, <2>1, SetStatusType DEF NotAccepted, Database, Status, NonTerminal, Terminal
  <2>6. txn'.pc # "pollFills" /\ db' = db
    BY <1>3 DEF NotAccepted, Reconciling, Transaction
  <2> QED
    BY <1>1, <1>3, <2>1, <2>3, <2>4, <2>5, <2>6
<1>4. CASE Outcome
  <2>1. w'.order = w.order
    BY <1>4 DEF Outcome, Database
  <2>2. txn'.pc # "pollFills"
    BY <1>4 DEF Outcome, Reconciling, Goto, Transaction
  <2> QED
    BY <1>4, <2>1, <2>2, RowsKept DEF Outcome
<1> QED
  BY <1>2, <1>3, <1>4 DEF SubmitRefused, SubmitTimedOut

\* The emergency block asks for cancellations; the other endpoints touch no order.
LEMMA ControlKeepsBooks ==
  ASSUME Formed, Formed', Bookkeeping, ControlStep
  PROVE  Bookkeeping'
<1> USE DEF Formed, TypeOK
<1>1. CASE KillBegin
  <2>1. w'.order = db.order
    BY <1>1 DEF KillBegin, Begin, Database
  <2>2. txn'.pc # "pollFills"
    BY <1>1 DEF KillBegin, Begin, Transaction
  <2> QED
    BY <1>1, <2>1, <2>2, RowsKept DEF KillBegin, Begin
<1>2. CASE KillNext
  <2>1. PICK k \in txn.todo :
          \/ /\ w' = SetStatus(w, k, "CANCEL_PENDING")
             /\ txn' = [txn EXCEPT !.pc = "cancel", !.cur = k, !.then = "killNext",
                                   !.todo = @ \ {k}]
          \/ Goto("illegalMove") /\ w' = w
    BY <1>2 DEF KillNext
  <2>2. k \in Keys
    BY DEF Transaction
  <2>3. txn'.pc # "pollFills"
    BY <2>1 DEF Goto, Transaction
  <2>4. CASE w' = SetStatus(w, k, "CANCEL_PENDING")
    <3> DEFINE row == [w.order[k] EXCEPT !.status = "CANCEL_PENDING"]
    <3>1. w.order[k] \in Row
      BY <2>2 DEF Database
    <3>2. row \in Row /\ row.status = "CANCEL_PENDING" /\ row.execs = w.order[k].execs
      BY <3>1 DEF Row, Status, NonTerminal
    <3>3. w'.order = [w.order EXCEPT ![k] = row]
      BY <2>4 DEF SetStatus, Database
    <3>4. \A j \in Keys : Grows(j)
      BY <1>2 DEF KillNext, Grows, Bookkeeping, VenueOrder
    <3>5. db' = db
      BY <1>2 DEF KillNext
    <3> HIDE DEF row
    <3> QED
      BY <2>2, <2>3, <3>2, <3>3, <3>4, <3>5, OneRowStays
  <2>5. CASE w' = w
    BY <1>2, <2>3, <2>5, RowsKept DEF KillNext
  <2> QED
    BY <2>1, <2>4, <2>5
<1>3. CASE KillEnd
  <2>1. w'.order = w.order
    BY <1>3 DEF KillEnd, Database
  <2>2. txn'.pc # "pollFills"
    BY <1>3 DEF KillEnd, Reconciling, Transaction
  <2> QED
    BY <1>3, <2>1, <2>2, RowsKept DEF KillEnd
<1>4. ASSUME NEW g, Endpoint(g)
      PROVE  Bookkeeping'
  <2>1. db'.order = db.order /\ w'.order = db.order
    BY <1>4 DEF Endpoint, Database
  <2>2. UNCHANGED <<txn, venue>>
    BY <1>4 DEF Endpoint
  <2>3. SeenIsTrue'
    BY <2>2 DEF SeenIsTrue, Bookkeeping
  <2>4. \A k \in Keys : Grows(k)
    BY <2>2 DEF Grows, Bookkeeping, VenueOrder
  <2>5. \A k \in Keys : Faithful(w'.order[k], k)
    BY <2>1 DEF Bookkeeping
  <2> QED
    BY <2>1, <2>3, <2>4, <2>5, BookkeepingStep
<1> QED
  BY <1>1, <1>2, <1>3, <1>4 DEF ControlStep, Disengage, Activate, Pause

\* A handler starts from the committed rows; it ends by committing its own, or by
\* falling back to the committed ones.
LEMMA EndsKeepBooks ==
  ASSUME Formed, Formed', Bookkeeping,
         TickBegin \/ Boot \/ BootEnd \/ Shutdown \/ Commit \/ Rollback \/ Crash
  PROVE  Bookkeeping'
<1> USE DEF Formed, TypeOK
<1>1. ASSUME NEW kind, NEW d, NEW t, Begin(kind, d, t), d.order = db.order,
             txn'.pc # "pollFills"
      PROVE  Bookkeeping'
  BY <1>1, RowsKept DEF Begin
<1>2. CASE TickBegin
  <2>1. txn'.pc # "pollFills"
    BY <1>2 DEF TickBegin, Begin, Reconciling, Transaction
  <2> QED
    BY <1>1, <1>2, <2>1 DEF TickBegin
<1>3. CASE Boot
  <2>1. txn'.pc # "pollFills"
    BY <1>3 DEF Boot, Begin, Reconciling, Transaction
  <2> QED
    BY <1>1, <1>3, <2>1 DEF Boot
<1>4. CASE Shutdown
  <2>1. txn'.pc # "pollFills"
    BY <1>4 DEF Shutdown, Begin, Reconciling, Transaction
  <2>2. [db EXCEPT !.gate.opstate = "ENCERRANDO"].order = db.order
    BY DEF Database
  <2> QED
    BY <1>1, <1>4, <2>1, <2>2 DEF Shutdown
<1>5. CASE BootEnd
  <2>1. w'.order = w.order
    BY <1>5 DEF BootEnd, Database
  <2>2. txn'.pc # "pollFills"
    BY <1>5 DEF BootEnd, Goto, Transaction
  <2> QED
    BY <1>5, <2>1, <2>2, RowsKept DEF BootEnd
<1>6. ASSUME NEW kind, txn' = Idle(kind)
      PROVE  txn'.pc # "pollFills"
  BY <1>6 DEF Idle
<1>7. CASE Commit
  BY <1>6, <1>7, RowsKept DEF Commit
<1>8. CASE Rollback
  BY <1>6, <1>8, RowsKept DEF Rollback
<1>9. CASE Crash
  BY <1>6, <1>9, RowsKept DEF Crash
<1> QED
  BY <1>2, <1>3, <1>4, <1>5, <1>7, <1>8, <1>9

\* The books are faithful at the start: there is nothing in them.
LEMMA InitKeepsBooks == Init => Bookkeeping
  BY DEF Init, Bookkeeping, Faithful, Settled, SeenIsTrue, FreshDb, NoRow, NoOrder, Idle

\* Every step of the system keeps the books faithful.
LEMMA StepKeepsBooks == Formed /\ Formed' /\ Bookkeeping /\ [Next]_vars => Bookkeeping'
<1> SUFFICES ASSUME Formed, Formed', Bookkeeping, [Next]_vars PROVE Bookkeeping'
  OBVIOUS
<1>1. CASE UNCHANGED vars
  BY <1>1 DEF vars, Bookkeeping, Faithful, Settled, SeenIsTrue
<1>2. CASE Next
  BY <1>2, VenueKeepsBooks, PollKeepsBooks, ReconKeepsBooks, PollingTickKeepsBooks,
     DecisionKeepsBooks, SubmitKeepsBooks, ControlKeepsBooks, EndsKeepBooks
     DEF Next, TickStep
<1> QED
  BY <1>1, <1>2

\* The books are faithful for ever: no fill on file is invented, and the inductive
\* invariant behind TerminalMeansSettled holds for any number of orders.
THEOREM BooksFaithful == Spec => []Bookkeeping
<1>1. Init => Formed /\ Bookkeeping
  BY InitType, InitKeepsBooks
<1>2. Formed /\ Bookkeeping /\ [Next]_vars => (Formed /\ Bookkeeping)'
  BY StepType, StepKeepsBooks
<1> QED
  BY <1>1, <1>2, PTL DEF Spec

\* An order is never terminal in the database while the exchange may still fill it
\* or while one of its fills is missing: for any number of orders and fills, with
\* interrupted answers, rollbacks and crashes anywhere.
THEOREM TerminalSettled == Spec => []TerminalMeansSettled
<1>1. Bookkeeping => TerminalMeansSettled
  BY DEF Bookkeeping, Faithful, TerminalMeansSettled
<1> QED
  BY <1>1, BooksFaithful, PTL

-----------------------------------------------------------------------------
(* The gate: facts about its helpers *)

\* Whatever its flag said before, a system_state that is derived anew mirrors its causes.
LEMMA RecomputeMirrors ==
  ASSUME NEW g \in Gate, Authorised(g)
  PROVE  /\ Mirrors(Recompute(g)) /\ Authorised(Recompute(g))
         /\ Recompute(g).kill = g.kill /\ Recompute(g).unknown = g.unknown
  BY DEF Gate, Mirrors, Authorised, Recompute, HasCause, OpStateAfter, OpStates

\* A cause that waits to be derived takes nothing else away.
LEMMA OneMoreFailureKeeps ==
  ASSUME NEW g \in Gate
  PROVE  /\ OneMoreFailure(g).kill = g.kill /\ OneMoreFailure(g).unknown = g.unknown
         /\ Authorised(g) => Authorised(OneMoreFailure(g))
  BY DEF Gate, OneMoreFailure, Authorised

\* A verdict of the reconciliation derives the flag, and lifts no other cause.
LEMMA VerifiedMirrors ==
  ASSUME NEW g \in Gate, Authorised(g), NEW reached \in BOOLEAN, NEW agreed \in BOOLEAN
  PROVE  /\ Mirrors(Verified(g, reached, agreed)) /\ Authorised(Verified(g, reached, agreed))
         /\ Verified(g, reached, agreed).kill = g.kill
         /\ Verified(g, reached, agreed).unknown = g.unknown
<1> DEFINE h == [g EXCEPT !.notReconciled = @ /\ ~reached, !.diverged = ~agreed,
                          !.ambiguous = ~agreed]
<1>1. h \in Gate /\ Authorised(h) /\ h.kill = g.kill /\ h.unknown = g.unknown
  BY DEF Gate, Authorised
<1>2. Verified(g, reached, agreed) = Recompute(h)
  BY DEF Verified
<1> HIDE DEF h
<1> QED
  BY <1>1, <1>2, RecomputeMirrors

\* So does a report, which also notes every order that is UNKNOWN after it.
LEMMA ApplyMirrors ==
  ASSUME NEW d \in Database, Authorised(d.gate), NEW k \in Keys, NEW snap \in SnapshotType
  PROVE  /\ Mirrors(Apply(d, k, snap).gate) /\ Authorised(Apply(d, k, snap).gate)
         /\ Apply(d, k, snap).gate.kill = d.gate.kill
         /\ UnknownNoted(Apply(d, k, snap))
<1> DEFINE row == d.order[k]
           n == Cardinality(NewFills(row, snap))
           order == [d.order EXCEPT ![k] =
                       [StatusSynced(row, snap) EXCEPT !.execs = row.execs \cup snap.fills]]
           opposed == n > 0 /\ ~row.close /\ Opposes(d.pos, row)
           unknown == \E j \in Keys : order[j].status = "UNKNOWN"
           flags == [d.gate EXCEPT !.ambiguous = @ \/ opposed, !.unknown = unknown]
           applied == Apply(d, k, snap)
<1>1. d.gate \in Gate
  BY DEF Database
<1>2. opposed \in BOOLEAN /\ unknown \in BOOLEAN
  OBVIOUS
<1>3. applied.gate = Recompute(flags) /\ applied.order = order
  BY DEF Apply
<1> HIDE DEF opposed, unknown, order, applied
<1>4. /\ flags \in Gate /\ Authorised(flags)
      /\ flags.kill = d.gate.kill /\ flags.unknown = unknown
  BY <1>1, <1>2 DEF Gate, Authorised
<1> HIDE DEF flags
<1>5. /\ Mirrors(applied.gate) /\ Authorised(applied.gate)
      /\ applied.gate.kill = d.gate.kill /\ applied.gate.unknown = unknown
  BY <1>3, <1>4, RecomputeMirrors
<1>6. UnknownNoted(applied)
  BY <1>3, <1>5 DEF UnknownNoted, unknown
<1> QED
  BY <1>5, <1>6 DEF applied

-----------------------------------------------------------------------------
(* What the steps have in common *)

\* A step that leaves both copies of the database alone keeps the invariant, unless it
\* goes on to submit, or leaves the steps that derive the flag.
LEMMA WorkKept ==
  ASSUME GateInv, db' = db, w' = w, txn'.kind = txn.kind, txn'.pc # "submit",
         Rederiving => Rederiving'
  PROVE  GateInv'
  BY DEF GateInv, GateMirrorsCauses, UnknownNoted, Mirrors, Authorised, HasCause, At

\* A step that changes the session only, to a database whose flag is derived and whose
\* UNKNOWN orders are noted.
LEMMA WorkDerived ==
  ASSUME GateInv, db' = db, txn'.kind = txn.kind, txn'.pc # "submit",
         Mirrors(w'.gate) \/ Rederiving', Authorised(w'.gate), w'.gate.kill = w.gate.kill,
         UnknownNoted(w')
  PROVE  GateInv'
  BY DEF GateInv, GateMirrorsCauses, UnknownNoted, Mirrors, Authorised, HasCause, At

\* The rows of the session, as long as none of them becomes UNKNOWN with an id.
LEMMA RowsNoted ==
  ASSUME Formed, UnknownNoted(w), w'.gate.unknown = w.gate.unknown, NEW k \in Keys, NEW row,
         w'.order = [w.order EXCEPT ![k] = row], ~ (row.id /\ row.status = "UNKNOWN")
  PROVE  UnknownNoted(w')
  BY DEF UnknownNoted, Formed, TypeOK, Database

\* Where Goto leads to.
LEMMA GotoLeads ==
  ASSUME Formed, NEW pc, Goto(pc)
  PROVE  txn'.kind = txn.kind /\ txn'.pc = pc
  BY DEF Formed, TypeOK, Goto, Transaction

-----------------------------------------------------------------------------
(* Every step keeps the invariant *)

\* The exchange does not touch the database.
LEMMA VenueKeepsGate ==
  ASSUME GateInv, VenueMoves
  PROVE  GateInv'
  BY DEF VenueMoves, VenueProtect, VenueFill, VenueCancel, VenueReject, GateInv,
         GateMirrorsCauses, UnknownNoted, Mirrors, Authorised, HasCause, Rederiving, At

\* A poll ends in a report, which derives the flag.
LEMMA PollKeepsGate ==
  ASSUME Formed, GateInv, PollStep
  PROVE  GateInv'
<1> USE DEF Formed, TypeOK
<1>1. ASSUME NEW snap \in SnapshotType, txn.pc \in {"pollStatus", "pollFills"}, Answered(snap)
      PROVE  GateInv'
  <2>1. txn.cur \in Keys
    BY <1>1 DEF CurrentOrder, AboutAnOrder
  <2>2. txn'.kind = txn.kind /\ txn'.pc = txn.then
    BY <1>1, GotoLeads DEF Answered
  <2>3. txn'.pc # "submit"
    BY <2>2 DEF Transaction, PollReturns
  <2>4. w' = Apply(w, txn.cur, snap) /\ db' = db
    BY <1>1 DEF Answered
  <2>5. /\ Mirrors(w'.gate) /\ Authorised(w'.gate) /\ w'.gate.kill = w.gate.kill
        /\ UnknownNoted(w')
    BY <1>1, <2>1, <2>4, ApplyMirrors DEF GateInv
  <2> QED
    BY <2>2, <2>3, <2>4, <2>5, WorkDerived
<1>2. CASE PollUnanswered
  <2>1. Snapshot("UNKNOWN", {}, TRUE) \in SnapshotType
    BY FS_EmptySet DEF Snapshot, SnapshotType, Status, NonTerminal
  <2> QED
    BY <1>1, <1>2, <2>1 DEF PollUnanswered, At
<1>3. CASE PollStatus
  <2>1. Snapshot(Translate(venue[txn.cur].st), {}, TRUE) \in SnapshotType
    BY FS_EmptySet, TranslateType DEF Snapshot, SnapshotType
  <2> QED
    BY <1>1, <1>3, <2>1 DEF PollStatus, At
<1>4. CASE PollStatusThenFills
  <2>1. txn'.kind = txn.kind /\ txn'.pc = "pollFills"
    BY <1>4 DEF PollStatusThenFills, Transaction
  <2> QED
    BY <1>4, <2>1, WorkKept DEF PollStatusThenFills, Rederiving
<1>5. ASSUME At("pollFills"), NEW got \in SUBSET (1 .. venue[txn.cur].filled), NEW c \in BOOLEAN
      PROVE  Snapshot(Translate(txn.seen), got, c) \in SnapshotType
  <2>1. txn.cur \in Keys
    BY <1>5 DEF At, CurrentOrder, AboutAnOrder
  <2>2. venue[txn.cur].filled \in Nat
    BY <2>1 DEF VenueOrder
  <2>3. got \in SUBSET (Nat \ {0}) /\ IsFiniteSet(got)
    BY <2>2, <1>5, FillsType
  <2> QED
    BY <2>3, <1>5, TranslateType DEF Snapshot, SnapshotType
<1>6. CASE FillsComplete
  BY <1>1, <1>5, <1>6 DEF FillsComplete, At
<1>7. CASE FillsInterrupted
  BY <1>1, <1>5, <1>7 DEF FillsInterrupted, At
<1> QED
  BY <1>2, <1>3, <1>4, <1>6, <1>7 DEF PollStep

\* A reconciliation derives the flag with its verdict, whatever it returns to.
LEMMA ReconKeepsGate ==
  ASSUME Formed, GateInv, ReconStep
  PROVE  GateInv'
<1> USE DEF Formed, TypeOK
<1>1. ASSUME NEW ordersOk \in BOOLEAN, ReconFinish(ordersOk)
      PROVE  GateInv'
  <2> DEFINE gate == Verified(w.gate, txn.verdict # "unreachable", txn.verdict = "ok" /\ ordersOk)
  <2>1. w' = [w EXCEPT !.gate = gate] /\ db' = db
    BY <1>1 DEF ReconFinish
  <2>2. w'.gate = gate /\ w'.order = w.order
    BY <2>1 DEF Database
  <2>3. /\ Mirrors(gate) /\ Authorised(gate) /\ gate.kill = w.gate.kill
        /\ gate.unknown = w.gate.unknown
    BY VerifiedMirrors DEF GateInv, Database
  <2>4. txn'.kind = txn.kind /\ txn'.pc = txn.after
    BY <1>1 DEF ReconFinish, Idle
  <2>5. txn'.pc # "submit"
    BY <2>4 DEF Transaction, ReconReturns
  <2> HIDE DEF gate
  <2>6. UnknownNoted(w')
    BY <2>2, <2>3 DEF UnknownNoted, GateInv
  <2> QED
    BY <2>1, <2>2, <2>3, <2>4, <2>5, <2>6, WorkDerived
<1>2. CASE ReconPositions
  <2>1. txn'.kind = txn.kind /\ txn'.pc = "reconOrders"
    BY <1>2 DEF ReconPositions, Transaction
  <2> QED
    BY <1>2, <2>1, WorkKept DEF ReconPositions, Rederiving
<1>3. CASE ReconNextOrder
  <2>1. txn'.kind = txn.kind /\ txn'.pc = "pollStatus"
    BY <1>3 DEF ReconNextOrder, Polling, Transaction
  <2> QED
    BY <1>3, <2>1, WorkKept DEF ReconNextOrder, Rederiving
<1>4. OpenOrdersAgree \in BOOLEAN
  BY DEF OpenOrdersAgree
<1> QED
  BY <1>1, <1>2, <1>3, <1>4 DEF ReconStep, ReconOpenOrders, ReconUnreachable

\* A handler that derives the flag of its session anew, after changing other causes.
LEMMA DerivedAnew ==
  ASSUME Formed, GateInv, NEW g \in Gate,
         w' = [w EXCEPT !.gate = Recompute(g)], db' = db,
         Authorised(g), g.kill = w.gate.kill,
         g.unknown = w.gate.unknown \/ g.unknown = HasUnknown(w),
         txn'.kind = txn.kind, txn'.pc # "submit"
  PROVE  GateInv'
<1>1. w'.gate = Recompute(g) /\ w'.order = w.order
  BY DEF Formed, TypeOK, Database
<1>2. /\ Mirrors(w'.gate) /\ Authorised(w'.gate)
      /\ w'.gate.kill = w.gate.kill /\ w'.gate.unknown = g.unknown
  BY <1>1, RecomputeMirrors
<1>3. UnknownNoted(w')
  BY <1>1, <1>2 DEF UnknownNoted, HasUnknown, GateInv
<1> QED
  BY <1>2, <1>3, WorkDerived

\* A handler that sets the status of one order in its session.
LEMMA StatusSet ==
  ASSUME Formed, GateInv, NEW k \in Keys, NEW status,
         w' = SetStatus(w, k, status), db' = db,
         status = "UNKNOWN" => ~w.order[k].id,
         txn'.kind = txn.kind, txn'.pc # "submit", Rederiving => Rederiving'
  PROVE  GateInv'
<1> DEFINE row == [w.order[k] EXCEPT !.status = status]
<1>1. w.order[k] \in Row
  BY DEF Formed, TypeOK, Database
<1>2. row.id = w.order[k].id /\ row.status = status
  BY <1>1 DEF Row
<1>3. w'.order = [w.order EXCEPT ![k] = row] /\ w'.gate = w.gate
  BY DEF SetStatus, Formed, TypeOK, Database
<1> HIDE DEF row
<1>4. UnknownNoted(w')
  BY <1>2, <1>3, RowsNoted DEF GateInv
<1> QED
  BY <1>3, <1>4, WorkDerived DEF GateInv

\* The steps of a tick that poll the open orders and apply the policy.
LEMMA PollingTickKeepsGate ==
  ASSUME Formed, GateInv,
         \/ PollDue \/ PollNotDue \/ PollNext \/ CancelStalled \/ LeaveOrder
         \/ RequestCancel
  PROVE  GateInv'
<1> USE DEF Formed, TypeOK
<1>1. w.gate \in Gate /\ Authorised(w.gate)
  BY DEF Database, GateInv
<1>2. CASE PollDue
  <2>1. txn'.kind = txn.kind /\ txn'.pc = "pollNext"
    BY <1>2 DEF PollDue, Transaction
  <2> QED
    BY <1>1, <1>2, <2>1, DerivedAnew DEF PollDue
<1>3. CASE PollNotDue
  <2>1. txn'.kind = txn.kind /\ txn'.pc = "market"
    BY <1>3, GotoLeads DEF PollNotDue
  <2> QED
    BY <1>1, <1>3, <2>1, DerivedAnew DEF PollNotDue
<1>4. CASE PollNext
  <2>1. txn'.kind = txn.kind /\ txn'.pc \in {"market", "pollStatus"}
    BY <1>4, GotoLeads DEF PollNext, Polling, Transaction
  <2>2. ~Rederiving
    BY <1>4 DEF PollNext, At, Rederiving
  <2> QED
    BY <1>4, <2>1, <2>2, WorkKept DEF PollNext
<1>5. CASE CancelStalled
  <2>1. txn.cur \in Keys /\ ~Rederiving
    BY <1>5 DEF CancelStalled, At, CurrentOrder, AboutAnOrder, Rederiving
  <2>2. txn'.kind = txn.kind /\ txn'.pc = "cancel"
    BY <1>5 DEF CancelStalled, Transaction
  <2> QED
    BY <1>5, <2>1, <2>2, StatusSet DEF CancelStalled
<1>6. CASE LeaveOrder
  <2>1. txn'.kind = txn.kind /\ txn'.pc = "pollNext" /\ ~Rederiving
    BY <1>6, GotoLeads DEF LeaveOrder, At, Rederiving
  <2> QED
    BY <1>6, <2>1, WorkKept DEF LeaveOrder
<1>7. CASE RequestCancel
  <2>1. txn'.kind = txn.kind /\ txn'.pc \in {"pollStatus", "cancelRefused"} /\ ~Rederiving
    BY <1>7, GotoLeads DEF RequestCancel, At, Rederiving
  <2> QED
    BY <1>7, <2>1, WorkKept DEF RequestCancel
<1> QED
  BY <1>2, <1>3, <1>4, <1>5, <1>6, <1>7

\* The steps of a tick that look at the market and decide: an order is saved only
\* where the common gates have passed, and without an id.
LEMMA DecisionKeepsGate ==
  ASSUME Formed, GateInv,
         \/ NoCandle \/ MarketFailed \/ GapDetected \/ NewCandle
         \/ NoOrderDecided \/ DecideClose \/ DecideEntry
  PROVE  GateInv'
<1> USE DEF Formed, TypeOK
<1>1. w.gate \in Gate /\ Authorised(w.gate)
  BY DEF Database, GateInv
<1>2. ASSUME NEW k \in Keys, NEW close, NEW side, NEW qty, At("decide"),
             CommonGatesPass(w.gate), SaveOrder(k, close, side, qty)
      PROVE  GateInv'
  <2> DEFINE row == [NoRow EXCEPT !.status = "PENDING_SUBMIT", !.close = close,
                                  !.side = side, !.qty = qty]
  <2>1. ~row.id /\ row.status = "PENDING_SUBMIT"
    BY DEF NoRow
  <2>2. w' = [w EXCEPT !.order[k] = row] /\ db' = db
    BY <1>2 DEF SaveOrder
  <2> HIDE DEF row
  <2>3. w'.order = [w.order EXCEPT ![k] = row] /\ w'.gate = w.gate
    BY <2>2 DEF Database
  <2>4. w'.order[k] = row
    BY <2>3 DEF Database
  <2>5. txn'.kind = txn.kind /\ txn'.pc = "submit" /\ txn'.cur = k
    BY <1>2 DEF SaveOrder, Transaction
  <2>6. UnknownNoted(w')
    BY <2>1, <2>3, RowsNoted DEF GateInv
  <2>7. Mirrors(w.gate) /\ ~w.gate.kill
    BY <1>2 DEF GateInv, At, Rederiving, CommonGatesPass
  <2>8. (GateMirrorsCauses /\ UnknownNoted(db))'
    BY <2>2 DEF GateInv, GateMirrorsCauses, UnknownNoted, Mirrors, Authorised, HasCause
  <2>9. Mirrors(w'.gate) /\ Authorised(w'.gate)
    BY <1>1, <2>3, <2>7
  <2>10. ~w'.order[txn'.cur].id /\ ~w'.gate.kill
    BY <2>1, <2>3, <2>4, <2>5, <2>7
  <2>11. IF txn'.kind = "kill" THEN w'.gate.kill ELSE w'.gate.kill = db'.gate.kill
    BY <2>2, <2>3, <2>5 DEF GateInv
  <2> QED
    BY <2>6, <2>8, <2>9, <2>10, <2>11
       DEF GateInv, Mirrors, Authorised, HasCause, UnknownNoted
<1>3. ASSUME NEW pc, Goto(pc), pc # "submit", UNCHANGED <<db, w>>, ~Rederiving
      PROVE  GateInv'
  BY <1>3, GotoLeads, WorkKept
<1>4. CASE NoCandle
  BY <1>3, <1>4 DEF NoCandle, At, Rederiving
<1>5. CASE MarketFailed
  <2>1. OneMoreFailure(w.gate) \in Gate
    BY <1>1, OneMoreFailureType
  <2>2. txn'.kind = txn.kind /\ txn'.pc = "commit"
    BY <1>5, GotoLeads DEF MarketFailed
  <2> QED
    BY <1>1, <1>5, <2>1, <2>2, OneMoreFailureKeeps, DerivedAnew DEF MarketFailed
<1>6. CASE GapDetected
  <2> DEFINE g == [w.gate EXCEPT !.ambiguous = TRUE]
  <2>1. g \in Gate /\ Authorised(g) /\ g.kill = w.gate.kill /\ g.unknown = w.gate.unknown
    BY <1>1 DEF Gate, Authorised
  <2>2. w' = [w EXCEPT !.gate = Recompute(g)] /\ db' = db
    BY <1>6 DEF GapDetected
  <2>3. txn'.kind = txn.kind /\ txn'.pc = "commit"
    BY <1>6, GotoLeads DEF GapDetected
  <2> HIDE DEF g
  <2> QED
    BY <2>1, <2>2, <2>3, DerivedAnew
<1>7. CASE NewCandle
  <2>1. PICK drift \in BOOLEAN :
          w' = [w EXCEPT !.gate = Recompute([w.gate EXCEPT !.failures = 0, !.clock = drift])]
    BY <1>7 DEF NewCandle
  <2> DEFINE g == [w.gate EXCEPT !.failures = 0, !.clock = drift]
  <2>2. g \in Gate /\ Authorised(g) /\ g.kill = w.gate.kill /\ g.unknown = w.gate.unknown
    <3>1. 0 \in 0 .. MaxApiFailures
      BY MaxApiFailuresAssumption
    <3> QED
      BY <1>1, <3>1 DEF Gate, Authorised
  <2>3. w' = [w EXCEPT !.gate = Recompute(g)]
    BY <2>1
  <2>4. db' = db
    BY <1>7 DEF NewCandle
  <2>5. txn'.kind = txn.kind /\ txn'.pc = "decide"
    BY <1>7, GotoLeads DEF NewCandle
  <2> HIDE DEF g
  <2> QED
    BY <2>2, <2>3, <2>4, <2>5, DerivedAnew
<1>8. CASE NoOrderDecided
  BY <1>3, <1>8 DEF NoOrderDecided, At, Rederiving
<1>9. CASE DecideClose
  BY <1>2, <1>9 DEF DecideClose, Keys
<1>10. CASE DecideEntry
  BY <1>2, <1>10 DEF DecideEntry, Keys
<1> QED
  BY <1>4, <1>5, <1>6, <1>7, <1>8, <1>9, <1>10

\* An order that is not accepted has no id; the failure it counts is derived by the
\* reconciliation that follows.
LEMMA SubmitKeepsGate ==
  ASSUME Formed, GateInv,
         SubmitAccepted \/ SubmitRefused \/ SubmitTimedOut \/ Outcome
  PROVE  GateInv'
<1> USE DEF Formed, TypeOK
<1>0. /\ w.gate \in Gate /\ Authorised(w.gate)
      /\ txn.pc \in AboutAnOrder => txn.cur \in Keys
  BY DEF Database, GateInv, CurrentOrder
<1>1. CASE SubmitAccepted
  <2>1. txn.cur \in Keys /\ ~Rederiving
    BY <1>0, <1>1 DEF SubmitAccepted, At, AboutAnOrder, Rederiving
  <2>2. w.order[txn.cur] \in Row
    BY <2>1 DEF Database
  <2> DEFINE row == [w.order[txn.cur] EXCEPT !.id = TRUE, !.status = "SUBMITTED"]
  <2>3. row.status = "SUBMITTED"
    BY <2>2 DEF Row
  <2>4. w' = [w EXCEPT !.order[txn.cur] = row]
    BY <1>1, <2>1 DEF SubmitAccepted, Database
  <2> HIDE DEF row
  <2>5. w'.order = [w.order EXCEPT ![txn.cur] = row] /\ w'.gate = w.gate
    BY <2>4 DEF Database
  <2>6. UnknownNoted(w')
    BY <2>1, <2>3, <2>5, RowsNoted DEF GateInv
  <2>7. txn'.kind = txn.kind /\ txn'.pc = "pollStatus" /\ db' = db
    BY <1>1 DEF SubmitAccepted, Polling, Transaction
  <2> QED
    BY <1>0, <2>1, <2>5, <2>6, <2>7, WorkDerived DEF GateInv
<1>2. ASSUME NEW status \in {"REJECTED", "UNKNOWN"}, At("submit"), NotAccepted(status)
      PROVE  GateInv'
  <2>1. txn.cur \in Keys /\ ~w.order[txn.cur].id
    BY <1>0, <1>2 DEF At, AboutAnOrder, GateInv
  <2>2. w.order[txn.cur] \in Row
    BY <2>1 DEF Database
  <2> DEFINE row == [w.order[txn.cur] EXCEPT !.status = status]
  <2>3. ~row.id
    BY <2>1, <2>2 DEF Row
  <2>4. w' = [[w EXCEPT !.order[txn.cur] = row] EXCEPT !.gate = OneMoreFailure(@)] /\ db' = db
    BY <1>2, <2>1 DEF NotAccepted, SetStatus, Database
  <2> HIDE DEF row
  <2>5. /\ w'.order = [w.order EXCEPT ![txn.cur] = row]
        /\ w'.gate = OneMoreFailure(w.gate)
    BY <2>4 DEF Database
  <2>6. /\ w'.gate.kill = w.gate.kill /\ w'.gate.unknown = w.gate.unknown
        /\ Authorised(w'.gate)
    BY <1>0, <2>5, OneMoreFailureKeeps
  <2>7. UnknownNoted(w')
    BY <2>1, <2>3, <2>5, <2>6, RowsNoted DEF GateInv
  <2>8. txn'.kind = txn.kind /\ txn'.pc = "reconPositions"
    BY <1>2 DEF NotAccepted, Reconciling, Transaction
  <2> QED
    BY <2>4, <2>6, <2>7, <2>8, WorkDerived DEF Rederiving
<1>3. CASE Outcome
  <2>1. CASE Goto("commit") /\ UNCHANGED w
    <3>1. txn'.kind = txn.kind /\ txn'.pc = "commit" /\ ~Rederiving /\ db' = db
      BY <1>3, <2>1, GotoLeads DEF Outcome, At, Rederiving
    <3> QED
      BY <2>1, <3>1, WorkKept
  <2>2. CASE /\ w' = [w EXCEPT !.gate = OneMoreFailure(@)]
             /\ txn' = Reconciling(txn, "commit")
    <3>1. w'.order = w.order /\ w'.gate = OneMoreFailure(w.gate)
      BY <2>2 DEF Database
    <3>2. /\ w'.gate.kill = w.gate.kill /\ w'.gate.unknown = w.gate.unknown
          /\ Authorised(w'.gate)
      BY <1>0, <3>1, OneMoreFailureKeeps
    <3>3. UnknownNoted(w')
      BY <3>1, <3>2 DEF UnknownNoted, GateInv
    <3>4. txn'.kind = txn.kind /\ txn'.pc = "reconPositions" /\ db' = db
      BY <1>3, <2>2 DEF Outcome, Reconciling, Transaction
    <3> QED
      BY <3>2, <3>3, <3>4, WorkDerived DEF Rederiving
  <2> QED
    BY <1>3, <2>1, <2>2 DEF Outcome
<1> QED
  BY <1>1, <1>2, <1>3 DEF SubmitRefused, SubmitTimedOut

\* A handler that begins with a consistent copy of the committed database.
LEMMA BeginKeepsGate ==
  ASSUME Formed, GateInv, NEW kind \in Kinds \ {"kill"}, NEW g, NEW t \in Transaction,
         Begin(kind, [db EXCEPT !.gate = g], t) \/ (g = db.gate /\ Begin(kind, db, t)),
         g.kill = db.gate.kill, g.unknown = db.gate.unknown,
         Mirrors(g) \/ t.pc = "reconPositions", Authorised(g), t.pc # "submit"
  PROVE  GateInv'
<1> USE DEF Formed, TypeOK
<1>1. w'.gate = g /\ w'.order = db.order /\ db' = db
  BY DEF Begin, Database
<1>2. txn'.kind = kind /\ txn'.pc = t.pc
  BY DEF Begin, Transaction
<1>3. GateMirrorsCauses' /\ UnknownNoted(db)' /\ UnknownNoted(w)'
  BY <1>1 DEF GateInv, GateMirrorsCauses, UnknownNoted, Mirrors, Authorised, HasCause
<1>4. Authorised(w.gate)' /\ (Mirrors(w.gate) \/ Rederiving)'
  BY <1>1, <1>2 DEF Mirrors, Authorised, HasCause, Rederiving
<1> QED
  BY <1>1, <1>2, <1>3, <1>4 DEF GateInv, At

\* An endpoint writes a consistent system_state at once.
LEMMA EndpointKeepsGate ==
  ASSUME Formed, GateInv, NEW g, Endpoint(g), Mirrors(g), Authorised(g),
         g.unknown = db.gate.unknown
  PROVE  GateInv'
<1> USE DEF Formed, TypeOK
<1>1. /\ db'.gate = g /\ db'.order = db.order
      /\ w'.gate = g /\ w'.order = db.order
      /\ txn' = txn /\ txn.kind = "idle"
  BY DEF Endpoint, Database
<1>2. GateMirrorsCauses' /\ UnknownNoted(db)' /\ UnknownNoted(w)'
  BY <1>1 DEF GateInv, GateMirrorsCauses, UnknownNoted, Mirrors, Authorised, HasCause
<1>3. Mirrors(w'.gate) /\ Authorised(w'.gate)
  BY <1>1
<1> QED
  BY <1>1, <1>2, <1>3 DEF GateInv, At, Mirrors, Authorised, HasCause

\* The emergency block sets its flag before it looks at an order; the other endpoints
\* write a consistent system_state.
LEMMA ControlKeepsGate ==
  ASSUME Formed, GateInv, ControlStep
  PROVE  GateInv'
<1> USE DEF Formed, TypeOK
<1>1. /\ db.gate \in Gate /\ Mirrors(db.gate) /\ Authorised(db.gate)
      /\ w.gate \in Gate /\ Authorised(w.gate)
  BY DEF Database, GateInv, GateMirrorsCauses
<1>2. CASE KillBegin
  <2> DEFINE g == [db.gate EXCEPT !.kill = TRUE]
  <2>1. g \in Gate /\ Authorised(g) /\ g.kill /\ g.unknown = db.gate.unknown
    BY <1>1 DEF Gate, Authorised
  <2>2. w' = [db EXCEPT !.gate = Recompute(g)] /\ db' = db
    BY <1>2 DEF KillBegin, Begin
  <2>3. w'.gate = Recompute(g) /\ w'.order = db.order
    BY <2>2 DEF Database
  <2>4. txn'.kind = "kill" /\ txn'.pc = "killNext"
    BY <1>2 DEF KillBegin, Begin, Transaction
  <2> HIDE DEF g
  <2>5. /\ Mirrors(w'.gate) /\ Authorised(w'.gate) /\ w'.gate.kill
        /\ w'.gate.unknown = db.gate.unknown
    BY <2>1, <2>3, RecomputeMirrors
  <2>6. UnknownNoted(w')
    BY <2>3, <2>5 DEF UnknownNoted, GateInv
  <2> QED
    BY <2>2, <2>4, <2>5, <2>6
       DEF GateInv, GateMirrorsCauses, At, Mirrors, Authorised, HasCause, UnknownNoted
<1>3. CASE KillNext
  <2>1. PICK k \in txn.todo :
          \/ /\ w' = SetStatus(w, k, "CANCEL_PENDING")
             /\ txn' = [txn EXCEPT !.pc = "cancel", !.cur = k, !.then = "killNext",
                                   !.todo = @ \ {k}]
          \/ Goto("illegalMove") /\ w' = w
    BY <1>3 DEF KillNext
  <2>2. k \in Keys /\ db' = db /\ ~Rederiving
    BY <1>3 DEF KillNext, Transaction, At, Rederiving
  <2>3. CASE /\ w' = SetStatus(w, k, "CANCEL_PENDING")
             /\ txn' = [txn EXCEPT !.pc = "cancel", !.cur = k, !.then = "killNext",
                                   !.todo = @ \ {k}]
    <3>1. txn'.kind = txn.kind /\ txn'.pc = "cancel"
      BY <2>3 DEF Transaction
    <3> QED
      BY <2>2, <2>3, <3>1, StatusSet
  <2>4. CASE Goto("illegalMove") /\ w' = w
    BY <2>2, <2>4, GotoLeads, WorkKept
  <2> QED
    BY <2>1, <2>3, <2>4
<1>4. CASE KillEnd
  <2> DEFINE g == [w.gate EXCEPT !.unknown = HasUnknown(w)]
  <2>1. HasUnknown(w) \in BOOLEAN
    BY DEF HasUnknown
  <2>2. g \in Gate /\ Authorised(g) /\ g.kill = w.gate.kill /\ g.unknown = HasUnknown(w)
    BY <1>1, <2>1 DEF Gate, Authorised
  <2>3. w' = [w EXCEPT !.gate = Recompute(g)] /\ db' = db
    BY <1>4 DEF KillEnd
  <2>4. txn'.kind = txn.kind /\ txn'.pc # "submit"
    BY <1>4 DEF KillEnd, Reconciling, Transaction
  <2> HIDE DEF g
  <2> QED
    BY <2>2, <2>3, <2>4, DerivedAnew
<1>5. CASE Disengage
  <2> DEFINE g == [db.gate EXCEPT !.kill = FALSE]
  <2>1. g \in Gate /\ Authorised(g) /\ g.unknown = db.gate.unknown
    BY <1>1 DEF Gate, Authorised
  <2>2. Endpoint(Recompute(g))
    BY <1>5 DEF Disengage
  <2> HIDE DEF g
  <2> QED
    BY <2>1, <2>2, RecomputeMirrors, EndpointKeepsGate
<1>6. ASSUME NEW opstate \in {"ATIVO", "PAUSADO"},
             opstate = "ATIVO" => ~db.gate.blocked /\ ~db.gate.notReconciled,
             Endpoint([db.gate EXCEPT !.opstate = opstate])
      PROVE  GateInv'
  <2> DEFINE g == [db.gate EXCEPT !.opstate = opstate]
  <2>1. Mirrors(g) /\ Authorised(g) /\ g.unknown = db.gate.unknown
    BY <1>1, <1>6 DEF Gate, Mirrors, Authorised, HasCause
  <2>2. Endpoint(g)
    BY <1>6
  <2> HIDE DEF g
  <2> QED
    BY <2>1, <2>2, EndpointKeepsGate
<1> QED
  BY <1>2, <1>3, <1>4, <1>5, <1>6 DEF ControlStep, Activate, Pause

\* A handler ends by committing a session whose flag is derived, or by dropping it.
LEMMA EndsKeepGate ==
  ASSUME Formed, GateInv, Commit \/ Rollback \/ Crash \/ BootEnd
  PROVE  GateInv'
<1> USE DEF Formed, TypeOK
<1>1. CASE Commit
  <2>1. Mirrors(w.gate) /\ Authorised(w.gate)
    BY <1>1 DEF Commit, At, GateInv, Rederiving
  <2>2. db' = w /\ w' = w
    BY <1>1 DEF Commit
  <2>3. txn'.kind # "kill" /\ txn'.pc = "none"
    BY <1>1 DEF Commit, Idle
  <2> QED
    BY <2>1, <2>2, <2>3
       DEF GateInv, GateMirrorsCauses, At, Mirrors, Authorised, HasCause, UnknownNoted
<1>2. CASE Rollback \/ Crash
  <2>1. w' = db /\ db' = db
    BY <1>2 DEF Rollback, Crash
  <2>2. txn'.kind # "kill" /\ txn'.pc = "none"
    BY <1>2 DEF Rollback, Crash, Idle
  <2> QED
    BY <2>1, <2>2
       DEF GateInv, GateMirrorsCauses, At, Mirrors, Authorised, HasCause, UnknownNoted
<1>3. CASE BootEnd
  <2> DEFINE g == [w.gate EXCEPT !.opstate = IF w.gate.blocked THEN "BLOQUEADO"
                                                              ELSE "OBSERVANDO"]
  <2>1. Mirrors(w.gate) /\ w.gate \in Gate
    BY <1>3 DEF BootEnd, At, GateInv, Rederiving, Database
  <2>2. /\ Mirrors(g) /\ Authorised(g) /\ g.kill = w.gate.kill
        /\ g.unknown = w.gate.unknown
    BY <2>1 DEF Gate, Mirrors, Authorised, HasCause
  <2>3. w'.gate = g /\ w'.order = w.order /\ db' = db
    BY <1>3 DEF BootEnd, Database
  <2>4. txn'.kind = txn.kind /\ txn'.pc = "commit"
    BY <1>3, GotoLeads DEF BootEnd
  <2> HIDE DEF g
  <2>5. UnknownNoted(w')
    BY <2>2, <2>3 DEF UnknownNoted, GateInv
  <2> QED
    BY <2>2, <2>3, <2>4, <2>5, WorkDerived
<1> QED
  BY <1>1, <1>2, <1>3

\* A handler begins with the committed database.
LEMMA BeginningKeepsGate ==
  ASSUME Formed, GateInv, TickBegin \/ Boot \/ Shutdown
  PROVE  GateInv'
<1> USE DEF Formed, TypeOK
<1>1. /\ db.gate \in Gate /\ Mirrors(db.gate) /\ Authorised(db.gate)
  BY DEF Database, GateInv, GateMirrorsCauses
<1>2. ASSUME NEW after \in ReconReturns
      PROVE  Reconciling(txn, after) \in Transaction /\ Reconciling(txn, after).pc = "reconPositions"
  BY <1>2 DEF Reconciling, Transaction, Pcs, PollReturns
<1>3. CASE TickBegin
  <2>1. [txn EXCEPT !.pc = "pollDue"] \in Transaction
    BY DEF Transaction, Pcs
  <2>2. [txn EXCEPT !.pc = "pollDue"].pc = "pollDue"
    BY DEF Transaction
  <2> QED
    BY <1>1, <1>2, <1>3, <2>1, <2>2, BeginKeepsGate DEF TickBegin, ReconReturns, Kinds
<1>4. CASE Boot
  BY <1>1, <1>2, <1>4, BeginKeepsGate DEF Boot, ReconReturns, Kinds
<1>5. CASE Shutdown
  <2> DEFINE g == [db.gate EXCEPT !.opstate = "ENCERRANDO"]
  <2>1. /\ Mirrors(g) /\ Authorised(g) /\ g.kill = db.gate.kill
        /\ g.unknown = db.gate.unknown
    BY <1>1 DEF Gate, Mirrors, Authorised, HasCause
  <2>2. Begin("stop", [db EXCEPT !.gate = g], Reconciling(txn, "commit"))
    BY <1>5 DEF Shutdown, Database
  <2> HIDE DEF g
  <2> QED
    BY <1>2, <2>1, <2>2, BeginKeepsGate DEF ReconReturns, Kinds
<1> QED
  BY <1>3, <1>4, <1>5

-----------------------------------------------------------------------------
(* The theorems *)

\* A fresh database is consistent, and no handler runs on it yet.
LEMMA InitKeepsGate == Init => GateInv
  BY MaxApiFailuresAssumption
     DEF Init, GateInv, GateMirrorsCauses, Mirrors, Authorised, HasCause, UnknownNoted,
         FreshDb, FreshGate, NoRow, Idle, At

\* GateInv is inductive, given the shape of the state.
LEMMA StepKeepsGate == Formed /\ GateInv /\ [Next]_vars => GateInv'
<1> SUFFICES ASSUME Formed, GateInv, [Next]_vars PROVE GateInv'
  OBVIOUS
<1>1. CASE UNCHANGED vars
  BY <1>1 DEF vars, GateInv, GateMirrorsCauses, Mirrors, Authorised, HasCause, UnknownNoted,
              At, Rederiving
<1>2. CASE Next
  BY <1>2, VenueKeepsGate, PollKeepsGate, ReconKeepsGate, PollingTickKeepsGate,
     DecisionKeepsGate, SubmitKeepsGate, ControlKeepsGate, BeginningKeepsGate, EndsKeepGate
     DEF Next, TickStep
<1> QED
  BY <1>1, <1>2

\* The inductive invariant holds for ever.
THEOREM GateKept == Spec => [](Formed /\ GateInv)
<1>1. Init => Formed /\ GateInv
  BY InitType, InitKeepsGate
<1>2. Formed /\ GateInv /\ [Next]_vars => (Formed /\ GateInv)'
  BY StepType, StepKeepsGate
<1> QED
  BY <1>1, <1>2, PTL DEF Spec

\* The flag of the committed system_state is that of its causes, and ATIVO stands only
\* where nothing blocks and a reconciliation has succeeded: for any limit of failures,
\* through crashes, database errors and every endpoint.
THEOREM GateMirrors == Spec => []GateMirrorsCauses
<1>1. GateInv => GateMirrorsCauses
  BY DEF GateInv
<1> QED
  BY <1>1, GateKept, PTL

\* As long as an order with an id is UNKNOWN in the database trading is blocked, for
\* any number of orders.
THEOREM UnknownIsBlocked == Spec => []UnknownBlocks
<1>1. GateInv => UnknownBlocks
  BY DEF GateInv, GateMirrorsCauses, UnknownNoted, UnknownBlocks, Mirrors, HasCause
<1> QED
  BY <1>1, GateKept, PTL

\* After the emergency block is committed nothing reaches the exchange: whichever
\* handler was where, the gates it passed were those of the committed database.
THEOREM KillIsFinal == Spec => KillStopsSubmissions
<1>1. ASSUME Formed, GateInv, [Next]_vars
      PROVE  [db.gate.kill =>
                \A k \in Keys : venue[k].st = "none" => venue'[k].st = "none"]_vars
  <2> SUFFICES ASSUME Next, db.gate.kill, NEW k \in Keys, venue[k].st = "none"
               PROVE  venue'[k].st = "none"
    BY <1>1 DEF vars
  <2>1. ~At("submit")
    BY <1>1 DEF GateInv
  <2>2. CASE VenueMoves
    <3>1. ASSUME NEW j \in Keys, VenueFill(j) \/ VenueCancel(j) \/ VenueReject(j)
          PROVE  venue'[k] = venue[k]
      BY <1>1, <3>1 DEF VenueFill, VenueCancel, VenueReject, MayFill, OpenVenue, Formed, TypeOK
    <3> QED
      BY <2>2, <3>1 DEF VenueMoves, VenueProtect
  <2>3. CASE PollStep \/ ReconStep \/ TickBegin \/ ControlStep \/ Boot \/ BootEnd
             \/ Shutdown \/ Commit \/ Rollback \/ Crash
    <3>1. venue' = venue
      BY <2>3 DEF PollStep, PollUnanswered, PollStatus, PollStatusThenFills, FillsComplete,
         FillsInterrupted, Answered, ReconStep, ReconPositions, ReconNextOrder,
         ReconOpenOrders, ReconUnreachable, ReconFinish, TickBegin, Begin, ControlStep,
         KillBegin, KillNext, KillEnd, Disengage, Activate, Pause, Endpoint, Boot, BootEnd,
         Shutdown, Commit, Rollback, Crash
    <3> QED
      BY <3>1
  <2>4. CASE TickStep
    <3>1. venue' = venue
      BY <2>1, <2>4 DEF TickStep, PollDue, PollNotDue, PollNext, CancelStalled, LeaveOrder,
         RequestCancel, NoCandle, MarketFailed, GapDetected, NewCandle, NoOrderDecided,
         DecideClose, DecideEntry, SaveOrder, SubmitAccepted, SubmitRefused,
         SubmitTimedOut, Outcome
    <3> QED
      BY <3>1
  <2> QED
    BY <2>2, <2>3, <2>4 DEF Next
<1> QED
  BY <1>1, GateKept, PTL DEF Spec, KillStopsSubmissions


-----------------------------------------------------------------------------
(* Facts about the contract *)

\* Bringing an entry up to date twice is bringing it up to date.
LEMMA FollowsFurther ==
  ASSUME NEW a, NEW b, NEW c, NEW m,
         Contract!Follows(b, a, m), Contract!Follows(c, b, m)
  PROVE  Contract!Follows(c, a, m)
  BY DEF Contract!Follows

\* What followed the market as it was follows it when it has moved on.
LEMMA FollowsLater ==
  ASSUME NEW a, NEW b, NEW m, NEW n, Contract!Follows(b, a, m),
         m.filled \in Nat, n.filled \in Nat, m.filled <= n.filled, m.done => n = m
  PROVE  Contract!Follows(b, a, n)
  BY DEF Contract!Follows

\* The market never takes back a fill, nor reopens an order.
LEMMA MarketGrows ==
  ASSUME Formed, Formed', NEW k \in Keys, Grows(k)
  PROVE  /\ Market(k).filled \in Nat /\ Market(k)'.filled \in Nat
         /\ Market(k).filled <= Market(k)'.filled
         /\ Market(k).done => Market(k)' = Market(k)
<1>1. venue[k] \in VenueOrder /\ venue'[k] \in VenueOrder
  BY DEF Formed, TypeOK
<1> QED
  BY <1>1 DEF Market, VenueOrder, Grows

-----------------------------------------------------------------------------
(* What a transaction has done so far may be published *)

\* A step that brings rows of the session up to date keeps it publishable.
LEMMA AheadStep ==
  ASSUME Formed, Formed', Ahead, db'.order = db.order, \A k \in Keys : Grows(k),
         \A k \in Keys :
           Contract!Follows(Entry(w'.order[k]), Entry(w.order[k]), Market(k))
  PROVE  Ahead'
<1> SUFFICES ASSUME NEW k \in Keys
             PROVE  /\ Contract!Follows(Entry(w'.order[k]), Entry(db'.order[k]), Market(k)')
                    /\ db'.order[k].status = "ABSENT" => db'.order[k].execs = {}
  BY DEF Ahead, Entry, Market
<1>1. Contract!Follows(Entry(w'.order[k]), Entry(db.order[k]), Market(k))
  BY FollowsFurther DEF Ahead
<1> QED
  BY <1>1, MarketGrows, FollowsLater DEF Ahead

\* So does one that leaves the rows alone.
LEMMA RowsAhead ==
  ASSUME Formed, Formed', Ahead, db'.order = db.order, w'.order = w.order,
         \A k \in Keys : Grows(k)
  PROVE  Ahead'
<1>1. \A k \in Keys : Contract!Follows(Entry(w'.order[k]), Entry(w.order[k]), Market(k))
  BY DEF Contract!Follows
<1> QED
  BY <1>1, AheadStep

\* A row that is not saved yet has no fills in the session either.
LEMMA AbsentIsEmpty ==
  ASSUME Formed, Ahead, NEW k \in Keys, w.order[k].status = "ABSENT"
  PROVE  w.order[k].execs = {}
<1>1. Contract!Follows(Entry(w.order[k]), Entry(db.order[k]), Market(k))
  BY DEF Ahead
<1>2. Entry(w.order[k]).phase = "none"
  BY DEF Entry, Phase, NonTerminal
<1>3. Entry(db.order[k]) = Entry(w.order[k])
  BY <1>1, <1>2 DEF Contract!Follows
<1>4. db.order[k].status \in Status \cup {"ABSENT"}
  BY DEF Formed, TypeOK, Database, Row
<1>5. Phase(db.order[k].status) = "none"
  BY <1>2, <1>3 DEF Entry
<1>6. db.order[k].status = "ABSENT"
  BY <1>4, <1>5 DEF Phase, Status, Terminal, NonTerminal
<1>7. db.order[k].execs = w.order[k].execs
  BY <1>3 DEF Entry
<1> QED
  BY <1>6, <1>7 DEF Ahead

\* Where there is nothing to publish, nothing forbids it.
LEMMA NothingAhead ==
  ASSUME Formed, Ahead, w'.order = db'.order,
         db'.order = db.order \/ db'.order = w.order
  PROVE  Ahead'
<1>1. \A k \in Keys : db'.order[k].status = "ABSENT" => db'.order[k].execs = {}
  BY AbsentIsEmpty DEF Ahead
<1> QED
  BY <1>1 DEF Ahead, Contract!Follows

\* One row, brought up to date.
LEMMA OneRowAhead ==
  ASSUME Formed, Formed', Ahead, db' = db, \A k \in Keys : Grows(k),
         NEW k \in Keys, NEW row \in Row, w'.order = [w.order EXCEPT ![k] = row],
         Contract!Follows(Entry(row), Entry(w.order[k]), Market(k))
  PROVE  Ahead'
<1>1. w.order \in [Keys -> Row]
  BY DEF Formed, TypeOK, Database
<1>2. ASSUME NEW j \in Keys
      PROVE  Contract!Follows(Entry(w'.order[j]), Entry(w.order[j]), Market(j))
  <2>1. CASE j = k
    BY <1>1, <2>1
  <2>2. CASE j # k
    BY <1>1, <2>2 DEF Contract!Follows
  <2> QED
    BY <2>1, <2>2
<1> QED
  BY <1>2, AheadStep

\* A live order that stays live and keeps its fills is up to date.
LEMMA LiveFollows ==
  ASSUME NEW k \in Keys, NEW row \in Row, NEW old \in Row, Faithful(old, k),
         old.status \in NonTerminal \cup {"ABSENT"}, row.status \in NonTerminal,
         row.execs = old.execs
  PROVE  Contract!Follows(Entry(row), Entry(old), Market(k))
<1>1. Entry(old).phase \in {"none", "live"} /\ Entry(row).phase = "live"
  BY DEF Entry, Phase, NonTerminal
<1>2. Entry(row).fills = Entry(old).fills /\ Entry(old).fills \subseteq 1 .. Market(k).filled
  BY DEF Entry, Market, Faithful
<1> QED
  BY <1>1, <1>2 DEF Contract!Follows

\* A true report brings the row of a live order up to date.
LEMMA ApplyFollows ==
  ASSUME NEW d \in Database, NEW k \in Keys, NEW snap \in SnapshotType,
         Faithful(d.order[k], k), d.order[k].status \in NonTerminal,
         snap.fills \subseteq 1 .. venue[k].filled, venue[k].filled \in Nat,
         snap.status \in {"FILLED", "CANCELLED"} /\ snap.complete =>
           venue[k].st \in DoneVenue /\ snap.fills = 1 .. venue[k].filled,
         snap.status = "REJECTED" => venue[k].filled = 0
  PROVE  \A j \in Keys :
           Contract!Follows(Entry(Apply(d, k, snap).order[j]), Entry(d.order[j]), Market(j))
<1> DEFINE row == d.order[k]
           synced == [StatusSynced(row, snap) EXCEPT !.execs = row.execs \cup snap.fills]
<1>1. row \in Row
  BY DEF Database
<1>2. Apply(d, k, snap).order = [d.order EXCEPT ![k] = synced]
  BY DEF Apply
<1>3. /\ synced.status = StatusSynced(row, snap).status
      /\ synced.execs = row.execs \cup snap.fills
  BY <1>1, StatusSyncedType DEF Row
<1>4. \/ synced.status \in NonTerminal
      \/ synced.status = snap.status /\ snap.complete
  <2>1. synced.status \in Status
    BY <1>1, <1>3 DEF StatusSynced, Row, SnapshotType, Status, NonTerminal
  <2>2. CASE synced.status \in Terminal
    BY <1>1, <1>3, <2>2, StatusSyncedTerminal DEF Terminal, NonTerminal
  <2>3. CASE synced.status \notin Terminal
    BY <2>1, <2>3 DEF Status
  <2> QED
    BY <2>2, <2>3
<1>5. snap.status \in Status
  BY DEF SnapshotType
<1>6. Contract!Follows(Entry(synced), Entry(row), Market(k))
  <2> HIDE DEF row, synced
  <2>1. Entry(row).phase \in {"none", "live"}
    <3>1. row.status \in NonTerminal
      BY DEF row
    <3> QED
      BY <3>1 DEF Entry, Phase, NonTerminal
  <2>2. row.execs \subseteq 1 .. venue[k].filled
    BY DEF row, Faithful
  <2>3. /\ Entry(row).fills \subseteq Entry(synced).fills
        /\ Entry(synced).fills \subseteq 1 .. Market(k).filled
    BY <1>3, <2>2 DEF Entry, Market
  <2>4. CASE synced.status \in NonTerminal
    <3>1. Entry(synced).phase = "live"
      BY <2>4 DEF Entry, Phase, NonTerminal
    <3> QED
      BY <2>1, <2>3, <3>1 DEF Contract!Follows
  <2>5. CASE synced.status \in {"FILLED", "CANCELLED"} /\ synced.status = snap.status
             /\ snap.complete
    <3>1. Entry(synced).phase = "settled"
      BY <2>5 DEF Entry, Phase, NonTerminal
    <3>2. Market(k).done /\ Entry(synced).fills = 1 .. Market(k).filled
      BY <1>3, <2>2, <2>5 DEF Entry, Market
    <3> QED
      BY <2>1, <2>3, <3>1, <3>2 DEF Contract!Follows
  <2>6. CASE synced.status = "REJECTED" /\ synced.status = snap.status
    <3>1. Entry(synced).phase = "refused"
      BY <2>6 DEF Entry, Phase, NonTerminal
    <3>2. Entry(synced).fills = {}
      BY <2>3, <2>6 DEF Market
    <3> QED
      BY <2>1, <2>3, <3>1, <3>2 DEF Contract!Follows
  <2> QED
    BY <1>4, <1>5, <2>4, <2>5, <2>6 DEF Status, Terminal
<1> HIDE DEF synced
<1>7. d.order \in [Keys -> Row]
  BY DEF Database
<1> SUFFICES ASSUME NEW j \in Keys
             PROVE  Contract!Follows(Entry(Apply(d, k, snap).order[j]), Entry(d.order[j]),
                                     Market(j))
  OBVIOUS
<1>8. CASE j = k
  BY <1>2, <1>6, <1>7, <1>8
<1>9. CASE j # k
  BY <1>2, <1>7, <1>9 DEF Contract!Follows
<1> QED
  BY <1>8, <1>9

-----------------------------------------------------------------------------
(* What the handlers have in hand *)

\* A step after which no order is in hand.
LEMMA NoneInHand ==
  ASSUME txn'.pc \notin AboutAnOrder, txn'.todo \subseteq Live(w'),
         txn'.kind \in {"idle", "down"} => txn'.todo = {}
  PROVE  InHand'
  BY DEF InHand, Live, AboutAnOrder

\* A step after which one is.
LEMMA OneInHand ==
  ASSUME txn'.kind \notin {"idle", "down"}, txn'.todo \subseteq Live(w'),
         txn'.cur \notin txn'.todo,
         txn'.pc \in {"policy", "outcome"} \/ w'.order[txn'.cur].status \in NonTerminal,
         txn'.pc = "submit" => w'.order[txn'.cur].execs = {}
  PROVE  InHand'
  BY DEF InHand, Live, AboutAnOrder

\* Only the rows decide which orders are live.
LEMMA SameLive ==
  ASSUME NEW d, NEW e, d.order = e.order
  PROVE  Live(d) = Live(e)
  BY DEF Live

\* The live orders other than one are live whatever becomes of that one.
LEMMA OthersLive ==
  ASSUME NEW d \in Database, NEW e, NEW k \in Keys, NEW row,
         e.order = [d.order EXCEPT ![k] = row],
         NEW S, S \subseteq Live(d), k \notin S
  PROVE  S \subseteq Live(e)
  BY DEF Live, Database

\* What a step that moves on to pc leaves of the transaction.
LEMMA Moved ==
  ASSUME Formed, NEW pc \in Pcs, Goto(pc)
  PROVE  /\ txn'.pc = pc /\ txn'.kind = txn.kind /\ txn'.todo = txn.todo
         /\ pc \in AboutAnOrder => txn'.cur = txn.cur
  BY DEF Formed, TypeOK, Transaction, Goto

\* A step that moves on to one about no order, and leaves the rows alone.
LEMMA MovedOn ==
  ASSUME Formed, InHand, NEW pc \in Pcs \ AboutAnOrder, Goto(pc),
         txn.kind \notin {"idle", "down"}, w'.order = w.order
  PROVE  InHand'
<1>1. /\ txn'.pc \notin AboutAnOrder /\ txn'.kind \notin {"idle", "down"}
      /\ txn'.todo = txn.todo
  BY Moved
<1>2. txn'.todo \subseteq Live(w')
  BY <1>1, SameLive DEF InHand
<1> QED
  BY <1>1, <1>2, NoneInHand

\* As long as the exchange is not asked, its orders are what they were.
LEMMA NothingMoves ==
  ASSUME Formed, Bookkeeping, venue' = venue
  PROVE  \A k \in Keys : Grows(k)
  BY DEF Grows, Bookkeeping, Formed, TypeOK, VenueOrder

-----------------------------------------------------------------------------
(* Every action *)

\* The exchange's own moves leave the transaction as it is.
LEMMA VenueKeepsContract ==
  ASSUME Formed, Formed', Bookkeeping, ContractInv, VenueMoves
  PROVE  ContractInv'
<1>1. UNCHANGED <<db, w, txn>>
  BY DEF VenueMoves, VenueProtect, VenueFill, VenueCancel, VenueReject
<1>2. InHand'
  BY <1>1 DEF ContractInv, InHand, Live
<1>3. Ahead'
  BY <1>1, VenueGrows, RowsAhead DEF ContractInv
<1>4. NothingTraded'
  <2> SUFFICES ASSUME NEW k \in Keys, venue'[k].st \in {"none", "New", "Rejected"}
               PROVE  venue'[k].filled = 0
    BY DEF NothingTraded
  <2>1. venue[k] \in VenueOrder
    BY DEF Formed, TypeOK
  <2>2. venue[k].st \in {"none", "New", "Rejected"} => venue[k].filled = 0
    BY DEF ContractInv, NothingTraded
  <2>3. CASE VenueProtect
    BY <2>2, <2>3 DEF VenueProtect
  <2>4. ASSUME NEW j \in Keys, VenueFill(j)
        PROVE  venue'[k].filled = 0
    BY <2>1, <2>2, <2>4 DEF VenueFill, Formed, TypeOK, VenueOrder
  <2>5. ASSUME NEW j \in Keys, VenueCancel(j)
        PROVE  venue'[k].filled = 0
    BY <2>1, <2>2, <2>5 DEF VenueCancel, Formed, TypeOK, VenueOrder
  <2>6. ASSUME NEW j \in Keys, VenueReject(j)
        PROVE  venue'[k].filled = 0
    BY <2>1, <2>2, <2>6 DEF VenueReject, Formed, TypeOK, VenueOrder
  <2> QED
    BY <2>3, <2>4, <2>5, <2>6 DEF VenueMoves
<1> QED
  BY <1>2, <1>3, <1>4 DEF ContractInv

\* A true report about the order in hand.
LEMMA AnsweredKeepsContract ==
  ASSUME Formed, Formed', Bookkeeping, ContractInv,
         txn.pc \in {"pollStatus", "pollFills"}, txn.cur \in Keys,
         NEW snap \in SnapshotType, Answered(snap),
         snap.fills \subseteq 1 .. venue[txn.cur].filled,
         snap.status \in {"FILLED", "CANCELLED"} /\ snap.complete =>
           venue[txn.cur].st \in DoneVenue /\ snap.fills = 1 .. venue[txn.cur].filled,
         snap.status = "REJECTED" => venue[txn.cur].filled = 0
  PROVE  ContractInv'
<1> DEFINE k == txn.cur
<1>1. /\ w' = Apply(w, k, snap) /\ db' = db /\ venue' = venue
      /\ txn.then \in Pcs /\ Goto(txn.then)
  BY DEF Answered, Formed, TypeOK, Transaction, PollReturns, Pcs
<1>2. /\ w.order[k].status \in NonTerminal /\ k \notin txn.todo
      /\ txn.kind \notin {"idle", "down"} /\ txn.todo \subseteq Live(w)
  BY DEF ContractInv, InHand, AboutAnOrder
<1>3. w \in Database /\ Faithful(w.order[k], k) /\ venue[k].filled \in Nat
  BY DEF Formed, TypeOK, VenueOrder, Bookkeeping
<1>4. Ahead'
  <2>1. \A j \in Keys : Contract!Follows(Entry(w'.order[j]), Entry(w.order[j]), Market(j))
    BY <1>1, <1>2, <1>3, ApplyFollows
  <2> QED
    BY <1>1, <2>1, NothingMoves, AheadStep DEF ContractInv
<1>5. InHand'
  <2>1. /\ txn'.pc = txn.then /\ txn'.kind = txn.kind /\ txn'.todo = txn.todo
        /\ txn.then \in AboutAnOrder => txn'.cur = k
    BY <1>1, Moved
  <2>2. txn.then \in {"policy", "outcome"} \/ txn.then \notin AboutAnOrder
    BY DEF Formed, TypeOK, Transaction, PollReturns, AboutAnOrder
  <2>3. txn'.todo \subseteq Live(w')
    <3>1. PICK row : Apply(w, k, snap).order = [w.order EXCEPT ![k] = row]
      BY DEF Apply
    <3> QED
      BY <1>1, <1>2, <1>3, <2>1, <3>1, OthersLive
  <2>4. CASE txn.then \in {"policy", "outcome"}
    BY <1>2, <2>1, <2>3, <2>4, OneInHand DEF AboutAnOrder
  <2>5. CASE txn.then \notin AboutAnOrder
    BY <1>2, <2>1, <2>3, <2>5, NoneInHand
  <2> QED
    BY <2>2, <2>4, <2>5
<1>6. NothingTraded'
  BY <1>1 DEF ContractInv, NothingTraded
<1> QED
  BY <1>4, <1>5, <1>6 DEF ContractInv

\* A step that leaves the rows and the exchange alone: it depends on what it takes
\* in hand.
LEMMA RowsKeepContract ==
  ASSUME Formed, Formed', Bookkeeping, ContractInv, InHand',
         db'.order = db.order, w'.order = w.order, venue' = venue
  PROVE  ContractInv'
<1>1. Ahead'
  BY NothingMoves, RowsAhead DEF ContractInv
<1>2. NothingTraded'
  BY DEF ContractInv, NothingTraded
<1> QED
  BY <1>1, <1>2 DEF ContractInv

\* Polling an order, both calls.
LEMMA PollKeepsContract ==
  ASSUME Formed, Formed', Bookkeeping, ContractInv, PollStep
  PROVE  ContractInv'
<1> USE DEF At
<1>0. /\ txn.pc \in AboutAnOrder => txn.cur \in Keys
      /\ txn.cur \in Keys => venue[txn.cur] \in VenueOrder
  BY DEF Formed, TypeOK, CurrentOrder
<1>1. CASE PollUnanswered
  <2>1. Snapshot("UNKNOWN", {}, TRUE) \in SnapshotType
    BY FS_EmptySet DEF Snapshot, SnapshotType, Status, NonTerminal
  <2> QED
    BY <1>0, <1>1, <2>1, AnsweredKeepsContract DEF PollUnanswered, Snapshot, AboutAnOrder
<1>2. CASE PollStatus
  <2> DEFINE st == venue[txn.cur].st
  <2>1. txn.cur \in Keys /\ txn.pc = "pollStatus"
    BY <1>0, <1>2 DEF PollStatus, AboutAnOrder
  <2>2. Snapshot(Translate(st), {}, TRUE) \in SnapshotType
    BY FS_EmptySet, TranslateType DEF Snapshot, SnapshotType
  <2>3. Translate(st) \notin {"FILLED", "CANCELLED"}
    BY <1>2, TranslateEnds DEF PollStatus
  <2>4. Translate(st) = "REJECTED" => venue[txn.cur].filled = 0
    <3>1. Translate(st) = "REJECTED" => st = "Rejected"
      BY DEF Translate
    <3> QED
      BY <2>1, <3>1 DEF ContractInv, NothingTraded
  <2>5. Answered(Snapshot(Translate(st), {}, TRUE))
    BY <1>2 DEF PollStatus
  <2> HIDE DEF st
  <2> QED
    BY <2>1, <2>2, <2>3, <2>4, <2>5, AnsweredKeepsContract DEF Snapshot
<1>3. CASE PollStatusThenFills
  <2>1. /\ txn' = [txn EXCEPT !.pc = "pollFills", !.seen = venue[txn.cur].st]
        /\ UNCHANGED <<db, w, venue, xpos>>
        /\ txn.pc = "pollStatus" /\ txn.kind \notin {"idle", "down"}
    BY <1>3 DEF PollStatusThenFills
  <2>2. /\ txn'.pc = "pollFills" /\ txn'.cur = txn.cur /\ txn'.todo = txn.todo
        /\ txn'.kind = txn.kind
    BY <2>1 DEF Formed, TypeOK, Transaction
  <2>3. /\ txn.todo \subseteq Live(w) /\ txn.cur \notin txn.todo
        /\ w.order[txn.cur].status \in NonTerminal
    BY <2>1 DEF ContractInv, InHand, AboutAnOrder
  <2>4. InHand'
    BY <2>1, <2>2, <2>3, OneInHand
  <2> QED
    BY <2>1, <2>4, RowsKeepContract
<1>4. ASSUME NEW got \in SUBSET (1 .. venue[txn.cur].filled), NEW complete \in BOOLEAN,
             complete => got = 1 .. venue[txn.cur].filled,
             At("pollFills"), Answered(Snapshot(Translate(txn.seen), got, complete))
      PROVE  ContractInv'
  <2>1. txn.cur \in Keys /\ venue[txn.cur].filled \in Nat /\ txn.pc = "pollFills"
    BY <1>0, <1>4 DEF VenueOrder, AboutAnOrder
  <2>2. Snapshot(Translate(txn.seen), got, complete) \in SnapshotType
    BY <2>1, FillsType, TranslateType DEF Snapshot, SnapshotType
  <2>3. Translate(txn.seen) \in {"FILLED", "CANCELLED"} => venue[txn.cur].st \in DoneVenue
    BY <2>1, TranslateEnds DEF Bookkeeping, SeenIsTrue
  <2>4. Translate(txn.seen) = "REJECTED" => venue[txn.cur].filled = 0
    <3>1. Translate(txn.seen) = "REJECTED" => txn.seen = "Rejected"
      BY DEF Translate
    <3> QED
      BY <2>1, <3>1 DEF ContractInv, NothingTraded, Bookkeeping, SeenIsTrue, DoneVenue
  <2> HIDE DEF At
  <2> QED
    BY <1>4, <2>1, <2>2, <2>3, <2>4, AnsweredKeepsContract DEF Snapshot
<1>5. CASE FillsComplete
  BY <1>5, <1>4 DEF FillsComplete
<1>6. CASE FillsInterrupted
  BY <1>6, <1>4 DEF FillsInterrupted
<1> QED
  BY <1>1, <1>2, <1>3, <1>5, <1>6 DEF PollStep

\* Reconciling takes the live orders in hand, one after the other.
LEMMA ReconKeepsContract ==
  ASSUME Formed, Formed', Bookkeeping, ContractInv, ReconStep
  PROVE  ContractInv'
<1> USE DEF Formed, TypeOK
<1>1. ASSUME NEW ordersOk, ReconFinish(ordersOk)
      PROVE  ContractInv'
  <2>1. w'.order = w.order
    BY <1>1 DEF ReconFinish, Database
  <2>2. txn'.pc = txn.after /\ txn'.todo = {}
    BY <1>1 DEF ReconFinish, Idle
  <2>3. txn'.pc \notin AboutAnOrder
    BY <2>2 DEF Transaction, ReconReturns, AboutAnOrder
  <2>4. InHand'
    BY <2>2, <2>3, NoneInHand
  <2> QED
    BY <1>1, <2>1, <2>4, RowsKeepContract DEF ReconFinish
<1>2. CASE ReconPositions
  <2>1. /\ txn'.pc = "reconOrders" /\ txn'.todo = Trackable(w)
        /\ txn'.kind \notin {"idle", "down"} /\ UNCHANGED <<db, w, venue>>
    BY <1>2 DEF ReconPositions, At, Transaction
  <2>2. InHand'
    BY <2>1, NoneInHand DEF AboutAnOrder, Trackable
  <2> QED
    BY <2>1, <2>2, RowsKeepContract
<1>3. CASE ReconNextOrder
  <2>1. PICK k \in txn.todo :
          txn' = [Polling(txn, k, "reconOrders") EXCEPT !.todo = @ \ {k}]
    BY <1>3 DEF ReconNextOrder
  <2>2. /\ txn'.pc = "pollStatus" /\ txn'.cur = k /\ txn'.todo = txn.todo \ {k}
        /\ txn'.kind \notin {"idle", "down"} /\ UNCHANGED <<db, w, venue>>
    BY <1>3, <2>1 DEF ReconNextOrder, At, Polling, Transaction
  <2>3. txn.todo \subseteq Live(w) /\ w.order[k].status \in NonTerminal
    BY DEF ContractInv, InHand, Live
  <2>4. InHand'
    BY <2>2, <2>3, OneInHand
  <2> QED
    BY <2>2, <2>4, RowsKeepContract
<1> QED
  BY <1>1, <1>2, <1>3 DEF ReconStep, ReconOpenOrders, ReconUnreachable

\* A live order whose status a handler changes to another live one.
LEMMA RelabelKeepsContract ==
  ASSUME Formed, Formed', Bookkeeping, ContractInv, InHand', db' = db, venue' = venue,
         NEW k \in Keys, NEW row \in Row, w'.order = [w.order EXCEPT ![k] = row],
         w.order[k].status \in NonTerminal \cup {"ABSENT"}, row.status \in NonTerminal,
         row.execs = w.order[k].execs
  PROVE  ContractInv'
<1>1. w.order[k] \in Row /\ Faithful(w.order[k], k)
  BY DEF Formed, TypeOK, Database, Bookkeeping
<1>2. Ahead'
  BY <1>1, LiveFollows, NothingMoves, OneRowAhead DEF ContractInv
<1>3. NothingTraded'
  BY DEF ContractInv, NothingTraded
<1> QED
  BY <1>2, <1>3 DEF ContractInv

\* The steps of a tick that poll the open orders and apply the policy.
LEMMA PollingTickKeepsContract ==
  ASSUME Formed, Formed', Bookkeeping, ContractInv,
         \/ PollDue \/ PollNotDue \/ PollNext \/ CancelStalled \/ LeaveOrder
         \/ RequestCancel
  PROVE  ContractInv'
<1> USE DEF Formed, TypeOK
<1>0. txn.todo \subseteq Live(w)
  BY DEF ContractInv, InHand
<1>1. CASE PollDue
  <2>1. /\ txn'.pc = "pollNext" /\ txn'.todo = Trackable(w)
        /\ txn'.kind \notin {"idle", "down"} /\ UNCHANGED <<db, venue>>
        /\ w'.order = w.order
    BY <1>1 DEF PollDue, At, Transaction, Database
  <2>2. InHand'
    BY <2>1, SameLive, NoneInHand DEF AboutAnOrder, Trackable
  <2> QED
    BY <2>1, <2>2, RowsKeepContract
<1>2. CASE PollNotDue
  <2>1. w'.order = w.order /\ txn.kind \notin {"idle", "down"} /\ UNCHANGED <<db, venue>>
    BY <1>2 DEF PollNotDue, At, Database
  <2>2. InHand'
    BY <1>2, <2>1, MovedOn DEF PollNotDue, Pcs, AboutAnOrder, ContractInv
  <2> QED
    BY <2>1, <2>2, RowsKeepContract
<1>3. CASE PollNext
  <2>1. txn.kind \notin {"idle", "down"} /\ UNCHANGED <<db, w, venue>>
    BY <1>3 DEF PollNext, At
  <2>2. CASE Goto("market")
    BY <2>1, <2>2, MovedOn, RowsKeepContract DEF Pcs, AboutAnOrder, ContractInv
  <2>3. CASE \E k \in txn.todo :
               txn' = [Polling(txn, k, "policy") EXCEPT !.todo = @ \ {k}]
    <3>1. PICK k \in txn.todo :
            txn' = [Polling(txn, k, "policy") EXCEPT !.todo = @ \ {k}]
      BY <2>3
    <3>2. /\ txn'.pc = "pollStatus" /\ txn'.cur = k /\ txn'.todo = txn.todo \ {k}
          /\ txn'.kind \notin {"idle", "down"}
      BY <2>1, <3>1 DEF Polling, Transaction
    <3>3. w.order[k].status \in NonTerminal
      BY <1>0 DEF Live
    <3>4. InHand'
      BY <1>0, <2>1, <3>2, <3>3, OneInHand
    <3> QED
      BY <2>1, <3>4, RowsKeepContract
  <2> QED
    BY <1>3, <2>2, <2>3 DEF PollNext
<1>4. CASE CancelStalled
  <2>0. txn.cur \in Keys /\ txn.kind \notin {"idle", "down"} /\ txn.cur \notin txn.todo
    BY <1>4 DEF CancelStalled, At, CurrentOrder, AboutAnOrder, ContractInv, InHand
  <2> DEFINE row == [w.order[txn.cur] EXCEPT !.status = "CANCEL_PENDING"]
  <2>1. w.order[txn.cur] \in Row /\ w.order[txn.cur].status \in NonTerminal
    BY <1>4, <2>0 DEF CancelStalled, Database, NonTerminal
  <2>2. /\ row \in Row /\ row.status = "CANCEL_PENDING" /\ row.status \in NonTerminal
        /\ row.execs = w.order[txn.cur].execs
    BY <2>1 DEF Row, Status, NonTerminal
  <2>3. w'.order = [w.order EXCEPT ![txn.cur] = row]
    BY <1>4 DEF CancelStalled, SetStatus, Database
  <2>4. /\ txn'.pc = "cancel" /\ txn'.cur = txn.cur /\ txn'.todo = txn.todo
        /\ txn'.kind = txn.kind /\ UNCHANGED <<db, venue>>
    BY <1>4 DEF CancelStalled, Transaction
  <2> HIDE DEF row
  <2>5. InHand'
    <3>1. w'.order[txn.cur] = row
      BY <2>0, <2>3 DEF Database
    <3>2. txn.todo \subseteq Live(w')
      BY <1>0, <2>0, <2>3, OthersLive
    <3> QED
      BY <2>0, <2>2, <2>4, <3>1, <3>2, OneInHand
  <2> QED
    BY <2>0, <2>1, <2>2, <2>3, <2>4, <2>5, RelabelKeepsContract
<1>5. CASE LeaveOrder
  <2>1. txn.kind \notin {"idle", "down"} /\ UNCHANGED <<db, w, venue>>
    BY <1>5 DEF LeaveOrder, At
  <2>2. InHand'
    BY <1>5, <2>1, MovedOn DEF LeaveOrder, Pcs, AboutAnOrder, ContractInv
  <2> QED
    BY <2>1, <2>2, RowsKeepContract
<1>6. CASE RequestCancel
  <2>1. txn.kind \notin {"idle", "down"} /\ UNCHANGED <<db, w, venue>>
    BY <1>6 DEF RequestCancel, At
  <2>2. CASE Goto("cancelRefused")
    BY <2>1, <2>2, MovedOn, RowsKeepContract DEF Pcs, AboutAnOrder, ContractInv
  <2>3. CASE Goto("pollStatus")
    <3>1. /\ txn'.pc = "pollStatus" /\ txn'.cur = txn.cur /\ txn'.todo = txn.todo
          /\ txn'.kind = txn.kind
      BY <2>3, Moved DEF Pcs, AboutAnOrder
    <3>2. txn.cur \notin txn.todo /\ w.order[txn.cur].status \in NonTerminal
      BY <1>6 DEF RequestCancel, At, AboutAnOrder, ContractInv, InHand
    <3>3. InHand'
      BY <1>0, <2>1, <3>1, <3>2, OneInHand
    <3> QED
      BY <2>1, <3>3, RowsKeepContract
  <2> QED
    BY <1>6, <2>2, <2>3 DEF RequestCancel
<1> QED
  BY <1>1, <1>2, <1>3, <1>4, <1>5, <1>6

\* The steps of a tick that look at the market and decide.
LEMMA DecisionKeepsContract ==
  ASSUME Formed, Formed', Bookkeeping, ContractInv,
         \/ NoCandle \/ MarketFailed \/ GapDetected \/ NewCandle
         \/ NoOrderDecided \/ DecideClose \/ DecideEntry
  PROVE  ContractInv'
<1> USE DEF Formed, TypeOK
<1>0. txn.todo \subseteq Live(w) /\ InHand
  BY DEF ContractInv, InHand
<1>1. ASSUME NEW pc \in {"commit", "decide"}, Goto(pc), w'.order = w.order, db' = db,
             venue' = venue, txn.kind \notin {"idle", "down"}
      PROVE  ContractInv'
  <2>1. InHand'
    BY <1>0, <1>1, MovedOn DEF Pcs, AboutAnOrder
  <2> QED
    BY <1>1, <2>1, RowsKeepContract
<1>2. ASSUME NEW k \in Keys, NEW close \in BOOLEAN, NEW side \in Side, NEW qty \in Nat,
             SaveOrder(k, close, side, qty), txn.kind \notin {"idle", "down"}
      PROVE  ContractInv'
  <2> DEFINE row == [NoRow EXCEPT !.status = "PENDING_SUBMIT", !.close = close,
                                  !.side = side, !.qty = qty]
  <2>1. /\ row \in Row /\ row.status = "PENDING_SUBMIT" /\ row.status \in NonTerminal
        /\ row.execs = {}
    BY DEF NoRow, Row, Status, NonTerminal
  <2>2. w'.order = [w.order EXCEPT ![k] = row] /\ w.order[k].status = "ABSENT"
    BY <1>2 DEF SaveOrder, Database
  <2>3. w.order[k].execs = {}
    BY <2>2, AbsentIsEmpty DEF ContractInv
  <2>4. k \notin txn.todo
    BY <1>0, <2>2 DEF Live, NonTerminal
  <2>5. /\ txn'.pc = "submit" /\ txn'.cur = k /\ txn'.todo = txn.todo
        /\ txn'.kind = txn.kind /\ UNCHANGED <<db, venue>>
    BY <1>2 DEF SaveOrder, Transaction
  <2> HIDE DEF row
  <2>6. InHand'
    <3>1. w'.order[k] = row
      BY <2>2 DEF Database
    <3>2. txn.todo \subseteq Live(w')
      BY <1>0, <2>2, <2>4, OthersLive
    <3> QED
      BY <1>2, <2>1, <2>4, <2>5, <3>1, <3>2, OneInHand
  <2>7. row.execs = w.order[k].execs
    BY <2>1, <2>3
  <2> QED
    BY <2>1, <2>2, <2>5, <2>6, <2>7, RelabelKeepsContract
<1>3. CASE NoCandle
  BY <1>1, <1>3 DEF NoCandle, At
<1>4. CASE MarketFailed
  BY <1>1, <1>4 DEF MarketFailed, At, Database
<1>5. CASE GapDetected
  BY <1>1, <1>5 DEF GapDetected, At, Database
<1>6. CASE NewCandle
  <2>1. w'.order = w.order
    BY <1>6 DEF NewCandle, Database
  <2> QED
    BY <1>1, <1>6, <2>1 DEF NewCandle, At
<1>7. CASE NoOrderDecided
  BY <1>1, <1>7 DEF NoOrderDecided, At
<1>8. CASE DecideClose
  <2>1. PICK k \in CloseKeys :
          SaveOrder(k, TRUE, IF w.pos > 0 THEN "SELL" ELSE "BUY", Abs(w.pos))
    BY <1>8 DEF DecideClose
  <2>2. Abs(w.pos) \in Nat /\ k \in Keys /\ txn.kind \notin {"idle", "down"}
    BY <1>8 DEF DecideClose, At, Database, Abs, Keys
  <2> QED
    BY <1>2, <2>1, <2>2 DEF Side
<1>9. CASE DecideEntry
  BY <1>2, <1>9, EntryAssumption DEF DecideEntry, At, Keys, Side
<1> QED
  BY <1>3, <1>4, <1>5, <1>6, <1>7, <1>8, <1>9

\* The order the exchange receives has no fill yet.
LEMMA ReceivedTrades ==
  ASSUME Formed, ContractInv, txn.cur \in Keys, Received \/ UNCHANGED venue
  PROVE  /\ NothingTraded'
         /\ \A k \in Keys : Market(k)' = Market(k)
<1>1. CASE UNCHANGED venue
  BY <1>1 DEF ContractInv, NothingTraded, Market
<1>2. CASE Received
  <2> SUFFICES ASSUME NEW k \in Keys
               PROVE  /\ venue'[k].st \in {"none", "New", "Rejected"} => venue'[k].filled = 0
                      /\ venue'[k].filled = venue[k].filled
                      /\ venue'[k].st \in DoneVenue <=> venue[k].st \in DoneVenue
    BY DEF NothingTraded, Market
  <2>1. venue[k].st \in {"none", "New", "Rejected"} => venue[k].filled = 0
    BY DEF ContractInv, NothingTraded
  <2>2. CASE k = txn.cur
    <3>1. venue[k].st = "none"
      BY <1>2, <2>2 DEF Received
    <3>2. venue'[k].st = "New" /\ venue'[k].filled = 0
      BY <1>2, <2>2 DEF Received, Formed, TypeOK
    <3> QED
      BY <2>1, <3>1, <3>2 DEF DoneVenue
  <2>3. CASE k # txn.cur
    <3>1. venue'[k] = venue[k]
      BY <1>2, <2>3 DEF Received, Formed, TypeOK
    <3> QED
      BY <2>1, <3>1
  <2> QED
    BY <2>2, <2>3
<1> QED
  BY <1>1, <1>2

\* Submitting, and noting its result: a refused order has no fills.
LEMMA SubmitKeepsContract ==
  ASSUME Formed, Formed', Bookkeeping, ContractInv,
         SubmitAccepted \/ SubmitRefused \/ SubmitTimedOut \/ Outcome
  PROVE  ContractInv'
<1> USE DEF Formed, TypeOK
<1>0. txn.pc \in AboutAnOrder => txn.cur \in Keys
  BY DEF CurrentOrder
<1>1. ASSUME At("submit")
      PROVE  /\ txn.cur \in Keys /\ w.order[txn.cur] \in Row
             /\ w.order[txn.cur].status \in NonTerminal
             /\ w.order[txn.cur].execs = {}
             /\ txn.todo \subseteq Live(w) /\ txn.cur \notin txn.todo
             /\ txn.kind \notin {"idle", "down"}
  BY <1>0, <1>1 DEF At, AboutAnOrder, Database, ContractInv, InHand
<1>2. ASSUME At("submit"), NEW row \in Row, row.execs = {},
             row.status \in NonTerminal \cup {"REJECTED"},
             w'.order = [w.order EXCEPT ![txn.cur] = row],
             Received \/ UNCHANGED venue, db' = db
      PROVE  /\ Ahead' /\ NothingTraded' /\ txn.todo \subseteq Live(w')
             /\ w'.order[txn.cur] = row
  <2>1. \A k \in Keys : Grows(k)
    BY <1>1, <1>2, ReceivedGrows
  <2>2. Contract!Follows(Entry(row), Entry(w.order[txn.cur]), Market(txn.cur))
    <3>1. Entry(w.order[txn.cur]).phase = "live" /\ Entry(w.order[txn.cur]).fills = {}
      BY <1>1, <1>2 DEF Entry, Phase, NonTerminal
    <3>2. Entry(row).phase \in {"live", "refused"} /\ Entry(row).fills = {}
      BY <1>2 DEF Entry, Phase, NonTerminal
    <3> QED
      BY <3>1, <3>2 DEF Contract!Follows
  <2>3. Ahead'
    BY <1>1, <1>2, <2>1, <2>2, OneRowAhead DEF ContractInv
  <2>4. NothingTraded'
    BY <1>1, <1>2, ReceivedTrades
  <2>5. txn.todo \subseteq Live(w')
    BY <1>1, <1>2, OthersLive
  <2>6. w'.order[txn.cur] = row
    BY <1>1, <1>2 DEF Database
  <2> QED
    BY <2>3, <2>4, <2>5, <2>6
<1>3. CASE SubmitAccepted
  <2>1. At("submit") /\ db' = db /\ (Received \/ UNCHANGED venue)
    BY <1>3 DEF SubmitAccepted
  <2> DEFINE row == [w.order[txn.cur] EXCEPT !.id = TRUE, !.status = "SUBMITTED"]
  <2>2. /\ row \in Row /\ row.status = "SUBMITTED" /\ row.execs = {}
        /\ row.status \in NonTerminal
    BY <1>1, <2>1 DEF Row, Status, NonTerminal
  <2>3. w' = [w EXCEPT !.order[txn.cur] = row]
    BY <1>1, <1>3, <2>1 DEF SubmitAccepted, Database
  <2> HIDE DEF row
  <2>4. w'.order = [w.order EXCEPT ![txn.cur] = row]
    BY <2>3 DEF Database
  <2>5. /\ txn'.pc = "pollStatus" /\ txn'.cur = txn.cur /\ txn'.todo = txn.todo
        /\ txn'.kind = txn.kind
    BY <1>3 DEF SubmitAccepted, Polling, Transaction
  <2>6. /\ Ahead' /\ NothingTraded' /\ txn.todo \subseteq Live(w')
        /\ w'.order[txn.cur] = row
    BY <1>2, <2>1, <2>2, <2>4
  <2>7. InHand'
    BY <1>1, <2>1, <2>2, <2>5, <2>6, OneInHand
  <2> QED
    BY <2>6, <2>7 DEF ContractInv
<1>4. ASSUME NEW status \in {"REJECTED", "UNKNOWN"}, At("submit"), NotAccepted(status),
             Received \/ UNCHANGED venue
      PROVE  ContractInv'
  <2> DEFINE row == [w.order[txn.cur] EXCEPT !.status = status]
  <2>1. /\ row \in Row /\ row.status = status /\ row.execs = {}
        /\ row.status \in NonTerminal \cup {"REJECTED"}
    BY <1>1, <1>4 DEF Row, Status, NonTerminal, Terminal
  <2>2. SetStatus(w, txn.cur, status).order = [w.order EXCEPT ![txn.cur] = row]
    BY <1>1, <1>4 DEF SetStatus, Database
  <2> HIDE DEF row
  <2>3. w'.order = SetStatus(w, txn.cur, status).order
    BY <1>1, <1>4, SetStatusType DEF NotAccepted, Database, Status, NonTerminal, Terminal
  <2>4. /\ txn'.pc = "reconPositions" /\ txn'.todo = txn.todo /\ txn'.kind = txn.kind
        /\ db' = db
    BY <1>4 DEF NotAccepted, Reconciling, Transaction
  <2>5. Ahead' /\ NothingTraded' /\ txn.todo \subseteq Live(w')
    BY <1>2, <1>4, <2>1, <2>2, <2>3, <2>4
  <2>6. InHand'
    BY <1>1, <1>4, <2>4, <2>5, NoneInHand DEF AboutAnOrder
  <2> QED
    BY <2>5, <2>6 DEF ContractInv
<1>5. CASE Outcome
  <2>1. /\ w'.order = w.order /\ UNCHANGED <<db, venue>>
        /\ txn.kind \notin {"idle", "down"} /\ txn.todo \subseteq Live(w) /\ InHand
    BY <1>5 DEF Outcome, At, Database, ContractInv, InHand
  <2>2. CASE Goto("commit")
    <3>1. InHand'
      BY <2>1, <2>2, MovedOn DEF Pcs, AboutAnOrder
    <3> QED
      BY <2>1, <3>1, RowsKeepContract
  <2>3. CASE txn' = Reconciling(txn, "commit")
    <3>1. txn'.pc = "reconPositions" /\ txn'.todo = txn.todo /\ txn'.kind = txn.kind
      BY <2>3 DEF Reconciling, Transaction
    <3>2. InHand'
      BY <2>1, <3>1, SameLive, NoneInHand DEF AboutAnOrder
    <3> QED
      BY <2>1, <3>2, RowsKeepContract
  <2> QED
    BY <1>5, <2>2, <2>3 DEF Outcome
<1> QED
  BY <1>3, <1>4, <1>5 DEF SubmitRefused, SubmitTimedOut

\* The emergency block takes the live orders in hand to cancel them; the other
\* endpoints touch no order.
LEMMA ControlKeepsContract ==
  ASSUME Formed, Formed', Bookkeeping, ContractInv, ControlStep
  PROVE  ContractInv'
<1> USE DEF Formed, TypeOK
<1>0. txn.todo \subseteq Live(w) /\ InHand /\ Ahead
  BY DEF ContractInv, InHand
<1>1. ASSUME w'.order = db.order, db'.order = db.order, venue' = venue, InHand'
      PROVE  ContractInv'
  <2>1. Ahead'
    BY <1>0, <1>1, NothingAhead
  <2>2. NothingTraded'
    BY <1>1 DEF ContractInv, NothingTraded
  <2> QED
    BY <1>1, <2>1, <2>2 DEF ContractInv
<1>2. CASE KillBegin
  <2>1. w'.order = db.order /\ UNCHANGED <<db, venue>>
    BY <1>2 DEF KillBegin, Begin, Database
  <2>2. txn'.pc = "killNext" /\ txn'.todo = Trackable(db) /\ txn'.kind = "kill"
    BY <1>2 DEF KillBegin, Begin, Transaction
  <2>3. txn'.todo \subseteq Live(w')
    BY <2>1, <2>2, SameLive DEF Trackable
  <2>4. InHand'
    BY <2>2, <2>3, NoneInHand DEF AboutAnOrder
  <2> QED
    BY <1>1, <2>1, <2>4
<1>3. CASE KillNext
  <2>1. PICK k \in txn.todo :
          \/ /\ w' = SetStatus(w, k, "CANCEL_PENDING")
             /\ txn' = [txn EXCEPT !.pc = "cancel", !.cur = k, !.then = "killNext",
                                   !.todo = @ \ {k}]
          \/ Goto("illegalMove") /\ w' = w
    BY <1>3 DEF KillNext
  <2>2. /\ k \in Keys /\ w.order[k].status \in NonTerminal
        /\ txn.kind \notin {"idle", "down"} /\ UNCHANGED <<db, venue>>
    BY <1>0, <1>3 DEF KillNext, At, Transaction, Live
  <2>3. CASE /\ w' = SetStatus(w, k, "CANCEL_PENDING")
             /\ txn' = [txn EXCEPT !.pc = "cancel", !.cur = k, !.then = "killNext",
                                   !.todo = @ \ {k}]
    <3> DEFINE row == [w.order[k] EXCEPT !.status = "CANCEL_PENDING"]
    <3>1. w.order[k] \in Row
      BY <2>2 DEF Database
    <3>2. /\ row \in Row /\ row.status = "CANCEL_PENDING" /\ row.status \in NonTerminal
          /\ row.execs = w.order[k].execs
      BY <3>1 DEF Row, Status, NonTerminal
    <3>3. w'.order = [w.order EXCEPT ![k] = row]
      BY <2>3 DEF SetStatus, Database
    <3>4. /\ txn'.pc = "cancel" /\ txn'.cur = k /\ txn'.todo = txn.todo \ {k}
          /\ txn'.kind = txn.kind
      BY <2>3 DEF Transaction
    <3> HIDE DEF row
    <3>5. w'.order[k] = row
      BY <2>2, <3>3 DEF Database
    <3>6. txn'.todo \subseteq Live(w')
      BY <1>0, <2>2, <3>3, <3>4, OthersLive
    <3>7. InHand'
      BY <2>2, <3>2, <3>4, <3>5, <3>6, OneInHand
    <3> QED
      BY <2>2, <3>2, <3>3, <3>7, RelabelKeepsContract
  <2>4. CASE Goto("illegalMove") /\ w' = w
    <3>1. InHand'
      BY <1>0, <2>2, <2>4, MovedOn DEF Pcs, AboutAnOrder
    <3> QED
      BY <2>2, <2>4, <3>1, RowsKeepContract
  <2> QED
    BY <2>1, <2>3, <2>4
<1>4. CASE KillEnd
  <2>1. w'.order = w.order /\ UNCHANGED <<db, venue>> /\ txn.kind \notin {"idle", "down"}
    BY <1>4 DEF KillEnd, At, Database
  <2>2. /\ txn'.pc \in {"reconPositions", "commit"} /\ txn'.todo = txn.todo
        /\ txn'.kind = txn.kind
    BY <1>4 DEF KillEnd, Reconciling, Transaction
  <2>3. txn'.todo \subseteq Live(w')
    BY <1>0, <2>1, <2>2, SameLive
  <2>4. InHand'
    BY <2>1, <2>2, <2>3, NoneInHand DEF AboutAnOrder
  <2> QED
    BY <2>1, <2>4, RowsKeepContract
<1>5. ASSUME NEW g, Endpoint(g)
      PROVE  ContractInv'
  <2>1. /\ db'.order = db.order /\ w'.order = db.order /\ UNCHANGED <<txn, venue>>
        /\ txn.kind = "idle"
    BY <1>5 DEF Endpoint, Database
  <2>2. txn'.todo = {} /\ txn'.pc \notin AboutAnOrder
    BY <1>0, <2>1 DEF InHand
  <2>3. InHand'
    BY <2>2, NoneInHand
  <2> QED
    BY <1>1, <2>1, <2>3
<1> QED
  BY <1>2, <1>3, <1>4, <1>5 DEF ControlStep, Disengage, Activate, Pause

\* A handler begins and ends with nothing in hand.
LEMMA EndsKeepContract ==
  ASSUME Formed, Formed', Bookkeeping, ContractInv,
         TickBegin \/ Boot \/ BootEnd \/ Shutdown \/ Commit \/ Rollback \/ Crash
  PROVE  ContractInv'
<1> USE DEF Formed, TypeOK
<1>0. txn.todo \subseteq Live(w) /\ InHand /\ Ahead
  BY DEF ContractInv, InHand
<1>1. ASSUME w'.order = db'.order, db'.order = db.order \/ db'.order = w.order,
             venue' = venue, txn'.todo = {}, txn'.pc \notin AboutAnOrder
      PROVE  ContractInv'
  <2>1. Ahead'
    BY <1>0, <1>1, NothingAhead
  <2>2. NothingTraded'
    BY <1>1 DEF ContractInv, NothingTraded
  <2>3. InHand'
    BY <1>1, NoneInHand
  <2> QED
    BY <2>1, <2>2, <2>3 DEF ContractInv
<1>2. ASSUME NEW kind, NEW d, NEW t, Begin(kind, d, t), t \in Transaction,
             d.order = db.order, t.todo = {}, t.pc \notin AboutAnOrder
      PROVE  ContractInv'
  BY <1>1, <1>2 DEF Begin, Transaction
<1>3. txn.kind \in {"idle", "down"} => txn.todo = {}
  BY <1>0 DEF InHand
<1>4. ASSUME NEW after \in ReconReturns
      PROVE  /\ Reconciling(txn, after) \in Transaction
             /\ Reconciling(txn, after).todo = txn.todo
             /\ Reconciling(txn, after).pc = "reconPositions"
  BY <1>4 DEF Reconciling, Transaction, Pcs, PollReturns
<1>5. CASE TickBegin
  <2>1. CASE Begin("tick", db, Reconciling(txn, "pollDue"))
    BY <1>2, <1>3, <1>4, <1>5, <2>1 DEF TickBegin, ReconReturns, AboutAnOrder
  <2>2. CASE Begin("tick", db, [txn EXCEPT !.pc = "pollDue"])
    <3> DEFINE t == [txn EXCEPT !.pc = "pollDue"]
    <3>1. t \in Transaction /\ t.todo = txn.todo /\ t.pc = "pollDue"
      BY DEF Transaction, Pcs
    <3>2. t.todo = {}
      BY <1>3, <1>5, <3>1 DEF TickBegin
    <3> HIDE DEF t
    <3>3. t.pc \notin AboutAnOrder
      BY <3>1 DEF AboutAnOrder
    <3> QED
      BY <1>2, <2>2, <3>1, <3>2, <3>3 DEF t
  <2> QED
    BY <1>5, <2>1, <2>2 DEF TickBegin
<1>6. CASE Boot
  BY <1>2, <1>3, <1>4, <1>6 DEF Boot, ReconReturns, AboutAnOrder
<1>7. CASE Shutdown
  <2>1. [db EXCEPT !.gate.opstate = "ENCERRANDO"].order = db.order
    BY DEF Database
  <2> QED
    BY <1>2, <1>3, <1>4, <1>7, <2>1 DEF Shutdown, ReconReturns, AboutAnOrder
<1>8. CASE BootEnd
  <2>1. w'.order = w.order /\ UNCHANGED <<db, venue>> /\ txn.kind \notin {"idle", "down"}
    BY <1>8 DEF BootEnd, At, Database
  <2>2. InHand'
    BY <1>0, <1>8, <2>1, MovedOn DEF BootEnd, Pcs, AboutAnOrder
  <2> QED
    BY <2>1, <2>2, RowsKeepContract
<1>9. ASSUME NEW kind, txn' = Idle(kind)
      PROVE  txn'.todo = {} /\ txn'.pc \notin AboutAnOrder
  BY <1>9 DEF Idle, AboutAnOrder
<1>10. CASE Commit
  BY <1>1, <1>9, <1>10 DEF Commit
<1>11. CASE Rollback
  BY <1>1, <1>9, <1>11 DEF Rollback
<1>12. CASE Crash
  BY <1>1, <1>9, <1>12 DEF Crash
<1> QED
  BY <1>5, <1>6, <1>7, <1>8, <1>10, <1>11, <1>12

-----------------------------------------------------------------------------
(* The refinement *)

\* At the start there is nothing in hand and nothing in the books.
LEMMA InitKeepsContract == Init => ContractInv
  BY DEF Init, ContractInv, InHand, Ahead, NothingTraded, Contract!Follows, FreshDb,
         NoRow, NoOrder, Idle, AboutAnOrder

\* Every step keeps what the transaction has done publishable.
LEMMA StepKeepsContract ==
  Formed /\ Formed' /\ Bookkeeping /\ ContractInv /\ [Next]_vars => ContractInv'
<1> SUFFICES ASSUME Formed, Formed', Bookkeeping, ContractInv, [Next]_vars
             PROVE  ContractInv'
  OBVIOUS
<1>1. CASE UNCHANGED vars
  BY <1>1 DEF vars, ContractInv, InHand, Ahead, NothingTraded, Live, Entry, Market
<1>2. CASE Next
  BY <1>2, VenueKeepsContract, PollKeepsContract, ReconKeepsContract,
     PollingTickKeepsContract, DecisionKeepsContract, SubmitKeepsContract,
     ControlKeepsContract, EndsKeepContract
     DEF Next, TickStep
<1> QED
  BY <1>1, <1>2

\* What has been done so far may be published, at every step of every handler, and
\* nothing is in hand twice: the inductive invariant of the refinement.
THEOREM AlwaysPublishable == Spec => [](Formed /\ Bookkeeping /\ ContractInv)
<1>1. Init => Formed /\ Bookkeeping /\ ContractInv
  BY InitType, InitKeepsBooks, InitKeepsContract
<1>2. Formed /\ Bookkeeping /\ ContractInv /\ [Next]_vars
        => (Formed /\ Bookkeeping /\ ContractInv)'
  BY StepType, StepKeepsBooks, StepKeepsContract
<1> QED
  BY <1>1, <1>2, PTL DEF Spec

\* The market of the contract.
TheMarket == [k \in Keys |-> Market(k)]
TheBook   == [k \in Keys |-> Entry(db.order[k])]

\* A move of the exchange on an order trades it in the contract.
LEMMA VenueTrades ==
  ASSUME Formed, NEW k \in Keys, VenueFill(k) \/ VenueCancel(k) \/ VenueReject(k)
  PROVE  Contract!Trade(k)
<1> DEFINE m == Market(k)
<1>0. venue \in [Keys -> VenueOrder] /\ venue[k].filled \in Nat
  BY DEF Formed, TypeOK, VenueOrder
<1>1. ~m.done
  BY DEF Market, VenueFill, MayFill, VenueCancel, VenueReject, OpenVenue, DoneVenue
<1>2. \A j \in Keys : j # k => venue'[j] = venue[j]
  BY <1>0 DEF VenueFill, VenueCancel, VenueReject
<1>3. \E fill \in {0, 1} : venue'[k].filled = venue[k].filled + fill
  <2>1. CASE VenueFill(k)
    BY <1>0, <2>1 DEF VenueFill, VenueOrder
  <2>2. CASE VenueCancel(k)
    BY <1>0, <2>2 DEF VenueCancel, VenueOrder
  <2>3. CASE VenueReject(k)
    BY <1>0, <2>3 DEF VenueReject, VenueOrder
  <2> QED
    BY <2>1, <2>2, <2>3
<1>4. PICK fill \in {0, 1} : Market(k)'.filled = m.filled + fill
  BY <1>3 DEF Market
<1> DEFINE done == venue'[k].st \in DoneVenue
<1>5. done \in BOOLEAN
  OBVIOUS
<1>6. Market(k)' = [filled |-> m.filled + fill, done |-> done]
  <2>1. Market(k)' = [filled |-> venue'[k].filled, done |-> done]
    BY DEF Market
  <2>2. venue'[k].filled = m.filled + fill
    BY <1>4 DEF Market
  <2> QED
    BY <2>1, <2>2
<1>7. TheMarket' = [TheMarket EXCEPT ![k] = [filled |-> @.filled + fill, done |-> done]]
  BY <1>2, <1>6 DEF TheMarket, Market
<1>8. TheBook' = TheBook
  BY DEF VenueFill, VenueCancel, VenueReject, TheBook, Entry
<1>9. ~TheMarket[k].done
  BY <1>1 DEF TheMarket
<1> HIDE DEF done
<1> QED
  BY <1>5, <1>7, <1>8, <1>9 DEF Contract!Trade, TheMarket, TheBook

\* Committing is a publication.
LEMMA CommitPublishes ==
  ASSUME Ahead, Commit
  PROVE  Contract!Publish
<1>1. TheMarket' = TheMarket
  BY DEF Commit, TheMarket, Market
<1>2. \A k \in Keys : TheBook'[k] = Entry(w.order[k])
  BY DEF Commit, TheBook, Entry
<1>3. \A k \in Keys : Contract!Follows(TheBook'[k], TheBook[k], TheMarket[k])
  BY <1>2 DEF Ahead, TheBook, TheMarket
<1> QED
  BY <1>1, <1>3 DEF Contract!Publish, TheBook, TheMarket

\* Any other step leaves market and books alone: receiving an order, too, since it
\* is not filled.
LEMMA OthersStutter ==
  ASSUME Formed, ContractInv, [Next]_vars, ~Commit,
         \A k \in Keys : ~(VenueFill(k) \/ VenueCancel(k) \/ VenueReject(k))
  PROVE  UNCHANGED <<TheMarket, TheBook>>
<1>0. txn.pc \in AboutAnOrder => txn.cur \in Keys
  BY DEF Formed, CurrentOrder
<1>1. db'.order = db.order
  <2>1. CASE UNCHANGED vars
    BY <2>1 DEF vars
  <2>2. CASE ControlStep
    <3>1. ASSUME NEW g, Endpoint(g)
          PROVE  db'.order = db.order
      BY <3>1 DEF Endpoint, Formed, TypeOK, Database
    <3> QED
      BY <2>2, <3>1 DEF ControlStep, KillBegin, Begin, KillNext, KillEnd, Disengage,
                        Activate, Pause
  <2>3. CASE PollStep \/ ReconStep
    BY <2>3 DEF PollStep, PollUnanswered, PollStatus, PollStatusThenFills, FillsComplete,
                FillsInterrupted, Answered, ReconStep, ReconPositions, ReconNextOrder,
                ReconOpenOrders, ReconUnreachable, ReconFinish
  <2>4. CASE TickStep
    BY <2>4 DEF TickStep, PollDue, PollNotDue, PollNext, CancelStalled, LeaveOrder,
                RequestCancel, NoCandle, MarketFailed, GapDetected, NewCandle,
                NoOrderDecided, DecideClose, DecideEntry, SaveOrder, SubmitAccepted,
                SubmitRefused, SubmitTimedOut, NotAccepted, Outcome
  <2>5. CASE VenueMoves \/ TickBegin \/ Boot \/ BootEnd \/ Shutdown \/ Rollback \/ Crash
    BY <2>5 DEF VenueMoves, VenueProtect, TickBegin, Begin, Boot, BootEnd, Shutdown,
                Rollback, Crash
  <2> QED
    BY <2>1, <2>2, <2>3, <2>4, <2>5 DEF Next
<1>2. \A k \in Keys : Market(k)' = Market(k)
  <2>1. ASSUME venue' = venue
        PROVE  \A k \in Keys : Market(k)' = Market(k)
    BY <2>1 DEF Market
  <2>2. ASSUME At("submit"), Received \/ UNCHANGED venue
        PROVE  \A k \in Keys : Market(k)' = Market(k)
    BY <1>0, <2>2, ReceivedTrades DEF At, AboutAnOrder
  <2>3. CASE SubmitAccepted \/ SubmitRefused \/ SubmitTimedOut
    BY <2>2, <2>3 DEF SubmitAccepted, SubmitRefused, SubmitTimedOut
  <2>4. CASE UNCHANGED vars
    BY <2>1, <2>4 DEF vars
  <2>5. CASE ControlStep
    BY <2>1, <2>5 DEF ControlStep, KillBegin, Begin, KillNext, KillEnd, Disengage,
                      Activate, Pause, Endpoint
  <2>6. CASE PollStep \/ ReconStep
    BY <2>1, <2>6 DEF PollStep, PollUnanswered, PollStatus, PollStatusThenFills,
                      FillsComplete, FillsInterrupted, Answered, ReconStep, ReconPositions,
                      ReconNextOrder, ReconOpenOrders, ReconUnreachable, ReconFinish
  <2>7. CASE TickStep /\ ~(SubmitAccepted \/ SubmitRefused \/ SubmitTimedOut)
    BY <2>1, <2>7 DEF TickStep, PollDue, PollNotDue, PollNext, CancelStalled, LeaveOrder,
                      RequestCancel, NoCandle, MarketFailed, GapDetected, NewCandle,
                      NoOrderDecided, DecideClose, DecideEntry, SaveOrder, Outcome
  <2>8. CASE VenueMoves \/ TickBegin \/ Boot \/ BootEnd \/ Shutdown \/ Rollback \/ Crash
    BY <2>1, <2>8 DEF VenueMoves, VenueProtect, TickBegin, Begin, Boot, BootEnd, Shutdown,
                      Rollback, Crash
  <2> QED
    BY <2>3, <2>4, <2>5, <2>6, <2>7, <2>8 DEF Next
<1> QED
  BY <1>1, <1>2 DEF TheMarket, TheBook

\* The committed database implements the abstract books, for any orders and fills,
\* whatever handlers, rollbacks and crashes there are: the market of the contract
\* moves when the exchange does, a commit is a publication, all else is a stutter.
THEOREM BooksImplemented == Spec => KeepsTheBooks
<1>1. Init => Contract!Init
  <2> SUFFICES ASSUME Init PROVE Contract!Init
    OBVIOUS
  <2>1. ASSUME NEW k \in Keys
        PROVE  Market(k) = [filled |-> 0, done |-> FALSE]
    <3>1. venue[k].filled = 0 /\ venue[k].st = "none"
      BY DEF Init, NoOrder
    <3>2. (venue[k].st \in DoneVenue) = FALSE
      BY <3>1 DEF DoneVenue
    <3> QED
      BY <3>1, <3>2, Zenon DEF Market
  <2>2. ASSUME NEW k \in Keys
        PROVE  Entry(db.order[k]) = [phase |-> "none", fills |-> {}]
    BY DEF Init, FreshDb, NoRow, Entry, Phase, NonTerminal
  <2> QED
    BY <2>1, <2>2, Zenon DEF Contract!Init
<1>2. Formed /\ ContractInv /\ [Next]_vars => [Contract!Next]_<<TheMarket, TheBook>>
  <2> SUFFICES ASSUME Formed, ContractInv, [Next]_vars
               PROVE  [Contract!Next]_<<TheMarket, TheBook>>
    OBVIOUS
  <2>1. CASE Commit
    BY <2>1, CommitPublishes DEF ContractInv, Contract!Next
  <2>2. CASE \E k \in Keys : VenueFill(k) \/ VenueCancel(k) \/ VenueReject(k)
    BY <2>2, VenueTrades DEF Contract!Next
  <2>3. CASE /\ ~Commit
             /\ \A k \in Keys : ~(VenueFill(k) \/ VenueCancel(k) \/ VenueReject(k))
    BY <2>3, OthersStutter
  <2> QED
    BY <2>1, <2>2, <2>3
<1>3. [Contract!Next]_<<TheMarket, TheBook>>
        <=> [Contract!Next]_<<[k \in Keys |-> Market(k)], [k \in Keys |-> Entry(db.order[k])]>>
  BY DEF TheMarket, TheBook
<1> QED
  BY <1>1, <1>2, <1>3, AlwaysPublishable, PTL DEF Spec, KeepsTheBooks, Contract!Spec

-----------------------------------------------------------------------------
(* The position: counting fills *)

\* There is something to count.
Countable(d) == \A side \in Side : IsFiniteSet(RecordedFills(d, side))

\* The fills on file for one order are as many as the pairs that name them.
LEMMA PairsCount ==
  ASSUME NEW k, NEW S, IsFiniteSet(S)
  PROVE  IsFiniteSet({k} \X S) /\ Cardinality({k} \X S) = Cardinality(S)
<1>1. IsFiniteSet({k}) /\ Cardinality({k}) = 1
  BY FS_Singleton
<1>2. Cardinality(S) \in Nat
  BY FS_CardinalityType
<1>3. /\ IsFiniteSet({k} \X S)
      /\ Cardinality({k} \X S) = Cardinality({k}) * Cardinality(S)
  BY <1>1, FS_Product
<1> QED
  BY <1>1, <1>2, <1>3

\* A database with the same position, and with the same fills for the same sides.
SameFills(d, e) ==
  /\ e.pos = d.pos /\ e.held = d.held
  /\ \A k \in Keys :
       /\ e.order[k].execs = d.order[k].execs
       /\ e.order[k].side = d.order[k].side \/ d.order[k].execs = {}

\* It is explained as well as the other.
LEMMA SameExplained ==
  ASSUME NEW d, NEW e, SameFills(d, e), Countable(d), Explained(d)
  PROVE  Countable(e) /\ Explained(e)
<1>1. ASSUME NEW side
      PROVE  RecordedFills(e, side) = RecordedFills(d, side)
  <2>1. ASSUME NEW x \in RecordedFills(e, side)
        PROVE  x \in RecordedFills(d, side)
    <3>1. PICK k \in Keys : e.order[k].side = side /\ x \in {k} \X e.order[k].execs
      BY <2>1 DEF RecordedFills
    <3>2. d.order[k].side = side /\ x \in {k} \X d.order[k].execs
      BY <3>1 DEF SameFills
    <3> QED
      BY <3>2 DEF RecordedFills
  <2>2. ASSUME NEW x \in RecordedFills(d, side)
        PROVE  x \in RecordedFills(e, side)
    <3>1. PICK k \in Keys : d.order[k].side = side /\ x \in {k} \X d.order[k].execs
      BY <2>2 DEF RecordedFills
    <3>2. e.order[k].side = side /\ x \in {k} \X e.order[k].execs
      BY <3>1 DEF SameFills
    <3> QED
      BY <3>2 DEF RecordedFills
  <2> QED
    BY <2>1, <2>2
<1> QED
  BY <1>1 DEF Countable, Explained, NetOfFills, SameFills

\* The fills on file once those of order k, of which new are new, are added.
LEMMA FillsAdded ==
  ASSUME NEW d \in Database, NEW k \in Keys, NEW row \in Row, NEW new,
         row.side = d.order[k].side, row.execs = d.order[k].execs \cup new,
         NEW e, e.order = [d.order EXCEPT ![k] = row], NEW side
  PROVE  RecordedFills(e, side) =
           IF side = row.side THEN RecordedFills(d, side) \cup ({k} \X new)
                              ELSE RecordedFills(d, side)
<1>1. e.order[k] = row /\ \A j \in Keys : j # k => e.order[j] = d.order[j]
  BY DEF Database
<1>2. ASSUME NEW x \in RecordedFills(e, side)
      PROVE  x \in IF side = row.side THEN RecordedFills(d, side) \cup ({k} \X new)
                                      ELSE RecordedFills(d, side)
  <2>1. PICK j \in Keys : e.order[j].side = side /\ x \in {j} \X e.order[j].execs
    BY <1>2 DEF RecordedFills
  <2>2. CASE j # k
    <3>1. x \in RecordedFills(d, side)
      BY <1>1, <2>1, <2>2 DEF RecordedFills
    <3> QED
      BY <3>1
  <2>3. CASE j = k
    <3>1. side = row.side /\ x \in {k} \X (d.order[k].execs \cup new)
      BY <1>1, <2>1, <2>3
    <3>2. x \in {k} \X d.order[k].execs \/ x \in {k} \X new
      BY <3>1
    <3>3. x \in {k} \X d.order[k].execs => x \in RecordedFills(d, side)
      BY <3>1 DEF RecordedFills
    <3> QED
      BY <3>1, <3>2, <3>3
  <2> QED
    BY <2>2, <2>3
<1>3. ASSUME NEW x \in RecordedFills(d, side)
      PROVE  x \in RecordedFills(e, side)
  <2>1. PICK j \in Keys : d.order[j].side = side /\ x \in {j} \X d.order[j].execs
    BY <1>3 DEF RecordedFills
  <2>2. e.order[j].side = side /\ x \in {j} \X e.order[j].execs
    BY <1>1, <2>1
  <2> QED
    BY <2>2 DEF RecordedFills
<1>4. ASSUME side = row.side, NEW x \in {k} \X new
      PROVE  x \in RecordedFills(e, side)
  <2>1. e.order[k].side = side /\ x \in {k} \X e.order[k].execs
    BY <1>1, <1>4
  <2> QED
    BY <2>1 DEF RecordedFills
<1> QED
  BY <1>2, <1>3, <1>4

\* The side of the fills a position is made of moves it by as many.
LEMMA PositionMoves ==
  ASSUME NEW pos \in Int, NEW row \in Row, NEW n \in Nat, ~FillsHeld(pos, row, n)
  PROVE  PositionAfter(pos, row, n) = pos + Sign(row.side) * n
<1>1. row.side \in {"BUY", "SELL"} /\ row.close \in BOOLEAN
  BY DEF Row, Side
<1>2. CASE row.close
  BY <1>1, <1>2 DEF PositionAfter, FillsHeld, Opposes, Sign, SideOf, Abs
<1>3. CASE ~row.close
  BY <1>1, <1>3 DEF PositionAfter, FillsHeld, Opposes, Sign, SideOf
<1> QED
  BY <1>2, <1>3

\* Applying a report explains the position if it was.
LEMMA ApplyExplained ==
  ASSUME NEW d \in Database, NEW k \in Keys, NEW snap \in SnapshotType,
         Countable(d), Explained(d)
  PROVE  Countable(Apply(d, k, snap)) /\ Explained(Apply(d, k, snap))
<1> DEFINE row == d.order[k]
           new == NewFills(row, snap)
           n == Cardinality(new)
           synced == [StatusSynced(row, snap) EXCEPT !.execs = row.execs \cup snap.fills]
           e == Apply(d, k, snap)
<1>1. row \in Row /\ d.pos \in Int /\ d.held \in BOOLEAN
  BY DEF Database
<1>2. /\ e.order = [d.order EXCEPT ![k] = synced]
      /\ e.pos = PositionAfter(d.pos, row, n)
      /\ e.held = (d.held \/ FillsHeld(d.pos, row, n))
  BY DEF Apply
<1>3. IsFiniteSet(new) /\ n \in Nat /\ new \cap row.execs = {}
  BY <1>1, FS_Difference, NewFillsCount DEF SnapshotType, NewFills
<1>4. /\ synced \in Row /\ synced.side = row.side
      /\ synced.execs = row.execs \cup new
  <2>1. StatusSynced(row, snap) \in Row /\ StatusSynced(row, snap).side = row.side
    BY <1>1, StatusSyncedType DEF StatusSynced, Row
  <2> QED
    BY <1>1, <2>1 DEF Row, SnapshotType, NewFills
<1> HIDE DEF new, n, synced, e
<1>5. ASSUME NEW side \in Side
      PROVE  /\ IsFiniteSet(RecordedFills(e, side))
             /\ Cardinality(RecordedFills(d, side)) \in Nat
             /\ Cardinality(RecordedFills(e, side)) =
                  IF side = row.side THEN Cardinality(RecordedFills(d, side)) + n
                                     ELSE Cardinality(RecordedFills(d, side))
  <2> DEFINE F == RecordedFills(d, side)
             P == {k} \X new
  <2>1. IsFiniteSet(F) /\ Cardinality(F) \in Nat
    BY FS_CardinalityType DEF Countable
  <2>2. RecordedFills(e, side) = IF side = row.side THEN F \cup P ELSE F
    BY <1>1, <1>2, <1>4, FillsAdded
  <2>3. IsFiniteSet(P) /\ Cardinality(P) = n
    BY <1>3, PairsCount DEF n
  <2>4. F \cap P = {}
    <3>1. ASSUME NEW x \in F, x \in P
          PROVE  FALSE
      <4>1. PICK j \in Keys : x \in {j} \X d.order[j].execs
        BY <3>1 DEF RecordedFills
      <4>2. PICK f \in new : x = <<k, f>>
        BY <3>1
      <4>3. j = k /\ f \in row.execs
        BY <4>1, <4>2
      <4> QED
        BY <1>3, <4>2, <4>3
    <3> QED
      BY <3>1
  <2> HIDE DEF F, P
  <2>5. /\ IsFiniteSet(F \cup P)
        /\ Cardinality(F \cup P) = Cardinality(F) + Cardinality(P) - Cardinality({})
    BY <2>1, <2>3, <2>4, FS_Union
  <2>6. Cardinality({}) = 0
    BY FS_EmptySet
  <2>7. IsFiniteSet(F \cup P) /\ Cardinality(F \cup P) = Cardinality(F) + n
    BY <1>3, <2>1, <2>3, <2>5, <2>6
  <2> QED
    BY <2>1, <2>2, <2>7 DEF F
<1>6. Countable(e)
  BY <1>5 DEF Countable
<1>7. ASSUME ~e.held
      PROVE  e.pos = NetOfFills(e)
  <2>1. ~d.held /\ ~FillsHeld(d.pos, row, n)
    BY <1>2, <1>7
  <2>2. d.pos = NetOfFills(d)
    BY <2>1 DEF Explained
  <2>3. e.pos = d.pos + Sign(row.side) * n
    BY <1>1, <1>2, <1>3, <2>1, PositionMoves
  <2>4. row.side \in {"BUY", "SELL"}
    BY <1>1 DEF Row, Side
  <2>5. /\ Cardinality(RecordedFills(e, "BUY")) =
             IF row.side = "BUY" THEN Cardinality(RecordedFills(d, "BUY")) + n
                                 ELSE Cardinality(RecordedFills(d, "BUY"))
        /\ Cardinality(RecordedFills(e, "SELL")) =
             IF row.side = "SELL" THEN Cardinality(RecordedFills(d, "SELL")) + n
                                  ELSE Cardinality(RecordedFills(d, "SELL"))
        /\ Cardinality(RecordedFills(d, "BUY")) \in Nat
        /\ Cardinality(RecordedFills(d, "SELL")) \in Nat
    BY <1>5 DEF Side
  <2> HIDE DEF row
  <2> QED
    BY <1>3, <2>2, <2>3, <2>4, <2>5 DEF NetOfFills, Sign
<1> QED
  BY <1>6, <1>7 DEF Explained, e

-----------------------------------------------------------------------------
(* Every action *)

PositionInv == \A d \in {db, w} : Countable(d) /\ Explained(d)

\* The same rows hold the same fills.
SameBooks(d, e) == e.order = d.order /\ e.pos = d.pos /\ e.held = d.held

\* A step after which the session is one of the two databases as far as fills go,
\* and so is the committed one.
LEMMA FillsKept ==
  ASSUME PositionInv,
         \E d \in {db, w} : SameFills(d, w') \/ SameBooks(d, w'),
         \E d \in {db, w} : SameBooks(d, db')
  PROVE  PositionInv'
<1>1. ASSUME NEW d, NEW e, SameBooks(d, e)
      PROVE  SameFills(d, e)
  BY <1>1 DEF SameBooks, SameFills
<1>2. Countable(w') /\ Explained(w')
  BY <1>1, SameExplained DEF PositionInv
<1>3. Countable(db') /\ Explained(db')
  BY <1>1, SameExplained DEF PositionInv
<1> QED
  BY <1>2, <1>3 DEF PositionInv

\* One row that keeps its fills, and its side if it has any.
LEMMA RowKeepsFills ==
  ASSUME NEW d \in Database, NEW e, NEW k \in Keys, NEW row,
         row.execs = d.order[k].execs,
         row.side = d.order[k].side \/ d.order[k].execs = {},
         e.order = [d.order EXCEPT ![k] = row], e.pos = d.pos, e.held = d.held
  PROVE  SameFills(d, e)
  BY DEF SameFills, Database

\* What the handlers do to one order besides applying reports.
LEMMA StatusKeepsFills ==
  ASSUME NEW d \in Database, NEW k \in Keys, NEW s
  PROVE  SameFills(d, SetStatus(d, k, s))
<1> DEFINE row == [d.order[k] EXCEPT !.status = s]
<1>1. d.order[k] \in Row
  BY DEF Database
<1>2. row.execs = d.order[k].execs /\ row.side = d.order[k].side
  BY <1>1 DEF Row
<1>3. SetStatus(d, k, s) = [d EXCEPT !.order = [d.order EXCEPT ![k] = row]]
  BY DEF SetStatus, Database
<1> HIDE DEF row
<1>4. /\ SetStatus(d, k, s).order = [d.order EXCEPT ![k] = row]
      /\ SetStatus(d, k, s).pos = d.pos /\ SetStatus(d, k, s).held = d.held
  BY <1>3 DEF Database
<1> QED
  BY <1>2, <1>4, RowKeepsFills

\* Polling applies one report.
LEMMA PollExplained ==
  ASSUME Formed, PositionInv, PollStep
  PROVE  PositionInv'
<1>0. /\ txn.pc \in AboutAnOrder => txn.cur \in Keys
      /\ txn.cur \in Keys => venue[txn.cur].filled \in Nat
      /\ w \in Database
  BY DEF Formed, TypeOK, CurrentOrder, VenueOrder
<1>1. ASSUME NEW snap \in SnapshotType, Answered(snap), txn.cur \in Keys
      PROVE  PositionInv'
  <2>1. w' = Apply(w, txn.cur, snap) /\ db' = db
    BY <1>1 DEF Answered
  <2>2. Countable(w') /\ Explained(w')
    BY <1>0, <1>1, <2>1, ApplyExplained DEF PositionInv
  <2> QED
    BY <2>1, <2>2 DEF PositionInv
<1>2. ASSUME NEW status \in Status
      PROVE  Snapshot(status, {}, TRUE) \in SnapshotType
  BY FS_EmptySet DEF Snapshot, SnapshotType
<1>3. CASE PollUnanswered
  BY <1>0, <1>1, <1>2, <1>3
     DEF PollUnanswered, At, AboutAnOrder, Status, NonTerminal
<1>4. CASE PollStatus
  BY <1>0, <1>1, <1>2, <1>4, TranslateType DEF PollStatus, At, AboutAnOrder
<1>5. CASE PollStatusThenFills
  BY <1>5 DEF PollStatusThenFills, PositionInv
<1>6. ASSUME NEW got \in SUBSET (1 .. venue[txn.cur].filled), NEW complete \in BOOLEAN,
             At("pollFills"), Answered(Snapshot(Translate(txn.seen), got, complete))
      PROVE  PositionInv'
  <2>1. txn.cur \in Keys /\ venue[txn.cur].filled \in Nat
    BY <1>0, <1>6 DEF At, AboutAnOrder
  <2>2. Snapshot(Translate(txn.seen), got, complete) \in SnapshotType
    BY <2>1, FillsType, TranslateType DEF Snapshot, SnapshotType
  <2> QED
    BY <1>1, <1>6, <2>1, <2>2
<1>7. CASE FillsComplete
  BY <1>6, <1>7 DEF FillsComplete
<1>8. CASE FillsInterrupted
  BY <1>6, <1>8 DEF FillsInterrupted
<1> QED
  BY <1>3, <1>4, <1>5, <1>7, <1>8 DEF PollStep

\* A step of a tick besides polling saves an order without fills, or changes what
\* is not about fills.
LEMMA TickExplained ==
  ASSUME Formed, ContractInv, PositionInv, TickStep
  PROVE  PositionInv'
<1>0. w \in Database /\ (txn.pc \in AboutAnOrder => txn.cur \in Keys)
  BY DEF Formed, TypeOK, CurrentOrder
<1>1. db' = db
  BY DEF TickStep, PollDue, PollNotDue, PollNext, CancelStalled, LeaveOrder,
         RequestCancel, NoCandle, MarketFailed, GapDetected, NewCandle, NoOrderDecided,
         DecideClose, DecideEntry, SaveOrder, SubmitAccepted, SubmitRefused,
         SubmitTimedOut, NotAccepted, Outcome
<1>2. ASSUME SameFills(w, w') \/ SameBooks(w, w')
      PROVE  PositionInv'
  BY <1>1, <1>2, FillsKept DEF SameBooks
<1>3. ASSUME PollDue \/ PollNotDue \/ PollNext \/ LeaveOrder \/ RequestCancel
      PROVE  SameBooks(w, w')
  BY <1>0, <1>3 DEF PollDue, PollNotDue, PollNext, LeaveOrder, RequestCancel, SameBooks,
                    Database
<1>4. ASSUME NoCandle \/ MarketFailed \/ GapDetected \/ NoOrderDecided \/ Outcome
      PROVE  SameBooks(w, w')
  BY <1>0, <1>4 DEF NoCandle, MarketFailed, GapDetected, NoOrderDecided, Outcome,
                    SameBooks, Database
<1>5. ASSUME NewCandle
      PROVE  SameBooks(w, w')
  BY <1>0, <1>5 DEF NewCandle, SameBooks, Database
<1>6. ASSUME CancelStalled
      PROVE  SameFills(w, w')
  BY <1>0, <1>6, StatusKeepsFills DEF CancelStalled, At, AboutAnOrder
<1>7. ASSUME NEW k \in Keys, NEW close \in BOOLEAN, NEW side \in Side, NEW qty \in Nat,
             SaveOrder(k, close, side, qty)
      PROVE  SameFills(w, w')
  <2> DEFINE row == [NoRow EXCEPT !.status = "PENDING_SUBMIT", !.close = close,
                                  !.side = side, !.qty = qty]
  <2>1. row.execs = {}
    BY DEF NoRow
  <2>2. w.order[k].execs = {}
    BY <1>7, AbsentIsEmpty DEF SaveOrder, ContractInv
  <2>3. w' = [w EXCEPT !.order[k] = row]
    BY <1>7 DEF SaveOrder
  <2> HIDE DEF row
  <2>4. w'.order = [w.order EXCEPT ![k] = row] /\ w'.pos = w.pos /\ w'.held = w.held
    BY <1>0, <2>3 DEF Database
  <2>5. row.execs = w.order[k].execs
    BY <2>1, <2>2
  <2> QED
    BY <1>0, <2>2, <2>4, <2>5, RowKeepsFills
<1>8. ASSUME DecideClose
      PROVE  SameFills(w, w')
  <2>1. PICK k \in CloseKeys :
          SaveOrder(k, TRUE, IF w.pos > 0 THEN "SELL" ELSE "BUY", Abs(w.pos))
    BY <1>8 DEF DecideClose
  <2>2. Abs(w.pos) \in Nat /\ k \in Keys
    BY <1>0 DEF Database, Abs, Keys
  <2> QED
    BY <1>7, <2>1, <2>2 DEF Side
<1>9. ASSUME DecideEntry
      PROVE  SameFills(w, w')
  BY <1>7, <1>9, EntryAssumption DEF DecideEntry, Keys, Side
<1>10. ASSUME SubmitAccepted
       PROVE  SameFills(w, w')
  <2> DEFINE row == [w.order[txn.cur] EXCEPT !.id = TRUE, !.status = "SUBMITTED"]
  <2>1. txn.cur \in Keys
    BY <1>0, <1>10 DEF SubmitAccepted, At, AboutAnOrder
  <2>2. w.order[txn.cur] \in Row
    BY <1>0, <2>1 DEF Database
  <2>3. row.execs = w.order[txn.cur].execs /\ row.side = w.order[txn.cur].side
    BY <2>2 DEF Row
  <2>4. w' = [w EXCEPT !.order[txn.cur] = row]
    BY <1>0, <1>10, <2>1 DEF SubmitAccepted, Database
  <2> HIDE DEF row
  <2>5. /\ w'.order = [w.order EXCEPT ![txn.cur] = row]
        /\ w'.pos = w.pos /\ w'.held = w.held
    BY <1>0, <2>4 DEF Database
  <2> QED
    BY <1>0, <2>1, <2>3, <2>5, RowKeepsFills
<1>11. ASSUME NEW status \in {"REJECTED", "UNKNOWN"}, At("submit"), NotAccepted(status)
       PROVE  SameFills(w, w')
  <2>1. txn.cur \in Keys
    BY <1>0, <1>11 DEF At, AboutAnOrder
  <2> DEFINE d == SetStatus(w, txn.cur, status)
  <2>2. SameFills(w, d)
    BY <1>0, <2>1, StatusKeepsFills
  <2>3. d \in Database
    BY <1>0, <2>1, SetStatusType DEF Status, Terminal, NonTerminal
  <2>4. w' = [d EXCEPT !.gate = OneMoreFailure(@)]
    BY <1>11 DEF NotAccepted
  <2> HIDE DEF d
  <2>5. w'.order = d.order /\ w'.pos = d.pos /\ w'.held = d.held
    BY <2>3, <2>4 DEF Database
  <2> QED
    BY <2>2, <2>5 DEF SameFills
<1>12. ASSUME SubmitRefused \/ SubmitTimedOut
       PROVE  SameFills(w, w')
  BY <1>11, <1>12 DEF SubmitRefused, SubmitTimedOut
<1> QED
  BY <1>2, <1>3, <1>4, <1>5, <1>6, <1>8, <1>9, <1>10, <1>12 DEF TickStep

\* Reconciling, the control endpoints, and the beginning and the end of a handler
\* record no fill by themselves.
LEMMA OthersExplained ==
  ASSUME Formed, PositionInv,
         \/ VenueMoves \/ ReconStep \/ TickBegin \/ ControlStep
         \/ Boot \/ BootEnd \/ Shutdown \/ Commit \/ Rollback \/ Crash
  PROVE  PositionInv'
<1>0. w \in Database /\ db \in Database /\ txn.todo \subseteq Keys
  BY DEF Formed, TypeOK, Transaction
<1> USE DEF SameBooks
<1>1. CASE VenueMoves
  BY <1>1, FillsKept DEF VenueMoves, VenueProtect, VenueFill, VenueCancel, VenueReject
<1>2. CASE ReconStep
  <2>1. ASSUME NEW ordersOk, ReconFinish(ordersOk)
        PROVE  PositionInv'
    BY <1>0, <2>1, FillsKept DEF ReconFinish, Database
  <2> QED
    BY <1>2, <2>1, FillsKept
       DEF ReconStep, ReconPositions, ReconNextOrder, ReconOpenOrders, ReconUnreachable
<1>3. ASSUME NEW kind, NEW d, NEW t, Begin(kind, d, t), SameBooks(db, d)
      PROVE  PositionInv'
  BY <1>3, FillsKept DEF Begin
<1>4. CASE TickBegin \/ Boot
  BY <1>3, <1>4 DEF TickBegin, Boot
<1>5. CASE Shutdown
  <2>1. SameBooks(db, [db EXCEPT !.gate.opstate = "ENCERRANDO"])
    BY <1>0 DEF Database
  <2> QED
    BY <1>3, <1>5, <2>1 DEF Shutdown
<1>6. CASE BootEnd
  BY <1>0, <1>6, FillsKept DEF BootEnd, Database
<1>7. CASE Commit \/ Rollback \/ Crash
  BY <1>7, FillsKept DEF Commit, Rollback, Crash
<1>8. CASE ControlStep
  <2>1. CASE KillBegin
    <3>1. SameBooks(db, [db EXCEPT !.gate = Recompute([@ EXCEPT !.kill = TRUE])])
      BY <1>0 DEF Database
    <3> QED
      BY <1>3, <2>1, <3>1 DEF KillBegin
  <2>2. CASE KillNext
    <3>1. PICK k \in txn.todo : w' = SetStatus(w, k, "CANCEL_PENDING") \/ w' = w
      BY <2>2 DEF KillNext
    <3>2. SameFills(w, w') \/ SameBooks(w, w')
      BY <1>0, <3>1, StatusKeepsFills
    <3> QED
      BY <2>2, <3>2, FillsKept DEF KillNext
  <2>3. CASE KillEnd
    BY <1>0, <2>3, FillsKept DEF KillEnd, Database
  <2>4. ASSUME NEW g, Endpoint(g)
        PROVE  PositionInv'
    <3>1. SameBooks(db, db') /\ SameBooks(db, w')
      BY <1>0, <2>4 DEF Endpoint, Database
    <3> QED
      BY <3>1, FillsKept
  <2> QED
    BY <1>8, <2>1, <2>2, <2>3, <2>4 DEF ControlStep, Disengage, Activate, Pause
<1> QED
  BY <1>1, <1>2, <1>4, <1>5, <1>6, <1>7, <1>8

\* At the start there is neither a position nor a fill.
LEMMA InitExplained == Init => PositionInv
<1> SUFFICES ASSUME Init PROVE PositionInv
  OBVIOUS
<1>1. ASSUME NEW side
      PROVE  RecordedFills(FreshDb, side) = {}
  BY DEF RecordedFills, FreshDb, NoRow
<1>2. IsFiniteSet({}) /\ Cardinality({}) = 0
  BY FS_EmptySet
<1>3. Countable(FreshDb)
  BY <1>1, <1>2 DEF Countable
<1>4. FreshDb.pos = 0 /\ NetOfFills(FreshDb) = 0
  <2>1. NetOfFills(FreshDb) = Cardinality({}) - Cardinality({})
    BY <1>1 DEF NetOfFills
  <2> QED
    BY <1>2, <2>1 DEF FreshDb
<1> QED
  BY <1>3, <1>4 DEF Init, PositionInv, Explained

\* The position of every database, committed or in flight, is what its recorded fills
\* add up to, unless one of them did not fit the position it met: for any orders,
\* interrupted and repeated reports, rollbacks and crashes.
THEOREM PositionIsExplained == Spec => []PositionExplained
<1>1. Formed /\ ContractInv /\ PositionInv /\ [Next]_vars => PositionInv'
  <2> SUFFICES ASSUME Formed, ContractInv, PositionInv, [Next]_vars PROVE PositionInv'
    OBVIOUS
  <2>1. CASE UNCHANGED vars
    BY <2>1 DEF vars, PositionInv
  <2>2. CASE Next
    BY <2>2, PollExplained, TickExplained, OthersExplained DEF Next
  <2> QED
    BY <2>1, <2>2
<1>2. PositionInv => PositionExplained
  BY DEF PositionInv, PositionExplained
<1> QED
  BY <1>1, <1>2, InitExplained, AlwaysPublishable, PTL DEF Spec
=============================================================================

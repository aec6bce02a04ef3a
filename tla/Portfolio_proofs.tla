-------------------------- MODULE Portfolio_proofs --------------------------
(***************************************************************************)
(* The book in memory, the cooldown and the limits of Portfolio, for any   *)
(* symbols, prices and limits.                                             *)
(***************************************************************************)
EXTENDS Portfolio, SequenceTheorems, FiniteSetTheorems, TLAPS

-----------------------------------------------------------------------------
(* Facts about the helpers *)

\* Re-deriving the block leaves a well-formed system_state.
LEMMA RecomputeType ==
  ASSUME NEW g \in Gate
  PROVE  Recompute(g) \in Gate
  BY DEF Gate, Recompute, HasCause, OpStateAfter, OpStates

\* A reconciliation touches the gate alone.
LEMMA ReconciledKeeps ==
  ASSUME NEW d \in Database, NEW held, NEW s
  PROVE  /\ Reconciled(d, held, s) \in Database
         /\ Reconciled(d, held, s).pos = d.pos /\ Reconciled(d, held, s).trades = d.trades
         /\ Reconciled(d, held, s).losses = d.losses /\ Reconciled(d, held, s).until = d.until
<1> DEFINE bad == ~ PositionsAgree(d, held, s)
           g == [d.gate EXCEPT !.diverged = bad, !.ambiguous = bad, !.notReconciled = FALSE]
<1>1. g \in Gate
  BY DEF Database, Gate, PositionsAgree
<1>2. Reconciled(d, held, s) = [d EXCEPT !.gate = Recompute(g)]
  BY DEF Reconciled
<1>3. Recompute(g) \in Gate
  BY <1>1, RecomputeType
<1> HIDE DEF g
<1> QED
  BY <1>2, <1>3 DEF Database

\* So does the beginning of a tick.
LEMMA BegunKeeps ==
  ASSUME TypeOK, NEW s, NEW d \in Begun(s)
  PROVE  /\ d \in Database
         /\ d.pos = db.pos /\ d.trades = db.trades /\ d.losses = db.losses /\ d.until = db.until
  BY ReconciledKeeps DEF Begun, TypeOK

\* Prices are positive.
LEMMA PriceType ==
  ASSUME NEW side \in Side
  PROVE  FillPrice(side) \in Nat \ {0}
  BY PriceAssumption DEF FillPrice

\* A fill that does not oppose what is held adds to it, in the book and in the rows.
LEMMA IncreaseFollows ==
  ASSUME NEW p \in Position, Proper(p), NEW side \in Side, p.side # Opposite[side],
         NEW qty \in Nat \ {0},
         NEW q, q = [side |-> side, qty |-> p.qty + qty,
                     notional |-> p.notional + qty * FillPrice(side)]
  PROVE  /\ q \in Position /\ Proper(q)
         /\ apply_to_position(HeldOf(p), side, qty) = HeldOf(q)
<1>1. FillPrice(side) \in Nat
  BY PriceType
<1>2. qty * FillPrice(side) \in Nat
  BY <1>1
<1>3. q \in Position /\ q.qty # 0 /\ q.side = side /\ q.qty = p.qty + qty
  BY <1>2 DEF Position
<1>4. Proper(q)
  BY <1>3 DEF Proper, Position
<1>5. HeldOf(q) = Holding(side, p.qty + qty)
  BY <1>3 DEF HeldOf
<1>6. CASE p = Flat
  <2>1. HeldOf(p) = Nothing /\ p.qty + qty = qty
    BY <1>6 DEF HeldOf, Flat, Nothing, Holding
  <2>2. apply_to_position(Nothing, side, qty) = Holding(side, qty)
    BY DEF apply_to_position, Nothing, Holding, Side, Opposite
  <2> QED
    BY <1>3, <1>4, <1>5, <2>1, <2>2
<1>7. CASE p.qty > 0 /\ p.side \in Side
  <2>1. p.side = side
    BY <1>7 DEF Side, Opposite
  <2>2. HeldOf(p) # Nothing /\ HeldOf(p).side = side /\ HeldOf(p).qty = p.qty
    BY <1>7, <2>1 DEF HeldOf, Nothing, Holding
  <2> QED
    BY <1>3, <1>4, <1>5, <2>2 DEF apply_to_position, Side, Opposite
<1> QED
  BY <1>6, <1>7 DEF Proper

\* An opposing order of the same quantity leaves nothing.
LEMMA CloseFollows ==
  ASSUME NEW p \in Position, Proper(p), p.qty > 0
  PROVE  apply_to_position(HeldOf(p), Opposite[p.side], p.qty) = HeldOf(Flat)
<1>1. p.side \in Side
  BY DEF Proper, Flat
<1>2. HeldOf(p) # Nothing /\ HeldOf(p).side = p.side /\ HeldOf(p).qty = p.qty
  BY DEF HeldOf, Nothing, Holding
<1>3. apply_to_position(HeldOf(p), Opposite[p.side], p.qty) = Nothing
  BY <1>1, <1>2 DEF apply_to_position, Side, Opposite, Position
<1>4. HeldOf(Flat) = Nothing
  BY DEF HeldOf, Flat, Nothing, Holding
<1> QED
  BY <1>3, <1>4

\* Whatever is held, a fill leaves something that may be held.
LEMMA HeldType ==
  ASSUME NEW held \in {Nothing} \cup [side : Side, qty : Nat], NEW side \in Side,
         NEW qty \in Nat \ {0}
  PROVE  apply_to_position(held, side, qty) \in {Nothing} \cup [side : Side, qty : Nat]
<1>1. CASE held = Nothing
  BY <1>1 DEF apply_to_position, Nothing, Holding, Side, Opposite
<1>2. CASE held \in [side : Side, qty : Nat]
  <2>1. held # Nothing
    BY <1>2 DEF Nothing, Holding, Side
  <2>2. held.side = side \/ held.side = Opposite[side]
    BY <1>2 DEF Side, Opposite
  <2>3. held.side # side \/ held.side # Opposite[side]
    BY DEF Side, Opposite
  <2> QED
    BY <1>2, <2>1, <2>2, <2>3 DEF apply_to_position, Holding
<1> QED
  BY <1>1, <1>2

-----------------------------------------------------------------------------
(* Orders *)

\* An order whose rows follow its fill keeps book and rows together, or, when its tick is
\* undone, is accounted for as such.
LEMMA SubmitFollows ==
  ASSUME TypeOK, BookFollowsDatabase, NEW s \in Symbols, NEW side \in Side,
         NEW qty \in Nat \ {0}, NEW q \in Position, Proper(q),
         apply_to_position(HeldOf(db.pos[s]), side, qty) = HeldOf(q),
         NEW rows \in Database, rows.pos = [db.pos EXCEPT ![s] = q],
         Submit(s, side, qty, rows)
  PROVE  TypeOK' /\ BookFollowsDatabase'
<1> DEFINE fill == apply_to_position(book[s], side, qty)
<1>1. book' = [book EXCEPT ![s] = fill] /\ now' = now
  BY DEF Submit
<1>2. fill \in {Nothing} \cup [side : Side, qty : Nat]
  BY HeldType DEF TypeOK
<1>3. s \notin undone => fill = HeldOf(q)
  BY DEF BookFollowsDatabase
<1> HIDE DEF fill
<1>4. book' \in [Symbols -> {Nothing} \cup [side : Side, qty : Nat]]
  BY <1>1, <1>2 DEF TypeOK
<1>5. CASE db' = rows /\ UNCHANGED <<undone, faults>>
  <2>1. \A x \in Symbols : Proper(db'.pos[x])
    BY <1>5 DEF TypeOK, Database
  <2>2. \A x \in Symbols \ undone' : book'[x] = HeldOf(db'.pos[x])
    BY <1>1, <1>3, <1>5 DEF TypeOK, Database, BookFollowsDatabase
  <2> QED
    BY <1>1, <1>4, <1>5, <2>1, <2>2 DEF TypeOK, BookFollowsDatabase
<1>6. CASE faults < MaxFaults /\ faults' = faults + 1 /\ undone' = undone \cup {s} /\ db' = db
  <2>1. faults' \in 0 .. MaxFaults
    BY <1>6, LimitsAssumption DEF TypeOK
  <2>2. \A x \in Symbols \ undone' : book'[x] = HeldOf(db'.pos[x])
    BY <1>1, <1>6 DEF TypeOK, BookFollowsDatabase
  <2> QED
    BY <1>1, <1>4, <1>6, <2>1, <2>2 DEF TypeOK, BookFollowsDatabase
<1> QED
  BY <1>5, <1>6 DEF Submit

\* An approved entry.
LEMMA EnterFollows ==
  ASSUME TypeOK, BookFollowsDatabase, NEW s \in Symbols, NEW side \in Side, Enter(s, side)
  PROVE  /\ TypeOK' /\ BookFollowsDatabase'
         /\ db'.trades = db.trades /\ db'.losses = db.losses /\ db'.until = db.until
<1>1. PICK d \in Begun(s), qty \in 1 .. MaxPosition :
        Submit(s, side, qty, Increased(d, s, side, qty))
  BY DEF Enter
<1>2. /\ d \in Database
      /\ d.pos = db.pos /\ d.trades = db.trades /\ d.losses = db.losses /\ d.until = db.until
  BY BegunKeeps
<1>3. qty \in Nat \ {0}
  BY LimitsAssumption
<1> DEFINE p == db.pos[s]
           q == [side |-> side, qty |-> p.qty + qty, notional |-> p.notional + qty * FillPrice(side)]
           rows == Increased(d, s, side, qty)
<1>4. p \in Position /\ Proper(p) /\ p.side # Opposite[side]
  BY DEF TypeOK, Database, Enter
<1>5. /\ q \in Position /\ Proper(q)
      /\ apply_to_position(HeldOf(p), side, qty) = HeldOf(q)
  BY <1>3, <1>4, IncreaseFollows
<1>6. rows = [d EXCEPT !.pos = [db.pos EXCEPT ![s] = q]]
  BY <1>2 DEF Increased, Database
<1> HIDE DEF q, rows
<1>7. /\ rows \in Database /\ rows.pos = [db.pos EXCEPT ![s] = q]
      /\ rows.trades = db.trades /\ rows.losses = db.losses /\ rows.until = db.until
  BY <1>2, <1>5, <1>6 DEF Database
<1>8. Submit(s, side, qty, rows)
  BY <1>1 DEF rows
<1>9. TypeOK' /\ BookFollowsDatabase'
  BY <1>3, <1>5, <1>7, <1>8, SubmitFollows
<1> QED
  BY <1>7, <1>8, <1>9 DEF Submit

\* A close.
LEMMA CloseFollowsRows ==
  ASSUME TypeOK, BookFollowsDatabase, NEW s \in Symbols, NEW lost \in BOOLEAN, Close(s, lost)
  PROVE  /\ TypeOK' /\ BookFollowsDatabase'
         /\ db'.pos = db.pos \/ db'.pos = [db.pos EXCEPT ![s] = Flat]
         /\ \/ db' = db
            \/ LET trade == [symbol |-> s, at |-> now, lost |-> lost]
                   losses == IF lost THEN db.losses + 1 ELSE 0
               IN  /\ db'.pos = [db.pos EXCEPT ![s] = Flat]
                   /\ db'.trades = Append(db.trades, trade)
                   /\ db'.losses = losses
                   /\ losses >= LossesToCool => db'.until = now + CooldownTime
<1> DEFINE trade == [symbol |-> s, at |-> now, lost |-> lost]
           losses == IF lost THEN db.losses + 1 ELSE 0
           p == db.pos[s]
<1>1. PICK d \in Begun(s) :
        Submit(s, Opposite[d.pos[s].side], d.pos[s].qty, Counted(Closed(d, s, lost), lost))
  BY DEF Close
<1>2. /\ d \in Database
      /\ d.pos = db.pos /\ d.trades = db.trades /\ d.losses = db.losses /\ d.until = db.until
  BY BegunKeeps
<1>3. p \in Position /\ Proper(p) /\ p.qty > 0 /\ now \in 0 .. MaxTime
  BY DEF TypeOK, Database, Close, open_positions
<1>4. p.side \in Side /\ p.qty \in Nat \ {0} /\ Opposite[p.side] \in Side
  BY <1>3 DEF Proper, Flat, Position, Side, Opposite
<1>5. Flat \in Position /\ Proper(Flat)
  BY DEF Flat, Position, Proper
<1>6. trade \in Trade /\ losses \in Nat /\ now + CooldownTime \in Nat
  BY <1>2, <1>3, LimitsAssumption DEF Trade, Database
<1> DEFINE closed == Closed(d, s, lost)
           rows == Counted(closed, lost)
<1>7. closed = [d EXCEPT !.pos = [db.pos EXCEPT ![s] = Flat], !.trades = Append(db.trades, trade)]
  BY <1>2 DEF Closed, Database
<1> HIDE DEF trade, closed
<1>8. /\ closed \in Database /\ closed.pos = [db.pos EXCEPT ![s] = Flat]
      /\ closed.trades = Append(db.trades, trade)
      /\ closed.losses = db.losses /\ closed.until = db.until
  <2>1. db.trades \in Seq(Trade) /\ db.pos \in [Symbols -> Position]
    BY DEF TypeOK, Database
  <2>2. /\ Append(db.trades, trade) \in Seq(Trade)
        /\ [db.pos EXCEPT ![s] = Flat] \in [Symbols -> Position]
    BY <1>5, <1>6, <2>1
  <2> QED
    BY <1>2, <1>7, <2>2 DEF Database
<1>9. rows = [closed EXCEPT !.losses = losses,
                            !.until = IF losses >= LossesToCool THEN now + CooldownTime ELSE @]
  BY <1>8 DEF Counted
<1> HIDE DEF rows, losses
<1>10. /\ rows \in Database /\ rows.pos = [db.pos EXCEPT ![s] = Flat]
       /\ rows.trades = Append(db.trades, trade) /\ rows.losses = losses
       /\ losses >= LossesToCool => rows.until = now + CooldownTime
  BY <1>6, <1>8, <1>9 DEF Database
<1>11. Submit(s, Opposite[p.side], p.qty, rows)
  BY <1>1, <1>2 DEF rows, closed
<1>12. apply_to_position(HeldOf(p), Opposite[p.side], p.qty) = HeldOf(Flat)
  BY <1>3, CloseFollows
<1>13. TypeOK' /\ BookFollowsDatabase'
  BY <1>4, <1>5, <1>10, <1>11, <1>12, SubmitFollows
<1>14. db' = db \/ db' = rows
  BY <1>11 DEF Submit
<1> QED
  BY <1>10, <1>13, <1>14 DEF trade, losses

-----------------------------------------------------------------------------
(* Every step keeps the invariant *)

\* One more closed row is counted: a loss continues the streak, a gain ends it.
LEMMA StreakContinues ==
  ASSUME TypeOK, StreakIsCounted, NEW trade \in Trade, trade.at = now,
         NEW losses, losses = IF trade.lost THEN db.losses + 1 ELSE 0,
         db'.trades = Append(db.trades, trade), db'.losses = losses,
         losses >= LossesToCool => db'.until = now + CooldownTime
  PROVE  StreakIsCounted'
<1> DEFINE n == Len(db.trades)
           m == Len(db'.trades)
<1>1. /\ db.trades \in Seq(Trade) /\ db.losses \in Nat /\ n \in Nat
      /\ LossesToCool \in Nat \ {0} /\ CooldownTime \in Nat /\ now \in Nat
  BY LimitsAssumption DEF TypeOK, Database
<1>2. /\ m = n + 1 /\ db'.trades[m] = trade
      /\ \A i \in 1 .. n : db'.trades[i] = db.trades[i]
  BY <1>1
<1>3. /\ db.losses <= n /\ \A i \in n - db.losses + 1 .. n : db.trades[i].lost
      /\ db.losses < n => ~ db.trades[n - db.losses].lost
  BY DEF StreakIsCounted
<1> HIDE DEF n, m
<1>4. db'.losses <= m
  BY <1>1, <1>2, <1>3
<1>5. ASSUME NEW i \in m - db'.losses + 1 .. m
      PROVE  db'.trades[i].lost
  <2>1. CASE trade.lost
    <3>1. db'.losses = db.losses + 1 /\ m = n + 1 /\ n \in Nat /\ db.losses \in Nat
      BY <1>1, <1>2, <2>1
    <3>2. i \in Int /\ m - db'.losses + 1 <= i /\ i <= m
      BY <1>5, <3>1
    <3>3. n - db.losses + 1 <= i /\ (i <= n \/ i = m)
      BY <3>1, <3>2
    <3>4. i \in n - db.losses + 1 .. n \/ i = m
      BY <3>1, <3>2, <3>3
    <3>5. i \in n - db.losses + 1 .. n => i \in 1 .. n
      BY <1>1, <1>3
    <3> QED
      BY <1>2, <1>3, <2>1, <3>4, <3>5
  <2>2. CASE ~ trade.lost
    BY <1>1, <1>2, <1>5, <2>2
  <2> QED
    BY <2>1, <2>2
<1>6. ASSUME db'.losses < m
      PROVE  ~ db'.trades[m - db'.losses].lost
  <2>1. CASE trade.lost
    <3>1. db'.losses = db.losses + 1
      BY <2>1
    <3>2. m - db'.losses = n - db.losses /\ db.losses < n /\ n - db.losses >= 1 /\ n - db.losses <= n
      BY <1>1, <1>2, <1>6, <3>1
    <3>3. n - db.losses \in 1 .. n
      BY <1>1, <3>2
    <3>4. db'.trades[n - db.losses] = db.trades[n - db.losses]
      BY <1>2, <3>3
    <3> QED
      BY <1>3, <3>2, <3>4
  <2>2. CASE ~ trade.lost
    <3>1. db'.losses = 0 /\ m \in Nat
      BY <1>1, <1>2, <2>2
    <3>2. m - db'.losses = m
      BY <3>1
    <3> QED
      BY <1>2, <2>2, <3>2
  <2> QED
    BY <2>1, <2>2
<1>7. db'.losses >= LossesToCool => db'.until >= db'.trades[m].at + CooldownTime
  BY <1>1, <1>2
<1> QED
  BY <1>4, <1>5, <1>6, <1>7 DEF StreakIsCounted, m

\* A step that leaves rows, counters and book alone.
LEMMA RowsLeftAlone ==
  ASSUME PortfolioInv, db' \in Database, db'.pos = db.pos, db'.trades = db.trades,
         db'.losses = db.losses, db'.until = db.until,
         UNCHANGED <<book, undone, faults>>, now' \in 0 .. MaxTime
  PROVE  PortfolioInv'
  BY DEF PortfolioInv, TypeOK, BookFollowsDatabase, StreakIsCounted

\* A boot takes the book from the rows.
LEMMA RestartKeeps ==
  ASSUME PortfolioInv, Restart
  PROVE  PortfolioInv'
<1>1. PICK s \in Symbols : db' = Booted(db, book', s)
  BY DEF Restart
<1> DEFINE d == Reconciled(db, book', s)
<1>2. /\ d \in Database /\ d.pos = db.pos /\ d.trades = db.trades
      /\ d.losses = db.losses /\ d.until = db.until
  BY ReconciledKeeps DEF PortfolioInv, TypeOK
<1>3. db' = [d EXCEPT !.gate.opstate = IF d.gate.blocked THEN "BLOQUEADO" ELSE "OBSERVANDO"]
  BY <1>1 DEF Booted
<1> HIDE DEF d
<1>4. /\ db' \in Database /\ db'.pos = db.pos /\ db'.trades = db.trades
      /\ db'.losses = db.losses /\ db'.until = db.until
  BY <1>2, <1>3 DEF Database, Gate, OpStates
<1>5. \A x \in Symbols : db.pos[x] \in Position /\ Proper(db.pos[x])
  BY DEF PortfolioInv, TypeOK, Database
<1>6. book' = [x \in Symbols |-> IF db.pos[x].qty > 0 THEN HeldOf(db.pos[x]) ELSE Nothing]
  BY DEF Restart, hydrate_positions
<1>7. ASSUME NEW x \in Symbols
      PROVE  /\ book'[x] = HeldOf(db.pos[x])
             /\ book'[x] \in {Nothing} \cup [side : Side, qty : Nat]
  BY <1>5, <1>6 DEF HeldOf, Nothing, Holding, Proper, Flat, Position
<1>8. TypeOK'
  BY <1>4, <1>6, <1>7 DEF PortfolioInv, TypeOK, Restart
<1>9. BookFollowsDatabase'
  BY <1>4, <1>7 DEF BookFollowsDatabase
<1>10. StreakIsCounted'
  BY <1>4 DEF PortfolioInv, StreakIsCounted
<1> QED
  BY <1>8, <1>9, <1>10 DEF PortfolioInv

\* PortfolioInv is inductive.
LEMMA StepKeeps == PortfolioInv /\ [Next]_vars => PortfolioInv'
<1> SUFFICES ASSUME PortfolioInv, [Next]_vars PROVE PortfolioInv'
  OBVIOUS
<1> USE DEF PortfolioInv
<1>1. ASSUME NEW s \in Symbols, Observe(s)
      PROVE  PortfolioInv'
  BY <1>1, BegunKeeps, RowsLeftAlone DEF Observe, TypeOK
<1>2. ASSUME NEW s \in Symbols, NEW lost \in BOOLEAN, Close(s, lost)
      PROVE  PortfolioInv'
  <2> DEFINE trade == [symbol |-> s, at |-> now, lost |-> lost]
             losses == IF lost THEN db.losses + 1 ELSE 0
  <2>1. TypeOK' /\ BookFollowsDatabase'
    BY <1>2, CloseFollowsRows
  <2>2. CASE db' = db
    BY <2>1, <2>2 DEF StreakIsCounted
  <2>3. CASE /\ db'.trades = Append(db.trades, trade) /\ db'.losses = losses
             /\ losses >= LossesToCool => db'.until = now + CooldownTime
    <3>1. trade \in Trade /\ trade.at = now /\ trade.lost = lost
      BY DEF Trade, TypeOK
    <3> HIDE DEF trade
    <3> QED
      BY <2>1, <2>3, <3>1, StreakContinues
  <2> QED
    BY <1>2, <2>2, <2>3, CloseFollowsRows
<1>3. ASSUME NEW s \in Symbols, NEW side \in Side, Enter(s, side)
      PROVE  PortfolioInv'
  BY <1>3, EnterFollows DEF StreakIsCounted
<1>4. CASE Activate
  <2>1. /\ db' \in Database /\ db'.pos = db.pos /\ db'.trades = db.trades
        /\ db'.losses = db.losses /\ db'.until = db.until
    BY <1>4 DEF Activate, TypeOK, Database, Gate, OpStates
  <2> QED
    BY <1>4, <2>1, RowsLeftAlone DEF Activate, TypeOK
<1>5. CASE Clock
  BY <1>5, RowsLeftAlone, LimitsAssumption DEF Clock, TypeOK
<1>6. CASE UNCHANGED vars
  BY <1>6 DEF vars, TypeOK, BookFollowsDatabase, StreakIsCounted
<1> QED
  BY <1>1, <1>2, <1>3, <1>4, <1>5, <1>6, RestartKeeps DEF Next

-----------------------------------------------------------------------------
(* The theorems *)

\* The first boot ends with empty rows and an empty book.
LEMMA InitInv == Init => PortfolioInv
<1> SUFFICES ASSUME Init PROVE PortfolioInv
  OBVIOUS
<1>1. PICK s \in Symbols : db = Booted(Fresh, book, s)
  BY DEF Init
<1>2. 0 \in 0 .. MaxTime /\ 0 \in 0 .. MaxFaults /\ LossesToCool >= 1
  BY LimitsAssumption
<1>3. FreshGate \in Gate
  <2>1. 0 \in 0 .. MaxApiFailures
    BY MaxApiFailuresAssumption
  <2> QED
    BY <2>1 DEF FreshGate, Gate, OpStates
<1>4. Flat \in Position /\ Proper(Flat) /\ HeldOf(Flat) = Nothing
  BY DEF Flat, Position, Proper, HeldOf, Nothing, Holding
<1>5. Fresh \in Database
  BY <1>3, <1>4 DEF Fresh, Database
<1> DEFINE d == Reconciled(Fresh, book, s)
<1>6. /\ d \in Database /\ d.pos = Fresh.pos /\ d.trades = Fresh.trades
      /\ d.losses = Fresh.losses /\ d.until = Fresh.until
  BY <1>5, ReconciledKeeps
<1>7. db = [d EXCEPT !.gate.opstate = IF d.gate.blocked THEN "BLOQUEADO" ELSE "OBSERVANDO"]
  BY <1>1 DEF Booted
<1> HIDE DEF d
<1>8. /\ db \in Database /\ db.pos = [x \in Symbols |-> Flat] /\ db.trades = <<>>
      /\ db.losses = 0 /\ db.until = 0
  BY <1>6, <1>7 DEF Database, Gate, OpStates, Fresh
<1>9. TypeOK
  BY <1>2, <1>4, <1>8 DEF TypeOK, Init
<1>10. BookFollowsDatabase
  BY <1>4, <1>8 DEF BookFollowsDatabase, Init
<1>11. StreakIsCounted
  <2>1. Len(db.trades) = 0 /\ db.losses = 0 /\ 0 - 0 + 1 .. 0 = {}
    BY <1>8
  <2>2. ~ db.losses >= LossesToCool
    BY <1>8, LimitsAssumption
  <2> QED
    BY <2>1, <2>2 DEF StreakIsCounted
<1> QED
  BY <1>9, <1>10, <1>11 DEF PortfolioInv

\* Rows, book and counters have their types and say the same thing, in every state that
\* any interleaving of the symbols' ticks, the operator and restarts reaches.
THEOREM PortfolioSafe == Spec => []PortfolioInv
  BY InitInv, StepKeeps, PTL DEF Spec

\* The book of the paper engine is the database's open positions except where an order
\* outlived its tick: for any symbols, prices, limits and histories of fills.
THEOREM BookFollows == Spec => []BookFollowsDatabase
  BY PortfolioSafe, PTL DEF PortfolioInv

\* While the latest closings make a cooldown, cooldown_until is still to come.
LEMMA CoolingIsDue ==
  ASSUME TypeOK, StreakIsCounted, Cooling
  PROVE  now < db.until
<1> DEFINE n == Len(db.trades)
<1>1. /\ n \in Nat /\ db.losses \in Nat /\ LossesToCool \in Nat \ {0} /\ CooldownTime \in Nat
      /\ now \in Nat /\ db.until \in Nat /\ db.trades \in Seq(Trade)
  BY LimitsAssumption DEF TypeOK, Database
<1>2. /\ n >= LossesToCool /\ \A i \in n - LossesToCool + 1 .. n : db.trades[i].lost
      /\ now < db.trades[n].at + CooldownTime
  BY DEF Cooling
<1>3. /\ db.losses <= n /\ db.losses < n => ~ db.trades[n - db.losses].lost
      /\ db.losses >= LossesToCool => db.until >= db.trades[n].at + CooldownTime
  BY DEF StreakIsCounted
<1> HIDE DEF n
<1>4. db.losses >= LossesToCool
  <2> SUFFICES ASSUME db.losses < LossesToCool PROVE FALSE
    BY <1>1
  <2>1. n - db.losses \in n - LossesToCool + 1 .. n
    BY <1>1
  <2> QED
    BY <1>1, <1>2, <1>3, <2>1
<1>5. db.trades[n].at \in Nat
  <2>1. n \in 1 .. n
    BY <1>1, <1>2
  <2>2. db.trades[n] \in Trade
    BY <1>1, <2>1 DEF n
  <2> QED
    BY <2>2, LimitsAssumption DEF Trade
<1> QED
  BY <1>1, <1>2, <1>3, <1>4, <1>5

\* No step enters a position, or adds to one, while the closings make a cooldown.
LEMMA StepCooled ==
  ASSUME PortfolioInv, Next, NEW s \in Symbols, db'.pos[s].qty > db.pos[s].qty
  PROVE  ~ Cooling
<1> USE DEF PortfolioInv
<1>1. db.pos \in [Symbols -> Position] /\ db.pos[s].qty \in Nat
  BY DEF TypeOK, Database, Position
<1>2. db'.pos # db.pos
  BY <1>1
<1>3. ASSUME NEW x \in Symbols, Observe(x)
      PROVE  FALSE
  BY <1>2, <1>3, BegunKeeps DEF Observe
<1>4. ASSUME NEW x \in Symbols, NEW lost \in BOOLEAN, Close(x, lost)
      PROVE  FALSE
  <2>1. db'.pos = [db.pos EXCEPT ![x] = Flat]
    BY <1>2, <1>4, CloseFollowsRows
  <2> QED
    BY <1>1, <2>1 DEF Flat
<1>5. ASSUME NEW x \in Symbols, NEW side \in Side, Enter(x, side)
      PROVE  ~ Cooling
  <2>1. PICK d \in Begun(x) : Approves(d, x)
    BY <1>5 DEF Enter
  <2>2. now >= db.until /\ db.until \in Nat /\ now \in Nat
    BY <2>1, BegunKeeps, LimitsAssumption DEF Approves, TypeOK, Database
  <2> QED
    BY <2>2, CoolingIsDue
<1>6. ~ Activate /\ ~ Clock
  BY <1>2 DEF Activate, Clock, TypeOK, Database
<1>7. ASSUME Restart
      PROVE  FALSE
  <2>1. PICK x \in Symbols : db' = Booted(db, book', x)
    BY <1>7 DEF Restart
  <2>2. Reconciled(db, book', x) \in Database /\ Reconciled(db, book', x).pos = db.pos
    BY ReconciledKeeps DEF TypeOK
  <2> QED
    BY <1>2, <2>1, <2>2 DEF Booted, Database
<1> QED
  BY <1>3, <1>4, <1>5, <1>6, <1>7 DEF Next

\* A run of losses that is long enough keeps every symbol from entering until its cooldown
\* is over, through restarts, further closings and undone ticks.
THEOREM CooldownKept == Spec => CooldownHolds
<1>1. PortfolioInv /\ [Next]_vars =>
        [\A s \in Symbols : db'.pos[s].qty > db.pos[s].qty => ~ Cooling]_vars
  BY StepCooled
<1> QED
  BY <1>1, PortfolioSafe, PTL DEF Spec, CooldownHolds

-----------------------------------------------------------------------------
(* The exposure as a count.  OpenExposure sums in the order in which CHOOSE picks; the *)
(* sum is the number of units held, in which no order appears.                         *)

\* One element for each unit of notional that the symbols of T hold
Units(p, T) == {u \in T \X Nat : u[2] \in 1 .. p[u[1]].notional}

\* No symbols have no units.
LEMMA UnitsEmpty ==
  ASSUME NEW p
  PROVE  Units(p, {}) = {}
  BY DEF Units

\* One more symbol adds its notional.
LEMMA UnitsAdd ==
  ASSUME NEW T, NEW s \in T, NEW p, p[s].notional \in Nat, IsFiniteSet(Units(p, T \ {s}))
  PROVE  /\ IsFiniteSet(Units(p, T))
         /\ Cardinality(Units(p, T)) = p[s].notional + Cardinality(Units(p, T \ {s}))
<1> DEFINE n == p[s].notional
           A == Units(p, T \ {s})
           B == {s} \X (1 .. n)
<1>1. IsFiniteSet(1 .. n) /\ Cardinality(1 .. n) = n
  <2>1. n \in Nat
    OBVIOUS
  <2> HIDE DEF n
  <2>2. IsFiniteSet(1 .. n) /\ Cardinality(1 .. n) = IF 1 > n THEN 0 ELSE n - 1 + 1
    BY <2>1, FS_Interval
  <2> QED
    BY <2>1, <2>2
<1>2. IsFiniteSet({s}) /\ Cardinality({s}) = 1
  BY FS_Singleton
<1>3. IsFiniteSet(B) /\ Cardinality(B) = n
  <2>1. n \in Nat
    OBVIOUS
  <2> HIDE DEF n
  <2>2. IsFiniteSet(B) /\ Cardinality(B) = 1 * n
    BY <1>1, <1>2, FS_Product
  <2> QED
    BY <2>1, <2>2
<1>4. Units(p, T) = A \cup B /\ A \cap B = {}
  BY DEF Units
<1>5. Cardinality(A) \in Nat /\ Cardinality({}) = 0
  BY FS_CardinalityType, FS_EmptySet
<1>6. n \in Nat
  OBVIOUS
<1> HIDE DEF A, B, n
<1>7. /\ IsFiniteSet(A \cup B)
      /\ Cardinality(A \cup B) = Cardinality(A) + Cardinality(B) - Cardinality(A \cap B)
  BY <1>3, FS_Union DEF A
<1>8. IsFiniteSet(Units(p, T)) /\ Cardinality(Units(p, T)) = n + Cardinality(A)
  <2>1. /\ IsFiniteSet(Units(p, T))
        /\ Cardinality(Units(p, T)) = Cardinality(A) + Cardinality(B) - Cardinality({})
    BY <1>4, <1>7
  <2> QED
    BY <1>3, <1>5, <1>6, <2>1
<1> QED
  BY <1>8 DEF A, n

\* What the recursive function of MapThenFoldSet satisfies, if there is such a function.
Picked(T) == CHOOSE x \in T : TRUE
Sums(p, S, sum) ==
  sum = [T \in SUBSET S |->
           IF T = {} THEN 0 ELSE p[Picked(T)].notional + sum[T \ {Picked(T)}]]

\* Finitely many symbols have finitely many units: no smallest set of symbols has not.
LEMMA UnitsFinite ==
  ASSUME NEW S, IsFiniteSet(S), NEW p, \A s \in S : p[s].notional \in Nat
  PROVE  \A T \in SUBSET S : IsFiniteSet(Units(p, T)) 
<1> DEFINE Bad == {T \in SUBSET S : ~ IsFiniteSet(Units(p, T))}
<1> SUFFICES ASSUME Bad # {} PROVE FALSE
  OBVIOUS
<1>1. IsWellFoundedOn(StrictSubsetOrdering(S), SUBSET S)
  BY FS_StrictSubsetOrderingWellFounded, FS_FiniteSubsetsOfFinite
<1>2. PICK T \in Bad : \A U \in Bad : ~ (<<U, T>> \in StrictSubsetOrdering(S))
  <2> HIDE DEF Bad
  <2>1. Bad \subseteq SUBSET S
    BY DEF Bad
  <2> QED
    BY <1>1, <2>1, WFMin
<1>3. T # {}
  BY UnitsEmpty, FS_EmptySet
<1>4. PICK s \in T : TRUE
  BY <1>3
<1>5. T \ {s} \notin Bad
  BY <1>2, <1>4 DEF StrictSubsetOrdering
<1>6. IsFiniteSet(Units(p, T \ {s}))
  BY <1>5
<1> QED
  BY <1>4, <1>6, UnitsAdd

\* A function that satisfies the recursion counts units: no smallest set is counted wrong.
LEMMA SumsAreUnits ==
  ASSUME NEW S, IsFiniteSet(S), NEW p, \A s \in S : p[s].notional \in Nat, NEW sum, Sums(p, S, sum)
  PROVE  \A T \in SUBSET S : sum[T] = Cardinality(Units(p, T))
<1> DEFINE Bad == {T \in SUBSET S : sum[T] # Cardinality(Units(p, T))}
<1> SUFFICES ASSUME Bad # {} PROVE FALSE
  OBVIOUS
<1>1. IsWellFoundedOn(StrictSubsetOrdering(S), SUBSET S)
  BY FS_StrictSubsetOrderingWellFounded, FS_FiniteSubsetsOfFinite
<1>2. PICK T \in Bad : \A U \in Bad : ~ (<<U, T>> \in StrictSubsetOrdering(S))
  <2> HIDE DEF Bad
  <2>1. Bad \subseteq SUBSET S
    BY DEF Bad
  <2> QED
    BY <1>1, <2>1, WFMin
<1>3. T # {}
  <2>1. sum[{}] = 0
    BY DEF Sums
  <2> QED
    BY <2>1, UnitsEmpty, FS_EmptySet
<1> DEFINE s == Picked(T)
<1>4. s \in T
  BY <1>3 DEF Picked
<1>5. sum[T] = p[s].notional + sum[T \ {s}]
  BY <1>3 DEF Sums
<1> HIDE DEF s
<1>6. T \ {s} \in SUBSET S /\ s \in S
  BY <1>4
<1>7. <<T \ {s}, T>> \in StrictSubsetOrdering(S)
  BY <1>4, <1>6 DEF StrictSubsetOrdering
<1>8. sum[T \ {s}] = Cardinality(Units(p, T \ {s}))
  BY <1>2, <1>6, <1>7
<1>9. Cardinality(Units(p, T)) = p[s].notional + Cardinality(Units(p, T \ {s}))
  BY <1>4, <1>6, UnitsAdd, UnitsFinite
<1> QED
  BY <1>5, <1>8, <1>9

\* Counting satisfies the recursion.
LEMMA SumsExist ==
  ASSUME NEW S, IsFiniteSet(S), NEW p, \A s \in S : p[s].notional \in Nat
  PROVE  \E sum : Sums(p, S, sum)
<1> DEFINE sum == [T \in SUBSET S |-> Cardinality(Units(p, T))]
<1>1. ASSUME NEW T \in SUBSET S
      PROVE  sum[T] = IF T = {} THEN 0 ELSE p[Picked(T)].notional + sum[T \ {Picked(T)}]
  <2>1. CASE T = {}
    BY <2>1, UnitsEmpty, FS_EmptySet
  <2>2. CASE T # {}
    <3>1. Picked(T) \in T
      BY <2>2 DEF Picked
    <3> QED
      BY <2>2, <3>1, UnitsAdd, UnitsFinite
  <2> QED
    BY <2>1, <2>2
<1>2. sum = [T \in SUBSET S |->
               IF T = {} THEN 0 ELSE p[Picked(T)].notional + sum[T \ {Picked(T)}]]
  BY <1>1
<1> QED
  BY <1>2 DEF Sums

\* So the exposure is the number of units.
LEMMA ExposureIsUnits ==
  ASSUME NEW d, IsFiniteSet(open_positions(d)),
         \A s \in open_positions(d) : d.pos[s].notional \in Nat
  PROVE  OpenExposure(d) = Cardinality(Units(d.pos, open_positions(d)))
<1> DEFINE S == open_positions(d)
           sum == CHOOSE sum : Sums(d.pos, S, sum)
<1>1. OpenExposure(d) = sum[S]
  BY DEF OpenExposure, MapThenSumSet, MapThenFoldSet, Sums, Picked
<1>2. Sums(d.pos, S, sum)
  BY SumsExist
<1> HIDE DEF sum
<1> QED
  BY <1>1, <1>2, SumsAreUnits

-----------------------------------------------------------------------------
(* Every step keeps the limits *)

\* What is open is finite and amounts to a number.
LEMMA OpenType ==
  ASSUME NEW d \in Database
  PROVE  /\ IsFiniteSet(open_positions(d)) /\ Cardinality(open_positions(d)) \in Nat
         /\ Cardinality(open_positions(d)) <= Cardinality(Symbols) /\ Cardinality(Symbols) \in Nat
         /\ IsFiniteSet(Units(d.pos, open_positions(d)))
         /\ OpenExposure(d) = Cardinality(Units(d.pos, open_positions(d)))
         /\ OpenExposure(d) \in Nat
<1> DEFINE S == open_positions(d)
<1>1. S \in SUBSET Symbols /\ \A s \in S : d.pos[s].notional \in Nat
  BY DEF open_positions, Database, Position
<1>2. IsFiniteSet(S) /\ Cardinality(S) <= Cardinality(Symbols) /\ Cardinality(Symbols) \in Nat
  BY <1>1, SymbolsAssumption, FS_Subset, FS_CardinalityType
<1>3. Cardinality(S) \in Nat
  BY <1>2, FS_CardinalityType
<1>4. OpenExposure(d) = Cardinality(Units(d.pos, S)) /\ IsFiniteSet(Units(d.pos, S))
  BY <1>1, <1>2, ExposureIsUnits, UnitsFinite
<1>5. OpenExposure(d) \in Nat
  BY <1>4, FS_CardinalityType
<1> QED
  BY <1>2, <1>3, <1>4, <1>5

\* The exposure and the losses are those of the rows alone.
LEMMA SameRows ==
  ASSUME NEW d, NEW e, d.pos = e.pos, d.trades = e.trades
  PROVE  /\ open_positions(d) = open_positions(e) /\ OpenExposure(d) = OpenExposure(e)
         /\ \A day : LossesOn(d, day) = LossesOn(e, day)
         /\ DailyLoss(d) = DailyLoss(e)
  BY DEF open_positions, OpenExposure, LossesOn, DailyLoss

\* A fill adds its notional to the exposure; a close takes that of its symbol away.
LEMMA ExposureMoves ==
  ASSUME NEW d \in Database, NEW e \in Database, NEW s \in Symbols, NEW q \in Position,
         Proper(d.pos[s]), e.pos = [d.pos EXCEPT ![s] = q], q = Flat \/ q.qty > 0
  PROVE  OpenExposure(e) = OpenExposure(d) - d.pos[s].notional + q.notional
<1> DEFINE S == open_positions(d)
           T == open_positions(e)
           rest == Units(d.pos, S \ {s})
<1>1. d.pos[s] \in Position /\ d.pos \in [Symbols -> Position]
  BY DEF Database
<1>2. Units(e.pos, T \ {s}) = rest
  BY <1>1 DEF Units, open_positions
<1>3. IsFiniteSet(rest) /\ Cardinality(rest) \in Nat
  <2>1. S \in SUBSET Symbols /\ IsFiniteSet(S) /\ \A x \in S : d.pos[x].notional \in Nat
    BY <1>1, OpenType DEF open_positions, Position
  <2> QED
    BY <2>1, UnitsFinite, FS_CardinalityType
<1>4. OpenExposure(d) = d.pos[s].notional + Cardinality(rest)
  <2>1. CASE s \in S
    BY <1>1, <1>3, <2>1, UnitsAdd, OpenType DEF Position
  <2>2. CASE s \notin S
    <3>1. S \ {s} = S /\ d.pos[s].notional = 0
      BY <1>1, <2>2 DEF Proper, Flat, open_positions
    <3> QED
      BY <1>3, <3>1, OpenType
  <2> QED
    BY <2>1, <2>2
<1>5. OpenExposure(e) = q.notional + Cardinality(rest)
  <2>1. e.pos[s] = q /\ q.notional \in Nat
    BY <1>1 DEF Position
  <2>2. CASE s \in T
    <3>1. Cardinality(Units(e.pos, T)) = e.pos[s].notional + Cardinality(Units(e.pos, T \ {s}))
      BY <1>2, <1>3, <2>1, <2>2, UnitsAdd
    <3> QED
      BY <1>2, <2>1, <3>1, OpenType
  <2>3. CASE s \notin T
    <3>1. T \ {s} = T /\ q.notional = 0
      BY <2>1, <2>3 DEF Flat, open_positions
    <3> QED
      BY <1>2, <1>3, <3>1, OpenType
  <2> QED
    BY <2>2, <2>3
<1>6. d.pos[s].notional \in Nat /\ q.notional \in Nat
  BY <1>1 DEF Position
<1> QED
  BY <1>3, <1>4, <1>5, <1>6

\* The losses of a day are finitely many.
LEMMA LossesType ==
  ASSUME NEW d \in Database, NEW day
  PROVE  IsFiniteSet(LossesOn(d, day)) /\ Cardinality(LossesOn(d, day)) \in Nat
<1>1. Len(d.trades) \in Nat /\ DOMAIN d.trades = 1 .. Len(d.trades)
  BY DEF Database
<1>2. IsFiniteSet(1 .. Len(d.trades))
  BY <1>1, FS_Interval
<1>3. LossesOn(d, day) \in SUBSET (1 .. Len(d.trades))
  BY <1>1 DEF LossesOn
<1> QED
  BY <1>2, <1>3, FS_Subset, FS_CardinalityType

\* What an approved entry leaves in the rows: all of it as before, when its tick is undone,
\* or one fill more, that the exposure had room for, on a day whose losses allowed it.
LEMMA EnterRows ==
  ASSUME TypeOK, NEW s \in Symbols, NEW side \in Side, Enter(s, side)
  PROVE  /\ db' \in Database /\ now' = now
         /\ db'.trades = db.trades
         /\ \/ db'.pos = db.pos
            \/ /\ DailyLoss(db) < MaxDailyLoss
               /\ \E q \in Position :
                    /\ db'.pos = [db.pos EXCEPT ![s] = q] /\ q.qty > 0
                    /\ OpenExposure(db) - db.pos[s].notional + q.notional <= MaxExposure
<1>1. PICK d \in Begun(s), qty \in 1 .. MaxPosition :
        /\ Approves(d, s) /\ qty = ApprovedQty(d, side)
        /\ Submit(s, side, qty, Increased(d, s, side, qty))
  BY DEF Enter
<1>2. /\ d \in Database /\ db \in Database
      /\ d.pos = db.pos /\ d.trades = db.trades
  BY BegunKeeps DEF TypeOK
<1>3. qty \in Nat \ {0} /\ FillPrice(side) \in Nat \ {0}
  BY LimitsAssumption, PriceType
<1>4. OpenExposure(d) = OpenExposure(db) /\ DailyLoss(d) = DailyLoss(db)
  BY <1>2, SameRows
<1> DEFINE p == db.pos[s]
           cost == qty * FillPrice(side)
           q == [side |-> side, qty |-> p.qty + qty, notional |-> p.notional + cost]
           rows == Increased(d, s, side, qty)
<1>5. p \in Position /\ cost \in Nat
  BY <1>2, <1>3 DEF Database
<1>6. OpenExposure(db) + cost <= MaxExposure
  <2>1. OpenExposure(d) < MaxExposure /\ OpenExposure(db) \in Nat /\ MaxExposure \in Nat
        /\ MaxPosition \in Nat
    BY <1>1, <1>2, OpenType, LimitsAssumption DEF Approves
  <2>2. PositionUsd(d) \in Nat /\ PositionUsd(d) <= MaxExposure - OpenExposure(db)
    BY <1>4, <2>1 DEF PositionUsd
  <2>3. qty = PositionUsd(d) \div FillPrice(side)
    BY <1>1 DEF ApprovedQty, adverse_fill_price, FillPrice
  <2>4. ASSUME NEW a \in Nat, NEW b \in Nat \ {0}
        PROVE  (a \div b) * b <= a
    OBVIOUS
  <2>5. cost <= PositionUsd(d)
    BY <1>3, <2>2, <2>3, <2>4
  <2> QED
    BY <1>5, <2>1, <2>2, <2>5
<1>7. q \in Position /\ q.qty > 0 /\ q.notional = p.notional + cost
  BY <1>3, <1>5 DEF Position
<1>8. rows = [d EXCEPT !.pos = [db.pos EXCEPT ![s] = q]]
  BY <1>2 DEF Increased, Database
<1>9. OpenExposure(db) - p.notional + q.notional <= MaxExposure
  <2>1. OpenExposure(db) \in Nat /\ p.notional \in Nat /\ MaxExposure \in Nat
    BY <1>2, <1>5, OpenType, LimitsAssumption DEF Position
  <2> HIDE DEF p, cost, q
  <2> QED
    BY <1>5, <1>6, <1>7, <2>1
<1> HIDE DEF q, rows
<1>10. rows \in Database /\ rows.pos = [db.pos EXCEPT ![s] = q] /\ rows.trades = db.trades
  BY <1>2, <1>7, <1>8 DEF Database
<1>11. DailyLoss(db) < MaxDailyLoss
  BY <1>1, <1>4 DEF Approves
<1>12. now' = now /\ (db' = rows \/ db' = db)
  BY <1>1 DEF Submit, rows
<1> QED
  BY <1>2, <1>7, <1>9, <1>10, <1>11, <1>12

\* A step after which positions and closed rows are what they were, within the same day.
LEMMA LimitsLeftAlone ==
  ASSUME LimitsInv, db'.pos = db.pos, db'.trades = db.trades, now' = now
  PROVE  LimitsInv'
<1>1. /\ open_positions(db') = open_positions(db) /\ OpenExposure(db') = OpenExposure(db)
      /\ \A day : LossesOn(db', day) = LossesOn(db, day)
  BY SameRows
<1>2. ExposureWithinLimit'
  BY <1>1 DEF LimitsInv, ExposureWithinLimit
<1>3. LossesAreCovered'
  BY <1>1 DEF LimitsInv, LossesAreCovered, DailyLoss
<1>4. DailyLossIsBounded'
  BY <1>1 DEF LimitsInv, DailyLossIsBounded
<1> QED
  BY <1>2, <1>3, <1>4 DEF LimitsInv

\* An entry: there is room for it, and the day has a loss to spare for each symbol.
LEMMA EnterWithinLimits ==
  ASSUME TypeOK, LimitsInv, NEW s \in Symbols, NEW side \in Side, Enter(s, side)
  PROVE  LimitsInv'
<1>1. CASE db'.pos = db.pos
  BY <1>1, EnterRows, LimitsLeftAlone
<1>2. CASE db'.pos # db.pos
  <2>1. /\ db \in Database /\ db' \in Database /\ now' = now /\ db'.trades = db.trades
        /\ DailyLoss(db) < MaxDailyLoss /\ Proper(db.pos[s])
    BY <1>2, EnterRows DEF TypeOK
  <2>2. PICK q \in Position :
          /\ db'.pos = [db.pos EXCEPT ![s] = q] /\ q.qty > 0
          /\ OpenExposure(db) - db.pos[s].notional + q.notional <= MaxExposure
    BY <1>2, EnterRows
  <2>3. ExposureWithinLimit'
    BY <2>1, <2>2, ExposureMoves DEF ExposureWithinLimit
  <2>4. \A day : LossesOn(db', day) = LossesOn(db, day)
    BY <2>1 DEF LossesOn
  <2>5. DailyLoss(db)' = DailyLoss(db)
    BY <2>1, <2>4 DEF DailyLoss
  <2>6. DailyLossIsBounded'
    BY <2>1, <2>4 DEF LimitsInv, DailyLossIsBounded
  <2>7. DailyLoss(db) \in Nat /\ MaxDailyLoss \in Nat
    BY <2>1, LossesType, LimitsAssumption DEF DailyLoss
  <2>8. /\ Cardinality(open_positions(db')) <= Cardinality(Symbols)
        /\ Cardinality(open_positions(db')) \in Nat /\ Cardinality(Symbols) \in Nat
    BY <2>1, OpenType
  <2>9. DailyLoss(db)' + Cardinality(open_positions(db')) < MaxDailyLoss + Cardinality(Symbols)
    BY <2>1, <2>5, <2>7, <2>8
  <2>10. LossesAreCovered'
    BY <2>1, <2>7, <2>9 DEF LimitsInv, LossesAreCovered
  <2> QED
    BY <2>3, <2>6, <2>10 DEF LimitsInv
<1> QED
  BY <1>1, <1>2

\* A close: what was open may have become a loss, and one position fewer is open.
LEMMA CloseWithinLimits ==
  ASSUME PortfolioInv, LimitsInv, NEW s \in Symbols, NEW lost \in BOOLEAN, Close(s, lost)
  PROVE  LimitsInv'
<1> DEFINE trade == [symbol |-> s, at |-> now, lost |-> lost]
           n == Len(db.trades)
           today == Today(now)
<1> USE DEF PortfolioInv
<1>1. /\ db \in Database /\ db' \in Database /\ now' = now /\ Proper(db.pos[s])
      /\ s \in open_positions(db)
  <2>1. TypeOK'
    BY CloseFollowsRows
  <2> QED
    BY <2>1 DEF TypeOK, Close, Submit
<1>2. CASE db' = db
  BY <1>1, <1>2, LimitsLeftAlone
<1>3. CASE db' # db
  <2>1. db'.pos = [db.pos EXCEPT ![s] = Flat] /\ db'.trades = Append(db.trades, trade)
    BY <1>3, CloseFollowsRows
  <2>2. /\ db.trades \in Seq(Trade) /\ n \in Nat
        /\ DOMAIN db.trades = 1 .. n /\ DOMAIN db'.trades = 1 .. n + 1
        /\ \A i \in 1 .. n : db'.trades[i] = db.trades[i]
        /\ db'.trades[n + 1] = trade
    BY <1>1, <2>1 DEF Database
  <2>3. ExposureWithinLimit'
    <3>1. Flat \in Position /\ Flat.notional = 0 /\ db.pos[s].notional \in Nat
      BY <1>1 DEF Flat, Position, Database
    <3>2. OpenExposure(db') = OpenExposure(db) - db.pos[s].notional + 0
      BY <1>1, <2>1, <3>1, ExposureMoves
    <3>3. OpenExposure(db) <= MaxExposure /\ OpenExposure(db) \in Nat /\ MaxExposure \in Nat
      BY <1>1, OpenType, LimitsAssumption DEF LimitsInv, ExposureWithinLimit
    <3> QED
      BY <3>1, <3>2, <3>3 DEF ExposureWithinLimit
  <2>4. open_positions(db') = open_positions(db) \ {s}
    BY <1>1, <2>1 DEF open_positions, Flat, Database
  <2>5. Cardinality(open_positions(db')) = Cardinality(open_positions(db)) - 1
    BY <1>1, <2>4, OpenType, FS_RemoveElement
  <2>6. \A day : LossesOn(db', day) \subseteq LossesOn(db, day) \cup {n + 1}
    BY <2>2 DEF LossesOn
  <2>7. Cardinality(LossesOn(db', today)) <= Cardinality(LossesOn(db, today)) + 1
    <3>1. /\ IsFiniteSet(LossesOn(db, today)) /\ Cardinality(LossesOn(db, today)) \in Nat
          /\ Cardinality(LossesOn(db', today)) \in Nat
      BY <1>1, LossesType
    <3> DEFINE more == LossesOn(db, today) \cup {n + 1}
    <3>2. /\ IsFiniteSet(more) /\ Cardinality(more) <= Cardinality(LossesOn(db, today)) + 1
          /\ Cardinality(more) \in Nat
      <4>1. /\ IsFiniteSet(more)
            /\ Cardinality(more) = IF n + 1 \in LossesOn(db, today)
                                   THEN Cardinality(LossesOn(db, today))
                                   ELSE Cardinality(LossesOn(db, today)) + 1
        BY <3>1, FS_AddElement
      <4> HIDE DEF more, today
      <4> QED
        BY <3>1, <4>1
    <3>3. LossesOn(db', today) \in SUBSET more
      BY <2>6
    <3> HIDE DEF more
    <3>4. Cardinality(LossesOn(db', today)) <= Cardinality(more)
      BY <3>2, <3>3, FS_Subset
    <3> QED
      BY <3>1, <3>2, <3>4
  <2>8. \A day : day # today => LossesOn(db', day) = LossesOn(db, day)
    BY <2>2 DEF LossesOn
  <2>9. /\ Cardinality(open_positions(db)) \in Nat /\ Cardinality(open_positions(db')) \in Nat
        /\ Cardinality(LossesOn(db, today)) \in Nat /\ Cardinality(LossesOn(db', today)) \in Nat
        /\ MaxDailyLoss \in Nat /\ Cardinality(Symbols) \in Nat
    BY <1>1, OpenType, LossesType, LimitsAssumption
  <2>10. /\ Cardinality(LossesOn(db, today)) + Cardinality(open_positions(db))
              < MaxDailyLoss + Cardinality(Symbols)
    BY DEF LimitsInv, LossesAreCovered, DailyLoss
  <2>11. /\ Cardinality(LossesOn(db', today)) + Cardinality(open_positions(db'))
              < MaxDailyLoss + Cardinality(Symbols)
    BY <2>5, <2>7, <2>9, <2>10
  <2>12. LossesAreCovered'
    <3>1. \A i \in DOMAIN db'.trades : db'.trades[i].at <= now
      <4>1. \A i \in 1 .. n : db.trades[i].at <= now
        BY <2>2 DEF LimitsInv, LossesAreCovered
      <4>2. db'.trades[n + 1].at <= now
        BY <1>1, <2>2, LimitsAssumption DEF TypeOK
      <4> QED
        BY <2>2, <4>1, <4>2
    <3>2. MaxDailyLoss = 0 => open_positions(db') = {}
      BY <2>4 DEF LimitsInv, LossesAreCovered
    <3>3. DailyLoss(db)' = Cardinality(LossesOn(db', today))
      BY <1>1 DEF DailyLoss
    <3> QED
      BY <1>1, <2>11, <3>1, <3>2, <3>3 DEF LossesAreCovered
  <2>13. Cardinality(LossesOn(db', today)) < MaxDailyLoss + Cardinality(Symbols)
    BY <2>9, <2>11
  <2>14. DailyLossIsBounded'
    <3> SUFFICES ASSUME NEW i \in 1 .. n + 1
                 PROVE  Cardinality(LossesOn(db', Today(db'.trades[i].at)))
                          < MaxDailyLoss + Cardinality(Symbols)
      BY <2>2 DEF DailyLossIsBounded
    <3>1. CASE Today(db'.trades[i].at) = today
      BY <2>13, <3>1
    <3>2. CASE Today(db'.trades[i].at) # today
      <4>1. i \in 1 .. n
        BY <2>2, <3>2
      <4> QED
        BY <2>2, <2>8, <3>2, <4>1 DEF LimitsInv, DailyLossIsBounded
    <3> QED
      BY <3>1, <3>2
  <2> QED
    BY <2>3, <2>12, <2>14 DEF LimitsInv
<1> QED
  BY <1>2, <1>3

\* The clock: the losses of a day that begins are none.
LEMMA ClockWithinLimits ==
  ASSUME TypeOK, LimitsInv, Clock
  PROVE  LimitsInv'
<1>1. db' = db /\ now' = now + 1 /\ now \in Nat /\ db \in Database /\ DayLength \in Nat \ {0}
  BY LimitsAssumption DEF Clock, TypeOK
<1>2. ExposureWithinLimit' /\ DailyLossIsBounded'
  BY <1>1 DEF LimitsInv, ExposureWithinLimit, DailyLossIsBounded
<1>3. \A i \in DOMAIN db.trades : db.trades[i].at <= now /\ db.trades[i].at \in Nat
  <2>1. db.trades \in Seq(Trade)
    BY <1>1 DEF Database
  <2>2. \A i \in DOMAIN db.trades : db.trades[i] \in Trade
    BY <2>1
  <2> QED
    BY <2>2, LimitsAssumption DEF LimitsInv, LossesAreCovered, Trade
<1>4. /\ Cardinality(open_positions(db)) \in Nat
      /\ Cardinality(open_positions(db)) <= Cardinality(Symbols) /\ Cardinality(Symbols) \in Nat
      /\ MaxDailyLoss \in Nat
  BY <1>1, OpenType, LimitsAssumption
<1>5. CASE Today(now') = Today(now)
  BY <1>1, <1>3, <1>5, <1>2 DEF LimitsInv, LossesAreCovered, DailyLoss
<1>6. CASE Today(now') # Today(now)
  <2>1. ASSUME NEW a \in Nat, NEW b \in Nat, a <= b
        PROVE  Today(a) <= Today(b) /\ Today(a) \in Nat
    BY <2>1, <1>1 DEF Today
  <2>2. \A i \in DOMAIN db.trades : Today(db.trades[i].at) # Today(now')
    <3> SUFFICES ASSUME NEW i \in DOMAIN db.trades PROVE Today(db.trades[i].at) # Today(now + 1)
      BY <1>1
    <3>1. Today(db.trades[i].at) <= Today(now) /\ Today(db.trades[i].at) \in Nat
      BY <1>1, <1>3, <2>1
    <3>2. Today(now) <= Today(now + 1) /\ Today(now) \in Nat
      BY <1>1, <2>1
    <3>3. Today(now + 1) \in Nat /\ Today(now + 1) # Today(now)
      BY <1>1, <1>6, <2>1
    <3> QED
      BY <3>1, <3>2, <3>3
  <2>3. LossesOn(db', Today(now')) = {}
    BY <1>1, <2>2 DEF LossesOn
  <2>4. DailyLoss(db)' = 0
    BY <2>3, FS_EmptySet DEF DailyLoss
  <2>5. Cardinality(open_positions(db)) < MaxDailyLoss + Cardinality(Symbols)
    <3>1. CASE MaxDailyLoss = 0
      <4>1. DailyLoss(db) \in Nat
        BY <1>1, LossesType DEF DailyLoss
      <4> QED
        BY <1>4, <3>1, <4>1 DEF LimitsInv, LossesAreCovered
    <3>2. CASE MaxDailyLoss # 0
      BY <1>4, <3>2
    <3> QED
      BY <3>1, <3>2
  <2>6. \A i \in DOMAIN db'.trades : db'.trades[i].at <= now'
    BY <1>1, <1>3
  <2>7. DailyLoss(db)' + Cardinality(open_positions(db')) < MaxDailyLoss + Cardinality(Symbols)
    BY <1>1, <1>4, <2>4, <2>5
  <2>8. LossesAreCovered'
    BY <1>1, <2>6, <2>7 DEF LimitsInv, LossesAreCovered
  <2> QED
    BY <1>2, <2>8 DEF LimitsInv
<1> QED
  BY <1>5, <1>6

\* Every step.
LEMMA StepWithinLimits == PortfolioInv /\ LimitsInv /\ [Next]_vars => LimitsInv'
<1> SUFFICES ASSUME PortfolioInv, LimitsInv, [Next]_vars PROVE LimitsInv'
  OBVIOUS
<1>1. TypeOK
  BY DEF PortfolioInv
<1>2. ASSUME NEW s \in Symbols, Observe(s)
      PROVE  LimitsInv'
  BY <1>1, <1>2, BegunKeeps, LimitsLeftAlone DEF Observe
<1>3. CASE Activate
  BY <1>1, <1>3, LimitsLeftAlone DEF Activate, TypeOK, Database
<1>4. CASE Restart
  <2>1. PICK s \in Symbols : db' = Booted(db, book', s)
    BY <1>4 DEF Restart
  <2> DEFINE d == Reconciled(db, book', s)
  <2>2. d \in Database /\ d.pos = db.pos /\ d.trades = db.trades
    BY <1>1, ReconciledKeeps DEF TypeOK
  <2>3. db' = [d EXCEPT !.gate.opstate = IF d.gate.blocked THEN "BLOQUEADO" ELSE "OBSERVANDO"]
    BY <2>1 DEF Booted
  <2> HIDE DEF d
  <2>4. db'.pos = db.pos /\ db'.trades = db.trades
    BY <2>2, <2>3 DEF Database
  <2> QED
    BY <1>4, <2>4, LimitsLeftAlone DEF Restart
<1>5. CASE UNCHANGED vars
  BY <1>5, LimitsLeftAlone DEF vars
<1> QED
  BY <1>1, <1>2, <1>3, <1>4, <1>5, EnterWithinLimits, CloseWithinLimits, ClockWithinLimits DEF Next

\* Nothing is open after the first boot, and there is a symbol that booted.
LEMMA InitWithinLimits == Init => LimitsInv
<1> SUFFICES ASSUME Init PROVE LimitsInv
  OBVIOUS
<1>1. PICK s \in Symbols : db = Booted(Fresh, book, s)
  BY DEF Init
<1>2. db \in Database /\ PortfolioInv
  BY InitInv DEF PortfolioInv, TypeOK
<1>3. db.pos = [x \in Symbols |-> Flat] /\ db.trades = <<>>
  BY <1>1 DEF Booted, Reconciled, Fresh
<1>4. open_positions(db) = {} /\ \A day : LossesOn(db, day) = {}
  BY <1>3 DEF open_positions, Flat, LossesOn
<1>5. Cardinality({}) = 0
  BY FS_EmptySet
<1>6. Cardinality(Symbols) \in Nat \ {0} /\ {MaxDailyLoss, MaxExposure} \subseteq Nat
  BY SymbolsAssumption, LimitsAssumption, FS_CardinalityType, FS_EmptySet
<1>7. OpenExposure(db) = 0
  BY <1>2, <1>4, <1>5, UnitsEmpty, OpenType
<1>8. ExposureWithinLimit
  BY <1>6, <1>7 DEF ExposureWithinLimit
<1>9. LossesAreCovered
  <2>1. DOMAIN db.trades = {}
    BY <1>3
  <2>2. DailyLoss(db) + Cardinality(open_positions(db)) < MaxDailyLoss + Cardinality(Symbols)
    BY <1>4, <1>5, <1>6 DEF DailyLoss
  <2> QED
    BY <1>4, <2>1, <2>2 DEF LossesAreCovered
<1>10. DailyLossIsBounded
  BY <1>3 DEF DailyLossIsBounded
<1> QED
  BY <1>8, <1>9, <1>10 DEF LimitsInv

\* The limits hold in every reachable state.
LEMMA LimitsSafe == Spec => []LimitsInv
  BY InitWithinLimits, StepWithinLimits, PortfolioSafe, PTL DEF Spec

\* Whatever symbols enter, add and close, in whatever order, and whatever ticks are undone,
\* what is held at the prices it was filled at stays within max_total_exposure_usd.
THEOREM ExposureLimited == Spec => []ExposureWithinLimit
  BY LimitsSafe, PTL DEF LimitsInv

\* No day loses more often than the limit and one position of each further symbol allow.
THEOREM DailyLossLimited == Spec => []DailyLossIsBounded
  BY LimitsSafe, PTL DEF LimitsInv
=============================================================================

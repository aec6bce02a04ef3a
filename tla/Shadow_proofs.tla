---------------------------- MODULE Shadow_proofs ----------------------------
(***************************************************************************)
(* What the rows of the shadow engine promise, for any symbols, limits,    *)
(* configurations and candles, and however many savepoints and ticks are   *)
(* undone; that experiments keep apart while none is; and that no entry is *)
(* made against the losses that a model had in this life.                  *)
(***************************************************************************)
EXTENDS ShadowProperties, FiniteSetTheorems, WellFoundedInduction, TLAPS

-----------------------------------------------------------------------------
(* The exposure as a count.  Notional sums in the order in which CHOOSE picks; the sum is *)
(* the number of units held, in which no order appears.                                   *)

\* One element for each unit of notional of the positions in T
Units(T) == {u \in T \X Nat : u[2] \in 1 .. u[1].notional}

\* No positions have no units.
LEMMA UnitsEmpty == Units({}) = {}
  BY DEF Units

\* One more position adds its notional.
LEMMA UnitsAdd ==
  ASSUME NEW T, NEW p \in T, p.notional \in Nat, IsFiniteSet(Units(T \ {p}))
  PROVE  /\ IsFiniteSet(Units(T))
         /\ Cardinality(Units(T)) = p.notional + Cardinality(Units(T \ {p}))
<1> DEFINE n == p.notional
           A == Units(T \ {p})
           B == {p} \X (1 .. n)
<1>1. n \in Nat
  OBVIOUS
<1>2. IsFiniteSet(B) /\ Cardinality(B) = n
  <2> HIDE DEF n
  <2>1. IsFiniteSet(1 .. n) /\ Cardinality(1 .. n) = n
    <3>1. IsFiniteSet(1 .. n) /\ Cardinality(1 .. n) = IF 1 > n THEN 0 ELSE n - 1 + 1
      BY <1>1, FS_Interval
    <3> QED
      BY <1>1, <3>1
  <2>2. IsFiniteSet({p}) /\ Cardinality({p}) = 1
    BY FS_Singleton
  <2>3. IsFiniteSet(B) /\ Cardinality(B) = 1 * n
    <3> DEFINE I == 1 .. n
    <3>1. IsFiniteSet(I) /\ Cardinality(I) = n
      BY <2>1
    <3> HIDE DEF I
    <3>2. IsFiniteSet({p} \X I) /\ Cardinality({p} \X I) = Cardinality({p}) * Cardinality(I)
      BY <2>2, <3>1, FS_Product, Zenon
    <3>3. IsFiniteSet({p} \X I) /\ Cardinality({p} \X I) = 1 * n
      BY <2>2, <3>1, <3>2, Zenon
    <3> QED
      BY <3>3 DEF I
  <2> QED
    BY <1>1, <2>3
<1>3. Units(T) = A \cup B /\ A \cap B = {}
  BY DEF Units
<1>4. IsFiniteSet(A) /\ Cardinality(A) \in Nat /\ Cardinality({}) = 0
  BY FS_CardinalityType, FS_EmptySet
<1> HIDE DEF A, B, n
<1>5. /\ IsFiniteSet(A \cup B)
      /\ Cardinality(A \cup B) = Cardinality(A) + Cardinality(B) - Cardinality(A \cap B)
  BY <1>2, <1>4, FS_Union
<1>6. IsFiniteSet(Units(T)) /\ Cardinality(Units(T)) = n + Cardinality(A)
  <2>1. /\ IsFiniteSet(Units(T))
        /\ Cardinality(Units(T)) = Cardinality(A) + Cardinality(B) - Cardinality({})
    BY <1>3, <1>5
  <2> QED
    BY <1>1, <1>2, <1>4, <2>1
<1> QED
  BY <1>6 DEF A, n

Sizes(S) == \A p \in S : p.notional \in Nat

\* Finitely many positions have finitely many units: no smallest set of them has not.
LEMMA UnitsFinite ==
  ASSUME NEW S, IsFiniteSet(S), Sizes(S)
  PROVE  \A T \in SUBSET S : IsFiniteSet(Units(T))
<1> DEFINE Bad == {T \in SUBSET S : ~ IsFiniteSet(Units(T))}
<1> SUFFICES ASSUME Bad # {} PROVE FALSE
  OBVIOUS
<1>1. IsWellFoundedOn(StrictSubsetOrdering(S), SUBSET S)
  BY FS_StrictSubsetOrderingWellFounded, FS_FiniteSubsetsOfFinite
<1>2. PICK T \in Bad : \A U \in Bad : ~ (<<U, T>> \in StrictSubsetOrdering(S))
  <2> HIDE DEF Bad
  <2>1. Bad \subseteq SUBSET S
    BY DEF Bad
  <2> QED
    BY <1>1, <2>1, WFMin
<1>3. PICK p \in T : TRUE
  BY UnitsEmpty, FS_EmptySet
<1>4. IsFiniteSet(Units(T \ {p}))
  <2>1. T \ {p} \notin Bad
    BY <1>2, <1>3 DEF StrictSubsetOrdering
  <2>2. T \ {p} \in SUBSET S
    OBVIOUS
  <2> QED
    BY <2>1, <2>2
<1> QED
  BY <1>3, <1>4, UnitsAdd DEF Sizes

\* What the recursive function of MapThenFoldSet satisfies, if there is such a function.
Picked(T) == CHOOSE x \in T : TRUE
Sums(S, sum) ==
  sum = [T \in SUBSET S |->
           IF T = {} THEN 0 ELSE Picked(T).notional + sum[T \ {Picked(T)}]]

\* A function that satisfies the recursion counts units: no smallest set is counted wrong.
LEMMA SumsAreUnits ==
  ASSUME NEW S, IsFiniteSet(S), Sizes(S), NEW sum, Sums(S, sum)
  PROVE  \A T \in SUBSET S : sum[T] = Cardinality(Units(T))
<1> DEFINE Bad == {T \in SUBSET S : sum[T] # Cardinality(Units(T))}
<1> SUFFICES ASSUME Bad # {} PROVE FALSE
  OBVIOUS
<1>1. IsWellFoundedOn(StrictSubsetOrdering(S), SUBSET S)
  BY FS_StrictSubsetOrderingWellFounded, FS_FiniteSubsetsOfFinite
<1>2. PICK T \in Bad : \A U \in Bad : ~ (<<U, T>> \in StrictSubsetOrdering(S))
  <2> HIDE DEF Bad
  <2>1. Bad \subseteq SUBSET S
    BY DEF Bad
  <2> QED
    BY <1>1, <2>1, WFMin
<1>3. T # {}
  <2>1. sum[{}] = 0
    BY DEF Sums
  <2> QED
    BY <2>1, UnitsEmpty, FS_EmptySet
<1> DEFINE p == Picked(T)
<1>4. p \in T
  BY <1>3 DEF Picked
<1>5. sum[T] = p.notional + sum[T \ {p}]
  BY <1>3 DEF Sums
<1> HIDE DEF p
<1>6. T \ {p} \in SUBSET S /\ p \in S
  BY <1>4
<1>7. <<T \ {p}, T>> \in StrictSubsetOrdering(S)
  BY <1>4, <1>6 DEF StrictSubsetOrdering
<1>8. sum[T \ {p}] = Cardinality(Units(T \ {p}))
  BY <1>2, <1>6, <1>7
<1>9. Cardinality(Units(T)) = p.notional + Cardinality(Units(T \ {p}))
  BY <1>4, <1>6, UnitsAdd, UnitsFinite DEF Sizes
<1> QED
  BY <1>5, <1>8, <1>9

\* Counting satisfies the recursion.
LEMMA SumsExist ==
  ASSUME NEW S, IsFiniteSet(S), Sizes(S)
  PROVE  \E sum : Sums(S, sum)
<1> DEFINE sum == [T \in SUBSET S |-> Cardinality(Units(T))]
<1>1. ASSUME NEW T \in SUBSET S
      PROVE  sum[T] = IF T = {} THEN 0 ELSE Picked(T).notional + sum[T \ {Picked(T)}]
  <2>1. CASE T = {}
    BY <2>1, UnitsEmpty, FS_EmptySet
  <2>2. CASE T # {}
    <3>1. Picked(T) \in T
      BY <2>2 DEF Picked
    <3> QED
      BY <2>2, <3>1, UnitsAdd, UnitsFinite DEF Sizes
  <2> QED
    BY <2>1, <2>2
<1>2. sum = [T \in SUBSET S |->
               IF T = {} THEN 0 ELSE Picked(T).notional + sum[T \ {Picked(T)}]]
  BY <1>1
<1> QED
  BY <1>2 DEF Sums

\* So the notional of positions is the number of their units.
LEMMA NotionalIsUnits ==
  ASSUME NEW S, IsFiniteSet(S), Sizes(S)
  PROVE  /\ Notional(S) = Cardinality(Units(S)) /\ IsFiniteSet(Units(S))
         /\ Notional(S) \in Nat
<1> DEFINE sum == CHOOSE sum : Sums(S, sum)
<1>1. Notional(S) = sum[S]
  BY DEF Notional, MapThenSumSet, MapThenFoldSet, Sums, Picked
<1>2. Sums(S, sum)
  BY SumsExist
<1> HIDE DEF sum
<1>3. Notional(S) = Cardinality(Units(S))
  BY <1>1, <1>2, SumsAreUnits
<1>4. IsFiniteSet(Units(S))
  BY UnitsFinite
<1> QED
  BY <1>3, <1>4, FS_CardinalityType

\* Fewer positions do not have a larger notional.
LEMMA NotionalOfFewer ==
  ASSUME NEW S, IsFiniteSet(S), Sizes(S), NEW T \in SUBSET S
  PROVE  Notional(T) <= Notional(S) /\ Notional(T) \in Nat /\ Notional(S) \in Nat
<1>1. IsFiniteSet(T) /\ Sizes(T)
  BY FS_Subset DEF Sizes
<1>2. Units(T) \subseteq Units(S)
  BY DEF Units
<1>3. Cardinality(Units(T)) <= Cardinality(Units(S))
  BY <1>2, NotionalIsUnits, FS_Subset
<1> QED
  BY <1>1, <1>3, NotionalIsUnits

\* One more position adds its notional.
LEMMA NotionalOfMore ==
  ASSUME NEW S, IsFiniteSet(S), Sizes(S), NEW p, p \notin S, p.notional \in Nat
  PROVE  Notional(S \union {p}) = p.notional + Notional(S)
<1> DEFINE T == S \union {p}
<1>1. T \ {p} = S /\ p \in T /\ IsFiniteSet(T) /\ Sizes(T)
  BY FS_AddElement DEF Sizes
<1> HIDE DEF T
<1>2. Cardinality(Units(T)) = p.notional + Cardinality(Units(T \ {p}))
  BY <1>1, NotionalIsUnits, UnitsAdd
<1>3. Notional(T) = p.notional + Notional(S)
  BY <1>1, <1>2, NotionalIsUnits
<1> QED
  BY <1>3 DEF T

-----------------------------------------------------------------------------
(* What happens to the rows *)

World == [db : Database, mem : Memory]

\* The symbols' latest candles
Candles == [Symbols -> Nat]

\* The finite set whose notional a model is allowed
Held(d, m) == {p \in d.positions : p.model = m /\ p.open}

\* The positions that a model holds can be summed.
LEMMA HeldSizes ==
  ASSUME NEW d \in Database, Booked(d), NEW m \in Models
  PROVE  IsFiniteSet(Held(d, m)) /\ Sizes(Held(d, m))
<1>1. Held(d, m) \subseteq d.positions
  BY DEF Held
<1>2. IsFiniteSet(Held(d, m))
  BY <1>1, FS_Subset DEF Booked
<1> QED
  BY <1>2 DEF Held, Sizes, Database, Position

\* An experiment, or an opportunity more, changes nothing that is promised of the rest.
LEMMA RowsKept ==
  ASSUME NEW d \in Database, NEW e \in Database, NEW candles \in Candles,
         RowsInv(d, candles), e.positions = d.positions, e.trades = d.trades,
         \A i \in DOMAIN d.opportunities :
           \E j \in DOMAIN e.opportunities : KeyOf(e.opportunities[j]) = KeyOf(d.opportunities[i])
  PROVE  RowsInv(e, candles)
<1>1. Booked(e)
  <2>1. \A p \in e.positions : \E i \in DOMAIN e.opportunities : KeyOf(e.opportunities[i]) = Key(p)
    BY DEF RowsInv, Booked
  <2> QED
    BY <2>1 DEF RowsInv, Booked
<1>2. Means(e)
  BY DEF RowsInv, Means
<1>3. EntriesApart(e) /\ Past(e, candles)
  BY DEF RowsInv, EntriesApart, Past
<1> QED
  BY <1>1, <1>2, <1>3 DEF RowsInv

\* The end of a position and its trade
Ended(pos) == [pos EXCEPT !.open = FALSE]
Closes(d, e, pos, trade) ==
  /\ e.opportunities = d.opportunities
  /\ e.positions = (d.positions \ {pos}) \union {Ended(pos)}
  /\ e.trades = Append(d.trades, trade)
  /\ trade.model = pos.model /\ Key(trade) = Key(pos)

\* The last of the trades is the new one.
LEMMA TradesAfter ==
  ASSUME NEW d \in Database, NEW e, NEW trade \in Trade, e.trades = Append(d.trades, trade)
  PROVE  /\ Len(d.trades) \in Nat /\ DOMAIN d.trades = 1 .. Len(d.trades)
         /\ DOMAIN e.trades = 1 .. Len(d.trades) + 1 /\ Len(e.trades) = Len(d.trades) + 1
         /\ \A i \in DOMAIN d.trades : e.trades[i] = d.trades[i]
         /\ e.trades[Len(d.trades) + 1] = trade
         /\ \A i \in DOMAIN e.trades :
              i \in DOMAIN d.trades \/ (i = Len(d.trades) + 1 /\ i \notin DOMAIN d.trades)
<1>1. d.trades \in Seq(Trade)
  BY DEF Database
<1>2. /\ Len(d.trades) \in Nat /\ DOMAIN d.trades = 1 .. Len(d.trades)
      /\ DOMAIN e.trades = 1 .. Len(d.trades) + 1 /\ Len(e.trades) = Len(d.trades) + 1
      /\ \A i \in DOMAIN d.trades : e.trades[i] = d.trades[i]
      /\ e.trades[Len(d.trades) + 1] = trade
  BY <1>1
<1> QED
  BY <1>2

\* A position that ends was open, and what remains of it is known by the same key.
LEMMA EndedIs ==
  ASSUME NEW pos \in Position, pos.open
  PROVE  /\ Ended(pos) \in Position /\ Key(Ended(pos)) = Key(pos) /\ ~ Ended(pos).open
         /\ Ended(pos).model = pos.model /\ Ended(pos).symbol = pos.symbol
         /\ Ended(pos).at = pos.at /\ Ended(pos) # pos
  BY DEF Ended, Position, Key

\* No position that is open has a trade already.
LEMMA OpenHasNoTrade ==
  ASSUME NEW d, Booked(d), NEW pos \in d.positions, pos.open
  PROVE  \A i \in DOMAIN d.trades : Key(d.trades[i]) # Key(pos)
  BY DEF Booked

\* Closing a position keeps the tables booked.
LEMMA BookedClosed ==
  ASSUME NEW d \in Database, NEW e \in Database, NEW pos \in d.positions, pos.open,
         NEW trade \in Trade, Closes(d, e, pos, trade), Booked(d)
  PROVE  Booked(e)
<1> DEFINE n == Len(d.trades) + 1
<1>1. pos \in Position
  BY DEF Database
<1>2. IsFiniteSet(e.positions)
  <2>1. IsFiniteSet(d.positions \ {pos})
    BY FS_Subset DEF Booked
  <2> QED
    BY <2>1, FS_AddElement DEF Closes
<1>3. \A p \in e.positions : p \in d.positions \ {pos} \/ p = Ended(pos)
  BY DEF Closes
<1>4. /\ DOMAIN e.trades = 1 .. n /\ n \in DOMAIN e.trades /\ e.trades[n] = trade
      /\ \A i \in DOMAIN d.trades : i \in DOMAIN e.trades /\ e.trades[i] = d.trades[i]
      /\ \A i \in DOMAIN e.trades : i \in DOMAIN d.trades \/ i = n
  BY TradesAfter DEF Closes
<1> HIDE DEF n
<1>5. Ended(pos) \in e.positions /\ \A p \in d.positions \ {pos} : p \in e.positions
  BY DEF Closes
<1>6. /\ Key(trade) = Key(pos) /\ Key(Ended(pos)) = Key(pos) /\ ~ Ended(pos).open
      /\ \A i \in DOMAIN d.trades : Key(d.trades[i]) # Key(pos)
      /\ \A p \in d.positions \ {pos} : Key(p) # Key(pos)
  BY <1>1, EndedIs, OpenHasNoTrade DEF Closes, Booked
<1>7. \A p, q \in e.positions : Key(p) = Key(q) => p = q
  BY <1>3, <1>6 DEF Booked
<1>8. \A p \in e.positions : \E i \in DOMAIN e.opportunities : KeyOf(e.opportunities[i]) = Key(p)
  BY <1>3, <1>6 DEF Booked, Closes
<1>9. \A i \in DOMAIN e.trades : \E p \in e.positions : ~ p.open /\ Key(p) = Key(e.trades[i])
  <2> SUFFICES ASSUME NEW i \in DOMAIN e.trades
               PROVE  \E p \in e.positions : ~ p.open /\ Key(p) = Key(e.trades[i])
    OBVIOUS
  <2>1. CASE i \in DOMAIN d.trades
    <3>1. PICK p \in d.positions : ~ p.open /\ Key(p) = Key(d.trades[i])
      BY <2>1 DEF Booked
    <3> QED
      BY <1>4, <1>5, <2>1, <3>1
  <2>2. CASE i = n
    BY <1>4, <1>5, <1>6, <2>2
  <2> QED
    BY <1>4, <2>1, <2>2
<1>10. \A p \in e.positions : ~ p.open => \E i \in DOMAIN e.trades : Key(e.trades[i]) = Key(p)
  <2> SUFFICES ASSUME NEW p \in e.positions, ~ p.open
               PROVE  \E i \in DOMAIN e.trades : Key(e.trades[i]) = Key(p)
    OBVIOUS
  <2>1. CASE p \in d.positions \ {pos}
    <3>1. PICK i \in DOMAIN d.trades : Key(d.trades[i]) = Key(p)
      BY <2>1 DEF Booked
    <3> QED
      BY <1>4, <3>1
  <2>2. CASE p = Ended(pos)
    BY <1>4, <1>6, <2>2
  <2> QED
    BY <1>3, <2>1, <2>2
<1>11. \A i, j \in DOMAIN e.trades : Key(e.trades[i]) = Key(e.trades[j]) => i = j
  BY <1>4, <1>6 DEF Booked
<1> QED
  BY <1>2, <1>7, <1>8, <1>9, <1>10, <1>11 DEF Booked

\* A position that ends, without an entry on the candle of its stop or target.
LEMMA RowsClosed ==
  ASSUME NEW d \in Database, NEW e \in Database, NEW candles \in Candles,
         NEW pos \in d.positions, pos.open, NEW trade \in Trade, Closes(d, e, pos, trade),
         RowsInv(d, candles),
         trade.reason # "opposite_signal" =>
           /\ trade.closed <= candles[pos.symbol]
           /\ \A p \in d.positions :
                p.model = pos.model /\ p.symbol = pos.symbol => p.at # trade.closed
  PROVE  RowsInv(e, candles)
<1> DEFINE n == Len(d.trades) + 1
<1>1. pos \in Position
  BY DEF Database
<1>2. Booked(e)
  BY BookedClosed DEF RowsInv
<1>3. \A p \in e.positions : p \in d.positions \ {pos} \/ p = Ended(pos)
  BY DEF Closes
<1>4. /\ e.trades[n] = trade
      /\ \A i \in DOMAIN d.trades : e.trades[i] = d.trades[i]
      /\ \A i \in DOMAIN e.trades : i \in DOMAIN d.trades \/ i = n
  BY TradesAfter DEF Closes
<1> HIDE DEF n
<1>5. /\ ~ Ended(pos).open /\ Ended(pos).model = pos.model
      /\ Ended(pos).symbol = pos.symbol /\ Ended(pos).at = pos.at
  BY <1>1, EndedIs
<1>6. trade.model = pos.model /\ trade.symbol = pos.symbol
  BY DEF Closes, Key
<1>7. Means(e)
  <2> SUFFICES ASSUME NEW m \in Models
               PROVE  /\ Notional(Held(e, m)) <= max_total_exposure_usd
                      /\ \A p, q \in Held(e, m) : p.symbol = q.symbol => p = q
                      /\ \A p \in Held(e, m) : p.notional >= min_order_notional_usd
    BY DEF Means, Held
  <2>1. Held(e, m) \subseteq Held(d, m)
    BY <1>3, <1>5 DEF Held
  <2>2. /\ Notional(Held(d, m)) <= max_total_exposure_usd
        /\ \A p, q \in Held(d, m) : p.symbol = q.symbol => p = q
        /\ \A p \in Held(d, m) : p.notional >= min_order_notional_usd
    BY DEF RowsInv, Means, Held
  <2>3. /\ Notional(Held(e, m)) <= Notional(Held(d, m))
        /\ Notional(Held(e, m)) \in Nat /\ Notional(Held(d, m)) \in Nat
    BY <2>1, HeldSizes, NotionalOfFewer DEF RowsInv
  <2>4. Notional(Held(e, m)) <= max_total_exposure_usd
    BY <2>2, <2>3, ShadowAssumption
  <2> QED
    BY <2>1, <2>2, <2>4
<1>8. EntriesApart(e)
  <2> SUFFICES ASSUME NEW i \in DOMAIN e.trades, NEW p \in e.positions,
                      e.trades[i].reason # "opposite_signal",
                      p.model = e.trades[i].model, p.symbol = e.trades[i].symbol
               PROVE  p.at # e.trades[i].closed
    BY DEF EntriesApart
  <2>1. PICK q \in d.positions : q.model = p.model /\ q.symbol = p.symbol /\ q.at = p.at
    BY <1>3, <1>5
  <2>2. CASE i \in DOMAIN d.trades
    BY <1>4, <2>1, <2>2 DEF RowsInv, EntriesApart
  <2>3. CASE i = n
    BY <1>4, <1>6, <2>1, <2>3
  <2> QED
    BY <1>4, <2>2, <2>3
<1>9. Past(e, candles)
  BY <1>3, <1>4, <1>5, <1>6 DEF RowsInv, Past
<1> QED
  BY <1>2, <1>7, <1>8, <1>9 DEF RowsInv

\* An approved opportunity and the position it opens
Opens(d, e, p, opportunity) ==
  /\ e.opportunities = Append(d.opportunities, opportunity)
  /\ e.positions = d.positions \union {p}
  /\ e.trades = d.trades
  /\ KeyOf(opportunity) = Key(p)
  /\ \A i \in DOMAIN d.opportunities : KeyOf(d.opportunities[i]) # KeyOf(opportunity)

\* Opening one keeps them booked, and it is a new one.
LEMMA BookedOpened ==
  ASSUME NEW d \in Database, NEW e \in Database, NEW p \in Position, p.open,
         NEW opportunity \in Opportunity, Opens(d, e, p, opportunity), Booked(d)
  PROVE  Booked(e) /\ p \notin d.positions
<1> DEFINE n == Len(d.opportunities) + 1
<1>1. IsFiniteSet(e.positions)
  BY FS_AddElement DEF Booked, Opens
<1>2. d.opportunities \in Seq(Opportunity)
  BY DEF Database
<1>3. /\ n \in DOMAIN e.opportunities /\ e.opportunities[n] = opportunity
      /\ \A i \in DOMAIN d.opportunities :
           i \in DOMAIN e.opportunities /\ e.opportunities[i] = d.opportunities[i]
  BY <1>2 DEF Opens
<1> HIDE DEF n
<1>4. \A q \in d.positions : Key(q) # Key(p)
  BY DEF Booked, Opens
<1>5. \A q \in e.positions : q \in d.positions \/ q = p
  BY DEF Opens
<1>6. \A q, r \in e.positions : Key(q) = Key(r) => q = r
  BY <1>4, <1>5 DEF Booked
<1>7. \A q \in e.positions : \E i \in DOMAIN e.opportunities : KeyOf(e.opportunities[i]) = Key(q)
  <2> SUFFICES ASSUME NEW q \in e.positions
               PROVE  \E i \in DOMAIN e.opportunities : KeyOf(e.opportunities[i]) = Key(q)
    OBVIOUS
  <2>1. CASE q \in d.positions
    <3>1. PICK i \in DOMAIN d.opportunities : KeyOf(d.opportunities[i]) = Key(q)
      BY <2>1 DEF Booked
    <3> QED
      BY <1>3, <3>1
  <2>2. CASE q = p
    BY <1>3, <2>2 DEF Opens
  <2> QED
    BY <1>5, <2>1, <2>2
<1>8. \A i \in DOMAIN e.trades : \E q \in e.positions : ~ q.open /\ Key(q) = Key(e.trades[i])
  BY DEF Booked, Opens
<1>9. \A q \in e.positions : ~ q.open => \E i \in DOMAIN e.trades : Key(e.trades[i]) = Key(q)
  BY <1>5 DEF Booked, Opens
<1>10. \A i, j \in DOMAIN e.trades : Key(e.trades[i]) = Key(e.trades[j]) => i = j
  BY DEF Booked, Opens
<1> QED
  BY <1>1, <1>4, <1>6, <1>7, <1>8, <1>9, <1>10 DEF Booked

\* A position that opens within the means, and not on the candle of a stop or target.
LEMMA RowsOpened ==
  ASSUME NEW d \in Database, NEW e \in Database, NEW candles \in Candles,
         NEW p \in Position, p.open, NEW opportunity \in Opportunity, Opens(d, e, p, opportunity),
         RowsInv(d, candles),
         \A q \in Held(d, p.model) : q.symbol # p.symbol,
         p.notional >= min_order_notional_usd,
         p.notional + Notional(Held(d, p.model)) <= max_total_exposure_usd,
         p.at <= candles[p.symbol],
         \A i \in DOMAIN d.trades :
           /\ d.trades[i].reason # "opposite_signal"
           /\ d.trades[i].model = p.model /\ d.trades[i].symbol = p.symbol
           => p.at # d.trades[i].closed
  PROVE  RowsInv(e, candles)
<1>1. Booked(e) /\ p \notin d.positions
  BY BookedOpened DEF RowsInv
<1>2. \A q \in e.positions : q \in d.positions \/ q = p
  BY DEF Opens
<1>3. Means(e)
  <2> SUFFICES ASSUME NEW m \in Models
               PROVE  /\ Notional(Held(e, m)) <= max_total_exposure_usd
                      /\ \A q, r \in Held(e, m) : q.symbol = r.symbol => q = r
                      /\ \A q \in Held(e, m) : q.notional >= min_order_notional_usd
    BY DEF Means, Held
  <2>1. /\ Notional(Held(d, m)) <= max_total_exposure_usd
        /\ \A q, r \in Held(d, m) : q.symbol = r.symbol => q = r
        /\ \A q \in Held(d, m) : q.notional >= min_order_notional_usd
    BY DEF RowsInv, Means, Held
  <2>2. CASE m = p.model
    <3>1. Held(e, m) = Held(d, m) \union {p} /\ p \notin Held(d, m)
      BY <1>1, <2>2 DEF Held, Opens
    <3>2. Notional(Held(e, m)) = p.notional + Notional(Held(d, m))
      <4>1. p.notional \in Nat
        BY DEF Position
      <4>2. IsFiniteSet(Held(d, m)) /\ Sizes(Held(d, m))
        BY HeldSizes DEF RowsInv
      <4> QED
        BY <3>1, <4>1, <4>2, NotionalOfMore
    <3> QED
      BY <2>1, <2>2, <3>1, <3>2
  <2>3. CASE m # p.model
    <3>1. Held(e, m) = Held(d, m)
      BY <2>3 DEF Held, Opens
    <3> QED
      BY <2>1, <3>1
  <2> QED
    BY <2>2, <2>3
<1>4. EntriesApart(e)
  BY <1>2 DEF RowsInv, EntriesApart, Opens
<1>5. Past(e, candles)
  BY <1>2 DEF RowsInv, Past, Opens
<1> QED
  BY <1>1, <1>3, <1>4, <1>5 DEF RowsInv

-----------------------------------------------------------------------------
(* What the steps of the engine make of a world *)

\* The rows but the experiments, and the exits, are as they were.
SameButExperiments(v, w) ==
  /\ v.db.opportunities = w.db.opportunities
  /\ v.db.positions = w.db.positions
  /\ v.db.trades = w.db.trades
  /\ v.mem.exit = w.mem.exit

\* What a world consists of
LEMMA WorldIs ==
  ASSUME NEW w \in World
  PROVE  /\ w.db \in Database /\ w.mem \in Memory
         /\ w.db.experiments \in Seq(Experiment) /\ w.db.opportunities \in Seq(Opportunity)
         /\ w.db.positions \in SUBSET Position /\ w.db.trades \in Seq(Trade)
         /\ Len(w.db.trades) \in Nat
         /\ w.mem.experiment \in [Models -> Nat] /\ w.mem.exit \in [Models -> [Symbols -> Nat]]
  BY DEF World, Database, Memory

\* Memory of which one value is replaced
KeepsExits(a, b) == a \in Memory /\ a.exit = b.exit
KeepsBoth(a, b) == KeepsExits(a, b) /\ a.experiment = b.experiment

\* Which parts of a memory an assignment leaves alone
LEMMA MemoryWith ==
  ASSUME NEW memory \in Memory, NEW m \in Models
  PROVE  /\ \A k \in Nat : KeepsExits([memory EXCEPT !.experiment[m] = k], memory)
         /\ \A k \in Nat : KeepsBoth([memory EXCEPT !.losses[m] = k], memory)
         /\ \A k \in Nat : KeepsBoth([memory EXCEPT !.until[m] = k], memory)
         /\ \A day : KeepsBoth([memory EXCEPT !.daily[m][day] = @ + 1], memory)
<1>1. ASSUME NEW k \in Nat
      PROVE  KeepsExits([memory EXCEPT !.experiment[m] = k], memory)
  <2>1. [memory.experiment EXCEPT ![m] = k] \in [Models -> Nat]
    BY DEF Memory
  <2> QED
    BY <2>1 DEF Memory, KeepsExits
<1>2. ASSUME NEW k \in Nat
      PROVE  KeepsBoth([memory EXCEPT !.losses[m] = k], memory)
  <2>1. [memory.losses EXCEPT ![m] = k] \in [Models -> Nat]
    BY DEF Memory
  <2> QED
    BY <2>1 DEF Memory, KeepsExits, KeepsBoth
<1>3. ASSUME NEW k \in Nat
      PROVE  KeepsBoth([memory EXCEPT !.until[m] = k], memory)
  <2>1. [memory.until EXCEPT ![m] = k] \in [Models -> Nat]
    BY DEF Memory
  <2> QED
    BY <2>1 DEF Memory, KeepsExits, KeepsBoth
<1>4. ASSUME NEW day
      PROVE  KeepsBoth([memory EXCEPT !.daily[m][day] = @ + 1], memory)
  <2> DEFINE f == memory.daily[m]
             g == [f EXCEPT ![day] = f[day] + 1]
  <2>1. f \in [Days -> Nat]
    BY DEF Memory
  <2>2. g \in [Days -> Nat]
    <3> HIDE DEF f
    <3>1. \A y \in Days : g[y] = (IF y = day THEN f[day] + 1 ELSE f[y]) /\ f[y] \in Nat
      BY <2>1
    <3>2. \A y \in Days : g[y] \in Nat
      BY <3>1
    <3>3. g = [y \in Days |-> g[y]]
      BY <2>1
    <3> HIDE DEF g
    <3> QED
      BY <3>2, <3>3
  <2> HIDE DEF g
  <2>3. [memory.daily EXCEPT ![m] = g] \in [Models -> [Days -> Nat]]
    BY <2>2 DEF Memory
  <2>4. KeepsBoth([memory EXCEPT !.daily[m] = g], memory)
    BY <2>3 DEF Memory, KeepsExits, KeepsBoth
  <2>5. [memory EXCEPT !.daily[m][day] = @ + 1] = [memory EXCEPT !.daily[m] = g]
    BY DEF g
  <2> QED
    BY <2>4, <2>5
<1> QED
  BY <1>1, <1>2, <1>3, <1>4

\* experiment_id decides on the experiments alone.
LEMMA ExperimentType ==
  ASSUME config \in Configs, NEW w \in World, NEW m \in Models
  PROVE  experiment_id(w, m) \in World /\ SameButExperiments(experiment_id(w, m), w)
<1> DEFINE rows == w.db.experiments
           active == {i \in DOMAIN rows : rows[i].model = m /\ rows[i].active}
           same == {i \in active : rows[i].config = config}
           ended == [i \in DOMAIN rows |->
                       IF i \in active THEN [rows[i] EXCEPT !.active = FALSE] ELSE rows[i]]
           new == [model |-> m, config |-> config, active |-> TRUE]
<1>1. rows \in Seq(Experiment) /\ Len(rows) \in Nat /\ DOMAIN rows = 1 .. Len(rows)
  BY WorldIs
<1>2. CASE w.mem.experiment[m] # 0
  BY <1>2 DEF experiment_id, SameButExperiments
<1>3. CASE w.mem.experiment[m] = 0 /\ same # {}
  <2> DEFINE id == CHOOSE i \in same : TRUE
             memory == [w.mem EXCEPT !.experiment[m] = id]
  <2>1. id \in Nat
    BY <1>1, <1>3
  <2>2. experiment_id(w, m) = [w EXCEPT !.mem.experiment[m] = id]
    BY <1>3 DEF experiment_id
  <2> HIDE DEF id, same
  <2>3. memory \in Memory /\ memory.exit = w.mem.exit
    BY <2>1, MemoryWith, WorldIs DEF KeepsExits
  <2>4. experiment_id(w, m) = [w EXCEPT !.mem = memory]
    BY <2>2
  <2> HIDE DEF memory
  <2> QED
    BY <2>3, <2>4 DEF World, SameButExperiments
<1>4. CASE w.mem.experiment[m] = 0 /\ same = {}
  <2>1. experiment_id(w, m) =
          [db |-> [w.db EXCEPT !.experiments = Append(ended, new)],
           mem |-> [w.mem EXCEPT !.experiment[m] = Len(rows) + 1]]
    BY <1>4 DEF experiment_id
  <2>2. new \in Experiment
    BY DEF Experiment
  <2>3. ended \in Seq(Experiment)
    <3>1. ASSUME NEW i \in DOMAIN rows
          PROVE  ended[i] \in Experiment
      <4>1. rows[i] \in Experiment
        BY <1>1
      <4>2. [rows[i] EXCEPT !.active = FALSE] \in Experiment
        BY <4>1 DEF Experiment
      <4> QED
        BY <4>1, <4>2
    <3>2. ended \in [1 .. Len(rows) -> Experiment]
      BY <1>1, <3>1
    <3> QED
      BY <1>1, <3>2
  <2>4. Append(ended, new) \in Seq(Experiment)
    BY <2>2, <2>3
  <2> HIDE DEF ended, new, rows
  <2> DEFINE d == [w.db EXCEPT !.experiments = Append(ended, new)]
             memory == [w.mem EXCEPT !.experiment[m] = Len(rows) + 1]
  <2>5. /\ d \in Database /\ d.opportunities = w.db.opportunities
        /\ d.positions = w.db.positions /\ d.trades = w.db.trades
    BY <2>4, WorldIs DEF Database
  <2>6. memory \in Memory /\ memory.exit = w.mem.exit
    <3>1. Len(rows) + 1 \in Nat
      BY <1>1
    <3>2. KeepsExits([w.mem EXCEPT !.experiment[m] = Len(rows) + 1], w.mem)
      BY <3>1, MemoryWith, WorldIs
    <3> QED
      BY <3>2 DEF KeepsExits
  <2>7. experiment_id(w, m) = [db |-> d, mem |-> memory]
    BY <2>1 DEF d, memory
  <2> HIDE DEF d, memory
  <2> QED
    BY <2>5, <2>6, <2>7 DEF World, SameButExperiments
<1> QED
  BY <1>2, <1>3, <1>4

\* The memory of a closed trade, but for the exits, is of its type.
LEMMA CloseInMemoryType ==
  ASSUME NEW w \in World, NEW m \in Models, NEW pos, NEW lost \in BOOLEAN, NEW time \in Nat
  PROVE  /\ close_in_memory(w, m, pos, lost, time) \in Memory
         /\ close_in_memory(w, m, pos, lost, time).exit = w.mem.exit
         /\ close_in_memory(w, m, pos, lost, time).experiment = w.mem.experiment
<1> DEFINE mem0 == w.mem
           streak == mem0.losses[m] + 1
           day == DayOf(time)
           mem1 == [mem0 EXCEPT !.daily[m][day] = @ + 1]
<1>1. mem0 \in Memory /\ streak \in Nat /\ time + cooldown_minutes \in Nat
  BY ShadowAssumption DEF World, Memory
<1>2. CASE ~ lost
  <2>1. close_in_memory(w, m, pos, lost, time) = [mem0 EXCEPT !.losses[m] = 0]
    BY <1>2 DEF close_in_memory
  <2> HIDE DEF mem0
  <2>2. /\ [mem0 EXCEPT !.losses[m] = 0] \in Memory
        /\ [mem0 EXCEPT !.losses[m] = 0].exit = mem0.exit
        /\ [mem0 EXCEPT !.losses[m] = 0].experiment = mem0.experiment
    BY <1>1, MemoryWith DEF KeepsBoth, KeepsExits
  <2> QED
    BY <2>1, <2>2 DEF mem0
<1>3. CASE lost
  <2>1. PICK l \in Nat, u \in Nat :
          /\ l = IF streak >= cooldown_after_losses THEN 0 ELSE streak
          /\ u = IF streak >= cooldown_after_losses THEN time + cooldown_minutes ELSE mem0.until[m]
    BY <1>1 DEF Memory
  <2> DEFINE mem2 == [mem1 EXCEPT !.losses[m] = l]
             mem3 == [mem2 EXCEPT !.until[m] = u]
  <2>2. close_in_memory(w, m, pos, lost, time) =
          [mem0 EXCEPT !.daily[m][day] = @ + 1, !.losses[m] = l, !.until[m] = u]
    BY <1>3, <2>1 DEF close_in_memory
  <2> HIDE DEF mem0, day, streak
  <2>3. mem1 \in Memory /\ mem1.exit = mem0.exit /\ mem1.experiment = mem0.experiment
    BY <1>1, MemoryWith DEF KeepsBoth, KeepsExits
  <2>4. [mem0 EXCEPT !.daily[m][day] = @ + 1, !.losses[m] = l, !.until[m] = u] = mem3
    BY <1>1 DEF Memory
  <2> HIDE DEF mem1
  <2>5. mem2 \in Memory /\ mem2.exit = mem1.exit /\ mem2.experiment = mem1.experiment
    BY <2>3, MemoryWith DEF KeepsBoth, KeepsExits
  <2> HIDE DEF mem2
  <2>6. mem3 \in Memory /\ mem3.exit = mem2.exit /\ mem3.experiment = mem2.experiment
    BY <2>5, MemoryWith DEF KeepsBoth, KeepsExits
  <2> HIDE DEF mem3
  <2> QED
    BY <2>2, <2>3, <2>4, <2>5, <2>6 DEF mem0
<1> QED
  BY <1>2, <1>3

\* register_close finds no trade of an open position, so it writes one.
LEMMA CloseDoes ==
  ASSUME NEW w \in World, NEW m \in Models, NEW pos \in w.db.positions, pos.open, pos.model = m,
         Booked(w.db), NEW lost \in BOOLEAN, NEW time \in Nat,
         NEW reason \in {"stop", "target", "opposite_signal"}, NEW after,
         after = register_close(w, m, pos, lost, reason, time)
  PROVE  /\ after \in World
         /\ after.db.experiments = w.db.experiments
         /\ after.mem.experiment = w.mem.experiment /\ after.mem.exit = w.mem.exit
         /\ after.mem = close_in_memory(w, m, pos, lost, time)
         /\ \E trade \in Trade :
              /\ trade.reason = reason /\ trade.closed = time /\ trade.lost = lost
              /\ Closes(w.db, after.db, pos, trade)
<1> DEFINE trade == [experiment |-> pos.experiment, model |-> m, symbol |-> pos.symbol,
                     opened |-> pos.opened, closed |-> time, lost |-> lost, reason |-> reason]
           positions == (w.db.positions \ {pos}) \union {[pos EXCEPT !.open = FALSE]}
           trades == Append(w.db.trades, trade)
           memory == close_in_memory(w, m, pos, lost, time)
<1>1. pos \in Position /\ w.db \in Database
  BY WorldIs
<1>2. trade \in Trade
  BY <1>1 DEF Position, Trade
<1>3. ~ \E i \in DOMAIN w.db.trades :
          /\ w.db.trades[i].experiment = trade.experiment
          /\ w.db.trades[i].symbol = trade.symbol
          /\ w.db.trades[i].opened = trade.opened /\ w.db.trades[i].closed = time
  BY OpenHasNoTrade DEF Key
<1>4. after = [db |-> [w.db EXCEPT !.trades = trades, !.positions = positions], mem |-> memory]
  BY <1>3 DEF register_close
<1>5. positions \in SUBSET Position
  BY <1>1, EndedIs DEF Ended, Database
<1>6. trades \in Seq(Trade)
  BY <1>1, <1>2 DEF Database
<1>7. /\ memory \in Memory /\ memory.exit = w.mem.exit /\ memory.experiment = w.mem.experiment
  BY CloseInMemoryType
<1>8. /\ positions = (w.db.positions \ {pos}) \union {Ended(pos)}
      /\ trades = Append(w.db.trades, trade)
  BY DEF Ended
<1>9. /\ trade.model = pos.model /\ Key(trade) = Key(pos)
      /\ trade.reason = reason /\ trade.closed = time /\ trade.lost = lost
  BY DEF Key
<1> HIDE DEF trade, positions, trades
<1>14. memory = close_in_memory(w, m, pos, lost, time)
  OBVIOUS
<1> HIDE DEF memory
<1>10. /\ after.db = [w.db EXCEPT !.trades = trades, !.positions = positions]
       /\ after.mem = memory
       /\ after = [db |-> after.db, mem |-> after.mem]
  BY <1>4
<1>11. /\ after.db \in Database
       /\ after.db.trades = trades /\ after.db.positions = positions
       /\ after.db.experiments = w.db.experiments
       /\ after.db.opportunities = w.db.opportunities
  BY <1>1, <1>5, <1>6, <1>10 DEF Database
<1>12. after \in World
  BY <1>7, <1>10, <1>11 DEF World
<1>13. Closes(w.db, after.db, pos, trade)
  BY <1>8, <1>9, <1>11 DEF Closes
<1> QED
  BY <1>2, <1>7, <1>9, <1>10, <1>11, <1>12, <1>13, <1>14

\* An opportunity more is written under the experiment in use.
Recorded(w, v, m, s, signal) ==
  /\ v \in World /\ v.mem = w.mem
  /\ v.db.experiments = w.db.experiments
  /\ v.db.positions = w.db.positions /\ v.db.trades = w.db.trades
  /\ \E row \in Opportunity :
       /\ v.db.opportunities = Append(w.db.opportunities, row)
       /\ row.experiment = w.mem.experiment[m] /\ row.model = m /\ row.config = config
       /\ row.symbol = s /\ row.source = signal.source

\* What recording an opportunity does
LEMMA OpportunityDoes ==
  ASSUME config \in Configs, NEW w \in World, NEW m \in Models, NEW s \in Symbols,
         NEW signal, signal.source \in Nat, NEW time \in Nat, NEW approved \in BOOLEAN,
         NEW told, told = WithOpportunity(w, m, s, signal, time, approved)
  PROVE  Recorded(w, told, m, s, signal)
<1> DEFINE row == [experiment |-> w.mem.experiment[m], model |-> m, symbol |-> s,
                   source |-> signal.source, approved |-> approved, config |-> config, at |-> time]
<1>1. row \in Opportunity
  BY WorldIs DEF Opportunity
<1>2. told = [w EXCEPT !.db.opportunities = Append(w.db.opportunities, row)]
  BY DEF WithOpportunity
<1>3. Append(w.db.opportunities, row) \in Seq(Opportunity)
  BY <1>1, WorldIs
<1>4. /\ row.experiment = w.mem.experiment[m] /\ row.model = m /\ row.config = config
      /\ row.symbol = s /\ row.source = signal.source
  OBVIOUS
<1> HIDE DEF row
<1>5. /\ told \in World /\ told.mem = w.mem
      /\ told.db.experiments = w.db.experiments
      /\ told.db.positions = w.db.positions /\ told.db.trades = w.db.trades
      /\ told.db.opportunities = Append(w.db.opportunities, row)
  <2> DEFINE d == [w.db EXCEPT !.opportunities = Append(w.db.opportunities, row)]
  <2>1. /\ d \in Database /\ d.experiments = w.db.experiments
        /\ d.positions = w.db.positions /\ d.trades = w.db.trades
        /\ d.opportunities = Append(w.db.opportunities, row)
    BY <1>3, WorldIs DEF Database
  <2>2. told = [w EXCEPT !.db = d]
    BY <1>2
  <2> HIDE DEF d
  <2>3. told \in World /\ told.mem = w.mem /\ told.db = d
    BY <2>1, <2>2 DEF World
  <2> QED
    BY <2>1, <2>3
<1> QED
  BY <1>1, <1>4, <1>5 DEF Recorded

-----------------------------------------------------------------------------
(* Experiments keep apart *)

\* The active experiments of a model
Active(w, m) ==
  {k \in DOMAIN w.db.experiments :
     w.db.experiments[k].model = m /\ w.db.experiments[k].active}

\* The experiment in use is there.
Uses(w, m) ==
  /\ w.mem.experiment[m] \in Active(w, m)
  /\ w.db.experiments[w.mem.experiment[m]].config = config

\* The parts of Apart
RowsFit(w) ==
  \A i \in DOMAIN w.db.opportunities :
    /\ w.db.opportunities[i].experiment \in DOMAIN w.db.experiments
    /\ w.db.experiments[w.db.opportunities[i].experiment].model = w.db.opportunities[i].model
    /\ w.db.experiments[w.db.opportunities[i].experiment].config = w.db.opportunities[i].config
RowsInOrder(w) ==
  \A i, j \in DOMAIN w.db.opportunities :
    i < j /\ w.db.opportunities[i].model = w.db.opportunities[j].model
    => w.db.opportunities[i].experiment <= w.db.opportunities[j].experiment
NoneLater(w) ==
  \A i \in DOMAIN w.db.opportunities :
    \A k \in Active(w, w.db.opportunities[i].model) : w.db.opportunities[i].experiment <= k
OneInUse(w) ==
  \A m \in Models :
    /\ \A j, k \in Active(w, m) : j = k
    /\ w.mem.experiment[m] # 0 => Uses(w, m)

Continued(w) ==
  \A j, k \in DOMAIN w.db.experiments :
    NextOf(w.db.experiments, j, k) => w.db.experiments[j].config # w.db.experiments[k].config
LatestActive(w) ==
  \A j \in DOMAIN w.db.experiments :
    \/ w.db.experiments[j].active
    \/ \E k \in DOMAIN w.db.experiments :
         k > j /\ w.db.experiments[k].model = w.db.experiments[j].model

\* Apart in its parts
LEMMA ApartIs ==
  ASSUME NEW w
  PROVE  Apart(w) <=> /\ RowsFit(w) /\ RowsInOrder(w) /\ NoneLater(w) /\ OneInUse(w)
                      /\ Continued(w) /\ LatestActive(w)
  BY DEF Apart, Active, Uses, RowsFit, RowsInOrder, NoneLater, OneInUse, Continued, LatestActive

\* Whether experiments are apart can be read off experiments, opportunities and memory.
LEMMA ApartSame ==
  ASSUME NEW v \in World, NEW w \in World, Apart(w),
         v.db.experiments = w.db.experiments, v.db.opportunities = w.db.opportunities,
         v.mem.experiment = w.mem.experiment
  PROVE  Apart(v)
<1>1. \A m \in Models : Active(v, m) = Active(w, m)
  BY DEF Active
<1>2. /\ RowsFit(w) /\ RowsInOrder(w) /\ NoneLater(w) /\ OneInUse(w)
      /\ Continued(w) /\ LatestActive(w)
  BY ApartIs
<1>3. RowsFit(v)
  BY <1>2 DEF RowsFit
<1>4. RowsInOrder(v)
  BY <1>2 DEF RowsInOrder
<1>5. NoneLater(v)
  BY <1>2 DEF NoneLater, Active
<1>6. OneInUse(v)
  BY <1>1, <1>2 DEF OneInUse, Uses
<1>7. Continued(v)
  BY <1>2 DEF Continued
<1>8. LatestActive(v)
  BY <1>2 DEF LatestActive
<1> QED
  BY <1>3, <1>4, <1>5, <1>6, <1>7, <1>8, ApartIs

\* Of two worlds: what was active in the second one of the experiments of the first was so
\* already, for the same model and configuration.
Before(w, v) ==
  \A i \in DOMAIN w.db.experiments :
    /\ i \in DOMAIN v.db.experiments
    /\ v.db.experiments[i].model = w.db.experiments[i].model
    /\ v.db.experiments[i].config = w.db.experiments[i].config
    /\ v.db.experiments[i].active => w.db.experiments[i].active

\* This goes on from world to world.
LEMMA BeforeAll ==
  ASSUME NEW u, NEW w, NEW v, Before(u, w), Before(w, v)
  PROVE  Before(u, v)
  BY DEF Before

\* Experiments and rows of one world with the memory of a later one are apart, if the
\* experiments of that memory are there.
LEMMA ApartWithMemory ==
  ASSUME NEW w, NEW v, NEW u, Apart(w), Apart(v), Before(w, v),
         u.db.experiments = w.db.experiments, u.db.opportunities = w.db.opportunities,
         u.mem.experiment = v.mem.experiment,
         \A m \in Models : u.mem.experiment[m] \in {0} \union DOMAIN u.db.experiments
  PROVE  Apart(u)
<1>1. RowsFit(u) /\ RowsInOrder(u) /\ Continued(u) /\ LatestActive(u)
  BY SMTT(30), ApartIs DEF RowsFit, RowsInOrder, Continued, LatestActive
<1>2. \A m : Active(u, m) = Active(w, m)
  BY DEF Active
<1>3. NoneLater(u)
  BY <1>2, ApartIs DEF NoneLater
<1>4. OneInUse(u)
  <2> SUFFICES ASSUME NEW m \in Models
               PROVE  /\ \A j, k \in Active(u, m) : j = k
                      /\ u.mem.experiment[m] # 0 => Uses(u, m)
    BY DEF OneInUse
  <2>1. \A j, k \in Active(u, m) : j = k
    BY <1>2, ApartIs DEF OneInUse
  <2>2. ASSUME u.mem.experiment[m] # 0
        PROVE  Uses(u, m)
    <3> DEFINE id == v.mem.experiment[m]
    <3>1. id # 0 /\ id \in DOMAIN w.db.experiments /\ u.mem.experiment[m] = id
      BY <2>2
    <3>2. Uses(v, m)
      BY <3>1, ApartIs DEF OneInUse
    <3>3. /\ v.db.experiments[id].model = m /\ v.db.experiments[id].active
          /\ v.db.experiments[id].config = config
      BY <3>2 DEF Uses, Active
    <3> HIDE DEF id
    <3>4. /\ w.db.experiments[id].model = m /\ w.db.experiments[id].active
          /\ w.db.experiments[id].config = config
      BY <3>1, <3>3 DEF Before
    <3> QED
      BY <3>1, <3>4 DEF Uses, Active
  <2> QED
    BY <2>1, <2>2
<1> QED
  BY <1>1, <1>3, <1>4, ApartIs

\* experiment_id ends the active experiment before it begins another one, so the one in
\* use is the only one active, and no row has a later one.
LEMMA ExperimentApart ==
  ASSUME config \in Configs, NEW w \in World, NEW m \in Models, Apart(w),
         NEW v, v = experiment_id(w, m)
  PROVE  Apart(v) /\ Uses(v, m) /\ Before(w, v)
<1> DEFINE rows == w.db.experiments
           active == {i \in DOMAIN rows : rows[i].model = m /\ rows[i].active}
           same == {i \in active : rows[i].config = config}
           ended == [i \in DOMAIN rows |->
                       IF i \in active THEN [rows[i] EXCEPT !.active = FALSE] ELSE rows[i]]
           new == [model |-> m, config |-> config, active |-> TRUE]
           told == w.db.opportunities
           n == Len(rows)
<1>1. rows \in Seq(Experiment) /\ n \in Nat /\ DOMAIN rows = 1 .. n
  BY WorldIs
<1>2. v \in World /\ SameButExperiments(v, w)
  BY ExperimentType
<1>3. active = Active(w, m)
  BY DEF Active
<1>4. CASE w.mem.experiment[m] # 0
  <2>1. v = w
    BY <1>4 DEF experiment_id
  <2> QED
    BY <1>4, <2>1, ApartIs DEF OneInUse, Before
<1>5. CASE w.mem.experiment[m] = 0 /\ same # {}
  <2> DEFINE id == CHOOSE i \in same : TRUE
  <2>1. id \in same
    BY <1>5
  <2>2. v = [w EXCEPT !.mem.experiment[m] = id]
    BY <1>5 DEF experiment_id
  <2>3. id \in active /\ rows[id].config = config
    <3> HIDE DEF id, active
    <3> QED
      BY <2>1
  <2> HIDE DEF id, same, active
  <2>4. v.db = w.db /\ v.mem.experiment = [w.mem.experiment EXCEPT ![m] = id]
    BY <2>2 DEF World, Memory
  <2>5. /\ v.mem.experiment[m] = id
        /\ \A x \in Models : x # m => v.mem.experiment[x] = w.mem.experiment[x]
    BY <2>4, WorldIs
  <2>6. Uses(v, m)
    BY <1>3, <2>3, <2>4, <2>5 DEF Uses, Active
  <2>7. \A x \in Models : v.mem.experiment[x] # 0 => Uses(v, x)
    <3> SUFFICES ASSUME NEW x \in Models, x # m, v.mem.experiment[x] # 0
                 PROVE  Uses(v, x)
      BY <2>6
    <3>1. Uses(w, x)
      BY <2>5, ApartIs DEF RowsFit, RowsInOrder, NoneLater, OneInUse
    <3> QED
      BY <2>4, <2>5, <3>1 DEF Uses, Active
  <2>8. \A x : Active(v, x) = Active(w, x)
    BY <2>4 DEF Active
  <2>9. /\ RowsFit(w) /\ RowsInOrder(w) /\ NoneLater(w) /\ OneInUse(w)
        /\ Continued(w) /\ LatestActive(w)
    BY ApartIs
  <2>10. RowsFit(v) /\ RowsInOrder(v) /\ Continued(v) /\ LatestActive(v)
    BY SMTT(30), <2>4, <2>9 DEF RowsFit, RowsInOrder, Continued, LatestActive
  <2>11. NoneLater(v)
    BY <2>4, <2>8, <2>9 DEF NoneLater
  <2>12. OneInUse(v)
    BY <2>7, <2>8, <2>9 DEF OneInUse
  <2>13. Before(w, v)
    BY <2>4 DEF Before
  <2> QED
    BY <2>6, <2>10, <2>11, <2>12, <2>13, ApartIs
<1>6. CASE w.mem.experiment[m] = 0 /\ same = {}
  <2>1. v = [db |-> [w.db EXCEPT !.experiments = Append(ended, new)],
             mem |-> [w.mem EXCEPT !.experiment[m] = n + 1]]
    BY <1>6 DEF experiment_id
  <2>2. DOMAIN ended = 1 .. n /\ ended \in Seq(Experiment) /\ Len(ended) = n
    <3>1. ASSUME NEW i \in DOMAIN rows
          PROVE  ended[i] \in Experiment
      <4>1. rows[i] \in Experiment
        BY <1>1
      <4>2. [rows[i] EXCEPT !.active = FALSE] \in Experiment
        BY <4>1 DEF Experiment
      <4> QED
        BY <4>1, <4>2
    <3>2. ended \in [1 .. n -> Experiment]
      BY <1>1, <3>1
    <3> HIDE DEF ended, rows, n
    <3> QED
      BY <1>1, <3>2
  <2>3. \A i \in DOMAIN rows :
          /\ ended[i].model = rows[i].model /\ ended[i].config = rows[i].config
          /\ ended[i].active <=> rows[i].active /\ rows[i].model # m
    <3> SUFFICES ASSUME NEW i \in DOMAIN rows
                 PROVE  /\ ended[i].model = rows[i].model /\ ended[i].config = rows[i].config
                        /\ ended[i].active <=> rows[i].active /\ rows[i].model # m
      OBVIOUS
    <3>1. rows[i] \in Experiment
      BY <1>1
    <3> QED
      BY <3>1 DEF Experiment
  <2> HIDE DEF ended, active, same
  <2>4. v.db.experiments = Append(ended, new)
    <3>1. v.db = [w.db EXCEPT !.experiments = Append(ended, new)]
      BY <2>1
    <3> QED
      BY <3>1, WorldIs DEF Database
  <2>5. v.mem.experiment = [w.mem.experiment EXCEPT ![m] = n + 1]
    <3>1. v.mem = [w.mem EXCEPT !.experiment[m] = n + 1]
      BY <2>1
    <3> QED
      BY <3>1, WorldIs DEF Memory
  <2>6. /\ v.mem.experiment[m] = n + 1
        /\ \A x \in Models : x # m => v.mem.experiment[x] = w.mem.experiment[x]
    BY <2>5, WorldIs
  <2>7. /\ DOMAIN v.db.experiments = 1 .. n + 1
        /\ \A i \in 1 .. n :
             /\ v.db.experiments[i].model = rows[i].model
             /\ v.db.experiments[i].config = rows[i].config
             /\ v.db.experiments[i].active <=> rows[i].active /\ rows[i].model # m
        /\ v.db.experiments[n + 1] = new
    <3>1. /\ DOMAIN v.db.experiments = 1 .. n + 1
          /\ \A i \in 1 .. n : v.db.experiments[i] = ended[i]
          /\ v.db.experiments[n + 1] = new
      <4> HIDE DEF new, rows, n
      <4> QED
        BY <1>1, <2>2, <2>4
    <3> QED
      BY <1>1, <2>3, <3>1
  <2> USE <1>1
  <2> HIDE DEF n
  <2>8. Active(v, m) = {n + 1}
    <3>1. \A i \in 1 .. n : i \notin Active(v, m)
      BY <2>7 DEF Active
    <3>2. n + 1 \in Active(v, m)
      BY <1>1, <2>7 DEF Active
    <3>3. Active(v, m) \subseteq 1 .. n + 1
      BY <2>7 DEF Active
    <3> QED
      BY <3>1, <3>2, <3>3
  <2>9. \A x \in Models : x # m => Active(v, x) = Active(w, x)
    <3> SUFFICES ASSUME NEW x \in Models, x # m
                 PROVE  Active(v, x) = Active(w, x)
      OBVIOUS
    <3>1. \A i \in 1 .. n : i \in Active(v, x) <=> i \in Active(w, x)
      BY SMTT(30), <2>7 DEF Active
    <3>2. n + 1 \notin Active(v, x)
      BY <2>7 DEF Active
    <3>3. Active(v, x) \subseteq 1 .. n + 1 /\ Active(w, x) \subseteq 1 .. n
      BY <1>1, <2>7 DEF Active
    <3> QED
      BY <3>1, <3>2, <3>3
  <2>10. Uses(v, m)
    BY <2>6, <2>7, <2>8 DEF Uses
  <2>11. \A x \in Models : v.mem.experiment[x] # 0 => Uses(v, x)
    <3> SUFFICES ASSUME NEW x \in Models, x # m, v.mem.experiment[x] # 0
                 PROVE  Uses(v, x)
      BY <2>10
    <3> DEFINE id == w.mem.experiment[x]
    <3>1. Uses(w, x)
      BY <2>6, ApartIs DEF OneInUse
    <3>2. id \in 1 .. n /\ id \in Active(w, x) /\ rows[id].config = config
      BY <3>1 DEF Uses, Active
    <3>3. v.mem.experiment[x] = id
      BY <2>6
    <3> HIDE DEF id, rows
    <3> QED
      BY <2>7, <2>9, <3>2, <3>3 DEF Uses
  <2>12. \A x \in Models : \A j, k \in Active(v, x) : j = k
    BY <2>8, <2>9, ApartIs DEF RowsFit, RowsInOrder, NoneLater, OneInUse
  <2>13. v.db.opportunities = told
    BY <1>2 DEF SameButExperiments
  <2>14. \A i \in DOMAIN told :
           /\ told[i].experiment \in DOMAIN v.db.experiments
           /\ v.db.experiments[told[i].experiment].model = told[i].model
           /\ v.db.experiments[told[i].experiment].config = told[i].config
    <3> SUFFICES ASSUME NEW i \in DOMAIN told
                 PROVE  /\ told[i].experiment \in DOMAIN v.db.experiments
                        /\ v.db.experiments[told[i].experiment].model = told[i].model
                        /\ v.db.experiments[told[i].experiment].config = told[i].config
      OBVIOUS
    <3>1. /\ told[i].experiment \in 1 .. n
          /\ rows[told[i].experiment].model = told[i].model
          /\ rows[told[i].experiment].config = told[i].config
      BY <1>1, ApartIs DEF RowsFit, RowsInOrder, NoneLater, OneInUse
    <3> HIDE DEF rows, told
    <3> QED
      BY <2>7, <3>1
  <2>15. \A i \in DOMAIN told : \A k \in Active(v, told[i].model) : told[i].experiment <= k
    <3> SUFFICES ASSUME NEW i \in DOMAIN told, NEW k \in Active(v, told[i].model)
                 PROVE  told[i].experiment <= k
      OBVIOUS
    <3>1. told[i] \in Opportunity /\ told[i].experiment \in 1 .. n
      BY <1>1, WorldIs, ApartIs DEF RowsFit, RowsInOrder, NoneLater, OneInUse
    <3>2. CASE told[i].model = m
      BY <1>1, <2>8, <3>1, <3>2
    <3>3. CASE told[i].model # m
      <4>1. k \in Active(w, told[i].model)
        BY <2>9, <3>1, <3>3 DEF Opportunity
      <4> QED
        BY <4>1, ApartIs DEF RowsFit, RowsInOrder, NoneLater, OneInUse
    <3> QED
      BY <3>2, <3>3
  <2>16. \A i, j \in DOMAIN told :
           i < j /\ told[i].model = told[j].model => told[i].experiment <= told[j].experiment
    BY ApartIs DEF RowsFit, RowsInOrder, NoneLater, OneInUse
  <2>17. Before(w, v)
    BY <1>1, <2>7 DEF Before
  <2>18. LatestActive(v)
    <3> SUFFICES ASSUME NEW j \in 1 .. n + 1, ~ v.db.experiments[j].active
                 PROVE  \E k \in 1 .. n + 1 :
                          k > j /\ v.db.experiments[k].model = v.db.experiments[j].model
      BY SMTT(30), <2>7 DEF LatestActive
    <3>1. j \in 1 .. n
      BY <2>7
    <3>2. v.db.experiments[j].model = rows[j].model
      BY <2>7, <3>1
    <3>3. CASE rows[j].model = m
      <4>1. n + 1 > j /\ n + 1 \in 1 .. n + 1 /\ v.db.experiments[n + 1].model = m
        BY <1>1, <2>7, <3>1
      <4> QED
        BY <3>2, <3>3, <4>1
    <3>4. CASE rows[j].model # m
      <4>1. ~ rows[j].active
        BY <2>7, <3>1, <3>4
      <4>2. PICK k \in 1 .. n : k > j /\ rows[k].model = rows[j].model
        BY <1>1, <3>1, <4>1, ApartIs DEF LatestActive
      <4>3. v.db.experiments[k].model = rows[k].model /\ k \in 1 .. n + 1
        BY <2>7
      <4> QED
        BY <3>2, <4>2, <4>3
    <3> QED
      BY <3>3, <3>4
  <2>19. \A j \in 1 .. n :
           (\A i \in 1 .. n : j < i => rows[i].model # m) /\ rows[j].model = m
           => rows[j].config # config
    <3> SUFFICES ASSUME NEW j \in 1 .. n, \A i \in 1 .. n : j < i => rows[i].model # m,
                        rows[j].model = m
                 PROVE  rows[j].config # config
      OBVIOUS
    <3>1. rows[j].active
      BY <1>1, ApartIs DEF LatestActive
    <3>2. j \in active
      BY <1>1, <3>1 DEF active
    <3> QED
      BY <1>6, <3>2 DEF same
  <2>20. Continued(v)
    <3> SUFFICES ASSUME NEW j \in 1 .. n + 1, NEW k \in 1 .. n + 1,
                        NextOf(v.db.experiments, j, k)
                 PROVE  v.db.experiments[j].config # v.db.experiments[k].config
      BY <2>7 DEF Continued
    <3>1. j \in 1 .. n /\ j < k /\ v.db.experiments[j].model = v.db.experiments[k].model
      BY <1>1 DEF NextOf
    <3>2. ASSUME NEW i \in 1 .. n, j < i, i < k
          PROVE  rows[i].model # rows[j].model
      <4>1. i \in DOMAIN v.db.experiments
        BY <2>7
      <4>2. v.db.experiments[i].model # v.db.experiments[j].model
        BY <3>2, <4>1 DEF NextOf
      <4> QED
        BY <2>7, <3>1, <4>2
    <3>3. CASE k \in 1 .. n
      <4>1. NextOf(rows, j, k)
        BY <1>1, <2>7, <3>1, <3>2, <3>3 DEF NextOf
      <4>2. rows[j].config # rows[k].config
        BY <1>1, <3>1, <3>3, <4>1, ApartIs DEF Continued
      <4> QED
        BY <2>7, <3>1, <3>3, <4>2
    <3>4. CASE k = n + 1
      <4>1. rows[j].model = m
        BY <2>7, <3>1, <3>4
      <4>2. \A i \in 1 .. n : i < k
        BY <3>4
      <4>3. rows[j].config # config
        BY <2>19, <3>1, <3>2, <4>1, <4>2
      <4> QED
        BY <2>7, <3>1, <3>4, <4>3
    <3> QED
      BY <3>3, <3>4
  <2> HIDE DEF told
  <2>21. RowsFit(v) /\ RowsInOrder(v) /\ NoneLater(v) /\ OneInUse(v)
    BY <2>10, <2>11, <2>12, <2>13, <2>14, <2>15, <2>16
       DEF RowsFit, RowsInOrder, NoneLater, OneInUse
  <2> QED
    BY <2>10, <2>17, <2>18, <2>20, <2>21, ApartIs
<1> QED
  BY <1>4, <1>5, <1>6

\* A row of the experiment in use is the latest of its model.
LEMMA OpportunityApart ==
  ASSUME NEW w \in World, NEW v \in World, NEW m \in Models, Apart(w), Uses(w, m),
         v.mem = w.mem, v.db.experiments = w.db.experiments, NEW row \in Opportunity,
         v.db.opportunities = Append(w.db.opportunities, row),
         row.experiment = w.mem.experiment[m], row.model = m, row.config = config
  PROVE  Apart(v)
<1> DEFINE told == w.db.opportunities
           more == v.db.opportunities
           n == Len(told)
           id == w.mem.experiment[m]
<1>1. told \in Seq(Opportunity) /\ n \in Nat /\ DOMAIN told = 1 .. n
  BY WorldIs
<1>2. /\ DOMAIN more = 1 .. n + 1 /\ more[n + 1] = row
      /\ \A i \in 1 .. n : more[i] = told[i]
  <2> HIDE DEF n
  <2> QED
    BY <1>1
<1>3. \A i \in DOMAIN more : i \in 1 .. n \/ i = n + 1
  BY <1>1, <1>2
<1>4. \A x : Active(v, x) = Active(w, x)
  BY DEF Active
<1>5. id \in Active(w, m) /\ w.db.experiments[id].config = config
  BY DEF Uses
<1>6. \A k \in Active(w, m) : k = id
  BY <1>5, ApartIs DEF RowsFit, RowsInOrder, NoneLater, OneInUse
<1>7. id \in Nat
  BY WorldIs
<1> HIDE DEF n, id, told, more
<1>8. \A i \in DOMAIN more :
        /\ more[i].experiment \in DOMAIN v.db.experiments
        /\ v.db.experiments[more[i].experiment].model = more[i].model
        /\ v.db.experiments[more[i].experiment].config = more[i].config
  <2>1. \A i \in 1 .. n :
          /\ told[i].experiment \in DOMAIN w.db.experiments
          /\ w.db.experiments[told[i].experiment].model = told[i].model
          /\ w.db.experiments[told[i].experiment].config = told[i].config
    BY <1>1, ApartIs DEF told, RowsFit, RowsInOrder, NoneLater, OneInUse
  <2>2. /\ row.experiment \in DOMAIN w.db.experiments
        /\ w.db.experiments[row.experiment].model = row.model
        /\ w.db.experiments[row.experiment].config = row.config
    BY <1>5 DEF Active, id
  <2> QED
    BY <1>2, <1>3, <2>1, <2>2
<1>9. \A i \in 1 .. n : \A k \in Active(w, told[i].model) : told[i].experiment <= k
  BY <1>1, ApartIs DEF told, RowsFit, RowsInOrder, NoneLater, OneInUse
<1>10. \A i \in DOMAIN more : \A k \in Active(v, more[i].model) : more[i].experiment <= k
  <2> SUFFICES ASSUME NEW i \in DOMAIN more, NEW k \in Active(v, more[i].model)
               PROVE  more[i].experiment <= k
    OBVIOUS
  <2>1. CASE i \in 1 .. n
    BY <1>2, <1>4, <1>9, <2>1
  <2>2. CASE i = n + 1
    <3>1. k = id /\ more[i].experiment = id
      BY <1>2, <1>4, <1>6, <2>2 DEF id
    <3> QED
      BY <1>7, <3>1
  <2> QED
    BY <1>3, <2>1, <2>2
<1>11. \A i, j \in DOMAIN more :
         i < j /\ more[i].model = more[j].model => more[i].experiment <= more[j].experiment
  <2> SUFFICES ASSUME NEW i \in DOMAIN more, NEW j \in DOMAIN more, i < j,
                      more[i].model = more[j].model
               PROVE  more[i].experiment <= more[j].experiment
    OBVIOUS
  <2>1. i \in 1 .. n
    BY <1>1, <1>2
  <2>2. CASE j \in 1 .. n
    BY <1>1, <1>2, <2>1, <2>2, ApartIs DEF told, RowsFit, RowsInOrder, NoneLater, OneInUse
  <2>3. CASE j = n + 1
    <3>1. more[i] = told[i] /\ more[j] = row /\ told[i].model = m /\ row.experiment = id
      BY <1>2, <2>1, <2>3 DEF id
    <3> QED
      BY <1>5, <1>9, <2>1, <3>1
  <2> QED
    BY <1>3, <2>2, <2>3
<1>12. \A x \in Models :
         /\ \A j, k \in Active(v, x) : j = k
         /\ v.mem.experiment[x] # 0 => Uses(v, x)
  <2> SUFFICES ASSUME NEW x \in Models
               PROVE  /\ \A j, k \in Active(v, x) : j = k
                      /\ v.mem.experiment[x] # 0 => Uses(v, x)
    OBVIOUS
  <2>1. /\ \A j, k \in Active(w, x) : j = k
        /\ w.mem.experiment[x] # 0 => Uses(w, x)
    BY ApartIs DEF RowsFit, RowsInOrder, NoneLater, OneInUse
  <2> QED
    BY <1>4, <2>1 DEF Uses
<1>13. Continued(v) /\ LatestActive(v)
  BY ApartIs DEF Continued, LatestActive
<1>14. RowsFit(v) /\ RowsInOrder(v) /\ NoneLater(v) /\ OneInUse(v)
  BY <1>8, <1>10, <1>11, <1>12 DEF more, RowsFit, RowsInOrder, NoneLater, OneInUse
<1> QED
  BY <1>13, <1>14, ApartIs

-----------------------------------------------------------------------------
(* A candle and a signal, for one model *)

\* At the candle of a tick: every stop or target that ended a position of the symbol on it
\* is remembered, and until a signal is dealt with nothing is entered on it.
ExitsKnown(w, s, time) ==
  \A i \in DOMAIN w.db.trades :
    /\ w.db.trades[i].reason # "opposite_signal"
    /\ w.db.trades[i].symbol = s /\ w.db.trades[i].closed = time
    => w.mem.exit[w.db.trades[i].model][s] = time
NoneYet(w, s, time) == \A p \in w.db.positions : p.symbol = s => p.at # time

\* The stop or the target of a position: rows stay right, the exit is remembered, and
\* experiments are left alone.
LEMMA StopOrTargetKeeps ==
  ASSUME NEW w \in World, NEW m \in Models, NEW s \in Symbols, NEW candles \in Candles,
         NEW time \in Nat, candles[s] = time, RowsInv(w.db, candles),
         NoneYet(w, s, time), ExitsKnown(w, s, time),
         NEW touched \in SUBSET {"stop", "target"}, NEW lost \in BOOLEAN,
         NEW v, v = StopOrTarget(w, m, s, time, touched, lost)
  PROVE  /\ v \in World /\ RowsInv(v.db, candles)
         /\ NoneYet(v, s, time) /\ ExitsKnown(v, s, time)
         /\ v.db.experiments = w.db.experiments
         /\ v.db.opportunities = w.db.opportunities
         /\ v.mem.experiment = w.mem.experiment
         /\ Len(w.db.trades) <= Len(v.db.trades)
<1> DEFINE hit == {p \in open_position(w, m, s) : time > p.opened}
           reason == IF "stop" \in touched THEN "stop" ELSE "target"
           pos == CHOOSE p \in hit : TRUE
           after == register_close(w, m, pos, reason = "stop" \/ lost, reason, time)
<1>1. CASE hit = {} \/ touched = {}
  <2>1. v = w
    BY <1>1 DEF StopOrTarget
  <2> QED
    BY <2>1, WorldIs
<1>2. CASE ~ (hit = {} \/ touched = {})
  <2>1. v = [after EXCEPT !.mem.exit[m][s] = time]
    BY <1>2 DEF StopOrTarget
  <2>2. pos \in hit
    BY <1>2
  <2>3. pos \in w.db.positions /\ pos.model = m /\ pos.open /\ pos.symbol = s
    BY <2>2 DEF open_position, open_positions
  <2>4. reason \in {"stop", "target"} /\ (reason = "stop" \/ lost) \in BOOLEAN
    OBVIOUS
  <2> HIDE DEF hit, pos, reason
  <2>5. Booked(w.db)
    BY DEF RowsInv
  <2>6. reason \in {"stop", "target", "opposite_signal"} /\ reason # "opposite_signal"
    BY <2>4
  <2> DEFINE loses == reason = "stop" \/ lost
  <2>7. loses \in BOOLEAN /\ after = register_close(w, m, pos, loses, reason, time)
    OBVIOUS
  <2> HIDE DEF loses, after
  <2>8. /\ after \in World
        /\ after.db.experiments = w.db.experiments
        /\ after.mem.experiment = w.mem.experiment /\ after.mem.exit = w.mem.exit
    BY <2>3, <2>5, <2>6, <2>7, CloseDoes
  <2>9. PICK trade \in Trade :
          trade.reason = reason /\ trade.closed = time /\ Closes(w.db, after.db, pos, trade)
    BY <2>3, <2>5, <2>6, <2>7, CloseDoes
  <2>10. RowsInv(after.db, candles)
    <3>1. /\ trade.closed <= candles[pos.symbol]
          /\ \A p \in w.db.positions :
               p.model = pos.model /\ p.symbol = pos.symbol => p.at # trade.closed
      BY <2>3, <2>9 DEF NoneYet
    <3>2. w.db \in Database /\ after.db \in Database
      BY <2>8, WorldIs
    <3> QED
      BY <2>3, <2>9, <3>1, <3>2, RowsClosed
  <2>11. v \in World /\ v.db = after.db /\ v.mem.experiment = after.mem.experiment
         /\ v.mem.exit = [after.mem.exit EXCEPT ![m][s] = time]
    <3>1. [after.mem.exit EXCEPT ![m][s] = time] \in [Models -> [Symbols -> Nat]]
      BY <2>8, WorldIs
    <3> DEFINE memory == [after.mem EXCEPT !.exit[m][s] = time]
    <3>2. after.mem \in Memory
      BY <2>8, WorldIs
    <3>3. /\ memory \in Memory /\ memory.experiment = after.mem.experiment
          /\ memory.exit = [after.mem.exit EXCEPT ![m][s] = time]
      BY <3>1, <3>2 DEF Memory
    <3>4. v = [after EXCEPT !.mem = memory]
      BY <2>1
    <3> HIDE DEF memory
    <3>5. v \in World /\ v.db = after.db /\ v.mem = memory
      BY <2>8, <3>3, <3>4 DEF World
    <3> QED
      BY <3>3, <3>5
  <2>12. NoneYet(v, s, time)
    <3>1. \A p \in v.db.positions : p \in w.db.positions \/ p = Ended(pos)
      BY <2>9, <2>11 DEF Closes
    <3>2. pos \in Position
      BY <2>3, WorldIs
    <3>3. Ended(pos).symbol = pos.symbol /\ Ended(pos).at = pos.at
      BY <2>3, <3>2, EndedIs
    <3> QED
      BY <2>3, <3>1, <3>3 DEF NoneYet
  <2>13. ExitsKnown(v, s, time)
    <3>1. \A i \in DOMAIN v.db.trades :
            (i \in DOMAIN w.db.trades /\ v.db.trades[i] = w.db.trades[i]) \/ v.db.trades[i] = trade
      <4>1. after.db.trades = Append(w.db.trades, trade) /\ w.db \in Database
        BY <2>9, WorldIs DEF Closes
      <4> QED
        BY <2>11, <4>1, TradesAfter
    <3>2. trade.model = m
      BY <2>3, <2>9 DEF Closes
    <3>3. \A i \in DOMAIN w.db.trades : w.db.trades[i].model \in Models
      <4>1. w.db.trades \in Seq(Trade)
        BY WorldIs
      <4>2. \A i \in DOMAIN w.db.trades : w.db.trades[i] \in Trade
        BY <4>1
      <4> QED
        BY <4>2 DEF Trade
    <3>4. \A x \in Models : w.mem.exit[x][s] = time => v.mem.exit[x][s] = time
      BY <2>8, <2>11, WorldIs
    <3>5. v.mem.exit[m][s] = time
      BY <2>8, <2>11, WorldIs
    <3> QED
      BY SMTT(30), <3>1, <3>2, <3>3, <3>4, <3>5 DEF ExitsKnown
  <2>14. Len(w.db.trades) <= Len(v.db.trades)
    <3>1. after.db.trades = Append(w.db.trades, trade) /\ w.db \in Database
      BY <2>9, WorldIs DEF Closes
    <3> QED
      BY <2>11, <3>1, TradesAfter
  <2> QED
    BY <2>8, <2>9, <2>10, <2>11, <2>12, <2>13, <2>14 DEF Closes
<1> QED
  BY <1>1, <1>2

\* A signal is a choice of direction, made at the opening of a bucket.
AnySignal == [direction : Directions, marked : BOOLEAN, lost : BOOLEAN, source : Nat]

\* An opportunity more leaves everything else as it was.
LEMMA OpportunityKeeps ==
  ASSUME config \in Configs, NEW w \in World, NEW m \in Models, NEW s \in Symbols,
         NEW signal \in AnySignal, NEW time \in Nat, NEW approved \in BOOLEAN,
         NEW candles \in Candles, RowsInv(w.db, candles), ExitsKnown(w, s, time),
         NEW v, v = WithOpportunity(w, m, s, signal, time, approved)
  PROVE  /\ v \in World /\ RowsInv(v.db, candles) /\ ExitsKnown(v, s, time)
         /\ Apart(w) /\ Uses(w, m) => Apart(v)
         /\ v.db.trades = w.db.trades /\ v.db.experiments = w.db.experiments
<1>1. signal.source \in Nat
  BY DEF AnySignal
<1>0. Recorded(w, v, m, s, signal)
  BY <1>1, OpportunityDoes
<1>2. /\ v \in World /\ v.mem = w.mem /\ v.db.experiments = w.db.experiments
      /\ v.db.positions = w.db.positions /\ v.db.trades = w.db.trades
  BY <1>0 DEF Recorded
<1>3. PICK row \in Opportunity :
        /\ v.db.opportunities = Append(w.db.opportunities, row)
        /\ row.experiment = w.mem.experiment[m] /\ row.model = m /\ row.config = config
        /\ row.symbol = s /\ row.source = signal.source
  BY <1>0 DEF Recorded
<1>4. \A i \in DOMAIN w.db.opportunities :
        i \in DOMAIN v.db.opportunities /\ v.db.opportunities[i] = w.db.opportunities[i]
  <2>1. w.db.opportunities \in Seq(Opportunity)
    BY WorldIs
  <2> QED
    BY <1>3, <2>1
<1>5. RowsInv(v.db, candles)
  <2>1. v.db \in Database /\ w.db \in Database
    BY <1>2, WorldIs
  <2>2. \A i \in DOMAIN w.db.opportunities :
          \E j \in DOMAIN v.db.opportunities :
            KeyOf(v.db.opportunities[j]) = KeyOf(w.db.opportunities[i])
    BY <1>4
  <2> QED
    BY <1>2, <2>1, <2>2, RowsKept
<1>6. ExitsKnown(v, s, time)
  BY SMTT(30), <1>2 DEF ExitsKnown
<1>7. Apart(w) /\ Uses(w, m) => Apart(v)
  BY <1>2, <1>3, OpportunityApart
<1> QED
  BY <1>2, <1>5, <1>6, <1>7

\* An approved opportunity, under a key that no row has, and its position.
LEMMA ApprovedKeeps ==
  ASSUME config \in Configs, NEW w \in World, NEW m \in Models, NEW s \in Symbols,
         NEW signal \in AnySignal, NEW time \in Nat, NEW approved \in BOOLEAN,
         NEW candles \in Candles, candles[s] = time,
         RowsInv(w.db, candles), ExitsKnown(w, s, time),
         \A i \in DOMAIN w.db.opportunities :
           ~ (/\ w.db.opportunities[i].experiment = w.mem.experiment[m]
              /\ w.db.opportunities[i].symbol = s
              /\ w.db.opportunities[i].source = signal.source),
         w.mem.exit[m][s] # time, PortfolioAllows(w, m, s, signal),
         NEW told, told = WithOpportunity(w, m, s, signal, time, approved),
         NEW v, v = Opened(told, m, s, signal, time)
  PROVE  /\ v \in World /\ RowsInv(v.db, candles) /\ ExitsKnown(v, s, time)
         /\ Apart(w) /\ Uses(w, m) => Apart(v)
         /\ v.db.trades = w.db.trades /\ v.db.experiments = w.db.experiments
<1>1. signal.source \in Nat /\ signal.direction \in Directions
  BY DEF AnySignal
<1>0. Recorded(w, told, m, s, signal)
  BY <1>1, OpportunityDoes
<1>2. /\ told \in World /\ told.mem = w.mem /\ told.db.experiments = w.db.experiments
      /\ told.db.positions = w.db.positions /\ told.db.trades = w.db.trades
  BY <1>0 DEF Recorded
<1>3. PICK row \in Opportunity :
        /\ told.db.opportunities = Append(w.db.opportunities, row)
        /\ row.experiment = w.mem.experiment[m] /\ row.model = m /\ row.config = config
        /\ row.symbol = s /\ row.source = signal.source
  BY <1>0 DEF Recorded
<1> DEFINE remaining == max_total_exposure_usd - Notional(Held(w.db, m))
           size == Lesser(max_position_usd, remaining)
           p == [experiment |-> w.mem.experiment[m], model |-> m, symbol |-> s,
                 side |-> signal.direction, notional |-> size,
                 opened |-> signal.source, at |-> time, open |-> TRUE]
<1>4. /\ open_position(w, m, s) = {} /\ remaining > 0
      /\ Lesser(max_position_usd, remaining) >= min_order_notional_usd
  BY DEF PortfolioAllows, open_exposure, open_positions, Held
<1>5. Notional(Held(w.db, m)) \in Nat
  <2>1. IsFiniteSet(Held(w.db, m)) /\ Sizes(Held(w.db, m))
    BY HeldSizes, WorldIs DEF RowsInv
  <2> QED
    BY <2>1, NotionalIsUnits
<1>6. size \in Nat /\ size >= min_order_notional_usd
      /\ size + Notional(Held(w.db, m)) <= max_total_exposure_usd
  BY <1>4, <1>5, ShadowAssumption DEF Lesser
<1>7. v = [told EXCEPT !.db.positions = told.db.positions \union {p}]
  <2>1. open_exposure(told, m) = Notional(Held(w.db, m))
    BY <1>2 DEF open_exposure, open_positions, Held
  <2> QED
    BY <1>2, <2>1 DEF Opened
<1> HIDE DEF remaining, size
<1>8. p \in Position
  BY <1>1, <1>6, WorldIs DEF Position
<1>9. /\ p.open /\ p.model = m /\ p.symbol = s /\ p.notional = size /\ p.at = time
      /\ p.experiment = w.mem.experiment[m] /\ p.opened = signal.source
  OBVIOUS
<1> HIDE DEF p
<1>10. /\ v \in World /\ v.mem = w.mem /\ v.db.experiments = w.db.experiments
       /\ v.db.positions = w.db.positions \union {p} /\ v.db.trades = w.db.trades
       /\ v.db.opportunities = Append(w.db.opportunities, row)
  <2>1. told.db.positions \union {p} \in SUBSET Position
    BY <1>2, <1>8, WorldIs
  <2>2. /\ v \in World /\ v.mem = told.mem /\ v.db.experiments = told.db.experiments
        /\ v.db.positions = told.db.positions \union {p} /\ v.db.trades = told.db.trades
        /\ v.db.opportunities = told.db.opportunities
    <3> DEFINE d == [told.db EXCEPT !.positions = told.db.positions \union {p}]
    <3>1. /\ d \in Database /\ d.experiments = told.db.experiments
          /\ d.positions = told.db.positions \union {p} /\ d.trades = told.db.trades
          /\ d.opportunities = told.db.opportunities
      BY <1>2, <2>1, WorldIs DEF Database
    <3>2. v = [told EXCEPT !.db = d]
      BY <1>7
    <3> HIDE DEF d
    <3>3. v \in World /\ v.mem = told.mem /\ v.db = d
      BY <1>2, <3>1, <3>2 DEF World
    <3> QED
      BY <3>1, <3>3
  <2> QED
    BY <1>2, <1>3, <2>2
<1>11. Opens(w.db, v.db, p, row)
  <2>1. KeyOf(row) = Key(p)
    BY <1>3, <1>9 DEF Key, KeyOf
  <2>2. \A i \in DOMAIN w.db.opportunities : KeyOf(w.db.opportunities[i]) # KeyOf(row)
    BY <1>3 DEF KeyOf
  <2> QED
    BY <1>10, <2>1, <2>2 DEF Opens
<1>12. RowsInv(v.db, candles)
  <2>1. \A q \in Held(w.db, p.model) : q.symbol # p.symbol
    BY <1>4, <1>9 DEF Held, open_position, open_positions
  <2>2. p.notional >= min_order_notional_usd
        /\ p.notional + Notional(Held(w.db, p.model)) <= max_total_exposure_usd
    BY <1>6, <1>9
  <2>3. p.at <= candles[p.symbol]
    BY <1>9
  <2>4. \A i \in DOMAIN w.db.trades :
          /\ w.db.trades[i].reason # "opposite_signal"
          /\ w.db.trades[i].model = p.model /\ w.db.trades[i].symbol = p.symbol
          => p.at # w.db.trades[i].closed
    BY <1>9 DEF ExitsKnown
  <2>5. v.db \in Database /\ w.db \in Database
    BY <1>10, WorldIs
  <2> QED
    BY <1>8, <1>9, <1>11, <2>1, <2>2, <2>3, <2>4, <2>5, RowsOpened
<1>13. ExitsKnown(v, s, time)
  <2>1. v.mem.exit = w.mem.exit /\ v.db.trades = w.db.trades
    BY <1>10
  <2>2. ExitsKnown(w, s, time)
    OBVIOUS
  <2> QED
    BY ONLY <2>1, <2>2 DEF ExitsKnown
<1>14. Apart(w) /\ Uses(w, m) => Apart(v)
  <2> HIDE DEF PortfolioAllows, RowsInv, ExitsKnown
  <2> QED
    BY <1>3, <1>10, OpportunityApart
<1> QED
  BY <1>10, <1>12, <1>13, <1>14

\* A signal, for one model: rows stay right, and experiments apart.
LEMMA SignalledKeeps ==
  ASSUME config \in Configs, NEW world \in World, NEW m \in Models, NEW s \in Symbols,
         NEW signal \in AnySignal, NEW time \in Nat, NEW candles \in Candles, candles[s] = time,
         RowsInv(world.db, candles), ExitsKnown(world, s, time),
         NEW v, v = Signalled(world, m, s, signal, time)
  PROVE  /\ v \in World /\ RowsInv(v.db, candles) /\ ExitsKnown(v, s, time)
         /\ Apart(world) => Apart(v) /\ Before(world, v)
         /\ Len(world.db.trades) <= Len(v.db.trades)
<1> DEFINE w == experiment_id(world, m)
           seen == \E i \in DOMAIN w.db.opportunities :
                     /\ w.db.opportunities[i].experiment = w.mem.experiment[m]
                     /\ w.db.opportunities[i].symbol = s
                     /\ w.db.opportunities[i].source = signal.source
           opposed == {p \in open_position(w, m, s) : p.side # signal.direction}
           approved == PortfolioAllows(w, m, s, signal)
           exited == ExitedThisTick(w, m, s, time)
<1>1. w \in World /\ SameButExperiments(w, world)
  BY ExperimentType
<1>2. Apart(world) => Apart(w) /\ Uses(w, m) /\ Before(world, w)
  BY ExperimentApart
<1>14. v.db.experiments = w.db.experiments => (Apart(world) => Before(world, v))
  BY <1>2 DEF Before
<1>3. v = CASE seen -> w
            [] ~ seen /\ exited -> WithOpportunity(w, m, s, signal, time, FALSE)
            [] ~ seen /\ ~ exited /\ opposed # {} ->
                 WithOpportunity(
                   register_close(w, m, CHOOSE p \in opposed : TRUE, signal.lost,
                                  "opposite_signal", signal.source),
                   m, s, signal, time, FALSE)
            [] OTHER ->
                 IF approved
                 THEN Opened(WithOpportunity(w, m, s, signal, time, approved), m, s, signal, time)
                 ELSE WithOpportunity(w, m, s, signal, time, approved)
  BY DEF Signalled
<1>4. opposed # {} =>
        /\ (CHOOSE p \in opposed : TRUE) \in w.db.positions
        /\ (CHOOSE p \in opposed : TRUE).model = m /\ (CHOOSE p \in opposed : TRUE).open
  BY DEF open_position, open_positions
<1>5. ~ seen => \A i \in DOMAIN w.db.opportunities :
                  ~ (/\ w.db.opportunities[i].experiment = w.mem.experiment[m]
                     /\ w.db.opportunities[i].symbol = s
                     /\ w.db.opportunities[i].source = signal.source)
  OBVIOUS
<1>6. ~ exited => w.mem.exit[m][s] # time
  BY DEF ExitedThisTick
<1>7. approved \in BOOLEAN /\ (approved => PortfolioAllows(w, m, s, signal))
  BY DEF PortfolioAllows
<1> HIDE DEF w, seen, opposed, approved, exited
<1>8. /\ RowsInv(w.db, candles) /\ ExitsKnown(w, s, time)
      /\ Len(world.db.trades) = Len(w.db.trades) /\ Len(w.db.trades) \in Nat
  <2>1. w.db \in Database /\ world.db \in Database
    BY <1>1, WorldIs
  <2>2. RowsInv(w.db, candles)
    BY <1>1, <2>1, RowsKept DEF SameButExperiments
  <2>3. ExitsKnown(w, s, time)
    BY <1>1 DEF SameButExperiments, ExitsKnown
  <2>4. Len(world.db.trades) = Len(w.db.trades) /\ Len(w.db.trades) \in Nat
    BY <1>1, WorldIs DEF SameButExperiments
  <2> QED
    BY <2>2, <2>3, <2>4
<1>9. CASE seen
  <2>1. v = w
    BY <1>3, <1>9
  <2> QED
    BY <1>1, <1>2, <1>8, <1>14, <2>1
<1>10. CASE ~ seen /\ exited
  <2>1. PICK refused \in BOOLEAN : v = WithOpportunity(w, m, s, signal, time, refused)
    BY <1>3, <1>10
  <2>2. /\ v \in World /\ RowsInv(v.db, candles) /\ ExitsKnown(v, s, time)
        /\ Apart(w) /\ Uses(w, m) => Apart(v)
        /\ v.db.trades = w.db.trades /\ v.db.experiments = w.db.experiments
    BY <1>1, <1>8, <2>1, OpportunityKeeps
  <2> QED
    BY <1>2, <1>8, <1>14, <2>2
<1>11. CASE ~ seen /\ ~ exited /\ opposed # {}
  <2> DEFINE pos == CHOOSE p \in opposed : TRUE
             after == register_close(w, m, pos, signal.lost, "opposite_signal", signal.source)
  <2>1. PICK refused \in BOOLEAN : v = WithOpportunity(after, m, s, signal, time, refused)
    BY <1>3, <1>11
  <2>2. pos \in w.db.positions /\ pos.model = m /\ pos.open
    BY <1>4, <1>11
  <2> HIDE DEF pos
  <2>3. signal.lost \in BOOLEAN /\ signal.source \in Nat
        /\ "opposite_signal" \in {"stop", "target", "opposite_signal"}
    BY DEF AnySignal
  <2>4. Booked(w.db)
    BY <1>8 DEF RowsInv
  <2>5. /\ after \in World
        /\ after.db.experiments = w.db.experiments
        /\ after.mem.experiment = w.mem.experiment /\ after.mem.exit = w.mem.exit
    BY <1>1, <2>2, <2>3, <2>4, CloseDoes
  <2>6. PICK trade \in Trade :
          /\ trade.reason = "opposite_signal" /\ trade.closed = signal.source
          /\ Closes(w.db, after.db, pos, trade)
    BY SMTT(30), <1>1, <2>2, <2>3, <2>4, CloseDoes
  <2> HIDE DEF after
  <2>7. w.db \in Database /\ after.db \in Database
    BY <1>1, <2>5, WorldIs
  <2>8. RowsInv(after.db, candles)
    BY <1>8, <2>2, <2>6, <2>7, RowsClosed
  <2>9. after.db.trades = Append(w.db.trades, trade)
    BY <2>6 DEF Closes
  <2>10. ExitsKnown(after, s, time)
    <3>1. \A i \in DOMAIN after.db.trades :
            \/ i \in DOMAIN w.db.trades /\ after.db.trades[i] = w.db.trades[i]
            \/ after.db.trades[i] = trade
      BY <2>7, <2>9, TradesAfter
    <3> QED
      BY <1>8, <2>5, <2>6, <3>1 DEF ExitsKnown
  <2>11. after.db.opportunities = w.db.opportunities
    BY <2>6 DEF Closes
  <2>12. Apart(w) /\ Uses(w, m) => Apart(after) /\ Uses(after, m)
    <3>1. Apart(w) => Apart(after)
      BY <1>1, <2>5, <2>11, ApartSame
    <3>2. Uses(w, m) => Uses(after, m)
      BY <2>5 DEF Uses, Active
    <3> QED
      BY <3>1, <3>2
  <2> QED
    <3>1. Len(w.db.trades) <= Len(after.db.trades)
      BY <1>8, <2>7, <2>9, TradesAfter
    <3>2. /\ v \in World /\ RowsInv(v.db, candles) /\ ExitsKnown(v, s, time)
          /\ Apart(after) /\ Uses(after, m) => Apart(v)
          /\ v.db.trades = after.db.trades /\ v.db.experiments = after.db.experiments
      BY <2>1, <2>5, <2>8, <2>10, OpportunityKeeps
    <3> QED
      BY <1>2, <1>8, <1>14, <2>5, <2>12, <3>1, <3>2
<1>12. CASE ~ seen /\ ~ exited /\ opposed = {} /\ approved
  <2>1. v = Opened(WithOpportunity(w, m, s, signal, time, approved), m, s, signal, time)
    BY <1>3, <1>7, <1>12
  <2> DEFINE told == WithOpportunity(w, m, s, signal, time, approved)
  <2>2. v = Opened(told, m, s, signal, time)
    BY <2>1
  <2>3. told = WithOpportunity(w, m, s, signal, time, approved)
    OBVIOUS
  <2> HIDE DEF told
  <2>4. /\ approved \in BOOLEAN /\ PortfolioAllows(w, m, s, signal) /\ w.mem.exit[m][s] # time
        /\ \A i \in DOMAIN w.db.opportunities :
             ~ (/\ w.db.opportunities[i].experiment = w.mem.experiment[m]
                /\ w.db.opportunities[i].symbol = s
                /\ w.db.opportunities[i].source = signal.source)
    BY <1>5, <1>6, <1>7, <1>12
  <2>5. /\ v \in World /\ RowsInv(v.db, candles) /\ ExitsKnown(v, s, time)
        /\ Apart(w) /\ Uses(w, m) => Apart(v)
        /\ v.db.trades = w.db.trades /\ v.db.experiments = w.db.experiments
    BY <1>1, <1>8, <2>2, <2>3, <2>4, ApprovedKeeps
  <2> QED
    BY <1>2, <1>8, <1>14, <2>5
<1>13. CASE ~ seen /\ ~ exited /\ opposed = {} /\ ~ approved
  <2>1. v = WithOpportunity(w, m, s, signal, time, approved)
    BY <1>3, <1>13
  <2> QED
    BY <1>1, <1>2, <1>7, <1>8, <1>14, <2>1, OpportunityKeeps
<1> QED
  BY <1>9, <1>10, <1>11, <1>12, <1>13

-----------------------------------------------------------------------------
(* A tick *)

TwoModels == MODELS[1] \in Models /\ MODELS[2] \in Models

\* The models are two different ones.
LEMMA ModelsAreTwo == TwoModels /\ MODELS[1] # MODELS[2]
  BY DEF TwoModels, MODELS, Models

\* The candle for both models, however far they get
LEMMA CandleStage ==
  ASSUME NEW w \in World, NEW s \in Symbols, NEW candles \in Candles,
         NEW time \in Nat, candles[s] = time, RowsInv(w.db, candles), NoneYet(w, s, time),
         \A i \in DOMAIN w.db.trades :
           w.db.trades[i].reason # "opposite_signal" /\ w.db.trades[i].symbol = s
           => w.db.trades[i].closed # time,
         NEW touched \in [Models -> SUBSET {"stop", "target"}], NEW lost \in BOOLEAN,
         NEW first, first = StopOrTarget(w, MODELS[1], s, time, touched[MODELS[1]], lost),
         NEW both, both = StopOrTarget(first, MODELS[2], s, time, touched[MODELS[2]], lost),
         NEW reached \in Reach, NEW v, v = run_shadow(w, first, both, reached)
  PROVE  /\ v \in World /\ RowsInv(v.db, candles) /\ ExitsKnown(v, s, time)
         /\ Len(w.db.trades) <= Len(v.db.trades)
         /\ v.db.experiments = w.db.experiments /\ v.db.opportunities = w.db.opportunities
         /\ v.mem.experiment = w.mem.experiment
<1>1. ExitsKnown(w, s, time)
  BY DEF ExitsKnown
<1>2. /\ MODELS[1] \in Models /\ MODELS[2] \in Models
      /\ touched[MODELS[1]] \in SUBSET {"stop", "target"}
      /\ touched[MODELS[2]] \in SUBSET {"stop", "target"}
  BY ModelsAreTwo DEF TwoModels
<1>3. /\ first \in World /\ RowsInv(first.db, candles)
      /\ NoneYet(first, s, time) /\ ExitsKnown(first, s, time)
      /\ first.db.experiments = w.db.experiments
      /\ first.db.opportunities = w.db.opportunities
      /\ first.mem.experiment = w.mem.experiment
      /\ Len(w.db.trades) <= Len(first.db.trades)
  BY <1>1, <1>2, StopOrTargetKeeps
<1>4. /\ both \in World /\ RowsInv(both.db, candles) /\ ExitsKnown(both, s, time)
      /\ both.db.experiments = first.db.experiments
      /\ both.db.opportunities = first.db.opportunities
      /\ both.mem.experiment = first.mem.experiment
      /\ Len(first.db.trades) <= Len(both.db.trades)
  BY SMTT(30), <1>2, <1>3, StopOrTargetKeeps
<1>5. /\ Len(w.db.trades) \in Nat /\ Len(first.db.trades) \in Nat /\ Len(both.db.trades) \in Nat
      /\ w.db \in Database /\ first.mem \in Memory /\ both.mem \in Memory
  BY <1>3, <1>4, WorldIs
<1>6. CASE reached = "end"
  <2>1. v = both
    BY <1>6 DEF run_shadow
  <2> QED
    BY SMTT(30), <1>3, <1>4, <1>5, <2>1
<1>7. CASE reached # "end"
  <2>1. PICK memory \in Memory :
          v = [w EXCEPT !.mem = memory] /\ memory.experiment = w.mem.experiment
    BY <1>3, <1>4, <1>5, <1>7 DEF run_shadow, Reach
  <2>2. v \in World /\ v.db = w.db /\ v.mem.experiment = w.mem.experiment
    BY <2>1 DEF World
  <2>3. ExitsKnown(v, s, time)
    <3>1. \A i \in DOMAIN v.db.trades :
            v.db.trades[i].reason # "opposite_signal" /\ v.db.trades[i].symbol = s
            => v.db.trades[i].closed # time
      BY <2>2
    <3> QED
      BY ONLY <3>1 DEF ExitsKnown
  <2> QED
    BY <1>5, <1>7, <2>2, <2>3
<1> QED
  BY <1>6, <1>7

\* What is remembered after the signal is of a world whose experiments are apart, and whose
\* rows are there, or those from before the signal.
SignalApart(w, v) ==
  \E later : /\ Apart(later) /\ Before(w, later) /\ v.mem.experiment = later.mem.experiment
             /\ v.db \in {w.db, later.db}

\* The signal for both models, however far they get
LEMMA SignalStage ==
  ASSUME config \in Configs, NEW w \in World, NEW s \in Symbols, NEW candles \in Candles,
         NEW time \in Nat, candles[s] = time, RowsInv(w.db, candles), ExitsKnown(w, s, time),
         NEW signal \in AnySignal,
         NEW first, first = Signalled(w, MODELS[1], s, signal, time),
         NEW both, both = Signalled(first, MODELS[2], s, signal, time),
         NEW reached \in Reach, NEW v, v = run_shadow(w, first, both, reached)
  PROVE  /\ v \in World /\ RowsInv(v.db, candles)
         /\ Len(w.db.trades) <= Len(v.db.trades)
         /\ Apart(w) => SignalApart(w, v)
<1>1. MODELS[1] \in Models /\ MODELS[2] \in Models
  BY ModelsAreTwo DEF TwoModels
<1>2. /\ first \in World /\ RowsInv(first.db, candles) /\ ExitsKnown(first, s, time)
      /\ Apart(w) => Apart(first) /\ Before(w, first)
      /\ Len(w.db.trades) <= Len(first.db.trades)
  BY <1>1, SignalledKeeps
<1>3. /\ both \in World /\ RowsInv(both.db, candles)
      /\ Apart(first) => Apart(both) /\ Before(first, both)
      /\ Len(first.db.trades) <= Len(both.db.trades)
  BY <1>1, <1>2, SignalledKeeps
<1>4. /\ Len(w.db.trades) \in Nat /\ Len(first.db.trades) \in Nat /\ Len(both.db.trades) \in Nat
      /\ w.db \in Database /\ first.mem \in Memory /\ both.mem \in Memory
  BY <1>2, <1>3, WorldIs
<1>5. CASE reached = "end"
  <2>1. v = both
    BY <1>5 DEF run_shadow
  <2>2. Len(w.db.trades) <= Len(both.db.trades)
    <3> DEFINE a == Len(w.db.trades)
               b == Len(first.db.trades)
               c == Len(both.db.trades)
    <3>1. a \in Nat /\ b \in Nat /\ c \in Nat /\ a <= b /\ b <= c
      BY <1>2, <1>3, <1>4
    <3> HIDE DEF a, b, c
    <3>2. a <= c
      BY <3>1
    <3> QED
      BY <3>2 DEF a, c
  <2>3. Apart(w) => Apart(both) /\ Before(w, both)
    BY <1>2, <1>3, BeforeAll
  <2>4. Apart(w) => SignalApart(w, both)
    BY <2>3 DEF SignalApart
  <2> QED
    BY <1>3, <2>1, <2>2, <2>4
<1>6. CASE reached # "end"
  <2>1. PICK later \in {first, both} : v = [w EXCEPT !.mem = later.mem]
    BY <1>6 DEF run_shadow, Reach
  <2>2. later.mem \in Memory
    BY <1>4
  <2>3. v \in World /\ v.db = w.db /\ v.mem = later.mem
    BY <2>1, <2>2 DEF World
  <2>4. Apart(w) => Apart(later) /\ Before(w, later)
    BY <1>2, <1>3, BeforeAll
  <2>5. Apart(w) => SignalApart(w, v)
    BY <2>3, <2>4 DEF SignalApart
  <2> QED
    BY <1>4, <1>6, <2>3, <2>5
<1> QED
  BY <1>5, <1>6

\* No mishap: both savepoints get to their end, and the tick is not undone.
LEMMA NoMishap ==
  ASSUME NEW fate \in [candle : Reach, signal : Reach, undone : BOOLEAN]
  PROVE  /\ Mishaps(fate) \in Nat
         /\ Mishaps(fate) = 0 => fate.candle = "end" /\ fate.signal = "end" /\ ~ fate.undone
<1> DEFINE failed == {part \in {"candle", "signal"} : fate[part] # "end"}
           n == Cardinality(failed)
<1>1. IsFiniteSet(failed)
  <2>1. IsFiniteSet({"candle", "signal"})
    <3>1. {"candle", "signal"} = ({} \union {"candle"}) \union {"signal"}
      OBVIOUS
    <3>2. IsFiniteSet({} \union {"candle"})
      BY FS_EmptySet, FS_AddElement
    <3> QED
      BY <3>1, <3>2, FS_AddElement
  <2> QED
    BY <2>1, FS_Subset
<1>2. n \in Nat /\ (n = 0 => failed = {})
  BY <1>1, FS_CardinalityType, FS_EmptySet
<1>3. failed = {} => fate.candle = "end" /\ fate.signal = "end"
  OBVIOUS
<1>4. Mishaps(fate) = n + (IF fate.undone THEN 1 ELSE 0)
  BY DEF Mishaps
<1> HIDE DEF n, failed
<1>5. CASE fate.undone
  BY <1>2, <1>4, <1>5
<1>6. CASE ~ fate.undone
  BY <1>2, <1>3, <1>4, <1>6
<1> QED
  BY <1>5, <1>6

\* The signal of a tick that is not none
LEMMA SignalIs ==
  ASSUME NEW time \in Nat, NEW signal \in Signals(time), signal # Hold
  PROVE  signal \in AnySignal
<1>1. /\ (time + 1) % Bucket = 0
      /\ signal \in [direction : Directions, marked : BOOLEAN, lost : BOOLEAN,
                     source : {time - Bucket + 1}]
  BY DEF Signals
<1>2. Bucket \in Nat \ {0}
  BY ShadowAssumption
<1>3. time + 1 >= Bucket
  <2>1. \A k \in Nat \ {0}, n \in Nat : 0 < n /\ n < k => n % k = n
    OBVIOUS
  <2>2. time + 1 < Bucket => (time + 1) % Bucket = time + 1
    BY <1>2, <2>1
  <2> QED
    BY <1>1, <1>2, <2>2
<1>4. time - Bucket + 1 \in Nat
  BY <1>2, <1>3
<1> QED
  BY <1>1, <1>4 DEF AnySignal

\* The two parts of a tick
CandlePart(w, s, time, touched, lost, reached) ==
  LET first == StopOrTarget(w, MODELS[1], s, time, touched[MODELS[1]], lost)
      both == StopOrTarget(first, MODELS[2], s, time, touched[MODELS[2]], lost)
  IN  run_shadow(w, first, both, reached)
SignalPart(w, s, time, signal, reached) ==
  LET Told(x, m) == IF signal = Hold THEN x ELSE Signalled(x, m, s, signal, time)
  IN  run_shadow(w, Told(w, MODELS[1]), Told(Told(w, MODELS[1]), MODELS[2]), reached)

\* The world that a tick finds
Begun == [db |-> db, mem |-> mem]
TickOf(s, exited, after, time, touched, lost, signal, fate) ==
  /\ exited = CandlePart(Begun, s, time, touched, lost, fate.candle)
  /\ after = SignalPart(exited, s, time, signal, fate.signal)
  /\ faults' = faults + Mishaps(fate)
  /\ mem' = after.mem
  /\ db' = IF fate.undone THEN db ELSE after.db
  /\ clock' = IF fate.undone THEN clock ELSE [clock EXCEPT ![s] = time]

\* A tick, in its parts
LEMMA TickIs ==
  ASSUME NEW s \in Symbols, Tick(s), NEW time, time = clock[s] + 1
  PROVE  /\ time <= MaxTime[s] /\ config' = config /\ boots' = boots /\ life' = life
         /\ strayed' = (strayed \/ Stray(db', mem'))
         /\ \E touched \in [Models -> SUBSET {"stop", "target"}], lost \in BOOLEAN,
               signal \in Signals(time), fate \in Fates :
              \E exited, after : TickOf(s, exited, after, time, touched, lost, signal, fate)
<1>1. PICK touched \in Touches(s), signal \in SignalsTo(s, time), fate \in Fates :
        \E lost \in Losses(touched) :
        LET Candle(x, m) == StopOrTarget(x, m, s, time, touched[m], lost)
            Signal(x, m) == IF signal = Hold THEN x ELSE Signalled(x, m, s, signal, time)
            begun   == [db |-> db, mem |-> mem]
            exited  == run_shadow(begun, Candle(begun, MODELS[1]),
                                  Candle(Candle(begun, MODELS[1]), MODELS[2]), fate.candle)
            after   == run_shadow(exited, Signal(exited, MODELS[1]),
                                  Signal(Signal(exited, MODELS[1]), MODELS[2]), fate.signal)
        IN  /\ faults' = faults + Mishaps(fate)
            /\ mem' = after.mem
            /\ db' = IF fate.undone THEN db ELSE after.db
            /\ clock' = IF fate.undone THEN clock ELSE [clock EXCEPT ![s] = time]
  BY SMTT(30) DEF Tick
<1>2. PICK lost \in Losses(touched) :
        LET Candle(x, m) == StopOrTarget(x, m, s, time, touched[m], lost)
            Signal(x, m) == IF signal = Hold THEN x ELSE Signalled(x, m, s, signal, time)
            begun   == [db |-> db, mem |-> mem]
            exited  == run_shadow(begun, Candle(begun, MODELS[1]),
                                  Candle(Candle(begun, MODELS[1]), MODELS[2]), fate.candle)
            after   == run_shadow(exited, Signal(exited, MODELS[1]),
                                  Signal(Signal(exited, MODELS[1]), MODELS[2]), fate.signal)
        IN  /\ faults' = faults + Mishaps(fate)
            /\ mem' = after.mem
            /\ db' = IF fate.undone THEN db ELSE after.db
            /\ clock' = IF fate.undone THEN clock ELSE [clock EXCEPT ![s] = time]
  BY <1>1
<1>3. lost \in BOOLEAN /\ signal \in Signals(time)
  BY DEF Losses, SignalsTo
<1> DEFINE exited == CandlePart(Begun, s, time, touched, lost, fate.candle)
           after == SignalPart(exited, s, time, signal, fate.signal)
<1>4. TickOf(s, exited, after, time, touched, lost, signal, fate)
  BY <1>2 DEF TickOf, CandlePart, SignalPart, Begun
<1>5. touched \in [Models -> SUBSET {"stop", "target"}]
  BY DEF Touches
<1>6. time <= MaxTime[s] /\ config' = config /\ boots' = boots /\ life' = life
  BY DEF Tick
<1>7. StrayNoted
  BY DEF Tick
<1>8. strayed' = (strayed \/ Stray(db', mem'))
  BY <1>7 DEF StrayNoted
<1> HIDE DEF exited, after
<1> QED
  BY <1>4, <1>5, <1>6, <1>8, <1>3

\* Where a tick begins: no entry is on its candle yet, no position has ended on it.
TickBegun(w, s, time, candles) ==
  /\ time \in Nat /\ candles \in Candles /\ candles[s] = time
  /\ w \in World /\ w.db = db /\ w.mem = mem
  /\ RowsInv(w.db, candles) /\ NoneYet(w, s, time)
  /\ \A i \in DOMAIN w.db.trades :
       w.db.trades[i].reason # "opposite_signal" /\ w.db.trades[i].symbol = s
       => w.db.trades[i].closed # time

\* What a tick begins with
LEMMA TickBegins ==
  ASSUME ShadowInv, NEW s \in Symbols, NEW time, time = clock[s] + 1,
         NEW candles, candles = [clock EXCEPT ![s] = time], NEW w, w = Begun
  PROVE  TickBegun(w, s, time, candles)
<1>1. clock \in Candles /\ db \in Database /\ mem \in Memory /\ RowsInv(db, clock)
  BY DEF ShadowInv, TypeOK, Candles
<1>2. time \in Nat /\ candles \in Candles /\ candles[s] = time
  BY <1>1 DEF Candles
<1>3. w \in World /\ w.db = db /\ w.mem = mem
  BY <1>1 DEF World, Begun
<1>4. /\ \A p \in db.positions : p \in Position
      /\ \A i \in DOMAIN db.trades : db.trades[i] \in Trade
  <2>1. db.trades \in Seq(Trade) /\ db.positions \in SUBSET Position
    BY <1>1 DEF Database
  <2> QED
    BY <2>1
<1>5. \A x \in Symbols : clock[x] \in Nat /\ clock[x] <= candles[x]
  BY <1>1, <1>2 DEF Candles
<1>6. /\ \A p \in db.positions : p.at \in Nat /\ p.symbol \in Symbols /\ p.at <= clock[p.symbol]
      /\ \A i \in DOMAIN db.trades :
           /\ db.trades[i].closed \in Nat /\ db.trades[i].symbol \in Symbols
           /\ db.trades[i].reason # "opposite_signal"
              => db.trades[i].closed <= clock[db.trades[i].symbol]
  BY <1>1, <1>4 DEF RowsInv, Past, Position, Trade
<1>7. clock[s] < time /\ clock[s] \in Nat
  BY <1>1 DEF Candles
<1>8. Past(db, candles)
  <2>1. \A x \in Symbols : candles[x] \in Nat
    BY <1>2 DEF Candles
  <2> QED
    BY ONLY <1>5, <1>6, <2>1 DEF Past
<1>9. NoneYet(w, s, time)
  BY <1>2, <1>3, <1>6, <1>7 DEF NoneYet
<1>10. RowsInv(w.db, candles)
  BY <1>1, <1>3, <1>8 DEF RowsInv
<1>11. \A i \in DOMAIN w.db.trades :
         w.db.trades[i].reason # "opposite_signal" /\ w.db.trades[i].symbol = s
         => w.db.trades[i].closed # time
  BY <1>2, <1>3, <1>6, <1>7
<1> QED
  BY <1>2, <1>3, <1>9, <1>10, <1>11 DEF TickBegun

\* A tick keeps the invariant.
LEMMA TickKeeps ==
  ASSUME ShadowInv, NEW s \in Symbols, Tick(s)
  PROVE  ShadowInv'
<1> DEFINE time == clock[s] + 1
           candles == [clock EXCEPT ![s] = time]
           w == Begun
<1>1. /\ clock \in Candles /\ config \in Configs /\ db \in Database /\ mem \in Memory
      /\ boots \in 1 .. MaxBoots /\ faults \in 0 .. MaxFaults
      /\ life \in 1 .. Len(db.trades) + 1 /\ RowsInv(db, clock)
  BY DEF ShadowInv, TypeOK, Candles
<1>2. TickBegun(w, s, time, candles)
  BY TickBegins
<1>3. w \in World /\ w.db = db /\ w.mem = mem
  BY <1>2 DEF TickBegun
<1>4a. PICK touched \in [Models -> SUBSET {"stop", "target"}], lost \in BOOLEAN,
           signal \in Signals(time), fate \in Fates :
        \E exited, after :
          TickOf(s, exited, after, time, touched, lost, signal, fate)
  BY TickIs
<1>4. PICK exited, after : TickOf(s, exited, after, time, touched, lost, signal, fate)
  BY <1>4a
<1>5. /\ faults' = faults + Mishaps(fate)
      /\ mem' = after.mem
      /\ db' = IF fate.undone THEN db ELSE after.db
      /\ clock' = IF fate.undone THEN clock ELSE candles
  BY <1>4 DEF TickOf
<1>15. strayed' = (strayed \/ Stray(db', mem'))
  BY TickIs
<1>6. fate \in [candle : Reach, signal : Reach, undone : BOOLEAN]
      /\ faults + Mishaps(fate) <= MaxFaults
  BY DEF Fates
<1>7. /\ fate.candle \in Reach /\ fate.signal \in Reach
      /\ exited = CandlePart(w, s, time, touched, lost, fate.candle)
      /\ after = SignalPart(exited, s, time, signal, fate.signal)
  BY <1>4, <1>6 DEF TickOf
<1>8. config' = config /\ boots' = boots /\ life' = life
  BY TickIs
<1> HIDE DEF time, w, candles
<1>10. /\ exited \in World /\ RowsInv(exited.db, candles) /\ ExitsKnown(exited, s, time)
       /\ Len(w.db.trades) <= Len(exited.db.trades)
       /\ exited.db.experiments = w.db.experiments
       /\ exited.db.opportunities = w.db.opportunities
       /\ exited.mem.experiment = w.mem.experiment
  <2> DEFINE first == StopOrTarget(w, MODELS[1], s, time, touched[MODELS[1]], lost)
             both == StopOrTarget(first, MODELS[2], s, time, touched[MODELS[2]], lost)
  <2>1. exited = run_shadow(w, first, both, fate.candle)
    BY <1>7 DEF CandlePart
  <2>2. PICK a, b : /\ a = StopOrTarget(w, MODELS[1], s, time, touched[MODELS[1]], lost)
                    /\ b = StopOrTarget(a, MODELS[2], s, time, touched[MODELS[2]], lost)
                    /\ exited = run_shadow(w, a, b, fate.candle)
    BY <2>1
  <2> HIDE DEF first, both
  <2>3. /\ w \in World /\ candles \in Candles /\ time \in Nat /\ candles[s] = time
        /\ RowsInv(w.db, candles) /\ NoneYet(w, s, time)
        /\ \A i \in DOMAIN w.db.trades :
             w.db.trades[i].reason # "opposite_signal" /\ w.db.trades[i].symbol = s
             => w.db.trades[i].closed # time
    BY <1>2 DEF TickBegun
  <2> QED
    BY SMTT(30), <1>7, <2>2, <2>3, CandleStage
<1>11. /\ after \in World /\ RowsInv(after.db, candles)
       /\ Len(exited.db.trades) <= Len(after.db.trades)
       /\ Apart(exited) => SignalApart(exited, after)
  <2>1. CASE signal = Hold
    <3>1. after.db = exited.db /\ after.mem = exited.mem /\ after = exited
      BY <1>7, <1>10, <2>1 DEF SignalPart, run_shadow, Reach, World
    <3>2. Apart(exited) => SignalApart(exited, after)
      BY <3>1 DEF SignalApart, Before
    <3> QED
      BY <1>10, <3>1, <3>2, WorldIs
  <2>2. CASE signal # Hold
    <3> DEFINE told == Signalled(exited, MODELS[1], s, signal, time)
               both == Signalled(told, MODELS[2], s, signal, time)
    <3>1. signal \in AnySignal
      BY <1>2, <2>2, SignalIs DEF TickBegun
    <3>2. after = run_shadow(exited, told, both, fate.signal)
      BY <1>7, <2>2 DEF SignalPart
    <3> QED
      BY <1>1, <1>2, <1>7, <1>10, <3>1, <3>2, SignalStage DEF TickBegun
  <2> QED
    BY <2>1, <2>2
<1>12. /\ db' \in Database /\ mem' \in Memory /\ clock' \in Candles
       /\ RowsInv(db', clock') /\ Len(db.trades) <= Len(db'.trades)
       /\ Len(db.trades) \in Nat /\ Len(db'.trades) \in Nat
  <2>1. after.db \in Database /\ after.mem \in Memory
    BY <1>11, WorldIs
  <2>2. /\ Len(db.trades) \in Nat /\ Len(exited.db.trades) \in Nat /\ Len(after.db.trades) \in Nat
    BY <1>3, <1>10, <1>11, WorldIs
  <2>3. CASE fate.undone
    BY <1>1, <1>5, <2>1, <2>2, <2>3
  <2>4. CASE ~ fate.undone
    BY <1>2, <1>3, <1>5, <1>10, <1>11, <2>1, <2>2, <2>4 DEF TickBegun
  <2> QED
    BY <2>3, <2>4
<1>13. TypeOK'
  <2>1. faults' \in 0 .. MaxFaults
    <3> DEFINE n == Mishaps(fate)
    <3>1. /\ n \in Nat /\ faults \in Nat /\ MaxFaults \in Nat
          /\ faults' = faults + n /\ faults + n <= MaxFaults
      BY <1>1, <1>5, <1>6, NoMishap, ShadowAssumption
    <3> HIDE DEF n
    <3> QED
      BY <3>1
  <2>2. life' \in 1 .. Len(db'.trades) + 1
    <3> DEFINE a == Len(db.trades)
               b == Len(db'.trades)
    <3>1. a \in Nat /\ b \in Nat /\ a <= b /\ life' = life /\ life \in 1 .. a + 1
      BY <1>1, <1>8, <1>12
    <3> HIDE DEF a, b
    <3>2. life' \in 1 .. b + 1
      BY <3>1
    <3> QED
      BY <3>2 DEF b
  <2>3. strayed' \in BOOLEAN
    BY <1>15
  <2> QED
    BY <1>1, <1>8, <1>12, <2>1, <2>2, <2>3 DEF TypeOK, Candles
<1>14. ~ strayed' => Apart([db |-> db, mem |-> mem])'
  <2> SUFFICES ASSUME ~ strayed'
               PROVE  Apart([db |-> db, mem |-> mem])'
    OBVIOUS
  <2>1. ~ strayed /\ ~ Stray(db', mem')
    BY <1>15
  <2>2. Apart(w)
    BY <2>1 DEF ShadowInv, w, Begun
  <2>3. Apart(exited)
    BY <1>3, <1>10, <2>2, ApartSame
  <2>4. PICK later : /\ Apart(later) /\ Before(exited, later)
                     /\ after.mem.experiment = later.mem.experiment
                     /\ after.db \in {exited.db, later.db}
    BY <1>11, <2>3 DEF SignalApart
  <2> DEFINE u == [db |-> db', mem |-> mem']
  <2>5. /\ u.mem.experiment = later.mem.experiment
        /\ u.db.experiments = db'.experiments /\ u.db.opportunities = db'.opportunities
        /\ \A m \in Models : u.mem.experiment[m] \in {0} \union DOMAIN u.db.experiments
    BY <1>5, <2>1, <2>4 DEF Stray
  <2>6. ASSUME db'.experiments = exited.db.experiments, db'.opportunities = exited.db.opportunities
        PROVE  Apart(u)
    <3> HIDE DEF u
    <3> QED
      BY <2>3, <2>4, <2>5, <2>6, ApartWithMemory
  <2>7. ASSUME db' = later.db
        PROVE  Apart(u)
    <3> HIDE DEF u
    <3>1. Before(later, later)
      BY DEF Before
    <3> QED
      BY <2>4, <2>5, <2>7, <3>1, ApartWithMemory
  <2>8. \/ db'.experiments = exited.db.experiments /\ db'.opportunities = exited.db.opportunities
        \/ db' = later.db
    BY <1>3, <1>5, <1>10, <2>4
  <2>9. Apart(u)
    BY <2>6, <2>7, <2>8
  <2> QED
    BY <1>8, <2>9 DEF Apart
<1> QED
  BY <1>12, <1>13, <1>14 DEF ShadowInv

-----------------------------------------------------------------------------
(* What the earlier lives left *)

\* The rows of a life come in pairs, one of each model.
LEMMA Pairs ==
  ASSUME NEW i \in Nat \ {0}
  PROVE  /\ LifeOf(i) \in Nat \ {0} /\ (i - 1) % 2 \in {0, 1}
         /\ i = 2 * (LifeOf(i) - 1) + ((i - 1) % 2) + 1
<1>1. \A n \in Nat : n = 2 * (n \div 2) + (n % 2) /\ n \div 2 \in Nat /\ n % 2 \in {0, 1}
  OBVIOUS
<1>2. i - 1 \in Nat
  OBVIOUS
<1>3. /\ i - 1 = 2 * ((i - 1) \div 2) + ((i - 1) % 2)
      /\ (i - 1) \div 2 \in Nat /\ (i - 1) % 2 \in {0, 1}
  BY <1>1, <1>2
<1> QED
  BY <1>3 DEF LifeOf

\* Each earlier life left one experiment of each model, in the order of the lives.
LEMMA ModelsOf ==
  ASSUME NEW i \in Nat \ {0}
  PROVE  /\ ModelOf(i) \in Models
         /\ \A k \in Nat \ {0} :
              ModelOf(i) = ModelOf(k) /\ LifeOf(i) <= LifeOf(k) => i <= k
<1>1. ModelOf(i) \in Models
  <2>1. CASE (i - 1) % 2 = 0
    BY <2>1, ModelsAreTwo DEF ModelOf, TwoModels
  <2>2. CASE (i - 1) % 2 = 1
    BY <2>2, ModelsAreTwo DEF ModelOf, TwoModels
  <2> QED
    BY <2>1, <2>2, Pairs
<1>2. ASSUME NEW k \in Nat \ {0}, ModelOf(i) = ModelOf(k), LifeOf(i) <= LifeOf(k)
      PROVE  i <= k
  <2>1. (i - 1) % 2 \in {0, 1} /\ (k - 1) % 2 \in {0, 1}
    BY Pairs
  <2>2. (i - 1) % 2 = (k - 1) % 2
    <3>1. \A n \in {0, 1} : MODELS[n + 1] = IF n = 0 THEN MODELS[1] ELSE MODELS[2]
      OBVIOUS
    <3> QED
      BY <1>2, <2>1, <3>1, ModelsAreTwo DEF ModelOf
  <2> QED
    BY <1>2, <2>2, Pairs
<1> QED
  BY <1>1, <1>2

\* The next experiment of a model comes two further on.
LEMMA NextPair ==
  ASSUME NEW j \in Nat \ {0}
  PROVE  /\ ModelOf(j + 2) = ModelOf(j) /\ LifeOf(j + 2) = LifeOf(j) + 1
         /\ \A k \in Nat \ {0} : j < k /\ ModelOf(j) = ModelOf(k) => k >= j + 2
<1>1. \A x \in Nat : (x + 2) % 2 = x % 2 /\ (x + 2) \div 2 = (x \div 2) + 1
                    /\ (x + 1) % 2 # x % 2
  OBVIOUS
<1>2. j - 1 \in Nat /\ j + 2 - 1 = (j - 1) + 2 /\ j + 1 - 1 = (j - 1) + 1
  OBVIOUS
<1>3. ((j - 1) + 2) % 2 = (j - 1) % 2 /\ ((j - 1) + 2) \div 2 = ((j - 1) \div 2) + 1
      /\ ((j - 1) + 1) % 2 # (j - 1) % 2
  BY <1>1, <1>2
<1>4. ModelOf(j + 2) = ModelOf(j)
  BY <1>2, <1>3 DEF ModelOf
<1>5. LifeOf(j + 2) = LifeOf(j) + 1
  BY <1>2, <1>3 DEF LifeOf
<1>6. ModelOf(j + 1) # ModelOf(j)
  <2>1. /\ (j - 1) % 2 \in {0, 1} /\ (j + 1 - 1) % 2 \in {0, 1}
        /\ (j + 1 - 1) % 2 # (j - 1) % 2
    BY <1>2, <1>3, Pairs
  <2>2. \A x \in {0, 1} : MODELS[x + 1] = IF x = 0 THEN MODELS[1] ELSE MODELS[2]
    OBVIOUS
  <2> QED
    BY <2>1, <2>2, ModelsAreTwo DEF ModelOf
<1>7. ASSUME NEW k \in Nat \ {0}, j < k, ModelOf(j) = ModelOf(k)
      PROVE  k >= j + 2
  <2>1. k # j + 1
    BY <1>6, <1>7
  <2> QED
    BY <1>7, <2>1
<1> QED
  BY <1>4, <1>5, <1>7

\* An experiment that is not of the last life has another one after it.
LEMMA LifeBelow ==
  ASSUME NEW n \in Nat, NEW j \in 1 .. 2 * n, LifeOf(j) # n
  PROVE  j + 2 \in 1 .. 2 * n
<1> DEFINE l == LifeOf(j)
           r == (j - 1) % 2
<1>1. l \in Nat \ {0} /\ r \in {0, 1} /\ j = 2 * (l - 1) + r + 1 /\ l # n
  BY Pairs
<1> HIDE DEF l, r
<1> QED
  BY <1>1

\* The position that the first life left under one of its experiments
Inherited(i) ==
  [experiment |-> i, model |-> ModelOf(i), symbol |-> LeftSymbol, side |-> "BUY",
   notional |-> Lesser(max_position_usd, max_total_exposure_usd),
   opened |-> 0, at |-> Bucket - 1, open |-> TRUE]

\* What the earlier lives left is a database.
LEMMA LeftIs ==
  /\ Left \in Database
  /\ Left.positions = {Inherited(i) : i \in {j \in 1 .. 2 * Len(Earlier) : LifeOf(j) = 1}}
  /\ Left.trades = <<>>
  /\ Len(Earlier) \in Nat
  /\ DOMAIN Left.experiments = 1 .. 2 * Len(Earlier)
  /\ DOMAIN Left.opportunities = 1 .. 2 * Len(Earlier)
  /\ \A i \in 1 .. 2 * Len(Earlier) :
       /\ Inherited(i) \in Position
       /\ LifeOf(i) \in 1 .. Len(Earlier)
       /\ Left.experiments[i].model = ModelOf(i)
       /\ Left.experiments[i].config = Earlier[LifeOf(i)]
       /\ Left.experiments[i].active <=> LifeOf(i) = Len(Earlier)
       /\ Left.opportunities[i].experiment = i
       /\ Left.opportunities[i].symbol = LeftSymbol /\ Left.opportunities[i].source = 0
       /\ Left.opportunities[i].model = ModelOf(i)
       /\ Left.opportunities[i].config = Earlier[LifeOf(i)]
<1> DEFINE n == Len(Earlier)
           Exp(i) == [model |-> ModelOf(i), config |-> Earlier[LifeOf(i)], active |-> LifeOf(i) = n]
           Opp(i) == [experiment |-> i, model |-> ModelOf(i), symbol |-> LeftSymbol,
                      source |-> 0, approved |-> LifeOf(i) = 1, config |-> Earlier[LifeOf(i)],
                      at |-> Bucket - 1]
<1>1. n \in Nat /\ Earlier \in [1 .. n -> Configs] /\ LeftSymbol \in Symbols
  BY EarlierAssumption
<1>2. Bucket - 1 \in Nat /\ Lesser(max_position_usd, max_total_exposure_usd) \in Nat
  BY ShadowAssumption DEF Lesser
<1>3. ASSUME NEW i \in 1 .. 2 * n
      PROVE  i \in Nat \ {0} /\ LifeOf(i) \in 1 .. n /\ ModelOf(i) \in Models
  <2> HIDE DEF n
  <2>1. i \in Nat \ {0} /\ ModelOf(i) \in Models
    BY <1>1, ModelsOf
  <2>2. /\ LifeOf(i) \in Nat \ {0} /\ (i - 1) % 2 \in {0, 1}
        /\ i = 2 * (LifeOf(i) - 1) + ((i - 1) % 2) + 1
    BY <2>1, Pairs
  <2> DEFINE l == LifeOf(i)
             r == (i - 1) % 2
  <2>3. l \in Nat \ {0} /\ r \in {0, 1} /\ i = 2 * (l - 1) + r + 1
    BY <2>2
  <2> HIDE DEF l, r
  <2>4. l \in 1 .. n
    BY <1>1, <2>3
  <2> QED
    BY <2>1, <2>4 DEF l
<1>4. Left = [experiments |-> [i \in 1 .. 2 * n |-> Exp(i)],
              opportunities |-> [i \in 1 .. 2 * n |-> Opp(i)],
              positions |-> {Inherited(i) : i \in {j \in 1 .. 2 * n : LifeOf(j) = 1}},
              trades |-> <<>>]
  BY DEF Left, Inherited
<1>5. ASSUME NEW i \in 1 .. 2 * n
      PROVE  Exp(i) \in Experiment /\ Opp(i) \in Opportunity /\ Inherited(i) \in Position
  <2>1. Earlier[LifeOf(i)] \in Configs
    BY <1>1, <1>3
  <2>2. (LifeOf(i) = n) \in BOOLEAN /\ (LifeOf(i) = 1) \in BOOLEAN /\ i \in Nat /\ 0 \in Nat
    BY <1>3
  <2>3. Exp(i) \in Experiment
    BY <1>3, <2>1, <2>2 DEF Experiment
  <2>4. Opp(i) \in Opportunity
    BY <1>1, <1>2, <1>3, <2>1, <2>2 DEF Opportunity
  <2>5. Inherited(i) \in Position
    BY <1>1, <1>2, <1>3, <2>2 DEF Inherited, Position, Directions
  <2> QED
    BY <2>3, <2>4, <2>5
<1>6. \A i \in 1 .. 2 * n :
        /\ Exp(i).model = ModelOf(i) /\ Exp(i).config = Earlier[LifeOf(i)]
        /\ Exp(i).active <=> LifeOf(i) = n
        /\ Opp(i).experiment = i /\ Opp(i).symbol = LeftSymbol /\ Opp(i).source = 0
        /\ Opp(i).model = ModelOf(i) /\ Opp(i).config = Earlier[LifeOf(i)]
  OBVIOUS
<1> HIDE DEF Exp, Opp, n
<1>7. /\ [i \in 1 .. 2 * n |-> Exp(i)] \in Seq(Experiment)
      /\ [i \in 1 .. 2 * n |-> Opp(i)] \in Seq(Opportunity)
  <2>1. 2 * n \in Nat
    BY <1>1
  <2>2. [i \in 1 .. 2 * n |-> Exp(i)] \in [1 .. 2 * n -> Experiment]
    BY <1>5
  <2>3. [i \in 1 .. 2 * n |-> Opp(i)] \in [1 .. 2 * n -> Opportunity]
    BY <1>5
  <2> QED
    BY <2>1, <2>2, <2>3
<1>8. {Inherited(i) : i \in {j \in 1 .. 2 * n : LifeOf(j) = 1}} \in SUBSET Position
  BY <1>5
<1>9. <<>> \in Seq(Trade)
  OBVIOUS
<1>10. Left \in Database
  BY <1>4, <1>7, <1>8, <1>9 DEF Database
<1>11. /\ Left.positions = {Inherited(i) : i \in {j \in 1 .. 2 * n : LifeOf(j) = 1}}
       /\ Left.trades = <<>>
       /\ Left.experiments = [i \in 1 .. 2 * n |-> Exp(i)]
       /\ Left.opportunities = [i \in 1 .. 2 * n |-> Opp(i)]
  BY <1>4
<1>12. \A i \in 1 .. 2 * n : Left.experiments[i] = Exp(i) /\ Left.opportunities[i] = Opp(i)
  BY <1>11
<1>13. DOMAIN Left.experiments = 1 .. 2 * n /\ DOMAIN Left.opportunities = 1 .. 2 * n
  BY <1>11
<1> QED
  BY <1>1, <1>3, <1>5, <1>6, <1>10, <1>11, <1>12, <1>13 DEF n

\* Rows of what was left: two open positions at most, one of each model.
LEMMA LeftRows ==
  ASSUME NEW candles \in Candles, \A s \in Symbols : candles[s] = Bucket - 1
  PROVE  RowsInv(Left, candles)
<1> DEFINE n == Len(Earlier)
           Firsts == {j \in 1 .. 2 * n : LifeOf(j) = 1}
           d == Left
<1>1. /\ d \in Database /\ n \in Nat /\ d.positions = {Inherited(i) : i \in Firsts}
      /\ d.trades = <<>> /\ DOMAIN d.opportunities = 1 .. 2 * n
      /\ \A i \in 1 .. 2 * n :
           /\ Inherited(i) \in Position
           /\ d.opportunities[i].experiment = i
           /\ d.opportunities[i].symbol = LeftSymbol /\ d.opportunities[i].source = 0
  BY LeftIs
<1>2. \A i : /\ Inherited(i).experiment = i /\ Inherited(i).model = ModelOf(i)
             /\ Inherited(i).symbol = LeftSymbol /\ Inherited(i).opened = 0
             /\ Inherited(i).at = Bucket - 1 /\ Inherited(i).open
             /\ Inherited(i).notional = Lesser(max_position_usd, max_total_exposure_usd)
  BY DEF Inherited
<1>3. \A i \in Firsts : i \in 1 .. 2 * n /\ i \in Nat \ {0} /\ i \in {1, 2}
  <2> SUFFICES ASSUME NEW i \in Firsts PROVE i \in Nat \ {0} /\ i \in {1, 2}
    OBVIOUS
  <2> HIDE DEF n
  <2>1. i \in 1 .. 2 * n /\ LifeOf(i) = 1
    OBVIOUS
  <2>2. i \in Nat \ {0}
    BY <1>1, <2>1
  <2>3. i = 2 * (LifeOf(i) - 1) + ((i - 1) % 2) + 1 /\ (i - 1) % 2 \in {0, 1}
    BY <2>2, Pairs
  <2> QED
    BY <2>1, <2>2, <2>3
<1>4. \A i, k \in Firsts : ModelOf(i) = ModelOf(k) => i = k
  <2> SUFFICES ASSUME NEW i \in Firsts, NEW k \in Firsts, ModelOf(i) = ModelOf(k) PROVE i = k
    OBVIOUS
  <2>1. LifeOf(i) = 1 /\ LifeOf(k) = 1 /\ i \in Nat \ {0} /\ k \in Nat \ {0}
    BY <1>3
  <2>2. i <= k /\ k <= i
    BY <2>1, ModelsOf
  <2> QED
    BY <2>1, <2>2
<1> HIDE DEF d, n, Firsts
<1>5. Booked(d)
  <2>1. IsFiniteSet(d.positions)
    <3>1. IsFiniteSet(({} \union {Inherited(1)}) \union {Inherited(2)})
      <4>1. IsFiniteSet({} \union {Inherited(1)})
        BY FS_EmptySet, FS_AddElement
      <4> QED
        BY <4>1, FS_AddElement
    <3>2. d.positions \subseteq ({} \union {Inherited(1)}) \union {Inherited(2)}
      BY <1>1, <1>3
    <3> QED
      BY <3>1, <3>2, FS_Subset
  <2>2. \A p, q \in d.positions : Key(p) = Key(q) => p = q
    BY <1>1, <1>2 DEF Key
  <2>3. \A p \in d.positions :
          \E i \in DOMAIN d.opportunities : KeyOf(d.opportunities[i]) = Key(p)
    <3> SUFFICES ASSUME NEW i \in Firsts
                 PROVE  \E k \in DOMAIN d.opportunities :
                          KeyOf(d.opportunities[k]) = Key(Inherited(i))
      BY <1>1
    <3>1. i \in DOMAIN d.opportunities
      BY <1>1, <1>3
    <3>2. KeyOf(d.opportunities[i]) = Key(Inherited(i))
      BY <1>1, <1>2, <1>3 DEF KeyOf, Key
    <3> QED
      BY <3>1, <3>2
  <2>4. DOMAIN d.trades = {}
    BY <1>1
  <2>5. \A p \in d.positions : p.open
    BY <1>1, <1>2
  <2> QED
    BY <2>1, <2>2, <2>3, <2>4, <2>5 DEF Booked
<1>6. Means(d)
  <2> SUFFICES ASSUME NEW m \in Models
               PROVE  /\ Notional(Held(d, m)) <= max_total_exposure_usd
                      /\ \A p, q \in Held(d, m) : p.symbol = q.symbol => p = q
                      /\ \A p \in Held(d, m) : p.notional >= min_order_notional_usd
    BY DEF Means, Held
  <2>1. Notional({}) = 0 /\ IsFiniteSet({}) /\ Sizes({})
    <3>1. IsFiniteSet({}) /\ Cardinality({}) = 0 /\ Sizes({})
      BY FS_EmptySet DEF Sizes
    <3> QED
      BY <3>1, NotionalIsUnits, UnitsEmpty
  <2>2. CASE Held(d, m) = {}
    BY <2>1, <2>2, ShadowAssumption
  <2>3. CASE Held(d, m) # {}
    <3>1. PICK i \in Firsts : Inherited(i) \in Held(d, m)
      BY <1>1, <2>3 DEF Held
    <3>2. \A p \in Held(d, m) : p = Inherited(i)
      BY <1>1, <1>2, <1>4, <3>1 DEF Held
    <3>3. Held(d, m) = {} \union {Inherited(i)}
      BY <3>1, <3>2
    <3> DEFINE size == Inherited(i).notional
    <3>4. size = Lesser(max_position_usd, max_total_exposure_usd)
      BY <1>2
    <3>5. Earlier # <<>>
      BY <1>1, <1>3 DEF n
    <3>6. size \in Nat /\ size <= max_total_exposure_usd /\ size >= min_order_notional_usd
      BY <3>4, <3>5, ShadowAssumption, EarlierAssumption DEF Lesser
    <3>7. Notional(Held(d, m)) = size + 0
      BY <2>1, <3>3, <3>6, NotionalOfMore
    <3> QED
      BY <3>2, <3>6, <3>7
  <2> QED
    BY <2>2, <2>3
<1>7. EntriesApart(d)
  BY <1>1 DEF EntriesApart
<1>8. Past(d, candles)
  <2>1. \A p \in d.positions : p.at <= candles[p.symbol]
    BY <1>1, <1>2, EarlierAssumption, ShadowAssumption
  <2> QED
    BY <1>1, <2>1 DEF Past
<1> QED
  BY <1>5, <1>6, <1>7, <1>8 DEF RowsInv, d

\* Each experiment of what was left has its own row, and the last ones are active.
LEMMA LeftApart ==
  ASSUME NEW memory, memory.experiment = [m \in Models |-> 0]
  PROVE  Apart([db |-> Left, mem |-> memory])
<1> DEFINE w == [db |-> Left, mem |-> memory]
           n == Len(Earlier)
<1>1. /\ w.db = Left /\ w.mem = memory /\ n \in Nat
      /\ DOMAIN w.db.experiments = 1 .. 2 * n /\ DOMAIN w.db.opportunities = 1 .. 2 * n
      /\ \A i \in 1 .. 2 * n :
           /\ LifeOf(i) \in 1 .. n
           /\ w.db.experiments[i].model = ModelOf(i)
           /\ w.db.experiments[i].config = Earlier[LifeOf(i)]
           /\ w.db.experiments[i].active <=> LifeOf(i) = n
           /\ w.db.opportunities[i].experiment = i
           /\ w.db.opportunities[i].model = ModelOf(i)
           /\ w.db.opportunities[i].config = Earlier[LifeOf(i)]
  BY LeftIs
<1> HIDE DEF w, n
<1>2. \A m : \A k \in Active(w, m) :
        k \in 1 .. 2 * n /\ k \in Nat \ {0} /\ LifeOf(k) = n /\ ModelOf(k) = m
  BY <1>1 DEF Active
<1>3. RowsFit(w)
  BY <1>1 DEF RowsFit
<1>4. RowsInOrder(w)
  BY <1>1 DEF RowsInOrder
<1>5. NoneLater(w)
  <2> SUFFICES ASSUME NEW i \in DOMAIN w.db.opportunities,
                      NEW k \in Active(w, w.db.opportunities[i].model)
               PROVE  w.db.opportunities[i].experiment <= k
    BY DEF NoneLater
  <2>1. i \in Nat \ {0} /\ i \in 1 .. 2 * n
    BY <1>1
  <2>2. ModelOf(i) = ModelOf(k) /\ LifeOf(i) <= LifeOf(k) /\ k \in Nat \ {0}
    BY <1>1, <1>2, <2>1
  <2> QED
    BY <1>1, <2>1, <2>2, ModelsOf
<1>6. OneInUse(w)
  <2>1. ASSUME NEW m \in Models, NEW j \in Active(w, m), NEW k \in Active(w, m)
        PROVE  j = k
    <3>1. j <= k /\ k <= j /\ j \in Nat /\ k \in Nat
      BY <1>1, <1>2, ModelsOf
    <3> QED
      BY <3>1
  <2> QED
    BY <1>1, <2>1 DEF OneInUse
<1>7. \A j, k \in 1 .. 2 * n :
        /\ ModelOf(j + 2) = ModelOf(j) /\ LifeOf(j + 2) = LifeOf(j) + 1
        /\ j < k /\ ModelOf(j) = ModelOf(k) => k >= j + 2
  BY <1>1, NextPair
<1>8. LatestActive(w)
  <2> SUFFICES ASSUME NEW j \in 1 .. 2 * n, LifeOf(j) # n
               PROVE  \E k \in 1 .. 2 * n : k > j /\ ModelOf(k) = ModelOf(j)
    BY <1>1 DEF LatestActive
  <2>1. j + 2 \in 1 .. 2 * n
    BY <1>1, LifeBelow DEF n
  <2> QED
    BY <1>7, <2>1
<1>9. Continued(w)
  <2> SUFFICES ASSUME NEW j \in 1 .. 2 * n, NEW k \in 1 .. 2 * n,
                      NextOf(w.db.experiments, j, k)
               PROVE  Earlier[LifeOf(j)] # Earlier[LifeOf(k)]
    BY <1>1 DEF Continued
  <2>1. j < k /\ ModelOf(j) = ModelOf(k)
    BY <1>1 DEF NextOf
  <2>2. ASSUME NEW i \in 1 .. 2 * n, j < i, i < k
        PROVE  ModelOf(i) # ModelOf(j)
    <3>1. i \in DOMAIN w.db.experiments
      BY <1>1
    <3>2. w.db.experiments[i].model # w.db.experiments[j].model
      BY <2>2, <3>1 DEF NextOf
    <3> QED
      BY <1>1, <3>2
  <2>3. k >= j + 2
    BY <1>7, <2>1
  <2>4. k = j + 2
    <3>1. j + 2 < k => j + 2 \in 1 .. 2 * n /\ j < j + 2
      BY <1>1
    <3> QED
      BY <1>1, <1>7, <2>2, <2>3, <3>1
  <2>5. LifeOf(k) = LifeOf(j) + 1 /\ LifeOf(j) \in 1 .. n /\ LifeOf(k) \in 1 .. n
    BY <1>1, <1>7, <2>4
  <2>6. LifeOf(j) \in 1 .. n - 1
    BY <1>1, <2>5
  <2>7. Earlier[LifeOf(j)] # Earlier[LifeOf(j) + 1]
    BY <2>6, EarlierAssumption DEF n
  <2> QED
    BY <2>5, <2>7
<1> QED
  BY <1>3, <1>4, <1>5, <1>6, <1>8, <1>9, ApartIs DEF w

-----------------------------------------------------------------------------
(* The invariant *)

\* A new memory is a memory that uses no experiment.
LEMMA NoMemoryType == NoMemory \in Memory /\ NoMemory.experiment = [m \in Models |-> 0]
  BY DEF NoMemory, Memory

\* The invariant holds of what the earlier lives left.
LEMMA InitEstablishes == Init => ShadowInv
<1> SUFFICES ASSUME Init PROVE ShadowInv
  OBVIOUS
<1>1. clock \in Candles /\ \A s \in Symbols : clock[s] = Bucket - 1
  BY ShadowAssumption DEF Init, Candles
<1>2. db = Left /\ mem = NoMemory
  BY DEF Init
<1>3. RowsInv(db, clock)
  BY <1>1, <1>2, LeftRows
<1>4. Apart([db |-> db, mem |-> mem])
  BY <1>2, LeftApart, NoMemoryType
<1>5. TypeOK
  <2>1. db \in Database /\ mem \in Memory /\ Len(db.trades) = 0
    BY <1>2, LeftIs, NoMemoryType
  <2>2. config \in Configs /\ boots \in 1 .. MaxBoots /\ faults \in 0 .. MaxFaults
    BY ShadowAssumption DEF Init
  <2>3. life \in 1 .. Len(db.trades) + 1
    BY <2>1 DEF Init
  <2>4. strayed \in BOOLEAN
    BY DEF Init
  <2> QED
    BY <1>1, <2>1, <2>2, <2>3, <2>4 DEF TypeOK, Candles
<1> QED
  BY <1>3, <1>4, <1>5 DEF ShadowInv

\* A restart leaves the rows and has nothing in use.
LEMMA RestartKeeps ==
  ASSUME ShadowInv, Restart
  PROVE  ShadowInv'
<1>1. /\ boots' = boots + 1 /\ boots < MaxBoots /\ config' \in Configs /\ mem' = NoMemory
      /\ life' = Len(db.trades) + 1 /\ clock' = clock /\ db' = db /\ faults' = faults
      /\ strayed' = strayed
  BY DEF Restart
<1>2. TypeOK
  BY DEF ShadowInv
<1>3. TypeOK'
  <2>1. boots' \in 1 .. MaxBoots
    BY <1>1, <1>2, ShadowAssumption DEF TypeOK
  <2>2. life' \in 1 .. Len(db'.trades) + 1
    <3>1. Len(db.trades) \in Nat
      BY <1>2 DEF TypeOK, Database
    <3> QED
      BY <1>1, <3>1
  <2> QED
    BY <1>1, <1>2, <2>1, <2>2, NoMemoryType DEF TypeOK
<1>4. RowsInv(db, clock)'
  BY <1>1 DEF ShadowInv
<1>5. ~ strayed' => Apart([db |-> db, mem |-> mem])'
  <2> SUFFICES ASSUME ~ strayed' PROVE Apart([db |-> db, mem |-> mem])'
    OBVIOUS
  <2>1. Apart([db |-> db, mem |-> mem])
    BY <1>1 DEF ShadowInv
  <2>2. \A m \in Models : mem'.experiment[m] = 0
    BY <1>1, NoMemoryType
  <2> QED
    BY <1>1, <2>1, <2>2 DEF Apart
<1> QED
  BY <1>3, <1>4, <1>5 DEF ShadowInv

\* Rows stay right whatever is undone, and experiments apart unless one that was undone is
\* remembered.
THEOREM ShadowSafe == Spec => []ShadowInv
<1>1. Init => ShadowInv
  BY InitEstablishes
<1>2. ShadowInv /\ [Next]_vars => ShadowInv'
  <2> SUFFICES ASSUME ShadowInv, [Next]_vars PROVE ShadowInv'
    OBVIOUS
  <2>1. CASE Restart
    BY <2>1, RestartKeeps
  <2>2. ASSUME NEW s \in Symbols, Tick(s)
        PROVE  ShadowInv'
    BY <2>2, TickKeeps
  <2>3. CASE UNCHANGED vars
    <3>1. /\ clock' = clock /\ config' = config /\ db' = db /\ mem' = mem
          /\ boots' = boots /\ faults' = faults /\ life' = life /\ strayed' = strayed
      BY <2>3 DEF vars
    <3>2. TypeOK'
      BY <3>1 DEF ShadowInv, TypeOK
    <3>3. RowsInv(db, clock)'
      BY <3>1 DEF ShadowInv
    <3>4. ~ strayed' => Apart([db |-> db, mem |-> mem])'
      BY <3>1 DEF ShadowInv, Apart
    <3> QED
      BY <3>2, <3>3, <3>4 DEF ShadowInv
  <2> QED
    BY <2>1, <2>2, <2>3 DEF Next
<1> QED
  BY <1>1, <1>2, PTL DEF Spec

-----------------------------------------------------------------------------
(* The theorems *)

\* Whatever savepoints and ticks are undone, unless an experiment is remembered that was: an
\* opportunity belongs to an experiment of its model and configuration, no experiment goes
\* on after another one of its model, and none begins under the configuration of the latest.
THEOREM ExperimentsApart == Spec => []ApartUnlessStrayed
<1>1. ASSUME ShadowInv, ~ strayed
      PROVE  NeverMixed
  <2> DEFINE w == [db |-> db, mem |-> mem]
             rows == db.opportunities
  <2>1. RowsFit(w) /\ RowsInOrder(w) /\ Continued(w)
    BY <1>1, ApartIs DEF ShadowInv
  <2>2. \A i \in DOMAIN rows :
          /\ rows[i].experiment \in DOMAIN db.experiments
          /\ db.experiments[rows[i].experiment].model = rows[i].model
          /\ db.experiments[rows[i].experiment].config = rows[i].config
    BY <2>1 DEF RowsFit
  <2>3. \A i, j \in DOMAIN rows :
          i < j /\ rows[i].model = rows[j].model => rows[i].experiment <= rows[j].experiment
    BY <2>1 DEF RowsInOrder
  <2>4. /\ DOMAIN rows \subseteq Nat
        /\ \A i \in DOMAIN rows : rows[i].experiment \in Nat
    <3>1. rows \in Seq(Opportunity)
      BY <1>1 DEF ShadowInv, TypeOK, Database
    <3>2. \A i \in DOMAIN rows : rows[i] \in Opportunity /\ i \in Nat
      BY <3>1
    <3> QED
      BY <3>2 DEF Opportunity
  <2> HIDE DEF rows
  <2>5. ASSUME NEW i \in DOMAIN rows, NEW j \in DOMAIN rows, NEW k \in DOMAIN rows,
               i < j, j < k, rows[i].experiment = rows[k].experiment,
               rows[j].model = rows[i].model
        PROVE  rows[j].experiment = rows[i].experiment
    <3>1. rows[k].model = rows[i].model
      BY <2>2, <2>5
    <3>2. /\ rows[i].experiment <= rows[j].experiment
          /\ rows[j].experiment <= rows[k].experiment
      BY <2>3, <2>5, <3>1
    <3> QED
      BY <2>4, <2>5, <3>2
  <2>6. \A j, k \in DOMAIN db.experiments :
          NextOf(db.experiments, j, k) => db.experiments[j].config # db.experiments[k].config
    BY <2>1 DEF Continued
  <2> QED
    BY <2>2, <2>5, <2>6 DEF NeverMixed, rows
<1>2. ShadowInv => ApartUnlessStrayed
  BY <1>1 DEF ApartUnlessStrayed
<1> QED
  BY <1>2, ShadowSafe, PTL

\* A model never holds more than its exposure, nor two positions in one symbol.
THEOREM MeansKept == Spec => []WithinItsMeans
<1>1. ShadowInv => WithinItsMeans
  BY DEF ShadowInv, RowsInv, WithinItsMeans
<1> QED
  BY <1>1, ShadowSafe, PTL

\* The candle of a stop or target brings no new entry.
THEOREM NoReentry == Spec => []NoReentryOnExit
<1>1. ShadowInv => NoReentryOnExit
  BY DEF ShadowInv, RowsInv, NoReentryOnExit
<1> QED
  BY <1>1, ShadowSafe, PTL

\* There are as many of the one as of the other.
LEMMA AsMany ==
  ASSUME NEW C, IsFiniteSet(C), NEW F, NEW h \in [C -> F],
         \A f \in F : \E p \in C : h[p] = f,
         \A p, q \in C : h[p] = h[q] => p = q
  PROVE  Cardinality(F) = Cardinality(C)
<1>1. h \in Bijection(C, F)
  BY DEF Bijection, Injection, Surjection, IsInjective
<1>2. ExistsBijection(C, F)
  BY <1>1 DEF ExistsBijection
<1> QED
  BY <1>2, FS_Bijection

\* Trades and closed positions match one to one.
THEOREM TradesMatch == Spec => []OneTradePerPosition
<1>1. ASSUME ShadowInv
      PROVE  OneTradePerPosition
  <2> DEFINE T == db.trades
             Of(p) == {i \in DOMAIN T :
                         /\ T[i].experiment = p.experiment
                         /\ T[i].symbol = p.symbol
                         /\ T[i].opened = p.opened}
             Closed == {p \in db.positions : ~ p.open}
  <2>1. Booked(db) /\ db \in Database
    BY <1>1 DEF ShadowInv, RowsInv, TypeOK
  <2>2. T \in Seq(Trade) /\ Len(T) \in Nat /\ DOMAIN T = 1 .. Len(T)
    BY <2>1 DEF Database
  <2>3. ASSUME NEW p \in db.positions
        PROVE  Of(p) = {i \in DOMAIN T : Key(T[i]) = Key(p)}
    BY DEF Key
  <2>4. ASSUME NEW p \in db.positions
        PROVE  Cardinality(Of(p)) = IF p.open THEN 0 ELSE 1
    <3>1. CASE p.open
      <4>1. Of(p) = {}
        BY <2>1, <2>3, <3>1, OpenHasNoTrade
      <4> QED
        BY <3>1, <4>1, FS_EmptySet
    <3>2. CASE ~ p.open
      <4>1. PICK i \in DOMAIN T : Key(T[i]) = Key(p)
        BY <2>1, <3>2 DEF Booked
      <4>2. Of(p) = {i}
        BY <2>1, <2>3, <4>1 DEF Booked
      <4> QED
        BY <3>2, <4>2, FS_Singleton
    <3> QED
      BY <3>1, <3>2
  <2> DEFINE h == [p \in Closed |-> CHOOSE i \in DOMAIN T : Key(T[i]) = Key(p)]
  <2>5. \A p \in Closed : h[p] \in DOMAIN T /\ Key(T[h[p]]) = Key(p)
    BY <2>1 DEF Booked
  <2>6. h \in [Closed -> DOMAIN T]
    BY <2>5
  <2>7. IsFiniteSet(Closed)
    BY <2>1, FS_Subset DEF Booked
  <2>8. \A i \in DOMAIN T : \E p \in Closed : h[p] = i
    <3> SUFFICES ASSUME NEW i \in DOMAIN T PROVE \E p \in Closed : h[p] = i
      OBVIOUS
    <3>1. PICK p \in Closed : Key(p) = Key(T[i])
      BY <2>1 DEF Booked
    <3>2. h[p] \in DOMAIN T /\ Key(T[h[p]]) = Key(T[i])
      BY <2>5, <3>1
    <3> HIDE DEF h
    <3> QED
      BY <2>1, <3>1, <3>2 DEF Booked
  <2> HIDE DEF h
  <2>9. \A p, q \in Closed : h[p] = h[q] => p = q
    BY <2>1, <2>5 DEF Booked
  <2>10. Cardinality(DOMAIN T) = Cardinality(Closed)
    <3> HIDE DEF Closed, T
    <3> QED
      BY <2>6, <2>7, <2>8, <2>9, AsMany
  <2>11. Cardinality(1 .. Len(T)) = Len(T)
    <3> DEFINE n == Len(T)
    <3>1. n \in Nat /\ n \in Int /\ 1 \in Int
      BY <2>2
    <3> HIDE DEF n
    <3>2. Cardinality(1 .. n) = IF 1 > n THEN 0 ELSE n - 1 + 1
      BY <3>1, FS_Interval
    <3> QED
      BY <3>1, <3>2 DEF n
  <2> QED
    BY <2>2, <2>4, <2>10, <2>11 DEF OneTradePerPosition
<1>2. ShadowInv => OneTradePerPosition
  BY <1>1
<1> QED
  BY <1>2, ShadowSafe, PTL

-----------------------------------------------------------------------------
(* Quotients and remainders *)

\* A remainder is below the divisor.
LEMMA RemainderBelow ==
  ASSUME NEW n \in Nat \ {0}, NEW k \in Nat
  PROVE  k % n \in 0 .. n - 1
  OBVIOUS

\* A number is its quotient times the divisor, and the remainder.
LEMMA Division ==
  ASSUME NEW n \in Nat \ {0}, NEW k \in Nat
  PROVE  k = (n * (k \div n)) + (k % n)
  OBVIOUS

\* What is left below the divisor is the remainder.
LEMMA RemainderIs ==
  ASSUME NEW n \in Nat \ {0}, NEW q \in Int, NEW r \in 0 .. n - 1
  PROVE  ((n * q) + r) % n = r
  OBVIOUS

\* The next remainder is one more, or none.
LEMMA NextRemainder ==
  ASSUME NEW n \in Nat \ {0}, NEW k \in Nat
  PROVE  (k + 1) % n = IF (k % n) + 1 >= n THEN 0 ELSE (k % n) + 1
<1> DEFINE q == k \div n
           r == k % n
<1>1. q \in Int /\ r \in 0 .. n - 1 /\ k = (n * q) + r
  BY RemainderBelow, Division
<1> HIDE DEF q, r
<1>2. CASE r + 1 >= n
  <2>1. r + 1 = n
    BY <1>1, <1>2
  <2>2. n * (q + 1) = (n * q) + n
    BY <1>1
  <2>3. k + 1 = (n * (q + 1)) + 0
    BY <1>1, <2>1, <2>2
  <2>4. (k + 1) % n = 0
    BY <1>1, <2>3, RemainderIs
  <2> QED
    BY <1>2, <2>4 DEF r
<1>3. CASE ~ r + 1 >= n
  <2>1. k + 1 = (n * q) + (r + 1) /\ r + 1 \in 0 .. n - 1
    BY <1>1, <1>3
  <2>2. (k + 1) % n = r + 1
    BY <1>1, <2>1, RemainderIs
  <2> QED
    BY <1>3, <2>2 DEF r
<1> QED
  BY <1>2, <1>3

\* A smaller number has no larger quotient.
LEMMA Quotients ==
  ASSUME NEW n \in Nat \ {0}, NEW a \in Nat, NEW b \in Nat, a <= b
  PROVE  a \div n \in Nat /\ a \div n <= b \div n
  OBVIOUS

\* The days of the candles
LEMMA DayKnown ==
  ASSUME NEW s \in Symbols, NEW time \in Nat, time <= MaxTime[s]
  PROVE  DayOf(time) \in Days
<1>1. Day \in Nat \ {0} /\ MaxTime[s] \in Nat
  BY ShadowAssumption
<1>2. /\ time \div Day \in Nat /\ MaxTime[s] \div Day \in Nat
      /\ time \div Day <= MaxTime[s] \div Day
  BY SMTT(30), <1>1, Quotients
<1>3. DayOf(time) \in 0 .. DayOf(MaxTime[s])
  BY <1>2 DEF DayOf
<1> QED
  BY <1>3 DEF Days

-----------------------------------------------------------------------------
(* The trades of a life, and their streaks *)

Run(rows, m, i) ==
  {j \in OfThisLife(rows, m) :
     j <= i /\ \A k \in OfThisLife(rows, m) : j <= k /\ k <= i => rows[k].lost}

Latest(rows, m, i) == i \in OfThisLife(rows, m) /\ \A j \in OfThisLife(rows, m) : j <= i

\* The trades of a life are rows of the table.
LEMMA LifeIs ==
  ASSUME NEW rows \in Seq(Trade), life \in 1 .. Len(rows) + 1, NEW m
  PROVE  /\ OfThisLife(rows, m) \subseteq 1 .. Len(rows)
         /\ IsFiniteSet(OfThisLife(rows, m))
         /\ \A i \in OfThisLife(rows, m) :
              i \in Nat \ {0} /\ i <= Len(rows) /\ rows[i] \in Trade /\ rows[i].model = m
<1>1. Len(rows) \in Nat /\ DOMAIN rows = 1 .. Len(rows)
  OBVIOUS
<1>2. OfThisLife(rows, m) \subseteq 1 .. Len(rows)
  BY <1>1 DEF OfThisLife
<1>3. IsFiniteSet(1 .. Len(rows))
  BY <1>1, FS_Interval
<1>4. IsFiniteSet(OfThisLife(rows, m))
  BY <1>2, <1>3, FS_Subset
<1> QED
  BY <1>1, <1>2, <1>4 DEF OfThisLife

\* One of the trades of a life is the latest, if there are any.
LEMMA LatestExists ==
  ASSUME NEW rows \in Seq(Trade), life \in 1 .. Len(rows) + 1, NEW m,
         NEW S, S \subseteq OfThisLife(rows, m), S # {}
  PROVE  \E i \in S : \A j \in S : j <= i
<1> DEFINE n == Len(rows)
           Back == {k \in Nat : \E i \in S : k = n - i}
<1>1. n \in Nat /\ \A i \in S : i \in Nat /\ i <= n
  BY LifeIs
<1> HIDE DEF n
<1>2. Back # {}
  BY SMTT(30), <1>1
<1>3. PICK k \in Back : \A l \in Back : ~ (<<l, k>> \in OpToRel(<, Nat))
  BY <1>2, NatLessThanWellFounded, WFMin
<1>4. \A l \in Back : ~ l < k
  BY <1>3 DEF OpToRel
<1>5. PICK i \in S : k = n - i
  OBVIOUS
<1>6. ASSUME NEW j \in S
      PROVE  j <= i
  <2>1. n - j \in Back
    BY <1>1
  <2> HIDE DEF Back
  <2> QED
    BY <1>1, <1>4, <1>5, <2>1
<1> QED
  BY <1>6

\* A run is a set of rows of the life, so it can be counted.
LEMMA RunIs ==
  ASSUME NEW rows \in Seq(Trade), life \in 1 .. Len(rows) + 1, NEW m, NEW i
  PROVE  /\ IsFiniteSet(Run(rows, m, i))
         /\ Streak(rows, m, i) = Cardinality(Run(rows, m, i))
         /\ Streak(rows, m, i) \in Nat
<1>1. Run(rows, m, i) \subseteq OfThisLife(rows, m)
  BY DEF Run
<1>2. IsFiniteSet(Run(rows, m, i))
  BY <1>1, LifeIs, FS_Subset
<1>3. Streak(rows, m, i) = Cardinality(Run(rows, m, i))
  BY DEF Run, Streak
<1> QED
  BY <1>2, <1>3, FS_CardinalityType

\* One trade more
OneMore(rows, more, trade) ==
  /\ rows \in Seq(Trade) /\ trade \in Trade /\ more = Append(rows, trade)
  /\ life \in 1 .. Len(rows) + 1

\* A new row is the latest trade of its model, and no other model sees it.
LEMMA LifeAfter ==
  ASSUME NEW rows, NEW more, NEW trade, OneMore(rows, more, trade)
  PROVE  /\ rows \in Seq(Trade) /\ more \in Seq(Trade) /\ Len(rows) \in Nat
         /\ Len(more) = Len(rows) + 1
         /\ life \in 1 .. Len(rows) + 1 /\ life \in 1 .. Len(more) + 1
         /\ \A i \in 1 .. Len(rows) : more[i] = rows[i]
         /\ more[Len(rows) + 1] = trade
         /\ OfThisLife(more, trade.model) = OfThisLife(rows, trade.model) \union {Len(rows) + 1}
         /\ \A m : m # trade.model => OfThisLife(more, m) = OfThisLife(rows, m)
<1> DEFINE n == Len(rows)
<1>1. /\ rows \in Seq(Trade) /\ more \in Seq(Trade) /\ n \in Nat /\ Len(more) = n + 1
      /\ \A i \in 1 .. n : more[i] = rows[i]
      /\ more[n + 1] = trade
      /\ life \in 1 .. n + 1
  BY DEF OneMore
<1>2. \A m : OfThisLife(rows, m) = {i \in life .. n : rows[i].model = m}
  BY DEF OfThisLife
<1>3. \A m : OfThisLife(more, m) = {i \in life .. n + 1 : more[i].model = m}
  BY <1>1 DEF OfThisLife
<1> HIDE DEF n
<1>4. life .. n + 1 = (life .. n) \union {n + 1}
  BY <1>1
<1>5. \A i \in life .. n : i \in 1 .. n
  BY <1>1
<1>6. \A m : OfThisLife(more, m) =
               OfThisLife(rows, m) \union {i \in {n + 1} : trade.model = m}
  BY <1>1, <1>2, <1>3, <1>4, <1>5
<1>7. OfThisLife(more, trade.model) = OfThisLife(rows, trade.model) \union {n + 1}
  BY <1>6
<1>8. ASSUME NEW m, m # trade.model
      PROVE  OfThisLife(more, m) = OfThisLife(rows, m)
  BY <1>6, <1>8
<1> QED
  BY <1>1, <1>7, <1>8 DEF n

\* The streak at an earlier trade is what it was.
LEMMA RunStays ==
  ASSUME NEW rows, NEW more, NEW trade, OneMore(rows, more, trade), NEW m,
         NEW i \in OfThisLife(rows, m)
  PROVE  i \in OfThisLife(more, m) /\ more[i] = rows[i] /\ InStreak(more, m, i) = InStreak(rows, m, i)
<1> DEFINE n == Len(rows)
<1>1. /\ n \in Nat /\ \A j \in 1 .. n : more[j] = rows[j]
      /\ OfThisLife(rows, m) \subseteq 1 .. n
      /\ \A j \in OfThisLife(more, m) : j \in OfThisLife(rows, m) \/ j = n + 1
      /\ OfThisLife(rows, m) \subseteq OfThisLife(more, m)
  <2>1. /\ n \in Nat /\ \A j \in 1 .. n : more[j] = rows[j]
        /\ rows \in Seq(Trade) /\ life \in 1 .. Len(rows) + 1
        /\ OfThisLife(more, trade.model) = OfThisLife(rows, trade.model) \union {n + 1}
        /\ m # trade.model => OfThisLife(more, m) = OfThisLife(rows, m)
    BY LifeAfter
  <2>2. OfThisLife(rows, m) \subseteq 1 .. n
    BY <2>1, LifeIs
  <2> HIDE DEF n
  <2> QED
    BY <2>1, <2>2
<1> HIDE DEF n
<1>2. \A j \in OfThisLife(more, m) : j <= i => j \in OfThisLife(rows, m)
  BY <1>1
<1>3. Run(more, m, i) = Run(rows, m, i)
  BY <1>1, <1>2 DEF Run
<1>4. Streak(more, m, i) = Streak(rows, m, i)
  BY <1>3 DEF Run, Streak
<1> QED
  BY <1>1, <1>4 DEF InStreak

\* A streak is ended by a gain, continued by a loss, or begun by one.
LEMMA RunAfter ==
  ASSUME NEW rows, NEW more, NEW trade, OneMore(rows, more, trade),
         NEW m, m = trade.model, NEW n, n = Len(rows) + 1
  PROVE  /\ Latest(more, m, n)
         /\ ~ trade.lost => Streak(more, m, n) = 0
         /\ trade.lost /\ OfThisLife(rows, m) = {} => Streak(more, m, n) = 1
         /\ \A i : trade.lost /\ Latest(rows, m, i) =>
              Streak(more, m, n) = Streak(rows, m, i) + 1
<1>1. /\ n \in Nat /\ n - 1 = Len(rows) /\ \A j \in 1 .. n - 1 : more[j] = rows[j]
      /\ more[n] = trade
      /\ OfThisLife(rows, m) \subseteq 1 .. n - 1
      /\ OfThisLife(more, m) = OfThisLife(rows, m) \union {n}
      /\ rows \in Seq(Trade) /\ more \in Seq(Trade)
      /\ life \in 1 .. Len(rows) + 1 /\ life \in 1 .. Len(more) + 1
  <2>1. /\ Len(rows) \in Nat /\ n = Len(rows) + 1
        /\ \A j \in 1 .. Len(rows) : more[j] = rows[j]
        /\ more[n] = trade
        /\ OfThisLife(more, m) = OfThisLife(rows, m) \union {n}
        /\ rows \in Seq(Trade) /\ more \in Seq(Trade)
        /\ life \in 1 .. Len(rows) + 1 /\ life \in 1 .. Len(more) + 1
    BY LifeAfter
  <2>2. n \in Nat /\ n - 1 = Len(rows)
    BY <2>1
  <2>3. OfThisLife(rows, m) \subseteq 1 .. Len(rows)
    BY <2>1, LifeIs
  <2> QED
    BY <2>1, <2>2, <2>3
<1> DEFINE L == OfThisLife(rows, m)
<1>2. \A j \in L : j \in Nat /\ j < n /\ more[j] = rows[j]
  BY <1>1
<1>3. Run(more, m, n) = {j \in L \union {n} : \A k \in L \union {n} : j <= k => more[k].lost}
  BY <1>1, <1>2 DEF Run
<1>4. Latest(more, m, n)
  BY <1>1, <1>2 DEF Latest
<1>5. Streak(more, m, n) = Cardinality(Run(more, m, n))
  BY <1>1, RunIs
<1> HIDE DEF L
<1>6. CASE ~ trade.lost
  <2>1. Run(more, m, n) = {}
    BY <1>1, <1>2, <1>3, <1>6
  <2>2. Streak(more, m, n) = 0
    BY <1>5, <2>1, FS_EmptySet
  <2> QED
    BY <1>4, <1>6, <2>2
<1>7. CASE trade.lost /\ L = {}
  <2>1. Run(more, m, n) = {n}
    BY <1>1, <1>3, <1>7
  <2>3. Streak(more, m, n) = 1
    BY <1>5, <2>1, FS_Singleton
  <2> QED
    BY <1>4, <1>7, <2>3 DEF L, Latest
<1>8. ASSUME trade.lost, L # {}, NEW i, Latest(rows, m, i)
      PROVE  Streak(more, m, n) = Streak(rows, m, i) + 1
  <2>1. i \in L /\ \A j \in L : j <= i
    BY <1>8 DEF Latest, L
  <2>2. Run(rows, m, i) = {j \in L : \A k \in L : j <= k => rows[k].lost}
    BY <2>1 DEF Run, L
  <2>3. Run(more, m, n) = Run(rows, m, i) \union {n}
    <3>1. \A j \in L : (\A k \in L \union {n} : j <= k => more[k].lost)
                          <=> (\A k \in L : j <= k => rows[k].lost)
      BY <1>1, <1>2, <1>8
    <3>2. \A k \in L \union {n} : n <= k => more[k].lost
      BY <1>1, <1>2, <1>8
    <3> QED
      BY <1>3, <2>2, <3>1, <3>2
  <2>4. n \notin Run(rows, m, i)
    BY <1>2, <2>2
  <2>5. IsFiniteSet(Run(rows, m, i)) /\ Streak(rows, m, i) = Cardinality(Run(rows, m, i))
    BY <1>1, RunIs
  <2> QED
    BY <1>5, <2>3, <2>4, <2>5, FS_AddElement
<1> QED
  BY <1>4, <1>6, <1>7, <1>8 DEF L, Latest

\* The place in a streak is below the number that starts a cooldown.
LEMMA InStreakBelow ==
  ASSUME NEW rows \in Seq(Trade), life \in 1 .. Len(rows) + 1, NEW m, NEW i
  PROVE  /\ InStreak(rows, m, i) \in Nat
         /\ Streak(rows, m, i) = 0 => InStreak(rows, m, i) = 0
<1>1. Streak(rows, m, i) \in Nat
  BY RunIs
<1>2. CASE cooldown_after_losses = 0
  BY <1>2 DEF InStreak
<1>3. CASE cooldown_after_losses # 0
  <2>1. cooldown_after_losses \in Nat \ {0}
    BY <1>3, ShadowAssumption
  <2>2. InStreak(rows, m, i) = Streak(rows, m, i) % cooldown_after_losses
    BY <1>3 DEF InStreak
  <2>3. 0 % cooldown_after_losses = 0
    BY <2>1
  <2>4. InStreak(rows, m, i) \in Nat
    <3>1. \A k \in Nat : k % cooldown_after_losses \in 0 .. cooldown_after_losses - 1
      BY <2>1, RemainderBelow
    <3>2. \A k \in Nat : k % cooldown_after_losses \in Nat
      BY <2>1, <3>1
    <3> QED
      BY <1>1, <2>2, <3>2
  <2> QED
    BY <2>2, <2>3, <2>4
<1> QED
  BY <1>2, <1>3

\* What was counted towards a cooldown
CountedSoFar(rows, m, k) ==
  /\ k \in Nat
  /\ OfThisLife(rows, m) = {} => k = 0
  /\ \A i : Latest(rows, m, i) => k = InStreak(rows, m, i)

\* What is counted towards a cooldown: nothing after a gain, one more after a loss, and
\* nothing again when the loss starts a cooldown.
LEMMA InStreakAfter ==
  ASSUME NEW rows, NEW more, NEW trade, OneMore(rows, more, trade),
         NEW m, m = trade.model, NEW n, n = Len(rows) + 1, NEW k, CountedSoFar(rows, m, k)
  PROVE  /\ ~ trade.lost => InStreak(more, m, n) = 0
         /\ trade.lost =>
              InStreak(more, m, n) = IF k + 1 >= cooldown_after_losses THEN 0 ELSE k + 1
<1> DEFINE N == cooldown_after_losses
<1>1. /\ Latest(more, m, n)
      /\ ~ trade.lost => Streak(more, m, n) = 0
      /\ trade.lost /\ OfThisLife(rows, m) = {} => Streak(more, m, n) = 1
      /\ \A i : trade.lost /\ Latest(rows, m, i) =>
           Streak(more, m, n) = Streak(rows, m, i) + 1
  BY RunAfter
<1>2. /\ rows \in Seq(Trade) /\ life \in 1 .. Len(rows) + 1
      /\ more \in Seq(Trade) /\ life \in 1 .. Len(more) + 1
  BY LifeAfter
<1>3. CASE ~ trade.lost
  BY <1>1, <1>2, <1>3, InStreakBelow
<1>4. CASE trade.lost /\ N = 0
  <2>1. InStreak(more, m, n) = 0
    BY <1>4 DEF InStreak
  <2>2. k + 1 >= cooldown_after_losses
    BY <1>4 DEF CountedSoFar
  <2> QED
    BY <1>4, <2>1, <2>2
<1>5. CASE trade.lost /\ N # 0
  <2>1. N \in Nat \ {0}
    BY <1>5, ShadowAssumption
  <2>2. \A i : /\ InStreak(rows, m, i) = Streak(rows, m, i) % N
               /\ InStreak(more, m, i) = Streak(more, m, i) % N
    BY <1>5 DEF InStreak
  <2> HIDE DEF N
  <2>3. PICK l \in Nat : Streak(more, m, n) = l + 1 /\ k = l % N
    <3>1. CASE OfThisLife(rows, m) = {}
      <4>1. 0 % N = 0
        BY <2>1
      <4> QED
        BY <1>1, <1>5, <3>1, <4>1 DEF CountedSoFar
    <3>2. CASE OfThisLife(rows, m) # {}
      <4>1. PICK i \in OfThisLife(rows, m) : \A j \in OfThisLife(rows, m) : j <= i
        BY <1>2, <3>2, LatestExists
      <4>2. Latest(rows, m, i)
        BY <4>1 DEF Latest
      <4>3. Streak(rows, m, i) \in Nat
        BY <1>2, RunIs
      <4> QED
        BY <1>1, <1>5, <2>2, <4>2, <4>3 DEF CountedSoFar
    <3> QED
      BY <3>1, <3>2
  <2>4. (l + 1) % N = IF k + 1 >= N THEN 0 ELSE k + 1
    BY <2>1, <2>3, NextRemainder
  <2>5. InStreak(more, m, n) = (l + 1) % N
    BY <2>2, <2>3
  <2> QED
    BY <1>5, <2>4, <2>5 DEF N
<1> QED
  BY <1>3, <1>4, <1>5

-----------------------------------------------------------------------------
(* Memory and trades *)

\* What the brakes of a model depend on
SameBrakes(a, b, m) ==
  a.losses[m] = b.losses[m] /\ a.until[m] = b.until[m] /\ a.daily[m] = b.daily[m]

\* Memory a is what memory b becomes by a close.
Counts(a, b, m, lost, time) ==
  /\ \A x \in Models \ {m} : SameBrakes(a, b, x)
  /\ ~ lost => a.losses[m] = 0 /\ a.until[m] = b.until[m] /\ a.daily[m] = b.daily[m]
  /\ lost =>
       LET streak == b.losses[m] + 1
           cooling == streak >= cooldown_after_losses
       IN  /\ a.losses[m] = IF cooling THEN 0 ELSE streak
           /\ a.until[m] = IF cooling THEN time + cooldown_minutes ELSE b.until[m]
           /\ \A day \in Days :
                a.daily[m][day] = b.daily[m][day] + (IF day = DayOf(time) THEN 1 ELSE 0)

\* What closing a position does to the memory of its model.
LEMMA CloseInMemoryCounts ==
  ASSUME NEW w \in World, NEW m \in Models, NEW pos, NEW lost \in BOOLEAN, NEW time \in Nat
  PROVE  Counts(close_in_memory(w, m, pos, lost, time), w.mem, m, lost, time)
<1> DEFINE b == w.mem
           a == close_in_memory(w, m, pos, lost, time)
           streak == b.losses[m] + 1
           cooling == streak >= cooldown_after_losses
<1>1. /\ b \in Memory /\ b.losses \in [Models -> Nat] /\ b.until \in [Models -> Nat]
      /\ b.daily \in [Models -> [Days -> Nat]]
  BY WorldIs DEF Memory
<1>2. CASE ~ lost
  <2>1. a = [b EXCEPT !.losses[m] = 0]
    BY <1>2 DEF close_in_memory
  <2> HIDE DEF a, b
  <2>2. a.losses = [b.losses EXCEPT ![m] = 0] /\ a.until = b.until /\ a.daily = b.daily
    BY <1>1, <2>1 DEF Memory
  <2> QED
    BY <1>1, <1>2, <2>2 DEF Counts, SameBrakes, a, b
<1>3. CASE lost
  <2> DEFINE l == IF cooling THEN 0 ELSE streak
             u == IF cooling THEN time + cooldown_minutes ELSE b.until[m]
             day == DayOf(time)
  <2>1. a = [b EXCEPT !.daily[m][day] = @ + 1, !.losses[m] = l, !.until[m] = u]
    BY <1>3 DEF close_in_memory
  <2> HIDE DEF a, b, l, u, day
  <2>2. /\ a.losses = [b.losses EXCEPT ![m] = l] /\ a.until = [b.until EXCEPT ![m] = u]
        /\ a.daily = [b.daily EXCEPT ![m] = [b.daily[m] EXCEPT ![day] = b.daily[m][day] + 1]]
    BY <1>1, <2>1 DEF Memory
  <2>3. /\ a.losses[m] = l /\ a.until[m] = u
        /\ a.daily[m] = [b.daily[m] EXCEPT ![day] = b.daily[m][day] + 1]
        /\ \A x \in Models \ {m} : SameBrakes(a, b, x)
    BY <1>1, <2>2 DEF SameBrakes
  <2>4. \A d \in Days : a.daily[m][d] = b.daily[m][d] + (IF d = day THEN 1 ELSE 0)
    <3>1. b.daily[m] \in [Days -> Nat]
      BY <1>1
    <3> QED
      BY <2>3, <3>1
  <2> HIDE DEF cooling, streak
  <2> QED
    BY <1>3, <2>3, <2>4 DEF Counts, a, b, l, u, day, cooling, streak
<1> QED
  BY <1>2, <1>3

\* What is counted of the losses stays counted, the streak of a world stays that of its
\* trades, and memory never counts less.
Follows(v, w) ==
  /\ LossesCounted(w) => LossesCounted(v)
  /\ StreakCounted(w) => StreakCounted(v)
  /\ \A x \in Models, day \in Days : w.mem.daily[x][day] <= v.mem.daily[x][day]

\* The counts of a memory are numbers.
LEMMA DailyType ==
  ASSUME NEW w \in World
  PROVE  /\ \A x \in Models, day \in Days : w.mem.daily[x][day] \in Nat
         /\ \A x \in Models : w.mem.losses[x] \in Nat /\ w.mem.until[x] \in Nat
<1>1. w.mem \in Memory
  BY WorldIs
<1>2. /\ w.mem.daily \in [Models -> [Days -> Nat]]
      /\ w.mem.losses \in [Models -> Nat] /\ w.mem.until \in [Models -> Nat]
  BY <1>1 DEF Memory
<1> QED
  BY <1>2

\* The losses of a day can be counted.
LEMMA LostOnIs ==
  ASSUME NEW rows \in Seq(Trade), life \in 1 .. Len(rows) + 1, NEW m, NEW day
  PROVE  /\ IsFiniteSet(LostOn(rows, m, day))
         /\ Cardinality(LostOn(rows, m, day)) \in Nat
<1>1. LostOn(rows, m, day) \subseteq OfThisLife(rows, m)
  BY DEF LostOn
<1>2. IsFiniteSet(LostOn(rows, m, day))
  BY <1>1, LifeIs, FS_Subset
<1> QED
  BY <1>2, FS_CardinalityType

\* Where trades, and what memory says of them, are the same
LEMMA SameFollows ==
  ASSUME NEW w \in World, NEW v \in World, v.db.trades = w.db.trades,
         \A x \in Models : SameBrakes(v.mem, w.mem, x)
  PROVE  Follows(v, w)
<1>1. LossesCounted(w) => LossesCounted(v)
  BY DEF LossesCounted, SameBrakes
<1>2. StreakCounted(w) => StreakCounted(v)
  BY DEF StreakCounted, SameBrakes
<1>3. \A x \in Models, day \in Days : w.mem.daily[x][day] <= v.mem.daily[x][day]
  BY DailyType DEF SameBrakes
<1> QED
  BY <1>1, <1>2, <1>3 DEF Follows

\* Steps that keep the counts of losses follow one another.
LEMMA FollowsOn ==
  ASSUME NEW u \in World, NEW v \in World, NEW w \in World, Follows(u, v), Follows(v, w)
  PROVE  Follows(u, w)
<1>1. \A x \in Models, day \in Days :
        /\ w.mem.daily[x][day] <= v.mem.daily[x][day]
        /\ v.mem.daily[x][day] <= u.mem.daily[x][day]
        /\ w.mem.daily[x][day] \in Nat /\ v.mem.daily[x][day] \in Nat /\ u.mem.daily[x][day] \in Nat
  BY DailyType DEF Follows
<1>2. \A x \in Models, day \in Days : w.mem.daily[x][day] <= u.mem.daily[x][day]
  BY <1>1
<1> QED
  BY <1>2 DEF Follows

\* Rows that were taken back leave more in memory than there was.
LEMMA LossesStayCounted ==
  ASSUME NEW v \in World, NEW w \in World, LossesCounted(w), v.db.trades = w.db.trades,
         life \in 1 .. Len(w.db.trades) + 1,
         \A x \in Models, day \in Days : w.mem.daily[x][day] <= v.mem.daily[x][day]
  PROVE  LossesCounted(v)
<1>1. w.db.trades \in Seq(Trade)
  BY WorldIs
<1> SUFFICES ASSUME NEW x \in Models, NEW day \in Days
             PROVE  Cardinality(LostOn(v.db.trades, x, day)) <= v.mem.daily[x][day]
  BY DEF LossesCounted
<1>2. /\ Cardinality(LostOn(w.db.trades, x, day)) \in Nat
      /\ Cardinality(LostOn(w.db.trades, x, day)) <= w.mem.daily[x][day]
  BY <1>1, LostOnIs DEF LossesCounted
<1>3. /\ w.mem.daily[x][day] <= v.mem.daily[x][day]
      /\ w.mem.daily[x][day] \in Nat /\ v.mem.daily[x][day] \in Nat
  BY DailyType
<1> QED
  BY <1>2, <1>3

\* A close counts its loss on the day of the trade.
LEMMA CloseCountsLosses ==
  ASSUME NEW w \in World, NEW v \in World, NEW trade \in Trade,
         OneMore(w.db.trades, v.db.trades, trade),
         Counts(v.mem, w.mem, trade.model, trade.lost, trade.closed),
         NEW x \in Models, NEW day \in Days
  PROVE  /\ w.mem.daily[x][day] <= v.mem.daily[x][day]
         /\ Cardinality(LostOn(w.db.trades, x, day)) <= w.mem.daily[x][day] =>
              Cardinality(LostOn(v.db.trades, x, day)) <= v.mem.daily[x][day]
<1> DEFINE rows == w.db.trades
           more == v.db.trades
           n == Len(rows) + 1
           before == LostOn(rows, x, day)
           after == LostOn(more, x, day)
<1>0. OneMore(rows, more, trade)
  OBVIOUS
<1>1. /\ rows \in Seq(Trade) /\ more \in Seq(Trade) /\ Len(rows) \in Nat
      /\ life \in 1 .. Len(rows) + 1
      /\ \A i \in 1 .. Len(rows) : more[i] = rows[i]
      /\ more[n] = trade
      /\ OfThisLife(more, trade.model) = OfThisLife(rows, trade.model) \union {n}
      /\ x # trade.model => OfThisLife(more, x) = OfThisLife(rows, x)
  <2> HIDE DEF rows, more
  <2>1. /\ rows \in Seq(Trade) /\ more \in Seq(Trade) /\ Len(rows) \in Nat
        /\ life \in 1 .. Len(rows) + 1
        /\ \A i \in 1 .. Len(rows) : more[i] = rows[i]
        /\ more[Len(rows) + 1] = trade
    BY ONLY <1>0, LifeAfter
  <2>2. OfThisLife(more, trade.model) = OfThisLife(rows, trade.model) \union {Len(rows) + 1}
    BY ONLY <1>0, LifeAfter
  <2>3. x # trade.model => OfThisLife(more, x) = OfThisLife(rows, x)
    BY ONLY <1>0, LifeAfter
  <2> QED
    BY <2>1, <2>2, <2>3
<1>2. OfThisLife(rows, x) \subseteq 1 .. Len(rows) /\ n \notin OfThisLife(rows, x)
  <2>1. OfThisLife(rows, x) \subseteq 1 .. Len(rows)
    BY <1>1, LifeIs
  <2> QED
    BY <1>1, <2>1
<1>3. /\ IsFiniteSet(before) /\ Cardinality(before) \in Nat
      /\ w.mem.daily[x][day] \in Nat /\ v.mem.daily[x][day] \in Nat
  BY <1>1, LostOnIs, DailyType
<1>4. before \subseteq OfThisLife(rows, x)
  BY DEF LostOn
<1> DEFINE hit == x = trade.model /\ trade.lost /\ day = DayOf(trade.closed)
<1>5. CASE hit
  <2>1. v.mem.daily[x][day] = w.mem.daily[x][day] + 1
    BY <1>5 DEF Counts
  <2>2. after = before \union {n}
    BY <1>1, <1>2, <1>5 DEF LostOn
  <2>3. Cardinality(after) = Cardinality(before) + 1
    <3>1. n \notin before /\ IsFiniteSet(before)
      BY <1>2, <1>3, <1>4
    <3>2. Cardinality(before \union {n}) = Cardinality(before) + 1
      BY ONLY <3>1, FS_AddElement
    <3> QED
      BY <2>2, <3>2
  <2> HIDE DEF before, after
  <2>4. /\ w.mem.daily[x][day] <= v.mem.daily[x][day]
        /\ Cardinality(before) <= w.mem.daily[x][day] => Cardinality(after) <= v.mem.daily[x][day]
    BY <1>3, <2>1, <2>3
  <2> QED
    BY <2>4 DEF before, after
<1>6. CASE ~ hit
  <2>1. v.mem.daily[x][day] = w.mem.daily[x][day]
    <3>1. CASE x # trade.model
      BY <3>1 DEF Counts, SameBrakes
    <3>2. CASE x = trade.model /\ ~ trade.lost
      BY <3>2 DEF Counts
    <3>3. CASE x = trade.model /\ trade.lost
      BY <1>3, <1>6, <3>3 DEF Counts
    <3> QED
      BY <3>1, <3>2, <3>3
  <2>2. after = before
    <3>1. CASE x # trade.model
      BY <1>1, <1>2, <3>1 DEF LostOn
    <3>2. CASE x = trade.model
      BY <1>1, <1>2, <1>6, <3>2 DEF LostOn
    <3> QED
      BY <3>1, <3>2
  <2> QED
    BY <1>3, <2>1, <2>2
<1> QED
  BY <1>5, <1>6

\* The streak of a model, in rows and memory
Streaky(rows, memory, m) ==
  /\ OfThisLife(rows, m) = {} => memory.losses[m] = 0
  /\ \A i \in OfThisLife(rows, m) :
       (\A j \in OfThisLife(rows, m) : j <= i) => memory.losses[m] = InStreak(rows, m, i)
  /\ \A i \in Cooling(rows, m) :
       (\A j \in Cooling(rows, m) : j <= i) =>
         memory.until[m] = rows[i].closed + cooldown_minutes

\* StreakCounted, model by model.
LEMMA StreakCountedIs ==
  ASSUME NEW w
  PROVE  StreakCounted(w) <=> \A m \in Models : Streaky(w.db.trades, w.mem, m)
  BY DEF StreakCounted, Streaky

\* The trades of the other model
LEMMA OtherStreak ==
  ASSUME NEW rows, NEW more, NEW trade, OneMore(rows, more, trade), NEW m, m # trade.model,
         NEW a, NEW b, SameBrakes(b, a, m), Streaky(rows, a, m)
  PROVE  Streaky(more, b, m)
<1>1. OfThisLife(more, m) = OfThisLife(rows, m)
  BY LifeAfter
<1>2. \A i \in OfThisLife(rows, m) :
        more[i] = rows[i] /\ InStreak(more, m, i) = InStreak(rows, m, i)
  BY RunStays
<1>3. Cooling(more, m) = Cooling(rows, m) /\ Cooling(rows, m) \subseteq OfThisLife(rows, m)
  BY <1>1, <1>2 DEF Cooling
<1>4. b.losses[m] = a.losses[m] /\ b.until[m] = a.until[m]
  BY DEF SameBrakes
<1> QED
  BY <1>1, <1>2, <1>3, <1>4 DEF Streaky

\* The trade of this model
LEMMA ThisStreak ==
  ASSUME NEW rows, NEW more, NEW trade, OneMore(rows, more, trade), NEW m, m = trade.model,
         NEW a, NEW b, a.losses[m] \in Nat,
         Counts(b, a, m, trade.lost, trade.closed), Streaky(rows, a, m)
  PROVE  Streaky(more, b, m)
<1> DEFINE n == Len(rows) + 1
           k == a.losses[m]
           L == OfThisLife(rows, m)
<1>1. /\ rows \in Seq(Trade) /\ life \in 1 .. Len(rows) + 1
      /\ Len(rows) \in Nat /\ more[n] = trade /\ OfThisLife(more, m) = L \union {n}
  BY LifeAfter
<1>2. \A i \in L : /\ more[i] = rows[i] /\ InStreak(more, m, i) = InStreak(rows, m, i)
  BY RunStays
<1>3. \A i \in L : i \in Nat /\ i < n
  <2>1. L \subseteq 1 .. Len(rows)
    BY <1>1, LifeIs
  <2> HIDE DEF L
  <2> QED
    BY <1>1, <2>1
<1>4. /\ ~ trade.lost => InStreak(more, m, n) = 0
      /\ trade.lost =>
           InStreak(more, m, n) = IF k + 1 >= cooldown_after_losses THEN 0 ELSE k + 1
  <2>1. CountedSoFar(rows, m, k)
    BY DEF CountedSoFar, Streaky, Latest
  <2>2. n = Len(rows) + 1
    OBVIOUS
  <2> HIDE DEF k, n
  <2> QED
    BY <2>1, <2>2, InStreakAfter
<1>5. /\ ~ trade.lost => b.losses[m] = 0 /\ b.until[m] = a.until[m]
      /\ trade.lost =>
           /\ b.losses[m] = IF k + 1 >= cooldown_after_losses THEN 0 ELSE k + 1
           /\ b.until[m] = IF k + 1 >= cooldown_after_losses
                           THEN trade.closed + cooldown_minutes ELSE a.until[m]
  BY DEF Counts
<1>6. b.losses[m] = InStreak(more, m, n)
  <2>1. trade.lost \in BOOLEAN
    BY DEF OneMore, Trade
  <2> QED
    BY <1>4, <1>5, <2>1
<1>7. n \in Cooling(more, m) <=> trade.lost /\ k + 1 >= cooldown_after_losses
  <2>1. n \in Cooling(more, m) <=> trade.lost /\ InStreak(more, m, n) = 0
    BY <1>1 DEF Cooling
  <2>2. k + 1 # 0
    OBVIOUS
  <2> HIDE DEF k
  <2> QED
    BY <1>4, <2>1, <2>2
<1>8. \A i \in L : i \in Cooling(more, m) <=> i \in Cooling(rows, m)
  BY <1>1, <1>2 DEF Cooling
<1>9. Cooling(rows, m) \subseteq L /\ Cooling(more, m) \subseteq L \union {n}
  BY <1>1 DEF Cooling
<1>0. n \in Nat
  BY <1>1
<1> HIDE DEF L, k, n
<1>10. ASSUME NEW i \in OfThisLife(more, m), \A j \in OfThisLife(more, m) : j <= i
       PROVE  b.losses[m] = InStreak(more, m, i)
  <2>1. OfThisLife(more, m) = L \union {n}
    BY <1>1
  <2>2. i \in L \union {n} /\ n <= i
    BY <1>10, <2>1
  <2>3. i = n
    BY <1>0, <1>3, <2>2
  <2> QED
    BY <1>6, <2>3
<1>11. ASSUME NEW i \in Cooling(more, m), \A j \in Cooling(more, m) : j <= i
       PROVE  b.until[m] = more[i].closed + cooldown_minutes
  <2>1. CASE n \in Cooling(more, m)
    <3>1. i = n
      BY <1>0, <1>3, <1>9, <1>11, <2>1
    <3> QED
      BY <1>1, <1>5, <1>7, <2>1, <3>1
  <2>2. CASE n \notin Cooling(more, m)
    <3>1. i \in L /\ i \in Cooling(rows, m) /\ \A j \in Cooling(rows, m) : j <= i
      BY <1>8, <1>9, <1>11, <2>2
    <3>2. a.until[m] = rows[i].closed + cooldown_minutes
      BY <3>1 DEF Streaky
    <3>3. b.until[m] = a.until[m]
      BY <1>5, <1>7, <2>2
    <3> QED
      BY <1>2, <3>1, <3>2, <3>3
  <2> QED
    BY <2>1, <2>2
<1>12. OfThisLife(more, m) # {}
  BY <1>1
<1> QED
  BY <1>10, <1>11, <1>12 DEF Streaky

\* A close is counted in memory as it is recorded.
LEMMA CloseFollows ==
  ASSUME NEW w \in World, NEW v \in World, NEW trade \in Trade,
         v.db.trades = Append(w.db.trades, trade), life \in 1 .. Len(w.db.trades) + 1,
         Counts(v.mem, w.mem, trade.model, trade.lost, trade.closed)
  PROVE  Follows(v, w)
<1>1. OneMore(w.db.trades, v.db.trades, trade)
  BY WorldIs DEF OneMore
<1>2. trade.model \in Models
  BY DEF Trade
<1>3. LossesCounted(w) => LossesCounted(v)
  BY <1>1, CloseCountsLosses DEF LossesCounted
<1>4. ASSUME StreakCounted(w), NEW m \in Models
      PROVE  Streaky(v.db.trades, v.mem, m)
  <2>1. Streaky(w.db.trades, w.mem, m)
    BY <1>4, StreakCountedIs
  <2>2. CASE m = trade.model
    <3>1. w.mem.losses[m] \in Nat /\ Counts(v.mem, w.mem, m, trade.lost, trade.closed)
      BY <2>2, DailyType
    <3> DEFINE rows == w.db.trades
               more == v.db.trades
               a == w.mem
               b == v.mem
    <3>2. /\ OneMore(rows, more, trade) /\ a.losses[m] \in Nat /\ m = trade.model
          /\ Counts(b, a, m, trade.lost, trade.closed) /\ Streaky(rows, a, m)
      BY <1>1, <2>1, <2>2, <3>1
    <3> HIDE DEF rows, more, a, b
    <3>3. Streaky(more, b, m)
      BY ONLY <3>2, ThisStreak
    <3> QED
      BY <3>3 DEF more, b
  <2>3. CASE m # trade.model
    <3>1. SameBrakes(v.mem, w.mem, m)
      BY <2>3 DEF Counts
    <3> QED
      BY <1>1, <2>1, <2>3, <3>1, OtherStreak
  <2> QED
    BY <2>2, <2>3
<1>5. StreakCounted(w) => StreakCounted(v)
  BY <1>4, StreakCountedIs
<1>6. \A x \in Models, day \in Days : w.mem.daily[x][day] <= v.mem.daily[x][day]
  BY <1>1, CloseCountsLosses
<1> QED
  BY <1>3, <1>5, <1>6 DEF Follows

-----------------------------------------------------------------------------
(* The brakes through a tick *)

\* A close, whatever it does to the exits
LEMMA RegisterFollows ==
  ASSUME NEW w \in World, NEW m \in Models, NEW pos \in w.db.positions,
         pos.open, pos.model = m, Booked(w.db), life \in 1 .. Len(w.db.trades) + 1,
         NEW lost \in BOOLEAN, NEW time \in Nat,
         NEW reason \in {"stop", "target", "opposite_signal"},
         NEW after, after = register_close(w, m, pos, lost, reason, time),
         NEW v \in World, v.db = after.db, \A x \in Models : SameBrakes(v.mem, after.mem, x)
  PROVE  /\ Follows(v, w)
         /\ \A x \in Models \ {m} : SameBrakes(v.mem, w.mem, x)
         /\ \A p \in v.db.positions : p.open => p \in w.db.positions
<1>1. /\ after \in World /\ after.mem = close_in_memory(w, m, pos, lost, time)
  BY CloseDoes
<1>2. PICK trade \in Trade :
        /\ trade.closed = time /\ trade.lost = lost
        /\ Closes(w.db, after.db, pos, trade)
  BY CloseDoes
<1>3. trade.model = m /\ v.db.trades = Append(w.db.trades, trade)
  BY <1>2 DEF Closes
<1>4. Counts(after.mem, w.mem, m, lost, time)
  BY <1>1, CloseInMemoryCounts
<1>5. after.db.trades = v.db.trades
  OBVIOUS
<1>6. Follows(after, w)
  BY <1>1, <1>2, <1>3, <1>4, <1>5, CloseFollows
<1>7. Follows(v, after)
  BY <1>1, <1>5, SameFollows
<1>8. Follows(v, w)
  BY <1>1, <1>6, <1>7, FollowsOn
<1>9. \A x \in Models \ {m} : SameBrakes(v.mem, w.mem, x)
  BY <1>4 DEF Counts, SameBrakes
<1>10. \A p \in v.db.positions : p.open => p \in w.db.positions
  <2>1. pos \in Position
    BY WorldIs
  <2>2. ~ Ended(pos).open
    BY <2>1, EndedIs
  <2> QED
    BY <1>2, <2>2 DEF Closes
<1> QED
  BY <1>8, <1>9, <1>10

\* A model whose position ended on this candle is out of it for the rest of the tick; the
\* brakes of another are as they were.
OutOrIdle(v, w, s, time) ==
  /\ \A x \in Models : v.mem.exit[x][s] = time \/ SameBrakes(v.mem, w.mem, x)
  /\ \A x \in Models : w.mem.exit[x][s] = time => v.mem.exit[x][s] = time
OpenBefore(v, w) == \A p \in v.db.positions : p.open => p \in w.db.positions

\* A stop or target keeps the memory right.
LEMMA StopOrTargetFollows ==
  ASSUME NEW w \in World, NEW m \in Models, NEW s \in Symbols, NEW time \in Nat,
         Booked(w.db), life \in 1 .. Len(w.db.trades) + 1,
         NEW touched \in SUBSET {"stop", "target"}, NEW lost \in BOOLEAN,
         NEW v \in World, v = StopOrTarget(w, m, s, time, touched, lost)
  PROVE  Follows(v, w) /\ OutOrIdle(v, w, s, time) /\ OpenBefore(v, w)
<1> DEFINE hit == {p \in open_position(w, m, s) : time > p.opened}
           reason == IF "stop" \in touched THEN "stop" ELSE "target"
           pos == CHOOSE p \in hit : TRUE
           after == register_close(w, m, pos, reason = "stop" \/ lost, reason, time)
<1>1. CASE hit = {} \/ touched = {}
  <2>1. v = w
    BY <1>1 DEF StopOrTarget
  <2>2. \A x \in Models : SameBrakes(v.mem, w.mem, x)
    BY <2>1 DEF SameBrakes
  <2>3. Follows(v, w)
    BY <2>1, <2>2, SameFollows
  <2> QED
    BY <2>1, <2>2, <2>3 DEF OutOrIdle, OpenBefore
<1>2. CASE ~ (hit = {} \/ touched = {})
  <2>1. v = [after EXCEPT !.mem.exit[m][s] = time]
    BY <1>2 DEF StopOrTarget
  <2>2. pos \in hit
    BY <1>2
  <2>3. pos \in w.db.positions /\ pos.model = m /\ pos.open /\ pos.symbol = s
    BY <2>2 DEF open_position, open_positions
  <2>4. reason \in {"stop", "target", "opposite_signal"}
    OBVIOUS
  <2> HIDE DEF hit, pos, reason
  <2> DEFINE loses == reason = "stop" \/ lost
  <2>5. loses \in BOOLEAN /\ after = register_close(w, m, pos, loses, reason, time)
    OBVIOUS
  <2> HIDE DEF loses, after
  <2>6. after \in World /\ after.mem.exit = w.mem.exit
    BY <2>3, <2>4, <2>5, CloseDoes
  <2>7. /\ v.db = after.db
        /\ v.mem.losses = after.mem.losses /\ v.mem.until = after.mem.until
        /\ v.mem.daily = after.mem.daily
        /\ v.mem.exit = [after.mem.exit EXCEPT ![m][s] = time]
    <3> DEFINE memory == [after.mem EXCEPT !.exit[m][s] = time]
    <3>1. v = [after EXCEPT !.mem = memory]
      BY <2>1
    <3>2. after.mem \in Memory
      BY <2>6, WorldIs
    <3>3. /\ memory.losses = after.mem.losses /\ memory.until = after.mem.until
          /\ memory.daily = after.mem.daily
          /\ memory.exit = [after.mem.exit EXCEPT ![m][s] = time]
      BY <3>2 DEF Memory
    <3> HIDE DEF memory
    <3>4. v.db = after.db /\ v.mem = memory
      BY <2>6, <3>1 DEF World
    <3> QED
      BY <3>3, <3>4
  <2>8. \A x \in Models : SameBrakes(v.mem, after.mem, x)
    BY <2>7 DEF SameBrakes
  <2>9. /\ Follows(v, w)
        /\ \A x \in Models \ {m} : SameBrakes(v.mem, w.mem, x)
        /\ \A p \in v.db.positions : p.open => p \in w.db.positions
    BY <2>3, <2>4, <2>5, <2>7, <2>8, RegisterFollows
  <2>10. w.mem.exit \in [Models -> [Symbols -> Nat]]
    BY WorldIs
  <2>11. /\ v.mem.exit[m][s] = time
         /\ \A x \in Models : w.mem.exit[x][s] = time => v.mem.exit[x][s] = time
    BY <2>6, <2>7, <2>10
  <2> QED
    BY <2>9, <2>11 DEF OutOrIdle, OpenBefore
<1> QED
  BY <1>1, <1>2

\* What lets a model enter
Allowed(w, p, s, time) ==
  /\ p.model \in Models /\ w.mem.exit[p.model][s] # time
  /\ ~ p.opened < w.mem.until[p.model]
  /\ w.mem.daily[p.model][DayOf(p.opened)] < max_daily_loss

\* Nothing is open that was not, but what was allowed, at the opening of the signal's bucket.
OnlyAllowed(v, w, models, signal, s, time) ==
  \A p \in v.db.positions :
    p.open => \/ p \in w.db.positions
              \/ p.model \in models /\ p.opened = signal.source /\ Allowed(w, p, s, time)

\* Which experiment is in use makes no difference to the brakes.
LEMMA ExperimentFollows ==
  ASSUME config \in Configs, NEW w \in World, NEW m \in Models
  PROVE  \A x \in Models : SameBrakes(experiment_id(w, m).mem, w.mem, x)
<1> DEFINE v == experiment_id(w, m)
<1>1. v.mem = w.mem \/ \E k : v.mem = [w.mem EXCEPT !.experiment[m] = k]
  <2> DEFINE rows == w.db.experiments
             active == {i \in DOMAIN rows : rows[i].model = m /\ rows[i].active}
             same == {i \in active : rows[i].config = config}
  <2>1. CASE w.mem.experiment[m] # 0
    <3>1. v = w
      BY <2>1 DEF experiment_id
    <3> QED
      BY <3>1
  <2>2. CASE w.mem.experiment[m] = 0 /\ same # {}
    <3>1. v = [w EXCEPT !.mem.experiment[m] = CHOOSE i \in same : TRUE]
      BY <2>2 DEF experiment_id
    <3> HIDE DEF v, same
    <3>2. v.mem = [w.mem EXCEPT !.experiment[m] = CHOOSE i \in same : TRUE]
      BY <3>1 DEF World
    <3> QED
      BY <3>2
  <2>3. CASE w.mem.experiment[m] = 0 /\ same = {}
    <3>1. v.mem = [w.mem EXCEPT !.experiment[m] = Len(rows) + 1]
      BY <2>3 DEF experiment_id
    <3> QED
      BY <3>1
  <2> QED
    BY <2>1, <2>2, <2>3
<1> HIDE DEF v
<1>2. w.mem \in Memory
  BY WorldIs
<1>3. v.mem.losses = w.mem.losses /\ v.mem.until = w.mem.until /\ v.mem.daily = w.mem.daily
  BY <1>1, <1>2 DEF Memory
<1> QED
  BY <1>3 DEF SameBrakes, v

\* A signal leaves the exits, and the brakes of the other model.
OthersSame(v, w, m) ==
  v.mem.exit = w.mem.exit /\ \A x \in Models \ {m} : SameBrakes(v.mem, w.mem, x)

\* A signal keeps the memory right, and only enters where the memory allows it.
LEMMA SignalledFollows ==
  ASSUME config \in Configs, NEW world \in World, NEW m \in Models, NEW s \in Symbols,
         NEW signal \in AnySignal, NEW time \in Nat,
         Booked(world.db), life \in 1 .. Len(world.db.trades) + 1,
         NEW v \in World, v = Signalled(world, m, s, signal, time)
  PROVE  /\ Follows(v, world) /\ OthersSame(v, world, m)
         /\ OnlyAllowed(v, world, {m}, signal, s, time)
<1> DEFINE w == experiment_id(world, m)
           seen == \E i \in DOMAIN w.db.opportunities :
                     /\ w.db.opportunities[i].experiment = w.mem.experiment[m]
                     /\ w.db.opportunities[i].symbol = s
                     /\ w.db.opportunities[i].source = signal.source
           opposed == {p \in open_position(w, m, s) : p.side # signal.direction}
           approved == PortfolioAllows(w, m, s, signal)
           exited == ExitedThisTick(w, m, s, time)
<1>1. /\ w \in World /\ w.db.positions = world.db.positions
      /\ w.db.trades = world.db.trades /\ w.mem.exit = world.mem.exit
  BY ExperimentType DEF SameButExperiments
<1>2. \A x \in Models : SameBrakes(w.mem, world.mem, x)
  BY ExperimentFollows
<1>3. v = CASE seen -> w
            [] ~ seen /\ exited -> WithOpportunity(w, m, s, signal, time, FALSE)
            [] ~ seen /\ ~ exited /\ opposed # {} ->
                 WithOpportunity(
                   register_close(w, m, CHOOSE p \in opposed : TRUE, signal.lost,
                                  "opposite_signal", signal.source),
                   m, s, signal, time, FALSE)
            [] OTHER ->
                 IF approved
                 THEN Opened(WithOpportunity(w, m, s, signal, time, approved), m, s, signal, time)
                 ELSE WithOpportunity(w, m, s, signal, time, approved)
  BY DEF Signalled
<1>4. opposed # {} =>
        /\ (CHOOSE p \in opposed : TRUE) \in w.db.positions
        /\ (CHOOSE p \in opposed : TRUE).model = m /\ (CHOOSE p \in opposed : TRUE).open
  BY DEF open_position, open_positions
<1>5. ~ exited => w.mem.exit[m][s] # time
  BY DEF ExitedThisTick
<1>6. /\ approved \in BOOLEAN
      /\ approved => /\ ~ signal.source < w.mem.until[m]
                     /\ w.mem.daily[m][DayOf(signal.source)] < max_daily_loss
  BY DEF PortfolioAllows
<1>7. signal.source \in Nat /\ signal.lost \in BOOLEAN
  BY DEF AnySignal
<1>8. Booked(w.db)
  <2>1. w.db.opportunities = world.db.opportunities
    BY ExperimentType DEF SameButExperiments
  <2> QED
    BY <1>1, <2>1 DEF Booked
<1> HIDE DEF w, seen, opposed, approved, exited
<1>9. ASSUME NEW u \in World, u.db.trades = w.db.trades, u.db.positions = w.db.positions, u.mem = w.mem
      PROVE  /\ Follows(u, world) /\ u.mem.exit = world.mem.exit
             /\ \A x \in Models : SameBrakes(u.mem, world.mem, x)
             /\ OpenBefore(u, world)
  <2>1. u.db.trades = world.db.trades /\ \A x \in Models : SameBrakes(u.mem, world.mem, x)
    BY <1>1, <1>2, <1>9
  <2>2. Follows(u, world)
    BY <2>1, SameFollows
  <2> QED
    BY <1>1, <1>9, <2>1, <2>2 DEF OpenBefore
<1>10. \A approves \in BOOLEAN, u \in World :
         LET told == WithOpportunity(u, m, s, signal, time, approves)
         IN  /\ told \in World /\ told.mem = u.mem
             /\ told.db.positions = u.db.positions /\ told.db.trades = u.db.trades
  BY <1>7, OpportunityDoes DEF Recorded
<1>11. CASE seen
  <2>1. v = w
    BY <1>3, <1>11
  <2> QED
    BY <1>1, <1>9, <2>1 DEF OpenBefore, OnlyAllowed, OthersSame
<1>12. CASE ~ seen /\ exited
  <2>1. PICK refused \in BOOLEAN : v = WithOpportunity(w, m, s, signal, time, refused)
    BY <1>3, <1>12
  <2>2. v.db.trades = w.db.trades /\ v.db.positions = w.db.positions /\ v.mem = w.mem
    BY <1>1, <1>10, <2>1
  <2> QED
    BY <1>9, <2>2 DEF OpenBefore, OnlyAllowed, OthersSame
<1>13. CASE ~ seen /\ ~ exited /\ opposed # {}
  <2> DEFINE pos == CHOOSE p \in opposed : TRUE
             after == register_close(w, m, pos, signal.lost, "opposite_signal", signal.source)
  <2>1. PICK refused \in BOOLEAN : v = WithOpportunity(after, m, s, signal, time, refused)
    BY <1>3, <1>13
  <2>2. pos \in w.db.positions /\ pos.model = m /\ pos.open
    BY <1>4, <1>13
  <2> HIDE DEF pos
  <2>3. PICK reason \in {"stop", "target", "opposite_signal"}, lost \in BOOLEAN, at \in Nat :
          after = register_close(w, m, pos, lost, reason, at)
    BY <1>7
  <2> HIDE DEF after
  <2>4. after \in World /\ after.mem.exit = w.mem.exit
    <3>1. /\ w \in World /\ Booked(w.db)
          /\ pos \in w.db.positions /\ pos.open /\ pos.model = m
      BY <1>1, <1>8, <2>2
    <3> QED
      BY ONLY <2>3, <3>1, CloseDoes, m \in Models
  <2>5. life \in 1 .. Len(w.db.trades) + 1 /\ \A x \in Models : SameBrakes(after.mem, after.mem, x)
    BY <1>1 DEF SameBrakes
  <2>6. /\ Follows(after, w)
        /\ \A x \in Models \ {m} : SameBrakes(after.mem, w.mem, x)
        /\ \A p \in after.db.positions : p.open => p \in w.db.positions
    <3>1. /\ w \in World /\ Booked(w.db)
          /\ pos \in w.db.positions /\ pos.open /\ pos.model = m
      BY <1>1, <1>8, <2>2
    <3>2. after \in World /\ after.db = after.db
      BY <2>4
    <3> QED
      BY ONLY SMTT(30), <2>3, <2>5, <3>1, <3>2, RegisterFollows, m \in Models
  <2>7. /\ v.db.trades = after.db.trades /\ v.db.positions = after.db.positions
        /\ v.mem = after.mem
    BY <1>10, <2>1, <2>4
  <2>8. \A x \in Models : SameBrakes(v.mem, after.mem, x)
    BY <2>7 DEF SameBrakes
  <2>9. Follows(v, after)
    BY <2>4, <2>7, <2>8, SameFollows
  <2>10. Follows(w, world)
    BY <1>1, <1>9
  <2>11. Follows(v, world)
    BY <1>1, <2>4, <2>6, <2>9, <2>10, FollowsOn
  <2>12. \A x \in Models \ {m} : SameBrakes(v.mem, world.mem, x)
    BY <1>2, <2>6, <2>7 DEF SameBrakes
  <2>13. OnlyAllowed(v, world, {m}, signal, s, time)
    BY <1>1, <2>6, <2>7 DEF OnlyAllowed
  <2> QED
    BY <1>1, <2>4, <2>7, <2>11, <2>12, <2>13 DEF OthersSame
<1>14. CASE ~ seen /\ ~ exited /\ opposed = {} /\ approved
  <2> DEFINE told == WithOpportunity(w, m, s, signal, time, approved)
  <2>1. v = Opened(told, m, s, signal, time)
    BY <1>3, <1>6, <1>14
  <2>2. /\ told \in World /\ told.mem = w.mem
        /\ told.db.positions = w.db.positions /\ told.db.trades = w.db.trades
    BY <1>1, <1>6, <1>10
  <2> HIDE DEF told
  <2> DEFINE p == [experiment |-> told.mem.experiment[m], model |-> m, symbol |-> s,
                   side |-> signal.direction,
                   notional |-> Lesser(max_position_usd,
                                       max_total_exposure_usd - open_exposure(told, m)),
                   opened |-> signal.source, at |-> time, open |-> TRUE]
  <2>3. /\ v = [told EXCEPT !.db.positions = told.db.positions \union {p}]
        /\ p.model = m /\ p.opened = signal.source
    BY <2>1 DEF Opened
  <2> HIDE DEF p
  <2>4. /\ v.mem = w.mem /\ v.db.trades = w.db.trades
        /\ v.db.positions = w.db.positions \union {p}
    <3> DEFINE d == [told.db EXCEPT !.positions = told.db.positions \union {p}]
    <3>1. d.positions = told.db.positions \union {p} /\ d.trades = told.db.trades
      BY <2>2, WorldIs DEF Database
    <3>2. v = [told EXCEPT !.db = d]
      BY <2>3
    <3> HIDE DEF d
    <3>3. v.mem = told.mem /\ v.db = d
      BY <2>2, <3>2 DEF World
    <3> QED
      BY <2>2, <3>1, <3>3
  <2>5. Follows(v, world)
    <3>1. v.db.trades = world.db.trades /\ \A x \in Models : SameBrakes(v.mem, world.mem, x)
      BY <1>1, <1>2, <2>4
    <3> QED
      BY <3>1, SameFollows
  <2>6. Allowed(world, p, s, time)
    BY <1>1, <1>2, <1>5, <1>6, <1>14, <2>3 DEF Allowed, SameBrakes
  <2>7. OnlyAllowed(v, world, {m}, signal, s, time)
    BY <1>1, <2>3, <2>4, <2>6 DEF OnlyAllowed
  <2> QED
    BY <1>1, <1>2, <2>4, <2>5, <2>7 DEF OthersSame
<1>15. CASE ~ seen /\ ~ exited /\ opposed = {} /\ ~ approved
  <2>1. v = WithOpportunity(w, m, s, signal, time, approved)
    BY <1>3, <1>15
  <2>2. v.db.trades = w.db.trades /\ v.db.positions = w.db.positions /\ v.mem = w.mem
    BY <1>1, <1>6, <1>10, <2>1
  <2> QED
    BY <1>9, <2>2 DEF OpenBefore, OnlyAllowed, OthersSame
<1> QED
  BY <1>11, <1>12, <1>13, <1>14, <1>15

\* What a savepoint that failed leaves: as many losses as there were, or more
CountsNoLess(v, w) ==
  \A x \in Models, day \in Days : w.mem.daily[x][day] <= v.mem.daily[x][day]
KeepsCount(v, w) == (LossesCounted(w) => LossesCounted(v)) /\ CountsNoLess(v, w)

\* A savepoint that is undone takes back rows and leaves the memory counting no less.
LEMMA TakenBack ==
  ASSUME NEW w \in World, NEW u \in World, NEW v \in World, Follows(u, w),
         v.db = w.db, v.mem = u.mem, life \in 1 .. Len(w.db.trades) + 1
  PROVE  KeepsCount(v, w)
<1>1. \A x \in Models, day \in Days : w.mem.daily[x][day] <= v.mem.daily[x][day]
  BY DEF Follows
<1>2. v.db.trades = w.db.trades
  OBVIOUS
<1> QED
  BY <1>1, <1>2, LossesStayCounted DEF KeepsCount, CountsNoLess

\* A part of a tick: what its first model makes of w, then both, and what is left of that
LEMMA StageFollows ==
  ASSUME NEW w \in World, NEW first \in World, NEW both \in World,
         Follows(first, w), Follows(both, first), life \in 1 .. Len(w.db.trades) + 1,
         NEW reached \in Reach, NEW v, v = run_shadow(w, first, both, reached)
  PROVE  /\ v \in World /\ KeepsCount(v, w)
         /\ reached = "end" => v = both /\ (StreakCounted(w) => StreakCounted(v))
         /\ reached # "end" => v.db = w.db
         /\ v.mem \in {first.mem, both.mem}
<1>1. Follows(both, w)
  BY FollowsOn
<1>2. CASE reached = "end"
  <2>1. v = both
    BY <1>2 DEF run_shadow
  <2> QED
    BY <1>1, <1>2, <2>1 DEF Follows, KeepsCount, CountsNoLess
<1>3. CASE reached # "end"
  <2>1. PICK u \in {first, both} : v = [w EXCEPT !.mem = u.mem]
    BY <1>3 DEF run_shadow, Reach
  <2>2. u \in World /\ u.mem \in Memory /\ Follows(u, w)
    BY <1>1, <2>1, WorldIs
  <2>3. v \in World /\ v.db = w.db /\ v.mem = u.mem
    BY <2>1, <2>2 DEF World
  <2> QED
    BY <1>3, <2>1, <2>2, <2>3, TakenBack
<1> QED
  BY <1>2, <1>3

\* Lives are about lengths only.
LEMMA LifeFurther ==
  ASSUME NEW v \in World, NEW w \in World, life \in 1 .. Len(w.db.trades) + 1,
         Len(w.db.trades) <= Len(v.db.trades)
  PROVE  life \in 1 .. Len(v.db.trades) + 1
<1> DEFINE a == Len(w.db.trades)
           b == Len(v.db.trades)
<1>1. a \in Nat /\ b \in Nat /\ a <= b /\ life \in 1 .. a + 1
  BY WorldIs
<1> HIDE DEF a, b
<1>2. life \in 1 .. b + 1
  BY <1>1
<1> QED
  BY <1>2 DEF b

\* The candle, for both models
LEMMA CandleFollows ==
  ASSUME NEW w \in World, NEW s \in Symbols, NEW candles \in Candles,
         NEW time \in Nat, candles[s] = time, RowsInv(w.db, candles), NoneYet(w, s, time),
         \A i \in DOMAIN w.db.trades :
           w.db.trades[i].reason # "opposite_signal" /\ w.db.trades[i].symbol = s
           => w.db.trades[i].closed # time,
         life \in 1 .. Len(w.db.trades) + 1,
         NEW touched \in [Models -> SUBSET {"stop", "target"}], NEW lost \in BOOLEAN,
         NEW first, first = StopOrTarget(w, MODELS[1], s, time, touched[MODELS[1]], lost),
         NEW both, both = StopOrTarget(first, MODELS[2], s, time, touched[MODELS[2]], lost),
         NEW reached \in Reach, NEW v, v = run_shadow(w, first, both, reached)
  PROVE  /\ v \in World /\ KeepsCount(v, w)
         /\ reached = "end" => (StreakCounted(w) => StreakCounted(v))
         /\ OutOrIdle(v, w, s, time) /\ OpenBefore(v, w)
<1>1. ExitsKnown(w, s, time)
  BY DEF ExitsKnown
<1>2. /\ MODELS[1] \in Models /\ MODELS[2] \in Models
      /\ touched[MODELS[1]] \in SUBSET {"stop", "target"}
      /\ touched[MODELS[2]] \in SUBSET {"stop", "target"}
  BY ModelsAreTwo DEF TwoModels
<1>3. /\ first \in World /\ RowsInv(first.db, candles)
      /\ NoneYet(first, s, time) /\ ExitsKnown(first, s, time)
      /\ Len(w.db.trades) <= Len(first.db.trades)
  BY <1>1, <1>2, StopOrTargetKeeps
<1>4. both \in World
  BY <1>2, <1>3, StopOrTargetKeeps
<1>5. life \in 1 .. Len(first.db.trades) + 1
  BY <1>3, LifeFurther
<1>6. Booked(w.db) /\ Booked(first.db)
  BY <1>3 DEF RowsInv
<1>7. Follows(first, w) /\ OutOrIdle(first, w, s, time) /\ OpenBefore(first, w)
  BY <1>2, <1>3, <1>6, StopOrTargetFollows
<1>8. Follows(both, first) /\ OutOrIdle(both, first, s, time) /\ OpenBefore(both, first)
  BY <1>2, <1>3, <1>4, <1>5, <1>6, StopOrTargetFollows
<1>9. /\ v \in World /\ KeepsCount(v, w)
      /\ reached = "end" => v = both /\ (StreakCounted(w) => StreakCounted(v))
      /\ reached # "end" => v.db = w.db
      /\ v.mem \in {first.mem, both.mem}
  BY SMTT(30), <1>3, <1>4, <1>7, <1>8, StageFollows
<1>10. OutOrIdle(both, w, s, time)
  <2>1. \A x \in Models :
          /\ first.mem.exit[x][s] = time \/ SameBrakes(first.mem, w.mem, x)
          /\ both.mem.exit[x][s] = time \/ SameBrakes(both.mem, first.mem, x)
          /\ w.mem.exit[x][s] = time => first.mem.exit[x][s] = time
          /\ first.mem.exit[x][s] = time => both.mem.exit[x][s] = time
    BY <1>7, <1>8 DEF OutOrIdle
  <2>2. \A x \in Models : SameBrakes(both.mem, first.mem, x) /\ SameBrakes(first.mem, w.mem, x)
                            => SameBrakes(both.mem, w.mem, x)
    BY DEF SameBrakes
  <2> QED
    BY <2>1, <2>2 DEF OutOrIdle
<1>11. OutOrIdle(v, w, s, time)
  BY ZenonT(60), <1>7, <1>9, <1>10 DEF OutOrIdle
<1>12. OpenBefore(v, w)
  BY <1>7, <1>8, <1>9 DEF OpenBefore
<1> QED
  BY <1>9, <1>11, <1>12

\* The signal, for both models
LEMMA SignalFollows ==
  ASSUME config \in Configs, NEW w \in World, NEW s \in Symbols, NEW candles \in Candles,
         NEW time \in Nat, candles[s] = time, RowsInv(w.db, candles), ExitsKnown(w, s, time),
         life \in 1 .. Len(w.db.trades) + 1, NEW signal \in AnySignal,
         NEW first, first = Signalled(w, MODELS[1], s, signal, time),
         NEW both, both = Signalled(first, MODELS[2], s, signal, time),
         NEW reached \in Reach, NEW v, v = run_shadow(w, first, both, reached)
  PROVE  /\ v \in World /\ KeepsCount(v, w)
         /\ reached = "end" => (StreakCounted(w) => StreakCounted(v))
         /\ OnlyAllowed(v, w, Models, signal, s, time)
<1>1. MODELS[1] \in Models /\ MODELS[2] \in Models /\ MODELS[1] # MODELS[2]
  BY ModelsAreTwo DEF TwoModels
<1>2. /\ first \in World /\ RowsInv(first.db, candles) /\ ExitsKnown(first, s, time)
      /\ Len(w.db.trades) <= Len(first.db.trades)
  BY <1>1, SignalledKeeps
<1>3. both \in World
  BY <1>1, <1>2, SignalledKeeps
<1>4. life \in 1 .. Len(first.db.trades) + 1
  BY <1>2, LifeFurther
<1>5. Booked(w.db) /\ Booked(first.db)
  BY <1>2 DEF RowsInv
<1>6. /\ Follows(first, w) /\ OthersSame(first, w, MODELS[1])
      /\ OnlyAllowed(first, w, {MODELS[1]}, signal, s, time)
  BY <1>1, <1>2, <1>5, SignalledFollows
<1>7. Follows(both, first) /\ OnlyAllowed(both, first, {MODELS[2]}, signal, s, time)
  BY <1>1, <1>2, <1>3, <1>4, <1>5, SignalledFollows
<1>8. /\ v \in World /\ KeepsCount(v, w)
      /\ reached = "end" => v = both /\ (StreakCounted(w) => StreakCounted(v))
      /\ reached # "end" => v.db = w.db
  BY <1>2, <1>3, <1>6, <1>7, StageFollows
<1>9. SameBrakes(first.mem, w.mem, MODELS[2])
  BY <1>1, <1>6 DEF OthersSame
<1>10. ASSUME NEW p \in both.db.positions, p.open
       PROVE  \/ p \in w.db.positions
              \/ p.model \in Models /\ p.opened = signal.source /\ Allowed(w, p, s, time)
  <2>1. \/ p \in first.db.positions
        \/ p.model = MODELS[2] /\ p.opened = signal.source /\ Allowed(first, p, s, time)
    BY <1>7, <1>10 DEF OnlyAllowed
  <2>2. CASE p \in first.db.positions
    BY <1>1, <1>6, <1>10, <2>2 DEF OnlyAllowed
  <2>3. CASE p.model = MODELS[2] /\ p.opened = signal.source /\ Allowed(first, p, s, time)
    BY <1>1, <1>6, <1>9, <2>3 DEF Allowed, SameBrakes, OthersSame
  <2> QED
    BY <2>1, <2>2, <2>3
<1>11. OnlyAllowed(v, w, Models, signal, s, time)
  BY <1>8, <1>10 DEF OnlyAllowed
<1> QED
  BY <1>8, <1>11

\* Counts and streaks of a world are about its trades and memory.
LEMMA SameCounts ==
  ASSUME NEW v, NEW w, v.db.trades = w.db.trades, v.mem = w.mem
  PROVE  (LossesCounted(w) <=> LossesCounted(v)) /\ (StreakCounted(w) <=> StreakCounted(v))
  BY DEF LossesCounted, StreakCounted

\* A tick from its beginning to its end: what is counted, and who may enter
Guarded(w, v, s, time) ==
  /\ KeepsCount(v, w)
  /\ \A p \in v.db.positions :
       p.open => \/ p \in w.db.positions
                 \/ /\ p.model \in Models /\ p.opened \in Nat /\ p.opened <= time
                    /\ ~ p.opened < w.mem.until[p.model]
                    /\ w.mem.daily[p.model][DayOf(p.opened)] < max_daily_loss

\* A whole tick keeps the memory right, and enters only where it allowed it before.
LEMMA TickGuarded ==
  ASSUME ShadowInv, NEW s \in Symbols, NEW time, time = clock[s] + 1,
         NEW touched \in [Models -> SUBSET {"stop", "target"}], NEW lost \in BOOLEAN,
         NEW signal \in Signals(time), NEW fate \in Fates, NEW exited, NEW after,
         TickOf(s, exited, after, time, touched, lost, signal, fate)
  PROVE  /\ after \in World /\ Guarded(Begun, after, s, time)
         /\ fate.candle = "end" /\ fate.signal = "end" /\ StreakCounted(Begun)
            => StreakCounted(after)
<1> DEFINE candles == [clock EXCEPT ![s] = time]
           w == Begun
<1>1. config \in Configs /\ life \in 1 .. Len(db.trades) + 1
  BY DEF ShadowInv, TypeOK
<1>2. TickBegun(w, s, time, candles)
  BY TickBegins
<1>3. fate.candle \in Reach /\ fate.signal \in Reach
  BY DEF Fates
<1>4. /\ exited = CandlePart(w, s, time, touched, lost, fate.candle)
      /\ after = SignalPart(exited, s, time, signal, fate.signal)
  BY DEF TickOf
<1> HIDE DEF w, candles
<1>5. w \in World /\ w.db = db /\ w.mem = mem /\ time \in Nat
  BY <1>2 DEF TickBegun
<1>6. life \in 1 .. Len(w.db.trades) + 1
  BY <1>1, <1>5
<1> DEFINE first == StopOrTarget(w, MODELS[1], s, time, touched[MODELS[1]], lost)
           both == StopOrTarget(first, MODELS[2], s, time, touched[MODELS[2]], lost)
<1>7. exited = run_shadow(w, first, both, fate.candle)
  BY <1>4 DEF CandlePart
<1>8. /\ exited \in World /\ RowsInv(exited.db, candles) /\ ExitsKnown(exited, s, time)
      /\ Len(w.db.trades) <= Len(exited.db.trades)
  BY <1>2, <1>3, <1>7, CandleStage DEF TickBegun
<1>9. /\ KeepsCount(exited, w)
      /\ fate.candle = "end" => (StreakCounted(w) => StreakCounted(exited))
      /\ OutOrIdle(exited, w, s, time) /\ OpenBefore(exited, w)
  BY <1>2, <1>3, <1>6, <1>7, CandleFollows DEF TickBegun
<1> HIDE DEF first, both
<1>10. life \in 1 .. Len(exited.db.trades) + 1
  BY <1>5, <1>6, <1>8, LifeFurther
<1>11. CASE signal = Hold
  <2>1. after.db = exited.db /\ after.mem = exited.mem /\ after = exited
    BY <1>3, <1>4, <1>8, <1>11 DEF SignalPart, run_shadow, Reach, World
  <2>2. Guarded(w, after, s, time)
    BY <1>9, <2>1 DEF Guarded, OpenBefore
  <2> QED
    BY <1>8, <1>9, <2>1, <2>2 DEF w
<1>12. CASE signal # Hold
  <2> DEFINE told == Signalled(exited, MODELS[1], s, signal, time)
             all == Signalled(told, MODELS[2], s, signal, time)
  <2>1. signal \in AnySignal
    BY <1>5, <1>12, SignalIs
  <2>2. after = run_shadow(exited, told, all, fate.signal)
    BY <1>4, <1>12 DEF SignalPart
  <2>3. candles[s] = time /\ candles \in Candles
    BY <1>2 DEF TickBegun
  <2>4. /\ after \in World /\ KeepsCount(after, exited)
        /\ fate.signal = "end" => (StreakCounted(exited) => StreakCounted(after))
        /\ OnlyAllowed(after, exited, Models, signal, s, time)
    BY <1>1, <1>3, <1>5, <1>8, <1>10, <2>1, <2>2, <2>3, SignalFollows
  <2>5. KeepsCount(after, w)
    <3>1. \A x \in Models, day \in Days :
            /\ w.mem.daily[x][day] <= exited.mem.daily[x][day]
            /\ exited.mem.daily[x][day] <= after.mem.daily[x][day]
            /\ w.mem.daily[x][day] \in Nat /\ exited.mem.daily[x][day] \in Nat
            /\ after.mem.daily[x][day] \in Nat
      BY <1>5, <1>8, <1>9, <2>4, DailyType DEF KeepsCount, CountsNoLess
    <3>2. CountsNoLess(after, w)
      BY <3>1 DEF CountsNoLess
    <3> QED
      BY <1>9, <2>4, <3>2 DEF KeepsCount
  <2>6. signal.source \in Nat /\ signal.source <= time
    <3>1. signal.source = time - Bucket + 1 /\ signal.source \in Nat
      BY <1>12, <2>1 DEF Signals, AnySignal
    <3> QED
      BY <1>5, <3>1, ShadowAssumption
  <2>7. ASSUME NEW p \in after.db.positions, p.open, p \notin w.db.positions
        PROVE  /\ p.model \in Models /\ p.opened \in Nat /\ p.opened <= time
               /\ ~ p.opened < w.mem.until[p.model]
               /\ w.mem.daily[p.model][DayOf(p.opened)] < max_daily_loss
    <3>1. p \notin exited.db.positions
      BY <1>9, <2>7 DEF OpenBefore
    <3>2. p.opened = signal.source /\ Allowed(exited, p, s, time)
      BY <2>4, <2>7, <3>1 DEF OnlyAllowed
    <3>3. SameBrakes(exited.mem, w.mem, p.model)
      BY <1>9, <3>2 DEF OutOrIdle, Allowed
    <3> QED
      BY <2>6, <3>2, <3>3 DEF Allowed, SameBrakes
  <2>8. Guarded(w, after, s, time)
    BY <2>5, <2>7 DEF Guarded
  <2> QED
    BY <1>9, <2>4, <2>8 DEF w
<1> QED
  BY <1>11, <1>12

\* The brakes are kept by a tick, and hold at its entries.
LEMMA TickBrakes ==
  ASSUME ShadowInv, BrakesInv, NEW s \in Symbols, Tick(s)
  PROVE  /\ BrakesInv'
         /\ \A p \in db'.positions : p.open /\ p \notin db.positions => ~ Braked(p.model, p.opened)
<1> DEFINE time == clock[s] + 1
<1>1. /\ clock \in Candles /\ db \in Database /\ mem \in Memory /\ faults \in Nat
      /\ life \in 1 .. Len(db.trades) + 1 /\ life' = life /\ time <= MaxTime[s]
  BY TickIs, ShadowAssumption DEF ShadowInv, TypeOK, Candles
<1>2a. PICK touched \in [Models -> SUBSET {"stop", "target"}], lost \in BOOLEAN,
           signal \in Signals(time), fate \in Fates :
        \E exited, after :
          TickOf(s, exited, after, time, touched, lost, signal, fate)
  BY TickIs
<1>2. PICK exited, after : TickOf(s, exited, after, time, touched, lost, signal, fate)
  BY <1>2a
<1>3. /\ after \in World /\ Guarded(Begun, after, s, time)
      /\ fate.candle = "end" /\ fate.signal = "end" /\ StreakCounted(Begun)
         => StreakCounted(after)
  BY <1>2, TickGuarded
<1>4. /\ faults' = faults + Mishaps(fate) /\ mem' = after.mem
      /\ db' = IF fate.undone THEN db ELSE after.db
  BY <1>2 DEF TickOf
<1>5. time \in Nat
  BY <1>1 DEF Candles
<1> HIDE DEF time
<1>6. Begun.db = db /\ Begun.mem = mem /\ Begun \in World
  BY <1>1 DEF Begun, World
<1> DEFINE kept == IF fate.undone THEN [db |-> db, mem |-> after.mem] ELSE after
<1>7. kept \in World /\ kept.db = db' /\ kept.mem = mem' /\ (~ fate.undone => kept = after)
  BY <1>1, <1>3, <1>4, WorldIs DEF World
<1>8. LossesCounted(Begun)
  BY DEF BrakesInv, Begun
<1>9. LossesCounted(kept)
  <2>1. CASE fate.undone
    <3>1. kept.db.trades = Begun.db.trades /\ kept.mem = after.mem
      BY <1>4, <1>6, <1>7, <2>1
    <3>2. \A x \in Models, day \in Days : Begun.mem.daily[x][day] <= kept.mem.daily[x][day]
      BY <1>3, <3>1 DEF Guarded, KeepsCount, CountsNoLess
    <3> HIDE DEF kept
    <3> QED
      BY <1>1, <1>6, <1>7, <1>8, <3>1, <3>2, LossesStayCounted
  <2>2. CASE ~ fate.undone
    BY <1>3, <1>7, <1>8, <2>2 DEF Guarded, KeepsCount
  <2> QED
    BY <2>1, <2>2
<1>10. faults' = 0 => StreakCounted(kept)
  <2> SUFFICES ASSUME faults' = 0 PROVE StreakCounted(kept)
    OBVIOUS
  <2>1. fate \in [candle : Reach, signal : Reach, undone : BOOLEAN]
    BY DEF Fates
  <2>2. faults = 0 /\ Mishaps(fate) = 0
    BY <1>1, <1>4, <2>1, NoMishap
  <2>3. fate.candle = "end" /\ fate.signal = "end" /\ ~ fate.undone
    BY <2>1, <2>2, NoMishap
  <2>4. StreakCounted(Begun)
    BY <2>2 DEF BrakesInv, Begun
  <2> QED
    BY <1>3, <1>7, <2>3, <2>4
<1> HIDE DEF kept
<1>11. BrakesInv'
  <2>1. LossesCounted([db |-> db, mem |-> mem])' <=> LossesCounted(kept)
    BY <1>1, <1>7 DEF LossesCounted, LostOn, OfThisLife
  <2>2. StreakCounted([db |-> db, mem |-> mem])' <=> StreakCounted(kept)
    BY <1>1, <1>7 DEF StreakCounted, Cooling, InStreak, Streak, OfThisLife
  <2> QED
    BY <1>9, <1>10, <2>1, <2>2 DEF BrakesInv
<1>12. ASSUME NEW p \in db'.positions, p.open, p \notin db.positions
       PROVE  ~ Braked(p.model, p.opened)
  <2>1. p \in after.db.positions /\ p \notin Begun.db.positions
    BY <1>4, <1>6, <1>12
  <2>2. /\ p.model \in Models /\ p.opened \in Nat /\ p.opened <= time
        /\ ~ p.opened < mem.until[p.model]
        /\ mem.daily[p.model][DayOf(p.opened)] < max_daily_loss
    BY <1>3, <1>6, <1>12, <2>1 DEF Guarded
  <2> DEFINE m == p.model
             day == DayOf(p.opened)
             rows == db.trades
  <2>3. rows \in Seq(Trade) /\ life \in 1 .. Len(rows) + 1 /\ m \in Models
    BY <1>1, <2>2 DEF Database
  <2>4. ~ Cardinality(LostOn(rows, m, day)) >= max_daily_loss
    <3>1. day \in Days
      <4>1. p.opened <= MaxTime[s]
        BY <1>1, <1>5, <2>2, ShadowAssumption
      <4> QED
        BY <2>2, <4>1, DayKnown
    <3>2. Cardinality(LostOn(rows, m, day)) <= mem.daily[m][day]
      BY <1>6, <1>8, <2>2, <3>1 DEF LossesCounted
    <3>3. mem.daily[m][day] \in Nat /\ max_daily_loss \in Nat
      BY <1>6, <2>2, <3>1, DailyType, ShadowAssumption
    <3>4. Cardinality(LostOn(rows, m, day)) \in Nat
      BY <2>3, LostOnIs
    <3> HIDE DEF m, day, rows
    <3>5. mem.daily[m][day] < max_daily_loss
      BY <2>2 DEF m, day
    <3> QED
      BY <3>2, <3>3, <3>4, <3>5
  <2>5. faults = 0 /\ Cooling(rows, m) # {} =>
          ~ p.opened < rows[Max(Cooling(rows, m))].closed + cooldown_minutes
    <3> SUFFICES ASSUME faults = 0, Cooling(rows, m) # {}
                 PROVE  ~ p.opened < rows[Max(Cooling(rows, m))].closed + cooldown_minutes
      OBVIOUS
    <3>1. Cooling(rows, m) \subseteq OfThisLife(rows, m)
      BY DEF Cooling
    <3>2. \E i \in Cooling(rows, m) : \A j \in Cooling(rows, m) : j <= i
      BY <2>3, <3>1, LatestExists
    <3>3. /\ Max(Cooling(rows, m)) \in Cooling(rows, m)
          /\ \A j \in Cooling(rows, m) : j <= Max(Cooling(rows, m))
      <4>1. \A j \in Cooling(rows, m) : j \in Nat
        BY <2>3, <3>1, LifeIs
      <4>2. \E i \in Cooling(rows, m) : \A j \in Cooling(rows, m) : i >= j
        BY <3>2, <4>1
      <4>3. /\ Max(Cooling(rows, m)) \in Cooling(rows, m)
            /\ \A j \in Cooling(rows, m) : Max(Cooling(rows, m)) >= j
        BY <4>2 DEF Max
      <4> QED
        BY <4>1, <4>3
    <3>4. StreakCounted(Begun)
      BY DEF BrakesInv, Begun
    <3>5. Streaky(rows, mem, m)
      BY <1>6, <2>2, <3>4, StreakCountedIs
    <3> HIDE DEF rows, m
    <3>6. mem.until[m] = rows[Max(Cooling(rows, m))].closed + cooldown_minutes
      BY <3>3, <3>5 DEF Streaky
    <3>7. ~ p.opened < mem.until[m]
      BY <2>2 DEF m
    <3> QED
      BY <3>6, <3>7
  <2> QED
    BY <2>4, <2>5 DEF Braked
<1> QED
  BY <1>11, <1>12

\* A life that has closed nothing and remembers nothing
NothingYet == life = Len(db.trades) + 1 /\ db.trades \in Seq(Trade) /\ mem = NoMemory

\* Its memory counts what there is: nothing.
LEMMA NothingYetBrakes == NothingYet => BrakesInv
<1> SUFFICES ASSUME NothingYet PROVE BrakesInv
  OBVIOUS
<1> DEFINE w == [db |-> db, mem |-> mem]
           rows == db.trades
<1>1. rows \in Seq(Trade) /\ Len(rows) \in Nat /\ life = Len(rows) + 1 /\ mem = NoMemory
  BY DEF NothingYet
<1>2. w.db.trades = rows /\ w.mem = mem
  OBVIOUS
<1> HIDE DEF w, rows
<1>3. \A m : OfThisLife(rows, m) = {}
  BY <1>1 DEF OfThisLife
<1>4. LossesCounted(w)
  <2> SUFFICES ASSUME NEW m \in Models, NEW day \in Days
               PROVE  Cardinality(LostOn(rows, m, day)) <= mem.daily[m][day]
    BY <1>2 DEF LossesCounted
  <2>1. LostOn(rows, m, day) = {}
    BY <1>3 DEF LostOn
  <2>2. mem.daily[m][day] = 0
    BY <1>1 DEF NoMemory
  <2> QED
    BY <2>1, <2>2, FS_EmptySet
<1>5. StreakCounted(w)
  <2>1. \A m : Cooling(rows, m) = {}
    BY <1>3 DEF Cooling
  <2>2. \A m \in Models : mem.losses[m] = 0
    BY <1>1 DEF NoMemory
  <2> QED
    BY <1>2, <1>3, <2>1, <2>2 DEF StreakCounted
<1> QED
  BY <1>4, <1>5 DEF BrakesInv, w

\* The first life has just begun.
LEMMA InitBrakes == Init => BrakesInv
<1>1. Init => NothingYet
  <2> SUFFICES ASSUME Init PROVE NothingYet
    OBVIOUS
  <2>1. db.trades = <<>> /\ mem = NoMemory /\ life = 1
    BY DEF Init, Left
  <2> QED
    BY <2>1 DEF NothingYet
<1> QED
  BY <1>1, NothingYetBrakes

\* So has the one that a restart begins.
LEMMA RestartBrakes == ShadowInv /\ Restart => BrakesInv'
<1>1. ShadowInv /\ Restart => NothingYet'
  <2> SUFFICES ASSUME ShadowInv, Restart PROVE NothingYet'
    OBVIOUS
  <2>1. db.trades \in Seq(Trade)
    BY DEF ShadowInv, TypeOK, Database
  <2> QED
    BY <2>1 DEF Restart, NothingYet, NoMemory
<1> QED
  BY <1>1, NothingYetBrakes, PTL

\* What a step does to the brakes: every step keeps the memory right, and no entry of it
\* is made while the trades of this life hold the model back.
LEMMA StepBrakes ==
  ShadowInv /\ BrakesInv /\ [Next]_vars =>
    /\ BrakesInv'
    /\ [\A p \in db'.positions :
          p.open /\ p \notin db.positions => ~ Braked(p.model, p.opened)]_vars
<1> SUFFICES ASSUME ShadowInv, BrakesInv, [Next]_vars
             PROVE  /\ BrakesInv'
                    /\ \/ \A p \in db'.positions :
                           p.open /\ p \notin db.positions => ~ Braked(p.model, p.opened)
                       \/ vars' = vars
  BY DEF vars
<1>1. ASSUME NEW s \in Symbols, Tick(s)
      PROVE  /\ BrakesInv'
             /\ \A p \in db'.positions :
                  p.open /\ p \notin db.positions => ~ Braked(p.model, p.opened)
  BY <1>1, TickBrakes
<1>2. CASE Restart
  <2>1. db' = db
    BY <1>2 DEF Restart
  <2> QED
    BY <1>2, <2>1, RestartBrakes
<1>3. CASE UNCHANGED vars
  <2>1. db' = db /\ mem' = mem /\ faults' = faults /\ life' = life
    BY <1>3 DEF vars
  <2> DEFINE w == [db |-> db, mem |-> mem]
  <2>2. LossesCounted([db |-> db, mem |-> mem])' <=> LossesCounted(w)
    BY <2>1 DEF LossesCounted, LostOn, OfThisLife
  <2>3. StreakCounted([db |-> db, mem |-> mem])' <=> StreakCounted(w)
    BY <2>1 DEF StreakCounted, Cooling, InStreak, Streak, OfThisLife
  <2>4. BrakesInv'
    BY <2>1, <2>2, <2>3 DEF BrakesInv
  <2> QED
    BY <1>3, <2>4
<1> QED
  BY <1>1, <1>2, <1>3 DEF Next

\* The memory of an engine counts at least the losses of a day in this life and, while
\* nothing was undone, exactly the streak and the end of the cooldown.
THEOREM MemoryCounts == Spec => []BrakesInv
<1>1. Init => BrakesInv
  BY InitBrakes
<1>2. ShadowInv /\ BrakesInv /\ [Next]_vars => BrakesInv'
  BY StepBrakes
<1> QED
  BY <1>1, <1>2, ShadowSafe, PTL DEF Spec

\* No entry is made by a model whose losses of this life on the day of the entry reach the
\* daily limit, nor, while nothing was undone, during the cooldown that a run of losses
\* started.
THEOREM BrakesKept == Spec => BrakesHold
<1>1. ShadowInv /\ BrakesInv /\ [Next]_vars =>
        [\A p \in db'.positions :
           p.open /\ p \notin db.positions => ~ Braked(p.model, p.opened)]_vars
  BY StepBrakes
<1> QED
  BY <1>1, ShadowSafe, MemoryCounts, PTL DEF Spec, BrakesHold
=============================================================================

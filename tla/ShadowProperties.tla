-------------------------- MODULE ShadowProperties --------------------------
(* What the shadow engine promises. *)
EXTENDS ShadowEngine

\* Every variable has its type.
TypeOK ==
  /\ clock \in [Symbols -> Nat] /\ config \in Configs
  /\ db \in Database /\ mem \in Memory
  /\ boots \in 1 .. MaxBoots /\ faults \in 0 .. MaxFaults
  /\ life \in 1 .. Len(db.trades) + 1 /\ strayed \in BOOLEAN

-----------------------------------------------------------------------------
(* Experiments *)

\* An opportunity belongs to an experiment of its model and configuration, no experiment
\* is taken up again after another one of the model has recorded something, and of two
\* experiments of a model that follow each other the configurations differ.
NextOf(experiments, j, k) ==
  /\ j < k /\ experiments[j].model = experiments[k].model
  /\ \A i \in DOMAIN experiments :
       j < i /\ i < k => experiments[i].model # experiments[j].model
NeverMixed ==
  LET rows == db.opportunities IN
  /\ \A i \in DOMAIN rows :
       /\ rows[i].experiment \in DOMAIN db.experiments
       /\ db.experiments[rows[i].experiment].model = rows[i].model
       /\ db.experiments[rows[i].experiment].config = rows[i].config
  /\ \A i, k \in DOMAIN rows :
       i < k /\ rows[i].experiment = rows[k].experiment =>
         \A j \in DOMAIN rows :
           i < j /\ j < k /\ rows[j].model = rows[i].model
           => rows[j].experiment = rows[i].experiment
  /\ \A j, k \in DOMAIN db.experiments :
       NextOf(db.experiments, j, k) => db.experiments[j].config # db.experiments[k].config

\* Experiments keep apart through restarts, undone savepoints and undone ticks: lives
\* under A, B and A again give three, a restart under the same configuration none.  The
\* one exception is an experiment that was begun in what was then undone, while memory
\* kept its id (shadow/engine.py:161-214, models.py:536-545, orchestrator.py:660-690).
ApartUnlessStrayed == ~ strayed => NeverMixed

-----------------------------------------------------------------------------
(* Portfolios *)

\* A model never holds more than its exposure, nor two positions in one symbol, counting
\* those that an earlier experiment left open, although no index says so; the limits are those of
\* every configuration (shadow/engine.py:374-423).
Means(d) ==
  \A m \in Models :
    LET open == {p \in d.positions : p.model = m /\ p.open}
    IN  /\ Notional(open) <= max_total_exposure_usd
        /\ \A p, q \in open : p.symbol = q.symbol => p = q
        /\ \A p \in open : p.notional >= min_order_notional_usd
WithinItsMeans == Means(db)

\* Each closed position has one trade and each trade one closed position, through
\* undone savepoints and ticks that come again (shadow/engine.py:231-291).
OneTradePerPosition ==
  /\ \A p \in db.positions :
       Cardinality({i \in DOMAIN db.trades :
                      /\ db.trades[i].experiment = p.experiment
                      /\ db.trades[i].symbol = p.symbol
                      /\ db.trades[i].opened = p.opened}) = IF p.open THEN 0 ELSE 1
  /\ Len(db.trades) = Cardinality({p \in db.positions : ~ p.open})

\* On the candle whose stop or target ended a position, its symbol is not entered again
\* (shadow/engine.py:383-389, orchestrator.py:392-398).
EntriesApart(d) ==
  \A i \in DOMAIN d.trades : \A p \in d.positions :
    /\ d.trades[i].reason # "opposite_signal"
    /\ p.model = d.trades[i].model /\ p.symbol = d.trades[i].symbol
    => p.at # d.trades[i].closed
NoReentryOnExit == EntriesApart(db)

\* Within one life of the process, a day whose losses reached their limit keeps the model
\* out for that day, and a streak of losses that reached its limit keeps it out until the
\* cooldown after the last of them recorded is over, which a symbol that lags records with
\* an earlier instant.  A restart forgets both.  What is undone takes
\* back the rows and not the memory, which may then start a streak anew too early: the
\* cooldown is required while nothing was undone (shadow/engine.py:270-282, 374-396).
OfThisLife(rows, m) == {i \in life .. Len(rows) : rows[i].model = m}
Streak(rows, m, i) ==
  Cardinality({j \in OfThisLife(rows, m) :
    j <= i /\ \A k \in OfThisLife(rows, m) : j <= k /\ k <= i => rows[k].lost})
InStreak(rows, m, i) ==
  IF cooldown_after_losses = 0 THEN 0 ELSE Streak(rows, m, i) % cooldown_after_losses
Cooling(rows, m) == {i \in OfThisLife(rows, m) : rows[i].lost /\ InStreak(rows, m, i) = 0}
LostOn(rows, m, day) ==
  {i \in OfThisLife(rows, m) : rows[i].lost /\ DayOf(rows[i].closed) = day}
Braked(m, source) ==
  \/ /\ faults = 0 /\ Cooling(db.trades, m) # {}
     /\ source < db.trades[Max(Cooling(db.trades, m))].closed + cooldown_minutes
  \/ Cardinality(LostOn(db.trades, m, DayOf(source))) >= max_daily_loss

BrakesHold ==
  [][\A p \in db'.positions :
       p.open /\ p \notin db.positions => ~ Braked(p.model, p.opened)]_vars

-----------------------------------------------------------------------------
(* Why they hold: the inductive invariant *)

\* A position and its trade are known by experiment, symbol and opening candle, which are
\* those of the opportunity that was approved.
Key(row) == <<row.experiment, row.symbol, row.opened>>
KeyOf(opportunity) == <<opportunity.experiment, opportunity.symbol, opportunity.source>>

Booked(d) ==
  /\ IsFiniteSet(d.positions)
  /\ \A p, q \in d.positions : Key(p) = Key(q) => p = q
  /\ \A p \in d.positions : \E i \in DOMAIN d.opportunities : KeyOf(d.opportunities[i]) = Key(p)
  /\ \A i \in DOMAIN d.trades : \E p \in d.positions : ~ p.open /\ Key(p) = Key(d.trades[i])
  /\ \A p \in d.positions : ~ p.open => \E i \in DOMAIN d.trades : Key(d.trades[i]) = Key(p)
  /\ \A i, j \in DOMAIN d.trades : Key(d.trades[i]) = Key(d.trades[j]) => i = j

\* Nothing is stamped ahead of the candles of its symbol.
Past(d, candles) ==
  /\ \A p \in d.positions : p.at <= candles[p.symbol]
  /\ \A i \in DOMAIN d.trades :
       d.trades[i].reason # "opposite_signal" => d.trades[i].closed <= candles[d.trades[i].symbol]

RowsInv(d, candles) == Booked(d) /\ Means(d) /\ EntriesApart(d) /\ Past(d, candles)

\* The experiment in use is the active one of its model, under the configuration of this
\* life, the latest of its model and the latest that recorded anything.
Apart(w) ==
  LET rows == w.db.opportunities
      experiments == w.db.experiments
      Active(m) == {k \in DOMAIN experiments : experiments[k].model = m /\ experiments[k].active}
  IN  /\ \A i \in DOMAIN rows :
           /\ rows[i].experiment \in DOMAIN experiments
           /\ experiments[rows[i].experiment].model = rows[i].model
           /\ experiments[rows[i].experiment].config = rows[i].config
      /\ \A i, j \in DOMAIN rows :
           i < j /\ rows[i].model = rows[j].model => rows[i].experiment <= rows[j].experiment
      /\ \A i \in DOMAIN rows : \A k \in Active(rows[i].model) : rows[i].experiment <= k
      /\ \A m \in Models :
           /\ \A j, k \in Active(m) : j = k
           /\ w.mem.experiment[m] # 0 =>
                /\ w.mem.experiment[m] \in Active(m)
                /\ experiments[w.mem.experiment[m]].config = config
      /\ \A j, k \in DOMAIN experiments :
           NextOf(experiments, j, k) => experiments[j].config # experiments[k].config
      /\ \A j \in DOMAIN experiments :
           \/ experiments[j].active
           \/ \E k \in DOMAIN experiments :
                k > j /\ experiments[k].model = experiments[j].model

\* The memory counts at least the losses of a day, and as long as nothing was undone
\* exactly the streak, and has the cooldown that the last one of them started.
LossesCounted(w) ==
  \A m \in Models, day \in Days :
    Cardinality(LostOn(w.db.trades, m, day)) <= w.mem.daily[m][day]
StreakCounted(w) ==
  \A m \in Models :
    LET rows == w.db.trades
        latest == OfThisLife(rows, m)
    IN  /\ latest = {} => w.mem.losses[m] = 0
        /\ \A i \in latest :
             (\A j \in latest : j <= i) => w.mem.losses[m] = InStreak(rows, m, i)
        /\ \A i \in Cooling(rows, m) :
             (\A j \in Cooling(rows, m) : j <= i) =>
               w.mem.until[m] = rows[i].closed + cooldown_minutes

ShadowInv ==
  /\ TypeOK /\ RowsInv(db, clock)
  /\ ~ strayed => Apart([db |-> db, mem |-> mem])
BrakesInv ==
  /\ LossesCounted([db |-> db, mem |-> mem])
  /\ faults = 0 => StreakCounted([db |-> db, mem |-> mem])
=============================================================================

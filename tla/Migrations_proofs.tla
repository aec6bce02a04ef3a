-------------------------- MODULE Migrations_proofs -------------------------
(***************************************************************************)
(* Migrations, for any databases that the first run may find, any number   *)
(* of runs and any faults: what comes up is of the head version, what does *)
(* not end well changes nothing, rows survive, and nothing is refused      *)
(* without a cause.  All from MigrationsInv.                               *)
(***************************************************************************)
EXTENDS Migrations, FiniteSetTheorems, TLAPS

-----------------------------------------------------------------------------
(* The greatest and the least *)

\* A finite set of numbers that is not empty has a greatest one: no smallest set has not.
LEMMA GreatestIsMember ==
  ASSUME NEW S \in SUBSET Int, IsFiniteSet(S), S # {}
  PROVE  Greatest(S) \in S /\ \A y \in S : y <= Greatest(S)
<1> DEFINE Bad == {U \in SUBSET S : U # {} /\ ~ \E x \in U : \A y \in U : y <= x}
<1>1. Bad = {}
  <2> SUFFICES ASSUME Bad # {} PROVE FALSE
    OBVIOUS
  <2>1. IsWellFoundedOn(StrictSubsetOrdering(S), SUBSET S)
    BY FS_StrictSubsetOrderingWellFounded, FS_FiniteSubsetsOfFinite
  <2>2. PICK U \in Bad : \A W \in Bad : ~ (<<W, U>> \in StrictSubsetOrdering(S))
    <3>1. Bad \subseteq SUBSET S
      OBVIOUS
    <3> HIDE DEF Bad
    <3> QED
      BY <2>1, <3>1, WFMin
  <2>3. PICK x \in U : TRUE
    OBVIOUS
  <2>4. U \in SUBSET S /\ U \ {x} \in SUBSET S /\ x \in Int
    BY <2>3
  <2>5. <<U \ {x}, U>> \in StrictSubsetOrdering(S)
    BY <2>3, <2>4 DEF StrictSubsetOrdering
  <2>6. U \ {x} \notin Bad
    BY <2>2, <2>5
  <2>7. CASE U \ {x} = {}
    <3>1. \A y \in U : y <= x
      BY <2>4, <2>7
    <3> QED
      BY <2>3, <3>1
  <2>8. CASE U \ {x} # {}
    <3>1. PICK m \in U \ {x} : \A y \in U \ {x} : y <= m
      BY <2>4, <2>6, <2>8
    <3>2. CASE x <= m
      <4>1. \A y \in U : y <= m
        BY <3>1, <3>2
      <4> QED
        BY <3>1, <4>1
    <3>3. CASE ~ x <= m
      <4>1. \A y \in U : y <= x
        BY <2>4, <3>1, <3>3
      <4> QED
        BY <2>3, <4>1
    <3> QED
      BY <3>2, <3>3
  <2> QED
    BY <2>7, <2>8
<1>2. \E x \in S : \A y \in S : y <= x
  BY <1>1
<1> QED
  BY <1>2 DEF Greatest

\* A set of numbers from 0 on that is not empty has a least one.
LEMMA LeastExists ==
  ASSUME NEW S \in SUBSET Nat, S # {}
  PROVE  \E x \in S : \A y \in S : x <= y
<1>1. PICK x \in S : \A y \in S : ~ (<<y, x>> \in OpToRel(<, Nat))
  BY NatLessThanWellFounded, WFMin
<1>2. \A y \in S : ~ (y < x)
  BY <1>1 DEF OpToRel
<1> QED
  BY <1>2

\* Intervals are finite.
LEMMA IntervalFinite == \A a, b \in Int : IsFiniteSet(a .. b)
  BY FS_Interval

-----------------------------------------------------------------------------
(* Versions and their facts *)

\* The facts of the versions up to one are those of the versions before it and its own.
LEMMA UpToStep ==
  /\ UpTo(0) = {}
  /\ \A v \in Nat \ {0} : UpTo(v) = UpTo(v - 1) \cup FactsOf(v)
<1>1. 1 .. 0 = {}
  OBVIOUS
<1>2. ASSUME NEW v \in Nat \ {0}
      PROVE  UpTo(v) = UpTo(v - 1) \cup FactsOf(v)
  <2>1. 1 .. v = (1 .. v - 1) \cup {v}
    OBVIOUS
  <2> QED
    BY <2>1 DEF UpTo
<1> QED
  BY <1>1, <1>2 DEF UpTo

\* Later versions have more.
LEMMA UpToGrows ==
  ASSUME NEW v \in Nat, NEW w \in Nat, v <= w
  PROVE  UpTo(v) \subseteq UpTo(w)
<1>1. 1 .. v \subseteq 1 .. w
  OBVIOUS
<1> QED
  BY <1>1 DEF UpTo

\* The upgrades as they are listed.
LEMMA Listed ==
  /\ DOMAIN MIGRATIONS = 1 .. 10
  /\ MIGRATIONS[1] = V1
  /\ MIGRATIONS[2] = V2
  /\ MIGRATIONS[3] = V3
  /\ MIGRATIONS[4] = V4
  /\ MIGRATIONS[5] = V5
  /\ MIGRATIONS[6] = V6
  /\ MIGRATIONS[7] = V7
  /\ MIGRATIONS[8] = V8
  /\ MIGRATIONS[9] = V9
  /\ MIGRATIONS[10] = V10
  BY DEF MIGRATIONS

\* Their facts are numbered from 1 on.
LEMMA Numbered ==
  \A v \in Versions : DOMAIN MIGRATIONS[v] \subseteq Nat
<1>1. DOMAIN V1 \subseteq Nat
  BY DEF V1
<1>2. DOMAIN V2 \subseteq Nat
  BY DEF V2
<1>3. DOMAIN V3 \subseteq Nat
  BY DEF V3
<1>4. DOMAIN V4 \subseteq Nat
  BY DEF V4
<1>5. DOMAIN V5 \subseteq Nat
  BY DEF V5
<1>6. DOMAIN V6 \subseteq Nat
  BY DEF V6
<1>7. DOMAIN V7 \subseteq Nat
  BY DEF V7
<1>8. DOMAIN V8 \subseteq Nat
  BY DEF V8
<1>9. DOMAIN V9 \subseteq Nat
  BY DEF V9
<1>10. DOMAIN V10 \subseteq Nat
  BY DEF V10
<1>11. \A v \in Versions : v \in {1, 2, 3, 4, 5, 6, 7, 8, 9, 10}
  BY DEF Versions, CURRENT_SCHEMA_VERSION
<1> QED
  BY <1>1, <1>2, <1>3, <1>4, <1>5, <1>6, <1>7, <1>8, <1>9, <1>10, <1>11, Listed

\* Where in the upgrades the facts are that others depend on.
LEMMA FactsByVersion ==
  /\ FactsOf(1) = {"system_state.state_ambiguous", "orders.is_close", "orders.stop_loss nullable"}
  /\ {OrderColumns} \cup FactsOf(5) \subseteq Facts
  /\ {"orders.is_close", "orders.stop_loss nullable"} \cap ({OrderColumns} \cup FactsOf(5)) = {}
  /\ {"candles unique", "one active session", "one open position"} \subseteq Facts
  /\ FactsOf(5) = {"orders.pending_exchange_status", "orders.fills_sync_status"}
  /\ Misshapable \subseteq Facts
  /\ "operational_sessions.symbols" \in FactsOf(7)
  /\ \A v \in 1 .. 6 : "operational_sessions.symbols" \notin FactsOf(v)
                       /\ "one active session" \notin FactsOf(v)
  /\ \A v \in 1 .. 3 : "operational_sessions.config_fingerprint" \notin FactsOf(v)
  /\ \A v \in 1 .. 10 :
       /\ "funding_events unique" \in FactsOf(v) => v = 4
       /\ "funding_collection_checkpoints unique" \in FactsOf(v) => v = 6
       /\ "one active experiment" \in FactsOf(v) => v = 9
<1>1. FactsOf(1) = {"system_state.state_ambiguous", "orders.is_close",
                    "orders.stop_loss nullable"}
  <2>1. DOMAIN V1 = {1, 2, 3}
    BY DEF V1
  <2>2. /\ V1[1] = "system_state.state_ambiguous"
        /\ V1[2] = "orders.is_close"
        /\ V1[3] = "orders.stop_loss nullable"
    BY DEF V1
  <2> QED
    BY <2>1, <2>2, Listed DEF FactsOf
<1>2. FactsOf(2) = {"system_state.clock_out_of_sync", "candles unique"}
  <2>1. DOMAIN V2 = {1, 2}
    BY DEF V2
  <2>2. /\ V2[1] = "system_state.clock_out_of_sync"
        /\ V2[2] = "candles unique"
    BY DEF V2
  <2> QED
    BY <2>1, <2>2, Listed DEF FactsOf
<1>3. FactsOf(3) = {"operational_sessions", "order_events", OrderColumns,
                    "failures_reconciliations.order_id, session_id", "system_state causes"}
  <2>1. DOMAIN V3 = {1, 2, 3, 4, 5}
    BY DEF V3
  <2>2. /\ V3[1] = "operational_sessions"
        /\ V3[2] = "order_events"
        /\ V3[3] = OrderColumns
        /\ V3[4] = "failures_reconciliations.order_id, session_id"
        /\ V3[5] = "system_state causes"
    BY DEF V3
  <2> QED
    BY ZenonT(60), <2>1, <2>2, Listed DEF FactsOf
<1>4. FactsOf(4) = {"executions.exchange_fill_id", "executions unique fill", "failures_reconciliations.mismatches_json",
                    "operational_sessions.config_fingerprint", "funding_events", "funding_events unique"}
  <2>1. DOMAIN V4 = {1, 2, 3, 4, 5, 6}
    BY DEF V4
  <2>2. /\ V4[1] = "executions.exchange_fill_id"
        /\ V4[2] = "executions unique fill"
        /\ V4[3] = "failures_reconciliations.mismatches_json"
        /\ V4[4] = "operational_sessions.config_fingerprint"
        /\ V4[5] = "funding_events"
        /\ V4[6] = "funding_events unique"
    BY DEF V4
  <2>3. \A fact : (\E i \in DOMAIN V4 : fact = V4[i]) <=>
          \/ fact = V4[1] \/ fact = V4[2] \/ fact = V4[3]
          \/ fact = V4[4] \/ fact = V4[5] \/ fact = V4[6]
    BY <2>1
  <2>4. FactsOf(4) = {V4[i] : i \in DOMAIN V4}
    BY Listed DEF FactsOf
  <2> HIDE DEF FactsOf
  <2> QED
    BY ZenonT(60), <2>2, <2>3, <2>4
<1>5. FactsOf(5) = {"orders.pending_exchange_status", "orders.fills_sync_status"}
  <2>1. DOMAIN V5 = {1, 2}
    BY DEF V5
  <2>2. /\ V5[1] = "orders.pending_exchange_status"
        /\ V5[2] = "orders.fills_sync_status"
    BY DEF V5
  <2> QED
    BY <2>1, <2>2, Listed DEF FactsOf
<1>6. FactsOf(6) = {"funding_collection_checkpoints", "funding_collection_checkpoints unique"}
  <2>1. DOMAIN V6 = {1, 2}
    BY DEF V6
  <2>2. /\ V6[1] = "funding_collection_checkpoints"
        /\ V6[2] = "funding_collection_checkpoints unique"
    BY DEF V6
  <2> QED
    BY <2>1, <2>2, Listed DEF FactsOf
<1>7. FactsOf(7) = {"operational_sessions.symbols", "one active session", "one open position"}
  <2>1. DOMAIN V7 = {1, 2, 3}
    BY DEF V7
  <2>2. /\ V7[1] = "operational_sessions.symbols"
        /\ V7[2] = "one active session"
        /\ V7[3] = "one open position"
    BY DEF V7
  <2> QED
    BY <2>1, <2>2, Listed DEF FactsOf
<1>8. FactsOf(8) = {"strategy_signals.source_candle_open_time"}
  <2>1. DOMAIN V8 = {1}
    BY DEF V8
  <2>2. V8[1] = "strategy_signals.source_candle_open_time"
    BY DEF V8
  <2> QED
    BY <2>1, <2>2, Listed DEF FactsOf
<1>15. FactsOf(9) = {"shadow_experiments", "one active experiment", "shadow_opportunities",
                     "shadow_positions", "shadow_trades"}
  <2>1. DOMAIN V9 = {1, 2, 3, 4, 5}
    BY DEF V9
  <2>2. /\ V9[1] = "shadow_experiments"
        /\ V9[2] = "one active experiment"
        /\ V9[3] = "shadow_opportunities"
        /\ V9[4] = "shadow_positions"
        /\ V9[5] = "shadow_trades"
    BY DEF V9
  <2> QED
    BY ZenonT(60), <2>1, <2>2, Listed DEF FactsOf
<1>16. FactsOf(10) = {"strategy_signals created_at index", "risk_evaluations signal_id index"}
  <2>1. DOMAIN V10 = {1, 2}
    BY DEF V10
  <2>2. /\ V10[1] = "strategy_signals created_at index"
        /\ V10[2] = "risk_evaluations signal_id index"
    BY DEF V10
  <2> QED
    BY <2>1, <2>2, Listed DEF FactsOf
<1>9. FactsOf(2) \cup FactsOf(3) \cup FactsOf(5) \cup FactsOf(7) \cup FactsOf(8) \subseteq Facts
  <2>1. \A v \in {2, 3, 5, 7, 8} : v \in 1 .. 10
    OBVIOUS
  <2> QED
    BY <2>1 DEF Facts, UpTo, CURRENT_SCHEMA_VERSION
<1>10. \A v \in 1 .. 6 : v \in {1, 2, 3, 4, 5, 6}
  OBVIOUS
<1>11. \A v \in 1 .. 6 : "operational_sessions.symbols" \notin FactsOf(v)
                         /\ "one active session" \notin FactsOf(v)
  <2>1. {"operational_sessions.symbols", "one active session"} \cap FactsOf(1) = {}
    BY <1>1
  <2>2. {"operational_sessions.symbols", "one active session"} \cap FactsOf(2) = {}
    BY <1>2
  <2>3. {"operational_sessions.symbols", "one active session"} \cap FactsOf(3) = {}
    BY <1>3 DEF OrderColumns
  <2>4. {"operational_sessions.symbols", "one active session"} \cap FactsOf(4) = {}
    BY <1>4
  <2>5. {"operational_sessions.symbols", "one active session"} \cap FactsOf(5) = {}
    BY <1>5
  <2>6. {"operational_sessions.symbols", "one active session"} \cap FactsOf(6) = {}
    BY <1>6
  <2> QED
    BY <1>10, <2>1, <2>2, <2>3, <2>4, <2>5, <2>6
<1>13. \A v \in 1 .. 3 : "operational_sessions.config_fingerprint" \notin FactsOf(v)
  <2>1. \A v \in 1 .. 3 : v \in {1, 2, 3}
    OBVIOUS
  <2>2. "operational_sessions.config_fingerprint" \notin FactsOf(1)
    BY <1>1
  <2>3. "operational_sessions.config_fingerprint" \notin FactsOf(2)
    BY <1>2
  <2>4. "operational_sessions.config_fingerprint" \notin FactsOf(3)
    BY <1>3 DEF OrderColumns
  <2> QED
    BY <2>1, <2>2, <2>3, <2>4
<1> DEFINE Second == {"funding_events unique", "funding_collection_checkpoints unique",
                      "one active experiment"}
<1>14. ASSUME NEW v \in 1 .. 10
       PROVE  /\ "funding_events unique" \in FactsOf(v) => v = 4
              /\ "funding_collection_checkpoints unique" \in FactsOf(v) => v = 6
              /\ "one active experiment" \in FactsOf(v) => v = 9
  <2>1. v \in {1, 2, 3, 4, 5, 6, 7, 8, 9, 10}
    OBVIOUS
  <2>2. Second \cap FactsOf(1) = {}
    BY <1>1
  <2>3. Second \cap FactsOf(2) = {}
    BY <1>2
  <2>4. Second \cap FactsOf(3) = {}
    BY <1>3 DEF OrderColumns
  <2>6. Second \cap FactsOf(5) = {}
    BY <1>5
  <2>8. Second \cap FactsOf(7) = {}
    BY <1>7
  <2>9. Second \cap FactsOf(8) = {}
    BY <1>8
  <2>11. Second \cap FactsOf(10) = {}
    BY <1>16
  <2>12. "funding_events unique" \notin FactsOf(6) \cup FactsOf(9)
    BY <1>6, <1>15
  <2>13. "funding_collection_checkpoints unique" \notin FactsOf(4) \cup FactsOf(9)
    BY <1>4, <1>15
  <2>14. "one active experiment" \notin FactsOf(4) \cup FactsOf(6)
    BY <1>4, <1>6
  <2>15. /\ "funding_events unique" \in Second
         /\ "funding_collection_checkpoints unique" \in Second
         /\ "one active experiment" \in Second
    OBVIOUS
  <2> HIDE DEF Second
  <2> QED
    BY <2>1, <2>2, <2>3, <2>4, <2>6, <2>8, <2>9, <2>11, <2>12, <2>13, <2>14, <2>15
<1>12. {"orders.is_close", "orders.stop_loss nullable"} \cap ({OrderColumns} \cup FactsOf(5)) = {}
  BY <1>5 DEF OrderColumns
<1> QED
  BY <1>1, <1>2, <1>3, <1>5, <1>7, <1>8, <1>9, <1>11, <1>12, <1>13, <1>14 DEF Misshapable

\* The facts that the tables created by upgrades are, and those after them.
LEMMA TablesByVersion ==
  /\ {"system_state.state_ambiguous", "orders.is_close"} \subseteq FactsOf(1)
  /\ "candles unique" \in FactsOf(2)
  /\ {"operational_sessions", "failures_reconciliations.order_id, session_id"} \subseteq FactsOf(3)
  /\ {"executions.exchange_fill_id", "funding_events"} \subseteq FactsOf(4)
  /\ "funding_collection_checkpoints" \in FactsOf(6)
  /\ "one open position" \in FactsOf(7)
  /\ "shadow_experiments" \in FactsOf(9)
  /\ {"strategy_signals created_at index", "risk_evaluations signal_id index"} \subseteq FactsOf(10)
<1>1. {"system_state.state_ambiguous", "orders.is_close"} \subseteq FactsOf(1)
  BY FactsByVersion
<1>2. "candles unique" \in FactsOf(2)
  <2>1. 2 \in DOMAIN V2 /\ V2[2] = "candles unique"
    BY DEF V2
  <2> QED
    BY <2>1, Listed DEF FactsOf
<1>3. {"operational_sessions", "failures_reconciliations.order_id, session_id"} \subseteq FactsOf(3)
  <2>1. /\ {1, 4} \subseteq DOMAIN V3 /\ V3[1] = "operational_sessions"
        /\ V3[4] = "failures_reconciliations.order_id, session_id"
    BY DEF V3
  <2> QED
    BY <2>1, Listed DEF FactsOf
<1>4. {"executions.exchange_fill_id", "funding_events"} \subseteq FactsOf(4)
  <2>1. /\ {1, 5} \subseteq DOMAIN V4 /\ V4[1] = "executions.exchange_fill_id"
        /\ V4[5] = "funding_events"
    BY DEF V4
  <2> QED
    BY <2>1, Listed DEF FactsOf
<1>5. "funding_collection_checkpoints" \in FactsOf(6)
  <2>1. 1 \in DOMAIN V6 /\ V6[1] = "funding_collection_checkpoints"
    BY DEF V6
  <2> QED
    BY <2>1, Listed DEF FactsOf
<1>6. "one open position" \in FactsOf(7)
  <2>1. 3 \in DOMAIN V7 /\ V7[3] = "one open position"
    BY DEF V7
  <2> QED
    BY <2>1, Listed DEF FactsOf
<1>7. "shadow_experiments" \in FactsOf(9)
  <2>1. 1 \in DOMAIN V9 /\ V9[1] = "shadow_experiments"
    BY DEF V9
  <2> QED
    BY <2>1, Listed DEF FactsOf
<1>8. {"strategy_signals created_at index", "risk_evaluations signal_id index"} \subseteq FactsOf(10)
  <2>1. /\ {1, 2} \subseteq DOMAIN V10 /\ V10[1] = "strategy_signals created_at index"
        /\ V10[2] = "risk_evaluations signal_id index"
    BY DEF V10
  <2> QED
    BY <2>1, Listed DEF FactsOf
<1> QED
  BY <1>1, <1>2, <1>3, <1>4, <1>5, <1>6, <1>7, <1>8

\* The facts of one version, of the head and of the flag are facts.
LEMMA FactsOfVersions ==
  /\ \A v \in Versions : FactsOf(v) \subseteq Facts
  /\ "orders.is_close" \in Facts
  /\ UpTo(10) = Facts /\ Versions = 1 .. 10
<1>1. UpTo(10) = Facts /\ Versions = 1 .. 10 /\ 1 \in Versions
  BY DEF Facts, Versions, CURRENT_SCHEMA_VERSION
<1>2. \A v \in Versions : FactsOf(v) \subseteq Facts
  BY <1>1 DEF UpTo
<1> QED
  BY <1>1, <1>2, FactsByVersion

\* What table a fact is about: itself, or one of twelve that is about itself.
LEMMA TableOfFact ==
  /\ \A fact : TableOf(fact) \in {fact} \cup FirstTables \cup
         {"operational_sessions", "funding_events", "funding_collection_checkpoints", "shadow_experiments"}
  /\ \A table \in FirstTables \cup
         {"operational_sessions", "funding_events", "funding_collection_checkpoints", "shadow_experiments"} :
       TableOf(table) = table
  /\ \A fact : TableOf(TableOf(fact)) = TableOf(fact)
<1> DEFINE T == FirstTables \cup
         {"operational_sessions", "funding_events", "funding_collection_checkpoints", "shadow_experiments"}
<1>1. ASSUME NEW fact PROVE TableOf(fact) = fact \/ TableOf(fact) \in T
  BY DEF TableOf, FirstTables
<1>2. ASSUME NEW table \in T PROVE TableOf(table) = table
  BY DEF TableOf, FirstTables, OrderColumns
<1> QED
  BY <1>1, <1>2

\* ... and so it is in the schema.
LEMMA TableInSchema ==
  \A fact \in Schema : TableOf(fact) \in Schema
<1>1. {"operational_sessions", "funding_events", "funding_collection_checkpoints", "shadow_experiments"}
         \subseteq Facts
  <2>1. {3, 4, 6, 9} \subseteq Versions
    BY FactsOfVersions
  <2> QED
    BY <2>1, TablesByVersion, FactsOfVersions
<1> QED
  BY <1>1, TableOfFact DEF Schema

\* Some facts are about one table and are no table.
LEMMA TablesOfFacts ==
  /\ TableOf("system_state.state_ambiguous") = "system_state"
  /\ TableOf("orders.is_close") = "orders" /\ TableOf("orders.stop_loss nullable") = "orders"
  /\ TableOf("candles unique") = "candles"
  /\ TableOf("failures_reconciliations.order_id, session_id") = "failures_reconciliations"
  /\ TableOf("executions.exchange_fill_id") = "executions"
  /\ TableOf("one open position") = "positions"
  /\ TableOf("one active session") = "operational_sessions"
  /\ TableOf("strategy_signals created_at index") = "strategy_signals"
  /\ TableOf("risk_evaluations signal_id index") = "risk_evaluations"
  BY DEF TableOf, OrderColumns

\* What a rebuild loses is no table.
LEMMA LostAreNoTables ==
  \A fact : TableOf(fact) \notin
    {OrderColumns, "orders.pending_exchange_status", "orders.fills_sync_status", "one active session"}
<1>1. \A table \in {OrderColumns, "orders.pending_exchange_status", "orders.fills_sync_status",
                    "one active session"} : TableOf(table) # table
  BY DEF TableOf, OrderColumns
<1> QED
  BY <1>1, TableOfFact

\* With all facts there are all tables.
LEMMA WholeSchema ==
  ASSUME NEW db \in Database, Kept(db), Facts \subseteq db.facts
  PROVE  db.facts = Schema
<1>1. {1, 2, 3, 4, 7, 10} \subseteq Versions
  BY FactsOfVersions
<1>2. {"system_state.state_ambiguous", "orders.is_close", "candles unique",
       "failures_reconciliations.order_id, session_id", "executions.exchange_fill_id",
       "one open position", "strategy_signals created_at index",
       "risk_evaluations signal_id index"} \subseteq db.facts
  BY <1>1, TablesByVersion, FactsOfVersions
<1>3. \A fact \in db.facts : TableOf(fact) \in db.facts
  BY DEF Kept
<1>4. FirstTables \subseteq db.facts
  BY <1>2, <1>3, TablesOfFacts DEF FirstTables
<1> QED
  BY <1>4 DEF Schema, Database

\* What an upgrade finds missing first is a fact of its version, and missing.
LEMMA FirstMissingType ==
  ASSUME NEW db, NEW v \in Versions, Missing(db, v) # {}
  PROVE  FirstMissing(db, v) \in FactsOf(v) \ db.facts
<1>1. DOMAIN MIGRATIONS[v] \subseteq Nat
  BY Numbered
<1>2. Missing(db, v) \in SUBSET Nat
  BY <1>1 DEF Missing
<1> DEFINE i == CHOOSE i \in Missing(db, v) : \A j \in Missing(db, v) : i <= j
<1>3. i \in Missing(db, v)
  BY <1>2, LeastExists
<1>4. FirstMissing(db, v) = MIGRATIONS[v][i]
  BY DEF FirstMissing
<1> HIDE DEF i
<1> QED
  BY <1>3, <1>4 DEF Missing, FactsOf

\* Nothing missing is everything there.
LEMMA NothingMissing ==
  ASSUME NEW db, NEW v, Missing(db, v) = {}
  PROVE  FactsOf(v) \subseteq db.facts
  BY DEF Missing, FactsOf

\* What is found missing first has everything before it in its version.
LEMMA FirstMissingIsFirst ==
  ASSUME NEW db, NEW v \in Versions, Missing(db, v) # {}
  PROVE  \E i \in DOMAIN MIGRATIONS[v] :
           /\ FirstMissing(db, v) = MIGRATIONS[v][i]
           /\ \A j \in DOMAIN MIGRATIONS[v] : i <= j \/ MIGRATIONS[v][j] \in db.facts
<1> DEFINE i == CHOOSE i \in Missing(db, v) : \A j \in Missing(db, v) : i <= j
<1>1. i \in Missing(db, v) /\ \A j \in Missing(db, v) : i <= j
  <2>1. Missing(db, v) \in SUBSET Nat
    BY Numbered DEF Missing
  <2> QED
    BY <2>1, LeastExists
<1>2. FirstMissing(db, v) = MIGRATIONS[v][i]
  BY DEF FirstMissing
<1> HIDE DEF i
<1> QED
  BY <1>1, <1>2 DEF Missing

\* An upgrade finds a table missing, if one that it does not create itself.
LEMMA TablesFirst ==
  ASSUME NEW db, NEW v \in Versions, Missing(db, v) # {}, UpTo(v - 1) \subseteq db.facts,
         FirstTables \subseteq db.facts
  PROVE  TableOf(FirstMissing(db, v)) \in db.facts \cup {FirstMissing(db, v)}
<1> DEFINE Second == {"funding_events unique", "funding_collection_checkpoints unique",
                      "one active experiment"}
           Sessions == {"operational_sessions.config_fingerprint", "operational_sessions.symbols",
                        "one active session"}
<1> SUFFICES ASSUME NEW fact, fact = FirstMissing(db, v)
             PROVE  TableOf(fact) \in db.facts \cup {fact}
  OBVIOUS
<1>1. PICK i \in DOMAIN MIGRATIONS[v] :
        /\ fact = MIGRATIONS[v][i]
        /\ \A j \in DOMAIN MIGRATIONS[v] : i <= j \/ MIGRATIONS[v][j] \in db.facts
  BY FirstMissingIsFirst
<1>2. fact \in FactsOf(v)
  BY <1>1 DEF FactsOf
<1>3. v \in 1 .. 10
  BY FactsOfVersions
<1>4. v > 3 => "operational_sessions" \in db.facts
  <2>1. v > 3 => 3 \in 1 .. v - 1
    BY <1>3
  <2>2. v > 3 => FactsOf(3) \subseteq UpTo(v - 1)
    BY <2>1 DEF UpTo
  <2> QED
    BY <2>2, TablesByVersion
<1>5. CASE fact \in Second
  <2>1. CASE v = 4 /\ fact = "funding_events unique"
    <3>1. MIGRATIONS[v] = V4
      BY <2>1, Listed
    <3>2. i \in DOMAIN V4 /\ fact = V4[i] /\ \A j \in DOMAIN V4 : i <= j \/ V4[j] \in db.facts
      BY <1>1, <3>1
    <3>3. DOMAIN V4 = 1 .. 6 /\ V4[5] = "funding_events"
      BY DEF V4
    <3>4. i \in 1 .. 6 /\ 5 \in DOMAIN V4
      BY <3>2, <3>3
    <3>5. V4[1] # "funding_events unique" /\ V4[2] # "funding_events unique" /\ V4[3] # "funding_events unique"
          /\ V4[4] # "funding_events unique" /\ V4[5] # "funding_events unique"
      BY DEF V4
    <3>9. i <= 5 => i \in {1, 2, 3, 4, 5}
      BY <3>4
    <3>6. ~ i <= 5
      BY <2>1, <3>2, <3>5, <3>9
    <3>7. "funding_events" \in db.facts
      BY <3>2, <3>3, <3>4, <3>6
    <3>8. TableOf("funding_events unique") = "funding_events"
      BY DEF TableOf, OrderColumns
    <3> QED
      BY <2>1, <3>7, <3>8
  <2>2. CASE v = 6 /\ fact = "funding_collection_checkpoints unique"
    <3>1. MIGRATIONS[v] = V6
      BY <2>2, Listed
    <3>2. i \in DOMAIN V6 /\ fact = V6[i] /\ \A j \in DOMAIN V6 : i <= j \/ V6[j] \in db.facts
      BY <1>1, <3>1
    <3>3. DOMAIN V6 = 1 .. 2 /\ V6[1] = "funding_collection_checkpoints"
      BY DEF V6
    <3>4. i \in 1 .. 2 /\ 1 \in DOMAIN V6
      BY <3>2, <3>3
    <3>5. V6[1] # "funding_collection_checkpoints unique"
      BY DEF V6
    <3>9. i <= 1 => i \in {1}
      BY <3>4
    <3>6. ~ i <= 1
      BY <2>2, <3>2, <3>5, <3>9
    <3>7. "funding_collection_checkpoints" \in db.facts
      BY <3>2, <3>3, <3>4, <3>6
    <3>8. TableOf("funding_collection_checkpoints unique") = "funding_collection_checkpoints"
      BY DEF TableOf, OrderColumns
    <3> QED
      BY <2>2, <3>7, <3>8
  <2>3. CASE v = 9 /\ fact = "one active experiment"
    <3>1. MIGRATIONS[v] = V9
      BY <2>3, Listed
    <3>2. i \in DOMAIN V9 /\ fact = V9[i] /\ \A j \in DOMAIN V9 : i <= j \/ V9[j] \in db.facts
      BY <1>1, <3>1
    <3>3. DOMAIN V9 = 1 .. 5 /\ V9[1] = "shadow_experiments"
      BY DEF V9
    <3>4. i \in 1 .. 5 /\ 1 \in DOMAIN V9
      BY <3>2, <3>3
    <3>5. V9[1] # "one active experiment"
      BY DEF V9
    <3>9. i <= 1 => i \in {1}
      BY <3>4
    <3>6. ~ i <= 1
      BY <2>3, <3>2, <3>5, <3>9
    <3>7. "shadow_experiments" \in db.facts
      BY <3>2, <3>3, <3>4, <3>6
    <3>8. TableOf("one active experiment") = "shadow_experiments"
      BY DEF TableOf, OrderColumns
    <3> QED
      BY <2>3, <3>7, <3>8
  <2>4. \/ v = 4 /\ fact = "funding_events unique"
        \/ v = 6 /\ fact = "funding_collection_checkpoints unique"
        \/ v = 9 /\ fact = "one active experiment"
    BY <1>2, <1>3, <1>5, FactsByVersion
  <2> QED
    BY <2>1, <2>2, <2>3, <2>4
<1>6. CASE fact \in Sessions
  <2>1. ~ v \in 1 .. 3
    <3>1. CASE fact = "operational_sessions.config_fingerprint"
      BY <1>2, <3>1, FactsByVersion
    <3>2. CASE fact \in {"operational_sessions.symbols", "one active session"}
      <4>1. v \in 1 .. 3 => v \in 1 .. 6
        OBVIOUS
      <4> QED
        BY <1>2, <3>2, <4>1, FactsByVersion
    <3> QED
      BY <1>6, <3>1, <3>2
  <2>2. TableOf(fact) = "operational_sessions"
    BY <1>6 DEF TableOf, OrderColumns
  <2>3. v > 3
    BY <1>3, <2>1
  <2> QED
    BY <1>4, <2>2, <2>3
<1>7. CASE fact \notin Second \cup Sessions
  <2>1. TableOf(fact) \in {fact} \cup FirstTables
    BY <1>7 DEF TableOf, FirstTables
  <2> QED
    BY <2>1
<1> QED
  BY <1>5, <1>6, <1>7

-----------------------------------------------------------------------------
(* What one change of an upgrade does *)

\* Of two databases: what the second one, a change further, has of the first.
Further(db, e) ==
  /\ e.history = db.history /\ e.misshapen \subseteq db.misshapen
  /\ FirstTables \cap db.facts \subseteq e.facts
  /\ e.rows.active = db.rows.active /\ e.rows.open = db.rows.open
  /\ e.rows.candles \in {db.rows.candles, FirstOfEach(db.rows.candles)}
  /\ "orders.is_close" \in db.facts =>
       "orders.is_close" \in e.facts /\ e.rows.closing = db.rows.closing

\* The rebuild of orders, with the facts and the closing orders that it leaves.
LEMMA RebuiltFurther ==
  ASSUME NEW db \in Database, Kept(db), "orders" \in db.facts
  PROVE  /\ RebuiltOrders(db) \in Database /\ Kept(RebuiltOrders(db))
         /\ Further(db, RebuiltOrders(db))
<1> DEFINE added == {"orders.is_close", "orders.stop_loss nullable"}
           lost == {OrderColumns} \cup FactsOf(5)
           F == (db.facts \cup added) \ lost
           M == db.misshapen \ lost
           C == IF "orders.is_close" \in db.facts THEN db.rows.closing ELSE {}
           e == RebuiltOrders(db)
<1>1. e = [db EXCEPT !.facts = F, !.misshapen = M, !.rows.closing = C]
  BY DEF RebuiltOrders, Database
<1>2. db.rows \in Rows /\ db.facts \in SUBSET Schema /\ db.misshapen \in SUBSET Misshapable
  BY DEF Database
<1>3. F \in SUBSET Schema /\ M \in SUBSET Misshapable
  <2>1. FactsOf(1) \subseteq Facts
    <3>1. 1 \in 1 .. 10
      OBVIOUS
    <3> QED
      BY <3>1 DEF Facts, UpTo, CURRENT_SCHEMA_VERSION
  <2> QED
    BY <1>2, <2>1, FactsByVersion DEF Schema
<1>4. C \in SUBSET Nat
  BY <1>2 DEF Rows
<1>5. lost = {OrderColumns, "orders.pending_exchange_status", "orders.fills_sync_status"}
  BY FactsByVersion
<1>6. /\ "orders.is_close" \in F /\ "orders" \in F
      /\ FirstTables \cap db.facts \subseteq F
      /\ \A f \in {"candles", "operational_sessions", "positions", "candles unique",
                   "one active session", "one open position"} :
           f \in F <=> f \in db.facts
  BY <1>5 DEF FirstTables, OrderColumns
<1>7. M \subseteq db.misshapen /\ M \subseteq F
  BY DEF Kept
<1>8. "orders.is_close" \in db.facts => C = db.rows.closing
  OBVIOUS
<1>9. \A fact \in F : TableOf(fact) \in F
  <2> SUFFICES ASSUME NEW fact \in F PROVE TableOf(fact) \in F
    OBVIOUS
  <2>1. TableOf(fact) \notin lost
    BY <1>5, LostAreNoTables
  <2>2. CASE fact \in added
    BY <1>6, <2>2, TablesOfFacts
  <2>3. CASE fact \in db.facts
    BY <2>1, <2>3 DEF Kept
  <2> QED
    BY <2>2, <2>3
<1> HIDE DEF F, C, M, e
<1>10. e \in Database
  BY <1>1, <1>3, <1>4 DEF Database, Rows
<1>11. /\ e.history = db.history /\ e.misshapen = M /\ e.facts = F
       /\ e.rows.active = db.rows.active /\ e.rows.open = db.rows.open
       /\ e.rows.candles = db.rows.candles /\ e.rows.closing = C
  BY <1>1, <1>2 DEF Database, Rows
<1>12. Kept(e)
  BY <1>6, <1>7, <1>9, <1>11 DEF Kept
<1>13. Further(db, e)
  BY <1>6, <1>7, <1>8, <1>11 DEF Further
<1> QED
  BY <1>10, <1>12, <1>13 DEF e

\* The first rows of candles are of different candles, and are rows.
LEMMA FirstOfEachUnique ==
  ASSUME NEW candles \in SUBSET (Nat \X Nat)
  PROVE  /\ FirstOfEach(candles) \subseteq candles
         /\ \A c, d \in FirstOfEach(candles) : c[1] = d[1] => c = d
         /\ \A c \in candles :
              \E d \in FirstOfEach(candles) : d[1] = c[1] /\ (d = c \/ d[2] < c[2])
<1>1. FirstOfEach(candles) \subseteq candles
  BY DEF FirstOfEach
<1>2. ASSUME NEW c \in FirstOfEach(candles), NEW d \in FirstOfEach(candles), c[1] = d[1]
      PROVE  c = d
  <2>1. c[2] <= d[2] /\ d[2] <= c[2] /\ c \in Nat \X Nat /\ d \in Nat \X Nat
    BY <1>2 DEF FirstOfEach
  <2>2. c[2] = d[2]
    BY <2>1
  <2> QED
    BY <1>2, <2>1, <2>2
<1>3. ASSUME NEW c \in candles
      PROVE  \E d \in FirstOfEach(candles) : d[1] = c[1] /\ (d = c \/ d[2] < c[2])
  <2> DEFINE ids == {d[2] : d \in {b \in candles : b[1] = c[1]}}
  <2>1. ids \in SUBSET Nat /\ ids # {}
    BY <1>3
  <2>2. PICK id \in ids : \A j \in ids : id <= j
    <3> HIDE DEF ids
    <3> QED
      BY <2>1, LeastExists
  <2>3. PICK d \in candles : d[1] = c[1] /\ d[2] = id
    BY <2>2
  <2>4. d \in FirstOfEach(candles)
    BY <2>2, <2>3 DEF FirstOfEach
  <2>5. d[2] <= c[2] /\ c \in Nat \X Nat /\ d \in Nat \X Nat
    BY <2>2, <2>3
  <2>6. CASE d[2] = c[2]
    BY <2>3, <2>4, <2>5, <2>6
  <2>7. CASE d[2] # c[2]
    BY <2>3, <2>4, <2>5, <2>7
  <2> QED
    BY <2>6, <2>7
<1> QED
  BY <1>1, <1>2, <1>3

\* Any change that an upgrade makes leaves a database that keeps to its tables and indexes.
LEMMA EstablishedFurther ==
  ASSUME NEW db \in Database, Kept(db), NEW fact \in Facts, fact \notin db.facts,
         ~ Refuses(db, fact)
  PROVE  /\ Established(db, fact) \in Database /\ Kept(Established(db, fact))
         /\ Further(db, Established(db, fact))
<1> DEFINE e == Established(db, fact)
<1>1. /\ db.rows \in Rows /\ db.facts \in SUBSET Schema /\ fact \in Schema
      /\ db.rows.candles \in SUBSET (Nat \X Nat)
  BY DEF Database, Rows, Schema
<1>2. TableOf(fact) \in db.facts \cup {fact}
  BY DEF Refuses
<1>3. CASE fact \in {"orders.is_close", "orders.stop_loss nullable"}
  <2>1. e = RebuiltOrders(db) /\ "orders" \in db.facts
    BY <1>2, <1>3, TablesOfFacts DEF Established
  <2> QED
    BY <2>1, RebuiltFurther
<1>4. CASE fact = "candles unique"
  <2> DEFINE F == db.facts \cup {fact}
             K == FirstOfEach(db.rows.candles)
  <2>1. e = [db EXCEPT !.facts = F, !.rows.candles = K]
    BY <1>4 DEF Established
  <2>2. F \in SUBSET Schema /\ K \in SUBSET (Nat \X Nat)
    BY <1>1, FirstOfEachUnique
  <2>3. /\ \A c, d \in K : c[1] = d[1] => c = d
        /\ \A f \in {"candles", "operational_sessions", "positions", "one active session",
                     "one open position", "orders.is_close"} :
              f \in F <=> f \in db.facts
        /\ db.facts \subseteq F
    BY <1>1, <1>4, FirstOfEachUnique
  <2>4. \A f \in F : TableOf(f) \in F
    BY <1>2 DEF Kept
  <2>5. db.rows.candles = {} => K = {}
    BY DEF FirstOfEach
  <2> HIDE DEF F, K, e
  <2>6. e \in Database
    BY <1>1, <2>1, <2>2 DEF Database, Rows
  <2>7. /\ e.history = db.history /\ e.misshapen = db.misshapen /\ e.facts = F
        /\ e.rows.active = db.rows.active /\ e.rows.open = db.rows.open
        /\ e.rows.candles = K /\ e.rows.closing = db.rows.closing
    BY <1>1, <2>1 DEF Database, Rows
  <2>8. Kept(e)
    BY <2>3, <2>4, <2>5, <2>7 DEF Kept
  <2>9. Further(db, e)
    BY <2>3, <2>7 DEF Further, K
  <2> QED
    BY <2>6, <2>8, <2>9 DEF e
<1>5. CASE fact = "operational_sessions.symbols"
  <2> DEFINE F == (db.facts \cup {fact}) \ {"one active session"}
  <2>1. e = [db EXCEPT !.facts = F]
    BY <1>5 DEF Established
  <2>2. F \in SUBSET Schema
    BY <1>1
  <2>3. /\ \A f \in {"candles", "operational_sessions", "positions", "candles unique",
                     "one open position", "orders.is_close"} :
              f \in F <=> f \in db.facts
        /\ "one active session" \notin F
        /\ FirstTables \cap db.facts \subseteq F
    BY <1>5 DEF FirstTables
  <2>4. \A f \in F : TableOf(f) \in F
    <3>1. \A f \in F : TableOf(f) # "one active session"
      BY LostAreNoTables
    <3>2. \A f \in F : TableOf(f) \in db.facts \cup {fact}
      BY <1>2 DEF Kept
    <3> QED
      BY <3>1, <3>2
  <2>5. db.misshapen \subseteq F
    BY DEF Kept, Database, Misshapable
  <2> HIDE DEF F, e
  <2>6. /\ e \in Database
        /\ e.history = db.history /\ e.misshapen = db.misshapen /\ e.facts = F
        /\ e.rows = db.rows
    BY <2>1, <2>2 DEF Database
  <2>7. Kept(e)
    BY <2>3, <2>4, <2>5, <2>6 DEF Kept
  <2>8. Further(db, e)
    BY <2>3, <2>6 DEF Further
  <2> QED
    BY <2>6, <2>7, <2>8 DEF e
<1>6. CASE fact \notin {"orders.is_close", "orders.stop_loss nullable", "candles unique",
                       "operational_sessions.symbols"}
  <2> DEFINE F == db.facts \cup {fact}
  <2>1. e = [db EXCEPT !.facts = F]
    BY <1>6 DEF Established
  <2>2. F \in SUBSET Schema
    BY <1>1
  <2>3. /\ "candles unique" \in F => "candles unique" \in db.facts
        /\ "one active session" \in F => db.rows.active <= 1
        /\ "one open position" \in F => db.rows.open <= 1
    <3>1. db.rows.active \in Nat /\ db.rows.open \in Nat
      BY <1>1 DEF Rows
    <3>2. /\ fact = "one active session" => ~ db.rows.active > 1
          /\ fact = "one open position" => ~ db.rows.open > 1
      BY DEF Refuses
    <3>3. (db.rows.active > 1 \/ db.rows.active <= 1) /\ (db.rows.open > 1 \/ db.rows.open <= 1)
      BY <3>1
    <3>4. /\ "one active session" \in db.facts => db.rows.active <= 1
          /\ "one open position" \in db.facts => db.rows.open <= 1
      BY DEF Kept
    <3>5. "candles unique" \in F => "candles unique" \in db.facts
      BY <1>6
    <3>6. "one active session" \in F => db.rows.active <= 1
      BY <3>2, <3>3, <3>4
    <3>7. "one open position" \in F => db.rows.open <= 1
      BY <3>2, <3>3, <3>4
    <3> QED
      BY <3>5, <3>6, <3>7
  <2>4. \A f \in F : TableOf(f) \in F
    BY <1>2 DEF Kept
  <2>5. db.facts \subseteq F
    OBVIOUS
  <2> HIDE DEF F, e
  <2>6. /\ e \in Database
        /\ e.history = db.history /\ e.misshapen = db.misshapen /\ e.facts = F
        /\ e.rows = db.rows
    BY <2>1, <2>2 DEF Database
  <2>7. Kept(e)
    BY <2>3, <2>4, <2>5, <2>6 DEF Kept
  <2>8. Further(db, e)
    BY <2>5, <2>6 DEF Further
  <2> QED
    BY <2>6, <2>7, <2>8 DEF e
<1> QED
  BY <1>3, <1>4, <1>5, <1>6

\* A change of an upgrade undoes nothing of an earlier version.
LEMMA EarlierStay ==
  ASSUME NEW db \in Database, NEW v \in Versions, NEW fact \in FactsOf(v) \ db.facts,
         UpTo(v - 1) \subseteq db.facts
  PROVE  UpTo(v - 1) \subseteq Established(db, fact).facts
<1> DEFINE e == Established(db, fact)
<1>1. v \in Nat \ {0} /\ v - 1 \in Nat /\ v <= 10
  BY DEF Versions, CURRENT_SCHEMA_VERSION
<1>2. \A w \in Nat \ {0} : w <= v - 1 => fact \notin FactsOf(w)
  <2> SUFFICES ASSUME NEW w \in Nat \ {0}, w <= v - 1 PROVE fact \notin FactsOf(w)
    OBVIOUS
  <2>1. FactsOf(w) \subseteq UpTo(w) /\ UpTo(w) \subseteq UpTo(v - 1)
    BY <1>1, UpToStep, UpToGrows
  <2> QED
    BY <2>1
<1>3. CASE fact \in {"orders.is_close", "orders.stop_loss nullable"}
  <2>1. fact \in FactsOf(1)
    BY <1>3, FactsByVersion
  <2>2. ~ 1 <= v - 1
    BY <1>2, <2>1
  <2>3. v - 1 = 0
    BY <1>1, <2>2
  <2> QED
    BY <2>3, UpToStep
<1>4. CASE fact = "operational_sessions.symbols"
  <2>1. ~ 7 <= v - 1
    <3>1. fact \in FactsOf(7)
      BY <1>4, FactsByVersion
    <3>2. 7 \in Nat \ {0}
      OBVIOUS
    <3> QED
      BY <1>2, <3>1, <3>2
  <2>2. v \notin 1 .. 6
    BY <1>4, FactsByVersion
  <2>3. v - 1 = 6
    BY <1>1, <2>1, <2>2
  <2>4. "one active session" \notin UpTo(6)
    BY FactsByVersion DEF UpTo
  <2>5. e = [db EXCEPT !.facts = (db.facts \cup {fact}) \ {"one active session"}]
    BY <1>4 DEF Established
  <2>6. e.facts = (db.facts \cup {fact}) \ {"one active session"}
    BY <2>5 DEF Database
  <2> QED
    BY <2>3, <2>4, <2>6
<1>5. CASE fact \notin {"orders.is_close", "orders.stop_loss nullable",
                       "operational_sessions.symbols"}
  <2>1. e.facts = db.facts \cup {fact}
    <3>1. CASE fact = "candles unique"
      BY <3>1 DEF Established, Database
    <3>2. CASE fact # "candles unique"
      BY <1>5, <3>2 DEF Established, Database
    <3> QED
      BY <3>1, <3>2
  <2> QED
    BY <2>1
<1> QED
  BY <1>3, <1>4, <1>5

\* What survived so far survives one change more.
LEMMA SurvivesFurther ==
  ASSUME origin \in Database, NEW db \in Database, NEW e, Survived(db), Further(db, e),
         "orders.is_close" \in origin.facts => "orders.is_close" \in db.facts
  PROVE  Survived(e)
<1>1. db.rows.candles \in SUBSET (Nat \X Nat) /\ origin.rows.candles \in SUBSET (Nat \X Nat)
  BY DEF Database, Rows
<1>2. CASE e.rows.candles = db.rows.candles
  BY <1>2 DEF Survived, Further
<1>3. CASE e.rows.candles = FirstOfEach(db.rows.candles)
  <2>1. /\ e.rows.candles \subseteq db.rows.candles
        /\ \A c \in db.rows.candles :
             \E d \in e.rows.candles : d[1] = c[1] /\ (d = c \/ d[2] < c[2])
    BY <1>1, <1>3, FirstOfEachUnique
  <2>2. ASSUME NEW c \in origin.rows.candles
        PROVE  c \in e.rows.candles \/ \E d \in e.rows.candles : d[1] = c[1] /\ d[2] < c[2]
    <3>1. CASE c \in db.rows.candles
      BY <2>1, <3>1
    <3>2. CASE c \notin db.rows.candles
      <4>1. PICK b \in db.rows.candles : b[1] = c[1] /\ b[2] < c[2]
        BY <3>2 DEF Survived
      <4>2. PICK d \in e.rows.candles : d[1] = b[1] /\ (d = b \/ d[2] < b[2])
        BY <2>1
      <4>3. {b[2], c[2], d[2]} \subseteq Nat
        BY <1>1, <2>1
      <4>4. d[1] = c[1] /\ d[2] < c[2]
        BY <4>1, <4>2, <4>3
      <4> QED
        BY <4>4
    <3> QED
      BY <3>1, <3>2
  <2>3. "orders.is_close" \in origin.facts => e.rows.closing = origin.rows.closing
    BY DEF Survived, Further
  <2> QED
    BY <2>1, <2>2, <2>3 DEF Survived
<1> QED
  BY <1>2, <1>3 DEF Further

-----------------------------------------------------------------------------
(* Every step keeps the invariant *)

\* The first version of a run is one that the schema satisfies.
LEMMA StartingVersion ==
  ASSUME NEW db \in Database, Kept(db), validate_recorded_history(db),
         NEW starting,
         starting = IF db.history = {} THEN detect_legacy_version(db) ELSE Greatest(db.history)
  PROVE  starting \in 0 .. 10 /\ UpTo(starting) \subseteq db.facts
<1>1. CASE db.history = {}
  <2> DEFINE S == {0} \cup {v \in Versions : cumulative_invariants_satisfied(db, v)}
  <2>1. IsFiniteSet(0 .. 10) /\ S \in SUBSET (0 .. 10) /\ 0 \in S
    <3>1. IsFiniteSet(0 .. 10)
      <4>1. 0 \in Int /\ 10 \in Int
        OBVIOUS
      <4> QED
        BY <4>1, IntervalFinite, Zenon
    <3>2. \A v \in Versions : v \in 0 .. 10
      BY FactsOfVersions
    <3>3. \A v \in S : v = 0 \/ v \in Versions
      OBVIOUS
    <3>4. 0 \in S
      OBVIOUS
    <3> HIDE DEF S
    <3> QED
      BY <3>1, <3>2, <3>3, <3>4
  <2>2. IsFiniteSet(S) /\ S # {} /\ S \in SUBSET Int
    <3> HIDE DEF S
    <3>1. IsFiniteSet(S)
      BY <2>1, FS_Subset
    <3> QED
      BY <2>1, <3>1
  <2>3. Greatest(S) \in S
    <3> HIDE DEF S
    <3> QED
      BY <2>2, GreatestIsMember
  <2>4. starting = Greatest(S)
    BY <1>1 DEF detect_legacy_version
  <2>5. starting = 0 \/ (starting \in Versions /\ cumulative_invariants_satisfied(db, starting))
    BY <2>3, <2>4
  <2> QED
    BY <2>5, FactsOfVersions, UpToStep DEF cumulative_invariants_satisfied
<1>2. CASE db.history # {}
  <2>1. starting \in db.history
    <3>1. IsFiniteSet(db.history)
      BY DEF Kept
    <3>2. db.history \in SUBSET Int
      BY DEF Database
    <3> QED
      BY <1>2, <3>1, <3>2, GreatestIsMember
  <2>2. starting \in Nat /\ starting <= 10 /\ UpTo(starting) \subseteq db.facts
    BY <1>2, <2>1
       DEF validate_recorded_history, cumulative_invariants_satisfied, Database, CURRENT_SCHEMA_VERSION
  <2> QED
    BY <2>2
<1> QED
  BY <1>1, <1>2

\* A schema that the versions accept is the whole schema, and the rows keep to it.
LEMMA HeadWhenValid ==
  ASSUME NEW db \in Database, Kept(db), cumulative_invariants_satisfied(db, 10)
  PROVE  AtHead(db) /\ ~ brand_new(db)
<1>1. Facts \subseteq db.facts \ db.misshapen
  BY FactsOfVersions DEF cumulative_invariants_satisfied
<1>2. db.facts = Schema
  BY <1>1, WholeSchema
<1>3. db.misshapen = {}
  BY <1>1, FactsByVersion DEF Database
<1>4. {"candles unique", "one active session", "one open position"} \subseteq db.facts
  BY <1>2, FactsByVersion DEF Schema
<1>5. "system_state" \in db.facts
  BY <1>2 DEF Schema, FirstTables
<1> QED
  BY <1>2, <1>3, <1>4, <1>5 DEF AtHead, brand_new, Kept

\* A recorded history that is valid is of a database with system_state.
LEMMA RecordedIsNotNew ==
  ASSUME NEW db \in Database, Kept(db), validate_recorded_history(db), brand_new(db)
  PROVE  db.history = {}
<1> SUFFICES ASSUME db.history # {} PROVE FALSE
  OBVIOUS
<1> DEFINE m == Greatest(db.history)
<1>1. m \in db.history
  <2>1. IsFiniteSet(db.history)
    BY DEF Kept
  <2>2. db.history \in SUBSET Int
    BY DEF Database
  <2> QED
    BY <2>1, <2>2, GreatestIsMember
<1>2. m \in Nat /\ db.history = 1 .. m /\ UpTo(m) \subseteq db.facts
  BY <1>1 DEF validate_recorded_history, cumulative_invariants_satisfied, Database
<1> HIDE DEF m
<1>3. 1 \in 1 .. m
  BY <1>1, <1>2
<1>4. "system_state.state_ambiguous" \in db.facts
  BY <1>2, <1>3, TablesByVersion DEF UpTo
<1>5. "system_state" \in db.facts
  BY <1>4, TablesOfFacts DEF Kept
<1> QED
  BY <1>5 DEF brand_new

\* Any of the databases that may be found.
LEMMA InitInv == Init => MigrationsInv
<1> SUFFICES ASSUME Init PROVE MigrationsInv
  OBVIOUS
<1>1. /\ disk \in Database /\ Kept(disk) /\ work = disk /\ origin = disk /\ found = disk
      /\ version = 0 /\ stage = "none" /\ runs = 0 /\ faults = 0 /\ inTransaction = FALSE
  BY DatabasesAssumption DEF Init
<1>2. TypeOK
  <2>1. runs \in 0 .. MaxRuns /\ faults \in 0 .. MaxFaults /\ version \in 0 .. 11
    BY <1>1, BoundsAssumption
  <2>2. stage \in Stages /\ stage # "upgrading"
    BY <1>1 DEF Stages
  <2>3. version # 0 <=> stage = "upgrading"
    BY <1>1
  <2>4. /\ disk \in Database /\ work \in Database /\ found \in Database /\ origin \in Database
        /\ inTransaction \in BOOLEAN
    BY <1>1
  <2>5. version \in 0 .. CURRENT_SCHEMA_VERSION + 1
    BY <2>1 DEF CURRENT_SCHEMA_VERSION
  <2> QED
    BY <2>1, <2>2, <2>3, <2>4, <2>5 DEF TypeOK
<1>3. Survived(disk) /\ Survived(work)
  BY <1>1 DEF Survived
<1>4. RunIsolated /\ StageFits /\ FlagStays /\ UpMeansHead /\ AllOrNothing /\ RefusedForCause
  BY <1>1 DEF RunIsolated, Running, StageFits, FlagStays, UpMeansHead, AllOrNothing, RefusedForCause
<1> QED
  BY <1>1, <1>2, <1>3, <1>4 DEF MigrationsInv

\* The transaction begins.
LEMMA StartKeeps ==
  ASSUME MigrationsInv, Start
  PROVE  MigrationsInv'
<1>1. /\ work' = disk /\ found' = disk /\ disk' = disk /\ origin' = origin
      /\ stage' = "begun" /\ inTransaction' = TRUE
      /\ version' = version /\ faults' = faults /\ runs' = runs + 1 /\ runs < MaxRuns
      /\ stage # "upgrading"
  BY DEF Start, Running
<1>2. TypeOK'
  <2>1. runs' \in 0 .. MaxRuns
    BY <1>1, BoundsAssumption DEF MigrationsInv, TypeOK
  <2>2. version' = 0 /\ "begun" \in Stages
    BY <1>1 DEF MigrationsInv, TypeOK, Stages
  <2>3. (version # 0 <=> stage = "upgrading")'
    BY <1>1, <2>2
  <2> QED
    BY <1>1, <2>1, <2>2, <2>3 DEF MigrationsInv, TypeOK
<1>3. (RunIsolated /\ StageFits /\ FlagStays)'
  BY <1>1 DEF MigrationsInv, RunIsolated, StageFits, FlagStays
<1>4. (UpMeansHead /\ AllOrNothing /\ RefusedForCause)'
  BY <1>1 DEF UpMeansHead, AllOrNothing, RefusedForCause
<1>5. Kept(disk)' /\ Kept(work)' /\ Survived(disk)' /\ Survived(work)'
  BY <1>1 DEF MigrationsInv, Survived
<1> QED
  BY <1>2, <1>3, <1>4, <1>5 DEF MigrationsInv

\* What is abandoned is as it was found, and for a reason, or there was a fault.
LEMMA AbandonKeeps ==
  ASSUME MigrationsInv, Running, Abandon, faults' \in 0 .. MaxFaults,
         faults' # 0 \/ ~ Fitting(disk)
  PROVE  MigrationsInv'
<1>1. /\ disk' = disk /\ work' = disk /\ version' = 0 /\ stage' = "refused"
      /\ inTransaction' = FALSE /\ runs' = runs /\ found' = found /\ origin' = origin
  BY DEF Abandon, starts
<1>2. TypeOK'
  <2>1. version' \in 0 .. 11 /\ (disk \in Database)' /\ (work \in Database)'
    BY <1>1 DEF MigrationsInv, TypeOK
  <2>2. /\ (found \in Database)' /\ (origin \in Database)'
        /\ (runs \in 0 .. MaxRuns)' /\ (inTransaction \in BOOLEAN)'
    BY <1>1 DEF MigrationsInv, TypeOK
  <2>3. (stage \in Stages)' /\ (stage # "upgrading")'
    BY <1>1 DEF Stages
  <2> QED
    BY <1>1, <2>1, <2>2, <2>3 DEF TypeOK, CURRENT_SCHEMA_VERSION
<1>3. RefusedForCause'
  BY <1>1 DEF RefusedForCause, Fitting
<1>4. AllOrNothing'
  BY <1>1 DEF MigrationsInv, RunIsolated, AllOrNothing
<1>5. (RunIsolated /\ StageFits /\ FlagStays /\ UpMeansHead)'
  BY <1>1 DEF RunIsolated, Running, StageFits, FlagStays, UpMeansHead, MigrationsInv
<1>6. Kept(disk)' /\ Kept(work)' /\ Survived(disk)' /\ Survived(work)'
  BY <1>1 DEF MigrationsInv, Survived
<1> QED
  BY <1>2, <1>3, <1>4, <1>5, <1>6 DEF MigrationsInv

\* What goes on inside of the transaction.
Inside ==
  /\ disk' = disk /\ found' = found /\ origin' = origin
  /\ inTransaction' = inTransaction /\ runs' = runs /\ faults' = faults
WorkGoesOn ==
  /\ work' \in Database /\ Kept(work')
  /\ work'.misshapen \subseteq work.misshapen
  /\ work'.rows.active = work.rows.active /\ work'.rows.open = work.rows.open
  /\ "orders.is_close" \in work.facts => "orders.is_close" \in work'.facts
LoopGoesOn ==
  /\ stage' \in {"creating", "upgrading", "leaving"}
  /\ version' \in 0 .. 11 /\ (version' # 0 <=> stage' = "upgrading")
  /\ stage' = "upgrading" =>
       work'.history = 1 .. version' - 1 /\ UpTo(version' - 1) \subseteq work'.facts

LEMMA InsideKeeps ==
  ASSUME MigrationsInv, Running, Inside, WorkGoesOn, LoopGoesOn, Survived(work)', StageFits'
  PROVE  MigrationsInv'
<1>1. TypeOK'
  <2>1. stage' \in Stages
    BY DEF LoopGoesOn, Stages
  <2>2. /\ (disk \in Database)' /\ (found \in Database)' /\ (origin \in Database)'
        /\ (inTransaction \in BOOLEAN)' /\ (runs \in 0 .. MaxRuns)' /\ (faults \in 0 .. MaxFaults)'
    BY DEF MigrationsInv, TypeOK, Inside
  <2>3. (version # 0 <=> stage = "upgrading")'
    BY DEF LoopGoesOn
  <2> QED
    BY <2>1, <2>2, <2>3 DEF WorkGoesOn, LoopGoesOn, TypeOK, CURRENT_SCHEMA_VERSION
<1>2. RunIsolated'
  BY DEF MigrationsInv, RunIsolated, Inside, WorkGoesOn
<1>3. FlagStays'
  BY DEF MigrationsInv, FlagStays, Inside, WorkGoesOn
<1>4. (UpMeansHead /\ AllOrNothing /\ RefusedForCause)'
  BY DEF LoopGoesOn, UpMeansHead, AllOrNothing, RefusedForCause
<1>5. Kept(disk)' /\ Kept(work)' /\ Survived(disk)'
  BY DEF MigrationsInv, Inside, WorkGoesOn, Survived
<1> QED
  BY <1>1, <1>2, <1>3, <1>4, <1>5 DEF MigrationsInv

\* Inside of the transaction a statement leaves the disk alone.
LEMMA StatementInside ==
  ASSUME MigrationsInv, Running, NEW new, Statement(new)
  PROVE  work' = new /\ disk' = disk
  BY DEF Statement, MigrationsInv, RunIsolated

\* A run that is refused before it begins, for a history that does not fit.
LEMMA BeginRefusedKeeps ==
  ASSUME MigrationsInv, BeginRefused
  PROVE  MigrationsInv'
<1>1. Running /\ Abandon /\ faults' = faults
  BY DEF BeginRefused, Running
<1>2. ~ Fitting(disk)
  BY <1>1 DEF BeginRefused, MigrationsInv, StageFits, RunIsolated, Fitting
<1>3. faults' \in 0 .. MaxFaults
  BY <1>1 DEF MigrationsInv, TypeOK
<1> QED
  BY <1>1, <1>2, <1>3, AbandonKeeps

\* Nothing but the stage moves.
LEMMA BrandNewKeeps ==
  ASSUME MigrationsInv, BrandNew
  PROVE  MigrationsInv'
<1>1. /\ Running /\ Inside /\ work' = work /\ version' = version /\ stage' = "creating"
      /\ stage = "begun" /\ brand_new(work) /\ validate_recorded_history(work)
  BY DEF BrandNew, Running, Inside, starts
<1>2. work \in Database /\ Kept(work) /\ work = found /\ version = 0
  BY <1>1 DEF MigrationsInv, TypeOK, StageFits
<1>3. work.history = {}
  BY <1>1, <1>2, RecordedIsNotNew
<1>4. \A fact \in Schema \ work.facts : TableOf(fact) \in found.facts \cup MissingTables(work)
  BY <1>2 DEF MissingTables
<1>5. StageFits'
  BY <1>1, <1>2, <1>3, <1>4 DEF StageFits, brand_new, MissingTables, Inside
<1>6. WorkGoesOn /\ LoopGoesOn
  BY <1>1, <1>2 DEF WorkGoesOn, LoopGoesOn
<1>7. Survived(work)'
  BY <1>1 DEF MigrationsInv, Survived, Inside
<1> QED
  BY <1>1, <1>5, <1>6, <1>7, InsideKeeps

\* A table that was missing has all its columns and indexes, and no rows.
LEMMA CreatedKeeps ==
  ASSUME NEW db \in Database, Kept(db), NEW table \in MissingTables(db)
  PROVE  /\ Created(db, table) \in Database /\ Kept(Created(db, table))
         /\ Created(db, table).facts = db.facts \cup {fact \in Schema : TableOf(fact) = table}
         /\ Created(db, table).misshapen = db.misshapen
         /\ Created(db, table).history = db.history /\ Created(db, table).rows = db.rows
<1> DEFINE F == db.facts \cup {fact \in Schema : TableOf(fact) = table}
           e == Created(db, table)
<1>1. e = [db EXCEPT !.facts = F]
  BY DEF Created
<1>2. F \in SUBSET Schema /\ db.facts \subseteq F
  BY DEF Database
<1>3. table \in Schema /\ TableOf(table) = table /\ table \notin db.facts
  BY TableInSchema, TableOfFact DEF MissingTables
<1>4. \A fact \in F : TableOf(fact) \in F
  BY <1>3 DEF Kept
<1>5. /\ "candles unique" \in F /\ "candles unique" \notin db.facts => table = "candles"
      /\ "one active session" \in F /\ "one active session" \notin db.facts
           => table = "operational_sessions"
      /\ "one open position" \in F /\ "one open position" \notin db.facts => table = "positions"
  BY TablesOfFacts
<1> HIDE DEF F, e
<1>6. /\ e \in Database /\ e.facts = F /\ e.misshapen = db.misshapen
      /\ e.history = db.history /\ e.rows = db.rows
  BY <1>1, <1>2 DEF Database
<1>7. /\ IsFiniteSet(e.history) /\ e.misshapen \subseteq e.facts
      /\ "candles" \notin e.facts => e.rows.candles = {}
      /\ "operational_sessions" \notin e.facts => e.rows.active = 0
      /\ "positions" \notin e.facts => e.rows.open = 0
  BY <1>2, <1>6 DEF Kept
<1>8. "candles unique" \in e.facts => \A c, d \in e.rows.candles : c[1] = d[1] => c = d
  BY <1>3, <1>5, <1>6 DEF Kept
<1>9. /\ "one active session" \in e.facts => e.rows.active <= 1
      /\ "one open position" \in e.facts => e.rows.open <= 1
  <2>1. ASSUME "one active session" \in e.facts PROVE e.rows.active <= 1
    <3>1. CASE "one active session" \in db.facts
      BY <1>6, <3>1 DEF Kept
    <3>2. CASE "one active session" \notin db.facts
      <4>1. e.rows.active = 0
        BY <1>3, <1>5, <1>6, <2>1, <3>2 DEF Kept
      <4> QED
        BY <4>1
    <3> QED
      BY <3>1, <3>2
  <2>2. ASSUME "one open position" \in e.facts PROVE e.rows.open <= 1
    <3>1. CASE "one open position" \in db.facts
      BY <1>6, <3>1 DEF Kept
    <3>2. CASE "one open position" \notin db.facts
      <4>1. e.rows.open = 0
        BY <1>3, <1>5, <1>6, <2>2, <3>2 DEF Kept
      <4> QED
        BY <4>1
    <3> QED
      BY <3>1, <3>2
  <2> QED
    BY <2>1, <2>2
<1>10. Kept(e)
  BY <1>4, <1>6, <1>7, <1>8, <1>9 DEF Kept
<1> QED
  BY <1>6, <1>10 DEF F, e

\* create_all makes one table more.
LEMMA CreateTableKeeps ==
  ASSUME MigrationsInv, CreateTable
  PROVE  MigrationsInv'
<1> DEFINE table == CHOOSE table \in MissingTables(work) : TRUE
           e == Created(work, table)
<1>1. table \in MissingTables(work)
  BY DEF CreateTable
<1>2. stage = "creating" /\ Running /\ Statement(e)
  BY DEF CreateTable, Running
<1> HIDE DEF table
<1>3. work' = e /\ disk' = disk /\ stage' = stage /\ version' = version /\ Inside
  <2>1. work' = e /\ disk' = disk
    <3> HIDE DEF e
    <3> QED
      BY <1>2, StatementInside
  <2> QED
    BY <2>1 DEF CreateTable, Inside, starts
<1>4. /\ work \in Database /\ Kept(work) /\ version = 0 /\ Survived(work)
      /\ brand_new(found) /\ work.history = {}
      /\ \A fact \in Schema \ work.facts : TableOf(fact) \in found.facts \cup MissingTables(work)
  BY <1>2 DEF MigrationsInv, TypeOK, StageFits
<1>5. /\ e \in Database /\ Kept(e) /\ e.misshapen = work.misshapen
      /\ e.facts = work.facts \cup {fact \in Schema : TableOf(fact) = table}
      /\ e.history = work.history /\ e.rows = work.rows
  BY <1>1, <1>4, CreatedKeeps
<1> HIDE DEF e
<1>6. \A fact \in Schema \ e.facts : TableOf(fact) \in found.facts \cup MissingTables(e)
  <2> SUFFICES ASSUME NEW fact \in Schema \ e.facts, TableOf(fact) \notin found.facts
               PROVE  TableOf(fact) \in MissingTables(e)
    OBVIOUS
  <2>1. TableOf(fact) \in MissingTables(work) /\ TableOf(fact) # table
    BY <1>4, <1>5
  <2>2. TableOf(TableOf(fact)) = TableOf(fact)
    BY TableOfFact
  <2> QED
    BY <1>5, <2>1, <2>2 DEF MissingTables
<1>7. StageFits'
  BY <1>2, <1>3, <1>4, <1>5, <1>6 DEF StageFits, brand_new, MissingTables, Inside
<1>8. WorkGoesOn /\ LoopGoesOn
  BY <1>2, <1>3, <1>4, <1>5 DEF WorkGoesOn, LoopGoesOn
<1>9. Survived(work)'
  BY <1>3, <1>4, <1>5 DEF Survived, Inside
<1> QED
  BY <1>2, <1>3, <1>7, <1>8, <1>9, InsideKeeps

\* Only the recorded history changes.
LEMMA HistoryOnly ==
  ASSUME NEW db \in Database, Kept(db), NEW H \in SUBSET Nat, IsFiniteSet(H),
         NEW e, e = [db EXCEPT !.history = H]
  PROVE  /\ e \in Database /\ Kept(e) /\ e.history = H
         /\ e.facts = db.facts /\ e.misshapen = db.misshapen /\ e.rows = db.rows
<1>1. /\ e \in Database /\ e.history = H
      /\ e.facts = db.facts /\ e.misshapen = db.misshapen /\ e.rows = db.rows
  BY DEF Database
<1> QED
  BY <1>1 DEF Kept

\* The versions are recorded, whatever shape the tables have that were there.
LEMMA StampHeadKeeps ==
  ASSUME MigrationsInv, StampHead
  PROVE  MigrationsInv'
<1> DEFINE e == [work EXCEPT !.history = @ \union Versions]
<1>1. stage = "creating" /\ Running /\ Statement(e) /\ MissingTables(work) = {}
  BY DEF StampHead, Running
<1>2. work' = e /\ disk' = disk /\ stage' = "leaving" /\ version' = version /\ Inside
  <2>1. work' = e /\ disk' = disk
    <3> HIDE DEF e
    <3> QED
      BY <1>1, StatementInside
  <2> QED
    BY <2>1 DEF StampHead, Inside, starts
<1>3. /\ work \in Database /\ Kept(work) /\ version = 0 /\ Survived(work)
      /\ brand_new(found) /\ work.history = {}
      /\ \A fact \in Schema \ work.facts : TableOf(fact) \in found.facts
  BY <1>1 DEF MigrationsInv, TypeOK, StageFits
<1>4. Versions \in SUBSET Nat /\ IsFiniteSet(Versions)
  <2>1. IsFiniteSet(1 .. 10)
    <3>1. 1 \in Int /\ 10 \in Int
      OBVIOUS
    <3> QED
      BY <3>1, IntervalFinite, Zenon
  <2> QED
    BY <2>1, FactsOfVersions
<1>5. e = [work EXCEPT !.history = Versions]
  BY <1>3
<1> HIDE DEF e
<1>6. /\ e \in Database /\ Kept(e) /\ e.history = Versions
      /\ e.facts = work.facts /\ e.misshapen = work.misshapen /\ e.rows = work.rows
  BY <1>3, <1>4, <1>5, HistoryOnly
<1>7. ~ brand_new(e)
  <2>1. "system_state.state_ambiguous" \in Schema
    <3>1. 1 \in Versions
      BY FactsOfVersions
    <3> QED
      BY <3>1, TablesByVersion, FactsOfVersions DEF Schema
  <2> QED
    BY <1>1, <1>6, <2>1, TablesOfFacts DEF MissingTables, brand_new
<1>8. AtHead(e) \/ ~ validate_recorded_history(e)
  <2> SUFFICES ASSUME validate_recorded_history(e) PROVE AtHead(e)
    OBVIOUS
  <2>1. Greatest(Versions) = 10
    <3>1. Versions \in SUBSET Int /\ Versions # {} /\ IsFiniteSet(Versions) /\ 10 \in Versions
      BY <1>4, FactsOfVersions
    <3>2. Greatest(Versions) \in Versions /\ \A y \in Versions : y <= Greatest(Versions)
      BY <3>1, GreatestIsMember
    <3> QED
      BY <3>1, <3>2, FactsOfVersions
  <2>2. cumulative_invariants_satisfied(e, 10)
    <3>1. 10 \in e.history
      BY <1>6, FactsOfVersions
    <3> QED
      BY <1>6, <2>1, <3>1 DEF validate_recorded_history
  <2> QED
    BY <1>6, <2>2, HeadWhenValid
<1>9. Finished(work)'
  <2>1. /\ (work.history = Versions)' /\ (~ brand_new(work))' /\ (brand_new(found))'
        /\ (AtHead(work) \/ ~ validate_recorded_history(work))'
        /\ (\A fact \in Schema \ work.facts : TableOf(fact) \in found.facts)'
    BY <1>2, <1>3, <1>6, <1>7, <1>8 DEF Inside
  <2> QED
    BY <2>1 DEF Finished, StampedUnseen
<1>10. StageFits'
  BY <1>2, <1>9 DEF StageFits
<1>11. WorkGoesOn /\ LoopGoesOn
  BY <1>2, <1>3, <1>6 DEF WorkGoesOn, LoopGoesOn
<1>12. Survived(work)'
  BY <1>2, <1>3, <1>6 DEF Survived, Inside
<1> QED
  BY <1>1, <1>2, <1>10, <1>11, <1>12, InsideKeeps

\* The versions that the schema satisfies are recorded.
LEMMA StampStartingKeeps ==
  ASSUME MigrationsInv, StampStarting
  PROVE  MigrationsInv'
<1> DEFINE starting == IF work.history = {} THEN detect_legacy_version(work) ELSE Greatest(work.history)
           e == [work EXCEPT !.history = 1 .. starting]
<1>1. /\ stage = "begun" /\ Running /\ Statement(e) /\ version' = starting + 1
      /\ ~ brand_new(work) /\ validate_recorded_history(work)
  BY DEF StampStarting, Running
<1>2. work' = e /\ disk' = disk /\ stage' = "upgrading" /\ Inside
  <2>1. work' = e /\ disk' = disk
    <3> HIDE DEF e
    <3> QED
      BY <1>1, StatementInside
  <2> QED
    BY <2>1 DEF StampStarting, Inside, starts
<1>3. work \in Database /\ Kept(work) /\ work = found /\ Survived(work)
  BY <1>1 DEF MigrationsInv, TypeOK, StageFits
<1>4. starting \in 0 .. 10 /\ UpTo(starting) \subseteq work.facts
  BY <1>1, <1>3, StartingVersion
<1> HIDE DEF starting
<1>5. 1 .. starting \in SUBSET Nat /\ IsFiniteSet(1 .. starting)
  <2>1. starting \in Int
    BY <1>4
  <2> QED
    BY <1>4, <2>1, IntervalFinite
<1> HIDE DEF e
<1>12. PICK H : H = 1 .. starting
  OBVIOUS
<1>13. e = [work EXCEPT !.history = H]
  BY <1>12 DEF e
<1>6. /\ e \in Database /\ Kept(e) /\ e.history = 1 .. starting
      /\ e.facts = work.facts /\ e.misshapen = work.misshapen /\ e.rows = work.rows
  <2>1. H \in SUBSET Nat /\ IsFiniteSet(H)
    BY <1>5, <1>12
  <2>2. work \in Database /\ Kept(work)
    BY <1>3
  <2>3. /\ e \in Database /\ Kept(e) /\ e.history = H
        /\ e.facts = work.facts /\ e.misshapen = work.misshapen /\ e.rows = work.rows
    BY <1>13, <2>1, <2>2, HistoryOnly
  <2> QED
    BY <1>12, <2>3
<1>7. StageFits'
  BY <1>1, <1>2, <1>3, <1>6 DEF StageFits, brand_new, Inside
<1>8. version' - 1 = starting /\ version' \in 0 .. 11 /\ version' # 0
  BY <1>1, <1>4
<1>9. WorkGoesOn
  BY <1>2, <1>6 DEF WorkGoesOn
<1>10. LoopGoesOn
  BY <1>2, <1>4, <1>6, <1>8 DEF LoopGoesOn
<1>11. Survived(work)'
  BY <1>2, <1>3, <1>6 DEF Survived, Inside
<1> QED
  BY <1>1, <1>2, <1>7, <1>9, <1>10, <1>11, InsideKeeps

\* The version in hand is one, and those before it hold.
LEMMA UpgradingFacts ==
  ASSUME MigrationsInv, stage = "upgrading"
  PROVE  /\ Running /\ disk = found /\ ~ brand_new(disk)
         /\ version \in 1 .. 11 /\ work.history = 1 .. version - 1
         /\ UpTo(version - 1) \subseteq work.facts
         /\ FirstTables \cap disk.facts \subseteq work.facts
         /\ work \in Database /\ Kept(work) /\ Survived(work)
         /\ work.misshapen \subseteq disk.misshapen
         /\ work.rows.active = disk.rows.active /\ work.rows.open = disk.rows.open
<1>1. Running
  BY DEF Running
<1>2. version \in 0 .. 11 /\ version # 0
  BY DEF MigrationsInv, TypeOK, CURRENT_SCHEMA_VERSION
<1>3. version \in 1 .. 11
  BY <1>2
<1>4. /\ work.history = 1 .. version - 1 /\ UpTo(version - 1) \subseteq work.facts
      /\ work \in Database
  BY DEF MigrationsInv, TypeOK
<1>5. disk = found /\ ~ brand_new(found) /\ FirstTables \cap found.facts \subseteq work.facts
  BY <1>1 DEF MigrationsInv, RunIsolated, StageFits
<1> QED
  BY <1>1, <1>3, <1>4, <1>5 DEF MigrationsInv, RunIsolated

\* A run that finds all it asks for but may not record it has met a misshapen column.
LEMMA UnrecordedIsMisshapen ==
  ASSUME MigrationsInv, stage = "upgrading", NEW v \in Nat,
         UpTo(v) \subseteq work.facts, ~ cumulative_invariants_satisfied(work, v)
  PROVE  ~ Fitting(disk)
<1>1. work.misshapen # {}
  BY DEF cumulative_invariants_satisfied
<1>2. disk.misshapen # {} /\ ~ brand_new(disk)
  BY <1>1, UpgradingFacts
<1> QED
  BY <1>2 DEF Fitting

\* An upgrade is refused for a table or for rows.
LEMMA RefusedChange ==
  ASSUME MigrationsInv, stage = "upgrading", version \in Versions,
         Missing(work, version) # {}, Refuses(work, FirstMissing(work, version))
  PROVE  ~ Fitting(disk)
<1> DEFINE fact == FirstMissing(work, version)
<1>1. CASE TableOf(fact) \notin work.facts \union {fact}
  <2>1. ~ FirstTables \subseteq work.facts
    BY <1>1, UpgradingFacts, TablesFirst
  <2>2. ~ FirstTables \subseteq disk.facts /\ ~ brand_new(disk)
    BY <2>1, UpgradingFacts
  <2> QED
    BY <2>2 DEF Fitting
<1>2. CASE work.rows.active > 1 \/ work.rows.open > 1
  <2>1. disk \in Database
    BY DEF MigrationsInv, TypeOK
  <2>2. disk.rows.active \in Nat /\ disk.rows.open \in Nat
    BY <2>1 DEF Database, Rows
  <2>3. disk.rows.active > 1 \/ disk.rows.open > 1
    BY <1>2, UpgradingFacts
  <2>4. ~ (disk.rows.active <= 1 /\ disk.rows.open <= 1)
    BY <2>2, <2>3
  <2>5. ~ brand_new(disk)
    BY UpgradingFacts
  <2> QED
    BY <2>4, <2>5 DEF Fitting
<1> QED
  BY <1>1, <1>2 DEF Refuses

\* One change of an upgrade, or its refusal.
LEMMA UpgradeStepKeeps ==
  ASSUME MigrationsInv, UpgradeStep
  PROVE  MigrationsInv'
<1> DEFINE fact == FirstMissing(work, version)
           e == Established(work, fact)
<1>1. stage = "upgrading" /\ version \in Versions /\ Running
  BY UpgradingFacts, FactsOfVersions DEF UpgradeStep, Upgrading, CURRENT_SCHEMA_VERSION
<1>2. fact \in FactsOf(version) \ work.facts
  BY <1>1, FirstMissingType DEF UpgradeStep
<1>3. fact \in Facts
  BY <1>1, <1>2, FactsOfVersions
<1>4. CASE Refuses(work, fact) /\ Abandon /\ UNCHANGED faults
  <2>1. ~ Fitting(disk)
    BY <1>1, <1>4, RefusedChange DEF UpgradeStep
  <2>2. faults' \in 0 .. MaxFaults
    BY <1>4 DEF MigrationsInv, TypeOK
  <2> QED
    BY <1>1, <1>4, <2>1, <2>2, AbandonKeeps
<1> HIDE DEF fact
<1>5. CASE /\ ~ Refuses(work, fact) /\ Statement(e)
           /\ UNCHANGED <<inTransaction, stage, version, runs, starts, faults>>
  <2>1. e \in Database /\ Kept(e) /\ Further(work, e)
    BY <1>1, <1>2, <1>3, <1>5, UpgradingFacts, EstablishedFurther
  <2>2. UpTo(version - 1) \subseteq e.facts
    BY <1>1, <1>2, UpgradingFacts, EarlierStay
  <2>3. Survived(e)
    <3>1. origin \in Database /\ ("orders.is_close" \in origin.facts => "orders.is_close" \in work.facts)
      BY DEF MigrationsInv, TypeOK, FlagStays
    <3> QED
      BY <1>1, <2>1, <3>1, UpgradingFacts, SurvivesFurther
  <2> HIDE DEF e
  <2>4. work' = e /\ disk' = disk /\ stage' = stage /\ version' = version /\ Inside
    <3>1. work' = e /\ disk' = disk
      BY <1>1, <1>5, StatementInside
    <3> QED
      BY <1>5, <3>1 DEF Inside, starts
  <2>5. WorkGoesOn
    BY <2>1, <2>4 DEF WorkGoesOn, Further
  <2>6. LoopGoesOn
    <3>1. e.history = 1 .. version - 1 /\ version \in 0 .. 11 /\ version # 0
      BY <1>1, <2>1, UpgradingFacts DEF Further
    <3> QED
      BY <1>1, <2>2, <2>4, <3>1 DEF LoopGoesOn
  <2>7. StageFits'
    <3>1. FirstTables \cap found.facts \subseteq e.facts /\ ~ brand_new(found)
      BY <1>1, <2>1, UpgradingFacts DEF Further
    <3> QED
      BY <1>1, <2>4, <3>1 DEF StageFits, Inside, brand_new
  <2>8. Survived(work)'
    BY <2>3, <2>4 DEF Survived, Inside
  <2> QED
    BY <1>1, <2>4, <2>5, <2>6, <2>7, <2>8, InsideKeeps
<1> QED
  BY <1>4, <1>5 DEF UpgradeStep, fact

\* A version is recorded, or may not be.
LEMMA RecordMigrationKeeps ==
  ASSUME MigrationsInv, RecordMigration
  PROVE  MigrationsInv'
<1>1. /\ stage = "upgrading" /\ Running /\ version \in Versions
      /\ version \in Nat \ {0} /\ version <= 10
  BY UpgradingFacts, FactsOfVersions DEF RecordMigration, Upgrading, CURRENT_SCHEMA_VERSION
<1>2. UpTo(version) \subseteq work.facts
  <2>1. FactsOf(version) \subseteq work.facts
    BY NothingMissing DEF RecordMigration
  <2> QED
    BY <1>1, <2>1, UpToStep, UpgradingFacts
<1> DEFINE H == work.history \union {version}
           e == [work EXCEPT !.history = @ \union {version}]
<1>3. CASE ~ cumulative_invariants_satisfied(work, version) /\ Abandon /\ UNCHANGED faults
  <2>1. ~ Fitting(disk)
    BY <1>1, <1>2, <1>3, UnrecordedIsMisshapen
  <2>2. faults' \in 0 .. MaxFaults
    BY <1>3 DEF MigrationsInv, TypeOK
  <2> QED
    BY <1>1, <1>3, <2>1, <2>2, AbandonKeeps
<1>4. CASE /\ Statement(e) /\ version' = version + 1
           /\ UNCHANGED <<inTransaction, stage, runs, starts, faults>>
  <2>1. H = 1 .. version' - 1 /\ version' - 1 = version /\ version' \in 0 .. 11 /\ version' # 0
    <3>1. work.history = 1 .. version - 1
      BY <1>1, UpgradingFacts
    <3> QED
      BY <1>1, <1>4, <3>1
  <2>2. H \in SUBSET Nat /\ IsFiniteSet(H)
    <3>1. 1 \in Int /\ version \in Int /\ 1 .. version \subseteq Nat
      BY <1>1
    <3>2. IsFiniteSet(1 .. version)
      BY <3>1, IntervalFinite, Zenon
    <3>3. H = 1 .. version
      BY <2>1
    <3> HIDE DEF H
    <3> QED
      BY <3>1, <3>2, <3>3, Zenon
  <2>3. e = [work EXCEPT !.history = H] /\ work \in Database /\ Kept(work)
    BY <1>1, UpgradingFacts
  <2> HIDE DEF H, e
  <2>4. /\ e \in Database /\ Kept(e) /\ e.history = H
        /\ e.facts = work.facts /\ e.misshapen = work.misshapen /\ e.rows = work.rows
    BY <2>2, <2>3, HistoryOnly
  <2>5. work' = e /\ disk' = disk /\ stage' = stage /\ Inside
    <3>1. work' = e /\ disk' = disk
      BY <1>1, <1>4, StatementInside
    <3> QED
      BY <1>4, <3>1 DEF Inside, starts
  <2>6. WorkGoesOn
    BY <2>4, <2>5 DEF WorkGoesOn
  <2>7. LoopGoesOn
    BY <1>1, <1>2, <2>1, <2>4, <2>5 DEF LoopGoesOn
  <2>8. StageFits'
    <3>1. FirstTables \cap found.facts \subseteq e.facts /\ ~ brand_new(found)
      BY <1>1, <2>4, UpgradingFacts
    <3> QED
      BY <1>1, <2>5, <3>1 DEF StageFits, Inside, brand_new
  <2>9. Survived(work)'
    BY <1>1, <2>4, <2>5, UpgradingFacts DEF Survived, Inside
  <2> QED
    BY <1>1, <2>5, <2>6, <2>7, <2>8, <2>9, InsideKeeps
<1> QED
  BY <1>3, <1>4 DEF RecordMigration

\* The last validation.
LEMMA FinalValidationKeeps ==
  ASSUME MigrationsInv, FinalValidation
  PROVE  MigrationsInv'
<1>1. stage = "upgrading" /\ Running /\ version = 11 /\ version - 1 = 10
  BY UpgradingFacts DEF FinalValidation, CURRENT_SCHEMA_VERSION
<1>2. /\ work \in Database /\ Kept(work) /\ Survived(work)
      /\ work.history = 1 .. 10 /\ UpTo(10) \subseteq work.facts
  BY <1>1, UpgradingFacts
<1>3. CASE ~ cumulative_invariants_satisfied(work, version - 1)
  <2>1. Abandon /\ ~ Fitting(disk)
    BY <1>1, <1>2, <1>3, UnrecordedIsMisshapen DEF FinalValidation
  <2>2. faults' \in 0 .. MaxFaults
    BY DEF MigrationsInv, TypeOK, FinalValidation
  <2> QED
    BY <1>1, <2>1, <2>2, AbandonKeeps
<1>4. CASE cumulative_invariants_satisfied(work, version - 1)
  <2>1. work' = work /\ stage' = "leaving" /\ version' = 0 /\ Inside
    BY <1>4 DEF FinalValidation, Inside, starts
  <2>2. Finished(work)
    BY <1>1, <1>2, <1>4, HeadWhenValid, FactsOfVersions DEF Finished
  <2>3. StageFits'
    <3>1. Finished(work)'
      BY <2>1, <2>2 DEF Finished, StampedUnseen, Inside
    <3> QED
      BY <2>1, <3>1 DEF StageFits
  <2>4. WorkGoesOn /\ LoopGoesOn
    BY <1>2, <2>1 DEF WorkGoesOn, LoopGoesOn
  <2>5. Survived(work)'
    BY <1>2, <2>1 DEF Survived, Inside
  <2> QED
    BY <1>1, <2>1, <2>3, <2>4, <2>5, InsideKeeps
<1> QED
  BY <1>3, <1>4

\* The commit.
LEMMA CommitKeeps ==
  ASSUME MigrationsInv, Commit
  PROVE  MigrationsInv'
<1>1. /\ stage = "leaving" /\ disk' = work /\ inTransaction' = FALSE /\ stage' = "ok"
      /\ UNCHANGED <<work, version, runs, faults, found, origin>>
  BY DEF Commit, starts
<1>2. work \in Database /\ Kept(work) /\ Survived(work) /\ Finished(work) /\ version = 0
  BY <1>1 DEF MigrationsInv, TypeOK, StageFits
<1>3. UpMeansHead'
  <2>1. Finished(disk)'
    BY <1>1, <1>2 DEF Finished, StampedUnseen
  <2> QED
    BY <2>1 DEF UpMeansHead
<1>4. TypeOK'
  <2>1. "ok" \in Stages
    BY DEF Stages
  <2> QED
    BY <1>1, <1>2, <2>1 DEF MigrationsInv, TypeOK
<1>5. (RunIsolated /\ StageFits /\ FlagStays /\ AllOrNothing /\ RefusedForCause)'
  BY <1>1 DEF MigrationsInv, RunIsolated, Running, StageFits, FlagStays, AllOrNothing, RefusedForCause
<1>6. Kept(disk)' /\ Kept(work)' /\ Survived(disk)' /\ Survived(work)'
  BY <1>1, <1>2 DEF Survived
<1> QED
  BY <1>3, <1>4, <1>5, <1>6 DEF MigrationsInv

\* The operator ends duplicates.
LEMMA EndDuplicatesKeeps ==
  ASSUME MigrationsInv, EndDuplicates
  PROVE  MigrationsInv'
<1> DEFINE a == IF disk.rows.active > 1 THEN 1 ELSE disk.rows.active
           o == IF disk.rows.open > 1 THEN 1 ELSE disk.rows.open
<1>1. disk \in Database /\ Kept(disk) /\ Survived(disk)
  BY DEF MigrationsInv, TypeOK
<1>2. disk.rows \in Rows
  BY <1>1 DEF Database
<1>3. /\ disk' = [disk EXCEPT !.rows.active = a, !.rows.open = o] /\ work' = disk'
      /\ stage' = "none" /\ stage = "refused"
      /\ UNCHANGED <<inTransaction, version, runs, faults, found, origin>>
  BY DEF EndDuplicates, starts
<1>4. /\ a \in Nat /\ o \in Nat /\ a <= 1 /\ o <= 1
      /\ disk.rows.active = 0 => a = 0
      /\ disk.rows.open = 0 => o = 0
  <2>1. disk.rows.active \in Nat /\ disk.rows.open \in Nat
    BY <1>2 DEF Rows
  <2> QED
    BY <2>1
<1> HIDE DEF a, o
<1>5. /\ disk' \in Database /\ disk'.facts = disk.facts /\ disk'.history = disk.history
      /\ disk'.misshapen = disk.misshapen
      /\ disk'.rows.candles = disk.rows.candles /\ disk'.rows.closing = disk.rows.closing
      /\ disk'.rows.active = a /\ disk'.rows.open = o
  BY <1>1, <1>2, <1>3, <1>4 DEF Database, Rows
<1>6. Kept(disk)' /\ Kept(work)'
  BY <1>1, <1>3, <1>4, <1>5 DEF Kept
<1>7. Survived(disk)' /\ Survived(work)'
  BY <1>1, <1>3, <1>5 DEF Survived
<1>8. TypeOK'
  <2>1. "none" \in Stages /\ version' = 0
    BY <1>3 DEF MigrationsInv, TypeOK, Stages
  <2> QED
    BY <1>3, <1>5, <2>1 DEF MigrationsInv, TypeOK
<1>9. (RunIsolated /\ StageFits /\ FlagStays /\ UpMeansHead /\ AllOrNothing /\ RefusedForCause)'
  BY <1>3, <1>5
     DEF MigrationsInv, RunIsolated, Running, StageFits, FlagStays, UpMeansHead, AllOrNothing,
         RefusedForCause
<1> QED
  BY <1>6, <1>7, <1>8, <1>9 DEF MigrationsInv

\* MigrationsInv is inductive.
LEMMA StepKeeps == MigrationsInv /\ [Next]_vars => MigrationsInv'
<1> SUFFICES ASSUME MigrationsInv, [Next]_vars PROVE MigrationsInv'
  OBVIOUS
<1>1. CASE Fault
  <2>1. Running /\ Abandon /\ faults' \in 0 .. MaxFaults /\ faults' # 0
    BY <1>1, BoundsAssumption DEF Fault, MigrationsInv, TypeOK
  <2> QED
    BY <2>1, AbandonKeeps
<1>2. CASE UNCHANGED vars
  <2>1. /\ disk' = disk /\ work' = work /\ version' = version /\ stage' = stage
        /\ inTransaction' = inTransaction
        /\ runs' = runs /\ faults' = faults /\ found' = found /\ origin' = origin
    BY <1>2 DEF vars
  <2>2. TypeOK'
    <3>1. (version # 0 <=> stage = "upgrading")'
      BY <2>1 DEF MigrationsInv, TypeOK
    <3> QED
      BY <2>1, <3>1 DEF MigrationsInv, TypeOK
  <2>3. RunIsolated' /\ FlagStays' /\ AllOrNothing'
    BY <2>1 DEF MigrationsInv, RunIsolated, Running, FlagStays, AllOrNothing
  <2>4. StageFits'
    BY <2>1 DEF MigrationsInv, StageFits, Finished, StampedUnseen, brand_new, MissingTables
  <2>5. UpMeansHead'
    BY <2>1 DEF MigrationsInv, UpMeansHead, Finished, StampedUnseen, brand_new
  <2>6. Kept(disk)' /\ Kept(work)'
    BY ZenonT(60), <2>1 DEF MigrationsInv, Kept
  <2>7. Survived(disk)' /\ Survived(work)'
    BY <2>1 DEF MigrationsInv, Survived
  <2>8. RefusedForCause'
    BY <2>1 DEF MigrationsInv, RefusedForCause, Fitting, validate_recorded_history
  <2> QED
    BY <2>2, <2>3, <2>4, <2>5, <2>6, <2>7, <2>8 DEF MigrationsInv
<1> QED
  BY <1>1, <1>2, StartKeeps, BeginRefusedKeeps, BrandNewKeeps, CreateTableKeeps, StampHeadKeeps,
     StampStartingKeeps, UpgradeStepKeeps, RecordMigrationKeeps, FinalValidationKeeps,
     CommitKeeps, EndDuplicatesKeeps DEF Next

-----------------------------------------------------------------------------
(* The theorems *)

\* Types, the loop invariant, the isolation of the run and what both databases keep hold
\* in every reachable state.
THEOREM MigrationsSafe == Spec => []MigrationsInv
  BY InitInv, StepKeeps, PTL DEF Spec

\* The program comes up on the head version only: recorded, with every table and fact and
\* no column misshapen, its rows within the unique indexes.  Any database may be found,
\* and one that had tables but no system_state is the exception: what may be missing then
\* is confined to the tables it had, and the next start refuses it.
THEOREM HeadOrNothing == Spec => []UpMeansHead
  BY MigrationsSafe, PTL DEF MigrationsInv

\* The first row of every candle and the closing orders are there after any runs.
THEOREM RowsKept == Spec => []RowsSurvive
  BY MigrationsSafe, PTL DEF MigrationsInv, RowsSurvive

\* A run without faults refuses only a database that is not of any release.
THEOREM RefusalsHaveCause == Spec => []RefusedForCause
  BY MigrationsSafe, PTL DEF MigrationsInv

\* A run that does not end well leaves the disk as it found it: no statement of it was
\* executed outside of the transaction that is rolled back.
THEOREM NothingHalfDone == Spec => []AllOrNothing
  BY MigrationsSafe, PTL DEF MigrationsInv
=============================================================================

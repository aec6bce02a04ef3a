----------------------------- MODULE Migrations -----------------------------
(***************************************************************************)
(* Schema migrations: one run takes the database that it finds - new, of   *)
(* an earlier release, half migrated or tampered with - to the head        *)
(* version in one transaction, or leaves it as it was.                     *)
(*                                                                         *)
(* A schema is the set of its tables and of the facts that the upgrades    *)
(* establish: a table, a column with the nullability asked for, a group of *)
(* columns added together, or a unique index.  Rows are kept as far as an  *)
(* upgrade reads or rewrites them.                                         *)
(***************************************************************************)
EXTENDS Integers, Sequences, FiniteSets

CONSTANTS
  Databases,    \* the databases that a first run may find
  MaxRuns,      \* bound on starts of the program
  MaxFaults     \* bound on statements that fail and on crashes

CURRENT_SCHEMA_VERSION == 10
Versions == 1 .. CURRENT_SCHEMA_VERSION

-----------------------------------------------------------------------------
(* The facts of each version, in the order in which its upgrade sees to them *)

OrderColumns == "orders.filled_qty, avg_fill_price, fees_total, reference_price"

V1 == <<"system_state.state_ambiguous", "orders.is_close", "orders.stop_loss nullable">>
V2 == <<"system_state.clock_out_of_sync", "candles unique">>
V3 == <<"operational_sessions", "order_events", OrderColumns,
        "failures_reconciliations.order_id, session_id", "system_state causes">>
V4 == <<"executions.exchange_fill_id", "executions unique fill",
        "failures_reconciliations.mismatches_json", "operational_sessions.config_fingerprint",
        "funding_events", "funding_events unique">>
V5 == <<"orders.pending_exchange_status", "orders.fills_sync_status">>
V6 == <<"funding_collection_checkpoints", "funding_collection_checkpoints unique">>
V7 == <<"operational_sessions.symbols", "one active session", "one open position">>
V8 == <<"strategy_signals.source_candle_open_time">>
V9 == <<"shadow_experiments", "one active experiment", "shadow_opportunities",
        "shadow_positions", "shadow_trades">>
V10 == <<"strategy_signals created_at index", "risk_evaluations signal_id index">>

MIGRATIONS == <<V1, V2, V3, V4, V5, V6, V7, V8, V9, V10>>

FactsOf(version) == {MIGRATIONS[version][i] : i \in DOMAIN MIGRATIONS[version]}
UpTo(version) == UNION {FactsOf(v) : v \in 1 .. version}
Facts == UpTo(CURRENT_SCHEMA_VERSION)

\* The tables that the upgrades expect to find; they create the others
FirstTables ==
  {"system_state", "orders", "candles", "failures_reconciliations", "executions",
   "positions", "strategy_signals", "risk_evaluations"}
Schema == Facts \union FirstTables

TableOf(fact) ==
  CASE fact \in {"system_state.state_ambiguous", "system_state.clock_out_of_sync",
                 "system_state causes"}                           -> "system_state"
    [] fact \in {"orders.is_close", "orders.stop_loss nullable", OrderColumns,
                 "orders.pending_exchange_status", "orders.fills_sync_status"}
                                                                  -> "orders"
    [] fact = "candles unique"                                    -> "candles"
    [] fact \in {"failures_reconciliations.order_id, session_id",
                 "failures_reconciliations.mismatches_json"}      -> "failures_reconciliations"
    [] fact \in {"executions.exchange_fill_id", "executions unique fill"}
                                                                  -> "executions"
    [] fact = "one open position"                                 -> "positions"
    [] fact \in {"strategy_signals.source_candle_open_time",
                 "strategy_signals created_at index"}             -> "strategy_signals"
    [] fact = "risk_evaluations signal_id index"                  -> "risk_evaluations"
    [] fact \in {"operational_sessions.config_fingerprint",
                 "operational_sessions.symbols", "one active session"}
                                                                  -> "operational_sessions"
    [] fact = "funding_events unique"                             -> "funding_events"
    [] fact = "funding_collection_checkpoints unique"             -> "funding_collection_checkpoints"
    [] fact = "one active experiment"                             -> "shadow_experiments"
    [] OTHER                                                      -> fact     \* a table

\* Columns that an upgrade leaves alone when they exist with another nullability
Misshapable ==
  {"orders.pending_exchange_status", "orders.fills_sync_status",
   "operational_sessions.symbols", "strategy_signals.source_candle_open_time"}

\* Rows of candles are pairs of key and id; orders are those flagged is_close
Rows ==
  [candles : SUBSET (Nat \X Nat), closing : SUBSET Nat,
   active : Nat, open : Nat]     \* the most sessions active, positions open, at one place
Database ==
  [facts : SUBSET Schema, misshapen : SUBSET Misshapable,
   history : SUBSET Nat, rows : Rows]

\* What SQLite sees to: a table has its columns, indexes and rows only while it is there,
\* and the rows keep to the unique indexes that exist
Kept(db) ==
  /\ IsFiniteSet(db.history)
  /\ db.misshapen \subseteq db.facts
  /\ \A fact \in db.facts : TableOf(fact) \in db.facts
  /\ "candles" \notin db.facts => db.rows.candles = {}
  /\ "operational_sessions" \notin db.facts => db.rows.active = 0
  /\ "positions" \notin db.facts => db.rows.open = 0
  /\ "candles unique" \in db.facts => \A c, d \in db.rows.candles : c[1] = d[1] => c = d
  /\ "one active session" \in db.facts => db.rows.active <= 1
  /\ "one open position" \in db.facts => db.rows.open <= 1

ASSUME DatabasesAssumption == \A db \in Databases : db \in Database /\ Kept(db)
ASSUME BoundsAssumption == MaxRuns \in Nat /\ MaxFaults \in Nat

Greatest(S) == CHOOSE x \in S : \A y \in S : y <= x

-----------------------------------------------------------------------------
(* Invariants of versions *)

\* Seeded variant: a version is trusted for its own facts
newest_invariants_satisfied(db, version) ==
  version > 0 => FactsOf(version) \subseteq db.facts \ db.misshapen

\* _invariants_satisfied_for_version, for 1 to the version
cumulative_invariants_satisfied(db, version) ==
  UpTo(version) \subseteq db.facts \ db.misshapen

\* detect_legacy_version
detect_legacy_version(db) ==
  Greatest({0} \union {v \in Versions : cumulative_invariants_satisfied(db, v)})

\* validate_recorded_history passes
validate_recorded_history(db) ==
  db.history # {} =>
    LET max_version == Greatest(db.history) IN
    /\ max_version <= CURRENT_SCHEMA_VERSION
    /\ db.history = 1 .. max_version
    /\ cumulative_invariants_satisfied(db, max_version)

-----------------------------------------------------------------------------
(* Upgrades *)

\* Seeded variant: the latest row of each candle survives
LatestOfEach(candles) == {c \in candles : \A d \in candles : d[1] = c[1] => d[2] <= c[2]}

\* Of the rows of one candle, the first one inserted survives
FirstOfEach(candles) == {c \in candles : \A d \in candles : d[1] = c[1] => c[2] <= d[2]}

\* The rebuild of orders knows the columns of version 1 only, and copies is_close
RebuiltOrders(db) ==
  LET lost == {OrderColumns} \union FactsOf(5) IN
  [db EXCEPT !.facts = (@ \union {"orders.is_close", "orders.stop_loss nullable"}) \ lost,
             !.misshapen = @ \ lost,
             !.rows.closing = IF "orders.is_close" \in db.facts THEN @ ELSE {}]

\* A table that is not there, rows that a unique index would refuse, or rows that the
\* upgrade refuses itself
Refuses(db, fact) ==
  \/ TableOf(fact) \notin db.facts \union {fact}
  \/ fact = "one active session" /\ db.rows.active > 1
  \/ fact = "one open position" /\ db.rows.open > 1

\* What has to be done for a fact
Established(db, fact) ==
  CASE fact \in {"orders.is_close", "orders.stop_loss nullable"} -> RebuiltOrders(db)
    [] fact = "candles unique" ->
         [db EXCEPT !.facts = @ \union {fact}, !.rows.candles = FirstOfEach(@)]
    [] fact = "operational_sessions.symbols" ->      \* rebuilt, without its index
         [db EXCEPT !.facts = (@ \union {fact}) \ {"one active session"}]
    [] OTHER -> [db EXCEPT !.facts = @ \union {fact}]

\* Seeded variant: orders are rebuilt for a missing is_close alone
MissingIgnoringStopLoss(db, version) ==
  {i \in DOMAIN MIGRATIONS[version] :
     /\ MIGRATIONS[version][i] \notin db.facts
     /\ MIGRATIONS[version][i] = "orders.stop_loss nullable" => "orders.is_close" \notin db.facts}

\* What the upgrade to a version still finds missing
Missing(db, version) ==
  {i \in DOMAIN MIGRATIONS[version] : MIGRATIONS[version][i] \notin db.facts}
FirstMissing(db, version) ==
  MIGRATIONS[version][CHOOSE i \in Missing(db, version) : \A j \in Missing(db, version) : i <= j]

-----------------------------------------------------------------------------
(* A run *)

VARIABLES
  disk,      \* the database, as committed
  work,      \* the database, as the run sees it
  inTransaction,   \* SQLite has a transaction open for the run
  stage,     \* of the latest run, see Stages
  version,   \* the version being upgraded to; 0 outside of the loop
  runs, faults,
  found,     \* history: the database that the latest run found
  origin     \* history: the database that the first run found

vars == <<disk, work, inTransaction, stage, version, runs, faults, found, origin>>
starts == <<found, origin>>

Stages ==
  {"none", "begun", "creating", "upgrading", "leaving",    \* the with block of the run
   "ok", "refused"}
Running == stage \in {"begun", "creating", "upgrading", "leaving"}

Init ==
  /\ disk \in Databases /\ work = disk /\ found = disk /\ origin = disk
  /\ inTransaction = FALSE /\ stage = "none" /\ version = 0
  /\ runs = 0 /\ faults = 0

\* engine.begin() calls the listener, which sends BEGIN to SQLite.
Start ==
  /\ ~ Running /\ runs < MaxRuns
  /\ runs' = runs + 1
  /\ stage' = "begun" /\ inTransaction' = TRUE
  /\ work' = disk /\ found' = disk
  /\ UNCHANGED <<disk, version, faults, origin>>

\* Seeded variant: the driver commits a change of the schema at once
AutocommittedStatement(new) ==
  /\ work' = new
  /\ disk' = IF inTransaction /\ new.facts = work.facts THEN disk ELSE new

\* A statement outside of a transaction is its own; with isolation_level None the driver
\* neither commits around a statement nor begins a transaction before it.
Statement(new) ==
  /\ work' = new
  /\ disk' = IF inTransaction THEN disk ELSE new

\* The exception leaves the with block: SQLite rolls back the transaction, if there is one.
Abandon ==
  /\ work' = disk
  /\ inTransaction' = FALSE /\ stage' = "refused" /\ version' = 0
  /\ UNCHANGED <<disk, runs, starts>>

\* SchemaDivergenceError
BeginRefused ==
  /\ stage = "begun" /\ ~ validate_recorded_history(work)
  /\ Abandon /\ UNCHANGED faults

-----------------------------------------------------------------------------
(* A database without system_state *)

brand_new(db) == "system_state" \notin db.facts

BrandNew ==
  /\ stage = "begun" /\ validate_recorded_history(work)
  /\ brand_new(work)
  /\ stage' = "creating"
  /\ UNCHANGED <<disk, work, inTransaction, version, runs, faults, starts>>

MissingTables(db) == {TableOf(fact) : fact \in Schema} \ db.facts

\* A table of the models, with its columns and indexes
Created(db, table) ==
  [db EXCEPT !.facts = @ \union {fact \in Schema : TableOf(fact) = table}]

\* create_all leaves the tables that exist as they are ...
CreateTable ==
  /\ stage = "creating" /\ MissingTables(work) # {}
  /\ Statement(Created(work, CHOOSE table \in MissingTables(work) : TRUE))
  /\ UNCHANGED <<inTransaction, stage, version, runs, faults, starts>>

\* ... and every version is recorded, without a look at the schema.
StampHead ==
  /\ stage = "creating" /\ MissingTables(work) = {}
  /\ Statement([work EXCEPT !.history = @ \union Versions])
  /\ stage' = "leaving"
  /\ UNCHANGED <<inTransaction, version, runs, faults, starts>>

-----------------------------------------------------------------------------
(* Any other database *)

\* A recorded history, or what the schema already satisfies, gives the first version
StampStarting ==
  /\ stage = "begun" /\ validate_recorded_history(work)
  /\ ~ brand_new(work)
  /\ LET starting == IF work.history = {} THEN detect_legacy_version(work)
                     ELSE Greatest(work.history)
     IN  /\ Statement([work EXCEPT !.history = 1 .. starting])
         /\ version' = starting + 1
  /\ stage' = "upgrading"
  /\ UNCHANGED <<inTransaction, runs, faults, starts>>

Upgrading == stage = "upgrading" /\ version <= CURRENT_SCHEMA_VERSION

\* One guarded change of the upgrade
UpgradeStep ==
  /\ Upgrading /\ Missing(work, version) # {}
  /\ LET fact == FirstMissing(work, version) IN
       \/ /\ ~ Refuses(work, fact)
          /\ Statement(Established(work, fact))
          /\ UNCHANGED <<inTransaction, stage, version, runs, starts>>
       \/ Refuses(work, fact) /\ Abandon
  /\ UNCHANGED faults

\* The upgrade is over: its version and those before it must hold to be recorded
RecordMigration ==
  /\ Upgrading /\ Missing(work, version) = {}
  /\ \/ /\ cumulative_invariants_satisfied(work, version)
        /\ Statement([work EXCEPT !.history = @ \union {version}])
        /\ version' = version + 1
        /\ UNCHANGED <<inTransaction, stage, runs, starts>>
     \/ ~ cumulative_invariants_satisfied(work, version) /\ Abandon
  /\ UNCHANGED faults

\* The last validation
FinalValidation ==
  /\ stage = "upgrading" /\ version > CURRENT_SCHEMA_VERSION
  /\ IF cumulative_invariants_satisfied(work, version - 1)
     THEN /\ stage' = "leaving" /\ version' = 0
          /\ UNCHANGED <<disk, work, inTransaction, runs, starts>>
     ELSE Abandon
  /\ UNCHANGED faults

-----------------------------------------------------------------------------
(* Its end *)

\* The with block is left without an exception.
Commit ==
  /\ stage = "leaving"
  /\ disk' = work
  /\ inTransaction' = FALSE /\ stage' = "ok"
  /\ UNCHANGED <<work, version, runs, faults, starts>>

\* A statement fails, or the process dies
Fault ==
  /\ Running /\ faults < MaxFaults
  /\ faults' = faults + 1
  /\ Abandon

\* The operator ends the duplicates that a run refused, as its message asks
EndDuplicates ==
  /\ stage = "refused"
  /\ disk.rows.active > 1 \/ disk.rows.open > 1
  /\ disk' = [disk EXCEPT !.rows.active = IF @ > 1 THEN 1 ELSE @,
                          !.rows.open = IF @ > 1 THEN 1 ELSE @]
  /\ work' = disk'
  /\ stage' = "none"
  /\ UNCHANGED <<inTransaction, version, runs, faults, starts>>

Next ==
  \/ Start \/ BeginRefused
  \/ BrandNew \/ CreateTable \/ StampHead
  \/ StampStarting \/ UpgradeStep \/ RecordMigration \/ FinalValidation
  \/ Commit \/ Fault \/ EndDuplicates

Spec == Init /\ [][Next]_vars

-----------------------------------------------------------------------------
(* Properties *)

\* Every variable has its type, and the loop its invariant: each version below the one
\* in hand is recorded and holds.
TypeOK ==
  /\ disk \in Database /\ work \in Database /\ found \in Database /\ origin \in Database
  /\ inTransaction \in BOOLEAN /\ stage \in Stages
  /\ version \in 0 .. CURRENT_SCHEMA_VERSION + 1
  /\ version # 0 <=> stage = "upgrading"
  /\ runs \in 0 .. MaxRuns /\ faults \in 0 .. MaxFaults
  /\ stage = "upgrading" =>
       work.history = 1 .. version - 1 /\ UpTo(version - 1) \subseteq work.facts

\* A database as the models describe it, with rows that keep to its unique indexes
AtHead(db) ==
  /\ db.facts = Schema /\ db.misshapen = {}
  /\ \A c, d \in db.rows.candles : c[1] = d[1] => c = d
  /\ db.rows.active <= 1 /\ db.rows.open <= 1

\* What a run found without system_state, but with other tables of whatever shape, is
\* recorded as it is: only facts about these tables may be missing, and no later run
\* accepts it.
StampedUnseen(db) ==
  /\ brand_new(found)
  /\ \A fact \in Schema \ db.facts : TableOf(fact) \in found.facts
  /\ ~ validate_recorded_history(db)

Finished(db) ==
  /\ db.history = Versions /\ ~ brand_new(db)
  /\ AtHead(db) \/ StampedUnseen(db)

\* The program comes up only on a database recorded as of the head version, that has
\* every fact of every version and rows to match.  The one exception is a database that
\* had tables but no system_state: the program comes up once, and the next start refuses
\* it (migrations.py:1012-1077, 1097-1182).
UpMeansHead == stage = "ok" => Finished(disk)

\* A run that does not end well, refused, failed or killed at any statement, leaves the
\* disk as it found it, rows, schema and recorded history (db.py:10-44,
\* migrations.py:1097-1189).
AllOrNothing == stage = "refused" => disk = found

\* Whatever the runs did, the first row of every candle is there, with no other than
\* there was, and closing orders are still closing orders (migrations.py:242-294,
\* 297-318).
Survived(db) ==
  /\ db.rows.candles \subseteq origin.rows.candles
  /\ \A c \in origin.rows.candles :
       c \in db.rows.candles \/ \E d \in db.rows.candles : d[1] = c[1] /\ d[2] < c[2]
  /\ "orders.is_close" \in origin.facts => db.rows.closing = origin.rows.closing
RowsSurvive == Survived(disk)

\* Without faults, a run refuses only what is not a database of any release, stopped
\* at any point of an upgrade: a history that does not fit the schema, a table that every
\* release had and that is gone, a column of the wrong shape, or rows that break a rule of
\* version 7.  Without system_state it refuses nothing but a history.
Fitting(db) ==
  /\ validate_recorded_history(db)
  /\ \/ brand_new(db)
     \/ /\ FirstTables \subseteq db.facts /\ db.misshapen = {}
        /\ db.rows.active <= 1 /\ db.rows.open <= 1
RefusedForCause == stage = "refused" /\ faults = 0 => ~ Fitting(disk)

-----------------------------------------------------------------------------
(* Why they hold: the inductive invariant *)

\* A run works inside a transaction, on the rows and shapes of the database it found ...
RunIsolated ==
  Running =>
    /\ inTransaction /\ disk = found
    /\ work.misshapen \subseteq found.misshapen
    /\ work.rows.active = found.rows.active /\ work.rows.open = found.rows.open

\* ... which it has not changed yet, or creates the missing tables of, or upgrades.
StageFits ==
  /\ stage = "begun" => work = found
  /\ stage = "creating" =>
       /\ brand_new(found) /\ work.history = {}
       /\ \A fact \in Schema \ work.facts :
            TableOf(fact) \in found.facts \union MissingTables(work)
  /\ stage = "upgrading" => ~ brand_new(found) /\ FirstTables \cap found.facts \subseteq work.facts
  /\ stage = "leaving" => Finished(work)

\* A flag that orders had from the start is never dropped.
FlagStays == "orders.is_close" \in origin.facts => "orders.is_close" \in disk.facts \cap work.facts

MigrationsInv ==
  /\ TypeOK /\ RunIsolated /\ StageFits /\ FlagStays
  /\ Kept(disk) /\ Kept(work) /\ Survived(disk) /\ Survived(work)
  /\ UpMeansHead /\ AllOrNothing /\ RefusedForCause
=============================================================================

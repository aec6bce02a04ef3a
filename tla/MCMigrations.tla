---------------------------- MODULE MCMigrations ----------------------------
(* The databases that TLC lets Migrations find. *)
EXTENDS Migrations, TLC

\* One candle stored twice and one stored once; order 1 closes
Doubled == {<<1, 1>>, <<1, 3>>, <<2, 2>>}
Single  == {<<1, 1>>, <<2, 2>>}

Plain(facts, history) ==
  [facts |-> facts \union FirstTables, misshapen |-> {}, history |-> history,
   rows |-> [candles |-> IF "candles unique" \in facts THEN Single ELSE Doubled,
             closing |-> IF "orders.is_close" \in facts THEN {1} ELSE {},
             active  |-> IF "operational_sessions.symbols" \in facts THEN 1 ELSE 0,
             open    |-> 1]]

NoRows == [candles |-> {}, closing |-> {}, active |-> 0, open |-> 0]
Empty  == [facts |-> {}, misshapen |-> {}, history |-> {}, rows |-> NoRows]

\* A fact taken away; a table with all that it has
Dropped(db, gone) ==
  LET facts == {fact \in db.facts : fact # gone /\ TableOf(fact) # gone} IN
  [facts |-> facts, misshapen |-> db.misshapen \cap facts, history |-> db.history,
   rows |-> [candles |-> IF "candles" \in facts THEN db.rows.candles ELSE {},
             closing |-> IF "orders.is_close" \in facts THEN db.rows.closing ELSE {},
             active  |-> IF "operational_sessions" \in facts THEN db.rows.active ELSE 0,
             open    |-> IF "positions" \in facts THEN db.rows.open ELSE 0]]

\* Releases without recorded history, the upgrade to the next one begun or not
Unrecorded == {Plain(facts, {}) : facts \in SUBSET UpTo(2)}

\* Releases with a history
Recorded == {Plain(UpTo(v), 1 .. v) : v \in Versions}

\* The same, with the first changes of the next upgrade already made
Begun ==
  UNION {{Plain(UpTo(v) \union {MIGRATIONS[v + 1][i] : i \in 1 .. n}, 1 .. v) :
            n \in DOMAIN MIGRATIONS[v + 1]} : v \in 1 .. CURRENT_SCHEMA_VERSION - 1}

\* A fact or a table taken away by hand, a gap in the history, a newer version,
\* misshapen columns
Tampered ==
  {Dropped(Plain(UpTo(v), 1 .. v), fact) : v \in {2, 7, 10}, fact \in UpTo(2) \union UpTo(7)}
    \union {Dropped(Plain(UpTo(v), {}), table) : v \in {0, 6}, table \in FirstTables}
    \union {Plain(Facts, Versions \ {v}) : v \in {1, 4, 10}}
    \union {Plain(Facts, Versions \union {CURRENT_SCHEMA_VERSION + 1})}
    \union {[Plain(UpTo(v) \union {column}, history) EXCEPT !.misshapen = {column}] :
              v \in {4, 7}, column \in Misshapable, history \in {{}, 1 .. 4}}

\* system_state is gone, or was never there: with the other tables of a release, one more
\* of them gone or a column misshapen, with a history or without
Headless ==
  {Dropped(Plain(UpTo(v), history), "system_state") : v \in {0, 1, 6, 10}, history \in {{}, 1 .. 10}}
    \union {Dropped(Dropped(Plain(UpTo(v), {}), "system_state"), table) :
              v \in {1, 7}, table \in {"orders", "candles", "operational_sessions"}}
    \union {Dropped([Plain(Facts, {}) EXCEPT !.misshapen = {column}], "system_state") :
              column \in Misshapable}
    \union {[Empty EXCEPT !.facts = {table}] : table \in {"orders", "funding_events"}}

\* Rows that version 7 refuses
Breaking ==
  {[Plain(UpTo(v), 1 .. v) EXCEPT !.rows.open = 2] : v \in {2, 6}}
    \union {[Plain(UpTo(6) \union {"operational_sessions.symbols"}, 1 .. 6) EXCEPT !.rows.active = 2]}

All == {Empty} \union Unrecorded \union Recorded \union Begun \union Tampered
         \union Headless \union Breaking
=============================================================================

---------------------------- MODULE AccountBook ----------------------------
(***************************************************************************)
(* The account over the lives of the process: boots under changing         *)
(* settings, sessions and their accounting base, trades and their fees,    *)
(* and the figures that the dashboard derives from them (portfolio-summary *)
(* and equity-curve).  Funding, the third term of the equity, is in the    *)
(* module of that name: it counts rows from the same instant.              *)
(*                                                                         *)
(* Time counts events: each one that stamps a row moves the clock, so no   *)
(* two rows carry the same instant.  What orders, gates and reconciliation *)
(* do on their way is the matter of OrderLifecycle; here an entry is       *)
(* ordered, is filled or not, and its position is closed.                  *)
(***************************************************************************)
EXTENDS OperationalSessions

CONSTANTS
  MaxNow,            \* bound on time
  MaxBoots,          \* bound on lives of the process
  MaxOrders,         \* bound on entries
  Inherited,         \* sessions that an earlier release may have left
  Pnl, Fee           \* result of a trade, fee of a fill

Time == 0 .. MaxNow
ASSUME BoundsAssumption == {MaxNow, MaxBoots, MaxOrders} \subseteq Nat /\ MaxNow # 0
ASSUME InheritedAssumption ==
  \A left \in Inherited :
    /\ left \in Seq(Session)
    /\ \A i \in DOMAIN left : left[i].started <= 1 /\ left[i].ended <= 1
    /\ OpenIsLast(left)
ASSUME MoneyAssumption == {Pnl, Fee} \subseteq Int

VARIABLES
  now,          \* the clock
  proc,         \* the process is "up" or "down"
  settings,     \* what it was started with
  sessions,     \* table operational_sessions, in order of start
  active,       \* system_state.active_session_id
  entries,      \* operational_state is ATIVO
  trades,       \* tables orders and positions: one entry, its position, if any
  fees,         \* table executions: symbol and instant of each fill
  boots         \* number of boots so far

memory == <<proc, settings>>
account == <<trades, fees>>
vars == <<now, memory, sessions, active, entries, account, boots>>

-----------------------------------------------------------------------------
(* State *)

\* status: the entry is "ordered", or its position is "open" or "closed"
Trade ==
  [symbol : Symbols, session : Nat, decided : Time, opened : Time, closed : Time,
   status : {"ordered", "open", "closed"}]
Fill == [symbol : Symbols, at : Time]

open_positions == {p \in trades : p.status = "open"}
Flat == open_positions = {}
NoSettings == [portfolio |-> <<>>, balance |-> 0, timeframe |-> 0, rest |-> 0]

Init ==
  /\ now = 1 /\ proc = "down" /\ settings = NoSettings /\ boots = 0
  /\ sessions \in Inherited /\ active = Len(sessions) /\ entries = FALSE
  /\ trades = {} /\ fees = {}

-----------------------------------------------------------------------------
(* Figures *)

BaseStart == sessions[resolve_accounting_base(sessions, active)].started

\* Seeded variant: fees are those of the current session
fees_of_session(S, since) ==
  Fee * Cardinality({f \in fees : f.symbol \in S /\ f.at >= sessions[active].started})

\* The rows that count since an instant; without an active session, all of them
closed_positions(S, since) ==
  {p \in trades : p.status = "closed" /\ p.symbol \in S /\ p.closed >= since}
execution_fees(S, since) == Fee * Cardinality({f \in fees : f.symbol \in S /\ f.at >= since})
\* portfolio-summary, block portfolio: the realised part of the equity, over the
\* configured symbols.  Positions are marked to the market nowhere in this model.
Equity(S) ==
  resolve_starting_balance(sessions[active])
    + Pnl * Cardinality(closed_positions(S, BaseStart))
    - execution_fees(S, BaseStart)

\* equity-curve: its last point, over the closed positions of every symbol, each with
\* the fees of its two fills
LastPointOfCurve ==
  resolve_starting_balance(sessions[active])
    + (Pnl - 2 * Fee) * Cardinality(closed_positions(Symbols, BaseStart))

-----------------------------------------------------------------------------
(* Boot, activation, end *)

Stamps == /\ now < MaxNow
          /\ now' = now + 1

\* build_orchestrator: one transaction.  The program comes up observing.
Boot(config) ==
  /\ proc = "down" /\ boots < MaxBoots /\ Stamps
  /\ GuardsPass(sessions, config, Flat)
  /\ LET chosen == start_or_resume_session(sessions, config, now')
     IN  sessions' = chosen.sessions /\ active' = chosen.active
  /\ entries' = FALSE
  /\ proc' = "up" /\ settings' = config
  /\ boots' = boots + 1
  /\ UNCHANGED <<account>>

\* A guard raises: nothing is written and the program does not come up
BootRefused(config) ==
  /\ proc = "down" /\ boots < MaxBoots
  /\ ~ GuardsPass(sessions, config, Flat)
  /\ boots' = boots + 1
  /\ UNCHANGED <<now, memory, sessions, active, entries, account>>

\* POST /operational-state/activate
Activate ==
  /\ proc = "up" /\ ~ entries
  /\ entries' = TRUE
  /\ UNCHANGED <<now, memory, sessions, active, account, boots>>

\* _graceful_shutdown: its transaction also ends the active session
Shutdown ==
  /\ proc = "up" /\ Stamps
  /\ proc' = "down" /\ settings' = NoSettings
  /\ entries' = FALSE
  /\ sessions' = IF sessions[active].ended = Null
                 THEN end_session(sessions, active, now', "graceful") ELSE sessions
  /\ UNCHANGED <<active, account, boots>>

Crash ==
  /\ proc = "up"
  /\ proc' = "down" /\ settings' = NoSettings
  /\ UNCHANGED <<now, sessions, active, entries, account, boots>>

-----------------------------------------------------------------------------
(* Trades *)

Operating(s) == proc = "up" /\ s \in SymbolsOf(settings)

\* A tick submits an entry for its symbol
OrderEntry(s) ==
  /\ Operating(s) /\ entries /\ Stamps
  /\ Cardinality(trades) < MaxOrders
  /\ \A p \in trades : p.symbol = s => p.status = "closed"
  /\ trades' = trades \union
       {[symbol |-> s, session |-> active, decided |-> now', opened |-> 0, closed |-> 0,
         status |-> "ordered"]}
  /\ UNCHANGED <<memory, sessions, active, entries, fees, boots>>

\* A tick of any symbol polls an order that the exchange filled at some earlier instant
FillEntry(p) ==
  /\ proc = "up" /\ p.status = "ordered" /\ Stamps
  /\ trades' = (trades \ {p}) \union {[p EXCEPT !.status = "open", !.opened = now']}
  /\ \E at \in {p.decided, now'} : fees' = fees \union {[symbol |-> p.symbol, at |-> at]}
  /\ UNCHANGED <<memory, sessions, active, entries, boots>>

\* A tick closes the position of its symbol
ClosePosition(p) ==
  /\ Operating(p.symbol) /\ p.status = "open" /\ Stamps
  /\ trades' = (trades \ {p}) \union {[p EXCEPT !.status = "closed", !.closed = now']}
  /\ fees' = fees \union {[symbol |-> p.symbol, at |-> now']}
  /\ UNCHANGED <<memory, sessions, active, entries, boots>>

-----------------------------------------------------------------------------
Next ==
  \/ \E config \in Configs : Boot(config) \/ BootRefused(config)
  \/ Activate \/ Shutdown \/ Crash
  \/ \E s \in Symbols : OrderEntry(s)
  \/ \E p \in trades : FillEntry(p) \/ ClosePosition(p)

Spec == Init /\ [][Next]_vars
=============================================================================

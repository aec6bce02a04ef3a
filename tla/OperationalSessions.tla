------------------------ MODULE OperationalSessions ------------------------
(***************************************************************************)
(* Operational sessions: the row that a boot creates or resumes for one    *)
(* portfolio (mode and ordered symbols), the guards that refuse to start   *)
(* over open positions, and the accounting base, the run of consecutive    *)
(* sessions that share one starting balance.                               *)
(*                                                                         *)
(* A session keeps the configuration it was created under; two             *)
(* fingerprints are equal exactly when the configurations are.             *)
(***************************************************************************)
EXTENDS Integers, Sequences, FiniteSets

CONSTANTS
  Symbols,       \* every symbol of the instance
  Configs,       \* the settings that an operator starts the program with
  Fallback,      \* LEGACY_STARTING_BALANCE_FALLBACK_USD
  NoField        \* a field that the snapshot of a legacy session lacks

\* Settings, as far as sessions tell them apart: the ordered symbols, the starting
\* balance, the strategy timeframe, and every other field of the fingerprint
Config == [portfolio : Seq(Symbols), balance : Nat, timeframe : Nat, rest : Nat]

ASSUME ConfigsAssumption == Configs \subseteq Config
ASSUME FallbackAssumption == Fallback \in Nat /\ NoField \notin Nat

Snapshot ==
  [portfolio : Seq(Symbols), balance : Nat \union {NoField},
   timeframe : Nat \union {NoField}, rest : Nat]
Reasons == {"none", "replaced", "graceful"}

\* Instants are positive; 0 stands for NULL
Null == 0
Session == [config : Snapshot, started : Nat, ended : Nat, reason : Reasons]
SymbolsOf(config) == {config.portfolio[i] : i \in DOMAIN config.portfolio}

\* resolve_starting_balance: frozen in the session, never read from the settings
resolve_starting_balance(session) ==
  IF session.config.balance = NoField THEN Fallback ELSE session.config.balance

\* Sessions are numbered in the order in which they started
LastOne(S) == CHOOSE i \in S : \A j \in S : j <= i
SamePortfolio(sessions, portfolio) == {i \in DOMAIN sessions : sessions[i].config.portfolio = portfolio}

\* Candidates to be resumed: not ended, of this very portfolio
StillOpen(sessions, portfolio) ==
  {i \in SamePortfolio(sessions, portfolio) : sessions[i].ended = Null}

\* The partial unique index of the table: a portfolio has one open session at a time
AtMostOneOpen(sessions) ==
  \A i, j \in DOMAIN sessions :
    /\ sessions[i].config.portfolio = sessions[j].config.portfolio
    /\ sessions[i].ended = Null /\ sessions[j].ended = Null
    => i = j

\* An open session started after every other of its portfolio: to start one ends it
OpenIsLast(sessions) ==
  \A i, j \in DOMAIN sessions :
    sessions[i].config.portfolio = sessions[j].config.portfolio /\ sessions[i].ended = Null
    => j <= i

\* _guard_starting_balance_reset
BalanceMayChange(session, config, flat) ==
  resolve_starting_balance(session) # config.balance => flat

\* _guard_strategy_timeframe_change
TimeframeMayChange(session, config, flat) ==
  session.config.timeframe \notin {NoField, config.timeframe} => flat

\* Seeded variant: a changed timeframe is never looked at
GuardsPassBalanceOnly(sessions, config, flat) ==
  \A i \in StillOpen(sessions, config.portfolio) :
    sessions[i].config # config => BalanceMayChange(sessions[i], config, flat)

\* The guards look at the session about to be replaced, if there is one
GuardsPass(sessions, config, flat) ==
  \A i \in StillOpen(sessions, config.portfolio) :
    sessions[i].config # config =>
      /\ BalanceMayChange(sessions[i], config, flat)
      /\ TimeframeMayChange(sessions[i], config, flat)

end_session(sessions, i, at, reason) ==
  [sessions EXCEPT ![i].ended = at, ![i].reason = reason]

NewSession(config, at) ==
  [config |-> config, started |-> at, ended |-> Null, reason |-> "none"]

\* Seeded variant: an open session is resumed whatever it was configured for
start_or_resume_any(sessions, config, at) ==
  LET open == StillOpen(sessions, config.portfolio) IN
  IF open # {}
  THEN [sessions |-> sessions, active |-> LastOne(open)]
  ELSE [sessions |-> Append(sessions, NewSession(config, at)), active |-> Len(sessions) + 1]

\* start_or_resume_session, once the guards have passed
start_or_resume_session(sessions, config, at) ==
  LET open == StillOpen(sessions, config.portfolio)
      last == LastOne(open)
      left == IF open = {} THEN sessions ELSE end_session(sessions, last, at, "replaced")
  IN  IF open # {} /\ sessions[last].config = config
      THEN [sessions |-> sessions, active |-> last]
      ELSE [sessions |-> Append(left, NewSession(config, at)), active |-> Len(sessions) + 1]

\* Seeded variant: the base is the session itself
resolve_base_session(sessions, active) == active

\* resolve_accounting_base: back over the sessions of the portfolio while the
\* starting balance stays the same
resolve_accounting_base(sessions, active) ==
  LET Earlier(i) == {j \in SamePortfolio(sessions, sessions[i].config.portfolio) : j < i}
      target == resolve_starting_balance(sessions[active])
      base[i \in DOMAIN sessions] ==
        IF \/ Earlier(i) = {}
           \/ resolve_starting_balance(sessions[LastOne(Earlier(i))]) # target
        THEN i ELSE base[LastOne(Earlier(i))]
  IN  base[active]
=============================================================================

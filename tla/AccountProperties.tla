------------------------- MODULE AccountProperties -------------------------
(* What sessions and trades promise together. *)
EXTENDS AccountBook

\* Every variable has its type.
TypeOK ==
  /\ now \in 1 .. MaxNow /\ proc \in {"up", "down"} /\ settings \in Configs \union {NoSettings}
  /\ active \in 0 .. Len(sessions)
  /\ sessions \in Seq(Session)
  /\ entries \in BOOLEAN /\ trades \subseteq Trade /\ fees \subseteq Fill
  /\ boots \in 0 .. MaxBoots

-----------------------------------------------------------------------------
(* Sessions *)

\* The process works under the very settings frozen in its session, which has not
\* ended, and no other session of the portfolio is open: a change of any field of
\* the fingerprint replaces the session, whether the process before it ended
\* gracefully or not (sessions.py:391-457).
RunsUnderItsSnapshot ==
  proc = "up" =>
    /\ sessions[active].config = settings
    /\ StillOpen(sessions, settings.portfolio) = {active}

\* An open position is managed on the timeframe that it was decided on, through
\* crashes, restarts and changed settings.  The guard sees only a session of the same
\* portfolio that is still open, and only positions: it misses what was opened before
\* a graceful end or under another portfolio, and an order in flight
\* (sessions.py:160-203).
Missed(p) ==
  \/ \E i \in DOMAIN sessions : sessions[i].reason = "graceful" /\ sessions[i].ended > p.decided
  \/ sessions[p.session].config.portfolio # sessions[active].config.portfolio
  \/ \E i \in DOMAIN sessions : p.decided < sessions[i].started /\ sessions[i].started < p.opened
KeepsItsTerms ==
  \A p \in open_positions :
    Missed(p) \/ sessions[active].config.timeframe \in {NoField, sessions[p.session].config.timeframe}

\* The inductive invariant behind these two: nothing is stamped ahead of the clock, a
\* portfolio has one open session at most ...
Stamped ==
  /\ \A i \in DOMAIN sessions : sessions[i].started <= now
  /\ \A p \in trades : p.decided <= now

\* ... and what was decided in a session is out of the guard's sight (Gone), or the
\* session that the guard will look at has the timeframe of that one (Guarded).
Gone(p) ==
  \/ \E i \in DOMAIN sessions : sessions[i].reason = "graceful" /\ sessions[i].ended > p.decided
  \/ \E i \in DOMAIN sessions :
       p.decided < sessions[i].started /\ (p.status = "open" => sessions[i].started < p.opened)

TimeframeOf(i) == sessions[i].config.timeframe

Guarded(p) ==
  LET open == StillOpen(sessions, sessions[p.session].config.portfolio)
  IN  open # {} /\ \A i \in open : TimeframeOf(i) = TimeframeOf(p.session)

Terms ==
  \A p \in trades :
    /\ {p.session, active} \subseteq DOMAIN sessions /\ TimeframeOf(p.session) \in Nat
    /\ p.status = "closed" \/ Gone(p) \/ Guarded(p)
    /\ \/ sessions[active].ended = Null
       \/ sessions[active].reason = "graceful" /\ sessions[active].ended > p.decided

AccountInv == AtMostOneOpen(sessions) /\ RunsUnderItsSnapshot /\ Stamped /\ Terms

-----------------------------------------------------------------------------
(* Money *)

\* A boot that changes neither portfolio nor starting balance leaves the equity alone:
\* whatever else was changed, resumed, replaced or ended, the accounting base stays
\* (sessions.py:68-119, routes_dashboard.py:639-760).
RestartKeepsEquity ==
  [][\A config \in Configs :
       /\ Boot(config) /\ active # 0
       /\ config.portfolio = sessions[active].config.portfolio
       /\ config.balance = resolve_starting_balance(sessions[active])
       => Equity(SymbolsOf(config))' = Equity(SymbolsOf(config))]_vars

\* With no position open, the curve ends at the equity, although one
\* adds the fees of positions and the other those of fills.  Required while every trade
\* of the base was also ordered in it, on a symbol still configured
\* (routes_dashboard.py:639-686, 1068-1104).
CurveMeetsEquity ==
  LET S == SymbolsOf(settings)
  IN  /\ proc = "up"
      /\ \A p \in trades : p.status = "closed"
      /\ \A p \in closed_positions(Symbols, BaseStart) : p.decided >= BaseStart /\ p.symbol \in S
      => Equity(S) = LastPointOfCurve

\* The inductive invariant behind these two: the active session and any open one
\* started last in their portfolios ...
SessionsInOrder ==
  /\ OpenIsLast(sessions)
  /\ active # 0 =>
       \A i \in SamePortfolio(sessions, sessions[active].config.portfolio) : i <= active

\* ... and each trade has one fill of its entry and one of its close, at instants that no
\* other trade shares.
OfEntry(f, p) == p.status # "ordered" /\ f.symbol = p.symbol /\ f.at \in {p.decided, p.opened}
OfClose(f, p) == p.status = "closed" /\ f.symbol = p.symbol /\ f.at = p.closed

InstantsOf(p) == {p.decided, p.opened, p.closed} \ {Null}

InSequence(p, until) ==
  /\ 0 < p.decided /\ p.decided <= until
  /\ IF p.status = "ordered" THEN p.opened = Null ELSE p.decided < p.opened /\ p.opened <= until
  /\ IF p.status # "closed" THEN p.closed = Null ELSE p.opened < p.closed /\ p.closed <= until

Ledger ==
  /\ IsFiniteSet(trades) /\ IsFiniteSet(fees)
  /\ \A p \in trades : InSequence(p, now)
  /\ \A p, q \in trades : p # q => InstantsOf(p) \cap InstantsOf(q) = {}
  /\ \A f \in fees : \E p \in trades : OfEntry(f, p) \/ OfClose(f, p)
  /\ \A p \in trades : p.status # "ordered" => \E f \in fees : OfEntry(f, p)
  /\ \A p \in trades : p.status = "closed" => \E f \in fees : OfClose(f, p)
  /\ \A p \in trades : \A f, g \in fees : OfEntry(f, p) /\ OfEntry(g, p) => f = g

MoneyInv == SessionsInOrder /\ Ledger
=============================================================================

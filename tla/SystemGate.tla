----------------------------- MODULE SystemGate -----------------------------
(***************************************************************************)
(* The singleton row system_state, as the record g: the independent causes *)
(* that block trading, the derived flag, and the operational state of the  *)
(* strategy.  Every handler that touches a cause ends in Recompute, the    *)
(* translation of repo.recompute_trading_blocked.                          *)
(***************************************************************************)
EXTENDS Integers

CONSTANT MaxApiFailures     \* settings.risk_max_api_failures
ASSUME MaxApiFailuresAssumption == MaxApiFailures \in Nat \ {0}

OpStates ==
  {"INICIALIZANDO", "OBSERVANDO", "ATIVO", "PAUSADO", "BLOQUEADO", "ENCERRANDO"}

Gate ==
  [kill : BOOLEAN, ambiguous : BOOLEAN, clock : BOOLEAN, diverged : BOOLEAN,
   unknown : BOOLEAN, failures : 0 .. MaxApiFailures,
   notReconciled : BOOLEAN, blocked : BOOLEAN, opstate : OpStates]

FreshGate ==
  [kill |-> FALSE, ambiguous |-> FALSE, clock |-> FALSE, diverged |-> FALSE,
   unknown |-> FALSE, failures |-> 0,
   notReconciled |-> TRUE, blocked |-> FALSE, opstate |-> "INICIALIZANDO"]

HasCause(g) ==
  \/ g.kill \/ g.ambiguous \/ g.clock
  \/ g.failures >= MaxApiFailures
  \/ g.diverged \/ g.unknown

OpStateAfter(g, isBlocked) ==
  CASE g.opstate = "ENCERRANDO"                   -> "ENCERRANDO"
    [] g.opstate # "ENCERRANDO" /\ isBlocked      -> "BLOQUEADO"
    [] g.opstate = "BLOQUEADO" /\ ~isBlocked      -> "OBSERVANDO"
    [] OTHER                                      -> g.opstate

Recompute(g) ==
  [g EXCEPT !.blocked = HasCause(g), !.opstate = OpStateAfter(g, HasCause(g))]

\* api_failure_count += 1.  The count is only ever reset to 0 or compared with
\* the limit, so it may stop growing there.
OneMoreFailure(g) ==
  [g EXCEPT !.failures = IF @ < MaxApiFailures THEN @ + 1 ELSE @]

\* Mutant: only the causes the system found by itself are asked about
OwnCausesPass(g) == ~g.ambiguous /\ ~g.clock /\ g.failures < MaxApiFailures

\* RiskEngine._check_common_gates, asked for entries and for closes alike
CommonGatesPass(g) ==
  ~g.kill /\ ~g.blocked /\ ~g.ambiguous /\ ~g.clock /\ g.failures < MaxApiFailures

=============================================================================

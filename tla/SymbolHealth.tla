---------------------------- MODULE SymbolHealth ----------------------------
(***************************************************************************)
(* What the scheduler of symbols remembers of each symbol, and what the    *)
(* result of one tick does to it (MultiSymbolOrchestrator._update_health). *)
(***************************************************************************)
EXTENDS Naturals

CONSTANT Threshold     \* SYMBOL_PARADO_THRESHOLD
ASSUME ThresholdAssumption == Threshold \in Nat \ {0}

SymbolStatus == {"INICIANDO", "SAUDAVEL", "DEGRADADO", "PARADO", "ENCERRANDO"}

\* resting: eligible_again_at lies in the future.  The failures are only ever
\* compared with the threshold or reset, and may stop growing there.
Health ==
  [status : SymbolStatus, failures : 0 .. Threshold, gap : BOOLEAN, resting : BOOLEAN]

FreshHealth ==
  [status |-> "INICIANDO", failures |-> 0, gap |-> FALSE, resting |-> FALSE]

\* What a tick may report.  "complete": it closed a whole strategy bucket;
\* "incomplete": a bucket with candles missing; "failed" is retryable_error or
\* fatal_error; "aggregating" stands for every other status, among them a stop or
\* target hit on a candle, which is reported whatever bucket that candle closed.
Results ==
  {"aggregating", "complete", "incomplete", "gap", "failed", "noData"}

Healthy(h) == h.status = "SAUDAVEL"

\* Failures: DEGRADADO until the threshold, then PARADO, which skips turns
AfterFailure(h, result) ==
  LET n == IF h.failures < Threshold THEN h.failures + 1 ELSE Threshold IN
  [h EXCEPT !.failures = n,
            !.gap = result = "gap",
            !.status = IF n = Threshold THEN "PARADO" ELSE "DEGRADADO",
            !.resting = @ \/ n = Threshold]

AfterIncomplete(h) ==
  [h EXCEPT !.failures = 0, !.gap = TRUE, !.status = "DEGRADADO", !.resting = FALSE]

\* An open gap is left only by a complete bucket
AfterSuccess(h, result) ==
  IF h.gap /\ result # "complete"
  THEN [h EXCEPT !.failures = 0, !.status = "DEGRADADO", !.resting = FALSE]
  ELSE [status |-> "SAUDAVEL", failures |-> 0, gap |-> FALSE, resting |-> FALSE]

AfterTick(h, result) ==
  CASE result \in {"failed", "gap"} -> AfterFailure(h, result)
    [] result = "incomplete"        -> AfterIncomplete(h)
    [] OTHER                        -> AfterSuccess(h, result)
=============================================================================

--------------------------- MODULE MCMarketEngine ---------------------------
(* A small instance of MarketEngine for TLC.  One slot is enough for the   *)
(* ticks: OneTickAtATime says that a second one is never used.             *)
EXTENDS EngineProperties, TLC

CONSTANTS btc, eth, t1

TwoSymbols == <<btc, eth>>
OneSlot    == {t1}
AnyReport  == Results
=============================================================================

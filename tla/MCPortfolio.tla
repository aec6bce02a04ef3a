---------------------------- MODULE MCPortfolio ----------------------------
(* Small instances of Portfolio for TLC. *)
EXTENDS Portfolio, TLC

CONSTANTS btc, eth

BtcAndEth == {btc, eth}
SymbolSymmetry == Permutations(BtcAndEth)
=============================================================================

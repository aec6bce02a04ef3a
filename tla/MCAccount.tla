----------------------------- MODULE MCAccount -----------------------------
(* Small instances of AccountBook for TLC. *)
EXTENDS AccountProperties, TLC

CONSTANTS btc, eth

BtcAndEth == {btc, eth}
Plain      == [portfolio |-> <<btc>>, balance |-> 1000, timeframe |-> 5, rest |-> 0]
Richer     == [Plain EXCEPT !.balance = 5000]
Slower     == [Plain EXCEPT !.timeframe = 15]
Wider      == [Plain EXCEPT !.portfolio = <<btc, eth>>]

Legacy ==
  [config |-> [portfolio |-> <<btc>>, balance |-> NoField, timeframe |-> NoField, rest |-> 0],
   started |-> 1, ended |-> 0, reason |-> "none"]
NothingOrLegacy == {<<>>, <<Legacy>>}
Four == {Plain, Richer, Slower, Wider}
=============================================================================

---------------------------- MODULE MCMarketData ----------------------------
(* Small instances of MarketData for TLC. *)
EXTENDS MarketDataProperties, TLC

\* A price that turns twice, so that the averages cross
Turning == [m \in Minute |-> CASE m % 6 \in {0, 1} -> 10 [] m % 6 \in {2, 3} -> 12 [] OTHER -> 9]
OneCourse == {Turning}
NoStart == Never
=============================================================================

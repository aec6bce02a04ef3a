-------------------------- MODULE MCOrderLifecycle --------------------------
(* Small instances of OrderLifecycle for TLC. *)
EXTENDS OrderProperties, TLC

CONSTANTS e1, e2, c1

OneEntry   == {e1}
TwoEntries == {e1, e2}
OneClose   == {c1}
NoClose    == {}

BuyOnly  == {"BUY"}
BothWays == {"BUY", "SELL"}

\* The exchange spells the sides as the database does
SameSpelling == [side \in Side |-> side]

KeySymmetry == Permutations(EntryKeys)
=============================================================================

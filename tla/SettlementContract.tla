------------------------- MODULE SettlementContract -------------------------
(***************************************************************************)
(* What the bookkeeping of orders promises, whatever handler does it: the  *)
(* books are a faithful, possibly late, copy of the market.  Orders are    *)
(* never forgotten, recorded fills are real and stay recorded, and an      *)
(* order is closed in the books only when the market closed it and every   *)
(* one of its fills is recorded - at once, in one publication.             *)
(***************************************************************************)
EXTENDS Naturals

CONSTANT Keys

VARIABLES market, book

Init ==
  /\ market = [k \in Keys |-> [filled |-> 0, done |-> FALSE]]
  /\ book = [k \in Keys |-> [phase |-> "none", fills |-> {}]]

\* The market fills or closes an order of its own accord.
Trade(k) ==
  /\ ~market[k].done
  /\ \E fill \in {0, 1}, done \in BOOLEAN :
       market' = [market EXCEPT ![k] = [filled |-> @.filled + fill, done |-> done]]
  /\ UNCHANGED book

\* What may become of the entry b of an order, given the market's m
Follows(new, b, m) ==
  \/ new = b
  \/ /\ b.phase \in {"none", "live"}
     /\ b.fills \subseteq new.fills /\ new.fills \subseteq 1 .. m.filled
     /\ \/ new.phase = "live"
        \/ new.phase = "settled" /\ m.done /\ new.fills = 1 .. m.filled
        \/ new.phase = "refused" /\ new.fills = {}

\* One committed transaction may bring several entries up to date.
Publish ==
  /\ \A k \in Keys : Follows(book'[k], book[k], market[k])
  /\ UNCHANGED market

Next == Publish \/ \E k \in Keys : Trade(k)

Spec == Init /\ [][Next]_<<market, book>>
=============================================================================

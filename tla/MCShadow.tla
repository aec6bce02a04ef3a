------------------------------ MODULE MCShadow ------------------------------
(* Small instances of ShadowEngine for TLC. *)
EXTENDS ShadowProperties, TLC

CONSTANTS btc, eth, A, B

BtcAndEth == {btc, eth}
BothConfigs == {A, B}
AThenB == <<A, B>>
Candles == (btc :> 5) @@ (eth :> 2)
=============================================================================

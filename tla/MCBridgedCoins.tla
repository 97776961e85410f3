---------------------------- MODULE MCBridgedCoins ----------------------------
(* Small instances of BridgedCoins for TLC. *)
EXTENDS BridgedCoins, TLC

CONSTANTS u1

\* A release of two coins to the user, or to the bridge account itself.
MCCalls == [to : {u1, Bridge}, amount : {2}]

MCFrozen == (u1 :> 0)
=============================================================================

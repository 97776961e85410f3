----------------------------- MODULE MCSwapBridge -----------------------------
(* Small instances of SwapBridge for TLC. *)
EXTENDS SwapBridge, TLC

CONSTANTS u1, u2

\* A release of three coins to a user, or to the bridge account itself.
MCCalls == [to : {u1, Bridge}, amount : {3}]

\* One user has a balance that is partly locked.
MCFrozen == (u1 :> 0) @@ (u2 :> 2)

\* No locks.
MCFrozen1 == [u \in Users |-> 0]
=============================================================================

---------------------------- MODULE MCChainBridge ----------------------------
(* Small instances of ChainBridge for TLC. *)
EXTENDS ChainBridge, TLC

\* Relayer accounts are interchangeable, and so are calls.
RelayerSymmetry == Permutations(Accounts)
=============================================================================

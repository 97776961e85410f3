--------------------------- MODULE MCBridgeRelayers ---------------------------
(* Small instances of BridgeRelayers for TLC. *)
EXTENDS BridgeRelayers, TLC

\* Faulty accounts are interchangeable, and so are correct ones.
RelayerSymmetry == Permutations(Faulty) \cup Permutations(Accounts \ Faulty)
=============================================================================

-------------------------------- MODULE MCCmix --------------------------------
(* A small instance of Cmix for TLC. *)
EXTENDS Cmix, TLC

CONSTANTS low, high

MCBlockPoints == (low :> 1) @@ (high :> 2)
=============================================================================

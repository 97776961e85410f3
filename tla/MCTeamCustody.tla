----------------------------- MODULE MCTeamCustody -----------------------------
(* A small instance of TeamCustody for TLC. *)
EXTENDS TeamCustody, TLC

CONSTANTS m1, m2, c1, c2, r1, r2

MCCustody == (m1 :> c1) @@ (m2 :> c2)

MCReserve == (m1 :> r1) @@ (m2 :> r2)

\* A payout step is four coins of ten, or two of six.
MCAllocation == (m1 :> 10) @@ (m2 :> 6)

MCReserveRatio == <<1, 3>>

\* Others send coins to the larger custody, or it is slashed, once.
MCMaxForeign == (c1 :> 1) @@ (c2 :> 0)
=============================================================================

------------------------------- MODULE Perbills -------------------------------
(***************************************************************************)
(* Substrate's Perbill, a ratio in parts of 10^9, with the roundings the   *)
(* pallets rely on.  Runs use fewer parts, so that the roundings show in   *)
(* small amounts.                                                          *)
(***************************************************************************)
EXTENDS Integers

CONSTANT Accuracy  \* parts of a Perbill: 10^9

ASSUME PerbillAssumption == Accuracy \in Nat \ {0}

Perbill == 0..Accuracy

\* Perbill::from_rational rounds down.
FromRational(p, q) ==
    IF p >= q THEN IF p = 0 THEN 0 ELSE Accuracy ELSE (p * Accuracy) \div q

\* A product of two Perbills is rounded down.
Times(p, q) == (p * q) \div Accuracy

\* A Perbill of an amount: the nearest whole number, the lower one of two.
PartOf(p, amount) == (2 * p * amount + Accuracy - 1) \div (2 * Accuracy)
=============================================================================

----------------------------- MODULE IssuedCoins -----------------------------
(***************************************************************************)
(* The coins of all accounts and their issuance, as the imbalances of      *)
(* pallet_balances change them: coins that are taken or issued and not     *)
(* resolved are burnt, coins that are deposited and not settled are        *)
(* minted, and an account that is left with less than the existential      *)
(* deposit loses it as dust.  The handlers of the pallets compose these    *)
(* operators on records of coins.                                          *)
(***************************************************************************)
EXTENDS VestedCoins, Integers

VARIABLE issuance  \* TotalIssuance

Coins == [balance |-> balance, issuance |-> issuance]

CoinsBecome(s) == balance' = s.balance /\ issuance' = s.issuance

\* Account a exists once it gets x coins.
Exists(s, a, x) == s.balance[a] + x >= ExistentialDeposit

\* resolve_creating: issued coins go to a, or are burnt if they do not create it.
Resolve(s, a, x) ==
    IF Exists(s, a, x)
    THEN [s EXCEPT !.balance[a] = @ + x]
    ELSE [s EXCEPT !.issuance = @ - x]

\* What is left of a when x coins are taken, death allowed.
Left(s, a, x) ==
    IF s.balance[a] - x >= ExistentialDeposit THEN s.balance[a] - x ELSE 0

Dust(s, a, x) == s.balance[a] - x - Left(s, a, x)

\* x coins are taken from a, for somebody else.
Take(s, a, x) ==
    [s EXCEPT !.balance[a] = Left(s, a, x), !.issuance = @ - Dust(s, a, x)]

\* Whatever is issued, burnt, settled, minted and lost as dust on the way, the
\* issuance stays the sum of all accounts (on_nonzero_unbalanced and
\* RewardRemainderAdapter of xx-economics/src/rewards.rs, DealWithFees).
IssuanceMatches == issuance = SumFunction(balance)
=============================================================================

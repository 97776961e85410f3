------------------------------ MODULE MCEconomy ------------------------------
(* A small instance of Economy for TLC. *)
EXTENDS Economy, TLC

CONSTANTS user, other, testnet, sale

MCFundAccount == [f \in Funds |-> IF f = "testnet" THEN testnet ELSE sale]

\* One account does not exist yet, and the treasury is empty.
MCOpeningBalances ==
    {(RewardsPool :> 6) @@ (Treasury :> 0) @@ (BridgeAccount :> 10)
        @@ (testnet :> 7) @@ (sale :> 5) @@ (user :> 18) @@ (other :> 0)}

MCParameters == {[minInflation |-> 6, idealStake |-> 50]}

Point(b, i) == [block |-> b, interest |-> i]

\* A curve like the example, out of order, and one with two slopes.
MCCurves ==
    {<<Point(5, 20), Point(0, 100), Point(7, 20), Point(8, 10)>>,
     <<Point(2, 40), Point(4, 30), Point(7, 10)>>}

Pays(d, x, q) == [to |-> d, amount |-> x, schedules |-> q]

Lock(x, perBlock, start) == [locked |-> x, perBlock |-> perBlock, start |-> start]

\* Payments to one account twice, one with more schedules than there is room
\* for; payments of which the last fails after dust was burnt, or because it
\* does not create the account; and one that empties a fund.
MCDistributions ==
    {<<Pays(other, 3, <<Lock(2, 1, 3)>>), Pays(other, 1, <<Lock(1, 1, 6)>>)>>,
     <<Pays(user, 2, <<Lock(2, 1, 0), Lock(1, 0, 0), Lock(4, 1, 1)>>), Pays(other, 1, <<>>)>>,
     <<Pays(user, 4, <<>>), Pays(user, 1, <<>>)>>}
=============================================================================

--------------------------- MODULE MCBetanetRewards ---------------------------
(* Small instances of BetanetRewards for TLC. *)
EXTENDS BetanetRewards, TLC

CONSTANTS a1

\* A claim that vests until block 2 and has more schedules than an account may
\* have, two of which end early; and an account that vests until block 3.
MCScheduleLists ==
    {<<[locked |-> 5, perBlock |-> 3, start |-> 0], [locked |-> 1, perBlock |-> 1, start |-> 0],
       [locked |-> 1, perBlock |-> 1, start |-> 0]>>}

MCOpeningSchedules ==
    {[a \in Accounts |-> <<>>],
     [a \in Accounts |->
         IF a = a1 THEN <<[locked |-> 2, perBlock |-> 1, start |-> 1]>> ELSE <<>>]}

\* No entry, or one for an account that was not a claim.
MCOpeningAccounts ==
    {EmptyMap, [a \in {a1} |-> [principal |-> 5, reward |-> 5, option |-> Default]]}
=============================================================================

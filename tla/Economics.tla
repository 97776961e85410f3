------------------------------- MODULE Economics -------------------------------
(***************************************************************************)
(* The economics pallet (xx-economics/src): the rewards pool, from which   *)
(* rewards are paid until it is empty, the inflation parameters, and what  *)
(* the end of an era pays.  With it the two other places where the runtime *)
(* moves coins of the system: the fees of transactions, which are divided  *)
(* between treasury and block author (runtime/common/src/impls.rs), and    *)
(* the migration that fills the pool up from the account of the bridge     *)
(* (migrations/src/bridge_adjust.rs).                                      *)
(*                                                                         *)
(* Staking is external: it ends eras, and pays of what an era's end        *)
(* granted to validators as much as it likes whenever it likes.            *)
(***************************************************************************)
EXTENDS IssuedCoins, InterestCurve

CONSTANTS RewardsPool, Treasury, BridgeAccount,
          TestnetFund, SaleFund,  \* PublicAccountsHandler::accounts
          CustodyTotals,      \* what CustodyHandler::total_custody may return
          NoAuthor,
          Portion,            \* the part of a year that an era lasts, a Perbill
          StakingRatios,      \* what the inflation curve of staking may return
          EraBlocks,          \* numbers of blocks that an era may have
          Parameters,         \* inflation parameters that are set
          Curves,             \* lists of interest points that are set
          LiquidityStakes, LiquidityBalances,  \* amounts that are set
          RewardAmounts, Fees, Tips,
          OpeningBalances, OpeningLiquidity,
          AdjustTransfer,     \* BALANCE_TRANSFER
          AdjustLiquidity,    \* BALANCE_LIQUIDITY_REWARDS
          MaxCalls            \* bound: settings and transactions with fees

SystemAccounts == {RewardsPool, Treasury, BridgeAccount, TestnetFund, SaleFund}

ASSUME EconomicsAssumption ==
    /\ SystemAccounts \subseteq Accounts
    /\ Treasury \notin {RewardsPool, BridgeAccount} /\ RewardsPool # BridgeAccount
    /\ {TestnetFund, SaleFund} \cap {RewardsPool, Treasury, BridgeAccount} = {}
    /\ TestnetFund # SaleFund
    /\ NoAuthor \notin Accounts
    /\ Portion \in Perbill /\ StakingRatios \subseteq Perbill
    /\ EraBlocks \subseteq Nat \ {0} /\ CustodyTotals \subseteq Nat
    /\ Parameters \subseteq [minInflation : Perbill, idealStake : Perbill]
    /\ Curves \subseteq Seq(Points) \ {<<>>}
    /\ LiquidityStakes \cup LiquidityBalances \cup Fees \cup Tips \subseteq Nat
    /\ RewardAmounts \subseteq Nat \ {0}
    /\ OpeningBalances \subseteq [Accounts -> Nat] /\ OpeningLiquidity \in Nat
    /\ AdjustTransfer \in Nat \ {0} /\ AdjustLiquidity \in Nat
    /\ MaxCalls \in Nat

VARIABLES params,          \* InflationParams
          points,          \* InterestPoints
          liquidityStake,  \* IdealLiquidityStake
          liquidity,       \* LiquidityRewards
          owed,            \* what staking was granted and has not paid yet
          adjusted,        \* the migration has run
          calls

\* The accounts that somebody holds keys to.
Users == Accounts \ SystemAccounts

settings == <<params, points, liquidityStake>>
economicsVars == <<settings, issuance, liquidity, owed, adjusted, calls>>
allEconomicsVars == <<balance, schedules, now, economicsVars>>

-----------------------------------------------------------------------------
(* Rewards. *)

\* Variant: a pool that cannot settle all of x settles nothing.
SettledAllOrNothing(s, x) ==
    IF x <= s.balance[RewardsPool]
    THEN Take(s, RewardsPool, x)
    ELSE [s EXCEPT !.issuance = @ + x]

\* on_nonzero_unbalanced: x coins were deposited somewhere; the pool settles
\* what it can, and the rest is minted.
Settled(s, x) ==
    LET fromPool == Min2(x, s.balance[RewardsPool])
        minted == [s EXCEPT !.issuance = @ + x - fromPool]
    IN  IF fromPool = 0 THEN minted ELSE Take(minted, RewardsPool, fromPool)

\* Variant: what the pool pays is not burnt.
RemainderNotBurnt(s, x) ==
    LET fromPool == Min2(x, s.balance[RewardsPool])
        issued == [s EXCEPT !.issuance = @ + x]
        taken == IF fromPool = 0 THEN issued ELSE Take(issued, RewardsPool, fromPool)
    IN  Resolve(taken, Treasury, x)

\* RewardRemainderAdapter: staking has issued x coins for the treasury; as many
\* as the pool has are burnt, and taken out of the pool.
Remainder(s, x) ==
    LET fromPool == Min2(x, s.balance[RewardsPool])
        issued == [s EXCEPT !.issuance = @ + x - fromPool]
        taken == IF fromPool = 0 THEN issued ELSE Take(issued, RewardsPool, fromPool)
    IN  Resolve(taken, Treasury, x)

\* Staking, or whoever else has XXEconomics as its Reward, rewards a with x.
PayReward(a, x) ==
    /\ x <= owed
    /\ owed' = owed - x
    /\ CoinsBecome(IF Exists(Coins, a, x)
                   THEN Settled([Coins EXCEPT !.balance[a] = @ + x], x)
                   ELSE Coins)
    /\ UNCHANGED <<schedules, now, settings, liquidity, adjusted, calls>>

-----------------------------------------------------------------------------
(* The end of an era. *)

\* Variant: the public funds are forgotten.
StakeableWithFunds(custody) ==
    Monus(issuance, balance[RewardsPool] + custody + liquidity)

\* compute_total_stakeable
Stakeable(custody) ==
    Monus(issuance, balance[RewardsPool] + custody + liquidity
                       + balance[TestnetFund] + balance[SaleFund])

\* The inflation of a year if the curve returns ratio, and at most.
Inflation(max, ratio) ==
    Min2(Accuracy,
         params.minInflation + Times(ratio, Monus(max, params.minInflation)))

\* era_payout, at block: what goes to the validators, and what to the treasury.
EraPayout(block, custody, ratio) ==
    LET max == Times(IdealInterest(points, block), params.idealStake)
        stakeable == Stakeable(custody)
        payout == PartOf(Portion, PartOf(Inflation(max, ratio), stakeable))
    IN  [validators |-> payout,
         remainder |-> Monus(PartOf(Portion, PartOf(max, stakeable)), payout)]

\* update_liquidity_rewards
LiquidityAfter(block) ==
    Monus(liquidity,
          PartOf(Portion, PartOf(IdealInterest(points, block), liquidityStake)))

\* Staking ends an era of n blocks.  Without interest points this panics.
EndEra(n, custody, ratio) ==
    /\ points # <<>>
    /\ now + n <= MaxBlock
    /\ now' = now + n
    /\ LET grant == EraPayout(now', custody, ratio)
       IN  /\ owed' = owed + grant.validators
           /\ CoinsBecome(Remainder(Coins, grant.remainder))
    /\ liquidity' = LiquidityAfter(now')
    /\ UNCHANGED <<schedules, settings, adjusted, calls>>

-----------------------------------------------------------------------------
(* The calls of the administration. *)

Called ==
    /\ calls < MaxCalls
    /\ calls' = calls + 1
    /\ UNCHANGED <<schedules, now, owed, adjusted>>

SetInflationParams(p) ==
    /\ Called
    /\ params' = p
    /\ UNCHANGED <<balance, issuance, points, liquidityStake, liquidity>>

SetInterestPoints(list) ==
    /\ Called
    /\ points' = SortedByBlock(list)
    /\ UNCHANGED <<balance, issuance, params, liquidityStake, liquidity>>

SetLiquidityRewardsStake(amount) ==
    /\ Called
    /\ liquidityStake' = amount
    /\ UNCHANGED <<balance, issuance, params, points, liquidity>>

SetLiquidityRewardsBalance(amount) ==
    /\ Called
    /\ liquidity' = amount
    /\ UNCHANGED <<balance, issuance, settings>>

-----------------------------------------------------------------------------
(* Fees, and the migration. *)

\* DealWithFees: of the fee, 80 in 100 go to the treasury; the rest and the tip
\* go to the author of the block, if it is known.
FeesDivided(s, fee, tip, author) ==
    LET toTreasury == (fee * 80) \div 100
        toAuthor == fee - toTreasury + tip
        paid == Resolve(s, Treasury, toTreasury)
    IN  IF author = NoAuthor
        THEN [paid EXCEPT !.issuance = @ - toAuthor]
        ELSE Resolve(paid, author, toAuthor)

\* A transaction of payer, which is kept alive, pays a fee and a tip.
PayFees(payer, fee, tip, author) ==
    /\ Called
    /\ balance[payer] - fee - tip >= ExistentialDeposit
    /\ CoinsBecome(FeesDivided([Coins EXCEPT !.balance[payer] = @ - fee - tip],
                               fee, tip, author))
    /\ UNCHANGED <<settings, liquidity>>

\* BridgeAdjust::on_runtime_upgrade, which panics if the bridge cannot pay.
BridgeAdjust ==
    /\ ~adjusted
    /\ adjusted' = TRUE
    /\ balance[BridgeAccount] - AdjustTransfer >= ExistentialDeposit
    /\ balance[RewardsPool] + AdjustTransfer >= ExistentialDeposit
    /\ balance' = [balance EXCEPT ![BridgeAccount] = @ - AdjustTransfer,
                                  ![RewardsPool] = @ + AdjustTransfer]
    /\ liquidity' = AdjustLiquidity
    /\ UNCHANGED <<schedules, now, issuance, settings, owed, calls>>

-----------------------------------------------------------------------------
(* The specification. *)

EconomicsInit ==
    /\ balance \in OpeningBalances
    /\ schedules = [a \in Accounts |-> <<>>]
    /\ now = 0
    /\ issuance = SumFunction(balance) /\ issuance \in Nat
    /\ params \in Parameters
    /\ points \in {SortedByBlock(list) : list \in Curves}
    /\ liquidityStake \in LiquidityStakes
    /\ liquidity = OpeningLiquidity
    /\ owed = 0
    /\ adjusted = FALSE
    /\ calls = 0

Administrate ==
    \/ \E p \in Parameters : SetInflationParams(p)
    \/ \E list \in Curves : SetInterestPoints(list)
    \/ \E amount \in LiquidityStakes : SetLiquidityRewardsStake(amount)
    \/ \E amount \in LiquidityBalances : SetLiquidityRewardsBalance(amount)

EconomicsNext ==
    \/ \E a \in Users, x \in RewardAmounts : PayReward(a, x)
    \/ \E n \in EraBlocks, custody \in CustodyTotals, ratio \in StakingRatios :
          EndEra(n, custody, ratio)
    \/ Administrate
    \/ \E payer \in Users, fee \in Fees, tip \in Tips, author \in Users \cup {NoAuthor} :
          PayFees(payer, fee, tip, author)
    \/ BridgeAdjust

EconomicsSpec == EconomicsInit /\ [][EconomicsNext]_allEconomicsVars

-----------------------------------------------------------------------------
(* Properties. *)

EconomicsTypeOK ==
    /\ balance \in [Accounts -> Nat]
    /\ issuance \in Int
    /\ params \in Parameters
    /\ points \in Seq(Points)
    /\ liquidityStake \in LiquidityStakes
    /\ liquidity \in Nat /\ owed \in Nat
    /\ adjusted \in BOOLEAN
    /\ calls \in 0..MaxCalls

\* The coins of the pool and of the public funds are never counted as
\* stakeable, and all other coins are but for those under custody and the
\* liquidity rewards: whoever moves coins, while rewards are settled, and when
\* the migration fills the pool up (compute_total_stakeable).
StakeableIsTheRest ==
    \A custody \in CustodyTotals :
        Stakeable(custody) =
            Monus(SumFunction([a \in Accounts \ {RewardsPool, TestnetFund, SaleFund}
                                  |-> balance[a]]),
                  custody + liquidity)

\* As long as the pool can pay, no reward and no remainder is minted: a step
\* that raises the issuance leaves the pool empty.
PoolPaysFirst == [][issuance' > issuance => balance'[RewardsPool] = 0]_allEconomicsVars

\* On a curve like that of the example in inflation.rs, the interest at every
\* block is that of the line between its points, in the middle of the era that
\* ends, whatever order the points were submitted in.
InterestFollowsCurve ==
    LikeTheExample(Range(points)) =>
        \A block \in 0..MaxBlock :
            FollowsCurve(IdealInterest(points, block), Range(points), block)

\* Whatever the curve, the interest is between those of two of its points.
InterestWithinPoints ==
    \A block \in 0..MaxBlock :
        \E i, j \in DOMAIN points :
            /\ points[i].interest <= IdealInterest(points, block)
            /\ IdealInterest(points, block) <= points[j].interest

\* On a curve that falls, no era has a higher interest than the era before it,
\* although the first era is not shifted to its middle and blocks may be
\* missing.  The one exception is an era in which the shift sets in and which
\* has less than half of its blocks: its middle is before that of the era before.
InterestFalls ==
    [][ /\ now' > now
        /\ now < EraDuration /\ EraDuration <= now' => 2 * (now' - now) >= EraDuration
        /\ \A i, j \in DOMAIN points : i < j => points[i].interest >= points[j].interest
        => IdealInterest(points, now') <= IdealInterest(points, now) ]_allEconomicsVars

\* What the migration asserts after it ran: the pool gains what the bridge
\* loses, and the stakeable coins stay as they are if the liquidity rewards
\* were lowered by as much.
AdjustKeepsStakeable ==
    [][ adjusted' # adjusted =>
          /\ balance'[RewardsPool] + balance'[BridgeAccount]
                = balance[RewardsPool] + balance[BridgeAccount]
          /\ liquidity = AdjustLiquidity + AdjustTransfer =>
                \A custody \in CustodyTotals :
                    Stakeable(custody)' = Stakeable(custody) ]_allEconomicsVars
=============================================================================

---------------------------- MODULE BetanetRewards ----------------------------
(***************************************************************************)
(* The BetaNet rewards pallet (xx-betanet-rewards/src/lib.rs) on top of    *)
(* the claims pallet: whoever claims coins before the enactment block gets *)
(* an entry with the reward of the claim, chooses a vesting option for it, *)
(* and is paid when the block comes, if the program was approved.  Rewards *)
(* of claims nobody collected are added to the claims at that block.       *)
(***************************************************************************)
EXTENDS Claims

CONSTANTS EnactmentBlock,   \* T::EnactmentBlock
          BlocksPerMonth,   \* blocks in a month of vesting
          Choices,          \* options that accounts select
          OpeningAccounts   \* entries at genesis

Options == {"NoVesting", "Vesting1Month", "Vesting3Month", "Vesting6Month",
            "Vesting9Month"}

Default == "Vesting6Month"

UserInfo == [principal : Nat, reward : Nat, option : Options]

ASSUME RewardsAssumption ==
    /\ EnactmentBlock \in Nat \ {0}
    /\ BlocksPerMonth \in Nat \ {0}
    /\ Choices \subseteq Options
    /\ \A m \in OpeningAccounts : IsMap(m, Accounts, UserInfo)

VARIABLES accounts,  \* Accounts: account -> UserInfo
          approved,  \* Approved
          charged    \* what T::Reward was charged for rewards

rewardVars == <<accounts, approved, charged>>
betanetVars == <<allClaimVars, rewardVars>>

-----------------------------------------------------------------------------
(* The terms of the options, in per cent. *)

VestingMonths ==
    [NoVesting |-> 0, Vesting1Month |-> 1, Vesting3Month |-> 3,
     Vesting6Month |-> 6, Vesting9Month |-> 9]

VestingPeriod(o) == VestingMonths[o] * BlocksPerMonth

PrincipalLock ==
    [NoVesting |-> 0, Vesting1Month |-> 100, Vesting3Month |-> 90,
     Vesting6Month |-> 80, Vesting9Month |-> 100]

RewardPercent ==
    [NoVesting |-> 2, Vesting1Month |-> 12, Vesting3Month |-> 45,
     Vesting6Month |-> 100, Vesting9Month |-> 100]

ExtraRewardPercent ==
    [NoVesting |-> 0, Vesting1Month |-> 0, Vesting3Month |-> 0,
     Vesting6Month |-> 0, Vesting9Month |-> 20]

\* A Perbill of an amount: the nearest whole number, the lower one of two.
PercentOf(percent, amount) == (2 * percent * amount + 99) \div 200

RewardAmount(info) ==
    PercentOf(RewardPercent[info.option], info.reward)
        + PercentOf(ExtraRewardPercent[info.option], info.reward)

\* What an option locks of a principal, together with the reward paid for it.
DesiredLock(option, principal, reward) ==
    PercentOf(PrincipalLock[option], principal) + reward

LockSchedule(lock, option) ==
    [locked |-> lock, perBlock |-> lock \div VestingPeriod(option),
     start |-> EnactmentBlock]

-----------------------------------------------------------------------------
(* Before the enactment block. *)

BetanetInit ==
    /\ ClaimsInit
    /\ accounts \in OpeningAccounts
    /\ approved = FALSE
    /\ charged = 0

\* add_claimed, for the claim of e that d collects: an entry that d already
\* has is replaced, and from the enactment block on the reward is dropped.
AddClaimed(e, d) ==
    accounts' = IF e \in DOMAIN rewards /\ now < EnactmentBlock
                THEN Insert(accounts, d, [principal |-> claims[e],
                                          reward |-> rewards[e], option |-> Default])
                ELSE accounts

CollectWithReward(e, d) ==
    /\ Collect(e, d)
    /\ AddClaimed(e, d)
    /\ UNCHANGED <<approved, charged>>

SelectOption(d, option) ==
    /\ d \in DOMAIN accounts
    /\ now < EnactmentBlock
    /\ accounts' = [accounts EXCEPT ![d].option = option]
    /\ UNCHANGED <<allClaimVars, approved, charged>>

\* Variant: approval is possible in the enactment block.
ApproveLate ==
    /\ now <= EnactmentBlock
    /\ approved' = TRUE
    /\ UNCHANGED <<allClaimVars, accounts, charged>>

Approve ==
    /\ now < EnactmentBlock
    /\ approved' = TRUE
    /\ UNCHANGED <<allClaimVars, accounts, charged>>

-----------------------------------------------------------------------------
(***************************************************************************)
(* on_initialize of the enactment block.  Accounts and addresses are       *)
(* drained one after the other; none touches what is another's, so they    *)
(* are processed at once.                                                  *)
(***************************************************************************)
Reward(d) ==
    IF d \in DOMAIN accounts THEN Credited(d, RewardAmount(accounts[d])) ELSE 0

\* Variant: the reward is taken off what the account has locked already.
LockNetOfReward(d) ==
    LET info == accounts[d]
        free == balance[d] + Reward(d)
    IN  Monus(DesiredLock(info.option, info.principal, RewardAmount(info)),
              VestingBalance(d, free, EnactmentBlock) + RewardAmount(info))

\* process_account: what is to be locked beyond the account's own schedules.
AccountLock(d) ==
    LET info == accounts[d]
        free == balance[d] + Reward(d)
    IN  Monus(DesiredLock(info.option, info.principal, RewardAmount(info)),
              VestingBalance(d, free, EnactmentBlock))

\* An error of add_vesting_schedule is ignored.
SchedulesAfter(d) ==
    IF d \notin DOMAIN accounts \/ accounts[d].option = "NoVesting" THEN schedules[d]
    ELSE AddSchedule(schedules[d],
                     LockSchedule(AccountLock(d), accounts[d].option), EnactmentBlock)

\* What the schedules of a claim lock at the enactment block.
ListLock(list) ==
    SumFunction([i \in DOMAIN list |->
        Monus(list[i].locked, list[i].perBlock * Monus(EnactmentBlock, list[i].start))])

ListOf(e) == IF e \in DOMAIN vesting THEN vesting[e] ELSE <<>>

\* Variant: what the schedules locked at first counts.
LeftoverLockAtFirst(e) ==
    LET principal == IF e \in DOMAIN claims THEN claims[e] + rewards[e] ELSE 0
    IN  Monus(DesiredLock(Default, principal, rewards[e]),
              SumFunction([i \in DOMAIN ListOf(e) |-> ListOf(e)[i].locked]))

\* The principal of a leftover claim is read after its reward was added.
LeftoverLock(e) ==
    LET principal == IF e \in DOMAIN claims THEN claims[e] + rewards[e] ELSE 0
    IN  Monus(DesiredLock(Default, principal, rewards[e]), ListLock(ListOf(e)))

\* Variant: Total is not raised with the claims.
TotalNotRaised == total

TotalRaised == total + SumFunction(rewards)

\* process_leftover_claim, for every address that still has a reward.
ProcessClaims ==
    LET added == {e \in DOMAIN rewards : LeftoverLock(e) > 0}
    IN  /\ claims' = [e \in DOMAIN claims |->
                         claims[e] + (IF e \in DOMAIN rewards THEN rewards[e] ELSE 0)]
        /\ total' = TotalRaised
        /\ vesting' = [e \in DOMAIN vesting \cup added |->
                          IF e \in added
                          THEN Append(ListOf(e), LockSchedule(LeftoverLock(e), Default))
                          ELSE vesting[e]]
        /\ rewards' = EmptyMap

\* Variant: the entries are read without being drained.
ProcessRewardsUndrained ==
    /\ balance' = [d \in Accounts |-> balance[d] + Reward(d)]
    /\ schedules' = [d \in Accounts |-> SchedulesAfter(d)]
    /\ accounts' = accounts

\* process_account, for every account with an entry.
ProcessRewards ==
    /\ balance' = [d \in Accounts |-> balance[d] + Reward(d)]
    /\ schedules' = [d \in Accounts |-> SchedulesAfter(d)]
    /\ accounts' = EmptyMap

\* Variant: what is added to claims is not charged.
ChargePaid == SumFunction([d \in Accounts |-> Reward(d)])

\* What T::Reward is charged: rewards paid and rewards added to claims.
Charge == SumFunction([d \in Accounts |-> Reward(d)]) + SumFunction(rewards)

EnactProgram ==
    /\ approved
    /\ now + 1 = EnactmentBlock
    /\ now' = EnactmentBlock
    /\ ProcessRewards
    /\ ProcessClaims
    /\ charged' = charged + Charge
    /\ UNCHANGED <<signing, preclaims, ledgerVars, approved>>

Block ==
    \/ EnactProgram
    \/ /\ ~approved \/ now + 1 # EnactmentBlock
       /\ NextBlock
       /\ UNCHANGED rewardVars

BetanetNext ==
    \/ \E e \in Addresses, d \in Accounts : CollectWithReward(e, d)
    \/ ClaimsAdmin /\ UNCHANGED rewardVars
    \/ VestStep /\ UNCHANGED rewardVars
    \/ \E d \in Accounts, option \in Choices : SelectOption(d, option)
    \/ Approve
    \/ Block

BetanetSpec == BetanetInit /\ [][BetanetNext]_betanetVars

\* Blocks keep coming, up to the bound.
FairBetanetSpec == BetanetSpec /\ WF_now(now < MaxBlock /\ now' = now + 1)

-----------------------------------------------------------------------------
(* Properties. *)

\* Type correctness of the storage of both pallets.
BetanetTypeOK ==
    /\ ClaimsTypeOK
    /\ IsMap(accounts, Accounts, UserInfo)
    /\ approved \in BOOLEAN
    /\ charged \in Nat

\* Coins are neither made nor lost between Total and the accounts: what
\* process_claim takes from Total it credits, save for claims below the
\* existential deposit whose account does not exist; only mint_claim adds coins,
\* and the enactment adds what T::Reward was charged (process_account,
\* process_leftover_claim).
RewardsCharged == SumFunction(balance) + total + lost = minted + charged

\* The terms of the claim of an address: its schedules and its statement.
Terms(e) == <<IF e \in DOMAIN vesting THEN vesting[e] ELSE None,
              IF e \in DOMAIN signing THEN signing[e] ELSE None>>

\* A claim that an address without one gets has the schedules and the statement
\* it was minted with, or those it had where it was moved from, and none that
\* an earlier claim of the address left there (process_claim, mint_claim,
\* move_claim).  Two cases differ in the code and are left out: a claim minted
\* over or moved onto an existing one takes over what it does not bring along;
\* and the enactment of an approved program leaves a schedule at an address
\* whose claim was moved away without its reward.
NewClaimsHaveTheirOwnTerms ==
    [][~(approved /\ now >= EnactmentBlock) =>
        \A e \in DOMAIN claims' \ DOMAIN claims :
            \/ \E old \in DOMAIN claims \ DOMAIN claims' :
                  claims'[e] = claims[old] /\ Terms(e)' = Terms(old)
            \/ \E list \in ScheduleLists \cup {None},
                  statement \in Statements \cup {None} :
                  /\ MintClaim(e, claims'[e], list, statement)
                  /\ Terms(e)' = <<list, statement>>
      ]_betanetVars

\* After the enactment of an approved program no reward is outstanding, and no
\* claim can make one outstanding again, in the enactment block or later
\* (enact_program, add_claimed, select_option).
NothingOwedAfterEnactment ==
    approved /\ now >= EnactmentBlock => DOMAIN accounts = {} /\ DOMAIN rewards = {}

BestReward(reward) ==
    RewardAmount([principal |-> 0, reward |-> reward, option |-> "Vesting9Month"])

\* The rewards still outstanding, at the best option.
Outstanding ==
    SumFunction([e \in DOMAIN rewards |-> BestReward(rewards[e])])
        + SumFunction([d \in DOMAIN accounts |-> BestReward(accounts[d].reward)])

\* No reward is paid twice: what was charged and what may still be never adds
\* up to more than before, although a reward is handed from the claim to the
\* account that collects it and is paid in one place or the other
\* (process_claim, add_claimed, enact_program).
NoRewardTwice == [][charged' + Outstanding' <= charged + Outstanding]_betanetVars

\* Each account that is paid has locked, in the enactment block, what its
\* option locks of principal and reward, its earlier schedules included; it
\* lacks less than a coin per block of vesting, unless it has as many schedules
\* as an account may have (process_account).
LocksChosenAmount ==
    [][EnactProgram =>
        \A d \in DOMAIN accounts :
            LET info == accounts[d]
            IN  \/ info.option = "NoVesting"
                \/ Len(schedules[d]) = MaxSchedules
                \/ TotalLockedAt(schedules'[d], EnactmentBlock)
                       + VestingPeriod(info.option)
                     > DesiredLock(info.option, info.principal, RewardAmount(info))
      ]_betanetVars

\* A claim nobody collected in time has locked, in the enactment block, at
\* least what the default option would have locked of it
\* (process_leftover_claim, compute_claims_vesting_lock).
LeftoverLocked ==
    [][EnactProgram =>
        \A e \in DOMAIN rewards \cap DOMAIN claims :
            ListLock(ListOf(e)') >= DesiredLock(Default, claims[e], rewards[e])
      ]_betanetVars

\* An approved program is enacted: every reward is paid or added to its claim
\* (approve, on_initialize).
ApprovedIsEnacted == approved ~> (DOMAIN accounts = {} /\ DOMAIN rewards = {})

-----------------------------------------------------------------------------
(* What comments of the code say. *)

\* The "payout" of a leftover reward is "into claim": each reward that is
\* charged is added to a claim.
RewardsReachClaims ==
    [][EnactProgram => DOMAIN rewards \subseteq DOMAIN claims]_betanetVars
=============================================================================

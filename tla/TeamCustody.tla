----------------------------- MODULE TeamCustody -----------------------------
(***************************************************************************)
(* The team custody pallet (xx-team-custody/src).  The coins allocated to  *)
(* a team member lie on a custody and a reserve account that nobody holds  *)
(* keys to; they are paid out in steps until the custody ends.  Meanwhile  *)
(* custodians may bond the coins of the custody account and appoint a      *)
(* proxy that votes with them, which costs the account a deposit.          *)
(*                                                                         *)
(* Balances, staking, proxies and voting are Substrate's, modelled by what *)
(* the pallet relies on: bonded coins and coins that vote are locked, a    *)
(* deposit is reserved.  The account of a team member is taken to exist,   *)
(* so that a transfer to it is not refused.  An extrinsic that returns an  *)
(* error leaves no trace and is no step.                                   *)
(***************************************************************************)
EXTENDS StorageMap, Perbills, FiniteSets, Functions

CONSTANTS Members,           \* accounts that are, or may become, team members
          Founders,          \* team members at genesis
          Custody, Reserve,  \* founder -> its custody and its reserve account
          Allocation,        \* founder -> allocated coins
          ReserveRatio,      \* <<n, d>>: n of d coins go to the reserve account
          Custodians,        \* accounts that may be custodians
          Controllers,       \* staking controllers
          Delegates,         \* accounts that may be proxies of custody accounts
          PayoutFrequency, CustodyDuration, GovernanceCustodyDuration,
          ExistentialDeposit,
          ProxyDeposit,      \* what a custody account reserves for its proxy
          Stakes,            \* amounts that are bonded, unbonded or vote
          Gifts, Slashes,    \* coins that others send to an account, or slashes take
          MaxForeign,        \* bound: custody account -> coins others add to or take from it
          MaxBlock           \* bound: last block number

CustodyAccounts == {Custody[m] : m \in Founders}
ReserveAccounts == {Reserve[m] : m \in Founders}
Holders == CustodyAccounts \cup ReserveAccounts

Share(n, d, amount) == PartOf(FromRational(n, d), amount)

ReserveShare(amount) == Share(ReserveRatio[1], ReserveRatio[2], amount)

\* What a payout step is worth (compute_payout).
PayoutStep(allocation) == Share(PayoutFrequency, CustodyDuration, allocation)

\* The ratios of the runtime round payout steps down far enough that the steps
\* of a whole custody never exceed the allocation.
ASSUME CustodyAssumption ==
    /\ IsFiniteSet(Members) /\ Founders \subseteq Members
    /\ Custody \in [Founders -> CustodyAccounts] /\ IsInjective(Custody)
    /\ Reserve \in [Founders -> ReserveAccounts] /\ IsInjective(Reserve)
    /\ CustodyAccounts \cap ReserveAccounts = {}
    /\ Allocation \in [Founders -> Nat]
    /\ ReserveRatio[1] \in Nat /\ ReserveRatio[2] \in Nat \ {0}
    /\ PayoutFrequency \in Nat \ {0} /\ CustodyDuration \in Nat \ {0}
    /\ GovernanceCustodyDuration \in Nat
    /\ ExistentialDeposit \in Nat \ {0}
    /\ ProxyDeposit \in Nat
    /\ Stakes \subseteq Nat \ {0} /\ Gifts \subseteq Nat /\ Slashes \subseteq Nat
    /\ MaxForeign \in [CustodyAccounts -> Nat] /\ MaxBlock \in Nat
    /\ \A m \in Founders :
          /\ ReserveShare(Allocation[m]) \in Nat
          /\ ReserveShare(Allocation[m]) >= ExistentialDeposit
          /\ Allocation[m] - ReserveShare(Allocation[m]) >= ExistentialDeposit
          /\ PayoutStep(Allocation[m]) * (CustodyDuration \div PayoutFrequency)
                <= Allocation[m]

VARIABLES teamAccounts,     \* TeamAccounts: member -> CustodyInfo
          custodyAccounts,  \* CustodyAccounts
          custodians,       \* Custodians
          totalCustody,     \* TotalCustody
          free,             \* holder -> free balance
          reserved,         \* custody account -> reserved for its proxy
          ledger,           \* staking: bonded custody account -> controller, total,
                            \* and whether the stash has slashing spans
          voting,           \* custody account -> coins locked by its votes
          proxies,          \* proxy pallet: custody account -> delegate
          foreign,          \* custody account -> coins others have added, less slashes
                            \* and its reserve account, less those they took
          now               \* frame_system block number

CustodyInfo == [allocation : Nat, vested : Nat,
                custody : CustodyAccounts, reserve : ReserveAccounts]

\* pallet_staking, of a stash.
Ledger == [controller : Controllers, total : Nat, slashed : BOOLEAN]

teamVars == <<teamAccounts, custodyAccounts, totalCustody>>
coinVars == <<free, reserved, ledger, voting, proxies, foreign>>
custodyVars == <<teamVars, custodians, coinVars, now>>

Monus(x, y) == IF x > y THEN x - y ELSE 0

Min2(x, y) == IF x <= y THEN x ELSE y

Max2(x, y) == IF x >= y THEN x ELSE y

-----------------------------------------------------------------------------
FounderOf(h) == CHOOSE m \in Founders : h \in {Custody[m], Reserve[m]}

OpeningBalance(h, m) ==
    IF h = Reserve[m] THEN ReserveShare(Allocation[m])
    ELSE Allocation[m] - ReserveShare(Allocation[m])

\* initialize_custody for each founder, at genesis.
CustodyInit ==
    /\ teamAccounts = [m \in Founders |->
           [allocation |-> Allocation[m], vested |-> 0,
            custody |-> Custody[m], reserve |-> Reserve[m]]]
    /\ custodyAccounts = CustodyAccounts
    /\ totalCustody = SumFunction(Allocation)
    /\ custodians \in SUBSET Custodians
    /\ free = [h \in Holders |-> OpeningBalance(h, FounderOf(h))]
    /\ reserved = [c \in CustodyAccounts |-> 0]
    /\ ledger = EmptyMap
    /\ voting = [c \in CustodyAccounts |-> 0]
    /\ proxies = EmptyMap
    /\ foreign = [c \in CustodyAccounts |-> 0]
    /\ now = 0

-----------------------------------------------------------------------------
(* Payouts. *)

CustodyDone == now > CustodyDuration

GovernanceCustodyDone == now > GovernanceCustodyDuration

\* Locks overlap: the larger one counts.
StakeOf(c) == IF c \in DOMAIN ledger THEN ledger[c].total ELSE 0

Locked(h) == IF h \in CustodyAccounts THEN Max2(StakeOf(h), voting[h]) ELSE 0

Reserved(h) == IF h \in CustodyAccounts THEN reserved[h] ELSE 0

Liquid(h) == Monus(free[h], Locked(h))

\* Variant: all that is not locked.
TransferableToTheEnd(h) == Liquid(h)

\* reducible_balance with keep_alive: what can be taken and leaves the account,
\* its locked and reserved coins included, with the existential deposit.
Transferable(h) ==
    Monus(Liquid(h), Monus(ExistentialDeposit, free[h] + Reserved(h) - Liquid(h)))

\* What should be vested by now, in whole periods.
DueBy(n, allocation) == PayoutStep(allocation) * (n \div PayoutFrequency)

\* Variant: what was vested before is paid again.
AmountDueAgain(info) == DueBy(now, info.allocation)

AmountDue(info) == DueBy(now, info.allocation) - info.vested

\* Variant: the reserve pays whatever the custody account cannot.
FromReserveInFull(info) ==
    Monus(AmountDue(info), Transferable(info.custody))

\* The reserve makes up for what is locked or reserved, as far as it goes.
FromReserve(info) ==
    Min2(Monus(AmountDue(info), Transferable(info.custody)), Transferable(info.reserve))

\* try_payout and do_payout while the custody lasts; what the accounts cannot
\* pay now remains due.
PartialPayout(m) ==
    LET info == teamAccounts[m]
        fromCustody == Min2(AmountDue(info), Transferable(info.custody))
        withdraw == fromCustody + FromReserve(info)
    IN  /\ ~CustodyDone
        /\ withdraw > 0
        /\ free' = [free EXCEPT ![info.custody] = @ - fromCustody,
                                ![info.reserve] = @ - FromReserve(info)]
        /\ teamAccounts' = [teamAccounts EXCEPT ![m].vested = @ + withdraw]
        /\ totalCustody' = Monus(totalCustody, withdraw)
        /\ UNCHANGED <<custodyAccounts, custodians, reserved, ledger, voting,
                       proxies, foreign, now>>

\* Variant: a bonded custody account is left to its controller.
ForceUnstakeLater(c) == c \notin DOMAIN ledger /\ UNCHANGED ledger

\* Staking's force_unstake, if the account is bonded.  The pallet passes zero
\* slashing spans, and staking refuses that for a stash that has any.
ForceUnstake(c) ==
    /\ c \in DOMAIN ledger => ~ledger[c].slashed
    /\ ledger' = Remove(ledger, c)

\* Variant: the deposit stays reserved.
RemoveCustodyProxiesOnly(c) ==
    /\ proxies' = Remove(proxies, c)
    /\ UNCHANGED reserved

\* remove_custody_proxies.
RemoveCustodyProxies(c) ==
    /\ proxies' = Remove(proxies, c)
    /\ reserved' = [reserved EXCEPT ![c] = 0]

\* Variant: the last payout is deducted as it is.
FinalDeductionAsPaid(info, withdraw) == withdraw

\* What the last payout takes off TotalCustody.
FinalDeduction(info, withdraw) ==
    LET vested == info.vested + withdraw
    IN  IF info.allocation < vested THEN Monus(withdraw, vested - info.allocation)
        ELSE withdraw + (info.allocation - vested)

\* What the votes of a custody account keep on it, and an account that has
\* locked coins is not emptied (reducible_balance without keep_alive).
KeptByVotes(c) ==
    IF voting[c] = 0 THEN 0 ELSE Max2(voting[c], ExistentialDeposit)

\* try_payout and do_payout once the custody is over: the stake is unbonded by
\* force, the proxy is removed, and what no vote keeps is paid.
FinalPayout(m) ==
    LET info == teamAccounts[m]
        c == info.custody
        held == free[c] + reserved[c] - reserved'[c]
        fromCustody == Monus(held, KeptByVotes(c))
        withdraw == fromCustody + free[info.reserve]
    IN  /\ CustodyDone
        /\ ForceUnstake(c)
        /\ RemoveCustodyProxies(c)
        /\ free' = [free EXCEPT ![c] = held - fromCustody, ![info.reserve] = 0]
        /\ totalCustody' = Monus(totalCustody, FinalDeduction(info, withdraw))
        /\ teamAccounts' = Remove(teamAccounts, m)
        /\ custodyAccounts' = custodyAccounts \ {c}
        /\ UNCHANGED <<custodians, voting, foreign, now>>

\* payout, which anyone may call for a member.
Payout(m) ==
    /\ m \in DOMAIN teamAccounts
    /\ PartialPayout(m) \/ FinalPayout(m)

-----------------------------------------------------------------------------
(* Custodians, members and the administration. *)

\* A custodian acts on a custody account.
ByCustodian(c) == custodians # {} /\ c \in custodyAccounts

\* Staking refuses dust and a controller that has a ledger already, and bonds
\* what there is.
CustodyBond(c, controller, amount) ==
    /\ ByCustodian(c)
    /\ ~CustodyDone
    /\ c \notin DOMAIN ledger
    /\ \A d \in DOMAIN ledger : ledger[d].controller # controller
    /\ amount >= ExistentialDeposit
    /\ ledger' = Insert(ledger, c, [controller |-> controller,
                                    total |-> Min2(amount, free[c]),
                                    slashed |-> FALSE])
    /\ UNCHANGED <<teamVars, custodians, free, reserved, voting, proxies, foreign, now>>

CustodyBondExtra(c, amount) ==
    /\ ByCustodian(c)
    /\ ~CustodyDone
    /\ c \in DOMAIN ledger
    /\ ledger[c].total < free[c]
    /\ ledger' = [ledger EXCEPT ![c].total = Min2(@ + amount, free[c])]
    /\ UNCHANGED <<teamVars, custodians, free, reserved, voting, proxies, foreign, now>>

CustodySetController(c, controller) ==
    /\ ByCustodian(c)
    /\ ~CustodyDone
    /\ c \in DOMAIN ledger
    /\ \A d \in DOMAIN ledger : ledger[d].controller # controller
    /\ ledger' = [ledger EXCEPT ![c].controller = controller]
    /\ UNCHANGED <<teamVars, custodians, free, reserved, voting, proxies, foreign, now>>

\* set_custody_governance_proxy: an earlier proxy is removed, its deposit is
\* released, and the deposit of the new one must be free.
SetGovernanceProxy(c, delegate) ==
    /\ free[c] + reserved[c] - ProxyDeposit >= Locked(c)
    /\ proxies' = Insert(proxies, c, delegate)
    /\ free' = [free EXCEPT ![c] = @ + reserved[c] - ProxyDeposit]
    /\ reserved' = [reserved EXCEPT ![c] = ProxyDeposit]
    /\ UNCHANGED <<teamVars, custodians, ledger, voting, foreign, now>>

CustodySetProxy(c, delegate) ==
    /\ ByCustodian(c)
    /\ ~GovernanceCustodyDone
    /\ SetGovernanceProxy(c, delegate)

TeamCustodySetProxy(m, delegate) ==
    /\ m \in DOMAIN teamAccounts
    /\ GovernanceCustodyDone
    /\ SetGovernanceProxy(teamAccounts[m].custody, delegate)

\* Variant: the new account may be a member already.
ReplaceByAnyone(m, new) ==
    /\ m \in DOMAIN teamAccounts
    /\ teamAccounts' = Insert(Remove(teamAccounts, m), new, teamAccounts[m])
    /\ UNCHANGED <<custodyAccounts, totalCustody, custodians, coinVars, now>>

\* Variant: the custody starts anew.
ReplaceAfresh(m, new) ==
    /\ m \in DOMAIN teamAccounts /\ new \notin DOMAIN teamAccounts
    /\ teamAccounts' = Insert(Remove(teamAccounts, m), new,
                              [teamAccounts[m] EXCEPT !.vested = 0])
    /\ UNCHANGED <<custodyAccounts, totalCustody, custodians, coinVars, now>>

ReplaceTeamMember(m, new) ==
    /\ m \in DOMAIN teamAccounts /\ new \notin DOMAIN teamAccounts
    /\ teamAccounts' = Insert(Remove(teamAccounts, m), new, teamAccounts[m])
    /\ UNCHANGED <<custodyAccounts, totalCustody, custodians, coinVars, now>>

\* add_custodian and remove_custodian.
SetCustodians(a) ==
    /\ custodians' \in {custodians \cup {a}, custodians \ {a}}
    /\ UNCHANGED <<teamVars, coinVars, now>>

-----------------------------------------------------------------------------
(* What others do to the accounts. *)

\* The controller unbonds and withdraws part of the stake or all of it, which
\* clears the slashing spans with the ledger.
Unbond(c, amount) ==
    /\ c \in DOMAIN ledger
    /\ ledger' = IF ledger[c].total <= amount THEN Remove(ledger, c)
                 ELSE [ledger EXCEPT ![c].total = @ - amount]
    /\ UNCHANGED <<teamVars, custodians, free, reserved, voting, proxies, foreign, now>>

\* The proxy votes with coins of the account, which locks them.
Vote(c, amount) ==
    /\ c \in DOMAIN proxies
    /\ amount <= free[c]
    /\ voting' = [voting EXCEPT ![c] = Max2(@, amount)]
    /\ UNCHANGED <<teamVars, custodians, free, reserved, ledger, proxies, foreign, now>>

\* The votes are removed and the coins they locked unlocked.
Unvote(c) ==
    /\ voting[c] > 0
    /\ voting' = [voting EXCEPT ![c] = 0]
    /\ UNCHANGED <<teamVars, custodians, free, reserved, ledger, proxies, foreign, now>>

\* Coins that others send and coins that slashes take are bounded together.
ForeignAllowed(c) == -MaxForeign[c] < foreign[c] /\ foreign[c] < MaxForeign[c]

\* Coins are sent to an account of the custody of member m.
Foreign(m, h, gift) ==
    /\ m \in DOMAIN teamAccounts
    /\ h \in {teamAccounts[m].custody, teamAccounts[m].reserve}
    /\ ForeignAllowed(teamAccounts[m].custody)
    /\ free' = [free EXCEPT ![h] = @ + gift]
    /\ foreign' = [foreign EXCEPT ![teamAccounts[m].custody] = @ + gift]
    /\ UNCHANGED <<teamVars, custodians, reserved, ledger, voting, proxies, now>>

\* What a slash takes off a stake: staking leaves no dust.
Slashed(stake, amount) ==
    IF Monus(stake, amount) <= ExistentialDeposit THEN stake ELSE amount

\* What it takes from the account, which stays alive as long as it is bonded.
SlashLoss(c, amount) ==
    Min2(Slashed(ledger[c].total, amount),
         Monus(free[c] + reserved[c], ExistentialDeposit))

\* The stake is slashed for an offence of the validator it backs: locked coins
\* are taken like free ones, and the deposit of the proxy if those run out.
Slash(c, amount) ==
    LET loss == SlashLoss(c, amount)
        fromFree == Min2(loss, free[c])
    IN  /\ c \in DOMAIN ledger
        /\ ForeignAllowed(c)
        /\ ledger' = [ledger EXCEPT ![c].total = @ - Slashed(@, amount),
                                    ![c].slashed = TRUE]
        /\ free' = [free EXCEPT ![c] = @ - fromFree]
        /\ reserved' = [reserved EXCEPT ![c] = @ - (loss - fromFree)]
        /\ foreign' = [foreign EXCEPT ![c] = @ - loss]
        /\ UNCHANGED <<teamVars, custodians, voting, proxies, now>>

NextBlock ==
    /\ now < MaxBlock
    /\ now' = now + 1
    /\ UNCHANGED <<teamVars, custodians, coinVars>>

ByOthers ==
    \/ \E c \in CustodyAccounts, amount \in Stakes : Unbond(c, amount) \/ Vote(c, amount)
    \/ \E c \in CustodyAccounts : Unvote(c)
    \/ \E m \in Members, h \in Holders, gift \in Gifts : Foreign(m, h, gift)
    \/ \E c \in CustodyAccounts, amount \in Slashes : Slash(c, amount)
    \/ NextBlock

CustodyNext ==
    \/ \E m \in Members : Payout(m)
    \/ \E c \in CustodyAccounts, controller \in Controllers, amount \in Stakes :
          CustodyBond(c, controller, amount)
    \/ \E c \in CustodyAccounts, amount \in Stakes : CustodyBondExtra(c, amount)
    \/ \E c \in CustodyAccounts, controller \in Controllers :
          CustodySetController(c, controller)
    \/ \E c \in CustodyAccounts, delegate \in Delegates : CustodySetProxy(c, delegate)
    \/ \E m \in Members, delegate \in Delegates : TeamCustodySetProxy(m, delegate)
    \/ \E m, new \in Members : ReplaceTeamMember(m, new)
    \/ \E a \in Custodians : SetCustodians(a)
    \/ ByOthers

CustodySpec == CustodyInit /\ [][CustodyNext]_custodyVars

\* The last payout of the custody account c, whoever the member is.
FinalPayoutOf(c) ==
    \E m \in DOMAIN teamAccounts : teamAccounts[m].custody = c /\ FinalPayout(m)

\* Blocks keep coming, and somebody calls payout once a custody is over.
FairCustodySpec ==
    /\ CustodySpec
    /\ WF_custodyVars(NextBlock)
    /\ \A c \in CustodyAccounts : WF_custodyVars(FinalPayoutOf(c))

-----------------------------------------------------------------------------
(* Properties. *)

\* Type correctness of the pallet's storage and the balances it works on.
TeamTypeOK ==
    /\ IsMap(teamAccounts, Members, CustodyInfo)
    /\ custodyAccounts \subseteq CustodyAccounts
    /\ custodians \subseteq Custodians
    /\ totalCustody \in Nat
    /\ free \in [Holders -> Nat]
    /\ reserved \in [CustodyAccounts -> Nat]
    /\ IsMap(ledger, CustodyAccounts, Ledger)
    /\ voting \in [CustodyAccounts -> Nat]
    /\ IsMap(proxies, CustodyAccounts, Delegates)
    /\ foreign \in [CustodyAccounts -> Int]
    /\ now \in Nat

\* TotalCustody is what is left of the allocations of the members, whatever was
\* paid from which account, added to them or taken from them, and in whatever
\* order the custodies end (do_payout).  The inflation is computed from it.
TotalMatches ==
    totalCustody = SumFunction([m \in DOMAIN teamAccounts |->
                        teamAccounts[m].allocation - teamAccounts[m].vested])

\* No member is vested more than is due, so that the amount due, a subtraction
\* of unsigned numbers, does not underflow (try_payout).
VestedOnSchedule ==
    \A m \in DOMAIN teamAccounts :
        ~CustodyDone =>
            teamAccounts[m].vested <= DueBy(now, teamAccounts[m].allocation)

\* Each live custody account is one member's and each member has one, with a
\* reserve account of its own, however members are replaced: the last payout
\* then deletes what it pays from and nothing else (update_team_member).
EveryCustodyHasOneMember ==
    /\ \A m, n \in DOMAIN teamAccounts : m # n =>
          /\ teamAccounts[m].custody # teamAccounts[n].custody
          /\ teamAccounts[m].reserve # teamAccounts[n].reserve
    /\ custodyAccounts = {teamAccounts[m].custody : m \in DOMAIN teamAccounts}

\* The accounts of a member hold what is not vested yet, and what others added
\* to them: nothing is paid without being recorded as vested, and nothing is
\* recorded without being paid (do_payout).
CustodyBacked ==
    \A m \in DOMAIN teamAccounts :
        LET info == teamAccounts[m]
        IN  free[info.custody] + reserved[info.custody] + free[info.reserve]
                = info.allocation - info.vested + foreign[info.custody]

\* While a custody lasts neither of its accounts falls below the existential
\* deposit: it would be reaped and its last coins lost, and the member would
\* never fully vest (do_payout).
KeptAlive ==
    \A m \in DOMAIN teamAccounts :
        /\ free[teamAccounts[m].custody] + reserved[teamAccounts[m].custody]
               >= ExistentialDeposit
        /\ free[teamAccounts[m].reserve] >= ExistentialDeposit

\* The last payout leaves nothing behind, on either account, unless votes lock
\* coins: no stake, no deposit, no proxy and no coins (try_payout).
FinalPayoutEmpties ==
    [][\A m \in DOMAIN teamAccounts :
        LET info == teamAccounts[m]
        IN  m \notin DOMAIN teamAccounts' /\ info.custody \notin custodyAccounts' =>
                /\ info.custody \notin DOMAIN ledger' \cup DOMAIN proxies'
                /\ reserved'[info.custody] = 0
                /\ free'[info.reserve] = 0
                /\ voting[info.custody] = 0 => free'[info.custody] = 0
      ]_custodyVars

\* Every custody ends and is paid out in the end, bonded or not, whoever the
\* member is by then; except while its stake has been slashed and its controller
\* never withdraws it: then the last payout fails on every call (try_payout).
AllPaidOut ==
    \A c \in CustodyAccounts :
        \/ <>(c \notin custodyAccounts)
        \/ <>[](c \in DOMAIN ledger /\ ledger[c].slashed)

-----------------------------------------------------------------------------
(* What comments of the code say. *)

\* "If custody period is done, transfer full amount from both accounts in order
\* to not leave any inaccessible funds around."
NoInaccessibleFunds ==
    [][\A m \in DOMAIN teamAccounts :
        FinalPayout(m) => free'[teamAccounts[m].custody] = 0]_custodyVars
=============================================================================

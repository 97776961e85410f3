-------------------------- MODULE TeamCustody_proofs --------------------------
(***************************************************************************)
(* Proofs about the team custody pallet, for any founders, allocations,    *)
(* periods and deposits, and without the bounds that the runs need.        *)
(***************************************************************************)
EXTENDS TeamCustody, Sums, TLAPS

\* Storage maps keep their keys and values typed.
LEMMA InsertTyped ==
    ASSUME NEW K, NEW V, NEW f, IsMap(f, K, V), NEW k \in K, NEW v \in V
    PROVE  IsMap(Insert(f, k, v), K, V)
  BY DEF IsMap, Insert

LEMMA RemoveTyped ==
    ASSUME NEW K, NEW V, NEW f, IsMap(f, K, V), NEW k
    PROVE  IsMap(Remove(f, k), K, V)
  BY DEF IsMap, Remove

-----------------------------------------------------------------------------
(* Types. *)

\* What the invariants about the accounts need of the types; the rest of them
\* comes with the books, below.
TypeInv ==
    /\ IsMap(teamAccounts, Members, CustodyInfo)
    /\ free \in [Holders -> Nat]
    /\ reserved \in [CustodyAccounts -> Nat]
    /\ IsMap(ledger, CustodyAccounts, Ledger)
    /\ voting \in [CustodyAccounts -> Nat]
    /\ foreign \in [CustodyAccounts -> Int]
    /\ now \in Nat

LEMMA ShareTyped ==
    ASSUME NEW n \in Nat, NEW d \in Nat \ {0}, NEW amount \in Nat
    PROVE  Share(n, d, amount) \in Nat
<1> DEFINE p == FromRational(n, d)
<1>1. \A a \in Nat, b \in Nat \ {0} : a \div b \in Nat
  OBVIOUS
<1>2. p \in Nat
  <2>1. n * Accuracy \in Nat
    BY PerbillAssumption
  <2>2. (n * Accuracy) \div d \in Nat
    BY <1>1, <2>1
  <2>3. QED
    BY <2>2, PerbillAssumption DEF FromRational
<1> HIDE DEF p
<1>3. 2 * p * amount + Accuracy - 1 \in Nat /\ 2 * Accuracy \in Nat \ {0}
  <2>1. 2 * p * amount \in Nat
    BY <1>2
  <2>2. QED
    BY <2>1, PerbillAssumption
<1>4. PartOf(p, amount) \in Nat
  BY <1>1, <1>3 DEF PartOf
<1>5. QED
  BY <1>4 DEF Share, p

\* What is due is a number, and grows with the block number.
LEMMA DueTyped ==
    ASSUME NEW n \in Nat, NEW allocation \in Nat
    PROVE  DueBy(n, allocation) \in Nat
<1>1. PayoutStep(allocation) \in Nat
  BY CustodyAssumption, ShareTyped DEF PayoutStep
<1>2. n \div PayoutFrequency \in Nat
  BY CustodyAssumption
<1>3. QED
  BY <1>1, <1>2 DEF DueBy

LEMMA DueGrows ==
    ASSUME NEW n \in Nat, NEW allocation \in Nat
    PROVE  DueBy(n, allocation) <= DueBy(n + 1, allocation)
<1> DEFINE f == PayoutFrequency
           p == n \div f
           q == (n + 1) \div f
<1>1. f \in Nat /\ f > 0
  BY CustodyAssumption
<1>2. p \in Nat /\ f * p <= n
  BY <1>1
<1>3. q \in Nat /\ n + 1 < f * q + f
  BY <1>1
<1>4. p <= q
  <2>1. ASSUME q + 1 <= p PROVE FALSE
    <3>1. f * (q + 1) <= f * p
      BY <1>1, <1>2, <1>3, <2>1
    <3>2. f * (q + 1) = f * q + f
      BY <1>1, <1>3
    <3>3. f * p \in Nat /\ f * q \in Nat
      BY <1>1, <1>2, <1>3
    <3>4. QED
      BY <1>1, <1>2, <1>3, <3>1, <3>2, <3>3
  <2>2. QED
    BY <1>2, <1>3, <2>1
<1>5. PayoutStep(allocation) \in Nat
  BY CustodyAssumption, ShareTyped DEF PayoutStep
<1>6. \A s, a, b \in Nat : a <= b => s * a <= s * b
  OBVIOUS
<1>7. QED
  BY <1>2, <1>3, <1>4, <1>5, <1>6 DEF DueBy

\* What is transferable leaves the existential deposit.
LEMMA TransferableLeaves ==
    ASSUME TypeInv, NEW h \in Holders
    PROVE  /\ Transferable(h) \in Nat
           /\ Transferable(h) <= free[h]
           /\ Transferable(h) > 0 =>
                 free[h] + Reserved(h) - Transferable(h) >= ExistentialDeposit
<1>1. free[h] \in Nat /\ Reserved(h) \in Nat
  BY DEF TypeInv, Reserved
<1>2. Locked(h) \in Nat
  <2>1. ASSUME NEW c \in CustodyAccounts PROVE StakeOf(c) \in Nat /\ voting[c] \in Nat
    BY DEF TypeInv, IsMap, Ledger, StakeOf
  <2>2. QED
    BY <2>1 DEF Locked, Max2
<1>3. Liquid(h) \in Nat /\ Liquid(h) <= free[h]
  BY <1>1, <1>2 DEF Liquid, Monus
<1>4. ExistentialDeposit \in Nat
  BY CustodyAssumption
<1>5. QED
  BY <1>1, <1>3, <1>4 DEF Transferable, Monus

-----------------------------------------------------------------------------
(* What a payout does, in terms of the coins it takes from each account. *)

\* A member's accounts are among the holders, and different.
LEMMA AccountsOf ==
    ASSUME TypeInv, NEW m \in DOMAIN teamAccounts
    PROVE  /\ m \in Members
           /\ teamAccounts[m] \in CustodyInfo
           /\ teamAccounts[m].custody \in CustodyAccounts
           /\ teamAccounts[m].reserve \in ReserveAccounts
           /\ teamAccounts[m].custody \in Holders
           /\ teamAccounts[m].reserve \in Holders
           /\ teamAccounts[m].custody # teamAccounts[m].reserve
  BY CustodyAssumption DEF TypeInv, IsMap, CustodyInfo, Holders

Partly(m, x, y) ==
    /\ x <= Transferable(teamAccounts[m].custody)
    /\ y <= Transferable(teamAccounts[m].reserve)
    /\ x + y > 0
    /\ x + y <= AmountDue(teamAccounts[m])
    /\ free' = [free EXCEPT ![teamAccounts[m].custody] = @ - x,
                            ![teamAccounts[m].reserve] = @ - y]
    /\ teamAccounts' = [teamAccounts EXCEPT ![m].vested = @ + (x + y)]
    /\ ~CustodyDone
    /\ UNCHANGED <<custodyAccounts, reserved, ledger, voting, foreign, now>>

LEMMA PartialPayoutTakes ==
    ASSUME TypeInv, NEW m \in DOMAIN teamAccounts, PartialPayout(m)
    PROVE  \E x, y \in Nat : Partly(m, x, y)
<1> DEFINE info == teamAccounts[m]
           c == Transferable(info.custody)
           r == Transferable(info.reserve)
           x == Min2(AmountDue(info), c)
           y == FromReserve(info)
<1>1. c \in Nat /\ r \in Nat
  BY AccountsOf, TransferableLeaves
<1>2. AmountDue(info) \in Int
  <2>1. info.allocation \in Nat /\ info.vested \in Nat /\ now \in Nat
    BY AccountsOf DEF CustodyInfo, TypeInv
  <2>2. DueBy(now, info.allocation) \in Nat
    BY <2>1, DueTyped
  <2>3. QED
    BY <2>1, <2>2 DEF AmountDue
<1>3. y = Min2(Monus(AmountDue(info), c), r)
  BY DEF FromReserve
<1>4. x + y > 0
  BY DEF PartialPayout
<1>5. x \in Nat /\ y \in Nat /\ x <= c /\ y <= r /\ x + y <= AmountDue(info)
  <2> HIDE DEF info, c, r
  <2>1. QED
    BY <1>1, <1>2, <1>3, <1>4 DEF Min2, Monus
<1>6. Partly(m, x, y)
  BY <1>4, <1>5 DEF Partly, PartialPayout
<1>7. QED
  BY <1>5, <1>6

Finally(m, x) ==
    LET c == teamAccounts[m].custody
    IN  /\ x <= free[c] + reserved[c]
        /\ free' = [free EXCEPT ![c] = free[c] + reserved[c] - x,
                                ![teamAccounts[m].reserve] = 0]
        /\ reserved' = [reserved EXCEPT ![c] = 0]
        /\ teamAccounts' = Remove(teamAccounts, m)
        /\ custodyAccounts' = custodyAccounts \ {c}
        /\ ledger' = Remove(ledger, c)
        /\ proxies' = Remove(proxies, c)
        /\ voting[c] = 0 => x = free[c] + reserved[c]
        /\ UNCHANGED <<voting, foreign, now>>

LEMMA FinalPayoutTakes ==
    ASSUME TypeInv, NEW m \in DOMAIN teamAccounts, FinalPayout(m)
    PROVE  \E x \in Nat : Finally(m, x)
<1> DEFINE c == teamAccounts[m].custody
           r == teamAccounts[m].reserve
           x == Monus(free[c] + reserved[c], KeptByVotes(c))
<1>1. c \in CustodyAccounts /\ c \in Holders /\ r \in Holders /\ c # r
  BY AccountsOf
<1>2. free[c] \in Nat /\ reserved[c] \in Nat /\ voting[c] \in Nat
  BY <1>1 DEF TypeInv
<1>3. KeptByVotes(c) \in Nat /\ (voting[c] = 0 => KeptByVotes(c) = 0)
  BY <1>2, CustodyAssumption DEF KeptByVotes, Max2
<1>4. x \in Nat /\ x <= free[c] + reserved[c]
      /\ (voting[c] = 0 => x = free[c] + reserved[c])
  BY <1>2, <1>3 DEF Monus
<1>5. reserved' = [reserved EXCEPT ![c] = 0]
  BY DEF FinalPayout, RemoveCustodyProxies
<1>6. reserved'[c] = 0
  BY <1>1, <1>5 DEF TypeInv
<1>7. free' = [free EXCEPT ![c] = free[c] + reserved[c] - x, ![r] = 0]
  <2> DEFINE held == free[c] + reserved[c] - reserved'[c]
             after == held - Monus(held, KeptByVotes(c))
  <2>1. free' = [free EXCEPT ![c] = after, ![r] = 0]
    BY DEF FinalPayout
  <2>2. held = free[c] + reserved[c]
    BY <1>2, <1>6
  <2>3. after = free[c] + reserved[c] - x
    BY <1>2, <1>3, <1>6 DEF Monus
  <2> HIDE DEF after
  <2>4. QED
    BY <2>1, <2>3
<1>8. Finally(m, x)
  BY <1>4, <1>5, <1>7 DEF Finally, FinalPayout, ForceUnstake, RemoveCustodyProxies
<1>9. QED
  BY <1>4, <1>8

-----------------------------------------------------------------------------
(* Types are preserved by every action. *)

LEMMA PartialPayoutTyped ==
    ASSUME TypeInv, NEW m \in DOMAIN teamAccounts, PartialPayout(m)
    PROVE  TypeInv'
<1>1. PICK x \in Nat, y \in Nat : Partly(m, x, y)
  BY PartialPayoutTakes
<1> DEFINE c == teamAccounts[m].custody
           r == teamAccounts[m].reserve
<1>2. /\ m \in Members /\ teamAccounts[m] \in CustodyInfo
      /\ c \in Holders /\ r \in Holders /\ c # r
  BY AccountsOf
<1>3. free[c] - x \in Nat /\ free[r] - y \in Nat
  BY <1>1, <1>2, TransferableLeaves DEF Partly, TypeInv
<1>4. free' \in [Holders -> Nat]
  BY <1>1, <1>2, <1>3 DEF Partly, TypeInv
<1>5. IsMap(teamAccounts', Members, CustodyInfo)
  BY <1>1, <1>2 DEF Partly, TypeInv, IsMap, CustodyInfo
<1>6. QED
  BY <1>1, <1>4, <1>5 DEF Partly, TypeInv

LEMMA FinalPayoutTyped ==
    ASSUME TypeInv, NEW m \in DOMAIN teamAccounts, FinalPayout(m)
    PROVE  TypeInv'
<1>1. PICK x \in Nat : Finally(m, x)
  BY FinalPayoutTakes
<1> DEFINE c == teamAccounts[m].custody
           r == teamAccounts[m].reserve
<1>2. c \in CustodyAccounts /\ c \in Holders /\ r \in Holders
  BY AccountsOf
<1>3. free[c] + reserved[c] - x \in Nat
  BY <1>1, <1>2 DEF Finally, TypeInv
<1>4. free' \in [Holders -> Nat] /\ reserved' \in [CustodyAccounts -> Nat]
  BY <1>1, <1>2, <1>3 DEF Finally, TypeInv
<1>5. IsMap(teamAccounts', Members, CustodyInfo)
  BY <1>1, RemoveTyped DEF Finally, TypeInv
<1>6. IsMap(ledger', CustodyAccounts, Ledger)
  BY <1>1, RemoveTyped DEF Finally, TypeInv
<1>7. QED
  BY <1>1, <1>4, <1>5, <1>6 DEF Finally, TypeInv

LEMMA BondTyped ==
    ASSUME TypeInv, NEW c \in CustodyAccounts, NEW controller \in Controllers,
           NEW amount \in Stakes, CustodyBond(c, controller, amount)
    PROVE  TypeInv'
<1>1. amount \in Nat /\ free[c] \in Nat
  BY CustodyAssumption DEF TypeInv, Holders
<1>2. [controller |-> controller, total |-> Min2(amount, free[c]), slashed |-> FALSE] \in Ledger
  BY <1>1 DEF Ledger, Min2
<1>3. IsMap(ledger', CustodyAccounts, Ledger)
  BY <1>2, InsertTyped DEF CustodyBond, TypeInv
<1>4. UNCHANGED <<teamAccounts, free, reserved, voting, foreign, now>>
  BY DEF CustodyBond, teamVars
<1>5. QED
  BY <1>3, <1>4 DEF TypeInv

LEMMA SetGovernanceProxyTyped ==
    ASSUME TypeInv, NEW c \in CustodyAccounts, NEW delegate,
           SetGovernanceProxy(c, delegate)
    PROVE  /\ TypeInv'
           /\ free' = [free EXCEPT ![c] = @ + reserved[c] - ProxyDeposit]
           /\ free[c] + reserved[c] - ProxyDeposit \in Nat
           /\ reserved' = [reserved EXCEPT ![c] = ProxyDeposit]
           /\ UNCHANGED <<teamAccounts, custodyAccounts, ledger, voting, foreign, now>>
<1>1. c \in Holders /\ ProxyDeposit \in Nat /\ free[c] \in Nat /\ reserved[c] \in Nat
  BY CustodyAssumption DEF Holders, TypeInv
<1>2. Locked(c) \in Nat
  BY DEF TypeInv, IsMap, Ledger, StakeOf, Locked, Max2
<1>3. free[c] + reserved[c] - ProxyDeposit \in Nat
  BY <1>1, <1>2 DEF SetGovernanceProxy
<1>4. /\ free' = [free EXCEPT ![c] = @ + reserved[c] - ProxyDeposit]
      /\ reserved' = [reserved EXCEPT ![c] = ProxyDeposit]
      /\ UNCHANGED <<teamAccounts, custodyAccounts, ledger, voting, foreign, now>>
  BY DEF SetGovernanceProxy, teamVars
<1>5. free' \in [Holders -> Nat] /\ reserved' \in [CustodyAccounts -> Nat]
  BY <1>1, <1>3, <1>4 DEF TypeInv
<1>6. TypeInv'
  BY <1>4, <1>5 DEF TypeInv
<1>7. QED
  BY <1>3, <1>4, <1>6

\* The custody of m goes to new as it is; all others stay.
LEMMA ReplaceMoves ==
    ASSUME TypeInv, NEW m, NEW new \in Members, ReplaceTeamMember(m, new)
    PROVE  /\ TypeInv'
           /\ m \in DOMAIN teamAccounts /\ new \notin DOMAIN teamAccounts
           /\ DOMAIN teamAccounts' = (DOMAIN teamAccounts \ {m}) \cup {new}
           /\ teamAccounts'[new] = teamAccounts[m]
           /\ \A n \in DOMAIN teamAccounts \ {m} : teamAccounts'[n] = teamAccounts[n]
           /\ UNCHANGED <<custodyAccounts, free, reserved, ledger, voting, foreign, now>>
<1> DEFINE rest == Remove(teamAccounts, m)
<1>1. /\ m \in DOMAIN teamAccounts /\ new \notin DOMAIN teamAccounts
      /\ teamAccounts' = Insert(rest, new, teamAccounts[m])
      /\ UNCHANGED <<custodyAccounts, free, reserved, ledger, voting, foreign, now>>
  BY DEF ReplaceTeamMember, coinVars
<1>2. teamAccounts[m] \in CustodyInfo
  BY <1>1, AccountsOf
<1>3. IsMap(rest, Members, CustodyInfo)
  BY RemoveTyped DEF TypeInv
<1>4. /\ DOMAIN rest = DOMAIN teamAccounts \ {m}
      /\ \A n \in DOMAIN teamAccounts \ {m} : rest[n] = teamAccounts[n]
  BY DEF Remove
<1> HIDE DEF rest
<1>5. IsMap(teamAccounts', Members, CustodyInfo)
  BY <1>1, <1>2, <1>3, InsertTyped
<1>6. /\ DOMAIN teamAccounts' = DOMAIN rest \cup {new}
      /\ \A n \in DOMAIN rest \cup {new} :
            teamAccounts'[n] = IF n = new THEN teamAccounts[m] ELSE rest[n]
  BY <1>1 DEF Insert
<1>7. TypeInv'
  BY <1>1, <1>5 DEF TypeInv
<1>8. /\ teamAccounts'[new] = teamAccounts[m]
      /\ \A n \in DOMAIN teamAccounts \ {m} : teamAccounts'[n] = teamAccounts[n]
  BY <1>1, <1>4, <1>6
<1>9. QED
  BY <1>1, <1>4, <1>6, <1>7, <1>8

\* A transfer by others only adds to an account.
LEMMA ForeignChanges ==
    ASSUME TypeInv, NEW m, NEW h, NEW gift \in Nat, Foreign(m, h, gift)
    PROVE  /\ TypeInv'
           /\ m \in DOMAIN teamAccounts
           /\ h \in {teamAccounts[m].custody, teamAccounts[m].reserve}
           /\ free' = [free EXCEPT ![h] = @ + gift]
           /\ foreign' = [foreign EXCEPT ![teamAccounts[m].custody] = @ + gift]
           /\ UNCHANGED <<teamAccounts, custodyAccounts, reserved, ledger, voting, now>>
<1>1. /\ m \in DOMAIN teamAccounts
      /\ h \in {teamAccounts[m].custody, teamAccounts[m].reserve}
      /\ free' = [free EXCEPT ![h] = @ + gift]
      /\ foreign' = [foreign EXCEPT ![teamAccounts[m].custody] = @ + gift]
      /\ UNCHANGED <<teamAccounts, custodyAccounts, reserved, ledger, voting, now>>
  BY DEF Foreign, teamVars
<1>2. h \in Holders /\ teamAccounts[m].custody \in CustodyAccounts
  BY <1>1, AccountsOf
<1>3. free' \in [Holders -> Nat] /\ foreign' \in [CustodyAccounts -> Int]
  BY <1>1, <1>2 DEF TypeInv
<1>4. TypeInv'
  BY <1>1, <1>3 DEF TypeInv
<1>5. QED
  BY <1>1, <1>4

\* A slash takes the same coins from the account and from what others have
\* added to it, and leaves the existential deposit.
LostToSlash(c, x, y) ==
    /\ free' = [free EXCEPT ![c] = @ - x]
    /\ reserved' = [reserved EXCEPT ![c] = @ - y]
    /\ foreign' = [foreign EXCEPT ![c] = @ - (x + y)]
    /\ x <= free[c] /\ y <= reserved[c]
    /\ x + y > 0 => free[c] + reserved[c] - (x + y) >= ExistentialDeposit
    /\ UNCHANGED <<teamAccounts, custodyAccounts, voting, now>>

LEMMA SlashTakes ==
    ASSUME TypeInv, NEW c \in CustodyAccounts, NEW amount \in Nat, Slash(c, amount)
    PROVE  TypeInv' /\ \E x, y \in Nat : LostToSlash(c, x, y)
<1> DEFINE stake == ledger[c].total
           value == Slashed(stake, amount)
           spare == Monus(free[c] + reserved[c], ExistentialDeposit)
           loss == SlashLoss(c, amount)
           x == Min2(loss, free[c])
           y == loss - x
<1>1. /\ c \in Holders /\ free[c] \in Nat /\ reserved[c] \in Nat /\ foreign[c] \in Int
      /\ ExistentialDeposit \in Nat
  BY CustodyAssumption DEF Holders, TypeInv
<1>2. c \in DOMAIN ledger /\ ledger[c] \in Ledger /\ stake \in Nat
  BY DEF Slash, TypeInv, IsMap, Ledger
<1>3. value \in Nat /\ stake - value \in Nat
  <2>1. CASE Monus(stake, amount) <= ExistentialDeposit
    BY <1>2, <2>1 DEF Slashed
  <2>2. CASE ~(Monus(stake, amount) <= ExistentialDeposit)
    <3>1. stake > amount
      BY <1>1, <1>2, <2>2 DEF Monus
    <3>2. QED
      BY <1>2, <2>2, <3>1 DEF Slashed
  <2>3. QED
    BY <2>1, <2>2
<1>4. spare \in Nat /\ (spare > 0 => spare = free[c] + reserved[c] - ExistentialDeposit)
  BY <1>1 DEF Monus
<1>5. loss = Min2(value, spare)
  BY DEF SlashLoss
<1>6. loss \in Nat /\ loss <= spare
  <2> HIDE DEF value, spare, loss
  <2>1. QED
    BY <1>3, <1>4, <1>5 DEF Min2
<1>7. /\ x \in Nat /\ y \in Nat /\ x + y = loss
      /\ x <= free[c] /\ y <= reserved[c]
      /\ x + y > 0 => free[c] + reserved[c] - (x + y) >= ExistentialDeposit
  <2> HIDE DEF spare, loss
  <2>1. QED
    BY <1>1, <1>4, <1>6 DEF Min2
<1>8. /\ free' = [free EXCEPT ![c] = @ - x]
      /\ reserved' = [reserved EXCEPT ![c] = @ - y]
      /\ foreign' = [foreign EXCEPT ![c] = @ - loss]
      /\ ledger' = [ledger EXCEPT ![c].total = @ - Slashed(@, amount), ![c].slashed = TRUE]
      /\ UNCHANGED <<teamAccounts, custodyAccounts, voting, now>>
  BY DEF Slash, teamVars
<1>9. LostToSlash(c, x, y)
  <2> HIDE DEF x, y, loss
  <2>1. QED
    BY <1>7, <1>8 DEF LostToSlash
<1>10. IsMap(ledger', CustodyAccounts, Ledger)
  <2>1. /\ ledger' = [ledger EXCEPT ![c] = ledger'[c]]
        /\ ledger'[c] = [ledger[c] EXCEPT !.total = stake - value, !.slashed = TRUE]
    BY <1>2, <1>8
  <2>2. ledger'[c] \in Ledger
    <3> HIDE DEF value
    <3>1. QED
      BY <1>2, <1>3, <2>1 DEF Ledger
  <2>3. QED
    BY <1>2, <2>1, <2>2 DEF TypeInv, IsMap
<1>11. TypeInv'
  <2> HIDE DEF x, y, loss
  <2>1. free[c] - x \in Nat /\ reserved[c] - y \in Nat /\ foreign[c] - loss \in Int
    BY <1>1, <1>6, <1>7
  <2>2. /\ free' \in [Holders -> Nat] /\ reserved' \in [CustodyAccounts -> Nat]
        /\ foreign' \in [CustodyAccounts -> Int]
    BY <1>1, <1>8, <2>1 DEF TypeInv
  <2>3. QED
    BY <1>8, <1>10, <2>2 DEF TypeInv
<1>12. QED
  BY <1>7, <1>9, <1>11

-----------------------------------------------------------------------------
(* The invariant: what the accounts of the members hold, and that no two   *)
(* members share an account, without which a payout to one of them would   *)
(* take the coins of another.                                              *)

CustodyInv ==
    /\ TypeInv
    /\ EveryCustodyHasOneMember
    /\ CustodyBacked
    /\ KeptAlive
    /\ VestedOnSchedule

\* Actions that touch neither the members nor the balances.
LEMMA AccountsUntouched ==
    ASSUME CustodyInv, TypeInv',
           UNCHANGED <<teamAccounts, custodyAccounts, free, reserved, foreign, now>>
    PROVE  CustodyInv'
<1>1. EveryCustodyHasOneMember'
  BY DEF CustodyInv, EveryCustodyHasOneMember
<1>2. CustodyBacked'
  BY DEF CustodyInv, CustodyBacked
<1>3. KeptAlive'
  BY DEF CustodyInv, KeptAlive
<1>4. VestedOnSchedule'
  BY DEF CustodyInv, VestedOnSchedule, CustodyDone
<1>5. QED
  BY <1>1, <1>2, <1>3, <1>4 DEF CustodyInv

\* Two members have four accounts.
LEMMA AccountsApart ==
    ASSUME CustodyInv, NEW m \in DOMAIN teamAccounts, NEW n \in DOMAIN teamAccounts,
           m # n
    PROVE  /\ teamAccounts[m].custody # teamAccounts[n].custody
           /\ teamAccounts[m].reserve # teamAccounts[n].reserve
           /\ teamAccounts[m].custody # teamAccounts[n].reserve
           /\ teamAccounts[m].reserve # teamAccounts[n].custody
<1>1. /\ teamAccounts[m].custody \in CustodyAccounts
      /\ teamAccounts[n].custody \in CustodyAccounts
      /\ teamAccounts[m].reserve \in ReserveAccounts
      /\ teamAccounts[n].reserve \in ReserveAccounts
  BY AccountsOf DEF CustodyInv
<1>2. CustodyAccounts \cap ReserveAccounts = {}
  BY CustodyAssumption
<1>3. QED
  BY <1>1, <1>2 DEF CustodyInv, EveryCustodyHasOneMember

LEMMA PartialPayoutKeeps ==
    ASSUME CustodyInv, NEW m \in DOMAIN teamAccounts, PartialPayout(m)
    PROVE  CustodyInv'
<1> USE DEF CustodyInv
<1> DEFINE c == teamAccounts[m].custody
           r == teamAccounts[m].reserve
<1>1. PICK x \in Nat, y \in Nat : Partly(m, x, y)
  BY PartialPayoutTakes
<1>2. /\ teamAccounts[m] \in CustodyInfo /\ c \in CustodyAccounts
      /\ c \in Holders /\ r \in Holders /\ c # r
  BY AccountsOf
<1>3. /\ DOMAIN teamAccounts' = DOMAIN teamAccounts
      /\ \A n \in DOMAIN teamAccounts :
            /\ teamAccounts'[n].custody = teamAccounts[n].custody
            /\ teamAccounts'[n].reserve = teamAccounts[n].reserve
            /\ teamAccounts'[n].allocation = teamAccounts[n].allocation
      /\ teamAccounts'[m].vested = teamAccounts[m].vested + (x + y)
      /\ \A n \in DOMAIN teamAccounts : n # m => teamAccounts'[n] = teamAccounts[n]
  BY <1>1, <1>2 DEF Partly, TypeInv, IsMap, CustodyInfo
<1>4. /\ free'[c] = free[c] - x /\ free'[r] = free[r] - y
      /\ \A h \in Holders : h # c /\ h # r => free'[h] = free[h]
      /\ UNCHANGED <<custodyAccounts, reserved, foreign, now>>
  BY <1>1, <1>2 DEF Partly, TypeInv
<1>5. free[c] \in Nat /\ free[r] \in Nat /\ reserved[c] \in Nat /\ foreign[c] \in Int
  BY <1>2 DEF TypeInv
<1>6. ASSUME NEW n \in DOMAIN teamAccounts, n # m
      PROVE  /\ free'[teamAccounts[n].custody] = free[teamAccounts[n].custody]
             /\ free'[teamAccounts[n].reserve] = free[teamAccounts[n].reserve]
  <2>1. teamAccounts[n].custody \in Holders /\ teamAccounts[n].reserve \in Holders
    BY AccountsOf
  <2>2. QED
    BY <1>4, <1>6, <2>1, AccountsApart
<1>7. TypeInv'
  BY PartialPayoutTyped
<1>8. EveryCustodyHasOneMember'
  BY <1>3, <1>4 DEF EveryCustodyHasOneMember
<1>9. CustodyBacked'
  <2>1. free'[c] + reserved[c] + free'[r]
           = teamAccounts[m].allocation - (teamAccounts[m].vested + (x + y)) + foreign[c]
    <3>1. free[c] + reserved[c] + free[r]
             = teamAccounts[m].allocation - teamAccounts[m].vested + foreign[c]
      BY DEF CustodyBacked
    <3>2. teamAccounts[m].allocation \in Nat /\ teamAccounts[m].vested \in Nat
      BY <1>2 DEF CustodyInfo
    <3>3. free'[c] = free[c] - x /\ free'[r] = free[r] - y
      BY <1>4
    <3> HIDE DEF CustodyInv, c, r
    <3>4. QED
      BY ONLY <1>5, <3>1, <3>2, <3>3, x \in Nat, y \in Nat
  <2>2. SUFFICES ASSUME NEW n \in DOMAIN teamAccounts
                 PROVE  (free[teamAccounts[n].custody] + reserved[teamAccounts[n].custody]
                           + free[teamAccounts[n].reserve]
                         = teamAccounts[n].allocation - teamAccounts[n].vested
                           + foreign[teamAccounts[n].custody])'
    BY <1>3 DEF CustodyBacked
  <2>3. CASE n = m
    BY <1>3, <1>4, <2>1, <2>3
  <2>4. CASE n # m
    BY <1>3, <1>4, <1>6, <2>4 DEF CustodyBacked
  <2>5. QED
    BY <2>3, <2>4
<1>10. KeptAlive'
  <2>1. free'[c] + reserved[c] >= ExistentialDeposit
    <3>1. /\ x <= Transferable(c) /\ Transferable(c) \in Nat
          /\ Transferable(c) > 0 =>
                free[c] + Reserved(c) - Transferable(c) >= ExistentialDeposit
      BY <1>1, <1>2, TransferableLeaves DEF Partly
    <3>2. Reserved(c) = reserved[c] /\ ExistentialDeposit \in Nat
      BY <1>2, CustodyAssumption DEF Reserved
    <3>3. free[c] + reserved[c] >= ExistentialDeposit
      BY DEF KeptAlive
    <3>4. QED
      BY <1>4, <1>5, <3>1, <3>2, <3>3
  <2>2. free'[r] >= ExistentialDeposit
    <3>1. /\ y <= Transferable(r) /\ Transferable(r) \in Nat
          /\ Transferable(r) > 0 =>
                free[r] + Reserved(r) - Transferable(r) >= ExistentialDeposit
      BY <1>1, <1>2, TransferableLeaves DEF Partly
    <3>2. Reserved(r) = 0 /\ ExistentialDeposit \in Nat
      BY AccountsOf, CustodyAssumption DEF Reserved
    <3>3. free[r] >= ExistentialDeposit
      BY DEF KeptAlive
    <3>4. QED
      BY <1>4, <1>5, <3>1, <3>2, <3>3
  <2>3. QED
    BY <1>3, <1>4, <1>6, <2>1, <2>2 DEF KeptAlive
<1>11. VestedOnSchedule'
  <2>1. /\ x + y <= AmountDue(teamAccounts[m])
        /\ DueBy(now, teamAccounts[m].allocation) \in Nat
    BY <1>1, <1>2, DueTyped DEF Partly, CustodyInfo, TypeInv
  <2>2. teamAccounts[m].vested + (x + y) <= DueBy(now, teamAccounts[m].allocation)
    BY <1>2, <2>1 DEF AmountDue, CustodyInfo
  <2>3. QED
    BY <1>3, <1>4, <2>2 DEF VestedOnSchedule, CustodyDone, DueBy, PayoutStep
<1>12. QED
  BY <1>7, <1>8, <1>9, <1>10, <1>11

LEMMA FinalPayoutKeeps ==
    ASSUME CustodyInv, NEW m \in DOMAIN teamAccounts, FinalPayout(m)
    PROVE  CustodyInv'
<1> USE DEF CustodyInv
<1> DEFINE c == teamAccounts[m].custody
           r == teamAccounts[m].reserve
<1>1. PICK x \in Nat : Finally(m, x)
  BY FinalPayoutTakes
<1>2. c \in CustodyAccounts /\ c \in Holders /\ r \in Holders /\ c # r
  BY AccountsOf
<1>3. /\ DOMAIN teamAccounts' = DOMAIN teamAccounts \ {m}
      /\ \A n \in DOMAIN teamAccounts \ {m} : teamAccounts'[n] = teamAccounts[n]
  <2>1. teamAccounts' = Remove(teamAccounts, m)
    BY <1>1 DEF Finally
  <2>2. QED
    BY ONLY <2>1 DEF Remove
<1>4. /\ \A h \in Holders : h # c /\ h # r => free'[h] = free[h]
      /\ \A d \in CustodyAccounts : d # c => reserved'[d] = reserved[d]
      /\ custodyAccounts' = custodyAccounts \ {c}
      /\ UNCHANGED <<foreign, now>>
  BY <1>1, <1>2 DEF Finally, TypeInv
<1>5. ASSUME NEW n \in DOMAIN teamAccounts', n # m
      PROVE  /\ n \in DOMAIN teamAccounts
             /\ teamAccounts'[n] = teamAccounts[n]
             /\ teamAccounts[n].custody # c
             /\ free'[teamAccounts[n].custody] = free[teamAccounts[n].custody]
             /\ free'[teamAccounts[n].reserve] = free[teamAccounts[n].reserve]
             /\ reserved'[teamAccounts[n].custody] = reserved[teamAccounts[n].custody]
  <2>1. n \in DOMAIN teamAccounts /\ n # m
    BY <1>3, <1>5
  <2>2. /\ teamAccounts[n].custody \in CustodyAccounts
        /\ teamAccounts[n].custody \in Holders
        /\ teamAccounts[n].reserve \in Holders
    BY <2>1, AccountsOf
  <2>3. /\ teamAccounts[n].custody # c /\ teamAccounts[n].custody # r
        /\ teamAccounts[n].reserve # c /\ teamAccounts[n].reserve # r
    BY <2>1, AccountsApart
  <2>4. QED
    BY <1>3, <1>4, <2>1, <2>2, <2>3
<1>6. TypeInv'
  BY FinalPayoutTyped
<1>7. EveryCustodyHasOneMember'
  <2>1. \A n, o \in DOMAIN teamAccounts' : n # o =>
           /\ teamAccounts'[n].custody # teamAccounts'[o].custody
           /\ teamAccounts'[n].reserve # teamAccounts'[o].reserve
    BY <1>3 DEF EveryCustodyHasOneMember
  <2>2. custodyAccounts = {teamAccounts[n].custody : n \in DOMAIN teamAccounts}
    BY DEF EveryCustodyHasOneMember
  <2>3. \A n \in DOMAIN teamAccounts \ {m} : teamAccounts[n].custody # c
    BY DEF EveryCustodyHasOneMember
  <2>4. custodyAccounts' = {teamAccounts'[n].custody : n \in DOMAIN teamAccounts'}
    BY <1>3, <1>4, <2>2, <2>3
  <2>5. QED
    BY <2>1, <2>4 DEF EveryCustodyHasOneMember
<1>8. CustodyBacked'
  <2>1. SUFFICES ASSUME NEW n \in DOMAIN teamAccounts'
                 PROVE  (free[teamAccounts[n].custody] + reserved[teamAccounts[n].custody]
                           + free[teamAccounts[n].reserve]
                         = teamAccounts[n].allocation - teamAccounts[n].vested
                           + foreign[teamAccounts[n].custody])'
    BY DEF CustodyBacked
  <2>2. n # m
    BY <1>3
  <2>3. QED
    BY <1>4, <1>5, <2>2 DEF CustodyBacked
<1>9. KeptAlive'
  BY <1>3, <1>5 DEF KeptAlive
<1>10. VestedOnSchedule'
  BY <1>4 DEF VestedOnSchedule, CustodyDone, FinalPayout
<1>11. QED
  BY <1>6, <1>7, <1>8, <1>9, <1>10

LEMMA SetGovernanceProxyKeeps ==
    ASSUME CustodyInv, NEW c \in CustodyAccounts, NEW delegate,
           SetGovernanceProxy(c, delegate)
    PROVE  CustodyInv'
<1> USE DEF CustodyInv
<1>1. /\ TypeInv'
      /\ free' = [free EXCEPT ![c] = @ + reserved[c] - ProxyDeposit]
      /\ reserved' = [reserved EXCEPT ![c] = ProxyDeposit]
      /\ UNCHANGED <<teamAccounts, custodyAccounts, ledger, voting, foreign, now>>
  BY SetGovernanceProxyTyped
<1>2. c \in Holders /\ ProxyDeposit \in Nat /\ free[c] \in Nat /\ reserved[c] \in Nat
  BY CustodyAssumption DEF Holders, TypeInv
<1>3. free'[c] = free[c] + reserved[c] - ProxyDeposit /\ reserved'[c] = ProxyDeposit
  BY <1>1, <1>2 DEF TypeInv
<1>4. free'[c] + reserved'[c] = free[c] + reserved[c]
  BY <1>2, <1>3
<1>5. /\ \A h \in Holders : h # c => free'[h] = free[h]
      /\ \A d \in CustodyAccounts : d # c => reserved'[d] = reserved[d]
  BY <1>1, <1>2 DEF TypeInv
<1>6. ASSUME NEW n \in DOMAIN teamAccounts
      PROVE  /\ free'[teamAccounts[n].custody] + reserved'[teamAccounts[n].custody]
                  = free[teamAccounts[n].custody] + reserved[teamAccounts[n].custody]
             /\ free'[teamAccounts[n].reserve] = free[teamAccounts[n].reserve]
  <2>1. /\ teamAccounts[n].custody \in CustodyAccounts
        /\ teamAccounts[n].custody \in Holders
        /\ teamAccounts[n].reserve \in Holders
        /\ teamAccounts[n].reserve \in ReserveAccounts
    BY AccountsOf
  <2>2. teamAccounts[n].reserve # c
    BY <2>1, CustodyAssumption
  <2>3. QED
    BY <1>4, <1>5, <2>1, <2>2
<1>7. EveryCustodyHasOneMember'
  BY <1>1 DEF EveryCustodyHasOneMember
<1>8. CustodyBacked'
  <2>1. SUFFICES ASSUME NEW n \in DOMAIN teamAccounts
                 PROVE  (free[teamAccounts[n].custody] + reserved[teamAccounts[n].custody]
                           + free[teamAccounts[n].reserve]
                         = teamAccounts[n].allocation - teamAccounts[n].vested
                           + foreign[teamAccounts[n].custody])'
    BY <1>1 DEF CustodyBacked
  <2>2. QED
    BY <1>1, <1>6 DEF CustodyBacked
<1>9. KeptAlive'
  BY <1>1, <1>6 DEF KeptAlive
<1>10. VestedOnSchedule'
  BY <1>1 DEF VestedOnSchedule, CustodyDone
<1>11. QED
  BY <1>1, <1>7, <1>8, <1>9, <1>10

LEMMA ReplaceKeeps ==
    ASSUME CustodyInv, NEW m, NEW new \in Members, ReplaceTeamMember(m, new)
    PROVE  CustodyInv'
<1> USE DEF CustodyInv
<1>1. /\ TypeInv'
      /\ m \in DOMAIN teamAccounts /\ new \notin DOMAIN teamAccounts
      /\ DOMAIN teamAccounts' = (DOMAIN teamAccounts \ {m}) \cup {new}
      /\ teamAccounts'[new] = teamAccounts[m]
      /\ \A n \in DOMAIN teamAccounts \ {m} : teamAccounts'[n] = teamAccounts[n]
      /\ UNCHANGED <<custodyAccounts, free, reserved, ledger, voting, foreign, now>>
  BY ReplaceMoves
<1>2. ASSUME NEW n \in DOMAIN teamAccounts'
      PROVE  \E o \in DOMAIN teamAccounts : teamAccounts'[n] = teamAccounts[o]
  BY <1>1
<1>3. EveryCustodyHasOneMember'
  <2>1. \A n, o \in DOMAIN teamAccounts' : n # o =>
           /\ teamAccounts'[n].custody # teamAccounts'[o].custody
           /\ teamAccounts'[n].reserve # teamAccounts'[o].reserve
    BY <1>1 DEF EveryCustodyHasOneMember
  <2>2. custodyAccounts = {teamAccounts[n].custody : n \in DOMAIN teamAccounts}
    BY DEF EveryCustodyHasOneMember
  <2>3. custodyAccounts' = {teamAccounts'[n].custody : n \in DOMAIN teamAccounts'}
    BY <1>1, <2>2
  <2>4. QED
    BY <2>1, <2>3 DEF EveryCustodyHasOneMember
<1>4. CustodyBacked'
  BY <1>1, <1>2 DEF CustodyBacked
<1>5. KeptAlive'
  BY <1>1, <1>2 DEF KeptAlive
<1>6. VestedOnSchedule'
  BY <1>1, <1>2 DEF VestedOnSchedule, CustodyDone
<1>7. QED
  BY <1>1, <1>3, <1>4, <1>5, <1>6

LEMMA ForeignKeeps ==
    ASSUME CustodyInv, NEW m, NEW h, NEW gift \in Nat, Foreign(m, h, gift)
    PROVE  CustodyInv'
<1> USE DEF CustodyInv
<1> DEFINE c == teamAccounts[m].custody
           r == teamAccounts[m].reserve
<1>1. /\ TypeInv'
      /\ m \in DOMAIN teamAccounts /\ h \in {c, r}
      /\ free' = [free EXCEPT ![h] = @ + gift]
      /\ foreign' = [foreign EXCEPT ![c] = @ + gift]
      /\ UNCHANGED <<teamAccounts, custodyAccounts, reserved, ledger, voting, now>>
  BY ForeignChanges
<1>2. /\ teamAccounts[m] \in CustodyInfo /\ c \in CustodyAccounts
      /\ c \in Holders /\ r \in Holders /\ c # r
  BY <1>1, AccountsOf
<1>3. /\ free[c] \in Nat /\ free[r] \in Nat /\ reserved[c] \in Nat /\ foreign[c] \in Int
      /\ teamAccounts[m].allocation \in Nat /\ teamAccounts[m].vested \in Nat
      /\ ExistentialDeposit \in Nat
  BY <1>2, CustodyAssumption DEF TypeInv, CustodyInfo
<1>4. /\ free'[h] = free[h] + gift
      /\ \A g \in Holders : g # h => free'[g] = free[g]
      /\ foreign'[c] = foreign[c] + gift
      /\ \A d \in CustodyAccounts : d # c => foreign'[d] = foreign[d]
  BY <1>1, <1>2 DEF TypeInv
<1>5. ASSUME NEW n \in DOMAIN teamAccounts, n # m
      PROVE  /\ free'[teamAccounts[n].custody] = free[teamAccounts[n].custody]
             /\ free'[teamAccounts[n].reserve] = free[teamAccounts[n].reserve]
             /\ foreign'[teamAccounts[n].custody] = foreign[teamAccounts[n].custody]
  <2>1. /\ teamAccounts[n].custody \in CustodyAccounts
        /\ teamAccounts[n].custody \in Holders /\ teamAccounts[n].reserve \in Holders
    BY AccountsOf
  <2>2. QED
    BY <1>1, <1>4, <1>5, <2>1, AccountsApart
<1>6. EveryCustodyHasOneMember'
  BY <1>1 DEF EveryCustodyHasOneMember
<1>7. CustodyBacked'
  <2>1. free'[c] + free'[r] = free[c] + free[r] + gift
    BY <1>1, <1>2, <1>3, <1>4
  <2>2. free[c] + reserved[c] + free[r]
           = teamAccounts[m].allocation - teamAccounts[m].vested + foreign[c]
    BY <1>1 DEF CustodyBacked
  <2>3. free'[c] \in Nat /\ free'[r] \in Nat
    BY <1>1, <1>2 DEF TypeInv
  <2>4. free'[c] + reserved[c] + free'[r]
           = teamAccounts[m].allocation - teamAccounts[m].vested + foreign'[c]
    <3>1. foreign'[c] = foreign[c] + gift
      BY <1>4
    <3>2. QED
      BY <1>3, <2>1, <2>2, <2>3, <3>1
  <2>5. SUFFICES ASSUME NEW n \in DOMAIN teamAccounts
                 PROVE  (free[teamAccounts[n].custody] + reserved[teamAccounts[n].custody]
                           + free[teamAccounts[n].reserve]
                         = teamAccounts[n].allocation - teamAccounts[n].vested
                           + foreign[teamAccounts[n].custody])'
    BY <1>1 DEF CustodyBacked
  <2>6. CASE n = m
    BY <1>1, <2>4, <2>6
  <2>7. CASE n # m
    BY <1>1, <1>5, <2>7 DEF CustodyBacked
  <2>8. QED
    BY <2>6, <2>7
<1>8. KeptAlive'
  <2>1. free'[c] + reserved[c] >= ExistentialDeposit /\ free'[r] >= ExistentialDeposit
    BY <1>1, <1>2, <1>3, <1>4 DEF KeptAlive
  <2>2. QED
    BY <1>1, <1>5, <2>1 DEF KeptAlive
<1>9. VestedOnSchedule'
  BY <1>1 DEF VestedOnSchedule, CustodyDone
<1>10. QED
  BY <1>1, <1>6, <1>7, <1>8, <1>9

LEMMA SlashKeeps ==
    ASSUME CustodyInv, NEW c \in CustodyAccounts, NEW amount \in Nat, Slash(c, amount)
    PROVE  CustodyInv'
<1> USE DEF CustodyInv
<1>1. TypeInv'
  BY SlashTakes
<1>2. PICK x \in Nat, y \in Nat : LostToSlash(c, x, y)
  BY SlashTakes
<1>3. /\ c \in Holders /\ free[c] \in Nat /\ reserved[c] \in Nat /\ foreign[c] \in Int
      /\ ExistentialDeposit \in Nat
  BY CustodyAssumption DEF Holders, TypeInv
<1>4. /\ free'[c] = free[c] - x /\ reserved'[c] = reserved[c] - y
      /\ foreign'[c] = foreign[c] - (x + y)
      /\ \A g \in Holders : g # c => free'[g] = free[g]
      /\ \A d \in CustodyAccounts : d # c => reserved'[d] = reserved[d]
                                         /\ foreign'[d] = foreign[d]
      /\ UNCHANGED <<teamAccounts, custodyAccounts, now>>
  BY <1>2, <1>3 DEF LostToSlash, TypeInv
<1>5. ASSUME NEW n \in DOMAIN teamAccounts
      PROVE  LET d == teamAccounts[n].custody
             IN  /\ d \in CustodyAccounts /\ d \in Holders
                 /\ free'[teamAccounts[n].reserve] = free[teamAccounts[n].reserve]
                 /\ d # c => free'[d] = free[d] /\ reserved'[d] = reserved[d]
                             /\ foreign'[d] = foreign[d]
  <2>1. /\ teamAccounts[n].custody \in CustodyAccounts
        /\ teamAccounts[n].custody \in Holders /\ teamAccounts[n].reserve \in Holders
        /\ teamAccounts[n].reserve \in ReserveAccounts
    BY AccountsOf
  <2>2. teamAccounts[n].reserve # c
    BY <2>1, CustodyAssumption
  <2>3. QED
    BY <1>4, <2>1, <2>2
<1>6. EveryCustodyHasOneMember'
  BY <1>4 DEF EveryCustodyHasOneMember
<1>7. CustodyBacked'
  <2>1. SUFFICES ASSUME NEW n \in DOMAIN teamAccounts
                 PROVE  (free[teamAccounts[n].custody] + reserved[teamAccounts[n].custody]
                           + free[teamAccounts[n].reserve]
                         = teamAccounts[n].allocation - teamAccounts[n].vested
                           + foreign[teamAccounts[n].custody])'
    BY <1>4 DEF CustodyBacked
  <2> DEFINE r == teamAccounts[n].reserve
             left == teamAccounts[n].allocation - teamAccounts[n].vested
  <2>2. free[teamAccounts[n].custody] + reserved[teamAccounts[n].custody] + free[r]
           = left + foreign[teamAccounts[n].custody]
    BY DEF CustodyBacked
  <2>3. CASE teamAccounts[n].custody = c
    <3>1. free[c] + reserved[c] + free[r] = left + foreign[c]
      BY <2>2, <2>3
    <3>2. left \in Int /\ free[r] \in Nat /\ free'[r] = free[r]
      BY <1>5, AccountsOf DEF TypeInv, CustodyInfo
    <3> HIDE DEF left, r
    <3>3. (free[c] - x) + (reserved[c] - y) + free[r] = left + (foreign[c] - (x + y))
      BY <1>2, <1>3, <3>1, <3>2
    <3>4. free'[c] + reserved'[c] + free'[r] = left + foreign'[c]
      BY <1>4, <3>2, <3>3
    <3>5. QED
      BY <1>4, <2>3, <3>4 DEF left, r
  <2>4. CASE teamAccounts[n].custody # c
    BY <1>4, <1>5, <2>2, <2>4
  <2>5. QED
    BY <2>3, <2>4
<1>8. KeptAlive'
  <2>1. SUFFICES ASSUME NEW n \in DOMAIN teamAccounts
                 PROVE  /\ free'[teamAccounts[n].custody] + reserved'[teamAccounts[n].custody]
                               >= ExistentialDeposit
                        /\ free'[teamAccounts[n].reserve] >= ExistentialDeposit
    BY <1>4 DEF KeptAlive
  <2>2. /\ free[teamAccounts[n].custody] + reserved[teamAccounts[n].custody]
               >= ExistentialDeposit
        /\ free[teamAccounts[n].reserve] >= ExistentialDeposit
    BY DEF KeptAlive
  <2>3. ASSUME teamAccounts[n].custody = c
        PROVE  free'[c] + reserved'[c] >= ExistentialDeposit
    <3>1. free[c] + reserved[c] >= ExistentialDeposit
      BY <2>2, <2>3
    <3>2. x + y > 0 => free[c] + reserved[c] - (x + y) >= ExistentialDeposit
      BY <1>2 DEF LostToSlash
    <3>3. QED
      BY <1>3, <1>4, <3>1, <3>2
  <2>4. QED
    BY <1>5, <2>2, <2>3
<1>9. VestedOnSchedule'
  BY <1>4 DEF VestedOnSchedule, CustodyDone
<1>10. QED
  BY <1>1, <1>4, <1>6, <1>7, <1>8, <1>9

LEMMA NextBlockKeeps ==
    ASSUME CustodyInv, NextBlock
    PROVE  CustodyInv'
<1> USE DEF CustodyInv
<1>1. /\ now \in Nat /\ now' = now + 1
      /\ UNCHANGED <<teamAccounts, custodyAccounts, free, reserved, ledger, voting, foreign>>
  BY DEF NextBlock, teamVars, coinVars, TypeInv
<1>2. TypeInv'
  BY <1>1 DEF TypeInv
<1>3. EveryCustodyHasOneMember' /\ CustodyBacked' /\ KeptAlive'
  BY <1>1 DEF EveryCustodyHasOneMember, CustodyBacked, KeptAlive
<1>4. VestedOnSchedule'
  <2>1. SUFFICES ASSUME NEW m \in DOMAIN teamAccounts, ~CustodyDone'
                 PROVE  teamAccounts[m].vested <= DueBy(now + 1, teamAccounts[m].allocation)
    BY <1>1 DEF VestedOnSchedule
  <2>2. ~CustodyDone
    BY <1>1, <2>1, CustodyAssumption DEF CustodyDone
  <2>3. teamAccounts[m].vested \in Nat /\ teamAccounts[m].allocation \in Nat
    BY AccountsOf DEF CustodyInfo
  <2>4. /\ DueBy(now, teamAccounts[m].allocation) \in Nat
        /\ DueBy(now + 1, teamAccounts[m].allocation) \in Nat
        /\ DueBy(now, teamAccounts[m].allocation) <= DueBy(now + 1, teamAccounts[m].allocation)
    <3>1. now \in Nat /\ now + 1 \in Nat
      BY <1>1
    <3>2. \A n \in Nat : DueBy(n, teamAccounts[m].allocation) \in Nat
      BY <2>3, DueTyped
    <3>3. DueBy(now, teamAccounts[m].allocation) <= DueBy(now + 1, teamAccounts[m].allocation)
      BY <2>3, <3>1, DueGrows
    <3>4. QED
      BY <3>1, <3>2, <3>3
  <2>5. QED
    BY <2>2, <2>3, <2>4 DEF VestedOnSchedule
<1>5. QED
  BY <1>2, <1>3, <1>4

\* At genesis the accounts hold the allocations.
LEMMA CustodyInitInv ==
    ASSUME CustodyInit
    PROVE  CustodyInv
<1> USE CustodyAssumption
<1>1. ASSUME NEW m \in Founders
      PROVE  FounderOf(Custody[m]) = m /\ FounderOf(Reserve[m]) = m
  <2>1. Custody[m] \in CustodyAccounts /\ Reserve[m] \in ReserveAccounts
    BY DEF CustodyAccounts, ReserveAccounts
  <2>2. \A n \in Founders : Custody[m] \in {Custody[n], Reserve[n]} => n = m
    <3>1. \A n \in Founders : Custody[m] # Reserve[n]
      BY <2>1 DEF ReserveAccounts
    <3>2. QED
      BY <3>1 DEF IsInjective
  <2>3. \A n \in Founders : Reserve[m] \in {Custody[n], Reserve[n]} => n = m
    <3>1. \A n \in Founders : Reserve[m] # Custody[n]
      BY <2>1 DEF CustodyAccounts
    <3>2. QED
      BY <3>1 DEF IsInjective
  <2>4. QED
    BY <2>2, <2>3 DEF FounderOf
<1>2. ASSUME NEW m \in Founders
      PROVE  /\ Custody[m] \in CustodyAccounts /\ Reserve[m] \in ReserveAccounts
             /\ Custody[m] \in Holders /\ Reserve[m] \in Holders
             /\ free[Custody[m]] = Allocation[m] - ReserveShare(Allocation[m])
             /\ free[Reserve[m]] = ReserveShare(Allocation[m])
             /\ reserved[Custody[m]] = 0 /\ foreign[Custody[m]] = 0
  <2>1. /\ Custody[m] \in CustodyAccounts /\ Reserve[m] \in ReserveAccounts
        /\ Custody[m] \in Holders /\ Reserve[m] \in Holders
    BY DEF CustodyAccounts, ReserveAccounts, Holders
  <2>2. Custody[m] # Reserve[m]
    BY <2>1
  <2>3. free[Custody[m]] = OpeningBalance(Custody[m], m)
        /\ free[Reserve[m]] = OpeningBalance(Reserve[m], m)
    BY <1>1, <2>1 DEF CustodyInit
  <2>4. reserved[Custody[m]] = 0 /\ foreign[Custody[m]] = 0
    BY <2>1 DEF CustodyInit
  <2>5. QED
    BY <2>1, <2>2, <2>3, <2>4 DEF OpeningBalance
<1>3. ASSUME NEW m \in Founders
      PROVE  /\ Allocation[m] \in Nat
             /\ ReserveShare(Allocation[m]) \in Nat
             /\ Allocation[m] - ReserveShare(Allocation[m]) \in Nat
  OBVIOUS
<1>4. /\ DOMAIN teamAccounts = Founders
      /\ \A m \in Founders :
            /\ teamAccounts[m].allocation = Allocation[m]
            /\ teamAccounts[m].vested = 0
            /\ teamAccounts[m].custody = Custody[m]
            /\ teamAccounts[m].reserve = Reserve[m]
            /\ teamAccounts[m] \in CustodyInfo
  BY <1>2, <1>3 DEF CustodyInit, CustodyInfo
<1>5. TypeInv
  <2>1. IsMap(teamAccounts, Members, CustodyInfo)
    BY <1>4 DEF IsMap, CustodyInit
  <2>2. free \in [Holders -> Nat]
    <3>1. SUFFICES ASSUME NEW h \in Holders PROVE free[h] \in Nat
      BY DEF CustodyInit
    <3>2. PICK m \in Founders : h = Custody[m] \/ h = Reserve[m]
      BY DEF Holders, CustodyAccounts, ReserveAccounts
    <3>3. QED
      BY <1>2, <1>3, <3>2
  <2>3. IsMap(ledger, CustodyAccounts, Ledger)
    BY DEF CustodyInit, IsMap, EmptyMap
  <2>4. QED
    BY <2>1, <2>2, <2>3 DEF TypeInv, CustodyInit
<1>6. EveryCustodyHasOneMember
  <2>1. CustodyAccounts = {teamAccounts[m].custody : m \in DOMAIN teamAccounts}
    BY <1>4 DEF CustodyAccounts
  <2>2. \A m, n \in DOMAIN teamAccounts : m # n =>
           /\ teamAccounts[m].custody # teamAccounts[n].custody
           /\ teamAccounts[m].reserve # teamAccounts[n].reserve
    BY <1>4 DEF IsInjective
  <2>3. QED
    BY <2>1, <2>2 DEF EveryCustodyHasOneMember, CustodyInit
<1>7. CustodyBacked
  BY <1>2, <1>3, <1>4 DEF CustodyBacked
<1>8. KeptAlive
  BY <1>2, <1>3, <1>4 DEF KeptAlive
<1>9. VestedOnSchedule
  <2>1. \A m \in Founders : DueBy(now, Allocation[m]) \in Nat
    BY <1>3, DueTyped DEF CustodyInit
  <2>2. QED
    BY <1>4, <2>1 DEF VestedOnSchedule
<1>10. QED
  BY <1>5, <1>6, <1>7, <1>8, <1>9 DEF CustodyInv

LEMMA CustodyStepInv ==
    ASSUME CustodyInv, CustodyNext
    PROVE  CustodyInv'
<1>1. TypeInv
  BY DEF CustodyInv
<1>2. ASSUME NEW m \in Members, Payout(m) PROVE CustodyInv'
  BY <1>2, PartialPayoutKeeps, FinalPayoutKeeps DEF Payout
<1>3. ASSUME NEW c \in CustodyAccounts, NEW controller \in Controllers,
             NEW amount \in Stakes, CustodyBond(c, controller, amount)
      PROVE  CustodyInv'
  BY <1>1, <1>3, BondTyped, AccountsUntouched DEF CustodyBond, teamVars
<1>4. ASSUME NEW c \in CustodyAccounts, NEW amount \in Stakes, CustodyBondExtra(c, amount)
      PROVE  CustodyInv'
  <2>1. ledger' = [ledger EXCEPT ![c].total = Min2(@ + amount, free[c])]
        /\ c \in DOMAIN ledger
        /\ UNCHANGED <<teamAccounts, custodyAccounts, free, reserved, voting, foreign, now>>
    BY <1>4 DEF CustodyBondExtra, teamVars
  <2>2. amount \in Nat /\ free[c] \in Nat /\ ledger[c] \in Ledger
    BY <1>1, <2>1, CustodyAssumption DEF TypeInv, Holders, IsMap
  <2>3. IsMap(ledger', CustodyAccounts, Ledger)
    BY <1>1, <2>1, <2>2 DEF TypeInv, IsMap, Ledger, Min2
  <2>4. TypeInv'
    BY <1>1, <2>1, <2>3 DEF TypeInv
  <2>5. QED
    BY <2>1, <2>4, AccountsUntouched
<1>5. ASSUME NEW c \in CustodyAccounts, NEW controller \in Controllers,
             CustodySetController(c, controller)
      PROVE  CustodyInv'
  <2>1. ledger' = [ledger EXCEPT ![c].controller = controller]
        /\ c \in DOMAIN ledger
        /\ UNCHANGED <<teamAccounts, custodyAccounts, free, reserved, voting, foreign, now>>
    BY <1>5 DEF CustodySetController, teamVars
  <2>2. IsMap(ledger', CustodyAccounts, Ledger)
    BY <1>1, <2>1 DEF TypeInv, IsMap, Ledger
  <2>3. TypeInv'
    BY <1>1, <2>1, <2>2 DEF TypeInv
  <2>4. QED
    BY <2>1, <2>3, AccountsUntouched
<1>6. ASSUME NEW c \in CustodyAccounts, NEW delegate \in Delegates,
             CustodySetProxy(c, delegate)
      PROVE  CustodyInv'
  BY <1>6, SetGovernanceProxyKeeps DEF CustodySetProxy
<1>7. ASSUME NEW m \in Members, NEW delegate \in Delegates,
             TeamCustodySetProxy(m, delegate)
      PROVE  CustodyInv'
  <2>1. m \in DOMAIN teamAccounts /\ SetGovernanceProxy(teamAccounts[m].custody, delegate)
    BY <1>7 DEF TeamCustodySetProxy
  <2>2. teamAccounts[m].custody \in CustodyAccounts
    BY <1>1, <2>1, AccountsOf
  <2>3. QED
    BY <2>1, <2>2, SetGovernanceProxyKeeps
<1>8. ASSUME NEW m \in Members, NEW new \in Members, ReplaceTeamMember(m, new)
      PROVE  CustodyInv'
  BY <1>8, ReplaceKeeps
<1>9. ASSUME NEW a \in Custodians, SetCustodians(a) PROVE CustodyInv'
  <2>1. UNCHANGED <<teamAccounts, custodyAccounts, free, reserved, ledger, voting, foreign, now>>
    BY <1>9 DEF SetCustodians, teamVars, coinVars
  <2>2. TypeInv'
    BY <1>1, <2>1 DEF TypeInv
  <2>3. QED
    BY <2>1, <2>2, AccountsUntouched
<1>10. ASSUME NEW c \in CustodyAccounts, NEW amount \in Stakes, Unbond(c, amount)
       PROVE  CustodyInv'
  <2>1. UNCHANGED <<teamAccounts, custodyAccounts, free, reserved, voting, foreign, now>>
    BY <1>10 DEF Unbond, teamVars
  <2>2. c \in DOMAIN ledger /\ amount \in Nat
    BY <1>10, CustodyAssumption DEF Unbond
  <2>3. ledger[c] \in Ledger
    BY <1>1, <2>2 DEF TypeInv, IsMap
  <2>4. IsMap(ledger', CustodyAccounts, Ledger)
    <3>1. CASE ledger[c].total <= amount
      BY <1>1, <1>10, <3>1, RemoveTyped DEF Unbond, TypeInv
    <3>2. CASE ~(ledger[c].total <= amount)
      BY <1>1, <1>10, <2>2, <2>3, <3>2 DEF Unbond, TypeInv, IsMap, Ledger
    <3>3. QED
      BY <3>1, <3>2
  <2>5. TypeInv'
    BY <1>1, <2>1, <2>4 DEF TypeInv
  <2>6. QED
    BY <2>1, <2>5, AccountsUntouched
<1>11. ASSUME NEW c \in CustodyAccounts, NEW amount \in Stakes, Vote(c, amount)
       PROVE  CustodyInv'
  <2>1. /\ voting' = [voting EXCEPT ![c] = Max2(@, amount)]
        /\ UNCHANGED <<teamAccounts, custodyAccounts, free, reserved, ledger, foreign, now>>
    BY <1>11 DEF Vote, teamVars
  <2>2. voting[c] \in Nat /\ amount \in Nat
    BY <1>1, CustodyAssumption DEF TypeInv
  <2>3. TypeInv'
    BY <1>1, <2>1, <2>2 DEF TypeInv, Max2
  <2>4. QED
    BY <2>1, <2>3, AccountsUntouched
<1>12. ASSUME NEW c \in CustodyAccounts, Unvote(c) PROVE CustodyInv'
  <2>1. /\ voting' = [voting EXCEPT ![c] = 0]
        /\ UNCHANGED <<teamAccounts, custodyAccounts, free, reserved, ledger, foreign, now>>
    BY <1>12 DEF Unvote, teamVars
  <2>2. TypeInv'
    BY <1>1, <2>1 DEF TypeInv
  <2>3. QED
    BY <2>1, <2>2, AccountsUntouched
<1>13. ASSUME NEW m \in Members, NEW h \in Holders, NEW gift \in Gifts, Foreign(m, h, gift)
       PROVE  CustodyInv'
  <2>1. gift \in Nat
    BY CustodyAssumption
  <2>2. QED
    BY <1>13, <2>1, ForeignKeeps
<1>14. ASSUME NEW c \in CustodyAccounts, NEW amount \in Slashes, Slash(c, amount)
       PROVE  CustodyInv'
  <2>1. amount \in Nat
    BY CustodyAssumption
  <2>2. QED
    BY <1>14, <2>1, SlashKeeps
<1>15. ASSUME ByOthers PROVE CustodyInv'
  BY <1>10, <1>11, <1>12, <1>13, <1>14, <1>15, NextBlockKeeps DEF ByOthers
<1>16. QED
  BY <1>2, <1>3, <1>4, <1>5, <1>6, <1>7, <1>8, <1>9, <1>15 DEF CustodyNext

LEMMA CustodyInvStep == CustodyInv /\ [CustodyNext]_custodyVars => CustodyInv'
<1>1. ASSUME CustodyInv, UNCHANGED custodyVars PROVE CustodyInv'
  <2>1. UNCHANGED <<teamAccounts, custodyAccounts, free, reserved, ledger, voting, foreign, now>>
    BY <1>1 DEF custodyVars, teamVars, coinVars
  <2>2. TypeInv'
    BY <1>1, <2>1 DEF CustodyInv, TypeInv
  <2>3. QED
    BY <1>1, <2>1, <2>2, AccountsUntouched
<1>2. QED
  BY <1>1, CustodyStepInv

LEMMA CustodyInvHolds == CustodySpec => []CustodyInv
<1>1. CustodyInit => CustodyInv
  BY CustodyInitInv
<1>2. QED
  BY <1>1, CustodyInvStep, PTL DEF CustodySpec

-----------------------------------------------------------------------------
(* Theorems. *)

\* However members are replaced and custodies end, each live custody account
\* is one member's and no two members share an account (update_team_member,
\* do_payout).
THEOREM OneMemberEach == CustodySpec => []EveryCustodyHasOneMember
<1>1. CustodyInv => EveryCustodyHasOneMember
  BY DEF CustodyInv
<1>2. QED
  BY <1>1, CustodyInvHolds, PTL

\* The accounts of every member hold the part of the allocation that is not
\* vested yet: coins and books agree after every payout (do_payout).
THEOREM AccountsBackCustody == CustodySpec => []CustodyBacked
<1>1. CustodyInv => CustodyBacked
  BY DEF CustodyInv
<1>2. QED
  BY <1>1, CustodyInvHolds, PTL

\* No payout, proxy deposit or replacement lets an account of a member fall
\* below the existential deposit before the last payout (do_payout).
THEOREM AccountsStayAlive == CustodySpec => []KeptAlive
<1>1. CustodyInv => KeptAlive
  BY DEF CustodyInv
<1>2. QED
  BY <1>1, CustodyInvHolds, PTL

\* What is vested never exceeds what is due, so the subtraction that computes
\* a payout does not underflow (try_payout).
THEOREM VestingNeverAhead == CustodySpec => []VestedOnSchedule
<1>1. CustodyInv => VestedOnSchedule
  BY DEF CustodyInv
<1>2. QED
  BY <1>1, CustodyInvHolds, PTL

\* What is left of a custody after its last payout.
EmptiedBy(m) ==
    LET info == teamAccounts[m]
    IN  m \notin DOMAIN teamAccounts' /\ info.custody \notin custodyAccounts' =>
            /\ info.custody \notin DOMAIN ledger' \cup DOMAIN proxies'
            /\ reserved'[info.custody] = 0
            /\ free'[info.reserve] = 0
            /\ voting[info.custody] = 0 => free'[info.custody] = 0

LEMMA FinalPayoutEmptiesIts ==
    ASSUME CustodyInv, NEW m \in DOMAIN teamAccounts, FinalPayout(m)
    PROVE  EmptiedBy(m)
<1> DEFINE c == teamAccounts[m].custody
           r == teamAccounts[m].reserve
<1>1. TypeInv
  BY DEF CustodyInv
<1>2. PICK x \in Nat : Finally(m, x)
  BY <1>1, FinalPayoutTakes
<1>3. c \in CustodyAccounts /\ c \in Holders /\ r \in Holders /\ c # r
  BY <1>1, AccountsOf
<1>4. c \notin DOMAIN ledger' \cup DOMAIN proxies'
  <2>1. ledger' = Remove(ledger, c) /\ proxies' = Remove(proxies, c)
    BY <1>2 DEF Finally
  <2>2. QED
    BY <2>1 DEF Remove
<1>5. reserved'[c] = 0 /\ free'[r] = 0 /\ free'[c] = free[c] + reserved[c] - x
  BY <1>1, <1>2, <1>3 DEF Finally, TypeInv
<1>6. ASSUME voting[c] = 0 PROVE free'[c] = 0
  <2>1. x = free[c] + reserved[c]
    BY <1>2, <1>6 DEF Finally
  <2>2. QED
    <3>1. free[c] \in Nat /\ reserved[c] \in Nat
      BY <1>1, <1>3 DEF TypeInv
    <3>2. QED
      BY <1>5, <2>1, <3>1
<1>7. QED
  BY <1>4, <1>5, <1>6 DEF EmptiedBy

\* Members only leave, and custodies only end, by a last payout or, when a
\* member is replaced, with the custody going on.
LEMMA OthersEmptyNothing ==
    ASSUME CustodyInv, NEW m \in DOMAIN teamAccounts, ~FinalPayout(m),
           [CustodyNext]_custodyVars
    PROVE  m \in DOMAIN teamAccounts' \/ teamAccounts[m].custody \in custodyAccounts'
<1>1. TypeInv
  BY DEF CustodyInv
<1>2. teamAccounts[m].custody \in custodyAccounts
  BY DEF CustodyInv, EveryCustodyHasOneMember
<1>3. ASSUME NEW n \in Members, Payout(n) PROVE m \in DOMAIN teamAccounts'
  <2>1. CASE PartialPayout(n)
    BY <2>1 DEF PartialPayout
  <2>2. CASE FinalPayout(n)
    <3>1. n # m
      BY <2>2
    <3>2. QED
      BY <2>2, <3>1 DEF FinalPayout, Remove
  <2>3. QED
    BY <1>3, <2>1, <2>2 DEF Payout
<1>4. ASSUME ~(\E n \in Members : Payout(n)) PROVE custodyAccounts' = custodyAccounts
  BY <1>4 DEF CustodyNext, ByOthers, custodyVars, teamVars, coinVars, CustodyBond,
     CustodyBondExtra, CustodySetController, CustodySetProxy, TeamCustodySetProxy,
     SetGovernanceProxy, ReplaceTeamMember, SetCustodians, Unbond, Vote, Unvote,
     Foreign, Slash, NextBlock
<1>5. QED
  BY <1>2, <1>3, <1>4

\* The last payout leaves no stake, no deposit, no proxy and, unless votes lock
\* them, no coins (try_payout).
THEOREM NothingLeftOnAccounts == CustodySpec => FinalPayoutEmpties
<1>1. ASSUME CustodyInv, [CustodyNext]_custodyVars
      PROVE  [\A m \in DOMAIN teamAccounts :
                LET info == teamAccounts[m]
                IN  m \notin DOMAIN teamAccounts' /\ info.custody \notin custodyAccounts' =>
                        /\ info.custody \notin DOMAIN ledger' \cup DOMAIN proxies'
                        /\ reserved'[info.custody] = 0
                        /\ free'[info.reserve] = 0
                        /\ voting[info.custody] = 0 => free'[info.custody] = 0
             ]_custodyVars
  <2>1. ASSUME NEW m \in DOMAIN teamAccounts PROVE EmptiedBy(m)
    <3>1. CASE FinalPayout(m)
      BY <1>1, <3>1, FinalPayoutEmptiesIts
    <3>2. CASE ~FinalPayout(m)
      BY <1>1, <3>2, OthersEmptyNothing DEF EmptiedBy
    <3>3. QED
      BY <3>1, <3>2
  <2>2. QED
    BY <2>1 DEF EmptiedBy
<1>2. QED
  BY <1>1, CustodyInvHolds, PTL DEF CustodySpec, FinalPayoutEmpties

-----------------------------------------------------------------------------
(***************************************************************************)
(* The books.  TotalCustody is written as a saturating subtraction, so it  *)
(* follows the members only if no payout takes more than it holds; and     *)
(* that is so because no member is ever vested more than is allocated.     *)
(***************************************************************************)
Left == [m \in DOMAIN teamAccounts |->
            teamAccounts[m].allocation - teamAccounts[m].vested]

WithinAllocation ==
    \A m \in DOMAIN teamAccounts :
        /\ teamAccounts[m].vested <= teamAccounts[m].allocation
        /\ \E f \in Founders : teamAccounts[m].allocation = Allocation[f]

BooksInv ==
    /\ CustodyInv
    /\ custodians \subseteq Custodians
    /\ IsMap(proxies, CustodyAccounts, Delegates)
    /\ totalCustody \in Nat
    /\ WithinAllocation
    /\ TotalMatches

LEMMA TotalIsLeft ==
    /\ TotalMatches <=> totalCustody = SumFunction(Left)
    /\ TotalMatches' <=> totalCustody' = SumFunction(Left')
BY DEF TotalMatches, Left

LEMMA LeftType ==
    ASSUME TypeInv, WithinAllocation
    PROVE  /\ DOMAIN Left = DOMAIN teamAccounts /\ IsFiniteSet(DOMAIN Left)
           /\ \A m \in DOMAIN Left : Left[m] \in Nat
<1>1. DOMAIN Left = DOMAIN teamAccounts
  BY DEF Left
<1>2. IsFiniteSet(DOMAIN Left)
  BY <1>1, FS_Subset, CustodyAssumption DEF TypeInv, IsMap
<1>3. ASSUME NEW m \in DOMAIN teamAccounts PROVE Left[m] \in Nat
  <2>1. /\ teamAccounts[m].allocation \in Nat /\ teamAccounts[m].vested \in Nat
        /\ teamAccounts[m].vested <= teamAccounts[m].allocation
    BY AccountsOf DEF CustodyInfo, WithinAllocation
  <2>2. QED
    BY <2>1 DEF Left
<1>4. QED
  BY <1>1, <1>2, <1>3

\* What is due while a custody lasts is at most what was allocated.
LEMMA DueWithinAllocation ==
    ASSUME NEW n \in Nat, n <= CustodyDuration, NEW f \in Founders
    PROVE  DueBy(n, Allocation[f]) <= Allocation[f]
<1> DEFINE p == n \div PayoutFrequency
           q == CustodyDuration \div PayoutFrequency
           s == PayoutStep(Allocation[f])
<1>1. PayoutFrequency \in Nat /\ PayoutFrequency > 0 /\ CustodyDuration \in Nat
      /\ Allocation[f] \in Nat
  BY CustodyAssumption
<1>2. s \in Nat
  BY <1>1, CustodyAssumption, ShareTyped DEF PayoutStep
<1>3. /\ p \in Nat /\ PayoutFrequency * p <= n
      /\ q \in Nat /\ CustodyDuration < PayoutFrequency * q + PayoutFrequency
  BY <1>1
<1>4. p <= q
  <2> HIDE DEF p, q
  <2>1. ASSUME p > q PROVE FALSE
    <3> DEFINE d == p - q - 1
    <3>1. d \in Nat /\ p = q + 1 + d
      BY <1>3, <2>1
    <3> HIDE DEF d
    <3>2. PayoutFrequency * p = PayoutFrequency * q + PayoutFrequency + PayoutFrequency * d
      BY <1>1, <1>3, <3>1
    <3>3. PayoutFrequency * d \in Nat
      BY <1>1, <3>1
    <3>4. QED
      BY <1>1, <1>3, <3>2, <3>3
  <2>2. QED
    BY <1>3, <2>1
<1>5. s * p <= s * q
  <2> HIDE DEF s, p, q
  <2> DEFINE d == q - p
  <2>1. d \in Nat /\ q = p + d
    BY <1>3, <1>4
  <2> HIDE DEF d
  <2>2. s * q = s * p + s * d /\ s * d \in Nat /\ s * p \in Nat
    BY <1>2, <1>3, <2>1
  <2>3. QED
    BY <2>2
<1>6. s * q <= Allocation[f]
  BY CustodyAssumption
<1>7. DueBy(n, Allocation[f]) = s * p
  BY DEF DueBy
<1>8. s * p \in Nat /\ s * q \in Nat
  BY <1>2, <1>3
<1>9. QED
  <2> HIDE DEF s, p, q
  <2>1. QED
    BY <1>1, <1>5, <1>6, <1>7, <1>8

LEMMA BooksInit == CustodyInit => BooksInv
<1> SUFFICES ASSUME CustodyInit PROVE BooksInv
  OBVIOUS
<1>1. CustodyInv
  BY CustodyInitInv
<1>2. custodians \subseteq Custodians /\ IsMap(proxies, CustodyAccounts, Delegates)
  BY DEF CustodyInit, IsMap, EmptyMap
<1>3. /\ DOMAIN teamAccounts = Founders
      /\ \A m \in Founders : teamAccounts[m].allocation = Allocation[m]
                             /\ teamAccounts[m].vested = 0
      /\ Allocation \in [Founders -> Nat] /\ IsFiniteSet(Founders)
  BY CustodyAssumption, FS_Subset DEF CustodyInit
<1>4. WithinAllocation
  BY <1>3 DEF WithinAllocation
<1>5. /\ DOMAIN Left = Founders /\ DOMAIN Allocation = Founders
      /\ \A m \in Founders : Left[m] = Allocation[m]
  BY <1>3 DEF Left
<1>6. SumFunction(Left) = SumFunction(Allocation) /\ SumFunction(Allocation) \in Nat
  BY <1>3, <1>5, TotalSame, TotalNat
<1>7. totalCustody \in Nat /\ TotalMatches
  BY <1>6, TotalIsLeft DEF CustodyInit
<1>8. QED
  BY <1>1, <1>2, <1>4, <1>7 DEF BooksInv

\* A payout while the custody lasts is deducted as it was recorded.
LEMMA PartialPayoutBooks ==
    ASSUME BooksInv, NEW m \in DOMAIN teamAccounts, PartialPayout(m)
    PROVE  WithinAllocation' /\ totalCustody' \in Nat /\ TotalMatches'
<1>0. CustodyInv /\ TypeInv /\ WithinAllocation
  BY DEF BooksInv, CustodyInv
<1> DEFINE info == teamAccounts[m]
           w == Min2(AmountDue(info), Transferable(info.custody)) + FromReserve(info)
<1>1. /\ w > 0 /\ teamAccounts' = [teamAccounts EXCEPT ![m].vested = @ + w]
      /\ totalCustody' = Monus(totalCustody, w) /\ ~CustodyDone
  BY DEF PartialPayout
<1>2. /\ info \in CustodyInfo /\ info.allocation \in Nat /\ info.vested \in Nat
      /\ now \in Nat
  BY <1>0, AccountsOf DEF CustodyInfo, TypeInv
<1>3. PICK f \in Founders : info.allocation = Allocation[f]
  BY <1>0 DEF WithinAllocation
<1>4. DueBy(now, info.allocation) \in Nat /\ DueBy(now, info.allocation) <= info.allocation
  <2>1. now <= CustodyDuration
    BY <1>1, <1>2, CustodyAssumption DEF CustodyDone
  <2>2. QED
    BY <1>2, <1>3, <2>1, DueTyped, DueWithinAllocation
<1>5. AmountDue(info) = DueBy(now, info.allocation) - info.vested
  BY DEF AmountDue
<1>6. w \in Nat /\ w <= AmountDue(info)
  <2>1. Transferable(info.custody) \in Nat /\ Transferable(info.reserve) \in Nat
    BY <1>0, AccountsOf, TransferableLeaves
  <2>2. FromReserve(info) = Min2(Monus(AmountDue(info), Transferable(info.custody)),
                                 Transferable(info.reserve))
    BY DEF FromReserve
  <2>3. AmountDue(info) \in Int
    BY <1>2, <1>4, <1>5
  <2> HIDE DEF info
  <2>4. QED
    BY <1>1, <2>1, <2>2, <2>3 DEF Min2, Monus
<1> HIDE DEF w
<1>7. info.vested + w <= info.allocation
  BY <1>2, <1>4, <1>5, <1>6
<1>8. /\ DOMAIN teamAccounts' = DOMAIN teamAccounts
      /\ teamAccounts'[m].vested = info.vested + w
      /\ teamAccounts'[m].allocation = info.allocation
      /\ \A n \in DOMAIN teamAccounts : n # m => teamAccounts'[n] = teamAccounts[n]
  BY <1>1, <1>2 DEF CustodyInfo
<1>9. WithinAllocation'
  BY <1>0, <1>3, <1>7, <1>8 DEF WithinAllocation
<1>10. /\ DOMAIN Left' = DOMAIN Left /\ m \in DOMAIN Left /\ IsFiniteSet(DOMAIN Left)
       /\ \A n \in DOMAIN Left : Left[n] \in Nat
  BY <1>0, <1>8, LeftType DEF Left
<1>11. /\ Left[m] = info.allocation - info.vested
       /\ Left'[m] = info.allocation - (info.vested + w)
       /\ \A n \in DOMAIN Left : n # m => Left'[n] = Left[n]
  BY <1>8 DEF Left
<1>12. \A n \in DOMAIN Left : Left[n] \in Int /\ Left'[n] \in Int
                              /\ (n # m => Left'[n] = Left[n])
  BY <1>2, <1>6, <1>10, <1>11
<1>13. SumFunction(Left') = SumFunction(Left) - Left[m] + Left'[m]
  BY <1>10, <1>12, TotalChanged
<1>14. Left[m] <= SumFunction(Left) /\ SumFunction(Left) \in Nat
  BY <1>10, TotalMember, TotalNat
<1>15. totalCustody = SumFunction(Left)
  BY TotalIsLeft DEF BooksInv
<1>16. totalCustody' = SumFunction(Left') /\ totalCustody' \in Nat
  BY <1>1, <1>2, <1>6, <1>7, <1>11, <1>13, <1>14, <1>15 DEF Monus
<1>17. QED
  BY <1>9, <1>16, TotalIsLeft

\* The last payout is deducted as what was left of the allocation, whatever
\* it came to.
LEMMA FinalDeductionIsLeft ==
    ASSUME NEW info \in CustodyInfo, info.vested <= info.allocation, NEW w \in Nat
    PROVE  FinalDeduction(info, w) = info.allocation - info.vested
BY DEF FinalDeduction, CustodyInfo, Monus

LEMMA FinalPayoutBooks ==
    ASSUME BooksInv, NEW m \in DOMAIN teamAccounts, FinalPayout(m)
    PROVE  WithinAllocation' /\ totalCustody' \in Nat /\ TotalMatches'
<1>0. CustodyInv /\ TypeInv /\ WithinAllocation
  BY DEF BooksInv, CustodyInv
<1> DEFINE info == teamAccounts[m]
           c == info.custody
           held == free[c] + reserved[c] - reserved'[c]
           w == Monus(held, KeptByVotes(c)) + free[info.reserve]
<1>1. /\ totalCustody' = Monus(totalCustody, FinalDeduction(info, w))
      /\ teamAccounts' = Remove(teamAccounts, m)
      /\ reserved' = [reserved EXCEPT ![c] = 0]
  BY DEF FinalPayout, RemoveCustodyProxies
<1>2. /\ info \in CustodyInfo /\ c \in CustodyAccounts /\ c \in Holders
      /\ info.reserve \in Holders
  BY <1>0, AccountsOf
<1>3. w \in Nat
  <2>1. /\ free[c] \in Nat /\ reserved[c] \in Nat /\ voting[c] \in Nat
        /\ free[info.reserve] \in Nat /\ reserved'[c] = 0
    BY <1>0, <1>1, <1>2 DEF TypeInv
  <2>2. KeptByVotes(c) \in Nat
    BY <2>1, CustodyAssumption DEF KeptByVotes, Max2
  <2>3. held \in Nat
    BY <2>1
  <2> HIDE DEF held
  <2>4. QED
    BY <2>1, <2>2, <2>3 DEF Monus
<1> HIDE DEF w
<1>4. info.vested <= info.allocation /\ info.allocation \in Nat /\ info.vested \in Nat
  BY <1>0, <1>2 DEF WithinAllocation, CustodyInfo
<1>5. FinalDeduction(info, w) = info.allocation - info.vested
  BY <1>2, <1>3, <1>4, FinalDeductionIsLeft
<1>6. /\ DOMAIN teamAccounts' = DOMAIN teamAccounts \ {m}
      /\ \A n \in DOMAIN teamAccounts' : teamAccounts'[n] = teamAccounts[n]
  BY <1>1 DEF Remove
<1>7. WithinAllocation'
  BY <1>0, <1>6 DEF WithinAllocation
<1>8. /\ DOMAIN Left = DOMAIN teamAccounts /\ IsFiniteSet(DOMAIN Left)
      /\ \A n \in DOMAIN Left : Left[n] \in Nat
  BY <1>0, LeftType
<1>9. /\ DOMAIN Left' = DOMAIN Left \ {m} /\ m \in DOMAIN Left
      /\ Left[m] = info.allocation - info.vested
      /\ \A n \in DOMAIN Left : n # m => Left'[n] = Left[n]
  BY <1>6 DEF Left
<1>10. \A n \in DOMAIN Left : Left[n] \in Int /\ (n # m => Left'[n] = Left[n])
  BY <1>8, <1>9
<1>11. SumFunction(Left') = SumFunction(Left) - Left[m]
  BY <1>8, <1>9, <1>10, TotalReduced
<1>12. Left[m] <= SumFunction(Left) /\ SumFunction(Left) \in Nat
  BY <1>8, <1>9, TotalMember, TotalNat
<1>13. totalCustody = SumFunction(Left)
  BY TotalIsLeft DEF BooksInv
<1>14. totalCustody' = SumFunction(Left') /\ totalCustody' \in Nat
  BY <1>1, <1>4, <1>5, <1>9, <1>11, <1>12, <1>13 DEF Monus
<1>15. QED
  BY <1>7, <1>14, TotalIsLeft

\* A member is replaced with all that is left of the custody.
LEMMA ReplaceBooks ==
    ASSUME BooksInv, NEW m, NEW new \in Members, ReplaceTeamMember(m, new)
    PROVE  WithinAllocation' /\ totalCustody' \in Nat /\ TotalMatches'
<1>0. CustodyInv /\ TypeInv /\ WithinAllocation
  BY DEF BooksInv, CustodyInv
<1>1. /\ m \in DOMAIN teamAccounts /\ new \notin DOMAIN teamAccounts
      /\ DOMAIN teamAccounts' = (DOMAIN teamAccounts \ {m}) \cup {new}
      /\ teamAccounts'[new] = teamAccounts[m]
      /\ \A n \in DOMAIN teamAccounts \ {m} : teamAccounts'[n] = teamAccounts[n]
  BY <1>0, ReplaceMoves
<1>2. totalCustody' = totalCustody
  BY DEF ReplaceTeamMember
<1>3. WithinAllocation'
  BY <1>0, <1>1 DEF WithinAllocation
<1>4. /\ DOMAIN Left = DOMAIN teamAccounts /\ IsFiniteSet(DOMAIN Left)
      /\ \A n \in DOMAIN Left : Left[n] \in Nat
  BY <1>0, LeftType
<1> DEFINE rest == [n \in DOMAIN Left \ {m} |-> Left[n]]
<1>5. /\ DOMAIN rest = DOMAIN Left \ {m} /\ m \in DOMAIN Left
      /\ \A n \in DOMAIN Left : Left[n] \in Int /\ (n # m => rest[n] = Left[n])
  BY <1>1, <1>4
<1>6. SumFunction(rest) = SumFunction(Left) - Left[m]
  <2> HIDE DEF rest
  <2>1. QED
    BY <1>4, <1>5, TotalReduced
<1>7. /\ DOMAIN Left' = DOMAIN rest \cup {new} /\ new \notin DOMAIN rest
      /\ Left'[new] = Left[m] /\ Left'[new] \in Int
      /\ \A n \in DOMAIN rest : rest[n] \in Int /\ Left'[n] = rest[n]
  <2>1. DOMAIN Left' = DOMAIN teamAccounts'
    BY DEF Left
  <2>2. Left'[new] = Left[m]
    BY <1>1 DEF Left
  <2>3. \A n \in DOMAIN rest : rest[n] \in Int /\ Left'[n] = rest[n]
    BY <1>1, <1>4 DEF Left
  <2>4. QED
    BY <1>1, <1>4, <1>5, <2>1, <2>2, <2>3
<1>8. IsFiniteSet(DOMAIN rest)
  BY <1>4, <1>5, FS_RemoveElement
<1>9. SumFunction(Left') = SumFunction(rest) + Left'[new]
  <2> HIDE DEF rest
  <2>1. QED
    BY <1>7, <1>8, TotalExtended
<1>10. SumFunction(Left) \in Nat /\ Left[m] \in Nat
  BY <1>4, <1>5, TotalNat
<1>11. SumFunction(Left') = SumFunction(Left)
  <2> HIDE DEF rest
  <2>1. QED
    BY <1>6, <1>7, <1>9, <1>10
<1>12. QED
  BY <1>2, <1>3, <1>11, TotalIsLeft DEF BooksInv

LEMMA BooksStep == BooksInv /\ [CustodyNext]_custodyVars => BooksInv'
<1> SUFFICES ASSUME BooksInv, [CustodyNext]_custodyVars PROVE BooksInv'
  OBVIOUS
<1>1. CustodyInv'
  BY CustodyInvStep DEF BooksInv
<1>2. custodians' \subseteq Custodians /\ IsMap(proxies', CustodyAccounts, Delegates)
  <2>0. /\ custodians \subseteq Custodians /\ IsMap(proxies, CustodyAccounts, Delegates)
        /\ TypeInv
    BY DEF BooksInv, CustodyInv
  <2>1. CASE UNCHANGED <<custodians, proxies>>
    BY <2>0, <2>1
  <2>2. ASSUME NEW m \in DOMAIN teamAccounts, FinalPayout(m)
        PROVE  custodians' \subseteq Custodians /\ IsMap(proxies', CustodyAccounts, Delegates)
    BY <2>0, <2>2, RemoveTyped DEF FinalPayout, RemoveCustodyProxies
  <2>3. ASSUME NEW c \in CustodyAccounts, NEW delegate \in Delegates,
               SetGovernanceProxy(c, delegate)
        PROVE  custodians' \subseteq Custodians /\ IsMap(proxies', CustodyAccounts, Delegates)
    BY <2>0, <2>3, InsertTyped DEF SetGovernanceProxy
  <2>4. CASE \E m \in Members : Payout(m)
    BY <2>1, <2>2, <2>4 DEF Payout, PartialPayout
  <2>5. CASE \/ \E c \in CustodyAccounts, delegate \in Delegates : CustodySetProxy(c, delegate)
             \/ \E m \in Members, delegate \in Delegates : TeamCustodySetProxy(m, delegate)
    BY <2>0, <2>3, <2>5, AccountsOf DEF CustodySetProxy, TeamCustodySetProxy
  <2>6. CASE \E a \in Custodians : SetCustodians(a)
    BY <2>0, <2>6 DEF SetCustodians, coinVars
  <2>7. CASE ByOthers
    BY <2>1, <2>7 DEF ByOthers, Unbond, Vote, Unvote, Foreign, Slash, NextBlock, coinVars
  <2>8. CASE \E m, new \in Members : ReplaceTeamMember(m, new)
    BY <2>1, <2>8 DEF ReplaceTeamMember, coinVars
  <2>9. QED
    BY <2>1, <2>4, <2>5, <2>6, <2>7, <2>8
       DEF CustodyNext, CustodyBond, CustodyBondExtra, CustodySetController,
           custodyVars, coinVars
<1>3. WithinAllocation' /\ totalCustody' \in Nat /\ TotalMatches'
  <2>1. CASE UNCHANGED <<teamAccounts, totalCustody>>
    BY <2>1 DEF BooksInv, WithinAllocation, TotalMatches
  <2>2. CASE \E m \in Members : Payout(m)
    BY <2>2, PartialPayoutBooks, FinalPayoutBooks DEF Payout
  <2>3. CASE \E m, new \in Members : ReplaceTeamMember(m, new)
    BY <2>3, ReplaceBooks
  <2>4. CASE ByOthers
    BY <2>1, <2>4 DEF ByOthers, Unbond, Vote, Unvote, Foreign, Slash, NextBlock, teamVars
  <2>5. QED
    BY <2>1, <2>2, <2>3, <2>4
       DEF CustodyNext, CustodyBond, CustodyBondExtra, CustodySetController,
           CustodySetProxy, TeamCustodySetProxy, SetGovernanceProxy, SetCustodians,
           custodyVars, teamVars
<1>4. QED
  BY <1>1, <1>2, <1>3 DEF BooksInv

LEMMA BooksInvHolds == CustodySpec => []BooksInv
  BY BooksInit, BooksStep, PTL DEF CustodySpec

\* TotalCustody is what is left of the allocations of the members: no
\* subtraction from it ever saturates, and the last payout takes off what was
\* left, however much or little the accounts held (do_payout).
THEOREM TotalFollowsMembers == CustodySpec => []TotalMatches
<1>1. BooksInv => TotalMatches
  BY DEF BooksInv
<1>2. QED
  BY <1>1, BooksInvHolds, PTL

\* Every storage item of the pallet, and every balance it works on, keeps its
\* type: no subtraction of unsigned numbers underflows.
THEOREM TeamTypeCorrect == CustodySpec => []TeamTypeOK
<1>1. BooksInv => TeamTypeOK
  <2> SUFFICES ASSUME BooksInv PROVE TeamTypeOK
    OBVIOUS
  <2>1. TypeInv /\ EveryCustodyHasOneMember
    BY DEF BooksInv, CustodyInv
  <2>2. custodyAccounts \subseteq CustodyAccounts
    BY <2>1, AccountsOf DEF EveryCustodyHasOneMember
  <2>3. QED
    BY <2>1, <2>2 DEF BooksInv, TypeInv, TeamTypeOK, Ledger
<1>2. QED
  BY <1>1, BooksInvHolds, PTL
=============================================================================

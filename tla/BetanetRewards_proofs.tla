------------------------- MODULE BetanetRewards_proofs -------------------------
(***************************************************************************)
(* Proofs about the claims pallet and the BetaNet rewards pallet, for any  *)
(* accounts, addresses, amounts and schedules, and without the bounds that *)
(* the runs need.                                                          *)
(***************************************************************************)
EXTENDS BetanetRewards, VestedCoins_proofs

\* The keys of the storage map operators.
LEMMA MapDomains ==
    ASSUME NEW f, NEW k, NEW v
    PROVE  /\ DOMAIN Insert(f, k, v) = DOMAIN f \cup {k}
           /\ DOMAIN Remove(f, k) = DOMAIN f \ {k}
  BY DEF Insert, Remove

\* Moving an entry moves its key and leaves the others.
LEMMA MoveDomain ==
    ASSUME NEW f, NEW old, NEW new
    PROVE  \A x : x \in DOMAIN Move(f, old, new) <=>
                      \/ x \in DOMAIN f /\ x # old
                      \/ x = new /\ old \in DOMAIN f
<1>1. CASE old \in DOMAIN f
  <2>1. Move(f, old, new) = Insert(Remove(f, old), new, f[old])
    BY <1>1 DEF Move
  <2>2. DOMAIN Move(f, old, new) = DOMAIN Remove(f, old) \cup {new}
    BY <2>1 DEF Insert
  <2>3. DOMAIN Remove(f, old) = DOMAIN f \ {old}
    BY DEF Remove
  <2>4. QED
    BY <1>1, <2>2, <2>3
<1>2. CASE old \notin DOMAIN f
  BY <1>2 DEF Move
<1>3. QED
  BY <1>1, <1>2

-----------------------------------------------------------------------------
\* Collecting a claim ends the claim, its schedules, its statement and its
\* reward, whichever of the three calls collects it.
LEMMA CollectEnds ==
    ASSUME NEW e, NEW d, Collect(e, d)
    PROVE  /\ claims' = Remove(claims, e)
           /\ vesting' = Remove(vesting, e)
           /\ signing' = Remove(signing, e)
           /\ rewards' = Remove(rewards, e)
           /\ now' = now
<1>1. ProcessClaim(e, d)
  BY DEF Collect, Claim, ClaimAttest, Attest
<1>2. QED
  BY <1>1 DEF ProcessClaim, RewardsLeft

\* Each administrative call keeps a map of schedules or statements within the
\* claims, if it is.
LEMMA AdminKeepsClaims ==
    ASSUME ClaimsAdmin
    PROVE  /\ UNCHANGED <<rewards, now>>
           /\ DOMAIN vesting \subseteq DOMAIN claims
                  => DOMAIN vesting' \subseteq DOMAIN claims'
           /\ DOMAIN signing \subseteq DOMAIN claims
                  => DOMAIN signing' \subseteq DOMAIN claims'
<1> DEFINE Kept == /\ DOMAIN vesting \subseteq DOMAIN claims
                          => DOMAIN vesting' \subseteq DOMAIN claims'
                   /\ DOMAIN signing \subseteq DOMAIN claims
                          => DOMAIN signing' \subseteq DOMAIN claims'
<1>1. ASSUME NEW e, NEW amount, NEW list, NEW statement,
             MintClaim(e, amount, list, statement)
      PROVE  Kept
  <2>1. DOMAIN claims' = DOMAIN claims \cup {e}
    BY <1>1, MapDomains DEF MintClaim
  <2>2. /\ DOMAIN vesting' \subseteq DOMAIN vesting \cup {e}
        /\ DOMAIN signing' \subseteq DOMAIN signing \cup {e}
    BY <1>1, MapDomains DEF MintClaim, InsertGiven
  <2>3. QED
    BY <2>1, <2>2
<1>2. ASSUME NEW old, NEW new, NEW d, MoveClaim(old, new, d)
      PROVE  Kept
  <2>1. /\ claims' = Move(claims, old, new)
        /\ vesting' = Move(vesting, old, new)
        /\ signing' = Move(signing, old, new)
    BY <1>2 DEF MoveClaim
  <2>2. \A x : x \in DOMAIN claims' <=>
                  \/ x \in DOMAIN claims /\ x # old
                  \/ x = new /\ old \in DOMAIN claims
    BY <2>1, MoveDomain
  <2>3. \A x : x \in DOMAIN vesting' <=>
                  \/ x \in DOMAIN vesting /\ x # old
                  \/ x = new /\ old \in DOMAIN vesting
    BY <2>1, MoveDomain
  <2>4. \A x : x \in DOMAIN signing' <=>
                  \/ x \in DOMAIN signing /\ x # old
                  \/ x = new /\ old \in DOMAIN signing
    BY <2>1, MoveDomain
  <2>5. QED
    BY <2>2, <2>3, <2>4
<1>3. UNCHANGED <<rewards, now>>
  BY DEF ClaimsAdmin, MintClaim, MoveClaim, coinVars
<1> HIDE DEF Kept
<1>4. Kept
  BY <1>1, <1>2 DEF ClaimsAdmin
<1>5. QED
  BY <1>3, <1>4 DEF Kept

\* Schedules and statements end with their claims, save for schedules that the
\* enactment makes.
NothingLeftBehind ==
    /\ DOMAIN signing \subseteq DOMAIN claims
    /\ ~(approved /\ now >= EnactmentBlock) => DOMAIN vesting \subseteq DOMAIN claims

LeftInv == now \in Nat /\ NothingLeftBehind

\* No vesting schedule and no required statement is left at an address without
\* a claim (process_claim, mint_claim, move_claim).
LEMMA SchedulesEndWithClaims == BetanetSpec => []LeftInv
<1>1. BetanetInit => LeftInv
  BY DEF BetanetInit, ClaimsInit, LeftInv, NothingLeftBehind, Maps
<1>2. LeftInv /\ [BetanetNext]_betanetVars => LeftInv'
  <2> SUFFICES ASSUME LeftInv, [BetanetNext]_betanetVars
               PROVE  LeftInv'
    OBVIOUS
  <2> USE RewardsAssumption DEF LeftInv
  <2>1. ASSUME NEW e, NEW d, CollectWithReward(e, d)
        PROVE  LeftInv'
    <3>1. /\ DOMAIN claims' = DOMAIN claims \ {e}
          /\ DOMAIN vesting' = DOMAIN vesting \ {e}
          /\ DOMAIN signing' = DOMAIN signing \ {e}
      BY <2>1, CollectEnds, MapDomains DEF CollectWithReward
    <3>2. UNCHANGED <<now, approved>>
      BY <2>1, CollectEnds DEF CollectWithReward
    <3>3. QED
      BY <3>1, <3>2 DEF NothingLeftBehind
  <2>2. ASSUME ClaimsAdmin, UNCHANGED rewardVars
        PROVE  LeftInv'
    <3>1. UNCHANGED <<now, approved>>
      BY <2>2, AdminKeepsClaims DEF rewardVars
    <3>2. QED
      BY <2>2, <3>1, AdminKeepsClaims DEF NothingLeftBehind
  <2>3. CASE EnactProgram
    <3>1. /\ signing' = signing /\ approved /\ approved' = approved
          /\ now' = EnactmentBlock
      BY <2>3 DEF EnactProgram
    <3>2. DOMAIN claims' = DOMAIN claims
      BY <2>3 DEF EnactProgram, ProcessClaims
    <3>3. QED
      BY <3>1, <3>2 DEF NothingLeftBehind
  <2>4. ASSUME UNCHANGED <<claims, vesting, signing>>,
               now' = now \/ now' = now + 1,
               approved => approved'
        PROVE  LeftInv'
    BY <2>4 DEF NothingLeftBehind
  <2>5. ASSUME NEW d, NEW option, SelectOption(d, option) PROVE LeftInv'
    BY <2>4, <2>5 DEF SelectOption, allClaimVars, claimVars, coinVars
  <2>6. CASE Approve
    BY <2>4, <2>6 DEF Approve, allClaimVars, claimVars, coinVars
  <2>7. ASSUME VestStep, UNCHANGED rewardVars PROVE LeftInv'
    BY <2>4, <2>7 DEF VestStep, Vest, claimVars, rewardVars
  <2>8. CASE Block
    <3>1. CASE NextBlock /\ UNCHANGED rewardVars
      BY <2>4, <3>1 DEF NextBlock, claimVars, rewardVars
    <3>2. QED
      BY <2>3, <2>8, <3>1 DEF Block
  <2>9. CASE UNCHANGED betanetVars
    BY <2>4, <2>9 DEF betanetVars, allClaimVars, claimVars, coinVars, rewardVars
  <2>10. QED
    BY <2>1, <2>2, <2>5, <2>6, <2>7, <2>8, <2>9 DEF BetanetNext
<1>3. QED
  BY <1>1, <1>2, PTL DEF BetanetSpec

\* What the administration does to the terms of a claim: an address that has no
\* claim has no terms, so a new claim has those that come with it.
LEMMA NewTerms ==
    ASSUME LeftInv, ~(approved /\ now >= EnactmentBlock), ClaimsAdmin,
           NEW e \in DOMAIN claims' \ DOMAIN claims
    PROVE  \/ \E old \in DOMAIN claims \ DOMAIN claims' :
                 claims'[e] = claims[old] /\ Terms(e)' = Terms(old)
           \/ \E list \in ScheduleLists \cup {None},
                 statement \in Statements \cup {None} :
                 /\ MintClaim(e, claims'[e], list, statement)
                 /\ Terms(e)' = <<list, statement>>
<1>0. e \notin DOMAIN vesting /\ e \notin DOMAIN signing
  BY DEF LeftInv, NothingLeftBehind
<1>1. ASSUME NEW x, NEW amount, NEW list \in ScheduleLists \cup {None},
             NEW statement \in Statements \cup {None},
             MintClaim(x, amount, list, statement)
      PROVE  MintClaim(e, claims'[e], list, statement) /\ Terms(e)' = <<list, statement>>
  <2>1. /\ claims' = Insert(claims, x, amount)
        /\ vesting' = InsertGiven(vesting, x, list)
        /\ signing' = InsertGiven(signing, x, statement)
    BY <1>1 DEF MintClaim
  <2>2. x = e /\ claims'[e] = amount
    BY <2>1 DEF Insert
  <2>3. Terms(e)' = <<list, statement>>
    BY <1>0, <2>1, <2>2 DEF Terms, InsertGiven, Insert
  <2>4. QED
    BY <1>1, <2>2, <2>3
<1>2. ASSUME NEW old, NEW new, NEW d, MoveClaim(old, new, d)
      PROVE  /\ old \in DOMAIN claims \ DOMAIN claims'
             /\ claims'[e] = claims[old] /\ Terms(e)' = Terms(old)
  <2>1. /\ claims' = Move(claims, old, new)
        /\ vesting' = Move(vesting, old, new)
        /\ signing' = Move(signing, old, new)
    BY <1>2 DEF MoveClaim
  <2>2. /\ e = new /\ old # new /\ old \in DOMAIN claims \ DOMAIN claims'
    BY <2>1, MoveDomain
  <2>3. claims'[e] = claims[old]
    BY <2>1, <2>2 DEF Move, Insert, Remove
  <2>4. /\ new \in DOMAIN vesting' <=> old \in DOMAIN vesting
        /\ new \in DOMAIN vesting' => vesting'[new] = vesting[old]
    BY <1>0, <2>1, <2>2 DEF Move, Insert, Remove
  <2>5. /\ new \in DOMAIN signing' <=> old \in DOMAIN signing
        /\ new \in DOMAIN signing' => signing'[new] = signing[old]
    BY <1>0, <2>1, <2>2 DEF Move, Insert, Remove
  <2>6. QED
    BY <2>2, <2>3, <2>4, <2>5 DEF Terms
<1>3. QED
  BY <1>1, <1>2 DEF ClaimsAdmin

\* A claim at an address that had none has the schedules and the statement that
\* it was minted with or moved with, and inherits none (mint_claim, move_claim,
\* process_claim).
THEOREM NoTermsInherited == BetanetSpec => NewClaimsHaveTheirOwnTerms
<1> DEFINE Own ==
      ~(approved /\ now >= EnactmentBlock) =>
        \A e \in DOMAIN claims' \ DOMAIN claims :
            \/ \E old \in DOMAIN claims \ DOMAIN claims' :
                  claims'[e] = claims[old] /\ Terms(e)' = Terms(old)
            \/ \E list \in ScheduleLists \cup {None},
                  statement \in Statements \cup {None} :
                  /\ MintClaim(e, claims'[e], list, statement)
                  /\ Terms(e)' = <<list, statement>>
<1>1. LeftInv /\ [BetanetNext]_betanetVars => [Own]_betanetVars
  <2> SUFFICES ASSUME LeftInv, BetanetNext PROVE Own
    OBVIOUS
  <2>1. CASE ClaimsAdmin
    BY <2>1, NewTerms
  <2>2. CASE DOMAIN claims' \subseteq DOMAIN claims
    BY <2>2
  <2>3. ASSUME NEW e, NEW d, CollectWithReward(e, d)
        PROVE  DOMAIN claims' \subseteq DOMAIN claims
    <3>1. DOMAIN claims' = DOMAIN claims \ {e}
      BY <2>3, CollectEnds, MapDomains DEF CollectWithReward
    <3>2. QED
      BY <3>1
  <2>4. CASE EnactProgram
    BY <2>2, <2>4 DEF EnactProgram, ProcessClaims
  <2>5. CASE UNCHANGED claims
    BY <2>2, <2>5
  <2> HIDE DEF Own
  <2>6. QED
    BY <2>1, <2>2, <2>3, <2>4, <2>5 DEF BetanetNext, VestStep, Vest, SelectOption,
       Approve, Block, NextBlock, allClaimVars, claimVars
<1>2. QED
  BY <1>1, SchedulesEndWithClaims, PTL DEF BetanetSpec, NewClaimsHaveTheirOwnTerms

-----------------------------------------------------------------------------
(***************************************************************************)
(* Nothing is owed once an approved program is enacted.  The invariant     *)
(* needs the type of the block number only.                                *)
(***************************************************************************)
OwedInv == now \in Nat /\ NothingOwedAfterEnactment

LEMMA OwedInit == BetanetInit => OwedInv
<1> SUFFICES ASSUME BetanetInit PROVE OwedInv
  OBVIOUS
<1>1. now = 0 /\ ~approved
  BY DEF BetanetInit, ClaimsInit
<1>2. QED
  BY <1>1 DEF OwedInv, NothingOwedAfterEnactment

LEMMA OwedStep == OwedInv /\ [BetanetNext]_betanetVars => OwedInv'
<1> SUFFICES ASSUME OwedInv, [BetanetNext]_betanetVars
             PROVE  OwedInv'
  OBVIOUS
<1> USE RewardsAssumption DEF OwedInv
<1>1. ASSUME NEW e, NEW d, CollectWithReward(e, d)
      PROVE  OwedInv'
  <2>1. now' = now /\ approved' = approved
    BY <1>1, CollectEnds DEF CollectWithReward
  <2>2. DOMAIN rewards' = DOMAIN rewards \ {e}
    BY <1>1, CollectEnds, MapDomains DEF CollectWithReward
  <2>3. ASSUME DOMAIN accounts = {}, DOMAIN rewards = {}
        PROVE  DOMAIN accounts' = {}
    <3>1. accounts' = accounts
      BY <1>1, <2>3 DEF CollectWithReward, AddClaimed
    <3>2. QED
      BY <2>3, <3>1
  <2>4. QED
    BY <2>1, <2>2, <2>3 DEF NothingOwedAfterEnactment
<1>2. ASSUME NEW d, NEW option, SelectOption(d, option) PROVE OwedInv'
  <2>1. now' = now /\ now < EnactmentBlock
    BY <1>2 DEF SelectOption, allClaimVars, coinVars
  <2>2. QED
    BY <2>1 DEF NothingOwedAfterEnactment
<1>3. CASE Approve
  <2>1. now' = now /\ now < EnactmentBlock
    BY <1>3 DEF Approve, allClaimVars, coinVars
  <2>2. QED
    BY <2>1 DEF NothingOwedAfterEnactment
<1>4. CASE Block
  <2>1. CASE EnactProgram
    BY <2>1 DEF EnactProgram, ProcessRewards, ProcessClaims, EmptyMap,
                NothingOwedAfterEnactment
  <2>2. CASE /\ ~approved \/ now + 1 # EnactmentBlock
             /\ NextBlock
             /\ UNCHANGED rewardVars
    <3>1. /\ now' = now + 1
          /\ UNCHANGED <<accounts, approved, rewards>>
      BY <2>2 DEF NextBlock, rewardVars, claimVars
    <3>2. approved /\ now + 1 >= EnactmentBlock => now >= EnactmentBlock
      BY <2>2
    <3>3. QED
      BY <3>1, <3>2 DEF NothingOwedAfterEnactment
  <2>3. QED
    BY <1>4, <2>1, <2>2 DEF Block
<1>5. CASE UNCHANGED <<now, approved, accounts, rewards>>
  BY <1>5 DEF NothingOwedAfterEnactment
<1>6. ASSUME ClaimsAdmin \/ VestStep, UNCHANGED rewardVars
      PROVE  OwedInv'
  <2>1. UNCHANGED <<now, rewards>>
    BY <1>6 DEF ClaimsAdmin, MintClaim, MoveClaim, VestStep, Vest, claimVars, coinVars
  <2>2. QED
    BY <1>5, <1>6, <2>1 DEF rewardVars
<1>7. CASE UNCHANGED betanetVars
  BY <1>5, <1>7 DEF betanetVars, allClaimVars, claimVars, coinVars, rewardVars
<1>8. QED
  BY <1>1, <1>2, <1>3, <1>4, <1>6, <1>7 DEF BetanetNext

\* After the enactment of an approved program no entry and no reward of a claim
\* is left, and no call brings one back.
THEOREM NothingOwed == BetanetSpec => []NothingOwedAfterEnactment
<1>1. OwedInv => NothingOwedAfterEnactment
  BY DEF OwedInv
<1>2. QED
  BY <1>1, OwedInit, OwedStep, PTL DEF BetanetSpec
-----------------------------------------------------------------------------
(* Amounts. *)

LEMMA PercentNat ==
    ASSUME NEW percent \in Nat, NEW amount \in Nat
    PROVE  PercentOf(percent, amount) \in Nat
<1>1. 2 * percent * amount + 99 \in Nat
  OBVIOUS
<1>2. QED
  BY <1>1 DEF PercentOf

\* No option rewards better than that of nine months.
LEMMA BestIsBest ==
    ASSUME NEW info, info.option \in Options, info.reward \in Nat
    PROVE  /\ RewardAmount(info) \in Nat
           /\ BestReward(info.reward) \in Nat
           /\ RewardAmount(info) <= BestReward(info.reward)
           /\ info.reward <= BestReward(info.reward)
<1> DEFINE r == info.reward
           best == [principal |-> 0, reward |-> r, option |-> "Vesting9Month"]
<1>1. /\ BestReward(r) = RewardAmount(best)
      /\ RewardAmount(best) = PercentOf(100, r) + PercentOf(20, r)
  BY DEF BestReward, RewardAmount, RewardPercent, ExtraRewardPercent
<1>2. PercentOf(100, r) = r /\ PercentOf(20, r) \in Nat /\ PercentOf(0, r) = 0
  BY DEF PercentOf
<1>3. /\ PercentOf(2, r) \in 0..r /\ PercentOf(12, r) \in 0..r /\ PercentOf(45, r) \in 0..r
  BY DEF PercentOf
<1>4. \/ RewardAmount(info) = PercentOf(2, r) + PercentOf(0, r)
      \/ RewardAmount(info) = PercentOf(12, r) + PercentOf(0, r)
      \/ RewardAmount(info) = PercentOf(45, r) + PercentOf(0, r)
      \/ RewardAmount(info) = PercentOf(100, r) + PercentOf(0, r)
      \/ RewardAmount(info) = PercentOf(100, r) + PercentOf(20, r)
  BY DEF RewardAmount, RewardPercent, ExtraRewardPercent, Options
<1> HIDE DEF best
<1>5. QED
  BY <1>1, <1>2, <1>3, <1>4

\* What the default option locks.
LEMMA DesiredNat ==
    ASSUME NEW option \in Options, NEW principal \in Nat, NEW reward \in Nat
    PROVE  DesiredLock(option, principal, reward) \in Nat
<1>1. PrincipalLock[option] \in Nat
  BY DEF PrincipalLock, Options
<1>2. PercentOf(PrincipalLock[option], principal) \in Nat
  BY <1>1, PercentNat
<1>3. QED
  BY <1>2 DEF DesiredLock

\* What an account is rewarded with is not more than the best option pays.
LEMMA RewardPaid ==
    ASSUME IsMap(accounts, Accounts, UserInfo), NEW d \in Accounts
    PROVE  /\ Reward(d) \in Nat
           /\ d \in DOMAIN accounts => /\ accounts[d].reward \in Nat
                                       /\ BestReward(accounts[d].reward) \in Nat
                                       /\ Reward(d) <= BestReward(accounts[d].reward)
           /\ d \notin DOMAIN accounts => Reward(d) = 0
<1>1. CASE d \in DOMAIN accounts
  <2>1. accounts[d].option \in Options /\ accounts[d].reward \in Nat
    BY <1>1 DEF IsMap, UserInfo
  <2>2. /\ RewardAmount(accounts[d]) \in Nat
        /\ BestReward(accounts[d].reward) \in Nat
        /\ RewardAmount(accounts[d]) <= BestReward(accounts[d].reward)
    BY <2>1, BestIsBest
  <2>3. Reward(d) = 0 \/ Reward(d) = RewardAmount(accounts[d])
    BY <1>1 DEF Reward, Credited
  <2>4. QED
    BY <1>1, <2>1, <2>2, <2>3
<1>2. CASE d \notin DOMAIN accounts
  BY <1>2 DEF Reward
<1>3. QED
  BY <1>1, <1>2

-----------------------------------------------------------------------------
(* Storage maps. *)

LEMMA MapFacts ==
    ASSUME NEW f, NEW K, NEW V, IsMap(f, K, V)
    PROVE  /\ DOMAIN f \subseteq K
           /\ \A x \in DOMAIN f : f[x] \in V
           /\ IsFiniteSet(K) => IsFiniteSet(DOMAIN f)
BY FS_Subset DEF IsMap

LEMMA MapTyped ==
    ASSUME NEW f, NEW K, NEW V, IsMap(f, K, V), NEW k \in K, NEW v \in V
    PROVE  IsMap(Insert(f, k, v), K, V)
BY DEF IsMap, Insert

LEMMA RemoveTyped ==
    ASSUME NEW f, NEW K, NEW V, IsMap(f, K, V), NEW k
    PROVE  IsMap(Remove(f, k), K, V)
BY DEF IsMap, Remove

LEMMA MoveTyped ==
    ASSUME NEW f, NEW K, NEW V, IsMap(f, K, V), NEW old, NEW new \in K
    PROVE  IsMap(Move(f, old, new), K, V)
<1>1. CASE old \in DOMAIN f
  <2>1. f[old] \in V
    BY <1>1, MapFacts
  <2>2. Move(f, old, new) = Insert(Remove(f, old), new, f[old])
    BY <1>1 DEF Move
  <2>3. QED
    BY <2>1, <2>2, MapTyped, RemoveTyped
<1>2. CASE old \notin DOMAIN f
  BY <1>2 DEF Move
<1>3. QED
  BY <1>1, <1>2

-----------------------------------------------------------------------------
(***************************************************************************)
(* The books: Total covers the claims, and with the accounts it is what    *)
(* was minted and charged.  The types of the maps are needed on the way,   *)
(* and that no balance is negative.                                        *)
(***************************************************************************)
BooksInv ==
    /\ BetanetTypeOK
    /\ balance \in [Accounts -> Nat]
    /\ minted \in Nat /\ lost \in Nat
    /\ TotalCoversClaims
    /\ RewardsCharged

\* The facts about the maps that the steps use.
LEMMA BooksFacts ==
    ASSUME BooksInv
    PROVE  /\ IsFiniteSet(Accounts) /\ IsFiniteSet(Addresses)
           /\ IsFiniteSet(DOMAIN claims) /\ \A e \in DOMAIN claims : claims[e] \in Nat
           /\ IsFiniteSet(DOMAIN rewards) /\ \A e \in DOMAIN rewards : rewards[e] \in Nat
           /\ IsFiniteSet(DOMAIN accounts)
           /\ \A d \in DOMAIN accounts : accounts[d] \in UserInfo
           /\ DOMAIN balance = Accounts /\ \A d \in Accounts : balance[d] \in Nat
           /\ SumFunction(claims) \in Nat /\ SumFunction(rewards) \in Nat
           /\ SumFunction(balance) \in Nat
           /\ total \in Nat /\ charged \in Nat
<1>1. IsFiniteSet(Accounts) /\ IsFiniteSet(Addresses)
  BY VestedCoinsAssumption, ClaimsAssumption
<1>2. IsFiniteSet(DOMAIN claims) /\ \A e \in DOMAIN claims : claims[e] \in Nat
  BY <1>1, MapFacts DEF BooksInv, BetanetTypeOK, ClaimsTypeOK
<1>3. IsFiniteSet(DOMAIN rewards) /\ \A e \in DOMAIN rewards : rewards[e] \in Nat
  BY <1>1, MapFacts DEF BooksInv, BetanetTypeOK, ClaimsTypeOK
<1>4. IsFiniteSet(DOMAIN accounts) /\ \A d \in DOMAIN accounts : accounts[d] \in UserInfo
  BY <1>1, MapFacts DEF BooksInv, BetanetTypeOK
<1>5. DOMAIN balance = Accounts /\ \A d \in Accounts : balance[d] \in Nat
  BY DEF BooksInv
<1>6. SumFunction(claims) \in Nat /\ SumFunction(rewards) \in Nat
  BY <1>2, <1>3, TotalNat
<1>7. SumFunction(balance) \in Nat
  BY <1>1, <1>5, TotalNat
<1>8. total \in Nat /\ charged \in Nat
  BY DEF BooksInv, BetanetTypeOK, ClaimsTypeOK
<1>9. QED
  BY <1>1, <1>2, <1>3, <1>4, <1>5, <1>6, <1>7, <1>8

\* A claim that is collected leaves Total and the claims, and reaches the account
\* or is lost.
LEMMA CollectBooks ==
    ASSUME BooksInv, NEW e \in Addresses, NEW d \in Accounts, CollectWithReward(e, d)
    PROVE  BooksInv'
<1>1. /\ ProcessClaim(e, d)
      /\ preclaims' = preclaims \/ preclaims' = Remove(preclaims, d)
  BY DEF CollectWithReward, Collect, Claim, ClaimAttest, Attest
<1> DEFINE c == claims[e]
           credit == Credited(d, claims[e])
<1>2. /\ e \in DOMAIN claims /\ c <= total
      /\ balance' = [balance EXCEPT ![d] = @ + credit]
      /\ lost' = lost + c - credit
      /\ total' = total - c
      /\ UNCHANGED <<minted, now, approved, charged>>
  BY <1>1 DEF ProcessClaim, TotalLeft, CollectWithReward
<1>3. c \in Nat /\ credit \in 0..c
  <2>1. c \in Nat
    BY <1>2, BooksFacts
  <2>2. credit = 0 \/ credit = c
    BY DEF Credited
  <2>3. QED
    BY <2>1, <2>2
<1> HIDE DEF c, credit
<1>4. /\ balance' \in [Accounts -> Nat]
      /\ balance'[d] = balance[d] + credit
      /\ \A x \in Accounts : balance[x] \in Int /\ balance'[x] \in Int
                                /\ (x # d => balance'[x] = balance[x])
  BY <1>2, <1>3, BooksFacts DEF BooksInv
<1>5. SumFunction(balance') = SumFunction(balance) + credit
  <2>1. DOMAIN balance = Accounts /\ DOMAIN balance' = Accounts /\ IsFiniteSet(Accounts)
    BY <1>4, BooksFacts
  <2>2. SumFunction(balance') = SumFunction(balance) - balance[d] + balance'[d]
    BY <1>4, <2>1, TotalChanged
  <2>3. QED
    BY <1>3, <1>4, <2>2, BooksFacts
<1>6. claims' = Remove(claims, e) /\ SumFunction(claims') = SumFunction(claims) - c
  <2>1. \A x \in DOMAIN claims : claims[x] \in Int
    BY BooksFacts
  <2>2. claims' = Remove(claims, e)
    BY <1>1 DEF ProcessClaim
  <2>3. QED
    BY <1>2, <2>1, <2>2, BooksFacts, TotalRemove DEF c
<1>7. SumFunction(claims') <= total'
  BY <1>2, <1>3, <1>6, BooksFacts DEF BooksInv, TotalCoversClaims
<1>8. SumFunction(balance') + total' + lost' = minted' + charged'
  BY <1>2, <1>3, <1>5, BooksFacts DEF BooksInv, RewardsCharged
<1>9. ClaimsTypeOK'
  <2>1. /\ IsMap(claims', Addresses, Nat)
        /\ IsMap(vesting', Addresses, Seq(Schedules))
        /\ IsMap(signing', Addresses, Statements)
        /\ IsMap(rewards', Addresses, Nat)
    BY <1>1, RemoveTyped DEF ProcessClaim, RewardsLeft, BooksInv, BetanetTypeOK, ClaimsTypeOK
  <2>2. IsMap(preclaims', Accounts, Addresses)
    BY <1>1, RemoveTyped DEF BooksInv, BetanetTypeOK, ClaimsTypeOK
  <2>3. total' \in Nat /\ now' \in Nat
    BY <1>2, <1>3, BooksFacts DEF BooksInv, BetanetTypeOK, ClaimsTypeOK
  <2>4. QED
    BY <2>1, <2>2, <2>3 DEF ClaimsTypeOK
<1>10. IsMap(accounts', Accounts, UserInfo)
  <2>1. CASE accounts' = accounts
    BY <2>1 DEF BooksInv, BetanetTypeOK
  <2>2. CASE accounts' # accounts
    <3> DEFINE info == [principal |-> claims[e], reward |-> rewards[e], option |-> Default]
    <3>1. e \in DOMAIN rewards /\ accounts' = Insert(accounts, d, info)
      BY <2>2 DEF CollectWithReward, AddClaimed
    <3>2. info \in UserInfo
      BY <1>2, <3>1, BooksFacts DEF UserInfo, Default, Options
    <3> HIDE DEF info
    <3>3. QED
      BY <3>1, <3>2, MapTyped DEF BooksInv, BetanetTypeOK
  <2>3. QED
    BY <2>1, <2>2
<1>11. lost' \in Nat
  BY <1>2, <1>3 DEF BooksInv
<1>12. approved' \in BOOLEAN /\ charged' \in Nat /\ minted' \in Nat
  BY <1>2 DEF BooksInv, BetanetTypeOK
<1>13. QED
  BY <1>4, <1>7, <1>8, <1>9, <1>10, <1>11, <1>12
     DEF BooksInv, BetanetTypeOK, TotalCoversClaims, RewardsCharged

\* A claim that is minted may replace another, and one that is moved too: neither
\* takes anything off Total.
LEMMA AdminBooks ==
    ASSUME BooksInv, ClaimsAdmin, UNCHANGED rewardVars
    PROVE  BooksInv'
<1>1. ASSUME NEW e \in Addresses, NEW amount \in ClaimAmounts,
             NEW list \in ScheduleLists \cup {None}, NEW statement \in Statements \cup {None},
             MintClaim(e, amount, list, statement)
      PROVE  BooksInv'
  <2>1. /\ amount \in Nat
        /\ claims' = Insert(claims, e, amount)
        /\ total' = total + amount /\ minted' = minted + amount
        /\ UNCHANGED <<preclaims, rewards, lost, balance, now, accounts, approved, charged>>
    BY <1>1, ClaimsAssumption DEF MintClaim, rewardVars, coinVars
  <2>2. SumFunction(claims') <= SumFunction(claims) + amount
    <3>1. \A x \in DOMAIN claims : claims[x] \in Int
      BY BooksFacts
    <3>2. SumFunction(Insert(claims, e, amount))
             = SumFunction(claims) - (IF e \in DOMAIN claims THEN claims[e] ELSE 0) + amount
      BY <2>1, <3>1, BooksFacts, TotalInsert
    <3>3. (IF e \in DOMAIN claims THEN claims[e] ELSE 0) \in Nat
      BY BooksFacts
    <3>4. QED
      BY <2>1, <3>2, <3>3, BooksFacts
  <2>3. SumFunction(claims') <= total'
    <3>1. IsMap(claims', Addresses, Nat)
      BY <2>1, MapTyped DEF BooksInv, BetanetTypeOK, ClaimsTypeOK
    <3>2. SumFunction(claims') \in Nat
      BY <3>1, BooksFacts, MapFacts, TotalNat
    <3>3. QED
      BY <2>1, <2>2, <3>2, BooksFacts DEF BooksInv, TotalCoversClaims
  <2>4. SumFunction(balance') + total' + lost' = minted' + charged'
    BY <2>1, BooksFacts DEF BooksInv, RewardsCharged
  <2>5. IsMap(claims', Addresses, Nat)
    BY <2>1, MapTyped DEF BooksInv, BetanetTypeOK, ClaimsTypeOK
  <2>6. IsMap(vesting', Addresses, Seq(Schedules))
    BY <1>1, MapTyped, ClaimsAssumption
       DEF MintClaim, InsertGiven, BooksInv, BetanetTypeOK, ClaimsTypeOK
  <2>7. IsMap(signing', Addresses, Statements)
    BY <1>1, MapTyped DEF MintClaim, InsertGiven, BooksInv, BetanetTypeOK, ClaimsTypeOK
  <2>8. total' \in Nat /\ minted' \in Nat
    BY <2>1 DEF BooksInv, BetanetTypeOK, ClaimsTypeOK
  <2>9. QED
    BY <2>1, <2>3, <2>4, <2>5, <2>6, <2>7, <2>8
       DEF BooksInv, BetanetTypeOK, ClaimsTypeOK, TotalCoversClaims, RewardsCharged
<1>2. ASSUME NEW old \in Addresses, NEW new \in Addresses, NEW d \in Accounts \cup {None},
             MoveClaim(old, new, d)
      PROVE  BooksInv'
  <2>1. /\ claims' = Move(claims, old, new)
        /\ vesting' = Move(vesting, old, new)
        /\ signing' = Move(signing, old, new)
        /\ UNCHANGED <<total, rewards, minted, lost, balance, now, accounts, approved, charged>>
    BY <1>2 DEF MoveClaim, rewardVars, ledgerVars, coinVars
  <2>2. /\ IsMap(claims', Addresses, Nat)
        /\ IsMap(vesting', Addresses, Seq(Schedules))
        /\ IsMap(signing', Addresses, Statements)
    BY <2>1, MoveTyped DEF BooksInv, BetanetTypeOK, ClaimsTypeOK
  <2>3. IsMap(preclaims', Accounts, Addresses)
    BY <1>2 DEF MoveClaim, IsMap, BooksInv, BetanetTypeOK, ClaimsTypeOK
  <2>4. SumFunction(claims') <= SumFunction(claims) /\ SumFunction(claims') \in Nat
    BY <2>1, <2>2, BooksFacts, TotalMove, MapFacts, TotalNat
  <2>5. SumFunction(claims') <= total'
    BY <2>1, <2>4, BooksFacts DEF BooksInv, TotalCoversClaims
  <2>6. SumFunction(balance') + total' + lost' = minted' + charged'
    BY <2>1 DEF BooksInv, RewardsCharged
  <2>7. QED
    BY <2>1, <2>2, <2>3, <2>5, <2>6
       DEF BooksInv, BetanetTypeOK, ClaimsTypeOK, TotalCoversClaims, RewardsCharged
<1>3. QED
  BY <1>1, <1>2 DEF ClaimsAdmin

\* The lock of a list of schedules is a number.
LEMMA ListLockNat ==
    ASSUME NEW list \in Seq(Schedules)
    PROVE  /\ IsFiniteSet(DOMAIN list)
           /\ \A i \in DOMAIN list :
                 Monus(list[i].locked,
                       list[i].perBlock * Monus(EnactmentBlock, list[i].start)) \in Nat
           /\ ListLock(list) \in Nat
<1>1. IsFiniteSet(DOMAIN list)
  <2>1. DOMAIN list = 1..Len(list) /\ Len(list) \in Nat
    OBVIOUS
  <2>2. QED
    BY <2>1, FS_Interval
<1>2. ASSUME NEW i \in DOMAIN list
      PROVE  Monus(list[i].locked,
                   list[i].perBlock * Monus(EnactmentBlock, list[i].start)) \in Nat
  <2>1. list[i] \in Schedules
    OBVIOUS
  <2>2. list[i].locked \in Nat /\ list[i].perBlock \in Nat /\ list[i].start \in Nat
    BY <2>1 DEF Schedules
  <2>3. Monus(EnactmentBlock, list[i].start) \in Nat
    BY <2>2, RewardsAssumption DEF Monus
  <2>4. list[i].perBlock * Monus(EnactmentBlock, list[i].start) \in Nat
    BY <2>2, <2>3
  <2>5. QED
    BY <2>2, <2>4 DEF Monus
<1> DEFINE locks == [i \in DOMAIN list |->
                        Monus(list[i].locked,
                              list[i].perBlock * Monus(EnactmentBlock, list[i].start))]
<1>3. DOMAIN locks = DOMAIN list /\ \A i \in DOMAIN locks : locks[i] \in Nat
  BY <1>2
<1>4. ListLock(list) = SumFunction(locks)
  BY DEF ListLock
<1> HIDE DEF locks
<1>5. ListLock(list) \in Nat
  BY <1>1, <1>3, <1>4, TotalNat
<1>6. QED
  BY <1>1, <1>2, <1>5

\* What a leftover claim has locked, and what it gets.
LEMMA LeftoverTyped ==
    ASSUME BooksInv, NEW e \in DOMAIN rewards
    PROVE  /\ ListOf(e) \in Seq(Schedules)
           /\ LeftoverLock(e) \in Nat
           /\ LockSchedule(LeftoverLock(e), Default) \in Schedules
<1>1. ListOf(e) \in Seq(Schedules)
  BY MapFacts DEF ListOf, BooksInv, BetanetTypeOK, ClaimsTypeOK
<1>2. ListLock(ListOf(e)) \in Nat
  BY <1>1, ListLockNat
<1> DEFINE principal == IF e \in DOMAIN claims THEN claims[e] + rewards[e] ELSE 0
<1>3. principal \in Nat /\ rewards[e] \in Nat
  BY BooksFacts
<1>4. DesiredLock(Default, principal, rewards[e]) \in Nat
  BY <1>3, DesiredNat DEF Default, Options
<1>5. LeftoverLock(e) = Monus(DesiredLock(Default, principal, rewards[e]), ListLock(ListOf(e)))
  BY DEF LeftoverLock
<1> HIDE DEF principal
<1>6. LeftoverLock(e) \in Nat
  BY <1>2, <1>4, <1>5 DEF Monus
<1>7. VestingPeriod(Default) \in Nat \ {0}
  BY RewardsAssumption DEF VestingPeriod, VestingMonths, Default
<1>8. LeftoverLock(e) \div VestingPeriod(Default) \in Nat
  BY <1>6, <1>7
<1>9. QED
  BY <1>1, <1>6, <1>8, RewardsAssumption DEF LockSchedule, Schedules

\* The enactment pays accounts, and raises Total by no less than the claims.
LEMMA EnactBooks ==
    ASSUME BooksInv, EnactProgram
    PROVE  BooksInv'
<1> DEFINE paid == [d \in Accounts |-> Reward(d)]
           raise == [e \in DOMAIN claims |-> IF e \in DOMAIN rewards THEN rewards[e] ELSE 0]
<1>1. /\ UNCHANGED <<signing, preclaims, minted, lost, approved>>
      /\ now' = EnactmentBlock
      /\ balance' = [d \in Accounts |-> balance[d] + Reward(d)]
      /\ accounts' = EmptyMap /\ rewards' = EmptyMap
      /\ total' = total + SumFunction(rewards)
      /\ charged' = charged + (SumFunction(paid) + SumFunction(rewards))
  BY DEF EnactProgram, ProcessRewards, ProcessClaims, TotalRaised, Charge, ledgerVars
<1>2. claims' = [e \in DOMAIN claims |->
                    claims[e] + (IF e \in DOMAIN rewards THEN rewards[e] ELSE 0)]
  BY DEF EnactProgram, ProcessClaims
<1>3. \A d \in Accounts : Reward(d) \in Nat
  BY RewardPaid DEF BooksInv, BetanetTypeOK
<1>4. /\ DOMAIN paid = Accounts /\ \A d \in Accounts : paid[d] \in Nat
      /\ balance' \in [Accounts -> Nat]
      /\ \A d \in Accounts : /\ balance[d] \in Int /\ paid[d] \in Int
                             /\ balance'[d] = balance[d] + paid[d]
  BY <1>1, <1>3, BooksFacts
<1>5. /\ DOMAIN raise = DOMAIN claims /\ DOMAIN claims' = DOMAIN claims
      /\ \A e \in DOMAIN claims :
            /\ raise[e] \in Nat
            /\ raise[e] = 0 \/ (e \in DOMAIN rewards /\ raise[e] <= rewards[e])
            /\ claims[e] \in Int /\ raise[e] \in Int /\ claims'[e] = claims[e] + raise[e]
  <2>1. DOMAIN raise = DOMAIN claims /\ DOMAIN claims' = DOMAIN claims
    BY <1>2
  <2>2. ASSUME NEW e \in DOMAIN claims
        PROVE  /\ claims[e] \in Nat /\ claims'[e] = claims[e] + raise[e]
               /\ e \in DOMAIN rewards => raise[e] = rewards[e] /\ rewards[e] \in Nat
               /\ e \notin DOMAIN rewards => raise[e] = 0
    BY <1>2, BooksFacts
  <2> HIDE DEF raise
  <2>3. ASSUME NEW e \in DOMAIN claims
        PROVE  /\ raise[e] \in Nat
               /\ raise[e] = 0 \/ (e \in DOMAIN rewards /\ raise[e] <= rewards[e])
               /\ claims[e] \in Int /\ raise[e] \in Int /\ claims'[e] = claims[e] + raise[e]
    <3>1. CASE e \in DOMAIN rewards
      BY <2>2, <3>1
    <3>2. CASE e \notin DOMAIN rewards
      BY <2>2, <3>2
    <3>3. QED
      BY <3>1, <3>2
  <2>4. QED
    BY <2>1, <2>3
<1> HIDE DEF paid, raise
<1>6. SumFunction(paid) \in Nat
  BY <1>4, BooksFacts, TotalNat
<1>7. SumFunction(balance') = SumFunction(balance) + SumFunction(paid)
  <2>1. DOMAIN balance' = Accounts
    BY <1>4
  <2>2. QED
    BY <1>4, <2>1, BooksFacts, TotalPlus
<1>8. SumFunction(claims') = SumFunction(claims) + SumFunction(raise)
  BY <1>5, BooksFacts, TotalPlus
<1>9. SumFunction(raise) <= SumFunction(rewards) /\ SumFunction(raise) \in Nat
  <2>1. /\ IsFiniteSet(DOMAIN raise) /\ \A e \in DOMAIN raise : raise[e] \in Nat
        /\ \A e \in DOMAIN raise : raise[e] = 0 \/ (e \in DOMAIN rewards /\ raise[e] <= rewards[e])
    BY <1>5, BooksFacts
  <2>2. QED
    BY <2>1, BooksFacts, TotalWithin, TotalNat
<1>10. SumFunction(claims') <= total'
  BY <1>1, <1>8, <1>9, BooksFacts DEF BooksInv, TotalCoversClaims
<1>11. SumFunction(balance') + total' + lost' = minted' + charged'
  BY <1>1, <1>6, <1>7, BooksFacts DEF BooksInv, RewardsCharged
<1>12. IsMap(claims', Addresses, Nat)
  BY <1>2, BooksFacts DEF BooksInv, BetanetTypeOK, ClaimsTypeOK, IsMap
<1>13. IsMap(vesting', Addresses, Seq(Schedules))
  <2> DEFINE added == {e \in DOMAIN rewards : LeftoverLock(e) > 0}
             new(e) == Append(ListOf(e), LockSchedule(LeftoverLock(e), Default))
  <2>1. vesting' = [e \in DOMAIN vesting \cup added |-> IF e \in added THEN new(e) ELSE vesting[e]]
    BY DEF EnactProgram, ProcessClaims
  <2>2. \A e \in added : new(e) \in Seq(Schedules)
    <3>1. ASSUME NEW e \in added PROVE new(e) \in Seq(Schedules)
      <4>1. /\ ListOf(e) \in Seq(Schedules)
            /\ LockSchedule(LeftoverLock(e), Default) \in Schedules
        BY LeftoverTyped
      <4>2. QED
        BY <4>1
    <3>2. QED
      BY <3>1
  <2>3. added \subseteq Addresses /\ DOMAIN vesting \subseteq Addresses
        /\ \A e \in DOMAIN vesting : vesting[e] \in Seq(Schedules)
    BY MapFacts DEF BooksInv, BetanetTypeOK, ClaimsTypeOK
  <2> HIDE DEF added, new
  <2>4. QED
    BY <2>1, <2>2, <2>3 DEF IsMap
<1>14. IsMap(rewards', Addresses, Nat) /\ IsMap(accounts', Accounts, UserInfo)
  BY <1>1 DEF EmptyMap, IsMap
<1>15. total' \in Nat /\ charged' \in Nat /\ now' \in Nat
  BY <1>1, <1>6, BooksFacts, RewardsAssumption
<1>16. QED
  BY <1>1, <1>4, <1>10, <1>11, <1>12, <1>13, <1>14, <1>15
     DEF BooksInv, BetanetTypeOK, ClaimsTypeOK, TotalCoversClaims, RewardsCharged

\* Steps that leave the coins alone leave the books alone.
LEMMA BooksKept ==
    ASSUME BooksInv, UNCHANGED <<claimVars, ledgerVars, balance, charged>>,
           now' \in Nat, IsMap(accounts', Accounts, UserInfo), approved' \in BOOLEAN
    PROVE  BooksInv'
BY DEF BooksInv, BetanetTypeOK, ClaimsTypeOK, TotalCoversClaims, RewardsCharged,
       claimVars, ledgerVars

LEMMA OptionSelected ==
    ASSUME BooksInv, NEW d \in Accounts, NEW option \in Choices, SelectOption(d, option)
    PROVE  /\ UNCHANGED <<claimVars, ledgerVars, balance, now, approved, charged>>
           /\ DOMAIN accounts' = DOMAIN accounts
           /\ \A x \in DOMAIN accounts : /\ accounts'[x] \in UserInfo
                                         /\ accounts'[x].reward = accounts[x].reward
<1>1. /\ UNCHANGED <<claimVars, ledgerVars, balance, now, approved, charged>>
      /\ accounts' = [accounts EXCEPT ![d].option = option]
      /\ d \in DOMAIN accounts /\ option \in Options
  BY RewardsAssumption DEF SelectOption, allClaimVars, coinVars
<1>2. ASSUME NEW x \in DOMAIN accounts
      PROVE  accounts'[x] \in UserInfo /\ accounts'[x].reward = accounts[x].reward
  <2>1. accounts[x] \in UserInfo
    BY BooksFacts
  <2>2. CASE x = d
    <3>1. accounts'[x] = [accounts[x] EXCEPT !.option = option]
      BY <1>1, <2>2
    <3>2. QED
      BY <1>1, <2>1, <3>1 DEF UserInfo
  <2>3. CASE x # d
    BY <1>1, <2>1, <2>3
  <2>4. QED
    BY <2>2, <2>3
<1>3. QED
  BY <1>1, <1>2

LEMMA BooksStep == BooksInv /\ [BetanetNext]_betanetVars => BooksInv'
<1> SUFFICES ASSUME BooksInv, [BetanetNext]_betanetVars
             PROVE  BooksInv'
  OBVIOUS
<1>1. /\ now \in Nat /\ now + 1 \in Nat /\ approved \in BOOLEAN
      /\ IsMap(accounts, Accounts, UserInfo)
  BY DEF BooksInv, BetanetTypeOK, ClaimsTypeOK
<1>2. ASSUME UNCHANGED <<claimVars, ledgerVars, balance, charged, accounts>>,
             now' = now \/ now' = now + 1, approved' = approved \/ approved' = TRUE
      PROVE  BooksInv'
  BY <1>1, <1>2, BooksKept
<1>3. ASSUME NEW d \in Accounts, NEW option \in Choices, SelectOption(d, option)
      PROVE  BooksInv'
  <2>1. IsMap(accounts', Accounts, UserInfo)
    <3>1. accounts' = [x \in DOMAIN accounts' |-> accounts'[x]]
      BY <1>3 DEF SelectOption
    <3>2. QED
      BY <1>1, <1>3, <3>1, OptionSelected DEF IsMap
  <2>2. UNCHANGED <<claimVars, ledgerVars, balance, now, approved, charged>>
    BY <1>3, OptionSelected
  <2>3. QED
    BY <1>1, <2>1, <2>2, BooksKept
<1>4. CASE Approve
  BY <1>2, <1>4 DEF Approve, allClaimVars, coinVars
<1>5. ASSUME VestStep, UNCHANGED rewardVars PROVE BooksInv'
  BY <1>2, <1>5 DEF VestStep, Vest, rewardVars
<1>6. ASSUME NextBlock, UNCHANGED rewardVars PROVE BooksInv'
  BY <1>2, <1>6 DEF NextBlock, rewardVars
<1>7. CASE UNCHANGED betanetVars
  BY <1>2, <1>7 DEF betanetVars, allClaimVars, coinVars, rewardVars
<1>8. QED
  BY <1>3, <1>4, <1>5, <1>6, <1>7, CollectBooks, AdminBooks, EnactBooks
     DEF BetanetNext, Block

LEMMA MapsTyped ==
    ASSUME NEW K, NEW V, NEW f \in Maps(K, V), NEW L, K \subseteq L, NEW W, V \subseteq W
    PROVE  IsMap(f, L, W)
BY DEF Maps, IsMap

LEMMA BooksInit == BetanetInit => BooksInv
<1> SUFFICES ASSUME BetanetInit PROVE BooksInv
  OBVIOUS
<1> USE DEF BetanetInit, ClaimsInit
<1>1. /\ ClaimAmounts \subseteq Nat /\ RewardAmounts \subseteq Nat
      /\ ScheduleLists \subseteq Seq(Schedules) /\ OpeningBalances \subseteq Nat
  BY ClaimsAssumption
<1>2. IsMap(claims, Addresses, Nat)
  BY <1>1, MapsTyped
<1>3. DOMAIN claims \subseteq Addresses
  BY <1>2, MapFacts
<1>4. /\ IsMap(vesting, Addresses, Seq(Schedules))
      /\ IsMap(signing, Addresses, Statements)
      /\ IsMap(preclaims, Accounts, Addresses)
      /\ IsMap(rewards, Addresses, Nat)
  BY <1>1, <1>3, MapsTyped
<1>5. balance \in [Accounts -> Nat]
  BY <1>1
<1>6. total = SumFunction(claims) /\ total \in Nat
  <2>1. IsFiniteSet(DOMAIN claims) /\ \A e \in DOMAIN claims : claims[e] \in Nat
    BY <1>2, ClaimsAssumption, MapFacts
  <2>2. QED
    BY <2>1, TotalNat
<1>7. SumFunction(balance) \in Nat
  <2>1. IsFiniteSet(DOMAIN balance) /\ \A d \in DOMAIN balance : balance[d] \in Nat
    BY <1>5, VestedCoinsAssumption
  <2>2. QED
    BY <2>1, TotalNat
<1>8. minted = total + SumFunction(balance) /\ lost = 0 /\ charged = 0 /\ now = 0
  OBVIOUS
<1>9. IsMap(accounts, Accounts, UserInfo) /\ approved = FALSE
  BY RewardsAssumption
<1>10. TotalCoversClaims /\ RewardsCharged
  BY <1>6, <1>7, <1>8 DEF TotalCoversClaims, RewardsCharged
<1>11. ClaimsTypeOK
  BY <1>2, <1>4, <1>6, <1>8 DEF ClaimsTypeOK
<1>12. charged \in Nat /\ minted \in Nat /\ lost \in Nat
  BY <1>6, <1>7, <1>8
<1>13. approved \in BOOLEAN
  BY <1>9, Zenon
<1>14. QED
  BY <1>5, <1>9, <1>10, <1>11, <1>12, <1>13 DEF BooksInv, BetanetTypeOK

LEMMA BooksInvariant == BetanetSpec => []BooksInv
BY BooksInit, BooksStep, PTL DEF BetanetSpec

\* The storage of both pallets keeps its types: no balance, no amount of a claim
\* and no Total is ever negative.
THEOREM BetanetTypeCorrect == BetanetSpec => []BetanetTypeOK
<1>1. BooksInv => BetanetTypeOK
  BY DEF BooksInv
<1>2. QED
  BY <1>1, BooksInvariant, PTL

\* Total covers the claims, whatever is minted over a claim, moved onto one or
\* added to one: process_claim never fails for want of Total.
THEOREM ClaimsCovered == BetanetSpec => []TotalCoversClaims
<1>1. BooksInv => TotalCoversClaims
  BY DEF BooksInv
<1>2. QED
  BY <1>1, BooksInvariant, PTL

\* Coins pass between Total and the accounts without being made or lost, save
\* for what is minted, charged, or too small for an account (process_claim,
\* mint_claim, enact_program).
THEOREM CoinsBooked == BetanetSpec => []RewardsCharged
<1>1. BooksInv => RewardsCharged
  BY DEF BooksInv
<1>2. QED
  BY <1>1, BooksInvariant, PTL

-----------------------------------------------------------------------------
(***************************************************************************)
(* No reward is paid twice.                                                *)
(***************************************************************************)
\* The rewards of claims and those of entries, at the best option.
ClaimBest(m) == [e \in DOMAIN m |-> BestReward(m[e])]

EntryBest(m) == [d \in DOMAIN m |-> BestReward(m[d].reward)]

LEMMA OutstandingParts ==
    /\ Outstanding = SumFunction(ClaimBest(rewards)) + SumFunction(EntryBest(accounts))
    /\ Outstanding' = SumFunction(ClaimBest(rewards')) + SumFunction(EntryBest(accounts'))
BY DEF Outstanding, ClaimBest, EntryBest

LEMMA OutstandingFacts ==
    ASSUME BooksInv
    PROVE  /\ IsFiniteSet(DOMAIN ClaimBest(rewards)) /\ IsFiniteSet(DOMAIN EntryBest(accounts))
           /\ DOMAIN ClaimBest(rewards) = DOMAIN rewards
           /\ DOMAIN EntryBest(accounts) = DOMAIN accounts
           /\ \A e \in DOMAIN rewards : /\ ClaimBest(rewards)[e] = BestReward(rewards[e])
                                        /\ ClaimBest(rewards)[e] \in Nat
                                        /\ rewards[e] <= ClaimBest(rewards)[e]
           /\ \A d \in DOMAIN accounts : EntryBest(accounts)[d] \in Nat
           /\ SumFunction(ClaimBest(rewards)) \in Nat
           /\ SumFunction(EntryBest(accounts)) \in Nat
<1>1. /\ DOMAIN ClaimBest(rewards) = DOMAIN rewards
      /\ DOMAIN EntryBest(accounts) = DOMAIN accounts
      /\ \A e \in DOMAIN rewards : ClaimBest(rewards)[e] = BestReward(rewards[e])
      /\ \A d \in DOMAIN accounts : EntryBest(accounts)[d] = BestReward(accounts[d].reward)
  BY DEF ClaimBest, EntryBest
<1>2. ASSUME NEW r \in Nat
      PROVE  BestReward(r) \in Nat /\ r <= BestReward(r)
  <2> DEFINE info == [principal |-> 0, reward |-> r, option |-> Default]
  <2>1. info.reward = r /\ info.option \in Options
    BY DEF Options, Default
  <2> HIDE DEF info
  <2>2. QED
    BY <2>1, BestIsBest
<1>3. \A e \in DOMAIN rewards : /\ ClaimBest(rewards)[e] \in Nat
                                /\ rewards[e] <= ClaimBest(rewards)[e]
  <2>1. \A e \in DOMAIN rewards : rewards[e] \in Nat
    BY BooksFacts
  <2>2. QED
    BY <1>1, <1>2, <2>1
<1>4. \A d \in DOMAIN accounts : EntryBest(accounts)[d] \in Nat
  <2>1. \A d \in DOMAIN accounts : accounts[d].reward \in Nat
    BY BooksFacts DEF UserInfo
  <2>2. QED
    BY <1>1, <1>2, <2>1
<1>5. IsFiniteSet(DOMAIN ClaimBest(rewards)) /\ IsFiniteSet(DOMAIN EntryBest(accounts))
  BY <1>1, BooksFacts
<1>6. SumFunction(ClaimBest(rewards)) \in Nat /\ SumFunction(EntryBest(accounts)) \in Nat
  BY <1>1, <1>3, <1>4, <1>5, TotalNat
<1>7. QED
  BY <1>1, <1>3, <1>4, <1>5, <1>6

\* The reward of a claim moves to the entry of the account that collects it.
LEMMA CollectOutstanding ==
    ASSUME BooksInv, NEW e \in Addresses, NEW d \in Accounts, CollectWithReward(e, d)
    PROVE  Outstanding' <= Outstanding /\ Outstanding' \in Nat /\ charged' = charged
<1> DEFINE R == ClaimBest(rewards)
           A == EntryBest(accounts)
           Rn == ClaimBest(rewards')
           An == EntryBest(accounts')
<1>1. /\ rewards' = Remove(rewards, e) /\ charged' = charged
      /\ e \in DOMAIN rewards /\ now < EnactmentBlock
            => accounts' = Insert(accounts, d, [principal |-> claims[e],
                                      reward |-> rewards[e], option |-> Default])
      /\ ~(e \in DOMAIN rewards /\ now < EnactmentBlock) => accounts' = accounts
  BY CollectEnds DEF CollectWithReward, AddClaimed
<1>2. /\ IsFiniteSet(DOMAIN R) /\ DOMAIN R = DOMAIN rewards
      /\ \A x \in DOMAIN R : R[x] \in Nat /\ R[x] \in Int
      /\ IsFiniteSet(DOMAIN A) /\ \A x \in DOMAIN A : A[x] \in Nat /\ A[x] \in Int
      /\ SumFunction(R) \in Nat /\ SumFunction(A) \in Nat
  BY OutstandingFacts
<1>3. Rn = Remove(R, e)
  BY <1>1 DEF ClaimBest, Remove
<1>4. /\ Outstanding = SumFunction(R) + SumFunction(A)
      /\ Outstanding' = SumFunction(Rn) + SumFunction(An)
  BY OutstandingParts
<1>5. SumFunction(An) \in Nat /\ SumFunction(Rn) \in Nat
  <2>1. BooksInv'
    BY CollectBooks
  <2>2. \A x \in DOMAIN Rn : Rn[x] \in Nat
    BY <1>2, <1>3 DEF Remove
  <2>3. IsFiniteSet(DOMAIN Rn)
    BY <1>2, <1>3, FS_Subset DEF Remove
  <2>4. SumFunction(Rn) \in Nat
    BY <2>2, <2>3, TotalNat
  <2>5. SumFunction(An) \in Nat
    <3>1. CASE accounts' = accounts
      BY <1>2, <3>1
    <3>2. CASE accounts' # accounts
      <4>1. e \in DOMAIN R
        BY <1>1, <1>2, <3>2
      <4>2. An = Insert(A, d, R[e])
        BY <1>1, <3>2, <4>1 DEF ClaimBest, EntryBest, Insert
      <4>3. IsFiniteSet(DOMAIN An)
        BY <1>2, <4>2, FS_AddElement DEF Insert
      <4>4. \A x \in DOMAIN An : An[x] \in Nat
        BY <1>2, <4>1, <4>2 DEF Insert
      <4>5. QED
        BY <4>3, <4>4, TotalNat
    <3>3. QED
      BY <3>1, <3>2
  <2>6. QED
    BY <2>4, <2>5
<1>6. CASE e \in DOMAIN rewards
  <2>1. e \in DOMAIN R /\ R[e] \in Nat
    BY <1>2, <1>6
  <2>2. SumFunction(Rn) = SumFunction(R) - R[e]
    <3> HIDE DEF R, Rn
    <3>1. QED
      BY <1>2, <1>3, <2>1, TotalRemove
  <2>3. SumFunction(An) <= SumFunction(A) + R[e]
    <3>1. CASE accounts' = accounts
      BY <1>2, <2>1, <3>1
    <3>2. CASE accounts' # accounts
      <4>1. An = Insert(A, d, R[e])
        BY <1>1, <1>6, <2>1, <3>2 DEF ClaimBest, EntryBest, Insert
      <4> HIDE DEF A, An, R
      <4>2. SumFunction(An) = SumFunction(A) - (IF d \in DOMAIN A THEN A[d] ELSE 0) + R[e]
        BY <1>2, <2>1, <4>1, TotalInsert
      <4>3. (IF d \in DOMAIN A THEN A[d] ELSE 0) \in Nat
        BY <1>2
      <4>4. QED
        BY <1>2, <2>1, <4>2, <4>3
    <3>3. QED
      BY <3>1, <3>2
  <2> HIDE DEF A, An, R, Rn
  <2>4. QED
    BY <1>1, <1>2, <1>4, <1>5, <2>1, <2>2, <2>3
<1>7. CASE e \notin DOMAIN rewards
  <2>1. An = A
    BY <1>1, <1>7
  <2>2. SumFunction(Rn) = SumFunction(R)
    <3>1. DOMAIN Rn = DOMAIN R /\ \A x \in DOMAIN R : Rn[x] = R[x]
      BY <1>2, <1>3, <1>7 DEF Remove
    <3> HIDE DEF R, Rn
    <3>2. QED
      BY <1>2, <3>1, TotalSame
  <2> HIDE DEF A, An, R, Rn
  <2>3. QED
    BY <1>1, <1>2, <1>4, <2>1, <2>2
<1>8. QED
  BY <1>6, <1>7

\* What the enactment charges was outstanding, and nothing is afterwards.
LEMMA EnactOutstanding ==
    ASSUME BooksInv, EnactProgram
    PROVE  Outstanding' = 0 /\ charged' <= charged + Outstanding
<1> DEFINE paid == [d \in Accounts |-> Reward(d)]
           R == ClaimBest(rewards)
           A == EntryBest(accounts)
<1>1. /\ rewards' = EmptyMap /\ accounts' = EmptyMap
      /\ charged' = charged + (SumFunction(paid) + SumFunction(rewards))
  BY DEF EnactProgram, ProcessRewards, ProcessClaims, Charge
<1>2. Outstanding' = 0
  <2>1. DOMAIN ClaimBest(rewards') = {} /\ DOMAIN EntryBest(accounts') = {}
    BY <1>1 DEF ClaimBest, EntryBest, EmptyMap
  <2>2. QED
    BY <2>1, OutstandingParts, TotalEmpty
<1>3. /\ DOMAIN paid = Accounts /\ IsFiniteSet(Accounts)
      /\ \A d \in Accounts : paid[d] \in Nat
      /\ \A d \in Accounts : paid[d] = 0 \/ (d \in DOMAIN A /\ paid[d] <= A[d])
  <2>1. ASSUME NEW d \in Accounts
        PROVE  paid[d] \in Nat /\ (paid[d] = 0 \/ (d \in DOMAIN A /\ paid[d] <= A[d]))
    BY RewardPaid DEF BooksInv, BetanetTypeOK, EntryBest
  <2> HIDE DEF paid, A
  <2>2. DOMAIN paid = Accounts
    BY DEF paid
  <2>3. QED
    BY <2>1, <2>2, BooksFacts
<1>4. /\ IsFiniteSet(DOMAIN R) /\ DOMAIN R = DOMAIN rewards
      /\ \A x \in DOMAIN rewards : R[x] \in Int /\ rewards[x] \in Int /\ rewards[x] <= R[x]
      /\ IsFiniteSet(DOMAIN A) /\ \A x \in DOMAIN A : A[x] \in Nat
      /\ SumFunction(R) \in Nat /\ SumFunction(A) \in Nat
  <2>1. \A x \in DOMAIN rewards : rewards[x] \in Nat
    BY BooksFacts
  <2>2. QED
    BY <2>1, OutstandingFacts
<1>5. Outstanding = SumFunction(R) + SumFunction(A)
  BY OutstandingParts
<1> HIDE DEF paid, R, A
<1>6. SumFunction(paid) <= SumFunction(A) /\ SumFunction(paid) \in Nat
  BY <1>3, <1>4, TotalWithin, TotalNat
<1>7. SumFunction(rewards) <= SumFunction(R)
  BY <1>4, BooksFacts, TotalMonotone
<1>8. QED
  BY <1>1, <1>2, <1>4, <1>5, <1>6, <1>7, BooksFacts

LEMMA OutstandingStep ==
    BooksInv /\ [BetanetNext]_betanetVars
        => [charged' + Outstanding' <= charged + Outstanding]_betanetVars
<1> SUFFICES ASSUME BooksInv, BetanetNext
             PROVE  charged' + Outstanding' <= charged + Outstanding
  OBVIOUS
<1>1. charged \in Nat /\ Outstanding \in Nat
  <2>1. SumFunction(ClaimBest(rewards)) \in Nat /\ SumFunction(EntryBest(accounts)) \in Nat
    BY OutstandingFacts
  <2>2. QED
    BY <2>1, BooksFacts, OutstandingParts
<1>2. ASSUME NEW e \in Addresses, NEW d \in Accounts, CollectWithReward(e, d)
      PROVE  charged' + Outstanding' <= charged + Outstanding
  BY <1>1, <1>2, CollectOutstanding
<1>3. ASSUME NEW d \in Accounts, NEW option \in Choices, SelectOption(d, option)
      PROVE  charged' + Outstanding' <= charged + Outstanding
  <2>1. /\ charged' = charged /\ rewards' = rewards
        /\ DOMAIN accounts' = DOMAIN accounts
        /\ \A x \in DOMAIN accounts : accounts'[x].reward = accounts[x].reward
    BY <1>3, OptionSelected DEF claimVars
  <2>2. EntryBest(accounts') = EntryBest(accounts)
    BY <2>1 DEF EntryBest
  <2>3. Outstanding' = Outstanding
    BY <2>1, <2>2, OutstandingParts
  <2>4. QED
    BY <1>1, <2>1, <2>3
<1>4. CASE EnactProgram
  <2>1. charged' <= charged + Outstanding
    BY <1>4, EnactOutstanding
  <2>2. Outstanding' = 0
    BY <1>4, EnactOutstanding
  <2>3. charged' \in Nat
    <3>1. BooksInv'
      BY <1>4, EnactBooks
    <3>2. QED
      BY <3>1 DEF BooksInv, BetanetTypeOK
  <2>4. QED
    BY <2>1, <2>2, <2>3
<1>5. ASSUME UNCHANGED <<rewards, accounts, charged>>
      PROVE  charged' + Outstanding' <= charged + Outstanding
  <2>1. Outstanding' = Outstanding
    BY <1>5, OutstandingParts
  <2>2. QED
    BY <1>1, <1>5, <2>1
<1>6. ASSUME ClaimsAdmin \/ VestStep \/ NextBlock, UNCHANGED rewardVars
      PROVE  UNCHANGED <<rewards, accounts, charged>>
  BY <1>6 DEF ClaimsAdmin, MintClaim, MoveClaim, VestStep, NextBlock, claimVars, rewardVars
<1>7. CASE Approve
  BY <1>5, <1>7 DEF Approve, allClaimVars, claimVars
<1>8. QED
  BY <1>2, <1>3, <1>4, <1>5, <1>6, <1>7 DEF BetanetNext, Block

\* Whoever collects a claim, and whichever of its two ways the reward is paid, it
\* is paid once: what was charged and what is outstanding at the best option
\* never add up to more than before, for any rewards, options and order of steps.
THEOREM RewardPaidOnce == BetanetSpec => NoRewardTwice
BY BooksInvariant, OutstandingStep, PTL DEF BetanetSpec, NoRewardTwice

-----------------------------------------------------------------------------
(***************************************************************************)
(* What is locked of a leftover claim.                                     *)
(***************************************************************************)
\* A schedule that starts with the enactment block locks all of its amount then.
LEMMA ListLockAppend ==
    ASSUME NEW list \in Seq(Schedules), NEW s \in Schedules, s.start = EnactmentBlock
    PROVE  ListLock(Append(list, s)) = ListLock(list) + s.locked
<1> DEFINE lock(x) == Monus(x.locked, x.perBlock * Monus(EnactmentBlock, x.start))
           f == [i \in DOMAIN list |-> lock(list[i])]
           longer == Append(list, s)
           g == [i \in DOMAIN longer |-> lock(longer[i])]
           n == Len(list) + 1
<1>1. /\ Len(list) \in Nat /\ DOMAIN list = 1..Len(list) /\ DOMAIN longer = 1..n
      /\ longer[n] = s /\ \A i \in DOMAIN list : longer[i] = list[i]
  OBVIOUS
<1>2. n \notin DOMAIN list /\ DOMAIN longer = DOMAIN list \cup {n}
  BY <1>1
<1>3. lock(s) = s.locked /\ s.locked \in Nat
  <2>1. s.locked \in Nat /\ s.perBlock \in Nat /\ Monus(EnactmentBlock, s.start) = 0
    BY RewardsAssumption DEF Schedules, Monus
  <2>2. s.perBlock * Monus(EnactmentBlock, s.start) = 0
    BY <2>1
  <2>3. QED
    BY <2>1, <2>2 DEF Monus
<1>4. IsFiniteSet(DOMAIN list) /\ \A i \in DOMAIN list : lock(list[i]) \in Nat
  BY ListLockNat
<1>5. ListLock(list) = SumFunction(f) /\ ListLock(longer) = SumFunction(g)
  BY DEF ListLock
<1> HIDE DEF lock, longer, n
<1>6. /\ DOMAIN f = DOMAIN list /\ DOMAIN g = DOMAIN f \cup {n} /\ n \notin DOMAIN f
      /\ \A i \in DOMAIN f : f[i] \in Int /\ g[i] = f[i]
      /\ g[n] = s.locked /\ g[n] \in Int
  <2>1. DOMAIN f = DOMAIN list /\ DOMAIN g = DOMAIN longer
    OBVIOUS
  <2>2. ASSUME NEW i \in DOMAIN list
        PROVE  f[i] = lock(list[i]) /\ g[i] = lock(list[i]) /\ lock(list[i]) \in Int
    <3>1. i \in DOMAIN longer /\ longer[i] = list[i]
      BY <1>1, <1>2
    <3>2. f[i] = lock(list[i])
      OBVIOUS
    <3>3. g[i] = lock(longer[i])
      BY <3>1
    <3>4. lock(list[i]) \in Int
      BY <1>4
    <3>5. lock(longer[i]) = lock(list[i])
      BY <3>1
    <3>6. QED
      BY <3>2, <3>3, <3>4, <3>5
  <2>3. g[n] = s.locked
    BY <1>1, <1>2, <1>3
  <2> HIDE DEF f, g
  <2>4. QED
    BY <1>2, <1>3, <2>1, <2>2, <2>3
<1> HIDE DEF f, g
<1>7. SumFunction(g) = SumFunction(f) + g[n]
  <2>1. IsFiniteSet(DOMAIN f)
    BY <1>4, <1>6
  <2>2. QED
    BY <1>6, <2>1, TotalExtended
<1>8. QED
  BY <1>5, <1>6, <1>7 DEF longer

\* More of a principal is locked of a larger one.
LEMMA DesiredMonotone ==
    ASSUME NEW principal \in Nat, NEW more \in Nat, NEW reward \in Nat
    PROVE  DesiredLock(Default, principal, reward)
              <= DesiredLock(Default, principal + more, reward)
<1>1. PrincipalLock[Default] = 80
  BY DEF PrincipalLock, Default
<1>2. PercentOf(80, principal) <= PercentOf(80, principal + more)
  BY DEF PercentOf
<1>3. PercentOf(80, principal) \in Nat /\ PercentOf(80, principal + more) \in Nat
  <2>1. 80 \in Nat /\ principal + more \in Nat
    OBVIOUS
  <2>2. QED
    BY <2>1, PercentNat
<1>4. QED
  BY <1>1, <1>2, <1>3 DEF DesiredLock

LEMMA EnactLocks ==
    ASSUME BooksInv, EnactProgram, NEW e \in DOMAIN rewards \cap DOMAIN claims
    PROVE  ListLock(ListOf(e)') >= DesiredLock(Default, claims[e], rewards[e])
<1> DEFINE lock == LeftoverLock(e)
           list == ListOf(e)
           s == LockSchedule(lock, Default)
           desired == DesiredLock(Default, claims[e] + rewards[e], rewards[e])
<1>1. list \in Seq(Schedules) /\ lock \in Nat /\ s \in Schedules
  BY LeftoverTyped
<1>2. claims[e] \in Nat /\ rewards[e] \in Nat
  BY BooksFacts
<1>3. DesiredLock(Default, claims[e], rewards[e]) <= desired
  BY <1>2, DesiredMonotone
<1>4. /\ DesiredLock(Default, claims[e], rewards[e]) \in Nat /\ desired \in Nat
      /\ ListLock(list) \in Nat
  <2>1. Default \in Options /\ claims[e] + rewards[e] \in Nat
    BY <1>2 DEF Default, Options
  <2>2. DesiredLock(Default, claims[e], rewards[e]) \in Nat /\ desired \in Nat
    BY <1>2, <2>1, DesiredNat
  <2>3. ListLock(list) \in Nat
    <3> HIDE DEF list
    <3>1. QED
      BY <1>1, ListLockNat
  <2>4. QED
    BY <2>2, <2>3
<1>5. lock = Monus(desired, ListLock(list))
  BY DEF LeftoverLock
<1>6. ListOf(e)' = IF lock > 0 THEN Append(list, s) ELSE list
  BY DEF EnactProgram, ProcessClaims, ListOf
<1>7. s.locked = lock /\ s.start = EnactmentBlock
  BY DEF LockSchedule
<1> HIDE DEF lock, list, s, desired
<1>8. lock > 0 => ListLock(Append(list, s)) = ListLock(list) + lock
  BY <1>1, <1>7, ListLockAppend
<1>9. ListLock(ListOf(e)') >= desired
  BY <1>1, <1>4, <1>5, <1>6, <1>8 DEF Monus
<1>10. QED
  <2>1. ListLock(ListOf(e)') \in Nat
    BY <1>1, <1>4, <1>6, <1>8
  <2>2. QED
    BY <1>3, <1>4, <1>9, <2>1

\* Whatever schedules a claim has, once its reward is added it has locked what
\* the default option would have locked of it (process_leftover_claim,
\* compute_claims_vesting_lock).
THEOREM LeftoversAreLocked == BetanetSpec => LeftoverLocked
<1>1. BooksInv /\ [BetanetNext]_betanetVars
          => [EnactProgram =>
                \A e \in DOMAIN rewards \cap DOMAIN claims :
                    ListLock(ListOf(e)') >= DesiredLock(Default, claims[e], rewards[e])
             ]_betanetVars
  BY EnactLocks
<1>2. QED
  BY <1>1, BooksInvariant, PTL DEF BetanetSpec, LeftoverLocked

-----------------------------------------------------------------------------
(* The locks of the accounts that approved. *)

\* No account has more schedules than it may have.
LocksInv == schedules \in [Accounts -> ListsOf]

\* What the enactment locks on an account.
LEMMA AccountLockFacts ==
    ASSUME BooksInv, LocksInv, NEW d \in DOMAIN accounts, accounts[d].option # "NoVesting"
    PROVE  LET info == accounts[d]
               desired == DesiredLock(info.option, info.principal, RewardAmount(info))
           IN  /\ d \in Accounts /\ schedules[d] \in ListsOf
               /\ desired \in Nat
               /\ TotalLockedAt(schedules[d], EnactmentBlock) \in Nat
               /\ AccountLock(d) \in Nat
               /\ desired <= AccountLock(d) + TotalLockedAt(schedules[d], EnactmentBlock)
               /\ VestingPeriod(info.option) \in Nat \ {0}
               /\ LockSchedule(AccountLock(d), info.option) \in Schedules
<1> DEFINE info == accounts[d]
           reward == RewardAmount(info)
           desired == DesiredLock(info.option, info.principal, reward)
           free == balance[d] + Reward(d)
           locked == TotalLockedAt(schedules[d], EnactmentBlock)
           lock == AccountLock(d)
           period == VestingPeriod(info.option)
<1>1. d \in Accounts /\ info \in UserInfo
  BY MapFacts DEF BooksInv, BetanetTypeOK
<1>2. info.option \in Options /\ info.principal \in Nat /\ info.reward \in Nat
  BY <1>1 DEF UserInfo
<1>3. reward \in Nat
  <2> HIDE DEF info
  <2>1. QED
    BY <1>2, BestIsBest
<1>4. desired \in Nat
  <2> HIDE DEF reward, info
  <2>1. QED
    BY <1>2, <1>3, DesiredNat
<1>5. schedules[d] \in ListsOf
  BY <1>1 DEF LocksInv
<1>6. locked \in Nat
  BY <1>5, LockedParts, RewardsAssumption DEF ListsOf
<1>7. free \in Nat
  BY <1>1, RewardPaid, BooksFacts DEF BooksInv, BetanetTypeOK
<1>8. lock = Monus(desired, Min2(free, locked))
  BY DEF AccountLock, VestingBalance
<1>9. period \in Nat \ {0}
  BY <1>2, RewardsAssumption DEF VestingPeriod, VestingMonths, Options
<1> HIDE DEF free, locked, lock, desired, reward, period
<1>10. lock \in Nat /\ desired <= lock + locked
  BY <1>4, <1>6, <1>7, <1>8 DEF Monus, Min2
<1>11. lock \div period \in Nat
  BY <1>9, <1>10
<1>12. LockSchedule(lock, info.option) \in Schedules
  BY <1>10, <1>11, RewardsAssumption DEF LockSchedule, Schedules, period
<1>13. QED
  BY <1>1, <1>4, <1>5, <1>6, <1>9, <1>10, <1>12
     DEF lock, desired, reward, locked, period

LEMMA LocksInit == BetanetInit => LocksInv
<1> SUFFICES ASSUME BetanetInit PROVE LocksInv
  OBVIOUS
<1>1. schedules \in OpeningSchedules
  BY DEF BetanetInit, ClaimsInit
<1>2. /\ schedules \in [Accounts -> Seq(Schedules)]
      /\ \A d \in Accounts : Len(schedules[d]) <= MaxSchedules
  BY <1>1, ClaimsAssumption
<1>3. \A d \in Accounts : schedules[d] \in ListsOf
  BY <1>2 DEF ListsOf
<1>4. QED
  BY <1>2, <1>3 DEF LocksInv

LEMMA LocksStep == BooksInv /\ LocksInv /\ [BetanetNext]_betanetVars => LocksInv'
<1> SUFFICES ASSUME BooksInv, LocksInv, [BetanetNext]_betanetVars PROVE LocksInv'
  OBVIOUS
<1>1. now \in Nat /\ IsMap(vesting, Addresses, Seq(Schedules))
  BY DEF BooksInv, BetanetTypeOK, ClaimsTypeOK
<1>2. ASSUME UNCHANGED schedules PROVE LocksInv'
  BY <1>2 DEF LocksInv
<1>3. ASSUME NEW e \in Addresses, NEW d \in Accounts, CollectWithReward(e, d)
      PROVE  LocksInv'
  <2>1. e \in DOMAIN vesting => AddSchedules(<<>>, vesting[e], now) \in ListsOf
    BY <1>1, MapFacts, EmptyListed, AddedListTyped
  <2>2. schedules' = [schedules EXCEPT ![d] =
                         IF e \in DOMAIN vesting THEN AddSchedules(<<>>, vesting[e], now) ELSE @]
    BY <1>3 DEF CollectWithReward, Collect, Claim, ClaimAttest, Attest, ProcessClaim
  <2>3. QED
    BY <2>1, <2>2 DEF LocksInv
<1>4. ASSUME VestStep PROVE LocksInv'
  <2>1. PICK d \in Accounts : schedules' = [schedules EXCEPT ![d] = Unfinished(@, now)]
    BY <1>4 DEF VestStep, Vest
  <2>2. schedules[d] \in Seq(Schedules) /\ Len(schedules[d]) <= MaxSchedules
    BY DEF LocksInv, ListsOf
  <2>3. /\ Unfinished(schedules[d], now) \in Seq(Schedules)
        /\ Len(Unfinished(schedules[d], now)) <= Len(schedules[d])
    BY <1>1, <2>2, UnfinishedFacts
  <2>4. Len(Unfinished(schedules[d], now)) \in Nat /\ Len(schedules[d]) \in Nat
    BY <2>2, <2>3
  <2>5. Unfinished(schedules[d], now) \in ListsOf
    BY <2>2, <2>3, <2>4, VestedCoinsAssumption DEF ListsOf
  <2>6. QED
    BY <2>1, <2>5 DEF LocksInv
<1>5. ASSUME EnactProgram PROVE LocksInv'
  <2>1. schedules' = [d \in Accounts |-> SchedulesAfter(d)]
    BY <1>5 DEF EnactProgram, ProcessRewards
  <2>2. ASSUME NEW d \in Accounts PROVE SchedulesAfter(d) \in ListsOf
    <3>1. CASE d \notin DOMAIN accounts \/ accounts[d].option = "NoVesting"
      BY <3>1 DEF SchedulesAfter, LocksInv
    <3>2. CASE d \in DOMAIN accounts /\ accounts[d].option # "NoVesting"
      <4> DEFINE s == LockSchedule(AccountLock(d), accounts[d].option)
      <4>1. s \in Schedules /\ schedules[d] \in ListsOf
        BY <3>2, AccountLockFacts
      <4>2. SchedulesAfter(d) = AddSchedule(schedules[d], s, EnactmentBlock)
        BY <3>2 DEF SchedulesAfter
      <4> HIDE DEF s
      <4>3. QED
        BY <4>1, <4>2, AddedFacts, RewardsAssumption
    <3>3. QED
      BY <3>1, <3>2
  <2>3. QED
    BY <2>1, <2>2 DEF LocksInv
<1>6. ASSUME ClaimsAdmin PROVE LocksInv'
  BY <1>2, <1>6 DEF ClaimsAdmin, MintClaim, MoveClaim, coinVars
<1>7. ASSUME NEW d \in Accounts, NEW option \in Choices, SelectOption(d, option)
      PROVE  LocksInv'
  BY <1>2, <1>7 DEF SelectOption, allClaimVars, coinVars
<1>8. CASE Approve
  BY <1>2, <1>8 DEF Approve, allClaimVars, coinVars
<1>9. CASE NextBlock
  BY <1>2, <1>9 DEF NextBlock
<1>10. CASE UNCHANGED betanetVars
  BY <1>2, <1>10 DEF betanetVars, allClaimVars, coinVars
<1>11. QED
  BY <1>3, <1>4, <1>5, <1>6, <1>7, <1>8, <1>9, <1>10 DEF BetanetNext, Block

LEMMA EnactLocksChosen ==
    ASSUME BooksInv, LocksInv, EnactProgram, NEW d \in DOMAIN accounts,
           accounts[d].option # "NoVesting", Len(schedules[d]) # MaxSchedules
    PROVE  TotalLockedAt(schedules'[d], EnactmentBlock) + VestingPeriod(accounts[d].option)
              > DesiredLock(accounts[d].option, accounts[d].principal,
                            RewardAmount(accounts[d]))
<1> DEFINE q == schedules[d]
           lock == AccountLock(d)
           s == LockSchedule(lock, accounts[d].option)
           desired == DesiredLock(accounts[d].option, accounts[d].principal,
                                  RewardAmount(accounts[d]))
           period == VestingPeriod(accounts[d].option)
           n == EnactmentBlock
<1>1. /\ d \in Accounts /\ q \in ListsOf
      /\ desired \in Nat /\ TotalLockedAt(q, n) \in Nat
      /\ lock \in Nat /\ desired <= lock + TotalLockedAt(q, n)
      /\ period \in Nat \ {0} /\ s \in Schedules
  BY AccountLockFacts
<1>2. schedules'[d] = AddSchedule(q, s, n)
  BY <1>1 DEF EnactProgram, ProcessRewards, SchedulesAfter
<1>3. s.locked = lock /\ s.perBlock = lock \div period /\ s.start = n /\ n \in Nat
  BY RewardsAssumption DEF LockSchedule
<1>4. q \in Seq(Schedules) /\ Len(q) \in Nat /\ Len(q) < MaxSchedules
  BY <1>1, VestedCoinsAssumption DEF ListsOf
<1> HIDE DEF q, lock, s, desired, period, n
<1>5. CASE IsValid(s)
  <2>1. AddSchedule(q, s, n) = Unfinished(Append(q, s), n)
    BY <1>4, <1>5 DEF AddSchedule
  <2>2. Append(q, s) \in Seq(Schedules)
    BY <1>1, <1>4
  <2>3. TotalLockedAt(Unfinished(Append(q, s), n), n) = TotalLockedAt(q, n) + LockedAt(s, n)
    BY <1>1, <1>3, <1>4, <2>2, UnfinishedFacts, LockedAppend
  <2>4. LockedAt(s, n) = lock
    <3>1. Monus(n, s.start) = 0
      BY <1>3 DEF Monus
    <3>2. s.perBlock \in Nat
      BY <1>1 DEF Schedules
    <3>3. Max2(s.perBlock, 1) * Monus(n, s.start) = 0
      BY <3>1, <3>2 DEF Max2
    <3>4. QED
      BY <1>1, <1>3, <3>3 DEF LockedAt, Monus
  <2>5. TotalLockedAt(schedules'[d], n) = TotalLockedAt(q, n) + lock
    BY <1>2, <2>1, <2>3, <2>4
  <2>6. TotalLockedAt(schedules'[d], n) + period > desired
    BY <1>1, <2>5
  <2>7. QED
    BY <2>6 DEF n, period, desired
<1>6. CASE ~IsValid(s)
  <2>1. schedules'[d] = q
    BY <1>2, <1>6 DEF AddSchedule
  <2>2. lock < period
    <3>1. lock = 0 \/ lock \div period = 0
      <4>1. lock \div period \in Nat
        BY <1>1
      <4>2. QED
        BY <1>1, <1>3, <1>6, <4>1 DEF IsValid
    <3>2. QED
      BY <1>1, <3>1
  <2>3. TotalLockedAt(schedules'[d], n) + period > desired
    BY <1>1, <2>1, <2>2
  <2>4. QED
    BY <2>3 DEF n, period, desired
<1>7. QED
  BY <1>5, <1>6

\* Whatever an account had locked before, it has locked after the enactment what
\* its option demands, less than a coin per block of vesting apart: what its
\* earlier schedules lock is counted once, and a schedule that pallet_vesting
\* refuses would have locked less than that (process_account).
THEOREM ChosenAmountIsLocked == BetanetSpec => LocksChosenAmount
<1> DEFINE Locked(d) ==
               LET info == accounts[d]
               IN  \/ info.option = "NoVesting"
                   \/ Len(schedules[d]) = MaxSchedules
                   \/ TotalLockedAt(schedules'[d], EnactmentBlock)
                          + VestingPeriod(info.option)
                        > DesiredLock(info.option, info.principal, RewardAmount(info))
<1>1. ASSUME BooksInv, LocksInv, EnactProgram, NEW d \in DOMAIN accounts
      PROVE  Locked(d)
  BY <1>1, EnactLocksChosen
<1>2. BooksInv /\ LocksInv /\ [BetanetNext]_betanetVars
          => [EnactProgram => \A d \in DOMAIN accounts : Locked(d)]_betanetVars
  BY <1>1
<1>3. QED
  BY <1>2, BooksInit, BooksStep, LocksInit, LocksStep, PTL DEF BetanetSpec, LocksChosenAmount
=============================================================================

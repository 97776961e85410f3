-------------------------------- MODULE Claims --------------------------------
(***************************************************************************)
(* The claims pallet (claims/src/lib.rs): coins that wait for the holder   *)
(* of an Ethereum address to claim them to an account, possibly with       *)
(* vesting schedules and with a statement that has to be signed first.     *)
(*                                                                         *)
(* A signature is modelled by who can make it: the holder of an address    *)
(* may name any account and sign any statement.  Unsigned transactions     *)
(* enter a block only if validate_unsigned accepts them, so its checks are *)
(* part of Claim and ClaimAttest.                                          *)
(***************************************************************************)
EXTENDS VestedCoins

CONSTANTS Addresses,        \* Ethereum addresses
          Statements,       \* StatementKind
          None,             \* an optional argument that is not given
          ClaimAmounts,     \* amounts at genesis and in mint_claim
          RewardAmounts,    \* BetaNet rewards at genesis
          ScheduleLists,    \* vesting schedules of a claim
          OpeningBalances,  \* balances of accounts at genesis
          OpeningSchedules, \* schedules of accounts at genesis
          MaxMinted         \* bound: coins at genesis and minted

ASSUME ClaimsAssumption ==
    /\ IsFiniteSet(Addresses)
    /\ None \notin Statements \cup ScheduleLists \cup Accounts
    /\ ClaimAmounts \subseteq Nat
    /\ RewardAmounts \subseteq Nat
    /\ ScheduleLists \subseteq Seq(Schedules)
    /\ OpeningBalances \subseteq Nat
    /\ OpeningSchedules \subseteq [Accounts -> Seq(Schedules)]
    /\ \A q \in OpeningSchedules : \A d \in Accounts : Len(q[d]) <= MaxSchedules

VARIABLES claims,     \* Claims: address -> amount
          total,      \* Total
          vesting,    \* Vesting: address -> schedules of its claim
          signing,    \* Signing: address -> statement to be signed
          preclaims,  \* Preclaims: account -> address
          rewards,    \* Rewards: address -> BetaNet reward
          minted,     \* coins that exist since genesis or were minted as claims
          lost        \* coins of claims too small to create their account

claimVars == <<claims, total, vesting, signing, preclaims, rewards>>
ledgerVars == <<minted, lost>>
coinVars == <<balance, schedules, now>>
allClaimVars == <<claimVars, ledgerVars, coinVars>>

\* Each entry of the genesis list names an address once; vesting schedules
\* are configured for addresses of that list.
ClaimsInit ==
    /\ claims \in Maps(Addresses, ClaimAmounts)
    /\ total = SumFunction(claims)
    /\ vesting \in Maps(DOMAIN claims, ScheduleLists)
    /\ signing \in Maps(DOMAIN claims, Statements)
    /\ preclaims \in Maps(Accounts, DOMAIN claims)
    /\ IsInjective(preclaims)
    /\ rewards \in Maps(DOMAIN claims, RewardAmounts)
    /\ balance \in [Accounts -> OpeningBalances]
    /\ schedules \in OpeningSchedules
    /\ now = 0
    /\ minted = total + SumFunction(balance)
    /\ lost = 0

-----------------------------------------------------------------------------
(* Claiming. *)

\* Variant: the reward is read and not taken.
RewardsKept(e) == rewards

\* The reward of a claim is taken when the claim is collected.
RewardsLeft(e) == Remove(rewards, e)

\* Variant: Total is not written back.
TotalUnchanged(e) == total

\* Total once the claim of e is paid.
TotalLeft(e) == total - claims[e]

\* process_claim, save for the entry that RewardHandler::add_claimed makes.
ProcessClaim(e, d) ==
    /\ e \in DOMAIN claims
    /\ claims[e] <= total
    /\ e \in DOMAIN vesting => schedules[d] = <<>>
    /\ balance' = [balance EXCEPT ![d] = @ + Credited(d, claims[e])]
    /\ lost' = lost + claims[e] - Credited(d, claims[e])
    /\ schedules' = [schedules EXCEPT ![d] =
                        IF e \in DOMAIN vesting THEN AddSchedules(<<>>, vesting[e], now) ELSE @]
    /\ rewards' = RewardsLeft(e)
    /\ total' = TotalLeft(e)
    /\ claims' = Remove(claims, e)
    /\ vesting' = Remove(vesting, e)
    /\ signing' = Remove(signing, e)
    /\ UNCHANGED <<minted, now>>

\* validate_unsigned: there is a claim, and the statement is the one that is
\* due, or there is neither.
ValidUnsigned(e, statement) ==
    /\ e \in DOMAIN claims
    /\ statement = IF e \in DOMAIN signing THEN signing[e] ELSE None

Claim(e, d) ==
    /\ ValidUnsigned(e, None)
    /\ ProcessClaim(e, d)
    /\ UNCHANGED preclaims

ClaimAttest(e, d, s) ==
    /\ ValidUnsigned(e, s)
    /\ ProcessClaim(e, d)
    /\ UNCHANGED preclaims

\* attest: the account to which a claim is pre-assigned collects it.
Attest(d, s) ==
    /\ d \in DOMAIN preclaims
    /\ preclaims[d] \in DOMAIN signing => signing[preclaims[d]] = s
    /\ ProcessClaim(preclaims[d], d)
    /\ preclaims' = Remove(preclaims, d)

\* Account d collects the claim of address e in one of the three ways.
Collect(e, d) ==
    \/ Claim(e, d)
    \/ \E s \in Statements : ClaimAttest(e, d, s)
    \/ /\ d \in DOMAIN preclaims /\ preclaims[d] = e
       /\ \E s \in Statements : Attest(d, s)

-----------------------------------------------------------------------------
(* Administration. *)

\* Variant: what is not given is stored all the same.
InsertAlways(f, e, value) == Insert(f, e, value)

\* A schedule list or a statement is stored only if one is given.
InsertGiven(f, e, value) == IF value = None THEN f ELSE Insert(f, e, value)

\* Variant: a claim that replaces another does not add to Total.
MintClaimUncounted(e, amount, list, statement) ==
    /\ minted + amount <= MaxMinted
    /\ total' = IF e \in DOMAIN claims THEN total ELSE total + amount
    /\ claims' = Insert(claims, e, amount)
    /\ vesting' = InsertGiven(vesting, e, list)
    /\ signing' = InsertGiven(signing, e, statement)
    /\ minted' = minted + amount
    /\ UNCHANGED <<preclaims, rewards, lost, coinVars>>

\* mint_claim: an earlier claim of the address is replaced.
MintClaim(e, amount, list, statement) ==
    /\ minted + amount <= MaxMinted
    /\ total' = total + amount
    /\ claims' = Insert(claims, e, amount)
    /\ vesting' = InsertGiven(vesting, e, list)
    /\ signing' = InsertGiven(signing, e, statement)
    /\ minted' = minted + amount
    /\ UNCHANGED <<preclaims, rewards, lost, coinVars>>

\* Variant: the statement stays with the old address.
MoveClaimWithoutStatement(old, new, d) ==
    /\ claims' = Move(claims, old, new)
    /\ vesting' = Move(vesting, old, new)
    /\ preclaims' = IF d \in DOMAIN preclaims /\ preclaims[d] = old
                    THEN [preclaims EXCEPT ![d] = new] ELSE preclaims
    /\ UNCHANGED <<total, signing, rewards, ledgerVars, coinVars>>

\* move_claim: the BetaNet reward stays where it is.
MoveClaim(old, new, d) ==
    /\ claims' = Move(claims, old, new)
    /\ vesting' = Move(vesting, old, new)
    /\ signing' = Move(signing, old, new)
    /\ preclaims' = IF d \in DOMAIN preclaims /\ preclaims[d] = old
                    THEN [preclaims EXCEPT ![d] = new] ELSE preclaims
    /\ UNCHANGED <<total, rewards, ledgerVars, coinVars>>

ClaimsAdmin ==
    \/ \E e \in Addresses, amount \in ClaimAmounts, list \in ScheduleLists \cup {None},
          statement \in Statements \cup {None} : MintClaim(e, amount, list, statement)
    \/ \E old, new \in Addresses, d \in Accounts \cup {None} : MoveClaim(old, new, d)

NextBlock ==
    /\ now < MaxBlock
    /\ now' = now + 1
    /\ UNCHANGED <<claimVars, ledgerVars, balance, schedules>>

VestStep == \E d \in Accounts : Vest(d) /\ UNCHANGED <<claimVars, ledgerVars>>

-----------------------------------------------------------------------------
(* Properties. *)

\* Type correctness of the pallet's storage.
ClaimsTypeOK ==
    /\ IsMap(claims, Addresses, Nat)
    /\ total \in Nat
    /\ IsMap(vesting, Addresses, Seq(Schedules))
    /\ IsMap(signing, Addresses, Statements)
    /\ IsMap(preclaims, Accounts, Addresses)
    /\ IsMap(rewards, Addresses, Nat)
    /\ now \in Nat

\* Total is never less than the claims it stands for, whatever claims were
\* replaced, moved onto others, or raised by a reward: process_claim never
\* runs into PotUnderflow, which would block a claim for good.
TotalCoversClaims == SumFunction(claims) <= total
=============================================================================

# xx network chain: TLA+ models, checks and proofs

This directory holds the formal specification of the parts of xxchain that are
its own: the pallets that the repository adds to Substrate. Each module names
the Rust code it is translated from (`PROJECT.json`, `map`). Two things stand
behind the properties: TLC explores small instances exhaustively (`*.cfg`), and
TLAPS proves the most important ones for every value of the constants
(`*_proofs.tla`).

    tlc -workers 4 -config bridge_votes.cfg MCChainBridge
    tlapm ChainBridge_proofs.tla

## 1. Inventory of the system

xxchain is a Substrate chain. Consensus, networking, storage, staking,
balances, vesting, proxies and governance are Substrate's and are not in the
repository; the pallets below are, and they call into one another.

| component | state | operations | interacts with |
|---|---|---|---|
| `chainbridge` | `ChainNonces`, `RelayerThreshold`, `Relayers`, `RelayerCount`, `Votes`, `Resources` | six administrative calls; `acknowledge_proposal`, `reject_proposal`, `eval_vote_state`; `transfer_fungible`, `transfer_nonfungible`, `transfer_generic` for other pallets | dispatches the approved call with the bridge account as origin; is called by `swap` |
| `swap` | `SwapFee`, `FeeDestination`, the bridge account's balance | `transfer_native` (out), `transfer` (in, bridge origin only), two administrative calls, genesis | balances, `chainbridge` |
| `claims` | `Claims`, `Total`, `Vesting`, `Signing`, `Preclaims`, `Rewards` | `claim`, `claim_attest`, `attest`, `mint_claim`, `move_claim`, validation of unsigned and attest transactions | balances, vesting, `xx-betanet-rewards` (`add_claimed`) |
| `xx-betanet-rewards` | `Accounts`, `Approved` | `select_option`, `approve`, `on_initialize` at the enactment block | drains `claims::Rewards`, changes `claims::Claims`, `Total`, `Vesting`; pays from `xx-economics`' pool |
| `xx-team-custody` | `TeamAccounts`, `CustodyAccounts`, `Custodians`, `TotalCustody` | `payout`, bonding and proxies of custody accounts, custodians, `replace_team_member`, genesis | balances, staking, proxy; read by `xx-economics` (`total_custody`) |
| `xx-economics` | `InflationParams`, `InterestPoints`, `IdealLiquidityStake`, `LiquidityRewards`, the pool's balance | four setters, `era_payout`, rewards from the pool, reward remainder | staking, treasury, `xx-team-custody`, `xx-public` |
| `xx-cmix` | `CmixHashes`, `SchedulingAccount`, `NextCmixVariables`, `CmixVariables`, `AdminPermission`, `CmixAddressSpace` | seven calls, `end_era` | staking (points, end of era) |
| `xx-public` | `TestnetManager`, `SaleManager`, two account balances | two setters, two distributions | balances, vesting; read by `xx-economics` |
| migration `bridge_adjust` | none | one transfer and one write at a runtime upgrade | `chainbridge` account, `xx-economics` |
| fee split (`runtime/common`) | none | 80/20 split of fees, tips to the author | treasury, balances |
| runtime wiring | none | constants and origins | all of them |
| cli, rpc, inspect, executor, weights, primitives, chain specs | none of the chain's own | node plumbing, generated numbers, data | - |

What makes the code hard to get right:

- **Transactions.** Each dispatched extrinsic runs in a storage layer: an error
  discards everything it wrote. Block hooks do not. So one operation is one
  atomic step, and the interesting interleavings are those of whole extrinsics
  by different actors: relayers, administrators, users, anyone.
- **State read later than it was written.** Votes are counted with the
  threshold and the relayer count of the moment; votes of removed relayers
  stay; resources may disappear between the opening and the decision.
- **Failure inside an operation.** The call that a vote triggers may fail and
  takes the vote with it; the second of two transfers may fail.
- **Time.** Proposals expire by block number; custody, permissions and
  enactment are decided by block numbers.
- **Money.** Existential deposits, dust, locks and fixed-width arithmetic.

What makes each component correct:

- *chainbridge*: a call takes effect at most once, exactly if its proposal is
  approved; nobody votes twice; the outcome is final; with fewer faulty
  relayers than the threshold only real deposits release, each once, and with a
  correct quorum each one does; outgoing nonces are 1, 2, 3, ...
- *swap*: the bridge account always holds what was locked and not yet
  released.
- *claims and betanet rewards*: every claim and every reward is paid once and
  in full, `Total` is the sum of the claims.
- *team custody*: a member gets the allocation, no more and no less, and
  `TotalCustody` is what is left.
- *economics*: rewards come from the pool while it lasts and issuance grows by
  the rest; issuance is the sum of all accounts, whatever is burnt, minted or
  lost as dust on the way; what can be staked is what is not the pool's, the
  funds', under custody or a liquidity reward; the interest is that of its curve.
- *cmix*: the blocks of an era have one price, and a decision takes effect;
  the software hashes are frozen when the permission ends.
- *public funds*: a distribution is all or nothing, and pays and locks what it
  lists.
- *migration*: coins move from the bridge to the pool and nothing else changes;
  what can be staked stays the same.

## 2. Plan

In this order, the most important behaviour first. Steps 1 to 8 are done.

1. `ProposalOutcome`: the abstract promise of the bridge. `ChainBridge`: the
   pallet, shown to implement it. Proofs in `ChainBridge_proofs`.
2. `BridgeRelayers`: the pallet with faulty relayers and remote deposits
   (safety under any administration that keeps the threshold above the number
   of faulty accounts; liveness). Proofs in `ChainBridge_proofs` too.
3. `SwapBridge`: the swap pallet on top of `ChainBridge`, with balances.
   Proofs in `BridgedCoins_proofs`.
4. `BridgedCoins`: all of it with the remote contract. Proofs in
   `BridgedCoins_proofs`.
5. `VestedCoins`, `Claims`, `BetanetRewards`: claims, moves, mints, attests,
   options, the enactment; `Total` against the claims, rewards paid once
   whichever way they are claimed. Proofs in `BetanetRewards_proofs`.
6. `TeamCustody`: payouts, bonding, proxies, votes, member replacement;
   `TotalCustody`. Proofs in `TeamCustody_proofs`.
7. `InterestCurve`, `IssuedCoins`, `Economics`: the interest curve against a
   reference, the pool, era payouts, fees and the migration. `PublicFunds`, and
   `Economy`, which composes the two on one set of accounts. Proofs in
   `Economics_proofs`.
8. `Cmix`, with proofs in `Cmix_proofs`.
9. Done since: a theorem for every safety invariant and every action property
   of the runs, with the lemmas on sums (`Sums`) and on lists of schedules
   (`VestedCoins_proofs`) that they need.
10. Left: an abstract vesting account that `TeamCustody` implements, one member
    at a time. Liveness stays with TLC.

A question that several properties answer is one run, so that the runs stay
few and each explores a state space in which everything interacts.

## 3. The modules

### ProposalOutcome (abstract)

A proposal is open until it is executed, cancelled or lapses; the outcome is
final and an execution has one effect. Nothing else about voting is said here.

### ChainBridge

Translates `chainbridge/src/lib.rs`. One variable per storage item, plus the
block number (`now`), the number of times each call took effect (`dispatched`)
and the transfer events in order (`emitted`). Optional map entries are partial
functions; `Insert` is a storage map's insert. One action per operation:

| action | code |
|---|---|
| `SetThreshold`, `SetResource`, `RemoveResource`, `WhitelistChain`, `AddRelayer`, `RemoveRelayer` | the six administrative calls |
| `AcknowledgeProposal`, `RejectProposal` | checks, `commit_vote`, `try_resolve_proposal` |
| `EvalVoteState` | `eval_vote_state`, by anyone |
| `TransferOut` | the three transfer functions, which share the counter |
| `NextBlock` | the block number |

An extrinsic that fails a check is no step, since it leaves no trace. The
dispatched call either takes effect (`ResolveAs(.., "Approved")`) or fails, in
which case everything the extrinsic did is undone, the deciding vote included
(`CallFails`). The key of a proposal holds the source chain, the nonce and the
call, as in `Votes`. The resource that a voter names only has to be registered;
nothing ties it to the call. The administration is trusted to be the
administration and to nothing else: it may do all it is allowed to at any time.

Abstracted: accounts, chains, resources and calls are model values, the method
name of a resource is left out, events other than the transfer events are left
out. A call that is itself a bridge extrinsic and would re-enter the pallet is
not followed. Nonces and counts are natural numbers: `u64` and `u32` counters
do not overflow in a chain's life.

### BridgeRelayers

The pallet with its environment. `genuine` is the set of proposals that stand
for deposits made on other chains, each chain numbering its own. A correct
relayer acknowledges only those and votes against none. A faulty one votes for or
against anything (`FaultyVote`), also a proposal whose deposit is still to be
made: that opens the proposal and starts its lifetime. The one assumption on the
administration is that the threshold stays above the number of faulty accounts.

For liveness (`LiveSpec`) the relayer set is fixed and contains a correct
quorum. Fairness is weak fairness of `RelayAck(a, p)` for each correct relayer
and deposit: relayer software submits its vote until it finds it stored, and a
vote undone by a failing call is submitted again. Weak fairness suffices since
nothing but expiry and completion disables the vote for good. That the call
does not fail for ever is part of the same assumption: `RelayAck` as a
`relayVars` step requires a change, which a failed call is not. Expiry is why
`TimelyBlock` is needed: a proposal the pallet lets expire can never be voted
on again, so progress holds only if the votes of the correct relayers arrive
within `ProposalLifetime` blocks of the first vote (600 blocks in the runtime).
This is a condition on the relayers, not something the pallet ensures, and they
can meet it only for deposits that have been made. If a faulty relayer opens the
proposal of a later deposit, its lifetime may be over before the deposit is made,
and the deposit is never released. `TimelyBlock` therefore lets the lifetime of
such a proposal run out, and `DepositsReleased` speaks of deposits whose proposal
is still open (section 5).

### SwapBridge

Translates `swap/src/lib.rs` and conjoins its steps with those of
`ChainBridge`: `TransferNative` moves the coins and takes the `TransferOut`
step in one action; a vote step that executes a proposal pays out
(`Settle`/`PayOut`), and one that does not leaves the balances alone. The
balances pallet is external and modelled by what a transfer with `AllowDeath`
does: refuse to go below a lock or to leave the receiver below the existential
deposit, burn what is left below it on the sender. `amount + fee` is reduced
modulo `Modulus`, the width of a balance: it is an unchecked addition in a
release build. Payloads are the amounts.

The bridge account itself may be the destination of the fees, and the recipient
of a release: the calls accept any account. Fees paid to it are coins it received
and announced no transfer for, and count as `gifts` (`FeeToBridge`). A release to it
takes effect and moves nothing; `Released` counts the coins that were paid out, and
`ReleasedToItself` (in `BridgedCoins`) those that were not. `gifts` and `dust` are history variables.

### BridgedCoins

The two pallets, the relayers of `BridgeRelayers`, and the contract at the
other end (external): it mints the amount of each transfer event once, in any
order, and burns coins to send them back. There is one chain at the other end
(`RemoteAssumption`): the bridge account does not record which chain a coin went
to, so with two chains a coin locked for one could be released for the other.
The chain specifications whitelist one (`cli/src/chain_spec.rs:282` and `:470`).
Coins that were released to the bridge account stay there and back nothing any
more; the equality of `WrappedCoinsBacked` lists them as a place of their own.

### StorageMap, VestedCoins

`StorageMap` has the storage maps with optional values. `VestedCoins` is what
the pallets below rely on of pallet_balances and pallet_vesting (external):
coins credited to an account, unless they are too few to create it; a list of
schedules of bounded length, from which finished ones are dropped when it is
written, and which refuses a schedule that releases nothing per block.
`AddSchedules` adds a list of schedules and ignores the errors, as `process_claim`
and `do_distribution` do. An account never has more than `MaxSchedules`
schedules, not at the start either (`ClaimsAssumption`): pallet_vesting keeps
them in a bounded vector.

### Claims

Translates `claims/src/lib.rs`. `Claim`, `ClaimAttest` and `Attest` are the
three ways to collect a claim, with the checks that `validate_unsigned`
(`ValidUnsigned`) and the signed extension make before the extrinsic gets into a
block. All three are
`ProcessClaim`: pay, add the vesting schedules, ignore their errors, take the
reward, reduce `Total`, remove the entries. `MintClaim` and `MoveClaim` are the
administration. Signatures are abstracted to who can make them: the holder of
an address may name any account. `minted` and `lost` are history variables.

### BetanetRewards

Extends `Claims` with `xx-betanet-rewards/src/lib.rs`: `CollectWithReward` is a
claim with the entry that `add_claimed` makes for it; `SelectOption`, `Approve`;
`EnactProgram` is the hook of the enactment block, which pays every entry, adds
what is left of the rewards to their claims and locks both. It is part of the
step to that block, since hooks run before the block's calls. Entries are
processed at once: none touches what is another's. `charged` is what the pool
(`T::Reward`, of the economics pallet) is charged.

### TeamCustody

Translates `xx-team-custody/src`. State: the four storage items; of balances,
staking, proxies and voting what the accounts of a custody have there (`free`,
`reserved`, `ledger`, `proxies`, `voting`); and `foreign`, a history variable
for the coins that others sent to the accounts, less what slashes took. An entry
of `ledger` also says whether the stash has been slashed.

| action | code |
|---|---|
| `PartialPayout` | `payout` before the end: `try_payout`, `do_payout` with `keep_alive` |
| `FinalPayout` | `payout` after the end: force_unstake, proxies, `do_payout`, entries removed |
| `CustodyBond`, `CustodyBondExtra`, `CustodySetController` | the custodians' calls, with staking's checks |
| `CustodySetProxy`, `TeamCustodySetProxy` | before and after the governance custody ends |
| `ReplaceTeamMember`, `SetCustodians` | administration |
| `Unbond`, `Slash`, `Vote`, `Unvote`, `Foreign`, `NextBlock` | what controllers, staking, proxies and others do; external |

`Transferable` is `reducible_balance` with `keep_alive`, `KeptByVotes` what it
leaves without. `Share` is the product with `Perbill::from_rational`: the ratio is
cut to whole parts of `Accuracy` first, and the product rounded to the nearest
number. `Slash` takes coins from the account, locked ones included, leaves the
existential deposit, and marks the stash; `ForceUnstake` refuses a marked one,
because the pallet names no slashing spans, and then the whole payout fails.
Abstracted: the balance of a member's own account, which is taken to exist, the
deposit of an election vote, and the time after which slashing spans are pruned.

### Perbills

`Times`, `PartOf` and `FromRational`: the `Perbill` operations of the runtime with
their roundings (external). `TeamCustody` and `InterestCurve` use them. `Accuracy`
is 10^9 in the code.

### InterestCurve

The functions of `xx-economics/src/inflation.rs` as operators: `IdealInterest`
is `get_ideal_interest`, `Interpolated` is `compute_ideal_interest`, and
`SortedByBlock` is the stable sort of `set_interest_points` and genesis, defined
by the position that each point gets. `FollowsCurve` is the reference:
the line between the points, in terms of a set of points and not of a list,
compared without division, at the block that `EraMidpoint` finds; whether that
block is right is not its question (`InterestFalls` depends on it). It is stated for curves like the example in the
source (`LikeTheExample`), a slope from block 0 and then steps: for a slope
that starts later the code computes something else (section 5).

### IssuedCoins

The coins of all accounts and their issuance (external): taking coins from an
account, which may leave dust, and resolving coins into one, which may not
exist. The handlers below are compositions of these on a record of the coins,
as the code composes imbalances.

### Economics

Translates `xx-economics/src`, the fee split of `runtime/common/src/impls.rs`
and the migration of `migrations/src/bridge_adjust.rs`.

| action | code |
|---|---|
| `PayReward` | `on_nonzero_unbalanced`: a reward that was deposited is settled by the pool as far as it goes, the rest is minted |
| `EndEra` | `era_payout` with `compute_total_stakeable` and `update_liquidity_rewards`, then `RewardRemainderAdapter` |
| `SetInflationParams`, `SetInterestPoints`, `SetLiquidityRewardsStake`, `SetLiquidityRewardsBalance` | the four calls |
| `PayFees` | a transaction fee and tip, divided by `DealWithFees` |
| `BridgeAdjust` | `on_runtime_upgrade`, once |

Staking is external. It ends eras at any block, grants validators what the end
of an era returns (`owed`) and pays of it what it likes when it likes, in any
amounts. What the inflation curve returns for the ratio of staked coins
(`compute_inflation`) and the total under custody are inputs. The bound
`MaxCalls` counts settings and transactions with fees.

### PublicFunds, Economy

Translates `xx-public/src/lib.rs`. `Distribute` is either distribution with its
checks: the manager, the sum, then one transfer after the other, each followed
by its schedules, whose errors are ignored. A transfer that fails discards the
whole extrinsic, and is no step: `Pay` is a payment on a record of the coins with
the verdict so far, and the distribution a fold of it over the list.
`distributed` is a history variable. Recipients
are taken not to be the two funds. `Economy` puts the pallet and `Economics` on
the same accounts: the coins that leave a fund become stakeable.

### Cmix

Translates `xx-cmix/src/lib.rs`: the seven calls, `get_block_points` and
`end_era`. The points of validators are staking's (external): `Rewarded` gives
one more for a validator's first points of an era, and `Deducted` leaves one. `prices` is a
history variable, the points that the blocks of the era were given. Of the cmix
variables only what they give for a block is told apart.

### Proof modules

`ChainBridge_proofs` (also of `BridgeRelayers`), `BridgedCoins_proofs` (also of
`SwapBridge`), `BetanetRewards_proofs` (also of `Claims`), `TeamCustody_proofs`,
`Economics_proofs` (also of `InterestCurve`, `PublicFunds` and `Economy`) and
`Cmix_proofs` hold the theorems; `Sums` and `VestedCoins_proofs` hold lemmas that
several of them cite. See section 6. `MC*.tla` hold the symmetry sets and constant definitions for TLC.

## 4. The runs and what they show

| run | module | shows | states |
|---|---|---|---|
| `bridge_votes` | ChainBridge | type invariant, with `RelayerCountAgrees`; `OneVoice`; `ExecutedIffApproved`; `SettledForever`; `NoVoteKeptUnexecuted`; `RejectedIffUnreachable`; `DepositNoncesConsecutive`; refinement of `ProposalOutcome` | 28 thousand |
| `relayers_safety` | BridgeRelayers | `OnlyGenuineExecuted`, `OneReleasePerDeposit` | 720 thousand |
| `relayers_liveness` | BridgeRelayers | `DepositsReleased` | 126 thousand |
| `swap_coins` | SwapBridge | `SwapTypeOK`, `BridgeAccountsForTransfers` | 296 thousand |
| `bridged_coins` | BridgedCoins | `WrappedCoinsBacked`, `ReleasesFunded` | 1.0 million |
| `betanet_rewards` | BetanetRewards | `BetanetTypeOK`, `TotalCoversClaims`, `RewardsCharged`, `NewClaimsHaveTheirOwnTerms`, `NothingOwedAfterEnactment`, `NoRewardTwice`, `LocksChosenAmount`, `LeftoverLocked`, `ApprovedIsEnacted` | 227 thousand |
| `custody_payouts` | TeamCustody | `TeamTypeOK`, `TotalMatches`, `VestedOnSchedule`, `EveryCustodyHasOneMember`, `CustodyBacked`, `KeptAlive`, `FinalPayoutEmpties`, `AllPaidOut` | 268 thousand |
| `era_economics` | Economy | `IssuanceMatches`, `StakeableIsTheRest`, `InterestFollowsCurve`, `PoolPaysFirst`, `InterestFalls`, `DistributedAsListed` | 367 thousand |
| `cmix_eras` | Cmix | `OnePricePerEra`, `DecisionTakesEffect` | 9 thousand |
| `removed_resource_out`, `moved_claim_reward`, `inaccessible_funds` | | statements of comments that the code does not keep (section 5) | - |

Bounds, and why they are enough:

- *Relayers*: three accounts give every relation between votes for, votes
  against, threshold and total that the two tests of `try_to_complete`
  distinguish, a relayer that leaves and returns included. Accounts are
  interchangeable, hence the symmetry sets of the safety runs; the liveness run
  uses none. Four accounts in the liveness run, three correct and one faulty.
- *Proposals*: the pallet treats proposals separately, so one is enough for
  votes; two calls compete for one nonce in `relayers_safety`, two deposits
  are under way at once in `relayers_liveness` and `bridged_coins`, in the
  second one of them to the bridge account. `bridged_coins` has one correct relayer;
  the faulty ones are in `relayers_safety`.
- *Time*: a lifetime of two blocks and up to three blocks: votes before, at and
  after the expiry. One block in the runs where
  time decides little (`MaxBlock`).
- *Coins*: existential deposit 2, so that dust exists; user funds 4 with a
  user that has 2 locked; modulus 16, so that a payload of 15 with a fee of 2
  wraps around and passes the first check; fees 0 and 2; a payout of 3 out of 4
  reaps the bridge account. Fees go to a user, to the payer or to the bridge account.
- *Claims*: two addresses and two accounts, so that a claim can be moved onto
  another and an account can collect twice. The enactment is block 2 of 3:
  claims before, in and after its block. Two schedules per account and a claim
  with three, two of which end early; an account that has one already; claims
  of 5 with rewards of 5, which no division makes even; the options with and
  without an extra reward.
- *Custody*: allocations of 10 and 6 with steps of 4 and 2, so that one vests in
  full before the end and the other does not; two payout periods, the
  governance custody ending between them, one block after the end; existential
  deposit 2; a stake or vote of 6 locks all of the smaller custody account and
  most of the larger; 2 coins sent to or slashed from the larger custody (the bound
  is per custody, `MaxForeign`); two controllers; 100 parts to a Perbill;
  three accounts for two members, so that a member can be replaced, and return.
- *Economics*: a pool of 6, so that rewards of 1 and 5 and the remainders of eras
  end with it, at 0 or with dust below the existential deposit of 2; a treasury
  and a user that do not exist; eras of 2 and 4 blocks where 4 are expected, up
  to block 8, so that the first era, the shift to the middle and the end of the
  curve are crossed (an era that has less than half of its blocks, the exception
  that `InterestFalls` makes, is not among them; the proof is about every length);
  100 parts to a Perbill, so that all products round. Two
  curves: one like the example in the source, submitted out of order, and one
  of slopes. One setting is changed, or one fee paid, before, between or after
  the ends of eras; the migration may come at any moment.
- *Public funds*: funds of 7 and 5 with lists that pay an account twice, that
  have more schedules than fit and an invalid one, that fail in the middle
  because a payment does not create its account, and that empty a fund.
- *Cmix*: two values of the variables, two servers, validators and blocks; points
  up to 4, which a submission of 2 on top of a block reaches.
- `MaxThreshold`, `MaxTransfers`, `MaxBlock`, `MaxGifts`, `MaxMinted`,
  `MaxForeign`, `MaxCalls`, `MaxDistributions` and `MaxPoints` only cut behaviours
  short; the proofs hold for every value of them.

Deadlock is checked except in `relayers_liveness`, where a behaviour ends once
the votes are in and `MaxBlock` is reached.

Fairness. `relayers_liveness` is described with `BridgeRelayers`. In
`betanet_rewards` blocks keep coming, which is consensus (`FairBetanetSpec` is
weakly fair to steps that raise `now`); the enactment is part of a block. In `custody_payouts` blocks keep coming, and once a custody is over
somebody calls `payout` for it: anyone may, and its member has reason to. Nothing
is assumed of controllers, which may leave a slashed stake bonded for ever; that is
the exception `AllPaidOut` makes. In
`cmix_eras` eras end, which staking sees to as long as there are blocks; nothing
is assumed of the council or the servers.

Some invariants are proved and not run, because the proof makes a run of them
redundant: the type invariants `EconomicsTypeOK` and `CmixTypeOK`,
`InterestWithinPoints`, `AdjustKeepsStakeable` and `HashesFrozen`.

Every property has a mutant in `PROJECT.json`: a variant of one definition as a
plausible bug would change it, kept beside the definition and marked
`Variant:`. TLC finds the property violated with it.

## 5. Findings

`remove_resource` is documented with "After this call, bridge transfers with the
associated resource ID will be rejected." (chainbridge/src/lib.rs:247-248).

- `removed_resource_out`: `transfer_native` and `transfer_fungible` check the
  destination chain and never the resource. With the native token's resource
  removed, coins are still locked and announced.
  A second case is read in the code and not run: `eval_vote_state` has no
  resource to check, so a proposal opened before the removal is executed by
  anyone after it, once the threshold has been lowered to the votes it has.

The leftover reward is paid `"Payout" reward into claim`
(xx-betanet-rewards/src/lib.rs:321).

- `moved_claim_reward`: `move_claim` leaves the reward at the old address. The
  enactment charges the pool and raises `Total` for it but adds it to no claim.

"If custody period is done, transfer full amount from both accounts in order to
not leave any inaccessible funds around" (xx-team-custody/src/custody.rs:243).

- `inaccessible_funds`: coins that the votes of a custody account's proxy lock
  are not transferable; the last payout goes through without them, removes the
  proxy and deletes the entries, and the coins stay on an account without keys.

Also read in the code, and not run:

- "If custody is over, payout full remaining amount" and "If any leftover custody
  amount is still bonded, force unstake" (xx-team-custody/src/custody.rs:170, 172):
  `force_unstake` is called with zero slashing spans and its error returned (lines
  175-179). Staking refuses to remove a stash that has spans, so after a slash of a
  bonded custody account every `payout` fails until the controller withdraws the
  stake or the administration unstakes it. `AllPaidOut` states the exception.
- A faulty relayer may open a predicted proposal before its deposit is made
  (chainbridge/src/lib.rs:453). Once its lifetime is over it cannot be voted on
  (line 460), and the deposit, when it comes, is never released.
- `swap.transfer` pays the bridge account itself (swap/src/lib.rs:147), and
  `set_fee_destination` accepts it (line 164). A release to it moves nothing
  and consumes the deposit; such coins, and the fees it collects, stay there and back
  nothing. `BridgeAccountsForTransfers` and `WrappedCoinsBacked` count them.
- `mint_claim` over an existing claim without schedules or statement keeps the
  earlier ones (claims/src/lib.rs:316-322), and `move_claim` onto an address that
  has a claim keeps those of that address unless the moved claim brings its own
  (lines 408-410). `NewClaimsHaveTheirOwnTerms` is about addresses without a claim.
- `process_claim` ignores the error of `add_vesting_schedule`: "the only
  possibility for failure is if we have configured more vesting schedules than
  allowed" (claims/src/lib.rs:479-480). The enactment appends a schedule to a
  leftover claim; if what it locks is less than a coin per block, the schedule
  releases nothing per block, is refused as invalid, and the claim is paid
  without that lock.
- `select_option` is documented as "only callable by accounts that have rewards
  and no vesting period" (xx-betanet-rewards/src/lib.rs:178) and does not look
  at vesting schedules.
- The lock of a leftover claim is computed from a principal that contains the
  reward already (line 339), which locks more than the default option says
  (`LeftoverLocked` states the lower bound).
- `compute_ideal_interest` multiplies the difference of two points by the block
  number divided by the length of the segment
  (xx-economics/src/inflation.rs:147), not by the distance from the segment's
  start. For a slope that starts at block 0 the two agree. On a later slope the
  interest is that of its end point as soon as the block number reaches the
  length of the slope, which may be before the slope begins. The example in the
  source has one slope, from block 0, and the chain specifications in the
  repository have a single point; `InterestWithinPoints` is proved for all curves.
- On a falling curve the interest may rise from one era to the next, once: eras
  that end before `EraDuration` are evaluated at their end, later ones half an era
  earlier (xx-economics/src/inflation.rs:142). If the first later era has less than half of its blocks
  the middle found for it lies before the block of the era before it.
  `InterestFalls` leaves out that case.
- An empty list of interest points is accepted, and makes the next era payout
  panic (line 116).
- `set_interest_points` is documented as "Doesn't check if points are ordered
  per block. It's up to the caller to ensure the ordering"
  (xx-economics/src/lib.rs:152-153); it sorts them, and no order of the caller
  matters (`InterestFollowsCurve`, `PointsStayInOrder`).
- `set_cmix_hashes` is "only allowed if current block is lower than
  `AdminPermission`" (xx-cmix/src/lib.rs:113); the code allows equality, as the
  comment on `set_admin_permission` does ("up to which", line 217).

## 6. What is proved

For every value of the constants that satisfies `ConstantsAssumption` (and
`FaultyAssumption`, `SwapAssumption`, `RemoteAssumption`, `VestedCoinsAssumption`,
`PerbillAssumption`, `ClaimsAssumption`, `RewardsAssumption`, `CustodyAssumption`, `CurveAssumption`,
`EconomicsAssumption`, `PublicFundsAssumption`, `EconomyAssumption`,
`CmixAssumption` for the modules that state them), with no bound on relayers,
proposals, blocks, transfers, claims, members, accounts, schedules, distributions
or curves:

| theorem | statement |
|---|---|
| `TypeCorrect` | `Spec => [](TypeOK /\ RelayerCountAgrees)` |
| `VotesDistinct` | `Spec => []OneVoice` |
| `ExecutedOnce` | `Spec => []ExecutedIffApproved` |
| `Settled` | `Spec => SettledForever` |
| `NoVoteKept` | `Spec => NoVoteKeptUnexecuted` |
| `RejectedWhenLost` | `Spec => RejectedIffUnreachable` |
| `NoncesConsecutive` | `Spec => []DepositNoncesConsecutive` |
| `Refinement` | `Spec => ImplementsOutcome` |
| `GenuineExecutions` | `RelaySpec => []OnlyGenuineExecuted` |
| `SingleRelease` | `RelaySpec => []OneReleasePerDeposit` |
| `SwapUsesBridge` | `SwapSpec => Spec` |
| `SwapTypeCorrect` | `SwapSpec => []SwapTypeOK` |
| `BridgeLedger` | `SwapSpec => []BridgeAccountsForTransfers` |
| `BridgedUsesBoth` | `BridgedSpec => SwapSpec /\ RelaySpec` |
| `CoinsBacked` | `BridgedSpec => []WrappedCoinsBacked` |
| `OpenReleasesFunded` | `BridgedSpec => []ReleasesFunded` |
| `NoTermsInherited` | `BetanetSpec => NewClaimsHaveTheirOwnTerms` |
| `NothingOwed` | `BetanetSpec => []NothingOwedAfterEnactment` |
| `BetanetTypeCorrect` | `BetanetSpec => []BetanetTypeOK` |
| `ClaimsCovered` | `BetanetSpec => []TotalCoversClaims` |
| `CoinsBooked` | `BetanetSpec => []RewardsCharged` |
| `RewardPaidOnce` | `BetanetSpec => NoRewardTwice` |
| `LeftoversAreLocked` | `BetanetSpec => LeftoverLocked` |
| `ChosenAmountIsLocked` | `BetanetSpec => LocksChosenAmount` |
| `OneMemberEach` | `CustodySpec => []EveryCustodyHasOneMember` |
| `AccountsBackCustody` | `CustodySpec => []CustodyBacked` |
| `AccountsStayAlive` | `CustodySpec => []KeptAlive` |
| `VestingNeverAhead` | `CustodySpec => []VestedOnSchedule` |
| `NothingLeftOnAccounts` | `CustodySpec => FinalPayoutEmpties` |
| `TotalFollowsMembers` | `CustodySpec => []TotalMatches` |
| `TeamTypeCorrect` | `CustodySpec => []TeamTypeOK` |
| `EconomicsTypeCorrect` | `EconomicsSpec => []EconomicsTypeOK` |
| `PointsStayInOrder` | `EconomicsSpec => []PointsInOrder` |
| `PoolFirst` | `EconomicsSpec => PoolPaysFirst` |
| `InterestStaysWithin` | `EconomicsSpec => []InterestWithinPoints` |
| `MigrationNeutral` | `EconomicsSpec => AdjustKeepsStakeable` |
| `IssuanceFollowsAccounts` | `EconomySpec => []IssuanceMatches` |
| `StakeableKept` | `EconomySpec => []StakeableIsTheRest` |
| `PoolFirstWithFunds` | `EconomySpec => PoolPaysFirst` |
| `CurveIsFollowed` | `EconomySpec => []InterestFollowsCurve` |
| `InterestNeverRises` | `EconomySpec => InterestFalls` |
| `DistributionsKeepToTheList` | `EconomySpec => DistributedAsListed` |
| `CmixTypeCorrect` | `CmixSpec => []CmixTypeOK` |
| `OnePrice` | `CmixSpec => []OnePricePerEra` |
| `HashesStay` | `CmixSpec => HashesFrozen` |

The argument. `TypeOK` alone is not inductive: `unregister_relayer` decrements
an unsigned count, which stays a natural number only because it is the size of
the set. `TypeInv` joins the two. All that concerns votes rests on one fact
about the form of a step: a step that changes votes or executions resolves one
*resolvable* record, which is either the stored one or the stored one with one
more vote by an account that has none on it (`Resolvable`, `VoteForm`,
`VotesChangeByVote`), and it does so to an open proposal (`VoteEffect`). From
that, `OneVoice`, `ExecutedIffApproved`, the two action properties and the
refinement follow one proposal at a time. `NonceInv` adds to the nonces that
each counter is the number of transfers sent there and that nothing was sent to
an unlisted chain, which is what makes listing a chain with a zero counter safe.
`RejectedIffUnreachable` compares what the code compares, the lengths of two lists
and a counter, with what it means: with `OneVoice` the lengths are numbers of
accounts, which are disjoint sets of relayers.

`OnlyGenuineExecuted` is the quorum argument: `GenuineInv` says that until its
deposit is made only faulty accounts acknowledge a proposal. Votes are cast by
different accounts (`OneVoice`), so they are an injection into the faulty
accounts and at most as many (`FaultyVotesFew`), which is below the threshold.
Removing relayers does not matter to it, although their votes stay.

The ledgers are sums over maps: balances, claims, proposals, transfer events. The
library sums with a fold, and its induction theorems take an operator, which the
provers cannot instantiate. `Sums` does the induction on sets instead: let G be
the set of subsets that are good; if a subset were not in G there would be one of
least cardinality, and adding one element leads into G (`SubsetInduction`, from
the well-foundedness of `Nat`). By it, the recursion that a fold stands for has a
solution and only one (`SumExists`, `SumUnique`), the choice of elements the fold
makes does not matter (`SumChosen`), and what remains are facts to cite:
what changing, inserting, moving or removing one entry does to a total.

*Bridge*: `LedgerInv` adds to the ledger that finitely many proposals were
executed, and `ExecutedIffApproved`, so that a release adds its amount once.
`BackedInv` adds `GenuineInv`: a release takes its deposit out of those on their
way back, for which the deposit must have been made. A coin changes place in each
step, between an account, an event, circulation and a deposit; each
has a lemma, and the sum of the places is the same after it.

*Claims and rewards*: `BooksInv` joins the types, `TotalCoversClaims` and
`RewardsCharged`: that the types hold needs that `Total` is at least the claim that
is taken off it. The enactment changes all entries at once: the payments, the
leftover rewards and what is lost are three sums over accounts and addresses
that are compared entry by entry. `RewardPaidOnce` is an argument on the sum of what
is charged and what is outstanding at the best option: a charge is never more than
what it removes from the second.
For the locks, what a schedule has locked in a block is bounded from below in spite
of the division that computes its rate, and adding it drops finished schedules
only, which have locked nothing; `LocksInv` keeps the lists within their length.
Lists of schedules are folded over as well: `VestedCoins_proofs` takes the folds
apart one schedule at a time.

`NewClaimsHaveTheirOwnTerms` is about the schedules and the statement of a claim
that an address without one gets by a mint or a move: it gets those of the mint or
of where it was (`NewTerms`). It rests on an invariant: until an enactment, schedules
and statements are only at addresses with a claim (`LeftInv`, which with the block number is inductive). Every
way to collect a claim removes the entries of the address in all maps
(`CollectEnds`), and mints and moves keep schedules and statements with claims
(`AdminKeepsClaims`). `NothingOwedAfterEnactment` is inductive with the block number
too (`OwedInv`).

The four custody invariants are inductive together, and not one by one
(`CustodyInv`). A payout moves coins of one member's two accounts, so for it to
leave the books of the others alone no two members may share an account
(`EveryCustodyHasOneMember`, `AccountsApart`), which a replacement keeps because
the new account has no custody yet. What the accounts hold, `CustodyBacked`,
needs that a payment is the sum of what is taken from each (`PartialPayoutTakes`,
`FinalPayoutTakes`: every payout in terms of two numbers), and that a slash takes
from the account and from `foreign` alike and leaves the existential deposit
(`SlashTakes`, `SlashKeeps`). `KeptAlive` follows
from what `reducible_balance` leaves (`TransferableLeaves`), and
`VestedOnSchedule` from the growth of what is due (`DueGrows`) and from payments
that never exceed it. `CustodyAssumption` takes the accounts of different
founders to be different, which the derivation of pure proxies ensures, and each
account to open with the existential deposit at least. `BooksInv` adds that no
member is ever vested more than is allocated, by which the saturating subtraction
of a payout from `TotalCustody` subtracts all of it, and the total stays the sum of
what is left.

The economics theorems rest on one invariant, `EconomicsInv`: types, the order
of the points, and the issuance as the sum of all accounts, by which no
subtraction of the issuance goes below zero. That amounts stay natural numbers needs that every `Perbill`
operation yields a `Perbill` or a natural number whatever the block and the
curve (`RatioTyped`, `PartsTyped`, `InterestBetween`), and that no account pays more
than it has. The order of the
points is the correctness of a sort: the positions of different points differ
and there are as many as points, so each place is taken by one
(`SortedPoints`). Every movement of coins has a form lemma (`TakeForm`,
`ResolveForm`, `SettledForm`, `RemainderForm`, `FeesForm`), and the two that can
mint share `PaidByPool`: the issuance grows only if the pool paid all it had, and
an account that pays all it has is left with nothing, dust included. The
first theorems are about `EconomicsSpec`, the pallet alone; the invariant holds in the
composition with the public funds too (`EconomyInvariant`), and those about
`EconomySpec` are about what the run checks. `EconomicsAssumption` takes the accounts of the runtime to
be different and leaves out empty lists of points.

*The curve.* On a curve like the example the slopes start at block 0, where the
code's quotient is the right one, and the other segments are flat or one block
long; on a slope, two roundings lose less than two parts of the difference,
which is what `FollowsCurve` allows. That the interest never rises on a falling
curve needs no such form: ratio and product grow with the block within a
segment, between segments `InterestBetween` puts the end of one above the start of the
next, and the blocks that eras are evaluated at are in order but for the exception.

*Distributions.* A fold over payments is taken apart payment by payment:
along the list the fund has paid what was listed so far (`FundPays`), each
recipient has got it (`RecipientPaid`), and the locks grow by what was promised as
long as the schedules fit, and never shrink (`LocksPromised`). `FundsInv` keeps the lists of
schedules within their length.

`OnePricePerEra` is inductive by itself, since a decision is kept aside until the
step that ends the era; `HashesFrozen` follows from the step of `set_cmix_hashes`,
the only one that writes the hashes.

Only model-checked: `DepositsReleased`, `ApprovedIsEnacted`, `AllPaidOut` and
`DecisionTakesEffect`, liveness under fairness, which is out of the prover's reach.
Every other property of the passing runs is a theorem above.

## 7. Not modelled

Substrate itself is external; of it only what the pallets rely on is modelled.
All pallets that the repository adds are modelled, with the migration and the fee
split. The rest of the repository has no state changes of the chain's own:

- *Runtime wiring* (`runtime/xxnetwork/src/lib.rs`, `runtime/canary/src/lib.rs`):
  the choice of types, constants and origins. The values that matter are
  constants of the modules (lifetimes, periods, existential deposit, which
  origin may call what).
- *Weights* are generated numbers; *mocks, tests, benchmarks* are test data.
- *Node, CLI, RPC, inspection, executor, chain specifications*: plumbing around
  the Substrate client, and data.

Most lines of the repository are of these kinds, which is why the lines the map
names are a small share of all although the pallets are covered.

Left out of what is modelled: cryptography and encodings; events other than the
bridge's transfers. A call dispatched by the bridge may be any runtime call; only
`swap.transfer` is modelled in `SwapBridge`, and re-entering the bridge from such
a call is not. Overflow is modelled where the code adds unchecked amounts that a
caller chooses (`swap`); sums of issued coins fit the 128 bits of a balance.

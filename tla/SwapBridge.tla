----------------------------- MODULE SwapBridge -----------------------------
(***************************************************************************)
(* The swap pallet (swap/src/lib.rs) composed with the chainbridge pallet: *)
(* native coins are locked on the bridge account when they leave the chain *)
(* and paid out of it when the relayers approve a swap.transfer call.      *)
(*                                                                         *)
(* Balances are those of pallet_balances: a transfer may not leave the     *)
(* receiver below the existential deposit, may not touch what a lock       *)
(* freezes, and what is left of the sender below the existential deposit   *)
(* is burned with the account (DustRemoval = ()).                          *)
(***************************************************************************)
EXTENDS ChainBridge

CONSTANTS Users,               \* accounts that hold coins
          Bridge,              \* the bridge account, account_id()
          NoAccount,           \* no fee destination
          ExistentialDeposit,
          Frozen,              \* user -> balance frozen by its locks
          Fees,                \* swap fees the administration sets
          Modulus,             \* 2^w for the width w of a balance
          UserFunds,           \* genesis balance of each user
          BridgeFunds,         \* genesis balance of the bridge account
          MaxGifts,            \* bound: coins sent to the bridge account directly
          NativeTokenId        \* T::NativeTokenId

Holders == Users \cup {Bridge}

ASSUME SwapAssumption ==
    /\ Bridge \notin Users /\ NoAccount \notin Holders
    /\ IsFiniteSet(Users)
    /\ Calls \subseteq [to : Holders, amount : Nat]
    /\ Payloads \subseteq Nat
    /\ ExistentialDeposit \in Nat \ {0}
    /\ Frozen \in [Users -> Nat]
    /\ Fees \subseteq Nat
    /\ Modulus \in Nat \ {0}
    /\ UserFunds \in Nat /\ BridgeFunds \in Nat
    /\ UserFunds >= ExistentialDeposit /\ BridgeFunds >= ExistentialDeposit
    /\ UserFunds * Cardinality(Users) + BridgeFunds < Modulus
    /\ NativeTokenId \in ResourceIds

VARIABLES balance,         \* holder -> free balance
          swapFee,         \* SwapFee
          feeDestination,  \* FeeDestination
          gifts,           \* coins the bridge account got other than by a swap:
                           \* transfers of users, and fees if they go there
          dust             \* holder -> what was burned when it was reaped

feeVars  == <<swapFee, feeDestination>>
coinVars == <<balance, gifts, dust>>
swapVars == <<vars, feeVars, coinVars>>

Lock(h) == IF h = Bridge THEN 0 ELSE Frozen[h]

\* A transfer of nothing or to oneself always succeeds and does nothing.
IsVoid(from, to, amount) == amount = 0 \/ from = to

CanTransfer(b, from, to, amount) ==
    \/ IsVoid(from, to, amount)
    \/ /\ b[from] >= amount
       /\ b[from] - amount >= Lock(from)
       /\ b[to] + amount >= ExistentialDeposit

\* What a transfer leaves on the sender's account if it is less than the
\* existential deposit.
DustOf(b, from, to, amount) ==
    IF ~IsVoid(from, to, amount) /\ b[from] - amount < ExistentialDeposit
    THEN b[from] - amount ELSE 0

Transfer(b, from, to, amount) ==
    IF IsVoid(from, to, amount) THEN b
    ELSE [b EXCEPT ![from] = @ - amount - DustOf(b, from, to, amount),
                   ![to] = @ + amount]

SwapInit ==
    /\ Init
    /\ balance = [h \in Holders |-> IF h = Bridge THEN BridgeFunds ELSE UserFunds]
    /\ swapFee \in Fees
    /\ feeDestination \in Holders \cup {NoAccount}
    /\ gifts = 0
    /\ dust = [h \in Holders |-> 0]

-----------------------------------------------------------------------------
(***************************************************************************)
(* transfer_native.  The sum of amount and fee wraps around at the width   *)
(* of a balance, as unchecked integer addition does in a release build;    *)
(* each transfer checks the balance again, and an error in the second      *)
(* undoes the first.                                                       *)
(***************************************************************************)
\* The account the fee goes to; paid to the payer itself, it does nothing.
FeeTo(source) == IF feeDestination = NoAccount THEN source ELSE feeDestination

\* The fee, if it goes to the bridge account.
FeeToBridge == IF feeDestination = Bridge THEN swapFee ELSE 0

Min2(x, y) == IF x <= y THEN x ELSE y

\* Variant: the bridge receives the amount less the fee.
TransferNativeNetOfFee(source, amount, dest) ==
    LET paid   == Transfer(balance, source, FeeTo(source), swapFee)
        locked == amount - Min2(amount, swapFee)
    IN  /\ ChainWhitelisted(dest)
        /\ balance[source] >= (amount + swapFee) % Modulus
        /\ CanTransfer(balance, source, FeeTo(source), swapFee)
        /\ CanTransfer(paid, source, Bridge, locked)
        /\ balance' = Transfer(paid, source, Bridge, locked)
        /\ dust' = [dust EXCEPT ![source] =
                        @ + DustOf(balance, source, FeeTo(source), swapFee)
                          + DustOf(paid, source, Bridge, locked)]
        /\ TransferOut(dest, amount)
        /\ gifts' = gifts + FeeToBridge
        /\ UNCHANGED feeVars

\* Variant: only the first check protects the balance.
TransferNativeUnchecked(source, amount, dest) ==
    LET paid == Transfer(balance, source, FeeTo(source), swapFee)
    IN  /\ ChainWhitelisted(dest)
        /\ balance[source] >= (amount + swapFee) % Modulus
        /\ CanTransfer(balance, source, FeeTo(source), swapFee)
        /\ balance' = Transfer(paid, source, Bridge, amount)
        /\ dust' = [dust EXCEPT ![source] =
                        @ + DustOf(balance, source, FeeTo(source), swapFee)
                          + DustOf(paid, source, Bridge, amount)]
        /\ TransferOut(dest, amount)
        /\ gifts' = gifts + FeeToBridge
        /\ UNCHANGED feeVars

TransferNative(source, amount, dest) ==
    LET paid == Transfer(balance, source, FeeTo(source), swapFee)
    IN  /\ ChainWhitelisted(dest)
        /\ balance[source] >= (amount + swapFee) % Modulus
        /\ CanTransfer(balance, source, FeeTo(source), swapFee)
        /\ CanTransfer(paid, source, Bridge, amount)
        /\ balance' = Transfer(paid, source, Bridge, amount)
        /\ dust' = [dust EXCEPT ![source] =
                        @ + DustOf(balance, source, FeeTo(source), swapFee)
                          + DustOf(paid, source, Bridge, amount)]
        /\ TransferOut(dest, amount)
        /\ gifts' = gifts + FeeToBridge
        /\ UNCHANGED feeVars

(***************************************************************************)
(* swap.transfer, the call the relayers approve, dispatched with the       *)
(* bridge account as its signed origin.                                    *)
(***************************************************************************)
\* Variant: the coins are minted instead of taken from the bridge account.
PayOutMinting(call) ==
    /\ CanTransfer(balance, Bridge, call.to, call.amount)
    /\ balance' = [balance EXCEPT ![call.to] = @ + call.amount]
    /\ UNCHANGED dust

PayOut(call) ==
    /\ CanTransfer(balance, Bridge, call.to, call.amount)
    /\ balance' = Transfer(balance, Bridge, call.to, call.amount)
    /\ dust' = [dust EXCEPT ![Bridge] =
                    @ + DustOf(balance, Bridge, call.to, call.amount)]

\* The effect on the balances of a vote step on p: none unless the call of p
\* is dispatched by it.
Settle(p) ==
    /\ IF dispatched' = dispatched THEN UNCHANGED <<balance, dust>>
                                   ELSE PayOut(p.call)
    /\ UNCHANGED <<feeVars, gifts>>

SetSwapFee(fee) ==
    /\ swapFee' = fee
    /\ UNCHANGED <<vars, feeDestination, coinVars>>

SetFeeDestination(dest) ==
    /\ feeDestination' = dest
    /\ UNCHANGED <<vars, swapFee, coinVars>>

\* A transfer of the balances pallet, to the bridge account or to a user.
UserTransfer(from, to, amount) ==
    /\ ~IsVoid(from, to, amount)
    /\ CanTransfer(balance, from, to, amount)
    /\ balance' = Transfer(balance, from, to, amount)
    /\ dust' = [dust EXCEPT ![from] = @ + DustOf(balance, from, to, amount)]
    /\ gifts' = IF to = Bridge THEN gifts + amount ELSE gifts
    /\ to = Bridge => gifts' <= MaxGifts
    /\ UNCHANGED <<vars, feeVars>>

SwapAdmin ==
    \/ Admin /\ UNCHANGED <<feeVars, coinVars>>
    \/ \E fee \in Fees : SetSwapFee(fee)
    \/ \E dest \in Holders : SetFeeDestination(dest)

SwapVote(p) ==
    /\ \/ \E a \in Accounts, id \in ResourceIds :
              AcknowledgeProposal(a, p, id) \/ RejectProposal(a, p, id)
       \/ EvalVoteState(p)
    /\ Settle(p)

UserStep ==
    \/ \E u \in Users, m \in Payloads, c \in Chains : TransferNative(u, m, c)
    \/ \E u \in Users, to \in Holders, m \in Payloads : UserTransfer(u, to, m)

SwapNext ==
    \/ SwapAdmin
    \/ \E p \in Proposals : SwapVote(p)
    \/ UserStep
    \/ NextBlock /\ UNCHANGED <<feeVars, coinVars>>

SwapSpec == SwapInit /\ [][SwapNext]_swapVars

\* The same from a genesis in which the native token is registered.
RegisteredInit == SwapInit /\ NativeTokenId \in resources

RegisteredSpec == RegisteredInit /\ [][SwapNext]_swapVars

-----------------------------------------------------------------------------
(* Properties. *)

SwapTypeOK ==
    /\ balance \in [Holders -> Nat]
    /\ swapFee \in Fees
    /\ feeDestination \in Holders \cup {NoAccount}
    /\ gifts \in Nat
    /\ dust \in [Holders -> Nat]

\* The coins announced to other chains by transfer events.
Locked == SumFunction([i \in 1..Len(emitted) |-> emitted[i].payload])

\* What an executed call takes from the bridge account, and what it leaves
\* there: a release to the bridge account itself moves nothing.
PaidOut == [c \in Calls |-> IF c.to = Bridge THEN 0 ELSE c.amount]

Kept == [c \in Calls |-> IF c.to = Bridge THEN c.amount ELSE 0]

\* The executed calls, each counted with the weight w gives it.
ExecutedAmount(w) ==
    SumFunction([p \in {q \in Proposals : dispatched[q] > 0} |->
                    dispatched[p] * w[p.call]])

\* The coins paid out by executed proposals.
Released == ExecutedAmount(PaidOut)

\* The bridge account holds what genesis gave it, plus every coin announced
\* to another chain, less every coin released for one, plus what was sent to
\* it directly or as a fee, whatever fees are charged and wherever they go: a
\* failed second transfer leaves no event, a failed call no release
\* (transfer_native, transfer).
BridgeAccountsForTransfers ==
    balance[Bridge] + dust[Bridge] + Released = BridgeFunds + gifts + Locked

\* "After this call, bridge transfers with the associated resource ID will be
\* rejected" (remove_resource): no transfer of the native token is announced
\* while its resource is not registered.
NoTransferOfRemovedResource ==
    [][emitted' # emitted => NativeTokenId \in resources]_swapVars
=============================================================================

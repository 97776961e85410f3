----------------------------- MODULE BridgedCoins -----------------------------
(***************************************************************************)
(* The whole bridge: the swap and chainbridge pallets, the relayers, and   *)
(* the chain at the other end, where coins locked here circulate as        *)
(* wrapped coins.  The remote contract is not part of the repository; it   *)
(* is modelled by what the pallets rely on: it mints the amount of each    *)
(* transfer event once, in any order, and to send coins back it burns them *)
(* and numbers the deposit.                                                *)
(***************************************************************************)
EXTENDS SwapBridge, BridgeRelayers

CONSTANT Remote  \* the chain at the other end

\* The genesis of every network registers one chain beside this one.
ASSUME RemoteAssumption == Remote # ThisChain /\ Chains = {ThisChain, Remote}

VARIABLES wrapped,  \* wrapped coins in circulation on the remote chain
          minted    \* indexes of the transfer events minted there

bridgedVars == <<swapVars, genuine, wrapped, minted>>

remoteVars == <<genuine, wrapped, minted>>

\* At genesis the bridge account backs the wrapped coins in circulation.
BridgedInit ==
    /\ SwapInit
    /\ RelayInit
    /\ wrapped = BridgeFunds
    /\ minted = {}

\* The remote contract mints the coins of a transfer event.
RemoteMint(i) ==
    /\ i \in DOMAIN emitted \ minted
    /\ emitted[i].dest = Remote
    /\ minted' = minted \cup {i}
    /\ wrapped' = wrapped + emitted[i].payload
    /\ UNCHANGED <<swapVars, genuine>>

\* The remote contract burns coins to send them back.
RemoteBurn(p) ==
    /\ p.src = Remote
    /\ p.call.amount <= wrapped
    /\ wrapped' = wrapped - p.call.amount
    /\ RemoteDeposit(p)
    /\ UNCHANGED <<feeVars, coinVars, minted>>

BridgedVote ==
    \E p \in Proposals :
        /\ \/ \E a \in Accounts, id \in ResourceIds :
                 \/ WillAcknowledge(a, p) /\ AcknowledgeProposal(a, p, id)
                 \/ RejectProposal(a, p, id)
           \/ EvalVoteState(p)
        /\ Settle(p)

BridgedNext ==
    \/ SwapAdmin /\ Safe(relayerThreshold') /\ UNCHANGED remoteVars
    \/ BridgedVote /\ UNCHANGED remoteVars
    \/ UserStep /\ UNCHANGED remoteVars
    \/ NextBlock /\ UNCHANGED <<feeVars, coinVars, remoteVars>>
    \/ \E i \in DOMAIN emitted : RemoteMint(i)
    \/ \E p \in Proposals : RemoteBurn(p)

BridgedSpec == BridgedInit /\ [][BridgedNext]_bridgedVars

-----------------------------------------------------------------------------
(* Properties. *)

\* Coins on their way to the remote chain.
InTransitOut ==
    SumFunction([i \in {j \in DOMAIN emitted \ minted : emitted[j].dest = Remote}
                    |-> emitted[i].payload])

\* Coins on their way back: burned there and not released here.
InTransitBack ==
    SumFunction([p \in {q \in genuine : dispatched[q] = 0} |-> p.call.amount])

\* Coins burned there whose release went to the bridge account itself.
ReleasedToItself == ExecutedAmount(Kept)

\* Every wrapped coin, in circulation or on its way, is backed by a coin on
\* the bridge account; what it lacks is exactly the dust burned when a release
\* reaped the account, and what it has beyond is exactly what was given to it
\* and what it released to itself (transfer_native, transfer,
\* finalize_execution).
WrappedCoinsBacked ==
    balance[Bridge] + dust[Bridge]
        = wrapped + InTransitOut + InTransitBack + gifts + ReleasedToItself

\* The bridge account can pay any burned deposit that is still open, save for
\* the dust it lost and the rules of the balances pallet for the receiver.
ReleasesFunded ==
    \A p \in genuine :
        dispatched[p] = 0 => balance[Bridge] + dust[Bridge] >= p.call.amount
=============================================================================

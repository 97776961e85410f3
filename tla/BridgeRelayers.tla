--------------------------- MODULE BridgeRelayers ---------------------------
(***************************************************************************)
(* The chainbridge pallet together with its environment: the chains it is  *)
(* bridged to, on which deposits are made, and the relayers, of which some *)
(* may be faulty.  The relayer software is not part of the repository; all *)
(* that is assumed of a correct relayer is that it acknowledges a proposal *)
(* only if the deposit it stands for was made, and for progress that it    *)
(* does not vote against one.  A faulty relayer votes on anything: also on *)
(* a proposal whose deposit is still to be made, which opens it and starts *)
(* its lifetime.                                                           *)
(***************************************************************************)
EXTENDS ChainBridge

CONSTANT Faulty  \* the accounts that are faulty when they are relayers

ASSUME FaultyAssumption == Faulty \subseteq Accounts

VARIABLE genuine  \* the proposals that stand for deposits made elsewhere

relayVars == <<vars, genuine>>

(***************************************************************************)
(* The administration is assumed to keep the threshold above the number of *)
(* faulty accounts; it may otherwise do what it likes.                     *)
(***************************************************************************)
Safe(threshold) == threshold > Cardinality(Faulty)

RelayInit ==
    /\ Init
    /\ Safe(relayerThreshold)
    /\ genuine = {}

\* A deposit on another chain: its nonce there is new (the counterpart of
\* bump_nonce on that chain).
RemoteDeposit(p) ==
    /\ p.src # ThisChain
    /\ \A q \in genuine : q.src = p.src => q.nonce # p.nonce
    /\ genuine' = genuine \cup {p}
    /\ UNCHANGED vars

WillAcknowledge(a, p) == a \in Faulty \/ p \in genuine

RelayedVote ==
    \E p \in Proposals :
        \/ \E a \in Accounts, id \in ResourceIds :
              \/ WillAcknowledge(a, p) /\ AcknowledgeProposal(a, p, id)
              \/ RejectProposal(a, p, id)
        \/ EvalVoteState(p)

RelayNext ==
    \/ /\ Admin /\ Safe(relayerThreshold')
       /\ UNCHANGED genuine
    \/ RelayedVote /\ UNCHANGED genuine
    \/ \E c \in Chains, m \in Payloads : TransferOut(c, m) /\ UNCHANGED genuine
    \/ NextBlock /\ UNCHANGED genuine
    \/ \E p \in Proposals : RemoteDeposit(p)

RelaySpec == RelayInit /\ [][RelayNext]_relayVars

-----------------------------------------------------------------------------
(* Safety. *)

\* A call takes effect only if the deposit it stands for was made: the votes
\* of faulty relayers, past and present, never add up to an execution, even
\* when relayers are removed while their votes stay and the threshold moves.
OnlyGenuineExecuted ==
    \A p \in Proposals : dispatched[p] > 0 => p \in genuine

\* One deposit releases once: no two proposals with the same source chain and
\* deposit nonce are both executed, although the pallet keeps them under
\* different keys when their calls differ.
OneReleasePerDeposit ==
    \A p, q \in Proposals :
        /\ dispatched[p] > 0 /\ dispatched[q] > 0
        /\ p.src = q.src /\ p.nonce = q.nonce
        => p = q

-----------------------------------------------------------------------------
(***************************************************************************)
(* Liveness, for a fixed set of relayers, of which the correct ones vote   *)
(* for deposits and never against.  Fairness: a correct relayer goes on    *)
(* submitting its vote until it is stored, and a call that fails is not    *)
(* made to fail for ever.  Synchrony: no block ends the lifetime of the    *)
(* proposal of a deposit while the vote of a correct relayer on it is      *)
(* outstanding.  Before the deposit it may end, if a faulty relayer has    *)
(* opened the proposal by then.                                            *)
(***************************************************************************)
Outstanding(a, p) ==
    /\ a \in relayers \ Faulty
    /\ p \in genuine
    /\ Open(VotesOn(p))
    /\ ~HasVoted(VotesOn(p), a)

TimelyBlock ==
    /\ NextBlock
    /\ \A p \in DOMAIN votes :
          votes[p].expiry = now + 1 =>
              \A a \in Accounts : ~Outstanding(a, p)

\* A correct relayer acknowledges a deposit.
RelayAck(a, p) ==
    /\ a \in relayers \ Faulty
    /\ p \in genuine
    /\ \E id \in ResourceIds : AcknowledgeProposal(a, p, id)
    /\ UNCHANGED genuine

\* A faulty relayer votes for or against any proposal, its deposit made or not.
FaultyVote(a, p) ==
    /\ a \in Faulty
    /\ \E id \in ResourceIds : AcknowledgeProposal(a, p, id) \/ RejectProposal(a, p, id)
    /\ UNCHANGED genuine

\* A quorum of correct relayers is in place, the faulty ones are too few to
\* block it, and the source chains and a resource are registered.
LiveInit ==
    /\ RelayInit
    /\ Cardinality(relayers \ Faulty) >= relayerThreshold
    /\ resources # {}
    /\ DOMAIN chainNonces = Chains \ {ThisChain}

LiveNext ==
    \/ \E a \in Accounts, p \in Proposals : RelayAck(a, p) \/ FaultyVote(a, p)
    \/ \E p \in Proposals : EvalVoteState(p) /\ UNCHANGED genuine
    \/ \E p \in Proposals : RemoteDeposit(p)
    \/ TimelyBlock /\ UNCHANGED genuine

LiveSpec ==
    /\ LiveInit /\ [][LiveNext]_relayVars
    /\ \A a \in Accounts, p \in Proposals : WF_relayVars(RelayAck(a, p))

\* A deposit on a whitelisted chain whose proposal is open or was not voted on
\* yet is executed in the end (acknowledge_proposal through
\* finalize_execution): the votes of a quorum of correct relayers get there
\* whatever order they come in, although faulty relayers vote before and
\* against them.  A proposal that faulty relayers opened before the deposit
\* and whose lifetime has run out by then stays expired (SettledForever), and
\* its deposit is never released.
DepositsReleased ==
    \A p \in Proposals :
        (p \in genuine /\ Open(VotesOn(p))) ~> dispatched[p] = 1
=============================================================================

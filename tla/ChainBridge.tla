----------------------------- MODULE ChainBridge -----------------------------
(***************************************************************************)
(* The chainbridge pallet (chainbridge/src/lib.rs): relayers vote on calls *)
(* that another chain asks this chain to execute, and transfers that leave *)
(* this chain are numbered by a deposit nonce per destination.             *)
(*                                                                         *)
(* An extrinsic runs in a storage layer: when it returns an error, every   *)
(* write it made is discarded.  An extrinsic that fails a check is         *)
(* therefore no step at all; one whose dispatched call fails at the very   *)
(* end is a step that changes nothing (CallFails).                         *)
(***************************************************************************)
EXTENDS StorageMap, Naturals, Sequences, FiniteSets, Functions

CONSTANTS Accounts,          \* accounts that may become relayers
          Chains,            \* chain identifiers, this chain's included
          ThisChain,         \* T::ChainId
          ResourceIds,       \* resource identifiers
          DepositNonces,     \* nonces that proposals carry
          Calls,             \* calls a proposal can ask for (T::Proposal)
          Payloads,          \* contents of an outgoing transfer
          ProposalLifetime,  \* T::ProposalLifetime, in blocks
          MaxThreshold,      \* bound: largest threshold an admin sets
          MaxTransfers,      \* bound: outgoing transfers in a behaviour
          MaxBlock           \* bound: last block number

ASSUME ConstantsAssumption ==
    /\ IsFiniteSet(Accounts)
    /\ ThisChain \in Chains
    /\ DepositNonces \subseteq Nat
    /\ ProposalLifetime \in Nat
    /\ MaxThreshold \in Nat \ {0}
    /\ MaxTransfers \in Nat
    /\ MaxBlock \in Nat

VARIABLES chainNonces,       \* ChainNonces: whitelisted chain -> last nonce
          relayerThreshold,  \* RelayerThreshold
          relayers,          \* Relayers: the accounts mapped to true
          relayerCount,      \* RelayerCount
          votes,             \* Votes: proposal -> ProposalVotes, where present
          resources,         \* Resources: the registered identifiers
          now,               \* frame_system block number
          dispatched,        \* how often the call of a proposal took effect
          emitted            \* transfer events, in order of emission

adminVars == <<relayerThreshold, relayers, relayerCount, resources>>
voteVars  == <<votes, dispatched>>
nonceVars == <<chainNonces, emitted>>
vars      == <<adminVars, voteVars, nonceVars, now>>

(***************************************************************************)
(* A proposal is the key of the Votes double map: two proposals that       *)
(* differ only in the call are voted on separately.                        *)
(***************************************************************************)
Proposals == [src : Chains, nonce : DepositNonces, call : Calls]

Status == {"Initiated", "Approved", "Rejected"}

ProposalVotes == [votesFor : Seq(Accounts), votesAgainst : Seq(Accounts),
                  status : Status, expiry : Nat]

TransferEvents == [dest : Chains, nonce : Nat, payload : Payloads]

IsComplete(v) == v.status # "Initiated"

\* Variant: the proposal lives one block less.
IsExpiredEarly(v) == v.expiry <= now + 1

\* Variant: the proposal lives one block longer.
IsExpiredLate(v) == v.expiry < now

IsExpired(v) == v.expiry <= now

\* Variant: only votes in favour are looked at.
HasVotedFor(v, who) == who \in Range(v.votesFor)

\* Variant: only votes against are looked at.
HasVotedAgainst(v, who) == who \in Range(v.votesAgainst)

HasVoted(v, who) == who \in Range(v.votesFor) \cup Range(v.votesAgainst)

\* Variant: a proposal is rejected one vote against too early.
OutcomeHasty(v, threshold, total) ==
    IF Len(v.votesFor) >= threshold THEN "Approved"
    ELSE IF total >= threshold /\ Len(v.votesAgainst) + threshold >= total
         THEN "Rejected"
         ELSE "Initiated"

\* Variant: one vote less than the threshold approves.
OutcomeShort(v, threshold, total) ==
    IF Len(v.votesFor) + 1 >= threshold THEN "Approved"
    ELSE IF total >= threshold /\ Len(v.votesAgainst) + threshold > total
         THEN "Rejected"
         ELSE "Initiated"

\* The status the votes call for, try_to_complete.
Outcome(v, threshold, total) ==
    IF Len(v.votesFor) >= threshold THEN "Approved"
    ELSE IF total >= threshold /\ Len(v.votesAgainst) + threshold > total
         THEN "Rejected"
         ELSE "Initiated"

\* The votes on p, or those of a proposal nobody has voted on yet.
VotesOn(p) ==
    IF p \in DOMAIN votes THEN votes[p]
    ELSE [votesFor |-> <<>>, votesAgainst |-> <<>>, status |-> "Initiated",
          expiry |-> now + ProposalLifetime]

ChainWhitelisted(c) == c \in DOMAIN chainNonces

ResourceExists(r) == r \in resources

(***************************************************************************)
(* Genesis: the swap pallet's genesis configuration whitelists chains,     *)
(* registers relayers and resources and sets a positive threshold.         *)
(***************************************************************************)
Init ==
    /\ \E cs \in SUBSET (Chains \ {ThisChain}) :
            chainNonces = [c \in cs |-> 0]
    /\ relayerThreshold \in 1..MaxThreshold
    /\ relayers \in SUBSET Accounts
    /\ relayerCount = Cardinality(relayers)
    /\ votes = [p \in {} |-> <<>>]
    /\ resources \in SUBSET ResourceIds
    /\ now = 0
    /\ dispatched = [p \in Proposals |-> 0]
    /\ emitted = <<>>

-----------------------------------------------------------------------------
(* Administration. *)

SetThreshold(threshold) ==
    /\ threshold > 0
    /\ relayerThreshold' = threshold
    /\ UNCHANGED <<relayers, relayerCount, resources, voteVars, nonceVars, now>>

SetResource(id) ==
    /\ resources' = resources \cup {id}
    /\ UNCHANGED <<relayerThreshold, relayers, relayerCount, voteVars,
                   nonceVars, now>>

RemoveResource(id) ==
    /\ resources' = resources \ {id}
    /\ UNCHANGED <<relayerThreshold, relayers, relayerCount, voteVars,
                   nonceVars, now>>

\* Variant: a chain can be whitelisted again.
WhitelistChainAgain(id) ==
    /\ id # ThisChain
    /\ chainNonces' = Insert(chainNonces, id, 0)
    /\ UNCHANGED <<adminVars, voteVars, emitted, now>>

WhitelistChain(id) ==
    /\ id # ThisChain
    /\ ~ChainWhitelisted(id)
    /\ chainNonces' = Insert(chainNonces, id, 0)
    /\ UNCHANGED <<adminVars, voteVars, emitted, now>>

\* Variant: a relayer can be registered twice.
AddRelayerTwice(a) ==
    /\ relayers' = relayers \cup {a}
    /\ relayerCount' = relayerCount + 1
    /\ UNCHANGED <<relayerThreshold, resources, voteVars, nonceVars, now>>

AddRelayer(a) ==
    /\ a \notin relayers
    /\ relayers' = relayers \cup {a}
    /\ relayerCount' = relayerCount + 1
    /\ UNCHANGED <<relayerThreshold, resources, voteVars, nonceVars, now>>

\* The votes the account has cast stay where they are.
RemoveRelayer(a) ==
    /\ a \in relayers
    /\ relayers' = relayers \ {a}
    /\ relayerCount' = relayerCount - 1
    /\ UNCHANGED <<relayerThreshold, resources, voteVars, nonceVars, now>>

-----------------------------------------------------------------------------
(* Voting and execution. *)

(***************************************************************************)
(* try_resolve_proposal, applied to the votes v on p: an open proposal     *)
(* takes the status its votes call for, and approval dispatches the call   *)
(* in the same extrinsic.  The dispatched call may fail whatever the       *)
(* votes; then the whole extrinsic is undone (CallFails).                  *)
(***************************************************************************)
\* Variant: a proposal can still be decided after it has expired.
OpenWhenExpired(v) == ~IsComplete(v)

Open(v) == ~IsComplete(v) /\ ~IsExpired(v)

\* Variant: the new status is not saved before the call is dispatched.
ResolveUnsaved(p, v, status) ==
    /\ Open(v)
    /\ Outcome(v, relayerThreshold, relayerCount) = status
    /\ votes' = Insert(votes, p, v)
    /\ dispatched' = IF status = "Approved"
                     THEN [dispatched EXCEPT ![p] = @ + 1]
                     ELSE dispatched
    /\ UNCHANGED <<adminVars, nonceVars, now>>

ResolveAs(p, v, status) ==
    /\ Open(v)
    /\ Outcome(v, relayerThreshold, relayerCount) = status
    /\ votes' = Insert(votes, p, [v EXCEPT !.status = status])
    /\ dispatched' = IF status = "Approved"
                     THEN [dispatched EXCEPT ![p] = @ + 1]
                     ELSE dispatched
    /\ UNCHANGED <<adminVars, nonceVars, now>>

\* Variant: the vote that met the threshold survives the failing call.
CallFailsKeepsVote(p, v) ==
    /\ Open(v)
    /\ Outcome(v, relayerThreshold, relayerCount) = "Approved"
    /\ votes' = Insert(votes, p, v)
    /\ UNCHANGED <<adminVars, dispatched, nonceVars, now>>

\* The call of an approved proposal fails: vote and status are rolled back.
CallFails(p, v) ==
    /\ Open(v)
    /\ Outcome(v, relayerThreshold, relayerCount) = "Approved"
    /\ UNCHANGED vars

TryResolve(p, v) == CallFails(p, v) \/ \E s \in Status : ResolveAs(p, v, s)

\* commit_vote: v with the vote of a added to the side it takes.
CommitVote(v, a, inFavour) ==
    IF inFavour THEN [v EXCEPT !.votesFor = Append(@, a)]
                ELSE [v EXCEPT !.votesAgainst = Append(@, a)]

\* The checks that acknowledge_proposal, reject_proposal and commit_vote make.
MayVote(a, p, id) ==
    /\ a \in relayers
    /\ ChainWhitelisted(p.src)
    /\ ResourceExists(id)
    /\ Open(VotesOn(p))
    /\ ~HasVoted(VotesOn(p), a)

AcknowledgeProposal(a, p, id) ==
    /\ MayVote(a, p, id)
    /\ TryResolve(p, CommitVote(VotesOn(p), a, TRUE))

RejectProposal(a, p, id) ==
    /\ MayVote(a, p, id)
    /\ TryResolve(p, CommitVote(VotesOn(p), a, FALSE))

\* Any signed account may ask for the votes to be counted again; neither the
\* source chain nor the resource is checked.
EvalVoteState(p) ==
    /\ p \in DOMAIN votes
    /\ TryResolve(p, votes[p])

-----------------------------------------------------------------------------
(* Outgoing transfers, for other pallets to call. *)

\* transfer_fungible, transfer_nonfungible and transfer_generic: one counter
\* per destination serves all three.
TransferOut(dest, payload) ==
    /\ Len(emitted) < MaxTransfers
    /\ ChainWhitelisted(dest)
    /\ chainNonces' = Insert(chainNonces, dest, chainNonces[dest] + 1)
    /\ emitted' = Append(emitted, [dest |-> dest,
                                   nonce |-> chainNonces[dest] + 1,
                                   payload |-> payload])
    /\ UNCHANGED <<adminVars, voteVars, now>>

\* The next block.
NextBlock ==
    /\ now < MaxBlock
    /\ now' = now + 1
    /\ UNCHANGED <<adminVars, voteVars, nonceVars>>

Admin ==
    \/ \E t \in 1..MaxThreshold : SetThreshold(t)
    \/ \E id \in ResourceIds : SetResource(id) \/ RemoveResource(id)
    \/ \E c \in Chains : WhitelistChain(c)
    \/ \E a \in Accounts : AddRelayer(a) \/ RemoveRelayer(a)

Vote ==
    \E p \in Proposals :
        \/ \E a \in Accounts, id \in ResourceIds :
                AcknowledgeProposal(a, p, id) \/ RejectProposal(a, p, id)
        \/ EvalVoteState(p)

Next ==
    \/ Admin
    \/ Vote
    \/ \E c \in Chains, m \in Payloads : TransferOut(c, m)
    \/ NextBlock

Spec == Init /\ [][Next]_vars

-----------------------------------------------------------------------------
(* Properties. *)

\* RelayerCount, kept by hand beside the Relayers map, is the size of the
\* relayer set after any sequence of registrations and removals
\* (register_relayer, unregister_relayer): rejection counts with it.
RelayerCountAgrees == relayerCount = Cardinality(relayers)

\* Type correctness of every storage item, of which RelayerCount must agree with
\* Relayers or its decrement would underflow.
TypeOK ==
    /\ DOMAIN chainNonces \subseteq Chains \ {ThisChain}
    /\ chainNonces \in [DOMAIN chainNonces -> Nat]
    /\ relayerThreshold \in Nat \ {0}
    /\ relayers \subseteq Accounts
    /\ relayerCount \in Nat /\ RelayerCountAgrees
    /\ DOMAIN votes \subseteq Proposals
    /\ votes \in [DOMAIN votes -> ProposalVotes]
    /\ resources \subseteq ResourceIds
    /\ now \in Nat
    /\ dispatched \in [Proposals -> Nat]
    /\ emitted \in Seq(TransferEvents)

\* No account has two voices on a proposal: neither two votes on one side nor
\* one on each, although it may leave and rejoin the relayer set in between
\* (has_voted).  So the length of a side is the number of accounts on it.
OneVoice ==
    \A p \in DOMAIN votes :
        /\ IsInjective(votes[p].votesFor)
        /\ IsInjective(votes[p].votesAgainst)
        /\ Range(votes[p].votesFor) \cap Range(votes[p].votesAgainst) = {}

\* A proposal's call has taken effect exactly once if the proposal is
\* Approved and not at all otherwise, across votes, re-evaluations by anyone,
\* failed dispatches and expiry (try_resolve_proposal, finalize_execution).
ExecutedIffApproved ==
    \A p \in Proposals :
        dispatched[p] = IF p \in DOMAIN votes /\ votes[p].status = "Approved"
                        THEN 1 ELSE 0

\* Which of the first n transfers of a list go to c.
SentTo(transfers, c, n) == {i \in 1..n : transfers[i].dest = c}

\* The nonces of the transfers sent to a destination are 1, 2, 3, ... in the
\* order of their events, whatever kinds of transfer are mixed and however
\* the chain list is administered (bump_nonce, whitelist): the other chain
\* identifies a deposit by this chain and the nonce.
DepositNoncesConsecutive ==
    \A i \in 1..Len(emitted) :
        emitted[i].nonce = Cardinality(SentTo(emitted, emitted[i].dest, i))

\* Once a proposal is complete or its lifetime is over, its votes and its
\* status never change again and its call is not dispatched, whatever the
\* threshold and the relayers become (is_complete, is_expired).
SettledForever ==
    [][\A p \in DOMAIN votes :
          votes[p].status # "Initiated" \/ votes[p].expiry <= now
          => /\ p \in DOMAIN votes'
             /\ votes'[p] = votes[p]
             /\ dispatched'[p] = dispatched[p]]_vars

VoteStep(p) ==
    p \in DOMAIN votes' /\ (p \notin DOMAIN votes \/ votes'[p] # votes[p])

\* A vote that brings a proposal to the threshold is never stored without the
\* proposal being executed in the same extrinsic: when the call fails the
\* vote is undone too and its relayer may cast it again (finalize_execution).
NoVoteKeptUnexecuted ==
    [][\A p \in Proposals :
          VoteStep(p) /\ Len(votes'[p].votesFor) >= relayerThreshold
          => dispatched'[p] = dispatched[p] + 1]_vars

\* As long as everybody who voted is still a relayer and the threshold can be
\* met at all, a vote rejects a proposal exactly when the relayers that have
\* not voted against it are too few to approve it (try_to_complete).
RejectedIffUnreachable ==
    [][\A p \in Proposals :
          LET for == Range(votes'[p].votesFor)
              against == Range(votes'[p].votesAgainst)
          IN  /\ VoteStep(p)
              /\ for \cup against \subseteq relayers
              /\ relayerThreshold <= Cardinality(relayers)
              => (votes'[p].status = "Rejected" <=>
                    Cardinality(relayers \ against) < relayerThreshold)]_vars

\* The outcome of a proposal as ProposalOutcome tells it.
OutcomeOf(p) ==
    IF p \notin DOMAIN votes THEN "open"
    ELSE IF votes[p].status = "Approved" THEN "executed"
    ELSE IF votes[p].status = "Rejected" THEN "cancelled"
    ELSE IF votes[p].expiry <= now THEN "lapsed"
    ELSE "open"

outcomes == [p \in Proposals |-> OutcomeOf(p)]

Abstract == INSTANCE ProposalOutcome WITH outcome <- outcomes, runs <- dispatched

\* The pallet implements ProposalOutcome.
ImplementsOutcome == Abstract!OutcomeSpec
=============================================================================

------------------------- MODULE ChainBridge_proofs -------------------------
(***************************************************************************)
(* Proofs about the chainbridge pallet, for every value of the constants:  *)
(* of the pallet alone, and then of the pallet with faulty relayers.       *)
(***************************************************************************)
EXTENDS BridgeRelayers, FiniteSetTheorems, SequenceTheorems, TLAPS

(* Storage maps and sequences. *)

\* An insert into a partial map over D yields one, with the new entry.
LEMMA InsertType ==
    ASSUME NEW D, NEW S, NEW f, DOMAIN f \subseteq D, f \in [DOMAIN f -> S],
           NEW k \in D, NEW v \in S
    PROVE  /\ DOMAIN Insert(f, k, v) = DOMAIN f \cup {k}
           /\ DOMAIN Insert(f, k, v) \subseteq D
           /\ Insert(f, k, v) \in [DOMAIN Insert(f, k, v) -> S]
           /\ Insert(f, k, v)[k] = v
           /\ \A x \in DOMAIN f \ {k} : Insert(f, k, v)[x] = f[x]
<1> DEFINE g == Insert(f, k, v)
<1>1. g = [x \in DOMAIN f \cup {k} |-> IF x = k THEN v ELSE f[x]]
  BY DEF Insert
<1>2. DOMAIN g = DOMAIN f \cup {k}
  BY <1>1
<1>3. \A x \in DOMAIN f \cup {k} : g[x] \in S
  BY <1>1
<1>4. g \in [DOMAIN g -> S]
  BY <1>1, <1>2, <1>3
<1>5. QED
  BY <1>1, <1>2, <1>4

\* Appending an element that is not in an injective sequence keeps it
\* injective and adds the element to its range.
LEMMA AppendInjectiveSeq ==
    ASSUME NEW S, NEW s \in Seq(S), NEW e \in S
    PROVE  /\ Range(Append(s, e)) = Range(s) \cup {e}
           /\ IsInjective(s) /\ e \notin Range(s) => IsInjective(Append(s, e))
<1> DEFINE t == Append(s, e)
<1>1. /\ Len(t) = Len(s) + 1 /\ Len(s) \in Nat
      /\ DOMAIN s = 1..Len(s) /\ DOMAIN t = 1..Len(t)
      /\ \A i \in 1..Len(s) : t[i] = s[i]
      /\ t[Len(s) + 1] = e
  BY AppendProperties, LenProperties
<1>2. Range(t) = Range(s) \cup {e}
  BY <1>1 DEF Range
<1>3. ASSUME IsInjective(s), e \notin Range(s)
      PROVE  IsInjective(t)
  <2>1. ASSUME NEW a \in DOMAIN t, NEW b \in DOMAIN t, t[a] = t[b]
        PROVE  a = b
    <3>1. \A i \in 1..Len(s) : t[i] # e
      BY <1>1, <1>3 DEF Range
    <3>2. CASE a \in 1..Len(s) /\ b \in 1..Len(s)
      BY <1>1, <1>3, <2>1, <3>2 DEF IsInjective
    <3>3. QED
      BY <1>1, <2>1, <3>1, <3>2
  <2>2. QED
    BY <2>1 DEF IsInjective
<1>4. QED
  BY <1>2, <1>3

\* An injective sequence is as long as its range is large.
LEMMA InjectiveSeqRange ==
    ASSUME NEW S, NEW s \in Seq(S), IsInjective(s)
    PROVE  IsFiniteSet(Range(s)) /\ Cardinality(Range(s)) = Len(s)
<1>1. DOMAIN s = 1..Len(s) /\ Len(s) \in Nat
  BY LenProperties
<1>2. IsFiniteSet(1..Len(s)) /\ Cardinality(1..Len(s)) = Len(s)
  BY <1>1, FS_Interval
<1>3. ExistsBijection(1..Len(s), Range(s))
  <2>1. s \in [1..Len(s) -> Range(s)] /\ \A r \in Range(s) : \E i \in 1..Len(s) : s[i] = r
    BY <1>1 DEF Range
  <2>2. \A a, b \in 1..Len(s) : s[a] = s[b] => a = b
    BY <1>1 DEF IsInjective
  <2>3. QED
    BY <2>1, <2>2 DEF ExistsBijection, Bijection, Injection, Surjection
<1>4. QED
  BY <1>2, <1>3, FS_Bijection

-----------------------------------------------------------------------------
(* Votes. *)

\* A fresh or stored vote record is well formed.
LEMMA VotesOnType ==
    ASSUME TypeOK, NEW p \in Proposals
    PROVE  VotesOn(p) \in ProposalVotes
<1>1. CASE p \in DOMAIN votes
  BY <1>1 DEF VotesOn, TypeOK
<1>2. CASE p \notin DOMAIN votes
  <2>1. now + ProposalLifetime \in Nat
    BY ConstantsAssumption DEF TypeOK
  <2>2. << >> \in Seq(Accounts)
    BY EmptySeq
  <2>3. QED
    BY <1>2, <2>1, <2>2 DEF VotesOn, ProposalVotes, Status
<1>3. QED
  BY <1>1, <1>2

\* Committing a vote appends it to one side and leaves the rest alone.
LEMMA CommitVoteProperties ==
    ASSUME NEW v \in ProposalVotes, NEW a \in Accounts, NEW inFavour \in BOOLEAN
    PROVE  LET w == CommitVote(v, a, inFavour)
           IN  /\ w \in ProposalVotes
               /\ w.status = v.status /\ w.expiry = v.expiry
               /\ w.votesFor = IF inFavour THEN Append(v.votesFor, a)
                                           ELSE v.votesFor
               /\ w.votesAgainst = IF inFavour THEN v.votesAgainst
                                               ELSE Append(v.votesAgainst, a)
<1>1. Append(v.votesFor, a) \in Seq(Accounts) /\ Append(v.votesAgainst, a) \in Seq(Accounts)
  BY AppendProperties DEF ProposalVotes
<1>2. CASE inFavour
  BY <1>1, <1>2 DEF CommitVote, ProposalVotes
<1>3. CASE ~inFavour
  BY <1>1, <1>3 DEF CommitVote, ProposalVotes
<1>4. QED
  BY <1>2, <1>3

-----------------------------------------------------------------------------
(* The form of a step. *)

\* The record v that a voting extrinsic resolves: the stored votes on p, or
\* the votes on p with one more by an account that has not voted.
Resolvable(p, v) ==
    \/ p \in DOMAIN votes /\ v = votes[p]
    \/ \E a \in relayers, inFavour \in BOOLEAN :
          /\ ~HasVoted(VotesOn(p), a)
          /\ v = CommitVote(VotesOn(p), a, inFavour)

\* Such a record is well formed, and keeps the status and the expiry.
LEMMA ResolvableProperties ==
    ASSUME TypeOK, NEW p \in Proposals, NEW v, Resolvable(p, v)
    PROVE  /\ v \in ProposalVotes
           /\ v.status = VotesOn(p).status /\ v.expiry = VotesOn(p).expiry
<1>1. VotesOn(p) \in ProposalVotes
  BY VotesOnType
<1>2. CASE p \in DOMAIN votes /\ v = votes[p]
  BY <1>1, <1>2 DEF VotesOn
<1>3. ASSUME NEW a \in relayers, NEW inFavour \in BOOLEAN,
             v = CommitVote(VotesOn(p), a, inFavour)
      PROVE  /\ v \in ProposalVotes
             /\ v.status = VotesOn(p).status /\ v.expiry = VotesOn(p).expiry
  <2>1. a \in Accounts
    BY DEF TypeOK
  <2>2. QED
    BY <1>1, <1>3, <2>1, CommitVoteProperties
<1>4. QED
  BY <1>2, <1>3 DEF Resolvable

\* A voting extrinsic changes nothing or resolves one such record.
LEMMA VoteForm ==
    ASSUME Vote
    PROVE  \/ UNCHANGED vars
           \/ \E p \in Proposals : \E v : \E s \in Status :
                 Resolvable(p, v) /\ ResolveAs(p, v, s)
<1>1. PICK p \in Proposals :
          \/ \E a \in Accounts, id \in ResourceIds :
                  AcknowledgeProposal(a, p, id) \/ RejectProposal(a, p, id)
          \/ EvalVoteState(p)
  BY DEF Vote
<1>2. ASSUME NEW v, TryResolve(p, v), Resolvable(p, v)
      PROVE  \/ UNCHANGED vars
             \/ \E w : \E s \in Status : Resolvable(p, w) /\ ResolveAs(p, w, s)
  BY <1>2 DEF TryResolve, CallFails
<1>3. ASSUME NEW a \in Accounts, NEW id \in ResourceIds, NEW b \in BOOLEAN,
             MayVote(a, p, id), TryResolve(p, CommitVote(VotesOn(p), a, b))
      PROVE  \/ UNCHANGED vars
             \/ \E w : \E s \in Status : Resolvable(p, w) /\ ResolveAs(p, w, s)
  <2>1. Resolvable(p, CommitVote(VotesOn(p), a, b))
    BY <1>3 DEF MayVote, Resolvable
  <2>2. QED
    BY <1>2, <1>3, <2>1
<1>4. CASE EvalVoteState(p)
  BY <1>2, <1>4 DEF EvalVoteState, Resolvable
<1>5. CASE \E a \in Accounts, id \in ResourceIds :
               AcknowledgeProposal(a, p, id) \/ RejectProposal(a, p, id)
  BY <1>3, <1>5 DEF AcknowledgeProposal, RejectProposal
<1>6. QED
  BY <1>1, <1>4, <1>5

-----------------------------------------------------------------------------
(* Type correctness. *)

TypeInv == TypeOK /\ RelayerCountAgrees

LEMMA TypeInvInit == Init => TypeInv
<1> SUFFICES ASSUME Init PROVE TypeInv
  OBVIOUS
<1>1. IsFiniteSet(relayers) /\ Cardinality(relayers) \in Nat
  BY FS_Subset, FS_CardinalityType, ConstantsAssumption DEF Init
<1>2. relayerThreshold \in Nat \ {0}
  BY ConstantsAssumption DEF Init
<1>3. emitted \in Seq(TransferEvents)
  BY EmptySeq DEF Init
<1>4. DOMAIN votes = {} /\ votes \in [DOMAIN votes -> ProposalVotes]
  BY DEF Init
<1>5. QED
  BY <1>1, <1>2, <1>3, <1>4 DEF Init, TypeInv, TypeOK, RelayerCountAgrees

\* An administrative step preserves the types and the relayer count.
LEMMA TypeInvAdmin == TypeInv /\ Admin => TypeInv'
<1> SUFFICES ASSUME TypeInv, Admin PROVE TypeInv'
  OBVIOUS
<1> USE DEF TypeInv, voteVars, nonceVars, adminVars
<1>1. IsFiniteSet(relayers) /\ Cardinality(relayers) \in Nat
  BY FS_Subset, FS_CardinalityType, ConstantsAssumption DEF TypeOK
<1>2. ASSUME NEW t \in 1..MaxThreshold, SetThreshold(t) PROVE TypeInv'
  BY <1>2, ConstantsAssumption DEF SetThreshold, TypeOK, RelayerCountAgrees
<1>3. ASSUME NEW id \in ResourceIds, SetResource(id) \/ RemoveResource(id)
      PROVE  TypeInv'
  BY <1>3 DEF SetResource, RemoveResource, TypeOK, RelayerCountAgrees
<1>4. ASSUME NEW c \in Chains, WhitelistChain(c) PROVE TypeInv'
  <2>1. /\ c \in Chains \ {ThisChain} /\ 0 \in Nat
        /\ DOMAIN chainNonces \subseteq Chains \ {ThisChain}
        /\ chainNonces \in [DOMAIN chainNonces -> Nat]
    BY <1>4 DEF WhitelistChain, TypeOK
  <2>2. /\ DOMAIN Insert(chainNonces, c, 0) \subseteq Chains \ {ThisChain}
        /\ Insert(chainNonces, c, 0) \in [DOMAIN Insert(chainNonces, c, 0) -> Nat]
    BY <2>1, InsertType, Zenon
  <2>3. QED
    BY <1>4, <2>2 DEF WhitelistChain, TypeOK, RelayerCountAgrees
<1>5. ASSUME NEW a \in Accounts, AddRelayer(a) PROVE TypeInv'
  <2>1. Cardinality(relayers') = Cardinality(relayers) + 1
    BY <1>1, <1>5, FS_AddElement DEF AddRelayer
  <2>2. QED
    BY <1>1, <1>5, <2>1 DEF AddRelayer, TypeOK, RelayerCountAgrees
<1>6. ASSUME NEW a \in Accounts, RemoveRelayer(a) PROVE TypeInv'
  <2>1. /\ Cardinality(relayers') = Cardinality(relayers) - 1
        /\ Cardinality(relayers') \in Nat
    BY <1>1, <1>6, FS_RemoveElement, FS_CardinalityType DEF RemoveRelayer
  <2>2. QED
    BY <1>1, <1>6, <2>1 DEF RemoveRelayer, TypeOK, RelayerCountAgrees
<1>7. QED
  BY <1>2, <1>3, <1>4, <1>5, <1>6 DEF Admin

\* So does a voting step.
LEMMA TypeInvVote == TypeInv /\ Vote => TypeInv'
<1> SUFFICES ASSUME TypeInv, Vote PROVE TypeInv'
  OBVIOUS
<1> USE DEF TypeInv
<1>1. CASE UNCHANGED vars
  BY <1>1 DEF vars, adminVars, voteVars, nonceVars, TypeOK, RelayerCountAgrees
<1>2. ASSUME NEW p \in Proposals, NEW v, NEW s \in Status,
             Resolvable(p, v), ResolveAs(p, v, s)
      PROVE  TypeInv'
  <2>1. [v EXCEPT !.status = s] \in ProposalVotes
    BY <1>2, ResolvableProperties DEF ProposalVotes
  <2>2. /\ DOMAIN votes \subseteq Proposals
        /\ votes \in [DOMAIN votes -> ProposalVotes]
        /\ votes' = Insert(votes, p, [v EXCEPT !.status = s])
    BY <1>2 DEF ResolveAs, TypeOK
  <2>3. DOMAIN votes' \subseteq Proposals /\ votes' \in [DOMAIN votes' -> ProposalVotes]
    BY <2>1, <2>2, InsertType, Zenon
  <2>4. dispatched' \in [Proposals -> Nat]
    BY <1>2 DEF ResolveAs, TypeOK
  <2>5. QED
    BY <1>2, <2>3, <2>4 DEF ResolveAs, adminVars, nonceVars, TypeOK, RelayerCountAgrees
<1>3. QED
  BY <1>1, <1>2, VoteForm

\* So does a transfer to another chain.
LEMMA TypeInvTransfer ==
    ASSUME TypeInv, NEW c \in Chains, NEW m \in Payloads, TransferOut(c, m)
    PROVE  TypeInv'
<1> USE DEF TypeInv
<1>1. chainNonces[c] + 1 \in Nat
  BY DEF TransferOut, ChainWhitelisted, TypeOK
<1>2. /\ DOMAIN chainNonces \subseteq Chains \ {ThisChain}
      /\ chainNonces \in [DOMAIN chainNonces -> Nat]
      /\ c \in Chains \ {ThisChain}
      /\ chainNonces' = Insert(chainNonces, c, chainNonces[c] + 1)
  BY DEF TransferOut, ChainWhitelisted, TypeOK
<1>3. /\ DOMAIN chainNonces' \subseteq Chains \ {ThisChain}
      /\ chainNonces' \in [DOMAIN chainNonces' -> Nat]
  <2> DEFINE n == chainNonces[c] + 1
  <2>1. n \in Nat
    BY <1>1
  <2> HIDE DEF n
  <2>2. /\ DOMAIN Insert(chainNonces, c, n) \subseteq Chains \ {ThisChain}
        /\ Insert(chainNonces, c, n) \in [DOMAIN Insert(chainNonces, c, n) -> Nat]
    BY <1>2, <2>1, InsertType, Zenon
  <2>3. QED
    BY <1>2, <2>2 DEF n
<1>4. emitted' \in Seq(TransferEvents)
  BY <1>1, AppendProperties DEF TransferOut, TransferEvents, TypeOK
<1>5. QED
  BY <1>3, <1>4 DEF TransferOut, adminVars, voteVars, TypeOK, RelayerCountAgrees

LEMMA TypeInvStep == TypeInv /\ [Next]_vars => TypeInv'
<1> SUFFICES ASSUME TypeInv, [Next]_vars PROVE TypeInv'
  OBVIOUS
<1>1. CASE Admin
  BY <1>1, TypeInvAdmin
<1>2. CASE Vote
  BY <1>2, TypeInvVote
<1>3. CASE \E c \in Chains, m \in Payloads : TransferOut(c, m)
  BY <1>3, TypeInvTransfer
<1>4. CASE NextBlock
  BY <1>4 DEF NextBlock, adminVars, voteVars, nonceVars, TypeInv, TypeOK,
              RelayerCountAgrees
<1>5. CASE UNCHANGED vars
  BY <1>5 DEF vars, adminVars, voteVars, nonceVars, TypeInv, TypeOK,
              RelayerCountAgrees
<1>6. QED
  BY <1>1, <1>2, <1>3, <1>4, <1>5 DEF Next

\* Every storage item keeps its type, and RelayerCount is the size of the
\* relayer set: without the second, unregister_relayer could take the count
\* below zero.
THEOREM TypeCorrect == Spec => [](TypeOK /\ RelayerCountAgrees)
<1>1. TypeInv => TypeOK /\ RelayerCountAgrees
  BY DEF TypeInv
<1>2. QED
  BY <1>1, TypeInvInit, TypeInvStep, PTL DEF Spec

-----------------------------------------------------------------------------
(* What a vote does. *)

\* A resolving step changes the votes on one open proposal, and the count of
\* executions of no other.
LEMMA VoteEffect ==
    ASSUME TypeOK, NEW p \in Proposals, NEW v, NEW s \in Status,
           Resolvable(p, v), ResolveAs(p, v, s)
    PROVE  /\ DOMAIN votes' = DOMAIN votes \cup {p}
           /\ votes'[p] \in ProposalVotes
           /\ votes'[p].status = s
           /\ votes'[p].votesFor = v.votesFor
           /\ votes'[p].votesAgainst = v.votesAgainst
           /\ votes'[p].expiry = VotesOn(p).expiry
           /\ \A q \in DOMAIN votes \ {p} : votes'[q] = votes[q]
           /\ VotesOn(p).status = "Initiated"
           /\ ~(VotesOn(p).expiry <= now)
           /\ dispatched'[p] = IF s = "Approved" THEN dispatched[p] + 1
                                                 ELSE dispatched[p]
           /\ \A q \in Proposals \ {p} : dispatched'[q] = dispatched[q]
<1> DEFINE w == [v EXCEPT !.status = s]
<1>1. v \in ProposalVotes /\ v.status = VotesOn(p).status /\ v.expiry = VotesOn(p).expiry
  BY ResolvableProperties
<1>2. /\ w \in ProposalVotes /\ w.status = s /\ w.expiry = v.expiry
      /\ w.votesFor = v.votesFor /\ w.votesAgainst = v.votesAgainst
  BY <1>1 DEF ProposalVotes
<1>3. votes' = Insert(votes, p, w)
  BY DEF ResolveAs
<1> HIDE DEF w
<1>4. /\ DOMAIN votes \subseteq Proposals
      /\ votes \in [DOMAIN votes -> ProposalVotes]
  BY DEF TypeOK
<1>5. /\ DOMAIN votes' = DOMAIN votes \cup {p} /\ votes'[p] = w
      /\ \A q \in DOMAIN votes \ {p} : votes'[q] = votes[q]
  <2>1. /\ DOMAIN Insert(votes, p, w) = DOMAIN votes \cup {p}
        /\ Insert(votes, p, w)[p] = w
        /\ \A q \in DOMAIN votes \ {p} : Insert(votes, p, w)[q] = votes[q]
    BY DEF Insert
  <2>2. QED
    BY <1>3, <2>1
<1>6. VotesOn(p).status = "Initiated" /\ ~(VotesOn(p).expiry <= now)
  BY <1>1 DEF ResolveAs, Open, IsComplete, IsExpired
<1>7. /\ dispatched'[p] = IF s = "Approved" THEN dispatched[p] + 1
                                            ELSE dispatched[p]
      /\ \A q \in Proposals \ {p} : dispatched'[q] = dispatched[q]
  BY DEF ResolveAs, TypeOK
<1>8. QED
  BY <1>1, <1>2, <1>5, <1>6, <1>7

\* Only a vote touches the votes and the executions.
LEMMA VotesChangeByVote ==
    ASSUME [Next]_vars, ~(UNCHANGED <<votes, dispatched>>)
    PROVE  \E p \in Proposals : \E v : \E s \in Status :
              Resolvable(p, v) /\ ResolveAs(p, v, s)
<1>1. ~Admin
  BY DEF Admin, SetThreshold, SetResource, RemoveResource, WhitelistChain,
         AddRelayer, RemoveRelayer, voteVars
<1>2. ~(\E c \in Chains, m \in Payloads : TransferOut(c, m))
  BY DEF TransferOut, voteVars
<1>3. ~NextBlock /\ ~(UNCHANGED vars)
  BY DEF NextBlock, voteVars, vars
<1>4. QED
  BY <1>1, <1>2, <1>3, VoteForm DEF Next

-----------------------------------------------------------------------------
(* One voice per account. *)

\* The votes of one record are cast by different accounts.
Distinct(v) ==
    /\ IsInjective(v.votesFor)
    /\ IsInjective(v.votesAgainst)
    /\ Range(v.votesFor) \cap Range(v.votesAgainst) = {}

LEMMA ResolvableDistinct ==
    ASSUME TypeOK, OneVoice, NEW p \in Proposals, NEW v, Resolvable(p, v)
    PROVE  Distinct(v)
<1>1. VotesOn(p) \in ProposalVotes
  BY VotesOnType
<1>2. Distinct(VotesOn(p))
  <2>1. CASE p \in DOMAIN votes
    BY <2>1 DEF OneVoice, Distinct, VotesOn
  <2>2. CASE p \notin DOMAIN votes
    <3>1. VotesOn(p).votesFor = << >> /\ VotesOn(p).votesAgainst = << >>
      BY <2>2 DEF VotesOn
    <3>2. DOMAIN << >> = {}
      OBVIOUS
    <3>3. IsInjective(<< >>) /\ Range(<< >>) = {}
      BY <3>2 DEF IsInjective, Range
    <3>4. QED
      BY <3>1, <3>3 DEF Distinct
  <2>3. QED
    BY <2>1, <2>2
<1>3. ASSUME NEW a \in relayers, NEW b \in BOOLEAN,
             ~HasVoted(VotesOn(p), a), v = CommitVote(VotesOn(p), a, b)
      PROVE  Distinct(v)
  <2> DEFINE f == VotesOn(p).votesFor
             g == VotesOn(p).votesAgainst
  <2>1. a \in Accounts /\ f \in Seq(Accounts) /\ g \in Seq(Accounts)
    BY <1>1 DEF TypeOK, ProposalVotes
  <2>2. a \notin Range(f) /\ a \notin Range(g)
    BY <1>3 DEF HasVoted
  <2>3. IsInjective(f) /\ IsInjective(g) /\ Range(f) \cap Range(g) = {}
    BY <1>2 DEF Distinct
  <2>4. /\ v.votesFor = IF b THEN Append(f, a) ELSE f
        /\ v.votesAgainst = IF b THEN g ELSE Append(g, a)
    BY <1>1, <1>3, <2>1, CommitVoteProperties
  <2> HIDE DEF f, g
  <2>5. /\ Range(Append(f, a)) = Range(f) \cup {a} /\ IsInjective(Append(f, a))
        /\ Range(Append(g, a)) = Range(g) \cup {a} /\ IsInjective(Append(g, a))
    BY <2>1, <2>2, <2>3, AppendInjectiveSeq
  <2>6. QED
    BY <2>2, <2>3, <2>4, <2>5 DEF Distinct
<1>4. QED
  BY <1>2, <1>3 DEF Resolvable, VotesOn

LEMMA OneVoiceStep == TypeInv /\ OneVoice /\ [Next]_vars => OneVoice'
<1> SUFFICES ASSUME TypeInv, OneVoice, [Next]_vars PROVE OneVoice'
  OBVIOUS
<1>1. CASE UNCHANGED <<votes, dispatched>>
  BY <1>1 DEF OneVoice
<1>2. ASSUME NEW p \in Proposals, NEW v, NEW s \in Status,
             Resolvable(p, v), ResolveAs(p, v, s)
      PROVE  OneVoice'
  <2>1. Distinct(v) /\ TypeOK
    BY <1>2, ResolvableDistinct DEF TypeInv
  <2>2. Distinct(votes'[p])
    BY <1>2, <2>1, VoteEffect DEF Distinct
  <2>3. /\ DOMAIN votes' = DOMAIN votes \cup {p}
        /\ \A q \in DOMAIN votes \ {p} : votes'[q] = votes[q]
    BY <1>2, <2>1, VoteEffect
  <2>4. \A q \in DOMAIN votes \ {p} : Distinct(votes[q])
    BY DEF OneVoice, Distinct
  <2>5. \A q \in DOMAIN votes' : Distinct(votes'[q])
    BY <2>2, <2>3, <2>4
  <2>6. QED
    BY <2>5 DEF OneVoice, Distinct
<1>3. QED
  BY <1>1, <1>2, VotesChangeByVote

\* No account has two voices on a proposal.
THEOREM VotesDistinct == Spec => []OneVoice
<1>1. Init => OneVoice
  BY DEF Init, OneVoice
<1>2. QED
  BY <1>1, OneVoiceStep, TypeInvInit, TypeInvStep, PTL DEF Spec

-----------------------------------------------------------------------------
(* Execution. *)

LEMMA ExecutedStep == TypeInv /\ ExecutedIffApproved /\ [Next]_vars => ExecutedIffApproved'
<1> SUFFICES ASSUME TypeInv, ExecutedIffApproved, [Next]_vars
             PROVE  ExecutedIffApproved'
  OBVIOUS
<1>1. CASE UNCHANGED <<votes, dispatched>>
  BY <1>1 DEF ExecutedIffApproved
<1>2. ASSUME NEW p \in Proposals, NEW v, NEW s \in Status,
             Resolvable(p, v), ResolveAs(p, v, s)
      PROVE  ExecutedIffApproved'
  <2>1. TypeOK
    BY DEF TypeInv
  <2>2. dispatched[p] = 0
    BY <1>2, <2>1, VoteEffect DEF VotesOn, ExecutedIffApproved
  <2>3. dispatched'[p] = IF votes'[p].status = "Approved" THEN 1 ELSE 0
    <3>1. /\ votes'[p].status = s
          /\ dispatched'[p] = IF s = "Approved" THEN dispatched[p] + 1
                                                ELSE dispatched[p]
      BY <1>2, <2>1, VoteEffect
    <3>2. QED
      BY <2>2, <3>1
  <2>4. /\ DOMAIN votes' = DOMAIN votes \cup {p}
        /\ \A q \in DOMAIN votes \ {p} : votes'[q] = votes[q]
        /\ \A q \in Proposals \ {p} : dispatched'[q] = dispatched[q]
    BY <1>2, <2>1, VoteEffect
  <2>5. QED
    BY <2>3, <2>4 DEF ExecutedIffApproved
<1>3. QED
  BY <1>1, <1>2, VotesChangeByVote

\* A proposal's call has taken effect exactly once if the proposal is
\* Approved, and not at all otherwise.
THEOREM ExecutedOnce == Spec => []ExecutedIffApproved
<1>1. Init => ExecutedIffApproved
  BY DEF Init, ExecutedIffApproved
<1>2. QED
  BY <1>1, ExecutedStep, TypeInvInit, TypeInvStep, PTL DEF Spec

\* A complete or expired proposal never changes again, and its call is not
\* dispatched.
THEOREM Settled == Spec => SettledForever
<1> DEFINE Kept(p) == votes[p].status # "Initiated" \/ votes[p].expiry <= now
                      => /\ p \in DOMAIN votes'
                         /\ votes'[p] = votes[p]
                         /\ dispatched'[p] = dispatched[p]
<1>1. ASSUME TypeInv, [Next]_vars
      PROVE  \A p \in DOMAIN votes : Kept(p)
  <2>1. CASE UNCHANGED <<votes, dispatched>>
    BY <2>1
  <2>2. ASSUME NEW p \in Proposals, NEW v, NEW s \in Status,
               Resolvable(p, v), ResolveAs(p, v, s),
               NEW q \in DOMAIN votes
        PROVE  Kept(q)
    <3>1. TypeOK /\ q \in Proposals
      BY <1>1 DEF TypeInv, TypeOK
    <3>2. CASE q = p
      BY <2>2, <3>1, <3>2, VoteEffect DEF VotesOn
    <3>3. CASE q # p
      <4>1. /\ DOMAIN votes' = DOMAIN votes \cup {p}
            /\ \A r \in DOMAIN votes \ {p} : votes'[r] = votes[r]
            /\ \A r \in Proposals \ {p} : dispatched'[r] = dispatched[r]
        BY <2>2, <3>1, VoteEffect
      <4>2. QED
        BY <3>1, <3>3, <4>1
    <3>4. QED
      BY <3>2, <3>3
  <2>3. QED
    BY <1>1, <2>1, <2>2, VotesChangeByVote
<1>2. TypeInv /\ [Next]_vars => [\A p \in DOMAIN votes : Kept(p)]_vars
  BY <1>1
<1>3. QED
  BY <1>2, TypeInvInit, TypeInvStep, PTL DEF Spec, SettledForever

\* A vote that brings a proposal to the threshold is stored only together with
\* the execution of its call.
THEOREM NoVoteKept == Spec => NoVoteKeptUnexecuted
<1> DEFINE Acted(p) == VoteStep(p) /\ Len(votes'[p].votesFor) >= relayerThreshold
                       => dispatched'[p] = dispatched[p] + 1
<1>1. ASSUME TypeInv, [Next]_vars, NEW p \in Proposals
      PROVE  Acted(p)
  <2>1. CASE UNCHANGED <<votes, dispatched>>
    BY <2>1 DEF VoteStep
  <2>2. ASSUME NEW q \in Proposals, NEW v, NEW s \in Status,
               Resolvable(q, v), ResolveAs(q, v, s)
        PROVE  Acted(p)
    <3>1. TypeOK
      BY <1>1 DEF TypeInv
    <3>2. CASE p # q
      <4>1. /\ DOMAIN votes' = DOMAIN votes \cup {q}
            /\ \A r \in DOMAIN votes \ {q} : votes'[r] = votes[r]
        BY <2>2, <3>1, VoteEffect
      <4>2. QED
        BY <3>2, <4>1 DEF VoteStep
    <3>3. CASE p = q
      <4>1. /\ votes'[q].votesFor = v.votesFor
            /\ dispatched'[q] = IF s = "Approved" THEN dispatched[q] + 1
                                                  ELSE dispatched[q]
        BY <2>2, <3>1, VoteEffect
      <4>2. Len(v.votesFor) >= relayerThreshold => s = "Approved"
        BY <2>2 DEF ResolveAs, Outcome
      <4>3. QED
        BY <3>3, <4>1, <4>2
    <3>4. QED
      BY <3>2, <3>3
  <2>3. QED
    BY <1>1, <2>1, <2>2, VotesChangeByVote
<1>2. TypeInv /\ [Next]_vars => [\A p \in Proposals : Acted(p)]_vars
  BY <1>1
<1>3. QED
  BY <1>2, TypeInvInit, TypeInvStep, PTL DEF Spec, NoVoteKeptUnexecuted

\* As long as everybody who voted is a relayer and the threshold can be met, a
\* vote rejects a proposal exactly when the relayers that have not voted against
\* it are too few to approve it: the code compares the lengths of two lists with
\* a counter it keeps by hand, the theorem says what the comparison means.
THEOREM RejectedWhenLost == Spec => RejectedIffUnreachable
<1> DEFINE for(p) == Range(votes'[p].votesFor)
           against(p) == Range(votes'[p].votesAgainst)
           Decided(p) == /\ VoteStep(p)
                         /\ for(p) \cup against(p) \subseteq relayers
                         /\ relayerThreshold <= Cardinality(relayers)
                         => (votes'[p].status = "Rejected" <=>
                               Cardinality(relayers \ against(p)) < relayerThreshold)
<1>1. ASSUME TypeInv, OneVoice, [Next]_vars, NEW p \in Proposals
      PROVE  Decided(p)
  <2>1. CASE UNCHANGED <<votes, dispatched>>
    BY <2>1 DEF VoteStep
  <2>2. ASSUME NEW q \in Proposals, NEW v, NEW s \in Status,
               Resolvable(q, v), ResolveAs(q, v, s)
        PROVE  Decided(p)
    <3>1. TypeOK
      BY <1>1 DEF TypeInv
    <3>2. CASE p # q
      <4>1. /\ DOMAIN votes' = DOMAIN votes \cup {q}
            /\ \A r \in DOMAIN votes \ {q} : votes'[r] = votes[r]
        BY <2>2, <3>1, VoteEffect
      <4>2. QED
        BY <3>2, <4>1 DEF VoteStep
    <3>3. ASSUME p = q,
                 Range(v.votesFor) \cup Range(v.votesAgainst) \subseteq relayers,
                 relayerThreshold <= Cardinality(relayers)
          PROVE  s = "Rejected" <=>
                   Cardinality(relayers \ Range(v.votesAgainst)) < relayerThreshold
      <4> DEFINE F == Range(v.votesFor)
                 G == Range(v.votesAgainst)
      <4>1. v \in ProposalVotes /\ Distinct(v)
        BY <1>1, <2>2, <3>1, ResolvableProperties, ResolvableDistinct
      <4>2. /\ IsFiniteSet(F) /\ Cardinality(F) = Len(v.votesFor)
            /\ IsFiniteSet(G) /\ Cardinality(G) = Len(v.votesAgainst)
        BY <4>1, InjectiveSeqRange DEF Distinct, ProposalVotes
      <4>3. /\ F \cap G = {} /\ F \subseteq relayers /\ G \subseteq relayers
        BY <3>3, <4>1 DEF Distinct
      <4> HIDE DEF F, G
      <4>4. /\ IsFiniteSet(relayers) /\ relayerCount = Cardinality(relayers)
            /\ relayerCount \in Nat /\ relayerThreshold \in Nat \ {0}
        BY <1>1, <3>1, FS_Subset, ConstantsAssumption DEF TypeInv, TypeOK, RelayerCountAgrees
      <4>5. /\ IsFiniteSet(relayers \ G)
            /\ Cardinality(relayers \ G) = relayerCount - Cardinality(G)
        <5>1. relayers \cap G = G
          BY <4>3
        <5>2. QED
          BY <4>4, <5>1, FS_Difference
      <4>6. Cardinality(F) <= Cardinality(relayers \ G)
        <5>1. F \in SUBSET (relayers \ G)
          BY <4>3
        <5>2. QED
          BY <4>5, <5>1, FS_Subset
      <4>7. /\ Cardinality(F) \in Nat /\ Cardinality(G) \in Nat
            /\ Cardinality(relayers \ G) \in Nat
        BY <4>2, <4>5, FS_CardinalityType
      <4>8. s = Outcome(v, relayerThreshold, relayerCount)
        BY <2>2 DEF ResolveAs
      <4>9. s = "Rejected" <=> Cardinality(relayers \ G) < relayerThreshold
        <5>1. CASE Cardinality(F) >= relayerThreshold
          BY <4>2, <4>4, <4>6, <4>7, <4>8, <5>1 DEF Outcome
        <5>2. CASE ~(Cardinality(F) >= relayerThreshold)
          <6>1. relayerCount >= relayerThreshold
            BY <3>3, <4>4
          <6>2. s = "Rejected" <=> Cardinality(G) + relayerThreshold > relayerCount
            BY <4>2, <4>8, <5>2, <6>1 DEF Outcome
          <6>3. QED
            BY <4>4, <4>5, <4>7, <6>2
        <5>3. QED
          BY <5>1, <5>2
      <4>10. QED
        BY <4>9 DEF G
    <3>4. CASE p = q
      <4>1. /\ votes'[q].votesFor = v.votesFor /\ votes'[q].votesAgainst = v.votesAgainst
            /\ votes'[q].status = s
        BY <2>2, <3>1, VoteEffect
      <4>2. QED
        BY <3>3, <3>4, <4>1
    <3>5. QED
      BY <3>2, <3>4
  <2>3. QED
    BY <1>1, <2>1, <2>2, VotesChangeByVote
<1>2. TypeInv /\ OneVoice /\ [Next]_vars => [\A p \in Proposals : Decided(p)]_vars
  BY <1>1
<1>3. Init => OneVoice
  BY DEF Init, OneVoice
<1>4. QED
  BY <1>2, <1>3, OneVoiceStep, TypeInvInit, TypeInvStep, PTL DEF Spec, RejectedIffUnreachable

-----------------------------------------------------------------------------
(* The pallet implements ProposalOutcome. *)

\* The outcomes follow the votes and the clock.
LEMMA OutcomeUnchanged ==
    ASSUME UNCHANGED <<votes, now>>
    PROVE  \A p : OutcomeOf(p)' = OutcomeOf(p)
BY DEF OutcomeOf

\* A vote is an execution, a cancellation or no change of the outcome.
LEMMA VoteRefines ==
    ASSUME TypeOK, NEW p \in Proposals, NEW v, NEW s \in Status,
           Resolvable(p, v), ResolveAs(p, v, s)
    PROVE  [Abstract!OutcomeNext]_<<outcomes, dispatched>>
<1>1. now' = now
  BY DEF ResolveAs
<1>2. /\ DOMAIN votes' = DOMAIN votes \cup {p}
      /\ votes'[p].status = s
      /\ votes'[p].expiry = VotesOn(p).expiry
      /\ \A q \in DOMAIN votes \ {p} : votes'[q] = votes[q]
      /\ VotesOn(p).status = "Initiated"
      /\ ~(VotesOn(p).expiry <= now)
  BY VoteEffect
<1>3. dispatched' = IF s = "Approved"
                    THEN [dispatched EXCEPT ![p] = @ + 1] ELSE dispatched
  BY DEF ResolveAs
<1>4. OutcomeOf(p) = "open"
  BY <1>2 DEF OutcomeOf, VotesOn
<1>5. \A q \in Proposals \ {p} : OutcomeOf(q)' = OutcomeOf(q)
  BY <1>1, <1>2 DEF OutcomeOf
<1>6. OutcomeOf(p)' = IF s = "Approved" THEN "executed"
                      ELSE IF s = "Rejected" THEN "cancelled" ELSE "open"
  BY <1>1, <1>2 DEF OutcomeOf
<1>7. outcomes' = [outcomes EXCEPT ![p] = IF s = "Approved" THEN "executed"
                      ELSE IF s = "Rejected" THEN "cancelled" ELSE "open"]
  BY <1>5, <1>6 DEF outcomes
<1>8. outcomes[p] = "open"
  BY <1>4 DEF outcomes
<1>9. CASE s = "Approved"
  <2>1. Abstract!Execute(p)
    BY <1>3, <1>7, <1>8, <1>9 DEF Abstract!Execute
  <2>2. QED
    BY <2>1 DEF Abstract!OutcomeNext
<1>10. CASE s = "Rejected"
  <2>1. Abstract!Cancel(p)
    BY <1>3, <1>7, <1>8, <1>10 DEF Abstract!Cancel
  <2>2. QED
    BY <2>1 DEF Abstract!OutcomeNext
<1>11. CASE s = "Initiated"
  <2>1. outcomes' = outcomes
    BY <1>4, <1>5, <1>6, <1>11 DEF outcomes
  <2>2. QED
    BY <1>3, <1>11, <2>1
<1>12. QED
  BY <1>9, <1>10, <1>11 DEF Status

\* A block lets the proposals lapse that reach their expiry.
LEMMA BlockRefines ==
    ASSUME TypeOK, NextBlock
    PROVE  [Abstract!OutcomeNext]_<<outcomes, dispatched>>
<1> DEFINE S == {p \in Proposals : OutcomeOf(p) = "open" /\ OutcomeOf(p)' = "lapsed"}
<1>1. votes' = votes /\ dispatched' = dispatched /\ now' = now + 1 /\ now \in Nat
  BY DEF NextBlock, voteVars, TypeOK
<1>2. \A p \in DOMAIN votes : votes[p].expiry \in Nat
  BY DEF TypeOK, ProposalVotes
<1>3. \A p \in Proposals \ S : OutcomeOf(p)' = OutcomeOf(p)
  BY <1>1, <1>2 DEF OutcomeOf
<1>4. outcomes' = [p \in Proposals |-> IF p \in S THEN "lapsed" ELSE outcomes[p]]
  BY <1>3 DEF outcomes
<1>5. \A p \in S : outcomes[p] = "open"
  BY DEF outcomes
<1>6. Abstract!Lapse(S)
  BY <1>1, <1>4, <1>5 DEF Abstract!Lapse
<1>7. S \in SUBSET Proposals
  OBVIOUS
<1>8. QED
  BY <1>6, <1>7 DEF Abstract!OutcomeNext

\* Every behaviour of the pallet is one that ProposalOutcome allows: a final
\* outcome per proposal, and one execution for the outcome "executed".
THEOREM Refinement == Spec => ImplementsOutcome
<1>1. Init => Abstract!OutcomeInit
  BY DEF Init, Abstract!OutcomeInit, outcomes, OutcomeOf
<1>2. TypeInv /\ [Next]_vars
      => [Abstract!OutcomeNext]_<<outcomes, dispatched>>
  <2> SUFFICES ASSUME TypeInv, [Next]_vars
      PROVE [Abstract!OutcomeNext]_<<outcomes, dispatched>>
    OBVIOUS
  <2>1. CASE UNCHANGED <<votes, now, dispatched>>
    BY <2>1, OutcomeUnchanged DEF outcomes
  <2>2. CASE NextBlock
    BY <2>2, BlockRefines DEF TypeInv
  <2>3. CASE ~(UNCHANGED <<votes, dispatched>>)
    BY <2>3, VotesChangeByVote, VoteRefines DEF TypeInv
  <2>4. NextBlock \/ UNCHANGED now
    BY VoteForm DEF Next, Admin, SetThreshold, SetResource, RemoveResource,
       WhitelistChain, AddRelayer, RemoveRelayer, TransferOut, vars, ResolveAs
  <2>5. QED
    BY <2>1, <2>2, <2>3, <2>4
<1>3. QED
  BY <1>1, <1>2, TypeInvInit, TypeInvStep, PTL
     DEF Spec, ImplementsOutcome, Abstract!OutcomeSpec

-----------------------------------------------------------------------------
(***************************************************************************)
(* The deposit nonces.  The counter of a destination is the number of      *)
(* transfers sent there, and transfers are only sent to listed chains: a   *)
(* chain listed later starts at zero and nothing has been sent there yet.  *)
(***************************************************************************)
NonceInv ==
    /\ \A c \in DOMAIN chainNonces :
          chainNonces[c] = Cardinality(SentTo(emitted, c, Len(emitted)))
    /\ \A i \in 1..Len(emitted) : emitted[i].dest \in DOMAIN chainNonces
    /\ DepositNoncesConsecutive

LEMMA SentToFinite ==
    ASSUME NEW s, NEW c, NEW n \in Nat
    PROVE  IsFiniteSet(SentTo(s, c, n)) /\ Cardinality(SentTo(s, c, n)) \in Nat
<1>1. IsFiniteSet(1..n)
  BY FS_Interval
<1>2. QED
  BY <1>1, FS_Subset, FS_CardinalityType DEF SentTo

\* A transfer adds one position for its destination and changes no other.
LEMMA SentToTransfer ==
    ASSUME TypeOK, NEW c, NEW e \in TransferEvents, e.dest = c,
           emitted' = Append(emitted, e)
    PROVE  LET n == Len(emitted)
           IN  /\ n \in Nat /\ Len(emitted') = n + 1
               /\ emitted'[n + 1] = e
               /\ \A i \in 1..n : emitted'[i] = emitted[i]
               /\ \A d : \A i \in 1..n : SentTo(emitted', d, i) = SentTo(emitted, d, i)
               /\ \A d : SentTo(emitted', d, n + 1)
                           = IF d = c THEN SentTo(emitted, d, n) \cup {n + 1}
                                      ELSE SentTo(emitted, d, n)
<1> DEFINE n == Len(emitted)
<1>1. /\ n \in Nat /\ Len(emitted') = n + 1
      /\ emitted'[n + 1] = e
      /\ \A i \in 1..n : emitted'[i] = emitted[i]
  BY AppendProperties, LenProperties DEF TypeOK
<1> HIDE DEF n
<1>2. ASSUME NEW d, NEW i \in 1..n PROVE SentTo(emitted', d, i) = SentTo(emitted, d, i)
  BY <1>1 DEF SentTo
<1>3. ASSUME NEW d
      PROVE  SentTo(emitted', d, n + 1)
               = IF d = c THEN SentTo(emitted, d, n) \cup {n + 1}
                          ELSE SentTo(emitted, d, n)
  BY <1>1 DEF SentTo
<1>4. QED
  BY <1>1, <1>2, <1>3 DEF n

LEMMA NonceTransfer ==
    ASSUME TypeOK, NonceInv,
           NEW c \in Chains, NEW m \in Payloads, TransferOut(c, m)
    PROVE  NonceInv'
<1> DEFINE n == Len(emitted)
           e == [dest |-> c, nonce |-> chainNonces[c] + 1, payload |-> m]
<1>1. e \in TransferEvents /\ e.dest = c /\ e.nonce = chainNonces[c] + 1
  BY DEF TransferOut, ChainWhitelisted, TypeOK, TransferEvents
<1>2. emitted' = Append(emitted, e)
  BY DEF TransferOut
<1>3. /\ DOMAIN chainNonces' = DOMAIN chainNonces /\ c \in DOMAIN chainNonces
      /\ chainNonces'[c] = chainNonces[c] + 1
      /\ \A d \in DOMAIN chainNonces \ {c} : chainNonces'[d] = chainNonces[d]
  BY DEF TransferOut, ChainWhitelisted, Insert
<1> HIDE DEF e
<1>4. /\ n \in Nat /\ Len(emitted') = n + 1
      /\ emitted'[n + 1] = e
      /\ \A i \in 1..n : emitted'[i] = emitted[i]
      /\ \A d : \A i \in 1..n : SentTo(emitted', d, i) = SentTo(emitted, d, i)
      /\ \A d : SentTo(emitted', d, n + 1)
                  = IF d = c THEN SentTo(emitted, d, n) \cup {n + 1}
                             ELSE SentTo(emitted, d, n)
  BY <1>1, <1>2, SentToTransfer
<1> HIDE DEF n
<1>5. Cardinality(SentTo(emitted', c, n + 1)) = Cardinality(SentTo(emitted, c, n)) + 1
  <2>1. IsFiniteSet(SentTo(emitted, c, n)) /\ n + 1 \notin SentTo(emitted, c, n)
    <3>1. IsFiniteSet(SentTo(emitted, c, n))
      BY <1>4, SentToFinite
    <3>2. n + 1 \notin SentTo(emitted, c, n)
      BY <1>4 DEF SentTo
    <3>3. QED
      BY <3>1, <3>2
  <2>2. QED
    BY <1>4, <2>1, FS_AddElement
<1>6. \A d \in DOMAIN chainNonces' : chainNonces'[d] = Cardinality(SentTo(emitted', d, n + 1))
  BY <1>3, <1>4, <1>5 DEF NonceInv, n
<1>7. \A i \in 1..n + 1 : emitted'[i].dest \in DOMAIN chainNonces'
  BY <1>1, <1>3, <1>4 DEF NonceInv, n
<1>8. ASSUME NEW i \in 1..n + 1
      PROVE  emitted'[i].nonce = Cardinality(SentTo(emitted', emitted'[i].dest, i))
  <2>1. CASE i \in 1..n
    BY <1>4, <2>1 DEF NonceInv, DepositNoncesConsecutive, n
  <2>2. CASE i = n + 1
    BY <1>1, <1>3, <1>4, <1>6, <2>2
  <2>3. QED
    BY <1>4, <2>1, <2>2
<1>9. QED
  BY <1>4, <1>6, <1>7, <1>8 DEF NonceInv, DepositNoncesConsecutive, SentTo

LEMMA NonceWhitelist ==
    ASSUME TypeOK, NonceInv, NEW c \in Chains, WhitelistChain(c)
    PROVE  NonceInv'
<1>1. /\ DOMAIN chainNonces' = DOMAIN chainNonces \cup {c}
      /\ c \notin DOMAIN chainNonces /\ chainNonces'[c] = 0
      /\ \A d \in DOMAIN chainNonces : chainNonces'[d] = chainNonces[d]
      /\ emitted' = emitted
  BY DEF WhitelistChain, ChainWhitelisted, Insert
<1>2. SentTo(emitted, c, Len(emitted)) = {}
  BY <1>1 DEF NonceInv, SentTo
<1>3. Cardinality({}) = 0
  BY FS_EmptySet
<1>4. QED
  BY <1>1, <1>2, <1>3 DEF NonceInv, DepositNoncesConsecutive, SentTo

LEMMA NonceStep == TypeInv /\ NonceInv /\ [Next]_vars => NonceInv'
<1> SUFFICES ASSUME TypeInv, NonceInv, [Next]_vars PROVE NonceInv'
  OBVIOUS
<1>1. TypeOK
  BY DEF TypeInv
<1>2. CASE UNCHANGED nonceVars
  BY <1>2 DEF nonceVars, NonceInv, DepositNoncesConsecutive, SentTo
<1>3. CASE Admin
  BY <1>1, <1>2, <1>3, NonceWhitelist DEF Admin, SetThreshold, SetResource,
     RemoveResource, AddRelayer, RemoveRelayer
<1>4. CASE Vote
  BY <1>2, <1>4, VoteForm DEF ResolveAs, vars
<1>5. CASE \E c \in Chains, m \in Payloads : TransferOut(c, m)
  BY <1>1, <1>5, NonceTransfer
<1>6. QED
  BY <1>2, <1>3, <1>4, <1>5 DEF Next, NextBlock, vars

\* The transfers to a destination carry the nonces 1, 2, 3, ... in order.
THEOREM NoncesConsecutive == Spec => []DepositNoncesConsecutive
<1>1. Init => NonceInv
  <2> SUFFICES ASSUME Init PROVE NonceInv
    OBVIOUS
  <2>1. emitted = << >> /\ \A c \in DOMAIN chainNonces : chainNonces[c] = 0
    BY DEF Init
  <2>2. \A c : SentTo(emitted, c, 0) = {}
    BY <2>1 DEF SentTo
  <2>3. Len(emitted) = 0 /\ 1..0 = {} /\ Cardinality({}) = 0
    BY <2>1, FS_EmptySet
  <2>4. \A c \in DOMAIN chainNonces :
            chainNonces[c] = Cardinality(SentTo(emitted, c, Len(emitted)))
    BY <2>1, <2>2, <2>3
  <2>5. QED
    BY <2>3, <2>4 DEF NonceInv, DepositNoncesConsecutive
<1>2. NonceInv => DepositNoncesConsecutive
  BY DEF NonceInv
<1>3. QED
  BY <1>1, <1>2, NonceStep, TypeInvInit, TypeInvStep, PTL DEF Spec

-----------------------------------------------------------------------------
(***************************************************************************)
(* The bridge with faulty relayers: what their votes cannot do, for any    *)
(* number of accounts, faulty ones, proposals and blocks.                  *)
(***************************************************************************)

\* A step of the bridge with its environment is one of the pallet or leaves
\* the pallet alone.
LEMMA RelayStepIsStep == RelayNext => [Next]_vars
<1> SUFFICES ASSUME RelayNext PROVE [Next]_vars
  OBVIOUS
<1>1. CASE RelayedVote
  BY <1>1 DEF RelayedVote, Vote, Next
<1>2. CASE \E p \in Proposals : RemoteDeposit(p)
  BY <1>2 DEF RemoteDeposit
<1>3. QED
  BY <1>1, <1>2 DEF RelayNext, Next

\* Votes of different faulty accounts are at most as many as there are.
LEMMA FaultyVotesFew ==
    ASSUME NEW s \in Seq(Accounts), IsInjective(s), Range(s) \subseteq Faulty
    PROVE  Len(s) <= Cardinality(Faulty)
<1>1. IsFiniteSet(Faulty) /\ Cardinality(Faulty) \in Nat
  BY ConstantsAssumption, FaultyAssumption, FS_Subset, FS_CardinalityType
<1>2. Len(s) \in Nat /\ DOMAIN s = 1..Len(s) /\ s \in [1..Len(s) -> Accounts]
  BY LenProperties
<1>3. \A i \in 1..Len(s) : s[i] \in Faulty
  BY <1>2 DEF Range
<1>4. s \in Injection(1..Len(s), Faulty)
  BY <1>2, <1>3 DEF Injection, IsInjective
<1>5. Cardinality(1..Len(s)) <= Cardinality(Faulty)
  BY <1>1, <1>4, FS_Injection
<1>6. Cardinality(1..Len(s)) = Len(s)
  BY <1>2, FS_Interval
<1>7. QED
  BY <1>5, <1>6

-----------------------------------------------------------------------------
(***************************************************************************)
(* The inductive invariant: the threshold is above the number of faulty    *)
(* accounts, and until its deposit is made a proposal is acknowledged by   *)
(* faulty accounts only.                                                   *)
(***************************************************************************)
OnlyFaultyAcknowledge ==
    \A p \in DOMAIN votes \ genuine : Range(votes[p].votesFor) \subseteq Faulty

GenuineInv ==
    /\ TypeInv
    /\ OneVoice
    /\ Safe(relayerThreshold)
    /\ OnlyFaultyAcknowledge
    /\ OnlyGenuineExecuted

LEMMA GenuineInit == RelayInit => GenuineInv
<1> SUFFICES ASSUME RelayInit PROVE GenuineInv
  OBVIOUS
<1>1. TypeInv
  BY TypeInvInit DEF RelayInit
<1>2. OneVoice /\ OnlyFaultyAcknowledge /\ OnlyGenuineExecuted
  BY DEF RelayInit, Init, OneVoice, OnlyFaultyAcknowledge, OnlyGenuineExecuted
<1>3. QED
  BY <1>1, <1>2 DEF RelayInit, GenuineInv

\* A voting step stores a record whose new acknowledgement, if there is one,
\* is that of a faulty account unless the deposit was made.
LEMMA RelayedVoteForm ==
    ASSUME TypeOK, RelayedVote
    PROVE  \/ UNCHANGED vars
           \/ \E p \in Proposals : \E v : \E s \in Status :
                 /\ Resolvable(p, v) /\ ResolveAs(p, v, s)
                 /\ p \in genuine
                    \/ Range(v.votesFor) \subseteq Range(VotesOn(p).votesFor) \cup Faulty
<1>1. PICK p \in Proposals :
          \/ \E a \in Accounts, id \in ResourceIds :
                \/ WillAcknowledge(a, p) /\ AcknowledgeProposal(a, p, id)
                \/ RejectProposal(a, p, id)
          \/ EvalVoteState(p)
  BY DEF RelayedVote
<1> DEFINE Honest(v) == p \in genuine
                        \/ Range(v.votesFor) \subseteq Range(VotesOn(p).votesFor) \cup Faulty
<1>2. VotesOn(p) \in ProposalVotes
  BY VotesOnType
<1>3. ASSUME NEW v, TryResolve(p, v), Resolvable(p, v), Honest(v)
      PROVE  \/ UNCHANGED vars
             \/ \E w : \E s \in Status :
                   Resolvable(p, w) /\ ResolveAs(p, w, s) /\ Honest(w)
  BY <1>3 DEF TryResolve, CallFails
<1>4. ASSUME NEW a \in Accounts, NEW b \in BOOLEAN,
             b => WillAcknowledge(a, p)
      PROVE  Honest(CommitVote(VotesOn(p), a, b))
  <2>1. CommitVote(VotesOn(p), a, b).votesFor
           = IF b THEN Append(VotesOn(p).votesFor, a) ELSE VotesOn(p).votesFor
    BY <1>2, CommitVoteProperties
  <2>2. VotesOn(p).votesFor \in Seq(Accounts)
    BY <1>2 DEF ProposalVotes
  <2>3. Range(Append(VotesOn(p).votesFor, a)) = Range(VotesOn(p).votesFor) \cup {a}
    BY <2>2, AppendInjectiveSeq
  <2>4. QED
    BY <1>4, <2>1, <2>3 DEF WillAcknowledge
<1>5. ASSUME NEW a \in Accounts, NEW id \in ResourceIds, NEW b \in BOOLEAN,
             MayVote(a, p, id), TryResolve(p, CommitVote(VotesOn(p), a, b)),
             b => WillAcknowledge(a, p)
      PROVE  \/ UNCHANGED vars
             \/ \E w : \E s \in Status :
                   Resolvable(p, w) /\ ResolveAs(p, w, s) /\ Honest(w)
  <2>1. Resolvable(p, CommitVote(VotesOn(p), a, b))
    BY <1>5 DEF MayVote, Resolvable
  <2>2. Honest(CommitVote(VotesOn(p), a, b))
    BY <1>4, <1>5
  <2> HIDE DEF Honest
  <2>3. QED
    BY <1>3, <1>5, <2>1, <2>2
<1>6. CASE EvalVoteState(p)
  <2>1. Resolvable(p, votes[p]) /\ Honest(votes[p]) /\ TryResolve(p, votes[p])
    BY <1>6 DEF EvalVoteState, Resolvable, VotesOn
  <2>2. QED
    BY <1>3, <2>1
<1>7. ASSUME NEW a \in Accounts, NEW id \in ResourceIds,
             \/ WillAcknowledge(a, p) /\ AcknowledgeProposal(a, p, id)
             \/ RejectProposal(a, p, id)
      PROVE  \/ UNCHANGED vars
             \/ \E w : \E s \in Status :
                   Resolvable(p, w) /\ ResolveAs(p, w, s) /\ Honest(w)
  <2>1. \E b \in BOOLEAN : /\ MayVote(a, p, id)
                           /\ TryResolve(p, CommitVote(VotesOn(p), a, b))
                           /\ b => WillAcknowledge(a, p)
    BY <1>7 DEF AcknowledgeProposal, RejectProposal
  <2> HIDE DEF Honest
  <2>2. QED
    BY <1>5, <2>1
<1>8. QED
  BY <1>1, <1>6, <1>7

\* A voting step executes no call whose deposit was not made.
LEMMA GenuineVote ==
    ASSUME GenuineInv, RelayedVote, UNCHANGED genuine
    PROVE  OnlyFaultyAcknowledge' /\ OnlyGenuineExecuted'
<1> USE DEF GenuineInv
<1>1. CASE UNCHANGED vars
  BY <1>1 DEF vars, voteVars, OnlyFaultyAcknowledge, OnlyGenuineExecuted
<1>2. ASSUME NEW p \in Proposals, NEW v, NEW s \in Status,
             Resolvable(p, v), ResolveAs(p, v, s),
             p \in genuine
             \/ Range(v.votesFor) \subseteq Range(VotesOn(p).votesFor) \cup Faulty
      PROVE  OnlyFaultyAcknowledge' /\ OnlyGenuineExecuted'
  <2>1. TypeOK
    BY DEF TypeInv
  <2>2. /\ DOMAIN votes' = DOMAIN votes \cup {p}
        /\ votes'[p].votesFor = v.votesFor
        /\ \A q \in DOMAIN votes \ {p} : votes'[q] = votes[q]
        /\ dispatched'[p] = IF s = "Approved" THEN dispatched[p] + 1
                                              ELSE dispatched[p]
        /\ \A q \in Proposals \ {p} : dispatched'[q] = dispatched[q]
    BY <1>2, <2>1, VoteEffect
  <2>3. p \in genuine \/ Range(v.votesFor) \subseteq Faulty
    <3>1. CASE p \in DOMAIN votes
      BY <1>2, <3>1 DEF OnlyFaultyAcknowledge, VotesOn
    <3>2. CASE p \notin DOMAIN votes
      <4>1. VotesOn(p).votesFor = << >> /\ Range(<< >>) = {}
        BY <3>2 DEF VotesOn, Range
      <4>2. QED
        BY <1>2, <4>1
    <3>3. QED
      BY <3>1, <3>2
  <2>4. s = "Approved" => p \in genuine
    <3> SUFFICES ASSUME s = "Approved", p \notin genuine PROVE FALSE
      OBVIOUS
    <3>1. v \in ProposalVotes /\ Distinct(v)
      BY <1>2, <2>1, ResolvableProperties, ResolvableDistinct
    <3>2. v.votesFor \in Seq(Accounts) /\ IsInjective(v.votesFor)
      BY <3>1 DEF ProposalVotes, Distinct
    <3>3. Len(v.votesFor) <= Cardinality(Faulty)
      BY <2>3, <3>2, FaultyVotesFew
    <3>4. Len(v.votesFor) >= relayerThreshold
      BY <1>2 DEF ResolveAs, Outcome
    <3>5. /\ Len(v.votesFor) \in Nat /\ relayerThreshold \in Nat
          /\ Cardinality(Faulty) \in Nat
      BY <2>1, <3>2, LenProperties, ConstantsAssumption, FaultyAssumption,
         FS_Subset, FS_CardinalityType DEF TypeOK
    <3>6. QED
      BY <3>3, <3>4, <3>5 DEF Safe
  <2>5. OnlyFaultyAcknowledge'
    BY <2>2, <2>3 DEF OnlyFaultyAcknowledge
  <2>6. OnlyGenuineExecuted'
    BY <2>2, <2>4 DEF OnlyGenuineExecuted
  <2>7. QED
    BY <2>5, <2>6
<1>3. QED
  BY <1>1, <1>2, RelayedVoteForm DEF TypeInv

\* No other step changes the votes or the executions.
LEMMA GenuineOther ==
    ASSUME GenuineInv, UNCHANGED <<votes, dispatched>>, genuine \subseteq genuine'
    PROVE  OnlyFaultyAcknowledge' /\ OnlyGenuineExecuted'
BY DEF GenuineInv, OnlyFaultyAcknowledge, OnlyGenuineExecuted

LEMMA GenuineStep == GenuineInv /\ [RelayNext]_relayVars => GenuineInv'
<1> SUFFICES ASSUME GenuineInv, [RelayNext]_relayVars PROVE GenuineInv'
  OBVIOUS
<1>1. [Next]_vars
  BY RelayStepIsStep DEF relayVars
<1>2. TypeInv' /\ OneVoice'
  BY <1>1, TypeInvStep, OneVoiceStep DEF GenuineInv
<1>3. Safe(relayerThreshold')
  <2>1. CASE Admin /\ Safe(relayerThreshold')
    BY <2>1
  <2>2. CASE UNCHANGED relayerThreshold
    BY <2>2 DEF GenuineInv, Safe
  <2>3. CASE RelayedVote
    BY <2>2, <2>3, RelayedVoteForm
       DEF GenuineInv, TypeInv, ResolveAs, adminVars, vars
  <2>4. QED
    BY <2>1, <2>2, <2>3 DEF RelayNext, relayVars, vars, adminVars, TransferOut,
       NextBlock, RemoteDeposit
<1>4. OnlyFaultyAcknowledge' /\ OnlyGenuineExecuted'
  <2>1. CASE RelayedVote /\ UNCHANGED genuine
    BY <2>1, GenuineVote
  <2>2. CASE UNCHANGED <<votes, dispatched>> /\ genuine \subseteq genuine'
    BY <2>2, GenuineOther
  <2>3. CASE Admin /\ UNCHANGED genuine
    BY <2>2, <2>3 DEF Admin, SetThreshold, SetResource, RemoveResource,
       WhitelistChain, AddRelayer, RemoveRelayer, voteVars
  <2>4. QED
    BY <2>1, <2>2, <2>3 DEF RelayNext, relayVars, vars, voteVars, TransferOut,
       NextBlock, RemoteDeposit
<1>5. QED
  BY <1>2, <1>3, <1>4 DEF GenuineInv, Safe

\* While the threshold is above the number of faulty accounts, no call takes
\* effect whose deposit was not made, however relayers come and go.
THEOREM GenuineExecutions == RelaySpec => []OnlyGenuineExecuted
<1>1. GenuineInv => OnlyGenuineExecuted
  BY DEF GenuineInv
<1>2. QED
  BY <1>1, GenuineInit, GenuineStep, PTL DEF RelaySpec

-----------------------------------------------------------------------------
(* The deposits of another chain have different nonces. *)
DepositsNumbered ==
    \A p, q \in genuine : p.src = q.src /\ p.nonce = q.nonce => p = q

LEMMA DepositsNumberedStep ==
    DepositsNumbered /\ [RelayNext]_relayVars => DepositsNumbered'
<1> SUFFICES ASSUME DepositsNumbered, [RelayNext]_relayVars
             PROVE  DepositsNumbered'
  OBVIOUS
<1>1. CASE \E p \in Proposals : RemoteDeposit(p)
  BY <1>1 DEF RemoteDeposit, DepositsNumbered
<1>2. CASE UNCHANGED genuine
  BY <1>2 DEF DepositsNumbered
<1>3. QED
  BY <1>1, <1>2 DEF RelayNext, relayVars

\* One deposit releases once, although proposals that differ in their calls
\* are kept under different keys.
THEOREM SingleRelease == RelaySpec => []OneReleasePerDeposit
<1>1. RelayInit => DepositsNumbered
  BY DEF RelayInit, DepositsNumbered
<1>2. GenuineInv /\ DepositsNumbered => OneReleasePerDeposit
  BY DEF GenuineInv, OnlyGenuineExecuted, DepositsNumbered, OneReleasePerDeposit
<1>3. QED
  BY <1>1, <1>2, DepositsNumberedStep, GenuineInit, GenuineStep, PTL
     DEF RelaySpec
=============================================================================

------------------------- MODULE BridgedCoins_proofs -------------------------
(***************************************************************************)
(* Proofs about the coins that cross the bridge: first of the swap pallet  *)
(* on top of the chainbridge pallet, then of the two together with the     *)
(* relayers and the chain at the other end.                                *)
(***************************************************************************)
EXTENDS BridgedCoins, ChainBridge_proofs, Sums

\* A step of the two pallets is one of the chainbridge pallet or leaves its
\* storage alone.
LEMMA SwapStepIsStep == SwapNext => [Next]_vars
<1> SUFFICES ASSUME SwapNext PROVE [Next]_vars
  OBVIOUS
<1>1. CASE SwapAdmin
  BY <1>1 DEF SwapAdmin, SetSwapFee, SetFeeDestination, Next
<1>2. CASE \E p \in Proposals : SwapVote(p)
  BY <1>2 DEF SwapVote, Vote, Next
<1>3. CASE UserStep
  BY <1>3 DEF UserStep, TransferNative, UserTransfer, Next
<1>4. QED
  BY <1>1, <1>2, <1>3 DEF SwapNext, Next

\* The swap pallet uses the chainbridge pallet as any pallet may: what is
\* proved of ChainBridge holds of the two together.
THEOREM SwapUsesBridge == SwapSpec => Spec
<1>1. SwapInit => Init
  BY DEF SwapInit
<1>2. [SwapNext]_swapVars => [Next]_vars
  BY SwapStepIsStep DEF swapVars
<1>3. QED
  BY <1>1, <1>2, PTL DEF SwapSpec, Spec

-----------------------------------------------------------------------------
(* Balances. *)

Balances == [Holders -> Nat]

\* A transfer that the balances pallet allows leaves no balance below zero,
\* and burns no more than the sender had.
LEMMA TransferType ==
    ASSUME SwapAssumption,
           NEW b \in Balances, NEW from \in Holders, NEW to \in Holders,
           NEW amount \in Nat, CanTransfer(b, from, to, amount)
    PROVE  /\ Transfer(b, from, to, amount) \in Balances
           /\ DustOf(b, from, to, amount) \in Nat
<1>1. CASE IsVoid(from, to, amount)
  BY <1>1 DEF Transfer, DustOf
<1>2. CASE ~IsVoid(from, to, amount)
  <2>1. b[from] \in Nat /\ b[to] \in Nat /\ b[from] >= amount /\ from # to
    BY <1>2 DEF CanTransfer, IsVoid, Balances
  <2>2. /\ DustOf(b, from, to, amount) \in Nat
        /\ b[from] - amount - DustOf(b, from, to, amount) \in Nat
    BY <1>2, <2>1, SwapAssumption DEF DustOf
  <2>3. QED
    BY <1>2, <2>1, <2>2 DEF Transfer, Balances
<1>3. QED
  BY <1>1, <1>2

\* Nor does one step of the swap pallet.
LEMMA TransferNativeType ==
    ASSUME SwapTypeOK, NEW u \in Users, NEW m \in Payloads, NEW c,
           TransferNative(u, m, c)
    PROVE  SwapTypeOK'
<1> DEFINE paid == Transfer(balance, u, FeeTo(u), swapFee)
<1>1. /\ u \in Holders /\ Bridge \in Holders /\ FeeTo(u) \in Holders
      /\ swapFee \in Nat /\ m \in Nat /\ balance \in Balances
  BY SwapAssumption DEF SwapTypeOK, Holders, FeeTo, Balances
<1>2. /\ paid \in Balances
      /\ DustOf(balance, u, FeeTo(u), swapFee) \in Nat
  BY <1>1, SwapAssumption, TransferType DEF TransferNative
<1>3. /\ CanTransfer(paid, u, Bridge, m)
      /\ balance' = Transfer(paid, u, Bridge, m)
      /\ dust' = [dust EXCEPT ![u] =
                      @ + DustOf(balance, u, FeeTo(u), swapFee)
                        + DustOf(paid, u, Bridge, m)]
      /\ gifts' = gifts + FeeToBridge /\ UNCHANGED feeVars
  BY DEF TransferNative
<1> HIDE DEF paid
<1>4. balance' \in Balances /\ DustOf(paid, u, Bridge, m) \in Nat
  BY <1>1, <1>2, <1>3, SwapAssumption, TransferType
<1>5. dust' \in Balances
  BY <1>1, <1>2, <1>3, <1>4 DEF SwapTypeOK, Balances
<1>6. gifts' \in Nat
  BY <1>1, <1>3 DEF SwapTypeOK, FeeToBridge
<1>7. QED
  BY <1>3, <1>4, <1>5, <1>6 DEF SwapTypeOK, feeVars, Balances

LEMMA UserTransferType ==
    ASSUME SwapTypeOK, NEW u \in Users, NEW to \in Holders, NEW m \in Payloads,
           UserTransfer(u, to, m)
    PROVE  SwapTypeOK'
<1>1. u \in Holders /\ m \in Nat /\ balance \in Balances
  BY SwapAssumption DEF SwapTypeOK, Holders, Balances
<1>2. /\ Transfer(balance, u, to, m) \in Balances
      /\ DustOf(balance, u, to, m) \in Nat
  BY <1>1, SwapAssumption, TransferType DEF UserTransfer
<1>3. gifts' \in Nat /\ UNCHANGED feeVars
  BY <1>1 DEF UserTransfer, SwapTypeOK
<1>4. /\ balance' = Transfer(balance, u, to, m)
      /\ dust' = [dust EXCEPT ![u] = @ + DustOf(balance, u, to, m)]
  BY DEF UserTransfer
<1>5. balance' \in Balances /\ dust' \in Balances
  BY <1>1, <1>2, <1>4 DEF SwapTypeOK, Balances
<1>6. QED
  BY <1>3, <1>5 DEF SwapTypeOK, feeVars, Balances

LEMMA SettleType ==
    ASSUME SwapTypeOK, NEW p \in Proposals, Settle(p)
    PROVE  SwapTypeOK'
<1>1. CASE UNCHANGED <<balance, dust>>
  BY <1>1 DEF Settle, SwapTypeOK, feeVars
<1>2. CASE PayOut(p.call)
  <2>1. /\ p.call.to \in Holders /\ p.call.amount \in Nat /\ Bridge \in Holders
        /\ balance \in Balances
    BY SwapAssumption DEF Proposals, Holders, SwapTypeOK, Balances
  <2>2. /\ Transfer(balance, Bridge, p.call.to, p.call.amount) \in Balances
        /\ DustOf(balance, Bridge, p.call.to, p.call.amount) \in Nat
    BY <1>2, <2>1, SwapAssumption, TransferType DEF PayOut
  <2>3. QED
    BY <1>2, <2>1, <2>2 DEF PayOut, Settle, SwapTypeOK, feeVars, Balances
<1>3. QED
  BY <1>1, <1>2 DEF Settle

LEMMA SwapTypeStep == SwapTypeOK /\ [SwapNext]_swapVars => SwapTypeOK'
<1> SUFFICES ASSUME SwapTypeOK, [SwapNext]_swapVars PROVE SwapTypeOK'
  OBVIOUS
<1>1. CASE SwapAdmin
  BY <1>1 DEF SwapAdmin, SetSwapFee, SetFeeDestination, feeVars, coinVars, SwapTypeOK
<1>2. CASE \E p \in Proposals : SwapVote(p)
  BY <1>2, SettleType DEF SwapVote
<1>3. CASE UserStep
  BY <1>3, TransferNativeType, UserTransferType DEF UserStep
<1>4. CASE UNCHANGED <<feeVars, coinVars>>
  BY <1>4 DEF feeVars, coinVars, SwapTypeOK
<1>5. QED
  BY <1>1, <1>2, <1>3, <1>4 DEF SwapNext, swapVars

\* No balance ever goes below zero, although the sum of amount and fee that
\* transfer_native compares with the balance may have wrapped around.
THEOREM SwapTypeCorrect == SwapSpec => []SwapTypeOK
<1>1. SwapInit => SwapTypeOK
  BY SwapAssumption DEF SwapInit, SwapTypeOK
<1>2. QED
  BY <1>1, SwapTypeStep, PTL DEF SwapSpec

-----------------------------------------------------------------------------
(***************************************************************************)
(* The ledger of the bridge account.  The inductive invariant adds to what *)
(* BridgeAccountsForTransfers says that only finitely many proposals were  *)
(* executed, and each of them once.                                        *)
(***************************************************************************)
Executed == {p \in Proposals : dispatched[p] > 0}

Payments(w) == [p \in Executed |-> dispatched[p] * w[p.call]]

Weights == [Calls -> Nat]

Announced == [i \in 1..Len(emitted) |-> emitted[i].payload]

LedgerInv ==
    /\ TypeInv
    /\ ExecutedIffApproved
    /\ SwapTypeOK
    /\ IsFiniteSet(Executed)
    /\ BridgeAccountsForTransfers

LEMMA ExecutedAmountIsPayments ==
    ASSUME NEW w
    PROVE  /\ ExecutedAmount(w) = SumFunction(Payments(w))
           /\ ExecutedAmount(w)' = SumFunction(Payments(w)')
BY DEF ExecutedAmount, Payments, Executed

\* What a call takes from the bridge account and what it leaves there make up
\* its amount.
LEMMA WeightTypes ==
    /\ PaidOut \in Weights /\ Kept \in Weights
    /\ \A p \in Proposals : /\ PaidOut[p.call] \in Nat /\ Kept[p.call] \in Nat
                            /\ PaidOut[p.call] + Kept[p.call] = p.call.amount
BY SwapAssumption DEF PaidOut, Kept, Weights, Proposals

LEMMA LockedIsAnnounced ==
    Locked = SumFunction(Announced) /\ Locked' = SumFunction(Announced')
BY DEF Locked, Announced

LEMMA CallTypes ==
    ASSUME NEW p \in Proposals
    PROVE  p.call.to \in Holders /\ p.call.amount \in Nat
BY SwapAssumption DEF Proposals

LEMMA AnnouncedType ==
    ASSUME TypeOK
    PROVE  /\ IsFiniteSet(DOMAIN Announced) /\ Len(emitted) \in Nat
           /\ \A i \in DOMAIN Announced : Announced[i] \in Nat
<1>1. Len(emitted) \in Nat /\ \A i \in 1..Len(emitted) : emitted[i] \in TransferEvents
  BY LenProperties, ElementOfSeq DEF TypeOK
<1>2. IsFiniteSet(1..Len(emitted))
  BY <1>1, FS_Interval
<1>3. QED
  BY <1>1, <1>2, SwapAssumption DEF Announced, TransferEvents

LEMMA PaymentsType ==
    ASSUME TypeOK, IsFiniteSet(Executed), NEW w \in Weights
    PROVE  /\ IsFiniteSet(DOMAIN Payments(w))
           /\ \A p \in DOMAIN Payments(w) : Payments(w)[p] \in Nat
<1>1. ASSUME NEW p \in Executed PROVE Payments(w)[p] \in Nat
  <2>1. dispatched[p] \in Nat /\ w[p.call] \in Nat
    BY DEF Executed, TypeOK, Weights, Proposals
  <2>2. QED
    BY <2>1 DEF Payments
<1>2. QED
  BY <1>1 DEF Payments

LEMMA LedgerTypes ==
    ASSUME TypeOK, IsFiniteSet(Executed)
    PROVE  /\ Locked \in Nat /\ Released \in Nat
           /\ \A w \in Weights : ExecutedAmount(w) \in Nat
<1>1. Locked \in Nat
  BY AnnouncedType, TotalNat, LockedIsAnnounced
<1>2. ASSUME NEW w \in Weights PROVE ExecutedAmount(w) \in Nat
  BY PaymentsType, TotalNat, ExecutedAmountIsPayments
<1>3. QED
  BY <1>1, <1>2, WeightTypes DEF Released

LEMMA LedgerInit == SwapInit => LedgerInv
<1> SUFFICES ASSUME SwapInit PROVE LedgerInv
  OBVIOUS
<1>1. Init /\ TypeInv /\ ExecutedIffApproved
  BY TypeInvInit DEF SwapInit, Init, ExecutedIffApproved
<1>2. SwapTypeOK
  BY SwapAssumption DEF SwapInit, SwapTypeOK
<1>3. Executed = {} /\ DOMAIN Payments(PaidOut) = {}
  BY <1>1 DEF Init, Executed, Payments
<1>4. DOMAIN Announced = {}
  BY <1>1 DEF Init, Announced
<1>5. Locked = 0 /\ Released = 0
  BY <1>3, <1>4, TotalEmpty, LockedIsAnnounced, ExecutedAmountIsPayments DEF Released
<1>6. balance[Bridge] = BridgeFunds /\ dust[Bridge] = 0 /\ gifts = 0
  BY DEF SwapInit, Holders
<1>7. BridgeAccountsForTransfers
  BY <1>5, <1>6, SwapAssumption DEF BridgeAccountsForTransfers
<1>8. QED
  BY <1>1, <1>2, <1>3, <1>7, FS_EmptySet DEF LedgerInv

\* What a transfer does to the bridge account: nothing if it is between
\* others, a credit of the full amount if it is the receiver, and a debit of
\* amount and dust if it is the sender.
LEMMA TransferBridge ==
    ASSUME SwapAssumption, NEW b \in Balances,
           NEW from \in Holders, NEW to \in Holders, from # to, NEW amount \in Nat
    PROVE  /\ from # Bridge /\ to # Bridge
                  => Transfer(b, from, to, amount)[Bridge] = b[Bridge]
           /\ to = Bridge
                  => Transfer(b, from, to, amount)[Bridge] = b[Bridge] + amount
           /\ from = Bridge
                  => Transfer(b, from, to, amount)[Bridge]
                       = b[Bridge] - amount - DustOf(b, from, to, amount)
<1>0. Bridge \in Holders /\ b[Bridge] \in Nat
  BY DEF Holders, Balances
<1>1. CASE IsVoid(from, to, amount)
  BY <1>0, <1>1 DEF Transfer, DustOf, IsVoid
<1>2. CASE ~IsVoid(from, to, amount)
  <2> DEFINE d == DustOf(b, from, to, amount)
             t == [b EXCEPT ![from] = @ - amount - d, ![to] = @ + amount]
  <2>1. Transfer(b, from, to, amount) = t
    BY <1>2 DEF Transfer
  <2> HIDE DEF d
  <2>2. QED
    BY <1>0, <2>1 DEF Balances, d
<1>3. QED
  BY <1>1, <1>2

\* A transfer to another chain adds its amount to what is announced.
LEMMA LockedGrows ==
    ASSUME TypeOK, NEW c \in Chains, NEW m \in Payloads, TransferOut(c, m)
    PROVE  Locked' = Locked + m
<1>1. /\ IsFiniteSet(DOMAIN Announced) /\ Len(emitted) \in Nat
      /\ \A i \in DOMAIN Announced : Announced[i] \in Nat
  BY AnnouncedType
<1> DEFINE n == Len(emitted)
           e == [dest |-> c, nonce |-> chainNonces[c] + 1, payload |-> m]
<1>2. e \in TransferEvents
  BY DEF TransferOut, ChainWhitelisted, TypeOK, TransferEvents
<1>3. emitted' = Append(emitted, e) /\ emitted \in Seq(TransferEvents)
  BY DEF TransferOut, TypeOK
<1>4. e.payload = m
  OBVIOUS
<1> HIDE DEF e
<1>5. /\ Len(emitted') = n + 1 /\ emitted'[n + 1] = e
      /\ \A i \in 1..n : emitted'[i] = emitted[i]
  BY <1>2, <1>3, AppendProperties
<1>6. /\ DOMAIN Announced = 1..n /\ DOMAIN Announced' = 1..(n + 1)
      /\ 1..(n + 1) = (1..n) \cup {n + 1} /\ n + 1 \notin 1..n
  BY <1>1, <1>5 DEF Announced
<1>7. /\ Announced'[n + 1] = m /\ m \in Nat
      /\ \A i \in DOMAIN Announced : Announced'[i] = Announced[i]
  BY <1>1, <1>4, <1>5, <1>6, SwapAssumption DEF Announced
<1>8. SumFunction(Announced') = SumFunction(Announced) + Announced'[n + 1]
  <2>1. DOMAIN Announced' = DOMAIN Announced \cup {n + 1}
    BY <1>6, Zenon
  <2>2. n + 1 \notin DOMAIN Announced
    BY <1>6
  <2> HIDE DEF n
  <2>3. QED
    BY <1>1, <1>7, <2>1, <2>2, TotalExtended
<1>9. QED
  BY <1>7, <1>8, LockedIsAnnounced

\* What an outgoing transfer or an administrative step leaves alone.
LEMMA LedgerSame ==
    ASSUME UNCHANGED <<dispatched, emitted>>
    PROVE  /\ Locked' = Locked /\ Released' = Released /\ Executed' = Executed
           /\ \A w \in Weights : ExecutedAmount(w)' = ExecutedAmount(w)
BY DEF Locked, Released, ExecutedAmount, Executed

\* An execution adds its call to those executed, with whatever weight.
LEMMA ExecutedGrows ==
    ASSUME TypeOK, ExecutedIffApproved, IsFiniteSet(Executed),
           NEW p \in Proposals, NEW v, NEW s \in Status,
           Resolvable(p, v), ResolveAs(p, v, s), s = "Approved", NEW w \in Weights
    PROVE  /\ Executed' = Executed \cup {p} /\ p \notin Executed
           /\ IsFiniteSet(Executed')
           /\ ExecutedAmount(w)' = ExecutedAmount(w) + w[p.call]
<1>1. /\ VotesOn(p).status = "Initiated"
      /\ dispatched'[p] = dispatched[p] + 1
      /\ \A q \in Proposals \ {p} : dispatched'[q] = dispatched[q]
  BY VoteEffect
<1>2. dispatched[p] = 0
  BY <1>1 DEF ExecutedIffApproved, VotesOn
<1>3. dispatched'[p] = 1
  BY <1>1, <1>2
<1>4. Executed' = Executed \cup {p} /\ p \notin Executed
  BY <1>1, <1>2, <1>3 DEF Executed
<1>5. IsFiniteSet(Executed')
  BY <1>4, FS_AddElement
<1>6. w[p.call] \in Nat
  BY DEF Weights, Proposals
<1>7. Payments(w)'[p] = w[p.call]
  BY <1>3, <1>4, <1>6 DEF Payments
<1>8. \A q \in DOMAIN Payments(w) : Payments(w)[q] \in Nat /\ Payments(w)'[q] = Payments(w)[q]
  <2>1. \A q \in DOMAIN Payments(w) : Payments(w)[q] \in Nat
    BY PaymentsType
  <2>2. ASSUME NEW q \in Executed PROVE Payments(w)'[q] = Payments(w)[q]
    <3>1. dispatched'[q] = dispatched[q] /\ q \in Executed'
      BY <1>1, <1>4 DEF Executed
    <3>2. QED
      BY <3>1 DEF Payments
  <2>3. QED
    BY <2>1, <2>2 DEF Payments
<1>9. DOMAIN Payments(w) = Executed /\ DOMAIN Payments(w)' = Executed'
  BY DEF Payments
<1>10. SumFunction(Payments(w)') = SumFunction(Payments(w)) + Payments(w)'[p]
  <2>1. DOMAIN Payments(w)' = DOMAIN Payments(w) \cup {p} /\ p \notin DOMAIN Payments(w)
    BY <1>4, <1>9
  <2>2. IsFiniteSet(DOMAIN Payments(w))
    BY <1>9
  <2>3. QED
    BY <1>6, <1>7, <1>8, <2>1, <2>2, TotalExtended
<1>11. QED
  BY <1>4, <1>5, <1>7, <1>10, ExecutedAmountIsPayments

\* A transfer of a user keeps the ledger.
LEMMA LedgerTransferNative ==
    ASSUME LedgerInv, NEW u \in Users, NEW m \in Payloads, NEW c \in Chains,
           TransferNative(u, m, c)
    PROVE  BridgeAccountsForTransfers'
<1> DEFINE paid == Transfer(balance, u, FeeTo(u), swapFee)
<1>1. /\ u \in Holders /\ Bridge \in Holders /\ u # Bridge
      /\ FeeTo(u) \in Holders /\ (FeeTo(u) = Bridge <=> feeDestination = Bridge)
      /\ swapFee \in Nat /\ m \in Nat /\ balance \in Balances
  BY SwapAssumption DEF LedgerInv, SwapTypeOK, Holders, FeeTo, Balances
<1>2. paid \in Balances
  BY <1>1, SwapAssumption, TransferType DEF TransferNative
<1>3. paid[Bridge] = balance[Bridge] + FeeToBridge /\ FeeToBridge \in Nat
  <2>1. CASE FeeTo(u) = u
    BY <1>1, <2>1 DEF Transfer, IsVoid, FeeToBridge, Balances
  <2>2. CASE FeeTo(u) # u
    BY <1>1, <2>2, SwapAssumption, TransferBridge DEF FeeToBridge, Balances
  <2>3. QED
    BY <2>1, <2>2
<1>4. /\ balance' = Transfer(paid, u, Bridge, m)
      /\ dust' = [dust EXCEPT ![u] =
                      @ + DustOf(balance, u, FeeTo(u), swapFee)
                        + DustOf(paid, u, Bridge, m)]
      /\ gifts' = gifts + FeeToBridge
      /\ UNCHANGED dispatched /\ TransferOut(c, m)
  BY DEF TransferNative, TransferOut, voteVars
<1> HIDE DEF paid
<1>5. balance'[Bridge] = balance[Bridge] + FeeToBridge + m
  BY <1>1, <1>2, <1>3, <1>4, SwapAssumption, TransferBridge
<1>6. dust'[Bridge] = dust[Bridge] /\ dust[Bridge] \in Nat /\ balance[Bridge] \in Nat
  BY <1>1, <1>4 DEF LedgerInv, SwapTypeOK
<1>7. Locked' = Locked + m
  BY <1>4, LockedGrows DEF LedgerInv, TypeInv
<1>8. Released' = Released
  BY <1>4 DEF Released, ExecutedAmount
<1>9. Locked \in Nat /\ Released \in Nat
  BY LedgerTypes DEF LedgerInv, TypeInv
<1>10. QED
  BY <1>1, <1>3, <1>4, <1>5, <1>6, <1>7, <1>8, <1>9, SwapAssumption
     DEF LedgerInv, SwapTypeOK, BridgeAccountsForTransfers

LEMMA LedgerUserTransfer ==
    ASSUME LedgerInv, NEW u \in Users, NEW to \in Holders, NEW m \in Payloads,
           UserTransfer(u, to, m)
    PROVE  BridgeAccountsForTransfers'
<1>1. /\ u \in Holders /\ Bridge \in Holders /\ u # Bridge /\ u # to
      /\ m \in Nat /\ balance \in Balances
  BY SwapAssumption DEF LedgerInv, SwapTypeOK, Holders, Balances, UserTransfer, IsVoid
<1>2. /\ balance' = Transfer(balance, u, to, m)
      /\ dust' = [dust EXCEPT ![u] = @ + DustOf(balance, u, to, m)]
      /\ gifts' = IF to = Bridge THEN gifts + m ELSE gifts
      /\ UNCHANGED <<dispatched, emitted>>
  BY DEF UserTransfer, vars, voteVars, nonceVars
<1>3. balance'[Bridge] = IF to = Bridge THEN balance[Bridge] + m ELSE balance[Bridge]
  BY <1>1, <1>2, SwapAssumption, TransferBridge
<1>4. dust'[Bridge] = dust[Bridge] /\ dust[Bridge] \in Nat /\ balance[Bridge] \in Nat
  BY <1>1, <1>2 DEF LedgerInv, SwapTypeOK
<1>5. Locked' = Locked /\ Released' = Released
  BY <1>2, LedgerSame
<1>6. Locked \in Nat /\ Released \in Nat /\ gifts \in Nat
  BY LedgerTypes DEF LedgerInv, TypeInv, SwapTypeOK
<1>7. QED
  BY <1>1, <1>2, <1>3, <1>4, <1>5, <1>6, SwapAssumption
     DEF LedgerInv, BridgeAccountsForTransfers

\* A voting step leaves the chainbridge storage alone or resolves one record
\* of the proposal it is about.
LEMMA SwapVoteForm ==
    ASSUME NEW p \in Proposals, SwapVote(p)
    PROVE  \/ UNCHANGED vars
           \/ \E v : \E s \in Status : Resolvable(p, v) /\ ResolveAs(p, v, s)
<1>1. ASSUME NEW v, TryResolve(p, v), Resolvable(p, v)
      PROVE  \/ UNCHANGED vars
             \/ \E w : \E s \in Status : Resolvable(p, w) /\ ResolveAs(p, w, s)
  BY <1>1 DEF TryResolve, CallFails
<1>2. ASSUME NEW a \in Accounts, NEW id \in ResourceIds, NEW b \in BOOLEAN,
             MayVote(a, p, id), TryResolve(p, CommitVote(VotesOn(p), a, b))
      PROVE  \/ UNCHANGED vars
             \/ \E w : \E s \in Status : Resolvable(p, w) /\ ResolveAs(p, w, s)
  <2>1. Resolvable(p, CommitVote(VotesOn(p), a, b))
    BY <1>2 DEF MayVote, Resolvable
  <2>2. QED
    BY <1>1, <1>2, <2>1
<1>3. CASE EvalVoteState(p)
  BY <1>1, <1>3 DEF EvalVoteState, Resolvable
<1>4. CASE \E a \in Accounts, id \in ResourceIds :
               AcknowledgeProposal(a, p, id) \/ RejectProposal(a, p, id)
  BY <1>2, <1>4 DEF AcknowledgeProposal, RejectProposal
<1>5. QED
  BY <1>3, <1>4 DEF SwapVote

\* What a voting step does to the coins: nothing, or it executes one call for
\* the first time and pays its amount out of the bridge account.
LEMMA PayOutForm ==
    ASSUME TypeInv, ExecutedIffApproved, SwapTypeOK, IsFiniteSet(Executed),
           NEW p \in Proposals, SwapVote(p)
    PROVE  /\ UNCHANGED <<emitted, gifts>>
           /\ \/ UNCHANGED <<dispatched, balance, dust>>
              \/ /\ PayOut(p.call)
                 /\ dispatched[p] = 0 /\ dispatched'[p] = 1
                 /\ \A q \in Proposals \ {p} : dispatched'[q] = dispatched[q]
                 /\ IsFiniteSet(Executed')
                 /\ \A w \in Weights : ExecutedAmount(w)' = ExecutedAmount(w) + w[p.call]
<1>0. TypeOK /\ Settle(p)
  BY DEF TypeInv, SwapVote
<1>1. CASE UNCHANGED vars
  BY <1>0, <1>1 DEF vars, voteVars, nonceVars, Settle
<1>2. ASSUME NEW v, NEW s \in Status, Resolvable(p, v), ResolveAs(p, v, s)
      PROVE  /\ UNCHANGED <<emitted, gifts>>
             /\ \/ UNCHANGED <<dispatched, balance, dust>>
                \/ /\ PayOut(p.call)
                   /\ dispatched[p] = 0 /\ dispatched'[p] = 1
                   /\ \A q \in Proposals \ {p} : dispatched'[q] = dispatched[q]
                   /\ IsFiniteSet(Executed')
                   /\ \A w \in Weights :
                         ExecutedAmount(w)' = ExecutedAmount(w) + w[p.call]
  <2>1. UNCHANGED <<emitted, gifts>>
    BY <1>0, <1>2 DEF ResolveAs, nonceVars, Settle
  <2>2. CASE s # "Approved"
    BY <1>0, <1>2, <2>1, <2>2 DEF ResolveAs, Settle
  <2>3. CASE s = "Approved"
    <3>1. /\ VotesOn(p).status = "Initiated"
          /\ dispatched'[p] = dispatched[p] + 1
          /\ \A q \in Proposals \ {p} : dispatched'[q] = dispatched[q]
      BY <1>0, <1>2, <2>3, VoteEffect
    <3>2. dispatched[p] = 0
      BY <3>1 DEF ExecutedIffApproved, VotesOn
    <3>3. dispatched' # dispatched
      BY <3>1, <3>2
    <3>4. PayOut(p.call)
      BY <1>0, <3>3 DEF Settle
    <3>5. ASSUME NEW w \in Weights
          PROVE  /\ IsFiniteSet(Executed')
                 /\ ExecutedAmount(w)' = ExecutedAmount(w) + w[p.call]
      BY <1>0, <1>2, <2>3, ExecutedGrows
    <3>6. IsFiniteSet(Executed')
      BY <3>5, WeightTypes
    <3>7. QED
      BY <2>1, <3>1, <3>2, <3>4, <3>5, <3>6
  <2>4. QED
    BY <2>2, <2>3
<1>3. QED
  BY <1>1, <1>2, SwapVoteForm

\* What a payment takes from the bridge account: nothing if it is the receiver.
LEMMA PayOutBridge ==
    ASSUME SwapTypeOK, NEW p \in Proposals, PayOut(p.call)
    PROVE  balance'[Bridge] + dust'[Bridge]
             = balance[Bridge] + dust[Bridge] - PaidOut[p.call]
<1>1. /\ p.call \in Calls /\ p.call.to \in Holders /\ p.call.amount \in Nat
      /\ Bridge \in Holders /\ balance \in Balances
      /\ balance[Bridge] \in Nat /\ dust[Bridge] \in Nat
  BY CallTypes DEF SwapTypeOK, Holders, Balances, Proposals
<1> DEFINE d == DustOf(balance, Bridge, p.call.to, p.call.amount)
<1>2. d \in Nat
  BY <1>1, SwapAssumption, TransferType DEF PayOut
<1>3. dust'[Bridge] = dust[Bridge] + d
  BY <1>1 DEF PayOut, SwapTypeOK
<1>4. CASE p.call.to = Bridge
  <2>1. PaidOut[p.call] = 0 /\ balance' = balance /\ d = 0
    BY <1>1, <1>4 DEF PayOut, PaidOut, Transfer, DustOf, IsVoid
  <2>2. QED
    BY <1>1, <1>3, <2>1
<1>5. CASE p.call.to # Bridge
  <2>1. PaidOut[p.call] = p.call.amount
    BY <1>1, <1>5 DEF PaidOut
  <2>2. balance'[Bridge] = balance[Bridge] - p.call.amount - d
    BY <1>1, <1>5, SwapAssumption, TransferBridge DEF PayOut
  <2> HIDE DEF d
  <2>3. QED
    BY <1>1, <1>2, <1>3, <2>1, <2>2
<1>6. QED
  BY <1>4, <1>5

LEMMA LedgerVote ==
    ASSUME LedgerInv, NEW p \in Proposals, SwapVote(p)
    PROVE  IsFiniteSet(Executed') /\ BridgeAccountsForTransfers'
<1>1. TypeInv /\ TypeOK /\ ExecutedIffApproved /\ SwapTypeOK /\ IsFiniteSet(Executed)
  BY DEF LedgerInv, TypeInv
<1>2. UNCHANGED <<emitted, gifts>> /\ Locked' = Locked
  BY <1>1, PayOutForm DEF Locked
<1>3. CASE UNCHANGED <<dispatched, balance, dust>>
  <2>1. Released' = Released /\ Executed' = Executed
    BY <1>2, <1>3, LedgerSame
  <2>2. QED
    BY <1>1, <1>2, <1>3, <2>1 DEF LedgerInv, BridgeAccountsForTransfers
<1>4. CASE /\ PayOut(p.call) /\ IsFiniteSet(Executed')
           /\ \A w \in Weights : ExecutedAmount(w)' = ExecutedAmount(w) + w[p.call]
  <2>0. Released' = Released + PaidOut[p.call]
    BY <1>4, WeightTypes DEF Released
  <2>1. /\ PaidOut[p.call] \in Nat /\ Locked \in Nat /\ Released \in Nat
        /\ gifts \in Nat /\ BridgeFunds \in Nat
    BY <1>1, WeightTypes, LedgerTypes, SwapAssumption DEF SwapTypeOK
  <2>2. balance[Bridge] \in Nat /\ dust[Bridge] \in Nat
    BY <1>1 DEF SwapTypeOK, Holders
  <2>3. balance'[Bridge] + dust'[Bridge]
          = balance[Bridge] + dust[Bridge] - PaidOut[p.call]
    BY <1>1, <1>4, PayOutBridge
  <2>4. SwapTypeOK'
    BY <1>1, SwapTypeStep DEF SwapNext
  <2>5. balance'[Bridge] \in Nat /\ dust'[Bridge] \in Nat
    BY <2>4 DEF SwapTypeOK, Holders
  <2>6. BridgeAccountsForTransfers'
    BY <1>2, <2>0, <2>1, <2>2, <2>3, <2>5 DEF LedgerInv, BridgeAccountsForTransfers
  <2>7. QED
    BY <1>4, <2>6
<1>5. QED
  BY <1>1, <1>3, <1>4, PayOutForm

LEMMA LedgerStep == LedgerInv /\ [SwapNext]_swapVars => LedgerInv'
<1> SUFFICES ASSUME LedgerInv, [SwapNext]_swapVars PROVE LedgerInv'
  OBVIOUS
<1>1. TypeInv' /\ ExecutedIffApproved' /\ SwapTypeOK'
  <2>1. [Next]_vars
    BY SwapStepIsStep DEF swapVars
  <2>2. QED
    BY <2>1, TypeInvStep, ExecutedStep, SwapTypeStep DEF LedgerInv
<1>2. IsFiniteSet(Executed') /\ BridgeAccountsForTransfers'
  <2>1. CASE UNCHANGED <<dispatched, emitted, coinVars>>
    <3>1. Locked' = Locked /\ Released' = Released /\ Executed' = Executed
      BY <2>1, LedgerSame
    <3>2. QED
      BY <2>1, <3>1 DEF LedgerInv, BridgeAccountsForTransfers, coinVars
  <2>2. CASE SwapAdmin
    BY <2>1, <2>2 DEF SwapAdmin, SetSwapFee, SetFeeDestination, vars, voteVars,
       nonceVars, Admin, SetThreshold, SetResource, RemoveResource, WhitelistChain,
       AddRelayer, RemoveRelayer
  <2>3. CASE \E p \in Proposals : SwapVote(p)
    BY <2>3, LedgerVote
  <2>4. CASE UserStep
    <3>1. Executed' = Executed
      BY <2>4 DEF UserStep, TransferNative, UserTransfer, TransferOut, vars,
         voteVars, Executed
    <3>2. BridgeAccountsForTransfers'
      BY <2>4, LedgerTransferNative, LedgerUserTransfer DEF UserStep
    <3>3. QED
      BY <3>1, <3>2 DEF LedgerInv
  <2>5. CASE NextBlock /\ UNCHANGED <<feeVars, coinVars>>
    BY <2>1, <2>5 DEF NextBlock, voteVars, nonceVars
  <2>6. CASE UNCHANGED swapVars
    BY <2>1, <2>6 DEF swapVars, vars, voteVars, nonceVars
  <2>7. QED
    BY <2>2, <2>3, <2>4, <2>5, <2>6 DEF SwapNext
<1>3. QED
  BY <1>1, <1>2 DEF LedgerInv

\* The bridge account holds, dust included, what genesis and gifts gave it, plus
\* every coin announced to another chain, less every coin released for one.
THEOREM BridgeLedger == SwapSpec => []BridgeAccountsForTransfers
<1>1. LedgerInv => BridgeAccountsForTransfers
  BY DEF LedgerInv
<1>2. QED
  BY <1>1, LedgerInit, LedgerStep, PTL DEF SwapSpec

-----------------------------------------------------------------------------
(* The two ends together. *)

\* A step of the whole bridge is one of the swap pallet on the chainbridge
\* pallet, and one of the relayers on the chainbridge pallet, or leaves them
\* alone.
LEMMA BridgedStepIsStep ==
    [BridgedNext]_bridgedVars => [SwapNext]_swapVars /\ [RelayNext]_relayVars
<1> SUFFICES ASSUME [BridgedNext]_bridgedVars
             PROVE  [SwapNext]_swapVars /\ [RelayNext]_relayVars
  OBVIOUS
<1>1. CASE SwapAdmin /\ Safe(relayerThreshold') /\ UNCHANGED remoteVars
  BY <1>1 DEF SwapAdmin, SetSwapFee, SetFeeDestination, SwapNext, RelayNext,
     remoteVars, relayVars
<1>2. CASE BridgedVote /\ UNCHANGED remoteVars
  BY <1>2 DEF BridgedVote, SwapVote, RelayedVote, SwapNext, RelayNext, remoteVars
<1>3. CASE UserStep /\ UNCHANGED remoteVars
  BY <1>3 DEF UserStep, TransferNative, UserTransfer, SwapNext, RelayNext,
     remoteVars, relayVars
<1>4. CASE NextBlock /\ UNCHANGED <<feeVars, coinVars, remoteVars>>
  BY <1>4 DEF SwapNext, RelayNext, remoteVars
<1>5. ASSUME NEW i \in DOMAIN emitted, RemoteMint(i)
      PROVE  [SwapNext]_swapVars /\ [RelayNext]_relayVars
  BY <1>5 DEF RemoteMint, swapVars, relayVars
<1>6. ASSUME NEW p \in Proposals, RemoteBurn(p)
      PROVE  [SwapNext]_swapVars /\ [RelayNext]_relayVars
  BY <1>6 DEF RemoteBurn, RemoteDeposit, swapVars, RelayNext
<1>7. CASE UNCHANGED bridgedVars
  BY <1>7 DEF bridgedVars, swapVars, relayVars
<1>8. QED
  BY <1>1, <1>2, <1>3, <1>4, <1>5, <1>6, <1>7 DEF BridgedNext

\* What is proved of the swap pallet and what is proved of the relayers holds
\* of the whole bridge.
THEOREM BridgedUsesBoth == BridgedSpec => SwapSpec /\ RelaySpec
<1>1. BridgedInit => SwapInit /\ RelayInit
  BY DEF BridgedInit
<1>2. QED
  BY <1>1, BridgedStepIsStep, PTL DEF BridgedSpec, SwapSpec, RelaySpec

(***************************************************************************)
(* The inductive invariant: with what the parts keep, that the deposits at *)
(* the other end are finitely many, and that the contract there has minted *)
(* no event that was not emitted.                                          *)
(***************************************************************************)
AtSea == {i \in DOMAIN emitted \ minted : emitted[i].dest = Remote}

Outgoing == [i \in AtSea |-> emitted[i].payload]

Unpaid == {p \in genuine : dispatched[p] = 0}

Returning == [p \in Unpaid |-> p.call.amount]

BackedInv ==
    /\ LedgerInv
    /\ GenuineInv
    /\ wrapped \in Nat
    /\ minted \subseteq DOMAIN emitted
    /\ genuine \subseteq Proposals /\ IsFiniteSet(genuine)
    /\ WrappedCoinsBacked

LEMMA InTransit ==
    /\ InTransitOut = SumFunction(Outgoing) /\ InTransitOut' = SumFunction(Outgoing')
    /\ InTransitBack = SumFunction(Returning) /\ InTransitBack' = SumFunction(Returning')
BY DEF InTransitOut, InTransitBack, Outgoing, Returning, AtSea, Unpaid

LEMMA OutgoingType ==
    ASSUME TypeOK
    PROVE  /\ IsFiniteSet(DOMAIN Outgoing)
           /\ \A i \in DOMAIN Outgoing : Outgoing[i] \in Nat
           /\ InTransitOut \in Nat
<1>1. Len(emitted) \in Nat /\ DOMAIN emitted = 1..Len(emitted)
      /\ \A i \in DOMAIN emitted : emitted[i] \in TransferEvents
  BY LenProperties, ElementOfSeq DEF TypeOK
<1>2. IsFiniteSet(AtSea)
  <2>1. IsFiniteSet(1..Len(emitted))
    BY <1>1, FS_Interval
  <2>2. AtSea \in SUBSET (1..Len(emitted))
    BY <1>1 DEF AtSea
  <2> HIDE DEF AtSea
  <2>3. QED
    BY <2>1, <2>2, FS_Subset
<1>3. DOMAIN Outgoing = AtSea /\ \A i \in AtSea : Outgoing[i] \in Nat
  BY <1>1, SwapAssumption DEF Outgoing, AtSea, TransferEvents
<1>4. QED
  BY <1>2, <1>3, InTransit, TotalNat

LEMMA ReturningType ==
    ASSUME genuine \subseteq Proposals, IsFiniteSet(genuine)
    PROVE  /\ IsFiniteSet(DOMAIN Returning)
           /\ \A p \in DOMAIN Returning : Returning[p] \in Nat
           /\ InTransitBack \in Nat
<1>1. IsFiniteSet(Unpaid)
  BY FS_Subset DEF Unpaid
<1>2. DOMAIN Returning = Unpaid /\ \A p \in Unpaid : Returning[p] \in Nat
  BY CallTypes DEF Returning, Unpaid
<1>3. QED
  BY <1>1, <1>2, InTransit, TotalNat

LEMMA BackedInit == BridgedInit => BackedInv
<1> SUFFICES ASSUME BridgedInit PROVE BackedInv
  OBVIOUS
<1>1. LedgerInv /\ GenuineInv
  BY LedgerInit, GenuineInit DEF BridgedInit
<1>2. /\ genuine = {} /\ minted = {} /\ wrapped = BridgeFunds /\ emitted = << >>
      /\ balance[Bridge] = BridgeFunds /\ dust[Bridge] = 0 /\ gifts = 0
  BY DEF BridgedInit, RelayInit, SwapInit, Init, Holders
<1>3. DOMAIN Outgoing = {} /\ DOMAIN Returning = {}
  BY <1>2 DEF Outgoing, AtSea, Returning, Unpaid
<1>4. InTransitOut = 0 /\ InTransitBack = 0
  BY <1>3, InTransit, TotalEmpty
<1>5. ReleasedToItself = 0
  <2>1. DOMAIN Payments(Kept) = {}
    BY DEF BridgedInit, RelayInit, Init, Payments, Executed
  <2>2. QED
    BY <2>1, TotalEmpty, ExecutedAmountIsPayments DEF ReleasedToItself
<1>6. WrappedCoinsBacked
  BY <1>2, <1>4, <1>5, SwapAssumption DEF WrappedCoinsBacked
<1>7. QED
  BY <1>1, <1>2, <1>6, FS_EmptySet, SwapAssumption DEF BackedInv

\* The facts that the steps below start from.
LEMMA BackedTypes ==
    ASSUME BackedInv
    PROVE  /\ TypeOK /\ TypeInv /\ ExecutedIffApproved /\ SwapTypeOK
           /\ IsFiniteSet(Executed)
           /\ balance[Bridge] \in Nat /\ dust[Bridge] \in Nat /\ gifts \in Nat
           /\ InTransitOut \in Nat /\ InTransitBack \in Nat /\ wrapped \in Nat
           /\ ReleasedToItself \in Nat
<1>1. TypeOK /\ TypeInv /\ ExecutedIffApproved /\ SwapTypeOK /\ IsFiniteSet(Executed)
  BY DEF BackedInv, LedgerInv, TypeInv
<1>2. balance[Bridge] \in Nat /\ dust[Bridge] \in Nat /\ gifts \in Nat
  BY <1>1 DEF SwapTypeOK, Holders
<1>3. InTransitOut \in Nat /\ InTransitBack \in Nat /\ wrapped \in Nat
  BY <1>1, OutgoingType, ReturningType DEF BackedInv
<1>4. ReleasedToItself \in Nat
  BY <1>1, LedgerTypes, WeightTypes DEF ReleasedToItself
<1>5. QED
  BY <1>1, <1>2, <1>3, <1>4

\* A transfer sets out: the event is not minted yet.
LEMMA OutgoingGrows ==
    ASSUME TypeOK, minted \subseteq DOMAIN emitted, UNCHANGED minted,
           NEW c \in Chains, NEW m \in Payloads, TransferOut(c, m)
    PROVE  /\ InTransitOut' = InTransitOut + m
           /\ DOMAIN emitted \subseteq DOMAIN emitted'
<1> DEFINE n == Len(emitted)
           e == [dest |-> c, nonce |-> chainNonces[c] + 1, payload |-> m]
<1>1. c = Remote
  BY RemoteAssumption DEF TransferOut, ChainWhitelisted, TypeOK
<1>2. e \in TransferEvents
  BY DEF TransferOut, ChainWhitelisted, TypeOK, TransferEvents
<1>3. emitted' = Append(emitted, e) /\ emitted \in Seq(TransferEvents)
  BY DEF TransferOut, TypeOK
<1>4. e.payload = m /\ e.dest = c
  OBVIOUS
<1> HIDE DEF e
<1>5. /\ n \in Nat /\ DOMAIN emitted = 1..n /\ DOMAIN emitted' = 1..(n + 1)
      /\ emitted'[n + 1] = e
      /\ \A i \in 1..n : emitted'[i] = emitted[i]
  BY <1>2, <1>3, AppendProperties, LenProperties
<1>6. n + 1 \notin DOMAIN emitted /\ n + 1 \notin minted
  BY <1>5
<1>7. AtSea' = AtSea \cup {n + 1} /\ n + 1 \notin AtSea
  BY <1>1, <1>4, <1>5, <1>6 DEF AtSea
<1>8. /\ DOMAIN Outgoing = AtSea /\ DOMAIN Outgoing' = AtSea'
      /\ \A i \in AtSea : Outgoing[i] = emitted[i].payload
      /\ \A i \in AtSea' : Outgoing'[i] = emitted'[i].payload
  BY DEF Outgoing
<1>9. Outgoing'[n + 1] = m /\ m \in Nat
  BY <1>4, <1>5, <1>7, <1>8, SwapAssumption
<1>10. \A i \in AtSea : Outgoing'[i] = Outgoing[i]
  <2>1. \A i \in AtSea : i \in 1..n
    BY <1>5 DEF AtSea
  <2>2. QED
    BY <1>5, <1>7, <1>8, <2>1
<1> HIDE DEF n
<1>11. SumFunction(Outgoing') = SumFunction(Outgoing) + Outgoing'[n + 1]
  <2>1. DOMAIN Outgoing' = DOMAIN Outgoing \cup {n + 1} /\ n + 1 \notin DOMAIN Outgoing
    BY <1>7, <1>8
  <2>2. /\ IsFiniteSet(DOMAIN Outgoing)
        /\ \A i \in DOMAIN Outgoing : Outgoing[i] \in Nat /\ Outgoing'[i] = Outgoing[i]
    BY <1>8, <1>10, OutgoingType
  <2>3. QED
    BY <1>9, <2>1, <2>2, TotalExtended
<1>12. DOMAIN emitted \subseteq DOMAIN emitted'
  BY <1>5 DEF n
<1>13. QED
  BY <1>9, <1>11, <1>12, InTransit

\* The contract mints an event: the coins have arrived.
LEMMA BackedMint ==
    ASSUME BackedInv, NEW i \in DOMAIN emitted, RemoteMint(i)
    PROVE  /\ wrapped' \in Nat /\ minted' \subseteq DOMAIN emitted'
           /\ WrappedCoinsBacked'
<1>1. /\ i \in AtSea /\ AtSea' = AtSea \ {i} /\ UNCHANGED <<emitted, genuine, dispatched>>
      /\ UNCHANGED <<balance, dust, gifts>>
      /\ wrapped' = wrapped + emitted[i].payload /\ minted' = minted \cup {i}
  BY DEF RemoteMint, swapVars, vars, voteVars, nonceVars, coinVars, AtSea
<1>2. /\ DOMAIN Outgoing = AtSea /\ DOMAIN Outgoing' = AtSea'
      /\ Outgoing[i] = emitted[i].payload
      /\ \A j \in AtSea : j # i => Outgoing'[j] = Outgoing[j]
  BY <1>1 DEF Outgoing
<1>3. InTransitOut' = InTransitOut - emitted[i].payload
  <2>1. /\ IsFiniteSet(DOMAIN Outgoing)
        /\ \A j \in DOMAIN Outgoing : Outgoing[j] \in Nat
    BY BackedTypes, OutgoingType
  <2>2. DOMAIN Outgoing' = DOMAIN Outgoing \ {i} /\ i \in DOMAIN Outgoing
    BY <1>1, <1>2
  <2>3. \A j \in DOMAIN Outgoing :
            Outgoing[j] \in Int /\ (j # i => Outgoing'[j] = Outgoing[j])
    BY <1>2, <2>1
  <2>4. SumFunction(Outgoing') = SumFunction(Outgoing) - Outgoing[i]
    BY <2>1, <2>2, <2>3, TotalReduced
  <2>5. QED
    BY <1>2, <2>4, InTransit
<1>4. emitted[i].payload \in Nat
  BY <1>1, <1>2, BackedTypes, OutgoingType
<1>5. InTransitBack' = InTransitBack /\ ReleasedToItself' = ReleasedToItself
  BY <1>1 DEF InTransitBack, ReleasedToItself, ExecutedAmount
<1>6. WrappedCoinsBacked'
  BY <1>1, <1>3, <1>4, <1>5, BackedTypes DEF BackedInv, WrappedCoinsBacked
<1>7. QED
  BY <1>1, <1>4, <1>6, BackedTypes DEF BackedInv

\* Coins are burned at the other end: they are on their way back.
LEMMA BackedBurn ==
    ASSUME BackedInv, NEW p \in Proposals, RemoteBurn(p)
    PROVE  /\ wrapped' \in Nat /\ minted' \subseteq DOMAIN emitted'
           /\ genuine' \subseteq Proposals /\ IsFiniteSet(genuine')
           /\ WrappedCoinsBacked'
<1>1. /\ p \notin genuine /\ genuine' = genuine \cup {p}
      /\ UNCHANGED <<emitted, dispatched, minted, balance, dust, gifts>>
      /\ wrapped' = wrapped - p.call.amount /\ p.call.amount <= wrapped
  BY DEF RemoteBurn, RemoteDeposit, vars, voteVars, nonceVars, coinVars
<1>2. dispatched[p] = 0
  BY <1>1, BackedTypes DEF BackedInv, GenuineInv, OnlyGenuineExecuted, TypeOK
<1>3. Unpaid' = Unpaid \cup {p} /\ p \notin Unpaid
  BY <1>1, <1>2 DEF Unpaid
<1>4. p.call.amount \in Nat
  BY CallTypes
<1>5. InTransitBack' = InTransitBack + p.call.amount
  <2>1. /\ DOMAIN Returning = Unpaid /\ DOMAIN Returning' = Unpaid'
        /\ Returning'[p] = p.call.amount
        /\ \A q \in Unpaid : Returning'[q] = Returning[q]
    BY <1>3 DEF Returning
  <2>2. /\ IsFiniteSet(DOMAIN Returning)
        /\ \A q \in DOMAIN Returning : Returning[q] \in Nat
    BY ReturningType DEF BackedInv
  <2>3. DOMAIN Returning' = DOMAIN Returning \cup {p} /\ p \notin DOMAIN Returning
    BY <1>3, <2>1
  <2>4. /\ Returning'[p] \in Int
        /\ \A q \in DOMAIN Returning :
               Returning[q] \in Int /\ Returning'[q] = Returning[q]
    BY <1>4, <2>1, <2>2
  <2>5. SumFunction(Returning') = SumFunction(Returning) + Returning'[p]
    BY <2>2, <2>3, <2>4, TotalExtended
  <2>6. QED
    BY <2>1, <2>5, InTransit
<1>6. InTransitOut' = InTransitOut /\ ReleasedToItself' = ReleasedToItself
  BY <1>1 DEF InTransitOut, ReleasedToItself, ExecutedAmount
<1>7. WrappedCoinsBacked'
  BY <1>1, <1>4, <1>5, <1>6, BackedTypes DEF BackedInv, WrappedCoinsBacked
<1>8. QED
  BY <1>1, <1>4, <1>7, BackedTypes, FS_AddElement DEF BackedInv

\* An execution pays a deposit that was on its way.
LEMMA BackedVote ==
    ASSUME BackedInv, GenuineInv', SwapTypeOK',
           NEW p \in Proposals, SwapVote(p), UNCHANGED remoteVars
    PROVE  UNCHANGED emitted /\ WrappedCoinsBacked'
<1>1. UNCHANGED <<genuine, wrapped, minted, emitted, gifts>>
  BY BackedTypes, PayOutForm DEF remoteVars
<1>2. InTransitOut' = InTransitOut
  BY <1>1 DEF InTransitOut
<1>3. CASE UNCHANGED <<dispatched, balance, dust>>
  BY <1>1, <1>2, <1>3 DEF BackedInv, WrappedCoinsBacked, InTransitBack,
     ReleasedToItself, ExecutedAmount
<1>4. CASE /\ PayOut(p.call)
           /\ dispatched[p] = 0 /\ dispatched'[p] = 1
           /\ \A q \in Proposals \ {p} : dispatched'[q] = dispatched[q]
           /\ \A w \in Weights : ExecutedAmount(w)' = ExecutedAmount(w) + w[p.call]
  <2>1. p \in genuine
    BY <1>1, <1>4 DEF GenuineInv, OnlyGenuineExecuted
  <2>2. p \in Unpaid /\ Unpaid' = Unpaid \ {p}
    BY <1>1, <1>4, <2>1 DEF Unpaid, BackedInv
  <2>3. /\ PaidOut[p.call] \in Nat /\ Kept[p.call] \in Nat
        /\ PaidOut[p.call] + Kept[p.call] = p.call.amount
        /\ ReleasedToItself' = ReleasedToItself + Kept[p.call]
    BY <1>4, WeightTypes DEF ReleasedToItself
  <2>4. InTransitBack' = InTransitBack - p.call.amount
    <3>1. /\ DOMAIN Returning = Unpaid /\ DOMAIN Returning' = Unpaid'
          /\ Returning[p] = p.call.amount
          /\ \A q \in Unpaid : q # p => Returning'[q] = Returning[q]
      BY <2>2 DEF Returning
    <3>2. /\ IsFiniteSet(DOMAIN Returning)
          /\ \A q \in DOMAIN Returning : Returning[q] \in Nat
      BY ReturningType DEF BackedInv
    <3>3. DOMAIN Returning' = DOMAIN Returning \ {p} /\ p \in DOMAIN Returning
      BY <2>2, <3>1
    <3>4. \A q \in DOMAIN Returning :
              Returning[q] \in Int /\ (q # p => Returning'[q] = Returning[q])
      BY <3>1, <3>2
    <3>5. SumFunction(Returning') = SumFunction(Returning) - Returning[p]
      BY <3>2, <3>3, <3>4, TotalReduced
    <3>6. QED
      BY <3>1, <3>5, InTransit
  <2>5. balance'[Bridge] + dust'[Bridge]
          = balance[Bridge] + dust[Bridge] - PaidOut[p.call]
    BY <1>4, BackedTypes, PayOutBridge
  <2>6. balance'[Bridge] \in Nat /\ dust'[Bridge] \in Nat
    BY DEF SwapTypeOK, Holders
  <2>7. InTransitBack' + ReleasedToItself'
          = InTransitBack + ReleasedToItself - PaidOut[p.call]
    <3>1. InTransitBack \in Nat /\ ReleasedToItself \in Nat
      BY BackedTypes
    <3>2. QED
      BY ONLY <2>3, <2>4, <3>1
  <2>8. InTransitBack' \in Int /\ ReleasedToItself' \in Int
    <3>1. p.call.amount \in Nat
      BY CallTypes
    <3>2. QED
      BY <2>3, <2>4, <3>1, BackedTypes
  <2>9. WrappedCoinsBacked
    BY DEF BackedInv
  <2>10. WrappedCoinsBacked'
    BY <1>1, <1>2, <2>3, <2>5, <2>6, <2>7, <2>8, <2>9, BackedTypes
       DEF WrappedCoinsBacked
  <2>11. QED
    BY <1>1, <2>10
<1>5. QED
  BY <1>1, <1>3, <1>4, BackedTypes, PayOutForm

\* A step of a user locks coins, gives coins to the bridge, or does neither.
LEMMA BackedUser ==
    ASSUME BackedInv, LedgerInv', UserStep, UNCHANGED remoteVars
    PROVE  DOMAIN emitted \subseteq DOMAIN emitted' /\ WrappedCoinsBacked'
<1>1. UNCHANGED <<genuine, wrapped, minted, dispatched>>
  BY DEF UserStep, TransferNative, TransferOut, UserTransfer, vars, voteVars, remoteVars
<1>2. /\ InTransitBack' = InTransitBack /\ Released' = Released
      /\ ReleasedToItself' = ReleasedToItself
  BY <1>1 DEF InTransitBack, Released, ReleasedToItself, ExecutedAmount
<1>3. /\ balance'[Bridge] \in Nat /\ dust'[Bridge] \in Nat /\ gifts' \in Nat
  BY DEF LedgerInv, SwapTypeOK, Holders
<1>4. Released \in Nat /\ Locked \in Nat
  BY BackedTypes, LedgerTypes
<1>5. ASSUME NEW u \in Users, NEW m \in Payloads, NEW c \in Chains,
             TransferNative(u, m, c)
      PROVE  DOMAIN emitted \subseteq DOMAIN emitted' /\ WrappedCoinsBacked'
  <2>1. TransferOut(c, m) /\ m \in Nat
    BY <1>5, SwapAssumption DEF TransferNative
  <2>2. /\ InTransitOut' = InTransitOut + m
        /\ DOMAIN emitted \subseteq DOMAIN emitted'
    BY <1>1, <2>1, OutgoingGrows, BackedTypes DEF BackedInv
  <2>3. Locked' = Locked + m
    BY <2>1, LockedGrows, BackedTypes
  <2>4. balance'[Bridge] + dust'[Bridge] + gifts
            = balance[Bridge] + dust[Bridge] + m + gifts'
    BY <1>2, <1>3, <1>4, <2>1, <2>3, BackedTypes, SwapAssumption
       DEF BackedInv, LedgerInv, BridgeAccountsForTransfers
  <2>5. WrappedCoinsBacked'
    BY <1>1, <1>2, <1>3, <2>1, <2>2, <2>4, BackedTypes DEF BackedInv, WrappedCoinsBacked
  <2>6. QED
    BY <2>2, <2>5
<1>6. ASSUME NEW u \in Users, NEW to \in Holders, NEW m \in Payloads,
             UserTransfer(u, to, m)
      PROVE  DOMAIN emitted \subseteq DOMAIN emitted' /\ WrappedCoinsBacked'
  <2>1. UNCHANGED emitted
    BY <1>6 DEF UserTransfer, vars, nonceVars
  <2>2. InTransitOut' = InTransitOut /\ Locked' = Locked
    BY <1>1, <2>1 DEF InTransitOut, Locked
  <2>3. balance'[Bridge] + dust'[Bridge] + gifts = balance[Bridge] + dust[Bridge] + gifts'
    BY <1>2, <1>3, <1>4, <2>2, BackedTypes, SwapAssumption
       DEF BackedInv, LedgerInv, BridgeAccountsForTransfers
  <2>4. WrappedCoinsBacked'
    <3>1. WrappedCoinsBacked
      BY DEF BackedInv
    <3>2. QED
      BY <1>1, <1>2, <1>3, <2>2, <2>3, <3>1, BackedTypes DEF WrappedCoinsBacked
  <2>5. QED
    BY <2>1, <2>4
<1>7. QED
  BY <1>5, <1>6 DEF UserStep

LEMMA BackedStep == BackedInv /\ [BridgedNext]_bridgedVars => BackedInv'
<1> SUFFICES ASSUME BackedInv, [BridgedNext]_bridgedVars PROVE BackedInv'
  OBVIOUS
<1>1. LedgerInv' /\ GenuineInv' /\ SwapTypeOK'
  BY BridgedStepIsStep, LedgerStep, GenuineStep DEF BackedInv, LedgerInv
<1> DEFINE Rest == /\ wrapped' \in Nat
                   /\ minted' \subseteq DOMAIN emitted'
                   /\ genuine' \subseteq Proposals /\ IsFiniteSet(genuine')
                   /\ WrappedCoinsBacked'
<1>2. CASE UNCHANGED <<dispatched, emitted, balance, dust, gifts, remoteVars>>
  <2>1. /\ InTransitOut' = InTransitOut /\ InTransitBack' = InTransitBack
        /\ ReleasedToItself' = ReleasedToItself
    BY <1>2 DEF InTransitOut, InTransitBack, ReleasedToItself, ExecutedAmount, remoteVars
  <2>2. Rest
    BY <1>2, <2>1 DEF BackedInv, WrappedCoinsBacked, remoteVars
  <2>3. QED
    BY <1>1, <2>2 DEF BackedInv
<1>3. CASE SwapAdmin /\ UNCHANGED remoteVars
  BY <1>2, <1>3 DEF SwapAdmin, SetSwapFee, SetFeeDestination, vars, voteVars,
     nonceVars, coinVars, Admin, SetThreshold, SetResource, RemoveResource,
     WhitelistChain, AddRelayer, RemoveRelayer
<1>4. CASE BridgedVote /\ UNCHANGED remoteVars
  <2>1. PICK p \in Proposals : SwapVote(p)
    BY <1>4 DEF BridgedVote, SwapVote
  <2>2. UNCHANGED emitted /\ WrappedCoinsBacked'
    BY <1>1, <1>4, <2>1, BackedVote
  <2>3. Rest
    BY <1>4, <2>2 DEF BackedInv, remoteVars
  <2>4. QED
    BY <1>1, <2>3 DEF BackedInv
<1>5. CASE UserStep /\ UNCHANGED remoteVars
  <2>1. Rest
    BY <1>1, <1>5, BackedUser DEF BackedInv, remoteVars
  <2>2. QED
    BY <1>1, <2>1 DEF BackedInv
<1>6. CASE NextBlock /\ UNCHANGED <<feeVars, coinVars, remoteVars>>
  BY <1>2, <1>6 DEF NextBlock, voteVars, nonceVars, coinVars
<1>7. ASSUME NEW i \in DOMAIN emitted, RemoteMint(i) PROVE BackedInv'
  <2>1. UNCHANGED genuine
    BY <1>7 DEF RemoteMint
  <2>2. Rest
    BY <1>7, <2>1, BackedMint DEF BackedInv
  <2>3. QED
    BY <1>1, <2>2 DEF BackedInv
<1>8. ASSUME NEW p \in Proposals, RemoteBurn(p) PROVE BackedInv'
  <2>1. Rest
    BY <1>8, BackedBurn
  <2>2. QED
    BY <1>1, <2>1 DEF BackedInv
<1>9. CASE UNCHANGED bridgedVars
  BY <1>2, <1>9 DEF bridgedVars, swapVars, vars, voteVars, nonceVars, coinVars,
     remoteVars
<1>10. QED
  BY <1>3, <1>4, <1>5, <1>6, <1>7, <1>8, <1>9 DEF BridgedNext

\* Every wrapped coin, in circulation at the other end or on its way in either
\* direction, is backed by a coin of the bridge account, save for the dust
\* that was burned when a release reaped it; it holds beyond that what was
\* given to it, as a fee or otherwise, and what was released to itself.
THEOREM CoinsBacked == BridgedSpec => []WrappedCoinsBacked
<1>1. BackedInv => WrappedCoinsBacked
  BY DEF BackedInv
<1>2. QED
  BY <1>1, BackedInit, BackedStep, PTL DEF BridgedSpec

\* So the bridge account has the coins, or lost them as dust, for any deposit
\* that was burned at the other end and not released yet.
THEOREM OpenReleasesFunded == BridgedSpec => []ReleasesFunded
<1>1. BackedInv => ReleasesFunded
  <2> SUFFICES ASSUME BackedInv, NEW p \in genuine, dispatched[p] = 0
               PROVE  balance[Bridge] + dust[Bridge] >= p.call.amount
    BY DEF ReleasesFunded
  <2>1. p \in DOMAIN Returning /\ Returning[p] = p.call.amount
    BY DEF Returning, Unpaid
  <2>2. p.call.amount <= InTransitBack
    BY <2>1, ReturningType, TotalMember, InTransit DEF BackedInv
  <2>3. p.call.amount \in Nat
    BY CallTypes DEF BackedInv
  <2>4. QED
    BY <2>2, <2>3, BackedTypes DEF BackedInv, WrappedCoinsBacked
<1>2. QED
  BY <1>1, BackedInit, BackedStep, PTL DEF BridgedSpec
=============================================================================

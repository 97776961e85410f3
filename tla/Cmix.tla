--------------------------------- MODULE Cmix ---------------------------------
(***************************************************************************)
(* The cmix pallet (xx-cmix/src/lib.rs): settings of the mix network that  *)
(* its servers and validators follow, each in the hands of another origin. *)
(* The software hashes are the technical committee's as long as democracy  *)
(* permits; the variables are the council's, and hold for whole eras; the  *)
(* scheduling server reports the points of the validators and sets the     *)
(* address space.                                                          *)
(*                                                                         *)
(* Staking is external: it keeps the points of an era, gives the author of *)
(* a block the points that the variables say, and calls end_era.           *)
(***************************************************************************)
EXTENDS Naturals, FiniteSets

CONSTANTS Hashes, AddressSpaces, Servers, Validators,
          Variables,    \* values of the cmix variables
          BlockPoints,  \* what each of them gives for a block
          None,
          Submissions,  \* points that are added or deducted
          MaxPoints,    \* bound: points of a validator in an era
          MaxBlock      \* bound: last block number

ASSUME CmixAssumption ==
    /\ Hashes # {} /\ AddressSpaces # {} /\ Variables # {}
    /\ BlockPoints \in [Variables -> Nat]
    /\ None \notin Variables \cup Servers
    /\ Submissions \subseteq Nat
    /\ MaxPoints \in Nat /\ MaxBlock \in Nat

VARIABLES cmixHashes, adminPermission, schedulingAccount, cmixAddressSpace,
          nextCmixVariables, cmixVariables,
          points,  \* validator -> its points of this era, 0 if it has no entry
          prices,  \* the points that blocks of this era were given
          now      \* frame_system block number

stakingVars == <<points, prices>>
variablesVars == <<nextCmixVariables, cmixVariables>>
cmixVars == <<cmixHashes, adminPermission, schedulingAccount, cmixAddressSpace,
              variablesVars, stakingVars, now>>

-----------------------------------------------------------------------------
(* Calls of the administration. *)

SetCmixHashes(h) ==
    /\ adminPermission >= now
    /\ cmixHashes' = h
    /\ UNCHANGED <<adminPermission, schedulingAccount, cmixAddressSpace,
                   variablesVars, stakingVars, now>>

SetSchedulingAccount(s) ==
    /\ schedulingAccount' = s
    /\ UNCHANGED <<cmixHashes, adminPermission, cmixAddressSpace,
                   variablesVars, stakingVars, now>>

SetAdminPermission(block) ==
    /\ adminPermission' = block
    /\ UNCHANGED <<cmixHashes, schedulingAccount, cmixAddressSpace,
                   variablesVars, stakingVars, now>>

\* Variant: variables hold at once.
SetCmixVariablesNow(v) ==
    /\ nextCmixVariables' = v
    /\ cmixVariables' = v
    /\ UNCHANGED <<cmixHashes, adminPermission, schedulingAccount,
                   cmixAddressSpace, stakingVars, now>>

\* Variables that wait for the end of the era are replaced.
SetNextCmixVariables(v) ==
    /\ nextCmixVariables' = v
    /\ UNCHANGED <<cmixHashes, adminPermission, schedulingAccount,
                   cmixAddressSpace, cmixVariables, stakingVars, now>>

-----------------------------------------------------------------------------
(* Calls of the scheduling server. *)

SetCmixAddressSpace(s, size) ==
    /\ schedulingAccount = s
    /\ cmixAddressSpace' = size
    /\ UNCHANGED <<cmixHashes, adminPermission, schedulingAccount,
                   variablesVars, stakingVars, now>>

\* reward_by_ids: the first points of an era come with one more.
Rewarded(p, x) == IF p = 0 THEN x + 1 ELSE p + x

\* deduct_by_ids: one point is left.
Deducted(p, x) == IF p > x + 1 THEN p - x ELSE 1

SubmitCmixPoints(s, v, x) ==
    /\ schedulingAccount = s
    /\ Rewarded(points[v], x) <= MaxPoints
    /\ points' = [points EXCEPT ![v] = Rewarded(@, x)]
    /\ UNCHANGED <<cmixHashes, adminPermission, schedulingAccount,
                   cmixAddressSpace, variablesVars, prices, now>>

SubmitCmixDeductions(s, v, x) ==
    /\ schedulingAccount = s
    /\ points[v] > 0
    /\ points' = [points EXCEPT ![v] = Deducted(@, x)]
    /\ UNCHANGED <<cmixHashes, adminPermission, schedulingAccount,
                   cmixAddressSpace, variablesVars, prices, now>>

-----------------------------------------------------------------------------
(* Staking. *)

\* get_block_points
BlockPrice == BlockPoints[cmixVariables]

\* A block by validator v.
AuthorBlock(v) ==
    /\ now < MaxBlock
    /\ now' = now + 1
    /\ Rewarded(points[v], BlockPrice) <= MaxPoints
    /\ points' = [points EXCEPT ![v] = Rewarded(@, BlockPrice)]
    /\ prices' = prices \cup {BlockPrice}
    /\ UNCHANGED <<cmixHashes, adminPermission, schedulingAccount,
                   cmixAddressSpace, variablesVars>>

\* Variant: what was decided for the next era is dropped.
EndEraDropped ==
    /\ nextCmixVariables' = None
    /\ points' = [v \in Validators |-> 0]
    /\ prices' = {}
    /\ UNCHANGED <<cmixHashes, adminPermission, schedulingAccount,
                   cmixAddressSpace, cmixVariables, now>>

\* end_era takes the next variables; the next era starts without points.
EndEra ==
    /\ cmixVariables' = IF nextCmixVariables = None THEN cmixVariables ELSE nextCmixVariables
    /\ nextCmixVariables' = None
    /\ points' = [v \in Validators |-> 0]
    /\ prices' = {}
    /\ UNCHANGED <<cmixHashes, adminPermission, schedulingAccount,
                   cmixAddressSpace, now>>

-----------------------------------------------------------------------------
(* The specification. *)

CmixInit ==
    /\ cmixHashes \in Hashes
    /\ adminPermission \in 0..MaxBlock
    /\ schedulingAccount \in Servers \cup {None}
    /\ cmixAddressSpace \in AddressSpaces
    /\ nextCmixVariables = None
    /\ cmixVariables \in Variables
    /\ points = [v \in Validators |-> 0]
    /\ prices = {}
    /\ now = 0

CmixNext ==
    \/ \E h \in Hashes : SetCmixHashes(h)
    \/ \E s \in Servers : SetSchedulingAccount(s)
    \/ \E block \in 0..MaxBlock : SetAdminPermission(block)
    \/ \E v \in Variables : SetNextCmixVariables(v)
    \/ \E s \in Servers :
          \/ \E size \in AddressSpaces : SetCmixAddressSpace(s, size)
          \/ \E v \in Validators, x \in Submissions :
                SubmitCmixPoints(s, v, x) \/ SubmitCmixDeductions(s, v, x)
    \/ \E v \in Validators : AuthorBlock(v)
    \/ EndEra

CmixSpec == CmixInit /\ [][CmixNext]_cmixVars

\* Eras end for as long as the chain runs.
FairCmixSpec == CmixSpec /\ WF_cmixVars(EndEra)

-----------------------------------------------------------------------------
(* Properties. *)

CmixTypeOK ==
    /\ cmixHashes \in Hashes
    /\ adminPermission \in 0..MaxBlock
    /\ schedulingAccount \in Servers \cup {None}
    /\ cmixAddressSpace \in AddressSpaces
    /\ nextCmixVariables \in Variables \cup {None}
    /\ cmixVariables \in Variables
    /\ points \in [Validators -> 0..MaxPoints]
    /\ prices \subseteq Nat
    /\ now \in 0..MaxBlock

\* All blocks of an era are rewarded by the same variables, whenever in the era
\* the council decides on new ones (set_next_cmix_variables, get_block_points
\* and end_era together).
OnePricePerEra == prices \subseteq {BlockPrice}

\* From the block after the permitted ones on the hashes stay as they are,
\* whoever calls, until democracy permits again.
HashesFrozen == [][now > adminPermission => cmixHashes' = cmixHashes]_cmixVars

\* What the council decides takes effect, unless it decides otherwise first.
DecisionTakesEffect ==
    \A v \in Variables :
        nextCmixVariables = v
            ~> cmixVariables = v \/ nextCmixVariables \in Variables \ {v}
=============================================================================

------------------------------ MODULE Cmix_proofs ------------------------------
(***************************************************************************)
(* Proofs about the cmix pallet, for every value of the constants.         *)
(***************************************************************************)
EXTENDS Cmix, TLAPS

\* Rewarded points are points.
LEMMA PointsType ==
    ASSUME NEW p \in Nat, NEW x \in Nat
    PROVE  Rewarded(p, x) \in Nat
BY DEF Rewarded

LEMMA CmixTypeStep == CmixTypeOK /\ [CmixNext]_cmixVars => CmixTypeOK'
<1> SUFFICES ASSUME CmixTypeOK, [CmixNext]_cmixVars
             PROVE  CmixTypeOK'
  OBVIOUS
<1> USE CmixAssumption DEF variablesVars, stakingVars
<1>1. ASSUME NEW h \in Hashes, SetCmixHashes(h) PROVE CmixTypeOK'
  BY <1>1 DEF SetCmixHashes, CmixTypeOK
<1>2. ASSUME NEW s \in Servers, SetSchedulingAccount(s) PROVE CmixTypeOK'
  BY <1>2 DEF SetSchedulingAccount, CmixTypeOK
<1>3. ASSUME NEW block \in 0..MaxBlock, SetAdminPermission(block) PROVE CmixTypeOK'
  BY <1>3 DEF SetAdminPermission, CmixTypeOK
<1>4. ASSUME NEW v \in Variables, SetNextCmixVariables(v) PROVE CmixTypeOK'
  BY <1>4 DEF SetNextCmixVariables, CmixTypeOK
<1>5. ASSUME NEW s \in Servers, NEW size \in AddressSpaces, SetCmixAddressSpace(s, size)
      PROVE  CmixTypeOK'
  BY <1>5 DEF SetCmixAddressSpace, CmixTypeOK
<1>6. ASSUME NEW s \in Servers, NEW v \in Validators, NEW x \in Submissions,
             SubmitCmixPoints(s, v, x)
      PROVE  CmixTypeOK'
  <2>1. Rewarded(points[v], x) \in 0..MaxPoints
    BY <1>6, PointsType DEF SubmitCmixPoints, CmixTypeOK
  <2>2. points' \in [Validators -> 0..MaxPoints]
    BY <1>6, <2>1 DEF SubmitCmixPoints, CmixTypeOK
  <2>3. QED
    BY <1>6, <2>2 DEF SubmitCmixPoints, CmixTypeOK
<1>7. ASSUME NEW s \in Servers, NEW v \in Validators, NEW x \in Submissions,
             SubmitCmixDeductions(s, v, x)
      PROVE  CmixTypeOK'
  <2>1. points[v] \in 1..MaxPoints /\ x \in Nat
    BY <1>7 DEF SubmitCmixDeductions, CmixTypeOK
  <2>2. Deducted(points[v], x) \in 0..MaxPoints
    <3>1. \A p \in 1..MaxPoints : Deducted(p, x) \in 0..MaxPoints
      BY <2>1, CmixAssumption DEF Deducted
    <3>2. QED
      BY <2>1, <3>1
  <2>3. points' \in [Validators -> 0..MaxPoints]
    BY <1>7, <2>2 DEF SubmitCmixDeductions, CmixTypeOK
  <2>4. QED
    BY <1>7, <2>3 DEF SubmitCmixDeductions, CmixTypeOK
<1>8. ASSUME NEW v \in Validators, AuthorBlock(v) PROVE CmixTypeOK'
  <2>1. BlockPrice \in Nat
    BY DEF BlockPrice, CmixTypeOK
  <2>2. Rewarded(points[v], BlockPrice) \in 0..MaxPoints
    BY <1>8, <2>1, PointsType DEF AuthorBlock, CmixTypeOK
  <2>3. points' \in [Validators -> 0..MaxPoints] /\ prices' \subseteq Nat
    BY <1>8, <2>1, <2>2 DEF AuthorBlock, CmixTypeOK
  <2>4. QED
    BY <1>8, <2>3 DEF AuthorBlock, CmixTypeOK
<1>9. ASSUME EndEra PROVE CmixTypeOK'
  BY <1>9 DEF EndEra, CmixTypeOK
<1>10. ASSUME UNCHANGED cmixVars PROVE CmixTypeOK'
  BY <1>10 DEF cmixVars, CmixTypeOK
<1>11. QED
  BY <1>1, <1>2, <1>3, <1>4, <1>5, <1>6, <1>7, <1>8, <1>9, <1>10 DEF CmixNext

\* Every storage item keeps its type: above all no deduction takes the points of
\* a validator below what staking can hold (deduct_cmix_points).
THEOREM CmixTypeCorrect == CmixSpec => []CmixTypeOK
<1>1. CmixInit => CmixTypeOK
  BY CmixAssumption DEF CmixInit, CmixTypeOK
<1>2. QED
  BY <1>1, CmixTypeStep, PTL DEF CmixSpec

-----------------------------------------------------------------------------
\* All blocks of an era are rewarded by the same variables, for any variables
\* and however often the council decides (set_next_cmix_variables, end_era).
THEOREM OnePrice == CmixSpec => []OnePricePerEra
<1>1. CmixInit => OnePricePerEra
  BY DEF CmixInit, OnePricePerEra
<1>2. OnePricePerEra /\ [CmixNext]_cmixVars => OnePricePerEra'
  <2> SUFFICES ASSUME OnePricePerEra, [CmixNext]_cmixVars
               PROVE  OnePricePerEra'
    OBVIOUS
  <2> USE DEF variablesVars, stakingVars, OnePricePerEra, BlockPrice
  <2>1. ASSUME UNCHANGED <<prices, cmixVariables>> PROVE OnePricePerEra'
    BY <2>1
  <2>2. ASSUME NEW v \in Validators, AuthorBlock(v) PROVE OnePricePerEra'
    BY <2>2 DEF AuthorBlock
  <2>3. ASSUME EndEra PROVE OnePricePerEra'
    BY <2>3 DEF EndEra
  <2>4. QED
    BY <2>1, <2>2, <2>3
       DEF CmixNext, cmixVars, SetCmixHashes, SetSchedulingAccount, SetAdminPermission,
           SetNextCmixVariables, SetCmixAddressSpace, SubmitCmixPoints,
           SubmitCmixDeductions
<1>3. QED
  BY <1>1, <1>2, PTL DEF CmixSpec

\* After the last block that democracy permitted no call changes the hashes
\* (ensure_admin_allowed_cmix_hashes).
THEOREM HashesStay == CmixSpec => HashesFrozen
<1>1. CmixTypeOK /\ [CmixNext]_cmixVars
          => [now > adminPermission => cmixHashes' = cmixHashes]_cmixVars
  <2> SUFFICES ASSUME CmixTypeOK, CmixNext, now > adminPermission
               PROVE  cmixHashes' = cmixHashes
    OBVIOUS
  <2>1. ASSUME NEW h \in Hashes, SetCmixHashes(h) PROVE FALSE
    BY <2>1, CmixAssumption DEF SetCmixHashes, CmixTypeOK
  <2>2. QED
    BY <2>1 DEF CmixNext, SetSchedulingAccount, SetAdminPermission,
                SetNextCmixVariables, SetCmixAddressSpace, SubmitCmixPoints,
                SubmitCmixDeductions, AuthorBlock, EndEra
<1>2. QED
  BY <1>1, CmixTypeCorrect, PTL DEF CmixSpec, HashesFrozen
=============================================================================

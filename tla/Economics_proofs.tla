--------------------------- MODULE Economics_proofs ---------------------------
(***************************************************************************)
(* Proofs about the economics pallet, for every value of the constants.    *)
(***************************************************************************)
EXTENDS Economy, VestedCoins_proofs, FunctionTheorems, SequenceTheorems

(* Arithmetic. *)

\* A quotient is a whole number, and not above c if the dividend is below the
\* next multiple.
LEMMA Quotient ==
    ASSUME NEW a \in Nat, NEW b \in Nat \ {0}, NEW c \in Nat, a < b * c + b
    PROVE  a \div b \in 0..c
<1> DEFINE q == a \div b
<1>1. q \in Nat /\ b * q <= a
  OBVIOUS
<1>2. ASSUME q > c PROVE FALSE
  <2> DEFINE d == q - c - 1
  <2>1. d \in Nat /\ q = c + 1 + d
    BY <1>1, <1>2
  <2>2. b * q = b * c + b + b * d /\ b * c \in Nat /\ b * d \in Nat
    BY <2>1
  <2>3. QED
    BY <1>1, <2>2
<1>3. QED
  BY <1>1, <1>2

\* A ratio is a Perbill, whatever the denominator.
LEMMA RatioTyped ==
    ASSUME NEW p \in Nat, NEW q \in Int
    PROVE  FromRational(p, q) \in Perbill
<1>1. CASE p >= q
  BY <1>1, PerbillAssumption DEF FromRational, Perbill
<1>2. CASE p < q
  <2> DEFINE r == q - p
  <2>1. r \in Nat \ {0} /\ q = p + r /\ q \in Nat \ {0}
    BY <1>2
  <2>2. p * Accuracy \in Nat /\ r * Accuracy \in Nat
    BY <2>1, PerbillAssumption
  <2>3. q * Accuracy = p * Accuracy + r * Accuracy
    BY <2>1, PerbillAssumption
  <2>4. (p * Accuracy) \div q \in 0..Accuracy
    BY <2>1, <2>2, <2>3, Quotient, PerbillAssumption
  <2>5. QED
    BY <1>2, <2>4 DEF FromRational, Perbill
<1>3. QED
  BY <1>1, <1>2

\* A part of x is not more than x, however it is rounded.
LEMMA PartsTyped ==
    ASSUME NEW p \in Perbill, NEW x \in Nat
    PROVE  Times(p, x) \in 0..x /\ PartOf(p, x) \in 0..x
<1> DEFINE r == Accuracy - p
<1>1. p \in Nat /\ r \in Nat /\ Accuracy = p + r /\ Accuracy \in Nat \ {0}
  BY PerbillAssumption DEF Perbill
<1>2. p * x \in Nat /\ r * x \in Nat /\ Accuracy * x = p * x + r * x
  BY <1>1
<1>3. Times(p, x) \in 0..x
  BY <1>1, <1>2, Quotient DEF Times
<1>4. 2 * p * x = 2 * (p * x) /\ (2 * Accuracy) * x = 2 * (Accuracy * x)
  BY <1>1
<1>5. 2 * p * x + Accuracy - 1 \in Nat /\ 2 * Accuracy \in Nat \ {0}
  BY <1>1, <1>2, <1>4
<1>6. 2 * p * x + Accuracy - 1 < (2 * Accuracy) * x + 2 * Accuracy
  BY <1>1, <1>2, <1>4
<1>7. PartOf(p, x) \in 0..x
  BY <1>5, <1>6, Quotient DEF PartOf
<1>8. QED
  BY <1>3, <1>7

LEMMA MidpointTyped ==
    ASSUME NEW block \in Nat
    PROVE  EraMidpoint(block) \in Nat
<1>1. PartOf(FromRational(1, 2), EraDuration) \in 0..EraDuration
  BY RatioTyped, PartsTyped, CurveAssumption
<1>2. QED
  BY <1>1, CurveAssumption DEF EraMidpoint

\* The whole part and the rest of a quotient.
LEMMA Division ==
    ASSUME NEW a \in Nat, NEW b \in Nat \ {0}
    PROVE  /\ a \div b \in Nat
           /\ b * (a \div b) <= a
           /\ a < b * (a \div b) + b
OBVIOUS

\* A block that is not the first one is not shifted to the first one: half an era
\* is less than an era.
LEMMA MidpointBetween ==
    ASSUME NEW block \in Nat
    PROVE  /\ EraMidpoint(block) \in 0..block
           /\ block # 0 => EraMidpoint(block) # 0
<1> DEFINE half == FromRational(1, 2)
           blocks == PartOf(half, EraDuration)
<1>1. half \in Nat /\ 2 * half <= Accuracy /\ half \in Perbill
  <2>1. half = (1 * Accuracy) \div 2
    BY DEF FromRational
  <2>2. half \in Nat /\ 2 * half <= 1 * Accuracy
    BY <2>1, Division, PerbillAssumption
  <2>3. half \in Perbill
    BY RatioTyped
  <2>4. 1 * Accuracy = Accuracy
    BY PerbillAssumption
  <2> HIDE DEF half
  <2>5. QED
    BY <2>2, <2>3, <2>4
<1>2. blocks \in 0..EraDuration
  BY <1>1, PartsTyped, CurveAssumption
<1>3. blocks # EraDuration
  <2>1. SUFFICES ASSUME blocks = EraDuration PROVE FALSE
    OBVIOUS
  <2> DEFINE rest == Accuracy - 2 * half
             whole == 2 * half * EraDuration + Accuracy - 1
  <2>2. rest \in Nat /\ Accuracy = 2 * half + rest
    BY <1>1, PerbillAssumption
  <2> HIDE DEF rest, half
  <2>3. Accuracy * EraDuration = 2 * half * EraDuration + rest * EraDuration
        /\ rest * EraDuration \in Nat /\ 2 * half * EraDuration \in Nat
    <3>1. /\ (2 * half + rest) * EraDuration = 2 * half * EraDuration + rest * EraDuration
          /\ rest * EraDuration \in Nat /\ 2 * half * EraDuration \in Nat
      BY <1>1, <2>2, CurveAssumption, PerbillAssumption
    <3>2. QED
      BY <2>2, <3>1
  <2>4. Accuracy * EraDuration \in Nat /\ Accuracy * EraDuration >= Accuracy
    <3>1. Accuracy * EraDuration = Accuracy + Accuracy * (EraDuration - 1)
          /\ Accuracy * (EraDuration - 1) \in Nat
      BY CurveAssumption, PerbillAssumption
    <3>2. QED
      BY <3>1, PerbillAssumption
  <2>5. whole \in Nat /\ 2 * Accuracy \in Nat \ {0}
    BY <2>3, PerbillAssumption
  <2>6. (2 * Accuracy) * (whole \div (2 * Accuracy)) <= whole
    BY <2>5, Division
  <2>7. whole \div (2 * Accuracy) = EraDuration
    BY <2>1 DEF PartOf
  <2>8. (2 * Accuracy) * EraDuration = 2 * (Accuracy * EraDuration)
    BY CurveAssumption, PerbillAssumption
  <2>9. 2 * (Accuracy * EraDuration) <= whole
    BY <2>6, <2>7, <2>8
  <2>10. QED
    BY <2>3, <2>4, <2>9, PerbillAssumption
<1>4. QED
  BY <1>2, <1>3, CurveAssumption DEF EraMidpoint

\* A common factor does not change an order.
LEMMA Cancelled ==
    ASSUME NEW c \in Nat \ {0}, NEW a \in Nat, NEW b \in Nat
    PROVE  /\ c * a <= c * b => a <= b
           /\ c * a < c * b => a < b
<1>1. ASSUME b <= a PROVE c * b <= c * a
  <2> DEFINE d == a - b
  <2>1. d \in Nat /\ a = b + d
    BY <1>1
  <2>2. c * (b + d) = c * b + c * d /\ c * d \in Nat /\ c * b \in Nat
    BY <2>1
  <2>3. QED
    BY <2>1, <2>2
<1>2. ASSUME b < a PROVE c * b < c * a
  <2> DEFINE d == a - b - 1
  <2>1. d \in Nat /\ a = b + 1 + d
    BY <1>2
  <2>2. c * (b + 1 + d) = c * b + c + c * d /\ c * d \in Nat /\ c * b \in Nat
    BY <2>1
  <2>3. QED
    BY <2>1, <2>2
<1>3. c * a \in Nat /\ c * b \in Nat
  OBVIOUS
<1>4. QED
  BY <1>1, <1>2, <1>3

-----------------------------------------------------------------------------
(* The curve. *)

\* What the two roundings of a slope lose: of a difference of x, after m of n
\* blocks, less than two.
LEMMA SlopeRounded ==
    ASSUME NEW m \in Nat, NEW n \in Nat \ {0}, NEW x \in Perbill, m <= n
    PROVE  LET part == Times(FromRational(m, n), x)
           IN  /\ part \in 0..x
               /\ part * n <= x * m
               /\ x * m < part * n + 2 * n
<1> DEFINE ratio == FromRational(m, n)
           part == Times(ratio, x)
<1>1. x \in Nat /\ x <= Accuracy /\ Accuracy \in Nat \ {0} /\ ratio \in Perbill /\ ratio \in Nat
  BY RatioTyped, PerbillAssumption DEF Perbill
<1>2. part \in 0..x
  BY <1>1, PartsTyped
<1>3. CASE m = n
  <2>1. ratio = Accuracy
    BY <1>3 DEF FromRational
  <2>2. part = x
    <3>1. Accuracy * part <= Accuracy * x /\ Accuracy * x < Accuracy * part + Accuracy
      BY <1>1, <2>1, Division DEF Times
    <3>2. ASSUME part # x PROVE FALSE
      <4> DEFINE d == x - part - 1
      <4> HIDE DEF part
      <4>1. d \in Nat /\ x = part + 1 + d
        BY <1>1, <1>2, <3>2
      <4>2. Accuracy * x = Accuracy * part + Accuracy + Accuracy * d /\ Accuracy * d \in Nat
            /\ Accuracy * part \in Nat
        BY <1>1, <1>2, <4>1
      <4>3. QED
        BY <1>1, <3>1, <4>2
    <3>3. QED
      BY <3>2
  <2>3. QED
    BY <1>1, <1>2, <1>3, <2>2
<1>4. CASE m < n
  <2>1. m * Accuracy \in Nat /\ ratio * x \in Nat
    BY <1>1
  <2>2. ratio = (m * Accuracy) \div n
    BY <1>4 DEF FromRational
  <2>3. n * ratio <= m * Accuracy /\ m * Accuracy < n * ratio + n
    BY <2>1, <2>2, Division
  <2>4. Accuracy * part <= ratio * x /\ ratio * x < Accuracy * part + Accuracy
    BY <1>1, <2>1, Division DEF Times
  <2> HIDE DEF part, ratio
  <2>5. part * n \in Nat /\ x * m \in Nat /\ part \in Nat
    BY <1>1, <1>2
  <2>6. part * n <= x * m
    <3>1. Accuracy * (part * n) <= Accuracy * (x * m)
      <4>1. (Accuracy * part) * n <= (ratio * x) * n
        <5> DEFINE u == ratio * x - Accuracy * part
        <5>1. u \in Nat /\ ratio * x = Accuracy * part + u
          BY <1>1, <2>1, <2>4, <2>5
        <5>2. (Accuracy * part + u) * n = (Accuracy * part) * n + u * n
              /\ u * n \in Nat /\ (Accuracy * part) * n \in Nat
          BY <1>1, <2>5, <5>1
        <5>3. QED
          BY <5>1, <5>2
      <4>2. (n * ratio) * x <= (m * Accuracy) * x
        <5> DEFINE u == m * Accuracy - n * ratio
        <5>1. u \in Nat /\ m * Accuracy = n * ratio + u
          BY <1>1, <2>1, <2>3
        <5>2. (n * ratio + u) * x = (n * ratio) * x + u * x
              /\ u * x \in Nat /\ (n * ratio) * x \in Nat
          BY <1>1, <5>1
        <5>3. QED
          BY <5>1, <5>2
      <4>3. /\ (Accuracy * part) * n = Accuracy * (part * n)
            /\ (ratio * x) * n = (n * ratio) * x
            /\ (m * Accuracy) * x = Accuracy * (x * m)
        BY <1>1, <2>5
      <4>4. (n * ratio) * x \in Nat /\ Accuracy * (part * n) \in Nat
            /\ Accuracy * (x * m) \in Nat
        BY <1>1, <2>5
      <4>5. QED
        BY <4>1, <4>2, <4>3, <4>4
    <3>2. QED
      BY <1>1, <2>5, <3>1, Cancelled
  <2>7. x * m < part * n + 2 * n
    <3>1. (m * Accuracy) * x <= (n * ratio) * x + n * x
      <4> DEFINE u == n * ratio + n - m * Accuracy
      <4>1. u \in Nat /\ n * ratio + n = m * Accuracy + u
        BY <1>1, <2>1, <2>3
      <4>2. /\ (n * ratio + n) * x = (n * ratio) * x + n * x
            /\ (m * Accuracy + u) * x = (m * Accuracy) * x + u * x
            /\ u * x \in Nat /\ (m * Accuracy) * x \in Nat
        BY <1>1, <2>1, <4>1
      <4>3. QED
        BY <4>1, <4>2
    <3>2. (ratio * x) * n < (Accuracy * part) * n + Accuracy * n
      <4> DEFINE u == Accuracy * part + Accuracy - ratio * x - 1
      <4>1. u \in Nat /\ Accuracy * part + Accuracy = ratio * x + u + 1
        BY <1>1, <2>1, <2>4, <2>5
      <4>2. /\ (Accuracy * part + Accuracy) * n = (Accuracy * part) * n + Accuracy * n
            /\ (ratio * x + u + 1) * n = (ratio * x) * n + u * n + n
            /\ u * n \in Nat /\ (ratio * x) * n \in Nat
        BY <1>1, <2>1, <2>5, <4>1
      <4>3. QED
        BY <4>1, <4>2
    <3>3. n * x <= Accuracy * n
      <4> DEFINE u == Accuracy - x
      <4>1. u \in Nat /\ Accuracy = x + u
        BY <1>1
      <4>2. (x + u) * n = n * x + u * n /\ u * n \in Nat /\ n * x \in Nat
        BY <1>1, <4>1
      <4>3. QED
        BY <4>1, <4>2
    <3>4. /\ (m * Accuracy) * x = Accuracy * (x * m)
          /\ (n * ratio) * x = (ratio * x) * n
          /\ (Accuracy * part) * n + Accuracy * n + Accuracy * n = Accuracy * (part * n + 2 * n)
      BY <1>1, <2>5
    <3>5. /\ Accuracy * (x * m) \in Nat /\ (ratio * x) * n \in Nat /\ n * x \in Nat
          /\ (Accuracy * part) * n \in Nat /\ Accuracy * n \in Nat
      BY <1>1, <2>5
    <3>6. Accuracy * (x * m) < Accuracy * (part * n + 2 * n)
      BY <3>1, <3>2, <3>3, <3>4, <3>5
    <3>7. part * n + 2 * n \in Nat
      BY <2>5
    <3>8. QED
      BY <1>1, <2>5, <3>6, <3>7, Cancelled
  <2>8. QED
    BY <1>2, <2>6, <2>7 DEF part, ratio
<1>5. QED
  BY <1>3, <1>4

\* The interest between two points is between their interests: the ratio never
\* exceeds the whole, and what is subtracted never underflows.
LEMMA InterpolatedBetween ==
    ASSUME NEW block \in Nat, NEW s \in Points, NEW e \in Points
    PROVE  \/ Interpolated(block, s, e) \in s.interest..e.interest
           \/ Interpolated(block, s, e) \in e.interest..s.interest
<1> DEFINE ratio == FromRational(EraMidpoint(block), e.block - s.block)
<1>1. s.interest \in Nat /\ e.interest \in Nat /\ e.block - s.block \in Int
  BY PerbillAssumption DEF Points, Perbill
<1>2. ratio \in Perbill
  BY <1>1, MidpointTyped, RatioTyped
<1>3. CASE s.interest >= e.interest
  <2>1. Times(ratio, s.interest - e.interest) \in 0..(s.interest - e.interest)
    BY <1>1, <1>2, <1>3, PartsTyped
  <2>2. QED
    BY <1>1, <1>3, <2>1 DEF Interpolated
<1>4. CASE s.interest < e.interest
  <2>1. Times(ratio, e.interest - s.interest) \in 0..(e.interest - s.interest)
    BY <1>1, <1>2, <1>4, PartsTyped
  <2>2. QED
    BY <1>1, <1>4, <2>1 DEF Interpolated
<1>5. QED
  BY <1>1, <1>3, <1>4

\* The interest at any block is between those of two points of the list.
LEMMA InterestBetween ==
    ASSUME NEW list \in Seq(Points) \ {<<>>}, NEW block \in Nat
    PROVE  /\ IdealInterest(list, block) \in Perbill
           /\ \E i, j \in DOMAIN list :
                 /\ list[i].interest <= IdealInterest(list, block)
                 /\ IdealInterest(list, block) <= list[j].interest
<1> DEFINE reached == {i \in DOMAIN list : list[i].block >= block}
           first == CHOOSE i \in reached : \A j \in reached : i <= j
<1>1. /\ DOMAIN list = 1..Len(list) /\ Len(list) \in Nat \ {0}
      /\ \A i \in DOMAIN list : list[i] \in Points
      /\ \A i \in DOMAIN list : list[i].interest \in 0..Accuracy
  <2>1. DOMAIN list = 1..Len(list) /\ Len(list) \in Nat \ {0}
    BY EmptySeq, LenProperties
  <2>2. \A i \in DOMAIN list : list[i] \in Points
    BY <2>1, ElementOfSeq
  <2>3. QED
    BY <2>1, <2>2, PerbillAssumption DEF Points, Perbill
<1>2. CASE reached = {}
  <2>1. IdealInterest(list, block) = list[Len(list)].interest
    BY <1>2 DEF IdealInterest
  <2>2. QED
    BY <1>1, <2>1, PerbillAssumption DEF Perbill
<1>3. CASE reached # {}
  <2>1. first \in reached
    <3>2. reached \in SUBSET Nat
      BY <1>1
    <3>3. \E m \in reached : \A k \in reached : m <= k
      BY <3>2, <1>3, LeastElement
    <3>4. QED
      BY <3>3
  <2>2. CASE first = 1
    <3>1. IdealInterest(list, block) = list[1].interest
      BY <1>3, <2>2 DEF IdealInterest
    <3>2. QED
      BY <1>1, <3>1, PerbillAssumption DEF Perbill
  <2>3. CASE first # 1
    <3>1. first \in DOMAIN list /\ first - 1 \in DOMAIN list
      BY <1>1, <2>1, <2>3
    <3>2. IdealInterest(list, block) = Interpolated(block, list[first - 1], list[first])
      BY <1>3, <2>3 DEF IdealInterest
    <3>3. \/ IdealInterest(list, block) \in list[first - 1].interest..list[first].interest
          \/ IdealInterest(list, block) \in list[first].interest..list[first - 1].interest
      BY <1>1, <3>1, <3>2, InterpolatedBetween
    <3>4. QED
      BY <1>1, <3>1, <3>3, PerbillAssumption DEF Perbill
  <2>4. QED
    BY <2>2, <2>3
<1>4. QED
  BY <1>2, <1>3

\* Quotients, ratios and parts grow with what is divided.
LEMMA QuotientGrows ==
    ASSUME NEW a \in Nat, NEW b \in Nat, a <= b, NEW c \in Nat \ {0}
    PROVE  a \div c <= b \div c
<1> DEFINE q == a \div c
           r == b \div c
<1>1. q \in Nat /\ r \in Nat /\ c * q <= a /\ b < c * r + c
  BY Division
<1> HIDE DEF q, r
<1>2. ASSUME q > r PROVE FALSE
  <2> DEFINE d == q - r - 1
  <2>1. d \in Nat /\ q = r + 1 + d
    BY <1>1, <1>2
  <2>2. c * q = c * r + c + c * d /\ c * r \in Nat /\ c * d \in Nat
    BY <1>1, <2>1
  <2>3. QED
    BY <1>1, <2>2
<1>3. q <= r
  BY <1>1, <1>2
<1>4. QED
  BY <1>3 DEF q, r

LEMMA RatioGrows ==
    ASSUME NEW a \in Nat, NEW b \in Nat, a <= b, NEW c \in Nat \ {0}
    PROVE  FromRational(a, c) <= FromRational(b, c)
<1>1. Accuracy \in Nat \ {0}
  BY PerbillAssumption
<1>2. CASE b >= c
  <2>1. FromRational(b, c) = Accuracy
    BY <1>2 DEF FromRational
  <2>2. FromRational(a, c) \in 0..Accuracy
    BY RatioTyped DEF Perbill
  <2>3. QED
    BY <1>1, <2>1, <2>2
<1>3. CASE b < c
  <2> DEFINE d == b - a
  <2>1. d \in Nat /\ b = a + d
    OBVIOUS
  <2>2. a * Accuracy \in Nat /\ d * Accuracy \in Nat /\ b * Accuracy = a * Accuracy + d * Accuracy
    BY <1>1, <2>1
  <2>3. (a * Accuracy) \div c <= (b * Accuracy) \div c
    BY <2>2, QuotientGrows
  <2>4. QED
    BY <1>3, <2>3 DEF FromRational
<1>4. QED
  BY <1>2, <1>3

LEMMA PartGrows ==
    ASSUME NEW p \in Perbill, NEW r \in Perbill, p <= r, NEW x \in Nat
    PROVE  Times(p, x) <= Times(r, x)
<1> DEFINE d == r - p
<1>1. p \in Nat /\ r \in Nat /\ d \in Nat /\ r = p + d /\ Accuracy \in Nat \ {0}
  BY PerbillAssumption DEF Perbill
<1>2. p * x \in Nat /\ d * x \in Nat /\ r * x = p * x + d * x
  BY <1>1
<1>3. QED
  BY <1>1, <1>2, QuotientGrows DEF Times

\* Half an era is not more than half of its blocks.
LEMMA HalfEra ==
    LET half == PartOf(FromRational(1, 2), EraDuration)
    IN  half \in Nat /\ 2 * half <= EraDuration
<1> DEFINE r == FromRational(1, 2)
           a == 2 * r * EraDuration + Accuracy - 1
           half == PartOf(r, EraDuration)
           b == 2 * Accuracy
<1>1. Accuracy \in Nat \ {0} /\ EraDuration \in Nat \ {0} /\ b \in Nat \ {0}
  BY CurveAssumption, PerbillAssumption
<1>2. r = Accuracy \div 2
  BY <1>1 DEF FromRational
<1>3. r \in Nat /\ 2 * r <= Accuracy
  BY <1>1, <1>2, Division
<1> HIDE DEF r
<1>4. 2 * r * EraDuration <= Accuracy * EraDuration
  <2> DEFINE d == Accuracy - 2 * r
  <2>1. d \in Nat /\ Accuracy = 2 * r + d
    BY <1>1, <1>3
  <2>2. d * EraDuration \in Nat /\ Accuracy * EraDuration = 2 * r * EraDuration + d * EraDuration
    BY <1>1, <1>3, <2>1
  <2>3. 2 * r * EraDuration \in Nat
    BY <1>1, <1>3
  <2> HIDE DEF d
  <2>4. QED
    BY <2>2, <2>3
<1>5. a \in Nat /\ a < Accuracy * EraDuration + Accuracy
  <2>1. 2 * r * EraDuration \in Nat /\ Accuracy * EraDuration \in Nat
    BY <1>1, <1>3
  <2>2. QED
    BY <1>1, <1>4, <2>1
<1>6. half = a \div b
  BY DEF PartOf
<1> HIDE DEF a, half
<1>7. half \in Nat /\ b * half <= a
  BY <1>1, <1>5, <1>6, Division
<1>8. ASSUME 2 * half > EraDuration PROVE FALSE
  <2> DEFINE d == 2 * half - EraDuration - 1
  <2>1. d \in Nat /\ 2 * half = EraDuration + 1 + d
    BY <1>1, <1>7, <1>8
  <2>2. b * half = Accuracy * (2 * half)
    BY <1>1, <1>7
  <2>3. /\ Accuracy * (EraDuration + 1 + d) = Accuracy * EraDuration + Accuracy + Accuracy * d
        /\ Accuracy * d \in Nat /\ Accuracy * EraDuration \in Nat
    BY <1>1, <2>1
  <2> HIDE DEF d, b
  <2>4. b * half = Accuracy * EraDuration + Accuracy + Accuracy * d
    BY <2>1, <2>2, <2>3
  <2>5. b * half \in Nat
    BY <2>3, <2>4, <1>1
  <2>6. QED
    BY <1>1, <1>5, <1>7, <2>3, <2>4, <2>5
<1>9. half \in Nat /\ 2 * half <= EraDuration
  BY <1>1, <1>7, <1>8
<1>10. QED
  BY <1>9 DEF half, r

\* The middles of eras are in order, but for short eras in which the shift to
\* the middle sets in.
LEMMA MidpointsInOrder ==
    ASSUME NEW m \in Nat, NEW n \in Nat, m < n,
           m < EraDuration /\ EraDuration <= n => 2 * (n - m) >= EraDuration
    PROVE  EraMidpoint(m) <= EraMidpoint(n)
<1> DEFINE half == PartOf(FromRational(1, 2), EraDuration)
<1>1. half \in Nat /\ 2 * half <= EraDuration
  BY HalfEra
<1>2. /\ EraMidpoint(m) = IF m >= EraDuration THEN m - half ELSE m
      /\ EraMidpoint(n) = IF n >= EraDuration THEN n - half ELSE n
  BY DEF EraMidpoint
<1> HIDE DEF half
<1>3. QED
  BY <1>1, <1>2, CurveAssumption

\* On a slope that falls, the interest falls with the middle of the era.
LEMMA SlopeFalls ==
    ASSUME NEW m \in Nat, NEW n \in Nat, EraMidpoint(m) <= EraMidpoint(n),
           NEW s \in Points, NEW e \in Points, s.interest >= e.interest, s.block < e.block
    PROVE  Interpolated(n, s, e) <= Interpolated(m, s, e)
<1> DEFINE length == e.block - s.block
           diff == s.interest - e.interest
           p == FromRational(EraMidpoint(m), length)
           r == FromRational(EraMidpoint(n), length)
<1>1. length \in Nat \ {0} /\ diff \in Nat /\ s.interest \in Nat
  BY PerbillAssumption DEF Points, Perbill
<1>2. EraMidpoint(m) \in Nat /\ EraMidpoint(n) \in Nat
  BY MidpointTyped
<1>3. /\ Interpolated(m, s, e) = s.interest - Times(p, diff)
      /\ Interpolated(n, s, e) = s.interest - Times(r, diff)
  BY DEF Interpolated
<1> HIDE DEF length, diff
<1>4. p \in Perbill /\ r \in Perbill /\ p <= r
  BY <1>1, <1>2, RatioTyped, RatioGrows
<1> HIDE DEF p, r
<1>5. Times(p, diff) <= Times(r, diff) /\ Times(p, diff) \in Nat /\ Times(r, diff) \in Nat
  <2>1. Times(p, diff) \in 0..diff /\ Times(r, diff) \in 0..diff
    BY <1>1, <1>4, PartsTyped
  <2>2. QED
    BY <1>1, <1>4, <2>1, PartGrows
<1>6. QED
  BY <1>1, <1>3, <1>5

\* On a curve that falls, the interest at a later block is not higher if the
\* middles of the eras are in order.
LEMMA CurveFalls ==
    ASSUME NEW list \in Seq(Points) \ {<<>>},
           \A i, j \in DOMAIN list : i < j => list[i].interest >= list[j].interest,
           NEW m \in Nat, NEW n \in Nat, m < n, EraMidpoint(m) <= EraMidpoint(n)
    PROVE  IdealInterest(list, n) <= IdealInterest(list, m)
<1> DEFINE R(b) == {i \in DOMAIN list : list[i].block >= b}
           F(b) == CHOOSE i \in R(b) : \A j \in R(b) : i <= j
           I(i) == list[i].interest
<1>1. /\ DOMAIN list = 1..Len(list) /\ Len(list) \in Nat \ {0}
      /\ \A i \in DOMAIN list : list[i] \in Points
  <2>1. DOMAIN list = 1..Len(list) /\ Len(list) \in Nat \ {0}
    BY EmptySeq, LenProperties
  <2>2. QED
    BY <2>1, ElementOfSeq
<1>2. \A i \in DOMAIN list : list[i].block \in Nat /\ I(i) \in Nat
  BY <1>1, PerbillAssumption DEF Points, Perbill
<1>3. ASSUME NEW b \in Nat, R(b) # {}
      PROVE  F(b) \in R(b) /\ \A j \in R(b) : F(b) <= j
  <2>1. R(b) \in SUBSET Nat
    BY <1>1
  <2>2. \E i \in R(b) : \A j \in R(b) : i <= j
    BY <1>3, <2>1, LeastElement
  <2>3. QED
    BY <2>2
<1>4. \A b \in Nat : IdealInterest(list, b)
         = IF R(b) = {} THEN I(Len(list))
           ELSE IF F(b) = 1 THEN I(1)
           ELSE Interpolated(b, list[F(b) - 1], list[F(b)])
  BY DEF IdealInterest
<1>5. R(n) \subseteq R(m)
  BY <1>2
<1>6. IdealInterest(list, m) \in Nat /\ IdealInterest(list, n) \in Nat
  <2>1. IdealInterest(list, m) \in Perbill /\ IdealInterest(list, n) \in Perbill
    BY InterestBetween
  <2>2. QED
    BY <2>1, PerbillAssumption DEF Perbill
<1>7. CASE R(n) = {}
  <2>1. PICK i \in DOMAIN list : I(i) <= IdealInterest(list, m)
    BY InterestBetween
  <2>2. I(Len(list)) <= I(i) /\ Len(list) \in DOMAIN list
    <3> HIDE DEF I
    <3>1. Len(list) \in DOMAIN list /\ (i < Len(list) \/ i = Len(list))
      BY <1>1
    <3>2. QED
      BY <1>2, <3>1 DEF I
  <2>3. IdealInterest(list, n) = I(Len(list))
    BY <1>4, <1>7
  <2>4. QED
    BY <1>2, <1>6, <2>1, <2>2, <2>3
<1>8. CASE R(n) # {}
  <2> DEFINE k == F(n)
             j == F(m)
  <2>1. /\ k \in R(n) /\ k \in DOMAIN list /\ \A i \in R(n) : k <= i
        /\ j \in R(m) /\ j \in DOMAIN list /\ \A i \in R(m) : j <= i
    BY <1>3, <1>5, <1>8
  <2>2. /\ IdealInterest(list, n) = IF k = 1 THEN I(1) ELSE Interpolated(n, list[k - 1], list[k])
        /\ IdealInterest(list, m) = IF j = 1 THEN I(1) ELSE Interpolated(m, list[j - 1], list[j])
    BY <1>4, <1>5, <1>8
  <2>3. j <= k /\ k \in Nat \ {0} /\ j \in Nat \ {0}
    BY <1>1, <1>5, <2>1
  <2>4. k # 1 => k - 1 \in DOMAIN list /\ list[k - 1].block < list[k].block /\ I(k - 1) >= I(k)
    <3>1. ASSUME k # 1 PROVE k - 1 \in DOMAIN list /\ k - 1 \notin R(n) /\ k - 1 < k
      BY <1>1, <2>1, <2>3, <3>1
    <3>2. list[k].block >= n
      BY <2>1
    <3> HIDE DEF k
    <3>3. QED
      BY <1>2, <2>1, <3>1, <3>2
  <2>5. j # 1 => j - 1 \in DOMAIN list /\ I(j - 1) >= I(j)
    <3>1. ASSUME j # 1 PROVE j - 1 \in DOMAIN list /\ j - 1 < j
      BY <1>1, <2>1, <2>3, <3>1
    <3> HIDE DEF j
    <3>2. QED
      BY <2>1, <3>1
  <2> HIDE DEF k, j
  <2>6. CASE k = 1
    <3>1. j = 1
      BY <2>3, <2>6
    <3>2. QED
      BY <1>1, <1>2, <2>2, <2>6, <3>1
  <2>7. CASE k # 1 /\ j = k
    BY <1>1, <2>1, <2>2, <2>4, <2>7, SlopeFalls
  <2>8. CASE k # 1 /\ j # k
    <3>1. j <= k - 1 /\ k - 1 \in DOMAIN list
      BY <2>3, <2>4, <2>8
    <3>2. I(k - 1) <= I(j)
      <4>1. j < k - 1 \/ j = k - 1
        BY <2>3, <3>1
      <4>2. QED
        BY <1>2, <2>1, <3>1, <4>1
    <3>3. IdealInterest(list, n) <= I(k - 1)
      <4>1. \/ Interpolated(n, list[k - 1], list[k]) \in I(k - 1)..I(k)
            \/ Interpolated(n, list[k - 1], list[k]) \in I(k)..I(k - 1)
        BY <1>1, <2>1, <3>1, InterpolatedBetween
      <4>2. I(k - 1) >= I(k) /\ I(k) \in Nat /\ I(k - 1) \in Nat
        BY <1>2, <2>1, <2>4, <2>8, <3>1
      <4>3. IdealInterest(list, n) = Interpolated(n, list[k - 1], list[k])
        BY <2>2, <2>8
      <4> HIDE DEF I
      <4>4. QED
        BY <4>1, <4>2, <4>3
    <3>4. I(j) <= IdealInterest(list, m)
      <4>1. CASE j = 1
        BY <1>2, <2>1, <2>2, <4>1
      <4>2. CASE j # 1
        <5>1. \/ Interpolated(m, list[j - 1], list[j]) \in I(j - 1)..I(j)
              \/ Interpolated(m, list[j - 1], list[j]) \in I(j)..I(j - 1)
          BY <1>1, <2>1, <2>5, <4>2, InterpolatedBetween
        <5>2. I(j - 1) >= I(j) /\ I(j) \in Nat /\ I(j - 1) \in Nat
          BY <1>2, <2>1, <2>5, <4>2
        <5>3. IdealInterest(list, m) = Interpolated(m, list[j - 1], list[j])
          BY <2>2, <4>2
        <5> HIDE DEF I
        <5>4. QED
          BY <5>1, <5>2, <5>3
      <4>3. QED
        BY <4>1, <4>2
    <3>5. I(j) \in Nat /\ I(k - 1) \in Nat
      BY <1>2, <2>1, <3>1
    <3> HIDE DEF I
    <3>6. QED
      BY <1>6, <3>2, <3>3, <3>4, <3>5
  <2>9. QED
    BY <2>6, <2>7, <2>8
<1>9. QED
  BY <1>7, <1>8

\* The first point of several that are reached, and the last point before it.
LEMMA PointsAround ==
    ASSUME NEW list \in Seq(Points), NEW block \in Nat,
           \A i, j \in DOMAIN list : i < j => list[i].block <= list[j].block,
           \A p, q \in Range(list) : p.block = q.block => p = q,
           NEW first \in DOMAIN list, list[first].block >= block,
           \A j \in DOMAIN list : list[j].block >= block => first <= j
    PROVE  LET before == {p \in Range(list) : p.block < block}
           IN  /\ Earliest(Range(list) \ before) = list[first]
               /\ first = 1 => before = {}
               /\ first # 1 => /\ list[first - 1] \in before
                               /\ Latest(before) = list[first - 1]
<1> DEFINE P == Range(list)
           before == {p \in P : p.block < block}
<1>1. /\ DOMAIN list = 1..Len(list) /\ Len(list) \in Nat
      /\ \A i \in DOMAIN list : list[i] \in Points /\ list[i].block \in Nat
      /\ P = {list[i] : i \in DOMAIN list}
  <2>1. DOMAIN list = 1..Len(list) /\ Len(list) \in Nat
    BY LenProperties
  <2>2. \A i \in DOMAIN list : list[i] \in Points
    BY <2>1, ElementOfSeq
  <2>3. P = {list[i] : i \in DOMAIN list}
    BY Zenon DEF Range
  <2>4. QED
    BY <2>1, <2>2, <2>3 DEF Points
<1>2. \A j \in DOMAIN list : j < first => list[j] \in before
  BY <1>1
<1>3. \A j \in DOMAIN list : j >= first => list[j].block >= list[first].block /\ list[j] \in P \ before
  BY <1>1
<1>4. Earliest(P \ before) = list[first]
  <2>1. list[first] \in P \ before
    BY <1>1, <1>3
  <2>2. \A p \in P \ before : list[first].block <= p.block
    <3>1. SUFFICES ASSUME NEW j \in DOMAIN list, list[j] \notin before
                   PROVE  list[first].block <= list[j].block
      BY <1>1
    <3>2. ~ (j < first) /\ j \in Int /\ first \in Int
      BY <1>1, <1>2, <3>1
    <3>3. QED
      BY <1>3, <3>2
  <2>3. \A p \in P \ before : (\A q \in P \ before : p.block <= q.block) <=> p = list[first]
    <3>1. ASSUME NEW p \in P \ before, \A q \in P \ before : p.block <= q.block
          PROVE  p = list[first]
      <4>1. p.block <= list[first].block /\ list[first].block <= p.block /\ p.block \in Nat
        BY <1>1, <2>1, <2>2, <3>1
      <4>2. p.block = list[first].block
        BY <1>1, <4>1
      <4>3. QED
        BY <2>1, <4>2
    <3>2. QED
      BY <2>2, <3>1
  <2>4. QED
    BY <2>1, <2>2, <2>3 DEF Earliest
<1>5. first = 1 => before = {}
  BY <1>1, <1>3
<1>6. ASSUME first # 1
      PROVE  list[first - 1] \in before /\ Latest(before) = list[first - 1]
  <2>1. first - 1 \in DOMAIN list /\ first - 1 < first
    BY <1>1, <1>6
  <2>2. list[first - 1] \in before
    BY <1>2, <2>1
  <2>3. \A q \in before : q.block <= list[first - 1].block
    <3>1. SUFFICES ASSUME NEW j \in DOMAIN list, list[j] \in before
                   PROVE  list[j].block <= list[first - 1].block
      BY <1>1
    <3>2. ~ (j >= first) /\ j \in Int /\ first \in Int
      BY <1>1, <1>3, <3>1
    <3>3. CASE j < first - 1
      BY <2>1, <3>3
    <3>4. CASE j = first - 1
      BY <1>1, <2>1, <3>4
    <3>5. QED
      BY <3>2, <3>3, <3>4
  <2>4. \A p \in before : (\A q \in before : q.block <= p.block) <=> p = list[first - 1]
    <3>1. ASSUME NEW p \in before, \A q \in before : q.block <= p.block
          PROVE  p = list[first - 1]
      <4>1. p.block <= list[first - 1].block /\ list[first - 1].block <= p.block /\ p.block \in Nat
        BY <1>1, <2>2, <2>3, <3>1
      <4>2. p.block = list[first - 1].block
        BY <1>1, <2>1, <4>1
      <4>3. QED
        BY <2>2, <4>2
    <3>2. QED
      BY <2>3, <3>1
  <2>5. QED
    BY <2>2, <2>3, <2>4 DEF Latest
<1>7. QED
  BY <1>4, <1>5, <1>6

\* Between two points of a curve like that of the example, the interest is on the
\* line: the slope that starts at block 0 is measured from its start, and the
\* others are flat or one block long.
LEMMA InterpolatedOnLine ==
    ASSUME NEW s \in Points, NEW e \in Points, NEW block \in Nat,
           s.block < block, block <= e.block,
           s.block = 0 \/ e.interest = s.interest \/ e.block = s.block + 1
    PROVE  IF e.block = s.block + 1
           THEN Interpolated(block, s, e) = e.interest
           ELSE OnLine(Interpolated(block, s, e), s, e, EraMidpoint(block) - s.block)
<1> DEFINE m == EraMidpoint(block)
           n == e.block - s.block
           ratio == FromRational(m, n)
<1>1. /\ s.interest \in Perbill /\ e.interest \in Perbill /\ s.block \in Nat /\ e.block \in Nat
      /\ s.interest \in Nat /\ e.interest \in Nat /\ Accuracy \in Nat \ {0}
  BY PerbillAssumption DEF Points, Perbill
<1>2. m \in 1..block /\ n \in Nat \ {0} /\ ratio \in Perbill
  <2>1. m \in 0..block /\ m # 0
    BY <1>1, MidpointBetween
  <2>2. n \in Nat \ {0}
    BY <1>1
  <2>3. QED
    BY <2>1, <2>2, RatioTyped
<1>3. Interpolated(block, s, e) =
          IF s.interest >= e.interest
          THEN s.interest - Times(ratio, s.interest - e.interest)
          ELSE s.interest + Times(ratio, e.interest - s.interest)
  BY DEF Interpolated
<1>4. CASE e.block = s.block + 1
  <2>1. n = 1
    BY <1>1, <1>4
  <2>2. ratio = Accuracy
    <3>1. m >= 1 /\ m # 0
      BY <1>2
    <3>2. QED
      BY <2>1, <3>1 DEF FromRational
  <2>3. ASSUME NEW x \in Nat PROVE Times(Accuracy, x) = x
    <3>1. Accuracy * x \in Nat
      BY <1>1
    <3>2. /\ Times(Accuracy, x) \in Nat
          /\ Accuracy * Times(Accuracy, x) <= Accuracy * x
          /\ Accuracy * x < Accuracy * Times(Accuracy, x) + Accuracy
      BY <1>1, <3>1, Division DEF Times
    <3>3. Accuracy * Times(Accuracy, x) + Accuracy = Accuracy * (Times(Accuracy, x) + 1)
      BY <1>1, <3>2
    <3>4. Times(Accuracy, x) <= x /\ x < Times(Accuracy, x) + 1
      BY <1>1, <3>2, <3>3, Cancelled
    <3>5. QED
      BY <3>2, <3>4
  <2>4. CASE s.interest >= e.interest
    <3>1. Times(ratio, s.interest - e.interest) = s.interest - e.interest
      BY <1>1, <2>2, <2>3, <2>4
    <3> HIDE DEF ratio
    <3>2. Interpolated(block, s, e) = e.interest
      BY <1>1, <1>3, <2>4, <3>1
    <3>3. QED
      BY <1>4, <3>2
  <2>5. CASE s.interest < e.interest
    <3>1. Times(ratio, e.interest - s.interest) = e.interest - s.interest
      BY <1>1, <2>2, <2>3, <2>5
    <3> HIDE DEF ratio
    <3>2. Interpolated(block, s, e) = e.interest
      BY <1>1, <1>3, <2>5, <3>1
    <3>3. QED
      BY <1>4, <3>2
  <2>6. QED
    BY <1>1, <2>4, <2>5
<1>5. CASE e.block # s.block + 1 /\ e.interest = s.interest
  <2>1. Times(ratio, 0) = 0
    BY <1>2, PartsTyped
  <2>2. Interpolated(block, s, e) = s.interest
    BY <1>1, <1>3, <1>5, <2>1
  <2>3. (s.interest - s.interest) * n - (e.interest - s.interest) * (m - s.block) = 0
    <3>1. s.interest - s.interest = 0 /\ e.interest - s.interest = 0
      BY <1>1, <1>5
    <3>2. m - s.block \in Int /\ n \in Int
      BY <1>1, <1>2
    <3>3. 0 * n - 0 * (m - s.block) = 0
      BY <3>2
    <3>4. QED
      BY <3>1, <3>3
  <2>4. 0 < 2 * n
    BY <1>2
  <2>5. QED
    BY <1>5, <2>2, <2>3, <2>4 DEF OnLine
<1>6. CASE e.block # s.block + 1 /\ s.block = 0
  <2>1. m <= n /\ m \in Nat /\ m - s.block = m
    BY <1>1, <1>2, <1>6
  <2> HIDE DEF m, n
  <2>2. CASE s.interest >= e.interest
    <3> DEFINE x == s.interest - e.interest
               part == Times(ratio, x)
    <3>1. x \in Perbill /\ x \in Nat
      BY <1>1, <2>2 DEF Perbill
    <3>2. part \in 0..x /\ part * n <= x * m /\ x * m < part * n + 2 * n
      BY <1>2, <2>1, <3>1, SlopeRounded
    <3> HIDE DEF part
    <3>3. Interpolated(block, s, e) = s.interest - part
      BY <1>3, <2>2 DEF part
    <3> DEFINE off == (s.interest - part - s.interest) * n - (e.interest - s.interest) * m
    <3>4. s.interest - part - s.interest = -part /\ e.interest - s.interest = -x
      BY <1>1, <3>1, <3>2
    <3>5. (-part) * n - (-x) * m = x * m - part * n /\ x * m \in Nat /\ part * n \in Nat
      BY <1>2, <2>1, <3>1, <3>2
    <3>6. off = x * m - part * n
      BY <3>4, <3>5
    <3>7. off < 2 * n /\ -off < 2 * n
      BY <1>2, <3>2, <3>5, <3>6
    <3>8. QED
      BY <1>6, <2>1, <3>3, <3>7 DEF OnLine, n, m
  <2>3. CASE s.interest < e.interest
    <3> DEFINE x == e.interest - s.interest
               part == Times(ratio, x)
    <3>1. x \in Perbill /\ x \in Nat
      BY <1>1, <2>3 DEF Perbill
    <3>2. part \in 0..x /\ part * n <= x * m /\ x * m < part * n + 2 * n
      BY <1>2, <2>1, <3>1, SlopeRounded
    <3> HIDE DEF part
    <3>3. Interpolated(block, s, e) = s.interest + part
      BY <1>1, <1>3, <2>3 DEF part
    <3> DEFINE off == ((s.interest + part) - s.interest) * n - x * m
    <3>4. (s.interest + part) - s.interest = part
      BY <1>1, <3>1, <3>2
    <3>5. x * m \in Nat /\ part * n \in Nat
      BY <1>2, <2>1, <3>1, <3>2
    <3>6. off = part * n - x * m
      BY <3>4
    <3>7. off < 2 * n /\ -off < 2 * n
      BY <1>2, <3>2, <3>5, <3>6
    <3>8. Interpolated(block, s, e) - s.interest = part /\ m - s.block = m
      BY <2>1, <3>3, <3>4
    <3>9. OnLine(Interpolated(block, s, e), s, e, m - s.block)
      BY <3>4, <3>7, <3>8 DEF OnLine, n
    <3>10. QED
      BY <1>6, <3>9 DEF m
  <2>4. QED
    BY <1>1, <2>2, <2>3
<1>7. QED
  BY <1>4, <1>5, <1>6

\* A sorted list follows the curve of its points.
LEMMA SortedFollows ==
    ASSUME NEW list \in Seq(Points) \ {<<>>}, NEW block \in Nat,
           \A i, j \in DOMAIN list : i < j => list[i].block <= list[j].block,
           LikeTheExample(Range(list))
    PROVE  FollowsCurve(IdealInterest(list, block), Range(list), block)
<1> DEFINE P == Range(list)
           before == {p \in P : p.block < block}
           reached == {i \in DOMAIN list : list[i].block >= block}
           first == CHOOSE i \in reached : \A j \in reached : i <= j
<1>1. /\ DOMAIN list = 1..Len(list) /\ Len(list) \in Nat \ {0}
      /\ \A i \in DOMAIN list : list[i] \in Points /\ list[i].block \in Nat
      /\ P = {list[i] : i \in DOMAIN list}
  <2>1. DOMAIN list = 1..Len(list) /\ Len(list) \in Nat \ {0}
    BY EmptySeq, LenProperties
  <2>2. \A i \in DOMAIN list : list[i] \in Points
    BY <2>1, ElementOfSeq
  <2>3. P = {list[i] : i \in DOMAIN list}
    BY Zenon DEF Range
  <2>4. QED
    BY <2>1, <2>2, <2>3 DEF Points
<1>2. \A p, q \in P : p.block = q.block => p = q
  BY DEF LikeTheExample
<1>3. CASE reached = {}
  <2> DEFINE last == list[Len(list)]
  <2>1. IdealInterest(list, block) = last.interest
    BY <1>3 DEF IdealInterest
  <2>2. before = P
    BY <1>1, <1>3
  <2>3. last \in P /\ \A q \in P : q.block <= last.block
    <3>1. \A i \in DOMAIN list : i = Len(list) \/ i < Len(list)
      BY <1>1
    <3>2. Len(list) \in DOMAIN list
      BY <1>1
    <3>3. QED
      BY <1>1, <3>1, <3>2
  <2>4. \A p \in P : (\A q \in P : q.block <= p.block) <=> p = last
    <3>1. ASSUME NEW p \in P, \A q \in P : q.block <= p.block
          PROVE  p = last
      <4>1. p.block <= last.block /\ last.block <= p.block /\ p.block \in Nat /\ last.block \in Nat
        BY <1>1, <2>3, <3>1
      <4>2. p.block = last.block
        BY <4>1
      <4>3. QED
        BY <1>2, <2>3, <4>2
    <3>2. QED
      BY <2>3, <3>1
  <2>5. Latest(P) = last
    BY <2>3, <2>4 DEF Latest
  <2>6. P \ before = {}
    BY <2>2
  <2>7. QED
    BY <2>1, <2>5, <2>6 DEF FollowsCurve
<1>4. CASE reached # {}
  <2>1. first \in reached /\ \A j \in reached : first <= j
    <3>1. reached \in SUBSET Nat
      BY <1>1
    <3>2. \E m \in reached : \A k \in reached : m <= k
      BY <1>4, <3>1, LeastElement
    <3>3. QED
      BY <3>2
  <2>2. first \in DOMAIN list /\ list[first].block >= block
        /\ \A j \in DOMAIN list : list[j].block >= block => first <= j
    BY <2>1
  <2>3. /\ first = 1 => IdealInterest(list, block) = list[1].interest
        /\ first # 1 => IdealInterest(list, block) =
                           Interpolated(block, list[first - 1], list[first])
    <3>1. CASE first = 1
      BY <1>4, <3>1 DEF IdealInterest
    <3>2. CASE first # 1
      BY <1>4, <3>2 DEF IdealInterest
    <3>3. QED
      BY <3>1, <3>2
  <2> HIDE DEF first
  <2>4. /\ Earliest(P \ before) = list[first]
        /\ first = 1 => before = {}
        /\ first # 1 => list[first - 1] \in before /\ Latest(before) = list[first - 1]
    BY <1>2, <2>2, PointsAround
  <2>5. P \ before # {}
    BY <1>1, <2>2
  <2>6. CASE first = 1
    BY <2>3, <2>4, <2>5, <2>6 DEF FollowsCurve
  <2>7. CASE first # 1
    <3> DEFINE s == list[first - 1]
               e == list[first]
    <3>1. s \in Points /\ e \in Points /\ s \in P /\ s.block < block /\ block <= e.block
          /\ s.block \in Nat
      BY <1>1, <2>2, <2>4, <2>7
    <3>2. s.block = 0 \/ e.interest = s.interest \/ e.block = s.block + 1
      <4> HIDE DEF P
      <4> DEFINE later == {q \in P : q.block > s.block}
      <4>1. later # {} /\ s.block > 0
               => Earliest(later).interest = s.interest \/ Earliest(later).block = s.block + 1
        BY <3>1 DEF LikeTheExample, P
      <4>2. later = P \ before
        <5>1. \A q \in P : q.block \in Nat
          BY <1>1
        <5>2. \A q \in before : q.block <= s.block
          <6>1. SUFFICES ASSUME NEW j \in DOMAIN list, list[j] \in before
                         PROVE  list[j].block <= s.block
            BY <1>1
          <6>2. first - 1 \in DOMAIN list /\ (j < first - 1 \/ j = first - 1 \/ first <= j)
            BY <1>1, <2>2, <2>7
          <6>3. CASE first <= j
            <7>1. list[first].block <= list[j].block
              BY <1>1, <2>2, <6>3
            <7>2. QED
              BY <1>1, <2>2, <6>1, <7>1
          <6>4. QED
            BY <1>1, <6>2, <6>3
        <5>3. QED
          BY <3>1, <5>1, <5>2
      <4>3. later # {} /\ Earliest(later) = e
        BY <2>4, <2>5, <4>2
      <4>4. QED
        BY <3>1, <4>1, <4>3
    <3>3. IF e.block = s.block + 1
          THEN Interpolated(block, s, e) = e.interest
          ELSE OnLine(Interpolated(block, s, e), s, e, EraMidpoint(block) - s.block)
      BY <3>1, <3>2, InterpolatedOnLine
    <3>4. before # {}
      BY <2>4, <2>7
    <3>5. QED
      BY <2>3, <2>4, <2>5, <2>7, <3>3, <3>4 DEF FollowsCurve
  <2>8. QED
    BY <2>6, <2>7
<1>5. QED
  BY <1>3, <1>4

\* Sorting a list of points puts each of them at one place, in the order of the
\* blocks.
LEMMA SortedPoints ==
    ASSUME NEW list \in Seq(Points)
    PROVE  /\ SortedByBlock(list) \in Seq(Points)
           /\ Len(SortedByBlock(list)) = Len(list)
           /\ \A i, j \in 1..Len(list) :
                 i < j => SortedByBlock(list)[i].block <= SortedByBlock(list)[j].block
<1> DEFINE n == Len(list)
           D == 1..n
           AtMost(j, i) == \/ list[j].block < list[i].block
                           \/ list[j].block = list[i].block /\ j <= i
           UpTo(i) == {j \in D : AtMost(j, i)}
           At(k) == CHOOSE i \in D : Position(list, i) = k
<1>1. n \in Nat /\ DOMAIN list = D /\ \A i \in D : list[i] \in Points /\ list[i].block \in Nat
  <2>1. n \in Nat /\ DOMAIN list = D /\ list \in [D -> Points]
    BY LenProperties
  <2>2. \A i \in D : list[i] \in Points
    BY <2>1
  <2>3. QED
    BY <2>1, <2>2 DEF Points
<1>2. IsFiniteSet(D) /\ Cardinality(D) = n
  <2>1. 1 \in Int /\ n \in Int /\ (IF 1 > n THEN 0 ELSE n - 1 + 1) = n
    BY <1>1
  <2>2. QED
    BY <2>1, FS_Interval
<1>3. ASSUME NEW i \in D
      PROVE  Position(list, i) = Cardinality(UpTo(i)) /\ Position(list, i) \in 1..n
  <2>1. Position(list, i) = Cardinality(UpTo(i))
    BY <1>1 DEF Position
  <2>2. IsFiniteSet(UpTo(i)) /\ Cardinality(UpTo(i)) <= n
    BY <1>2, FS_Subset
  <2>3. i \in UpTo(i)
    BY <1>1
  <2>4. Cardinality(UpTo(i)) \in Nat /\ Cardinality(UpTo(i)) # 0
    BY <2>2, <2>3, FS_CardinalityType, FS_EmptySet
  <2>5. QED
    BY <1>1, <2>1, <2>2, <2>4
<1>4. ASSUME NEW i \in D, NEW j \in D, i # j, AtMost(i, j)
      PROVE  Position(list, i) < Position(list, j)
  <2>1. UpTo(i) \subseteq UpTo(j) /\ j \in UpTo(j) /\ j \notin UpTo(i)
    BY <1>1, <1>4
  <2>2. IsFiniteSet(UpTo(j))
    BY <1>2, FS_Subset
  <2>3. Cardinality(UpTo(i)) <= Cardinality(UpTo(j)) /\ Cardinality(UpTo(i)) # Cardinality(UpTo(j))
    BY <2>1, <2>2, FS_Subset
  <2>4. QED
    BY <1>3, <2>3
<1>5. \A k \in D : \E i \in D : Position(list, i) = k
  <2> DEFINE F == [i \in D |-> Position(list, i)]
  <2>1. \A i, j \in D : i # j => Position(list, i) # Position(list, j)
    <3>1. \A i, j \in D : AtMost(i, j) \/ AtMost(j, i)
      BY <1>1
    <3>2. \A i, j \in D : i # j /\ AtMost(i, j) => Position(list, i) < Position(list, j)
      BY <1>4
    <3>3. ASSUME NEW i \in D PROVE Position(list, i) \in Nat
      <4>1. Position(list, i) \in 1..n
        BY <1>3
      <4>2. QED
        BY ONLY <1>1, <4>1
    <3> HIDE DEF AtMost
    <3>4. QED
      BY <3>1, <3>2, <3>3
  <2>2. F \in [D -> D]
    BY <1>3
  <2>3. F \in Injection(D, D)
    BY <2>1, <2>2 DEF Injection, IsInjective
  <2>4. F \in Surjection(D, D)
    BY <1>2, <2>3, FS_Injection
  <2>5. \A k \in D : \E i \in D : F[i] = k
    BY <2>4 DEF Surjection
  <2>6. QED
    BY <2>5
<1>6. \A k \in D : At(k) \in D /\ Position(list, At(k)) = k
  BY <1>5
<1>7. SortedByBlock(list) = [k \in D |-> list[At(k)]]
  BY <1>1 DEF SortedByBlock
<1>8. SortedByBlock(list) \in Seq(Points) /\ Len(SortedByBlock(list)) = n
  <2>1. \A k \in D : list[At(k)] \in Points
    BY <1>1, <1>6
  <2>2. SortedByBlock(list) \in [D -> Points]
    BY <1>7, <2>1
  <2>3. SortedByBlock(list) \in Seq(Points)
    BY <1>1, <2>2, SeqDef
  <2>4. DOMAIN SortedByBlock(list) = D /\ DOMAIN SortedByBlock(list) = 1..Len(SortedByBlock(list))
        /\ Len(SortedByBlock(list)) \in Nat
    BY <2>2, <2>3, LenProperties
  <2>5. QED
    BY <1>1, <2>3, <2>4
<1>9. ASSUME NEW i \in D, NEW j \in D, i < j
      PROVE  list[At(i)].block <= list[At(j)].block
  <2>1. At(i) \in D /\ At(j) \in D /\ Position(list, At(i)) = i /\ Position(list, At(j)) = j
    BY <1>6
  <2>2. ~ AtMost(At(j), At(i))
    BY <1>4, <1>9, <2>1
  <2>3. QED
    BY <1>1, <2>1, <2>2
<1>10. QED
  BY <1>7, <1>8, <1>9

-----------------------------------------------------------------------------
(* Coins. *)

Purses == [balance : [Accounts -> Nat], issuance : Int]

\* What a purse has been issued beyond the balances of its accounts.
Unaccounted(s) == s.issuance - SumFunction(s.balance)

LEMMA UnaccountedInt ==
    ASSUME NEW s \in Purses
    PROVE  Unaccounted(s) \in Int /\ SumFunction(s.balance) \in Int
<1>1. s.balance \in [Accounts -> Nat] /\ s.issuance \in Int
  BY DEF Purses
<1>2. DOMAIN s.balance = Accounts /\ \A a \in Accounts : s.balance[a] \in Nat
  BY <1>1
<1>3. SumFunction(s.balance) \in Nat
  BY <1>2, VestedCoinsAssumption, TotalNat
<1>4. QED
  BY <1>1, <1>3 DEF Unaccounted

\* One balance changes, and the issuance with it or not.
LEMMA UnaccountedChange ==
    ASSUME NEW s \in Purses, NEW a \in Accounts, NEW y \in Nat, NEW i \in Int,
           NEW t, t = [balance |-> [s.balance EXCEPT ![a] = y], issuance |-> i]
    PROVE  Unaccounted(t) = Unaccounted(s) + (i - s.issuance) + (s.balance[a] - y)
<1> DEFINE f == s.balance
           g == [f EXCEPT ![a] = y]
<1>1. f \in [Accounts -> Nat] /\ s.issuance \in Int
  BY DEF Purses
<1>2. /\ DOMAIN f = Accounts /\ DOMAIN g = Accounts /\ g[a] = y
      /\ \A x \in DOMAIN f : f[x] \in Int /\ g[x] \in Int /\ (x # a => g[x] = f[x])
  BY <1>1
<1>3. t.issuance = i /\ t.balance = g
  OBVIOUS
<1>4. f[a] \in Int /\ SumFunction(f) \in Int
  BY <1>2, UnaccountedInt
<1> HIDE DEF f, g
<1>5. SumFunction(g) = SumFunction(f) - f[a] + g[a]
  BY <1>2, VestedCoinsAssumption, TotalChanged
<1>6. QED
  BY <1>1, <1>2, <1>3, <1>4, <1>5 DEF Unaccounted, f

\* Taking coins leaves the other accounts alone and never raises the issuance;
\* what is left of an account that pays all it has is nothing.
LEMMA TakeForm ==
    ASSUME NEW s \in Purses, NEW a \in Accounts, NEW x \in Nat, x <= s.balance[a]
    PROVE  /\ Take(s, a, x) \in Purses
           /\ Take(s, a, x).issuance <= s.issuance
           /\ x = s.balance[a] => Take(s, a, x).balance[a] = 0
           /\ \A b \in Accounts \ {a} : Take(s, a, x).balance[b] = s.balance[b]
           /\ Unaccounted(Take(s, a, x)) = Unaccounted(s) + x
<1>1. s.balance \in [Accounts -> Nat] /\ s.balance[a] \in Nat /\ s.issuance \in Int
  BY DEF Purses
<1>2. /\ Left(s, a, x) \in Nat /\ Dust(s, a, x) \in Nat
      /\ x = s.balance[a] => Left(s, a, x) = 0
  BY <1>1, VestedCoinsAssumption DEF Left, Dust
<1>3. Take(s, a, x) = [balance |-> [s.balance EXCEPT ![a] = Left(s, a, x)],
                       issuance |-> s.issuance - Dust(s, a, x)]
  <2>1. \A l : [s EXCEPT !.balance[a] = l]
                = [balance |-> [s.balance EXCEPT ![a] = l], issuance |-> s.issuance]
    BY DEF Purses
  <2>2. \A b, i, d : [[balance |-> b, issuance |-> i] EXCEPT !.issuance = @ - d]
                      = [balance |-> b, issuance |-> i - d]
    OBVIOUS
  <2>3. Take(s, a, x) = [[s EXCEPT !.balance[a] = Left(s, a, x)]
                            EXCEPT !.issuance = @ - Dust(s, a, x)]
    BY DEF Take
  <2>4. QED
    BY ONLY <2>1, <2>2, <2>3
<1>4. Unaccounted(Take(s, a, x)) = Unaccounted(s) + x
  <2> DEFINE y == Left(s, a, x)
             i == s.issuance - Dust(s, a, x)
  <2>1. y \in Nat /\ i \in Int /\ (i - s.issuance) + (s.balance[a] - y) = x
    BY <1>1, <1>2 DEF Dust
  <2>2. Unaccounted(s) \in Int
    BY UnaccountedInt
  <2> HIDE DEF y, i
  <2>3. Unaccounted(Take(s, a, x)) = Unaccounted(s) + (i - s.issuance) + (s.balance[a] - y)
    BY <1>3, <2>1, UnaccountedChange DEF y, i
  <2>4. QED
    BY <1>1, <2>1, <2>2, <2>3
<1>5. QED
  BY <1>1, <1>2, <1>3, <1>4 DEF Purses

\* So does resolving coins, which only adds to their account.
LEMMA ResolveForm ==
    ASSUME NEW s \in Purses, NEW a \in Accounts, NEW x \in Nat
    PROVE  /\ Resolve(s, a, x) \in Purses
           /\ Resolve(s, a, x).issuance <= s.issuance
           /\ \A b \in Accounts \ {a} : Resolve(s, a, x).balance[b] = s.balance[b]
           /\ Unaccounted(Resolve(s, a, x)) = Unaccounted(s) - x
<1>1. s.balance \in [Accounts -> Nat] /\ s.balance[a] \in Nat /\ s.issuance \in Int
  BY DEF Purses
<1>2. CASE Exists(s, a, x)
  <2>1. Resolve(s, a, x) = [balance |-> [s.balance EXCEPT ![a] = s.balance[a] + x],
                            issuance |-> s.issuance]
    BY <1>1, <1>2 DEF Resolve, Purses
  <2>2. Unaccounted(Resolve(s, a, x)) = Unaccounted(s) - x
    <3>1. s.balance[a] + x \in Nat /\ Unaccounted(s) \in Int
      BY <1>1, UnaccountedInt
    <3>2. Unaccounted(Resolve(s, a, x))
             = Unaccounted(s) + (s.issuance - s.issuance) + (s.balance[a] - (s.balance[a] + x))
      BY <1>1, <2>1, <3>1, UnaccountedChange
    <3>3. QED
      BY <1>1, <3>1, <3>2
  <2>3. QED
    BY <1>1, <2>1, <2>2 DEF Purses
<1>3. CASE ~Exists(s, a, x)
  <2>1. Resolve(s, a, x) = [balance |-> s.balance, issuance |-> s.issuance - x]
    BY <1>1, <1>3 DEF Resolve, Purses
  <2>2. Unaccounted(Resolve(s, a, x)) = Unaccounted(s) - x
    BY <1>1, <2>1, UnaccountedInt DEF Unaccounted
  <2>3. QED
    BY <1>1, <2>1, <2>2 DEF Purses
<1>4. QED
  BY <1>2, <1>3

\* Coins that are issued except for what the pool pays.
LEMMA PaidByPool ==
    ASSUME NEW s \in Purses, NEW x \in Nat
    PROVE  LET fromPool == Min2(x, s.balance[RewardsPool])
               issued == [s EXCEPT !.issuance = @ + x - fromPool]
               t == IF fromPool = 0 THEN issued ELSE Take(issued, RewardsPool, fromPool)
           IN  /\ t \in Purses
               /\ t.issuance > s.issuance => t.balance[RewardsPool] = 0
               /\ Unaccounted(t) = Unaccounted(s) + x
<1> DEFINE fromPool == Min2(x, s.balance[RewardsPool])
           issued == [s EXCEPT !.issuance = @ + x - fromPool]
           t == IF fromPool = 0 THEN issued ELSE Take(issued, RewardsPool, fromPool)
<1>1. RewardsPool \in Accounts
  BY EconomicsAssumption DEF SystemAccounts
<1>2. s.balance \in [Accounts -> Nat] /\ s.balance[RewardsPool] \in Nat /\ s.issuance \in Int
  BY <1>1 DEF Purses
<1>3. /\ fromPool \in Nat /\ fromPool <= x /\ fromPool <= s.balance[RewardsPool]
      /\ fromPool < x => fromPool = s.balance[RewardsPool]
  BY <1>2 DEF Min2
<1>4. issued = [balance |-> s.balance, issuance |-> s.issuance + x - fromPool]
  BY <1>2 DEF Purses
<1>5. issued \in Purses /\ Unaccounted(issued) = Unaccounted(s) + (x - fromPool)
  <2>1. issued \in Purses
    BY <1>2, <1>3, <1>4 DEF Purses
  <2>2. Unaccounted(s) \in Int /\ SumFunction(s.balance) \in Int
    BY UnaccountedInt
  <2>3. issued.balance = s.balance /\ issued.issuance = s.issuance + x - fromPool
    BY <1>4
  <2> HIDE DEF fromPool, issued
  <2>4. Unaccounted(issued) = issued.issuance - SumFunction(issued.balance)
    BY DEF Unaccounted
  <2>5. SumFunction(issued.balance) = SumFunction(s.balance)
    BY <2>3, Zenon
  <2>6. Unaccounted(s) = s.issuance - SumFunction(s.balance)
    BY DEF Unaccounted
  <2>7. QED
    BY <1>2, <1>3, <2>1, <2>2, <2>3, <2>4, <2>5, <2>6
<1> HIDE DEF fromPool
<1> DEFINE Paid == /\ t \in Purses
                   /\ t.issuance > s.issuance => t.balance[RewardsPool] = 0
                   /\ Unaccounted(t) = Unaccounted(s) + x
<1>6. ASSUME fromPool = 0 PROVE Paid
  BY <1>2, <1>3, <1>4, <1>5, <1>6
<1>7. ASSUME fromPool # 0 PROVE Paid
  <2>1. /\ t \in Purses
        /\ t.issuance <= issued.issuance
        /\ fromPool = s.balance[RewardsPool] => t.balance[RewardsPool] = 0
        /\ Unaccounted(t) = Unaccounted(issued) + fromPool
    BY <1>1, <1>3, <1>4, <1>5, <1>7, TakeForm
  <2>2. t.issuance \in Int /\ issued.issuance = s.issuance + x - fromPool
    BY <1>4, <2>1 DEF Purses
  <2>3. Unaccounted(s) \in Int
    BY UnaccountedInt
  <2>4. Unaccounted(t) = Unaccounted(s) + x
    BY <1>3, <1>5, <2>1, <2>3
  <2>5. QED
    BY <1>2, <1>3, <2>1, <2>2, <2>4
<1>8. Paid
  BY <1>6, <1>7
<1>9. QED
  BY <1>8 DEF fromPool

LEMMA SettledForm ==
    ASSUME NEW s \in Purses, NEW x \in Nat
    PROVE  /\ Settled(s, x) \in Purses
           /\ Settled(s, x).issuance > s.issuance => Settled(s, x).balance[RewardsPool] = 0
           /\ Unaccounted(Settled(s, x)) = Unaccounted(s) + x
BY PaidByPool DEF Settled

LEMMA RemainderForm ==
    ASSUME NEW s \in Purses, NEW x \in Nat
    PROVE  /\ Remainder(s, x) \in Purses
           /\ Remainder(s, x).issuance > s.issuance
                 => Remainder(s, x).balance[RewardsPool] = 0
           /\ Unaccounted(Remainder(s, x)) = Unaccounted(s)
<1> DEFINE fromPool == Min2(x, s.balance[RewardsPool])
           issued == [s EXCEPT !.issuance = @ + x - fromPool]
           t == IF fromPool = 0 THEN issued ELSE Take(issued, RewardsPool, fromPool)
<1>1. /\ t \in Purses /\ (t.issuance > s.issuance => t.balance[RewardsPool] = 0)
      /\ Unaccounted(t) = Unaccounted(s) + x
  BY PaidByPool
<1>2. Remainder(s, x) = Resolve(t, Treasury, x)
  BY DEF Remainder
<1>3. Treasury \in Accounts /\ RewardsPool \in Accounts \ {Treasury}
  BY EconomicsAssumption DEF SystemAccounts
<1> HIDE DEF t
<1>4. /\ Resolve(t, Treasury, x) \in Purses
      /\ Resolve(t, Treasury, x).issuance <= t.issuance
      /\ Resolve(t, Treasury, x).balance[RewardsPool] = t.balance[RewardsPool]
      /\ Unaccounted(Resolve(t, Treasury, x)) = Unaccounted(t) - x
  BY <1>1, <1>3, ResolveForm
<1>5. s.issuance \in Int /\ t.issuance \in Int /\ Resolve(t, Treasury, x).issuance \in Int
  BY <1>1, <1>4 DEF Purses
<1>6. Unaccounted(s) \in Int
  BY UnaccountedInt
<1>7. QED
  BY <1>1, <1>2, <1>4, <1>5, <1>6

\* Dividing fees keeps the coins well formed and issues none.
LEMMA FeesForm ==
    ASSUME NEW s \in Purses, NEW fee \in Nat, NEW tip \in Nat,
           NEW author \in Accounts \cup {NoAuthor}
    PROVE  /\ FeesDivided(s, fee, tip, author) \in Purses
           /\ FeesDivided(s, fee, tip, author).issuance <= s.issuance
           /\ Unaccounted(FeesDivided(s, fee, tip, author)) = Unaccounted(s) - fee - tip
<1> DEFINE toTreasury == (fee * 80) \div 100
           toAuthor == fee - toTreasury + tip
           paid == Resolve(s, Treasury, toTreasury)
<1>1. toTreasury \in Nat /\ toAuthor \in Nat /\ toTreasury + toAuthor = fee + tip
  OBVIOUS
<1>2. Treasury \in Accounts
  BY EconomicsAssumption DEF SystemAccounts
<1>3. FeesDivided(s, fee, tip, author)
         = IF author = NoAuthor
           THEN [paid EXCEPT !.issuance = @ - toAuthor]
           ELSE Resolve(paid, author, toAuthor)
  BY DEF FeesDivided
<1> HIDE DEF toTreasury, toAuthor
<1>4. /\ paid \in Purses /\ paid.issuance <= s.issuance
      /\ Unaccounted(paid) = Unaccounted(s) - toTreasury
  BY <1>1, <1>2, ResolveForm
<1> HIDE DEF paid
<1>5. /\ paid.issuance \in Int /\ s.issuance \in Int
      /\ Unaccounted(s) \in Int /\ SumFunction(paid.balance) \in Int
  BY <1>4, UnaccountedInt DEF Purses
<1>6. CASE author = NoAuthor
  <2>1. [paid EXCEPT !.issuance = @ - toAuthor]
           = [balance |-> paid.balance, issuance |-> paid.issuance - toAuthor]
    BY <1>4 DEF Purses
  <2>2. paid.balance \in [Accounts -> Nat]
    BY <1>4 DEF Purses
  <2>3. Unaccounted(FeesDivided(s, fee, tip, author))
           = paid.issuance - toAuthor - SumFunction(paid.balance)
    BY <1>3, <1>6, <2>1 DEF Unaccounted
  <2>4. Unaccounted(FeesDivided(s, fee, tip, author)) = Unaccounted(s) - fee - tip
    BY <1>1, <1>4, <1>5, <2>3 DEF Unaccounted
  <2>5. QED
    BY <1>1, <1>3, <1>4, <1>5, <1>6, <2>1, <2>2, <2>4 DEF Purses
<1>7. CASE author # NoAuthor
  <2>1. /\ Resolve(paid, author, toAuthor) \in Purses
        /\ Resolve(paid, author, toAuthor).issuance <= paid.issuance
        /\ Unaccounted(Resolve(paid, author, toAuthor)) = Unaccounted(paid) - toAuthor
    BY <1>1, <1>4, <1>7, ResolveForm
  <2>2. Resolve(paid, author, toAuthor).issuance \in Int
    BY <2>1 DEF Purses
  <2>3. Unaccounted(Resolve(paid, author, toAuthor)) = Unaccounted(s) - fee - tip
    BY <1>1, <1>4, <1>5, <2>1
  <2>4. QED
    BY <1>3, <1>4, <1>5, <1>7, <2>1, <2>2, <2>3
<1>8. QED
  BY <1>6, <1>7

-----------------------------------------------------------------------------
(* The inductive invariant. *)

\* The points are kept in the order of their blocks.
PointsInOrder ==
    /\ points # <<>>
    /\ \A i, j \in DOMAIN points : i < j => points[i].block <= points[j].block

EconomicsInv ==
    /\ EconomicsTypeOK
    /\ now \in Nat
    /\ PointsInOrder
    /\ IssuanceMatches

\* What is submitted is kept sorted.
LEMMA SubmittedInOrder ==
    ASSUME NEW list \in Curves
    PROVE  /\ SortedByBlock(list) \in Seq(Points) \ {<<>>}
           /\ \A i, j \in DOMAIN SortedByBlock(list) :
                 i < j => SortedByBlock(list)[i].block <= SortedByBlock(list)[j].block
<1>1. list \in Seq(Points) /\ list # <<>>
  BY EconomicsAssumption
<1>2. Len(list) \in Nat /\ Len(list) # 0
  BY <1>1, EmptySeq, LenProperties
<1>3. /\ SortedByBlock(list) \in Seq(Points)
      /\ Len(SortedByBlock(list)) = Len(list)
      /\ \A i, j \in 1..Len(list) :
            i < j => SortedByBlock(list)[i].block <= SortedByBlock(list)[j].block
  BY <1>1, SortedPoints
<1>4. DOMAIN SortedByBlock(list) = 1..Len(list)
  BY <1>3, LenProperties
<1>5. SortedByBlock(list) # <<>>
  BY <1>2, <1>3, EmptySeq
<1>6. QED
  BY <1>3, <1>4, <1>5

\* What the end of an era grants and leaves of the liquidity rewards.
LEMMA GrantTyped ==
    ASSUME EconomicsInv, NEW block \in Nat, NEW custody \in CustodyTotals,
           NEW ratio \in StakingRatios
    PROVE  /\ EraPayout(block, custody, ratio).validators \in Nat
           /\ EraPayout(block, custody, ratio).remainder \in Nat
           /\ LiquidityAfter(block) \in Nat
<1> DEFINE interest == IdealInterest(points, block)
           max == Times(interest, params.idealStake)
           payout == PartOf(Portion, PartOf(Inflation(max, ratio), Stakeable(custody)))
<1>1. /\ ratio \in Perbill /\ Portion \in Perbill
      /\ params.minInflation \in Perbill /\ params.idealStake \in Perbill
      /\ \A p \in Perbill : p \in Nat
  BY EconomicsAssumption, PerbillAssumption DEF EconomicsInv, EconomicsTypeOK, Perbill
<1>2. interest \in Perbill
  BY InterestBetween DEF EconomicsInv, EconomicsTypeOK, PointsInOrder
<1> HIDE DEF interest
<1>3. max \in Perbill
  <2>1. max \in 0..params.idealStake
    BY <1>1, <1>2, PartsTyped
  <2>2. QED
    BY <1>1, <2>1, PerbillAssumption DEF Perbill
<1> HIDE DEF max
<1>4. Inflation(max, ratio) \in Perbill
  <2>1. Monus(max, params.minInflation) \in Nat
    BY <1>1, <1>3 DEF Monus
  <2>2. Times(ratio, Monus(max, params.minInflation)) \in Nat
    BY <1>1, <2>1, PartsTyped
  <2>3. QED
    BY <1>1, <2>2, PerbillAssumption DEF Inflation, Min2, Perbill
<1>5. Stakeable(custody) \in Nat
  <2>1. /\ balance[RewardsPool] \in Nat /\ balance[TestnetFund] \in Nat
        /\ balance[SaleFund] \in Nat
    BY EconomicsAssumption DEF EconomicsInv, EconomicsTypeOK, SystemAccounts
  <2>2. issuance \in Int /\ liquidity \in Nat /\ custody \in Nat
    BY EconomicsAssumption DEF EconomicsInv, EconomicsTypeOK
  <2>3. QED
    BY <2>1, <2>2 DEF Stakeable, Monus
<1>6. PartOf(Inflation(max, ratio), Stakeable(custody)) \in Nat
      /\ PartOf(max, Stakeable(custody)) \in Nat
  BY <1>3, <1>4, <1>5, PartsTyped
<1>7. payout \in Nat /\ PartOf(Portion, PartOf(max, Stakeable(custody))) \in Nat
  BY <1>1, <1>6, PartsTyped
<1>8. EraPayout(block, custody, ratio)
         = [validators |-> payout,
            remainder |-> Monus(PartOf(Portion, PartOf(max, Stakeable(custody))), payout)]
  BY DEF EraPayout, interest, max
<1> HIDE DEF payout
<1>9. Monus(PartOf(Portion, PartOf(max, Stakeable(custody))), payout) \in Nat
  BY <1>7 DEF Monus
<1>10. LiquidityAfter(block) \in Nat
  <2>1. liquidity \in Nat /\ liquidityStake \in Nat
    BY EconomicsAssumption DEF EconomicsInv, EconomicsTypeOK
  <2>2. PartOf(interest, liquidityStake) \in Nat
    BY <1>2, <2>1, PartsTyped
  <2>3. PartOf(Portion, PartOf(interest, liquidityStake)) \in Nat
    BY <1>1, <2>2, PartsTyped
  <2>4. QED
    BY <2>1, <2>3 DEF LiquidityAfter, Monus, interest
<1>11. QED
  BY <1>7, <1>8, <1>9, <1>10

-----------------------------------------------------------------------------
(* The steps. *)

\* Coins that become a purse keep their types, and are the pool's first.
SettledFirst == issuance' > issuance => balance'[RewardsPool] = 0

LEMMA CoinsTyped == EconomicsInv => Coins \in Purses /\ Unaccounted(Coins) = 0
<1> SUFFICES ASSUME EconomicsInv PROVE Coins \in Purses /\ Unaccounted(Coins) = 0
  OBVIOUS
<1>1. Coins \in Purses /\ Coins.balance = balance /\ Coins.issuance = issuance
  BY DEF EconomicsInv, EconomicsTypeOK, Coins, Purses
<1>2. QED
  BY <1>1, UnaccountedInt DEF EconomicsInv, IssuanceMatches, Unaccounted

\* What the coins become is issued to the accounts if nothing is unaccounted for.
LEMMA AccountedFor ==
    ASSUME NEW s \in Purses, Unaccounted(s) = 0,
           balance' = s.balance, issuance' = s.issuance
    PROVE  IssuanceMatches'
<1>1. s.issuance \in Int /\ SumFunction(s.balance) \in Int
  BY UnaccountedInt DEF Purses
<1>2. s.issuance = SumFunction(s.balance)
  BY <1>1 DEF Unaccounted
<1>3. QED
  BY <1>2 DEF IssuanceMatches

LEMMA IssuanceKept ==
    ASSUME IssuanceMatches, UNCHANGED <<balance, issuance>>
    PROVE  IssuanceMatches'
BY DEF IssuanceMatches

LEMMA RewardStep ==
    ASSUME EconomicsInv, NEW a \in Users, NEW x \in RewardAmounts, PayReward(a, x)
    PROVE  EconomicsInv' /\ SettledFirst /\ adjusted' = adjusted
<1>1. a \in Accounts /\ a # RewardsPool /\ x \in Nat
  BY EconomicsAssumption DEF Users, SystemAccounts
<1>2. Coins \in Purses /\ Unaccounted(Coins) = 0
  BY CoinsTyped
<1> DEFINE s == [Coins EXCEPT !.balance[a] = @ + x]
<1>3. s = [balance |-> [balance EXCEPT ![a] = @ + x], issuance |-> issuance]
  BY DEF Coins
<1>4. s \in Purses /\ s.issuance = issuance /\ Unaccounted(s) = 0 - x
  <2>1. s \in Purses /\ s.issuance = issuance
    BY <1>1, <1>2, <1>3 DEF Coins, Purses
  <2>2. balance[a] \in Nat /\ issuance \in Int
    BY <1>1 DEF EconomicsInv, EconomicsTypeOK
  <2>3. Coins.issuance = issuance /\ Coins.balance = balance
    BY DEF Coins
  <2>4. s = [balance |-> [Coins.balance EXCEPT ![a] = balance[a] + x], issuance |-> issuance]
    BY <1>3, <2>3
  <2>5. balance[a] + x \in Nat
    BY <1>1, <2>2
  <2> HIDE DEF s
  <2>6. Unaccounted(s)
           = Unaccounted(Coins) + (issuance - Coins.issuance)
                + (Coins.balance[a] - (balance[a] + x))
    BY <1>1, <1>2, <2>2, <2>4, <2>5, UnaccountedChange
  <2>7. QED
    BY <1>1, <1>2, <2>1, <2>2, <2>3, <2>6
<1> HIDE DEF s
<1>5. /\ Settled(s, x) \in Purses
      /\ Settled(s, x).issuance > s.issuance => Settled(s, x).balance[RewardsPool] = 0
      /\ Unaccounted(Settled(s, x)) = 0
  <2>1. /\ Settled(s, x) \in Purses
        /\ Settled(s, x).issuance > s.issuance => Settled(s, x).balance[RewardsPool] = 0
        /\ Unaccounted(Settled(s, x)) = Unaccounted(s) + x
    BY <1>1, <1>4, SettledForm
  <2>2. QED
    BY <1>1, <1>4, <2>1
<1>6. /\ [balance |-> balance', issuance |-> issuance'] \in Purses /\ SettledFirst
      /\ IssuanceMatches'
  <2>1. CASE Exists(Coins, a, x)
    <3>1. balance' = Settled(s, x).balance /\ issuance' = Settled(s, x).issuance
      BY <2>1 DEF PayReward, CoinsBecome, s
    <3>2. QED
      BY <1>4, <1>5, <3>1, AccountedFor DEF Purses, SettledFirst
  <2>2. CASE ~Exists(Coins, a, x)
    <3>1. balance' = balance /\ issuance' = issuance
      BY <2>2 DEF PayReward, CoinsBecome, Coins
    <3>2. QED
      BY <3>1, IssuanceKept DEF Purses, SettledFirst, EconomicsInv, EconomicsTypeOK
  <2>3. QED
    BY <2>1, <2>2
<1>7. balance' \in [Accounts -> Nat] /\ issuance' \in Int
  BY <1>6 DEF Purses
<1>8. QED
  BY <1>1, <1>6, <1>7
     DEF PayReward, settings, EconomicsInv, EconomicsTypeOK, PointsInOrder

LEMMA EraStep ==
    ASSUME EconomicsInv, NEW n \in EraBlocks, NEW custody \in CustodyTotals,
           NEW ratio \in StakingRatios, EndEra(n, custody, ratio)
    PROVE  EconomicsInv' /\ SettledFirst /\ adjusted' = adjusted
<1>1. now' = now + n /\ now' \in Nat
  BY EconomicsAssumption DEF EndEra, EconomicsInv
<1> DEFINE x == EraPayout(now', custody, ratio).remainder
           y == EraPayout(now', custody, ratio).validators
<1>2. x \in Nat /\ y \in Nat /\ LiquidityAfter(now') \in Nat
  BY <1>1, GrantTyped
<1>3. /\ owed' = owed + y /\ liquidity' = LiquidityAfter(now')
      /\ balance' = Remainder(Coins, x).balance
      /\ issuance' = Remainder(Coins, x).issuance
      /\ UNCHANGED <<schedules, params, points, liquidityStake, adjusted, calls>>
  BY DEF EndEra, CoinsBecome, settings
<1> HIDE DEF x, y
<1>4. /\ Remainder(Coins, x) \in Purses
      /\ Remainder(Coins, x).issuance > issuance
            => Remainder(Coins, x).balance[RewardsPool] = 0
      /\ Unaccounted(Remainder(Coins, x)) = 0
  <2>1. Coins \in Purses /\ Coins.issuance = issuance /\ Unaccounted(Coins) = 0
    BY CoinsTyped DEF Coins
  <2>2. QED
    BY <1>2, <2>1, RemainderForm
<1>5. balance' \in [Accounts -> Nat] /\ issuance' \in Int
  BY <1>3, <1>4 DEF Purses
<1>6. SettledFirst /\ IssuanceMatches'
  BY <1>3, <1>4, AccountedFor DEF SettledFirst
<1>7. QED
  BY <1>1, <1>2, <1>3, <1>5, <1>6 DEF EconomicsInv, EconomicsTypeOK, PointsInOrder

LEMMA FeesStep ==
    ASSUME EconomicsInv, NEW payer \in Users, NEW fee \in Fees, NEW tip \in Tips,
           NEW author \in Users \cup {NoAuthor}, PayFees(payer, fee, tip, author)
    PROVE  EconomicsInv' /\ SettledFirst /\ adjusted' = adjusted
<1>1. payer \in Accounts /\ author \in Accounts \cup {NoAuthor} /\ fee \in Nat /\ tip \in Nat
  BY EconomicsAssumption DEF Users
<1> DEFINE s == [Coins EXCEPT !.balance[payer] = @ - fee - tip]
<1>2. s = [balance |-> [balance EXCEPT ![payer] = @ - fee - tip], issuance |-> issuance]
  BY DEF Coins
<1>3. balance \in [Accounts -> Nat] /\ balance[payer] \in Nat /\ issuance \in Int
  BY <1>1 DEF EconomicsInv, EconomicsTypeOK
<1>4. balance[payer] - fee - tip \in Nat
  BY <1>1, <1>3, VestedCoinsAssumption DEF PayFees
<1>5. s \in Purses /\ s.issuance = issuance /\ Unaccounted(s) = fee + tip
  <2>1. s \in Purses /\ s.issuance = issuance
    BY <1>2, <1>3, <1>4 DEF Purses
  <2>2. Coins \in Purses /\ Unaccounted(Coins) = 0
    BY CoinsTyped
  <2>3. Coins.issuance = issuance /\ Coins.balance = balance
    BY DEF Coins
  <2>4. s = [balance |-> [Coins.balance EXCEPT ![payer] = balance[payer] - fee - tip],
             issuance |-> issuance]
    BY <1>2, <2>3
  <2> HIDE DEF s
  <2>5. Unaccounted(s)
           = Unaccounted(Coins) + (issuance - Coins.issuance)
                + (Coins.balance[payer] - (balance[payer] - fee - tip))
    BY <1>1, <1>3, <1>4, <2>2, <2>4, UnaccountedChange
  <2>6. QED
    BY <1>1, <1>3, <2>1, <2>2, <2>3, <2>5
<1>6. balance' = FeesDivided(s, fee, tip, author).balance
      /\ issuance' = FeesDivided(s, fee, tip, author).issuance
  BY DEF PayFees, CoinsBecome
<1> HIDE DEF s
<1>7. /\ FeesDivided(s, fee, tip, author) \in Purses
      /\ FeesDivided(s, fee, tip, author).issuance <= s.issuance
      /\ Unaccounted(FeesDivided(s, fee, tip, author)) = 0
  <2>1. /\ FeesDivided(s, fee, tip, author) \in Purses
        /\ FeesDivided(s, fee, tip, author).issuance <= s.issuance
        /\ Unaccounted(FeesDivided(s, fee, tip, author)) = Unaccounted(s) - fee - tip
    BY <1>1, <1>5, FeesForm
  <2>2. QED
    BY <1>1, <1>5, <2>1
<1>8. /\ balance' \in [Accounts -> Nat] /\ issuance' \in Int /\ issuance' <= issuance
      /\ IssuanceMatches'
  BY <1>5, <1>6, <1>7, AccountedFor DEF Purses
<1>9. SettledFirst
  BY <1>3, <1>8 DEF SettledFirst
<1>10. calls' \in 0..MaxCalls
  BY EconomicsAssumption DEF PayFees, Called, EconomicsInv, EconomicsTypeOK
<1>11. QED
  BY <1>8, <1>9, <1>10
     DEF PayFees, Called, settings, EconomicsInv, EconomicsTypeOK, PointsInOrder

LEMMA AdministrateStep ==
    ASSUME EconomicsInv, Administrate
    PROVE  EconomicsInv' /\ SettledFirst /\ adjusted' = adjusted
<1>1. /\ UNCHANGED <<schedules, now, owed, adjusted, balance, issuance>>
      /\ calls' \in 0..MaxCalls
  BY EconomicsAssumption
     DEF Administrate, SetInflationParams, SetInterestPoints, SetLiquidityRewardsStake,
         SetLiquidityRewardsBalance, Called, EconomicsInv, EconomicsTypeOK
<1>2. params' \in Parameters /\ liquidityStake' \in LiquidityStakes /\ liquidity' \in Nat
  BY EconomicsAssumption
     DEF Administrate, SetInflationParams, SetInterestPoints, SetLiquidityRewardsStake,
         SetLiquidityRewardsBalance, settings, EconomicsInv, EconomicsTypeOK
<1>3. points' \in Seq(Points) /\ PointsInOrder'
  <2>1. ASSUME NEW list \in Curves, SetInterestPoints(list)
        PROVE  points' \in Seq(Points) /\ PointsInOrder'
    BY <2>1, SubmittedInOrder DEF SetInterestPoints, PointsInOrder
  <2>2. ASSUME UNCHANGED points
        PROVE  points' \in Seq(Points) /\ PointsInOrder'
    BY <2>2 DEF EconomicsInv, EconomicsTypeOK, PointsInOrder
  <2>3. QED
    BY <2>1, <2>2 DEF Administrate, SetInflationParams, SetLiquidityRewardsStake,
                      SetLiquidityRewardsBalance, settings
<1>4. IssuanceMatches'
  BY <1>1, IssuanceKept DEF EconomicsInv
<1>5. QED
  BY <1>1, <1>2, <1>3, <1>4 DEF EconomicsInv, EconomicsTypeOK, SettledFirst

LEMMA AdjustStep ==
    ASSUME EconomicsInv, BridgeAdjust
    PROVE  EconomicsInv' /\ SettledFirst
<1>1. /\ BridgeAccount \in Accounts /\ RewardsPool \in Accounts
      /\ balance \in [Accounts -> Nat] /\ issuance \in Int
      /\ balance[BridgeAccount] \in Nat /\ balance[RewardsPool] \in Nat
  BY EconomicsAssumption DEF SystemAccounts, EconomicsInv, EconomicsTypeOK
<1>2. /\ balance[BridgeAccount] - AdjustTransfer \in Nat
      /\ balance[RewardsPool] + AdjustTransfer \in Nat
  BY <1>1, EconomicsAssumption, VestedCoinsAssumption DEF BridgeAdjust
<1>3. balance' \in [Accounts -> Nat]
  BY <1>1, <1>2 DEF BridgeAdjust
<1>4. IssuanceMatches'
  <2>1. /\ DOMAIN balance = Accounts /\ DOMAIN balance' = Accounts
        /\ RewardsPool # BridgeAccount /\ issuance' = issuance
        /\ balance'[BridgeAccount] = balance[BridgeAccount] - AdjustTransfer
        /\ balance'[RewardsPool] = balance[RewardsPool] + AdjustTransfer
        /\ \A a \in Accounts :
              a # BridgeAccount /\ a # RewardsPool => balance'[a] = balance[a]
    BY <1>1, EconomicsAssumption DEF BridgeAdjust
  <2>2. \A a \in DOMAIN balance :
            /\ balance[a] \in Int /\ balance'[a] \in Int
            /\ a # BridgeAccount /\ a # RewardsPool => balance'[a] = balance[a]
    BY <1>1, <1>3, <2>1
  <2>3. SumFunction(balance')
           = SumFunction(balance) - balance[BridgeAccount] - balance[RewardsPool]
                + balance'[BridgeAccount] + balance'[RewardsPool]
    BY <1>1, <2>1, <2>2, VestedCoinsAssumption, TotalMoved
  <2>4. SumFunction(balance) = issuance
    BY DEF EconomicsInv, IssuanceMatches
  <2>5. SumFunction(balance') = issuance'
    BY <1>1, <2>1, <2>3, <2>4, EconomicsAssumption
  <2>6. QED
    BY <2>5 DEF IssuanceMatches
<1>5. QED
  BY <1>1, <1>3, <1>4, EconomicsAssumption
     DEF BridgeAdjust, settings, EconomicsInv, EconomicsTypeOK, PointsInOrder, SettledFirst

LEMMA EconomicsStep ==
    EconomicsInv /\ [EconomicsNext]_allEconomicsVars
        => /\ EconomicsInv'
           /\ [SettledFirst]_allEconomicsVars
           /\ adjusted' # adjusted => BridgeAdjust
<1> SUFFICES ASSUME EconomicsInv, [EconomicsNext]_allEconomicsVars
             PROVE  /\ EconomicsInv'
                    /\ [SettledFirst]_allEconomicsVars
                    /\ adjusted' # adjusted => BridgeAdjust
  OBVIOUS
<1>1. ASSUME UNCHANGED allEconomicsVars
      PROVE  EconomicsInv' /\ adjusted' = adjusted
  BY <1>1, IssuanceKept
     DEF allEconomicsVars, economicsVars, settings, EconomicsInv, EconomicsTypeOK, PointsInOrder
<1>2. ASSUME EconomicsNext
      PROVE  EconomicsInv' /\ SettledFirst /\ (adjusted' # adjusted => BridgeAdjust)
  BY <1>2, RewardStep, EraStep, FeesStep, AdministrateStep, AdjustStep DEF EconomicsNext
<1>3. QED
  BY <1>1, <1>2

LEMMA EconomicsStarts == EconomicsInit => EconomicsInv
<1> SUFFICES ASSUME EconomicsInit PROVE EconomicsInv
  OBVIOUS
<1>1. points \in Seq(Points) /\ PointsInOrder
  BY SubmittedInOrder DEF EconomicsInit, PointsInOrder
<1>2. balance \in [Accounts -> Nat] /\ issuance \in Int /\ now \in Nat
  BY EconomicsAssumption DEF EconomicsInit
<1>3. /\ params \in Parameters /\ liquidityStake \in LiquidityStakes
      /\ liquidity \in Nat /\ owed \in Nat /\ adjusted \in BOOLEAN
      /\ calls \in 0..MaxCalls
  <2>1. /\ params \in Parameters /\ liquidityStake \in LiquidityStakes
    BY DEF EconomicsInit
  <2>2. adjusted \in BOOLEAN
    BY Zenon DEF EconomicsInit
  <2>3. liquidity \in Nat /\ owed \in Nat
    BY EconomicsAssumption DEF EconomicsInit
  <2>4. calls \in 0..MaxCalls
    BY EconomicsAssumption DEF EconomicsInit
  <2>5. QED
    BY <2>1, <2>2, <2>3, <2>4
<1>4. IssuanceMatches
  BY DEF EconomicsInit, IssuanceMatches
<1>5. QED
  BY <1>1, <1>2, <1>3, <1>4 DEF EconomicsInv, EconomicsTypeOK

LEMMA EconomicsInvariant == EconomicsSpec => []EconomicsInv
BY EconomicsStarts, EconomicsStep, PTL DEF EconomicsSpec


-----------------------------------------------------------------------------
(***************************************************************************)
(* Distributions of the public funds.  DoDistribution folds a list of      *)
(* payments: the fold is taken apart here, by the number of payments made, *)
(* and each payment keeps the coins accounted for.                         *)
(***************************************************************************)
Opening == [ok |-> TRUE, balance |-> balance, issuance |-> issuance, schedules |-> schedules]

\* g is what a has become after the payments of each set of places of the list,
\* of which the highest is paid last.
IsPaying(g, a, list, S) ==
    g = [s \in SUBSET S |->
            IF s = {} THEN Opening
            ELSE Pay(g[s \ {Seqs!Max(s)}], a, list[Seqs!Max(s)])]

LEMMA DistributionDef ==
    ASSUME NEW a, NEW list
    PROVE  DoDistribution(a, list)
              = (CHOOSE g : IsPaying(g, a, list, DOMAIN list))[DOMAIN list]
BY DEF DoDistribution, Seqs!FoldLeft, Seqs!MapThenFoldSet, IsPaying, Opening

\* The equation has a solution for the first k payments, and so for all.
LEMMA PayingExists ==
    ASSUME NEW a, NEW list, NEW n \in Nat
    PROVE  \E g : IsPaying(g, a, list, 1..n)
<1> DEFINE Bad == {k \in Nat : ~ \E g : IsPaying(g, a, list, 1..k)}
<1>1. \E g : IsPaying(g, a, list, 1..0)
  <2> DEFINE g == [s \in SUBSET (1..0) |-> Opening]
  <2>1. \A s \in SUBSET (1..0) : s = {}
    OBVIOUS
  <2>2. IsPaying(g, a, list, 1..0)
    BY <2>1 DEF IsPaying
  <2>3. QED
    BY <2>2
<1>2. ASSUME NEW k \in Nat, NEW g, IsPaying(g, a, list, 1..k)
      PROVE  \E h : IsPaying(h, a, list, 1..(k + 1))
  <2> DEFINE top == k + 1
             h == [s \in SUBSET (1..top) |->
                      IF top \in s THEN Pay(g[s \ {top}], a, list[top]) ELSE g[s]]
  <2>1. ASSUME NEW s \in SUBSET (1..top)
        PROVE  h[s] = IF s = {} THEN Opening
                      ELSE Pay(h[s \ {Seqs!Max(s)}], a, list[Seqs!Max(s)])
    <3>1. CASE top \in s
      <4>1. Seqs!Max(s) = top
        BY <3>1, Highest
      <4>2. s \ {top} \in SUBSET (1..top) /\ top \notin s \ {top} /\ s # {}
        BY <3>1
      <4>3. h[s \ {top}] = g[s \ {top}] /\ h[s] = Pay(g[s \ {top}], a, list[top])
        BY <3>1, <4>2
      <4> HIDE DEF h, top
      <4>4. QED
        BY <4>1, <4>2, <4>3
    <3>2. CASE top \notin s
      <4>1. /\ s \in SUBSET (1..k) /\ s \ {Seqs!Max(s)} \in SUBSET (1..k)
            /\ s \ {Seqs!Max(s)} \in SUBSET (1..top) /\ top \notin s \ {Seqs!Max(s)}
        <5>1. \A x \in 1..top : x # top => x \in 1..k
          OBVIOUS
        <5>2. s \in SUBSET (1..k)
          BY <3>2, <5>1
        <5>3. \A m : /\ s \ {m} \in SUBSET (1..k) /\ s \ {m} \in SUBSET (1..top)
                     /\ top \notin s \ {m}
          BY <3>2, <5>2
        <5>4. QED
          BY <5>2, <5>3
      <4>2. g[s] = IF s = {} THEN Opening
                   ELSE Pay(g[s \ {Seqs!Max(s)}], a, list[Seqs!Max(s)])
        BY <1>2, <4>1 DEF IsPaying
      <4>3. h[s] = g[s] /\ h[s \ {Seqs!Max(s)}] = g[s \ {Seqs!Max(s)}]
        BY <3>2, <4>1
      <4> HIDE DEF h, top
      <4>4. QED
        BY <4>2, <4>3
    <3>3. QED
      BY <3>1, <3>2
  <2>2. h = [s \in SUBSET (1..top) |-> h[s]]
    OBVIOUS
  <2> HIDE DEF h
  <2>3. h = [s \in SUBSET (1..top) |->
                IF s = {} THEN Opening
                ELSE Pay(h[s \ {Seqs!Max(s)}], a, list[Seqs!Max(s)])]
    BY <2>1, <2>2
  <2>4. IsPaying(h, a, list, 1..top)
    BY <2>3 DEF IsPaying
  <2>5. QED
    BY <2>4
<1>3. Bad = {}
  <2>1. SUFFICES ASSUME Bad # {} PROVE FALSE
    OBVIOUS
  <2>2. PICK m \in Bad : \A k \in Bad : m <= k
    BY <2>1, LeastElement
  <2>3. m \in Nat \ {0} /\ m - 1 \in Nat /\ m - 1 \notin Bad /\ (m - 1) + 1 = m
    BY <1>1, <2>2
  <2>4. \E h : IsPaying(h, a, list, 1..((m - 1) + 1))
    BY <1>2, <2>3
  <2>5. QED
    BY <2>2, <2>3, <2>4
<1>4. QED
  BY <1>3

\* A distribution that is under way: nothing is unaccounted for, and nothing was
\* issued.
Underway(s) ==
    /\ {"ok", "balance", "issuance", "schedules"} \subseteq DOMAIN s
    /\ [balance |-> s.balance, issuance |-> s.issuance] \in Purses
    /\ Unaccounted(s) = 0
    /\ s.issuance <= issuance

\* A payment keeps a distribution under way, whether it can be made or not.
LEMMA PayForm ==
    ASSUME NEW s, Underway(s), issuance \in Int, NEW a \in Accounts, NEW payment \in Payments
    PROVE  Underway(Pay(s, a, payment))
<1> DEFINE x == payment.amount
           to == payment.to
           purse == [balance |-> s.balance, issuance |-> s.issuance]
           rest == IF x = 0 THEN purse ELSE Take(purse, a, x)
           taken == IF x = 0 THEN s ELSE Take(s, a, x)
           locks == AddSchedules(taken.schedules[to], payment.schedules, now)
           paid == [taken EXCEPT !.balance[to] = @ + x, !.schedules[to] = locks]
<1>1. /\ x \in Nat /\ to \in Accounts
      /\ purse \in Purses /\ purse.balance = s.balance /\ purse.issuance = s.issuance
      /\ s.balance \in [Accounts -> Nat] /\ s.issuance \in Int
      /\ s.issuance <= issuance
  BY DEF Payments, Underway, Purses
<1>2. Unaccounted(purse) = 0
  BY <1>1 DEF Underway, Unaccounted
<1>3. CASE s.ok /\ CanTransfer(s, a, payment)
  <2>1. x = 0 \/ x <= purse.balance[a]
    BY <1>1, <1>3 DEF CanTransfer
  <2>2. rest \in Purses /\ Unaccounted(rest) = x /\ rest.issuance <= purse.issuance
    <3>1. CASE x = 0
      BY <1>1, <1>2, <3>1
    <3>2. CASE x # 0
      <4> HIDE DEF purse, x
      <4>1. /\ Take(purse, a, x) \in Purses
            /\ Take(purse, a, x).issuance <= purse.issuance
            /\ Unaccounted(Take(purse, a, x)) = Unaccounted(purse) + x
        BY <1>1, <2>1, <3>2, TakeForm
      <4>2. QED
        BY <1>1, <1>2, <3>2, <4>1
    <3>3. QED
      BY <3>1, <3>2
  <2>3. /\ taken.balance = rest.balance /\ taken.issuance = rest.issuance
        /\ DOMAIN taken = DOMAIN s
    <3>1. CASE x = 0
      BY <3>1
    <3>2. CASE x # 0
      <4>1. /\ taken = [s EXCEPT !.balance[a] = Left(s, a, x), !.issuance = @ - Dust(s, a, x)]
            /\ rest = [purse EXCEPT !.balance[a] = Left(s, a, x), !.issuance = @ - Dust(s, a, x)]
        BY <3>2 DEF Take, Left, Dust
      <4> HIDE DEF x, taken, rest
      <4>2. /\ taken.balance = [s.balance EXCEPT ![a] = Left(s, a, x)]
            /\ taken.issuance = s.issuance - Dust(s, a, x)
            /\ DOMAIN taken = DOMAIN s
        BY <4>1 DEF Underway
      <4>3. /\ rest.balance = [s.balance EXCEPT ![a] = Left(s, a, x)]
            /\ rest.issuance = s.issuance - Dust(s, a, x)
        BY <4>1
      <4>4. QED
        BY <4>2, <4>3
    <3>3. QED
      BY <3>1, <3>2
  <2>4. Pay(s, a, payment) = paid
    BY <1>3 DEF Pay
  <2> DEFINE y == rest.balance[to] + x
             final == [balance |-> [rest.balance EXCEPT ![to] = y], issuance |-> rest.issuance]
  <2> HIDE DEF locks, taken, rest
  <2>5. /\ paid.balance = final.balance /\ paid.issuance = final.issuance
        /\ DOMAIN paid = DOMAIN s
    <3>1. {"balance", "issuance", "schedules"} \subseteq DOMAIN taken
      BY <2>3 DEF Underway
    <3>2. paid = [taken EXCEPT !.balance[to] = y, !.schedules[to] = locks]
      BY <2>3
    <3> HIDE DEF y, paid, to
    <3>3. /\ paid.balance = [taken.balance EXCEPT ![to] = y] /\ paid.issuance = taken.issuance
          /\ DOMAIN paid = DOMAIN taken
      BY <3>1, <3>2
    <3>4. QED
      BY <2>3, <3>3
  <2>6. /\ rest.balance \in [Accounts -> Nat] /\ rest.balance[to] \in Nat
        /\ rest.issuance \in Int /\ y \in Nat
    BY <1>1, <2>2 DEF Purses
  <2>7. final \in Purses
    BY <1>1, <2>6 DEF Purses
  <2>8. Unaccounted(final)
           = Unaccounted(rest) + (rest.issuance - rest.issuance) + (rest.balance[to] - y)
    <3> HIDE DEF y, to
    <3>1. QED
      BY <1>1, <2>2, <2>6, UnaccountedChange
  <2>9. Unaccounted(final) = 0
    BY <1>1, <2>2, <2>6, <2>8
  <2> HIDE DEF final, paid, purse
  <2>10. Unaccounted(paid) = 0
    BY <2>5, <2>9 DEF Unaccounted
  <2>11. [balance |-> paid.balance, issuance |-> paid.issuance] = final
    BY <2>5 DEF final
  <2>12. paid.issuance <= issuance
    BY <1>1, <2>2, <2>5, <2>6 DEF final
  <2>13. QED
    BY <2>4, <2>5, <2>7, <2>10, <2>11, <2>12 DEF Underway
<1>4. CASE ~(s.ok /\ CanTransfer(s, a, payment))
  <2>1. Pay(s, a, payment) = [s EXCEPT !.ok = FALSE]
    BY <1>4 DEF Pay
  <2> DEFINE failed == [s EXCEPT !.ok = FALSE]
  <2>2. /\ failed.balance = s.balance /\ failed.issuance = s.issuance
        /\ DOMAIN failed = DOMAIN s
    BY DEF Underway
  <2> HIDE DEF failed
  <2>3. Unaccounted(failed) = 0
    BY <2>2 DEF Underway, Unaccounted
  <2>4. Underway(failed)
    BY <2>2, <2>3 DEF Underway
  <2>5. QED
    BY <2>1, <2>4 DEF failed
<1>5. QED
  BY <1>3, <1>4

\* A distribution goes through h[0], h[1], ..., one payment after the other.
PaysAlong(h, a, list) ==
    /\ h[0] = Opening
    /\ \A k \in 0..Len(list) : Underway(h[k])
    /\ \A k \in 0..Len(list) : k < Len(list) => h[k + 1] = Pay(h[k], a, list[k + 1])
    /\ h[Len(list)] = DoDistribution(a, list)

LEMMA PayingSteps ==
    ASSUME EconomicsInv, NEW a \in Accounts, NEW list \in Seq(Payments)
    PROVE  \E h : PaysAlong(h, a, list)
<1> DEFINE n == Len(list)
           g == CHOOSE f : IsPaying(f, a, list, DOMAIN list)
           h == [k \in 0..n |-> g[1..k]]
<1>1. n \in Nat /\ DOMAIN list = 1..n /\ \A i \in 1..n : list[i] \in Payments
  BY ElementOfSeq, LenProperties
<1>2. IsPaying(g, a, list, 1..n)
  BY <1>1, PayingExists
<1>3. issuance \in Int
  BY DEF EconomicsInv, EconomicsTypeOK
<1>4. h[n] = DoDistribution(a, list)
  BY <1>1, DistributionDef
<1> HIDE DEF g, n
<1>5. h[0] = Opening
  <2>1. 1..0 = {} /\ {} \in SUBSET (1..n) /\ 0 \in 0..n
    BY <1>1
  <2>2. g[{}] = Opening
    BY <1>2, <2>1 DEF IsPaying
  <2>3. QED
    BY <2>1, <2>2
<1>6. Underway(Opening)
  <2>1. Coins \in Purses /\ Unaccounted(Coins) = 0
    BY CoinsTyped
  <2>2. QED
    BY <1>3, <2>1 DEF Underway, Opening, Coins, Unaccounted
<1>7. ASSUME NEW k \in 0..n, k < n
      PROVE  h[k + 1] = Pay(h[k], a, list[k + 1])
  <2> DEFINE top == k + 1
             s == 1..top
  <2>1. top \in Nat /\ top \in s /\ s \in SUBSET (1..n) /\ s # {} /\ s \ {top} = 1..k
    <3>1. top \in Nat /\ top \in s /\ \A i \in s : i \in 1..n
      BY <1>1, <1>7
    <3>2. \A i : i \in 1..k <=> i \in s /\ i # top
      BY <1>1, <1>7
    <3> HIDE DEF s
    <3>3. QED
      BY <3>1, <3>2
  <2>2. Seqs!Max(s) = top
    BY <2>1, Highest
  <2>3. h[k] = g[1..k] /\ h[top] = g[s]
    BY <1>1, <1>7
  <2> HIDE DEF s, top, h
  <2>4. g[s] = Pay(g[s \ {top}], a, list[top])
    BY <1>2, <2>1, <2>2 DEF IsPaying
  <2>5. h[top] = Pay(h[k], a, list[top])
    BY <2>1, <2>3, <2>4
  <2>6. QED
    BY <2>5 DEF top
<1> HIDE DEF h
<1> DEFINE G == {k \in 0..n : Underway(h[k])}
<1>8. 0 \in G
  BY <1>1, <1>5, <1>6
<1>9. ASSUME NEW k \in 0..n, k \in G, k < n PROVE k + 1 \in G
  <2>1. k + 1 \in 0..n /\ list[k + 1] \in Payments
    BY <1>1, <1>9
  <2>2. h[k + 1] = Pay(h[k], a, list[k + 1]) /\ Underway(h[k])
    BY <1>7, <1>9
  <2>3. Underway(Pay(h[k], a, list[k + 1]))
    BY <1>3, <2>1, <2>2, PayForm
  <2>4. QED
    BY <2>1, <2>2, <2>3
<1>10. \A k \in 0..n : Underway(h[k])
  <2>1. \A k \in 0..n : k \in G /\ k < n => k + 1 \in G
    BY <1>9
  <2> HIDE DEF G
  <2>2. \A k \in 0..n : k \in G
    BY <1>1, <1>8, <2>1, CountingUp
  <2>3. QED
    BY <2>2 DEF G
<1>11. QED
  BY <1>4, <1>5, <1>7, <1>10 DEF PaysAlong, n

LEMMA DistributionForm ==
    ASSUME EconomicsInv, NEW a \in Accounts, NEW list \in Seq(Payments)
    PROVE  Underway(DoDistribution(a, list))
<1>1. PICK h : PaysAlong(h, a, list)
  BY PayingSteps
<1>2. Len(list) \in 0..Len(list)
  BY LenProperties
<1>3. QED
  BY <1>1, <1>2 DEF PaysAlong

-----------------------------------------------------------------------------
(***************************************************************************)
(* What a list of schedules adds to those of an account: place by place,   *)
(* with zeros at the places of those that are refused.                     *)
(***************************************************************************)

\* The number of the places among the first k is a sum as well.
LEMMA PlacesCounted ==
    ASSUME NEW q \in Seq(Schedules), NEW n \in Nat
    PROVE  LET one == [i \in 1..Len(q) |-> IF IsValid(q[i]) THEN 1 ELSE 0]
               lock == [i \in 1..Len(q) |-> IF IsValid(q[i]) THEN LockedAt(q[i], n) ELSE 0]
           IN  /\ Cardinality(ValidPlaces(q)) = SumFunctionOnSet(one, 1..Len(q))
               /\ ValidLock(q, n) = SumFunctionOnSet(lock, 1..Len(q))
<1> DEFINE last == Len(q)
           one == [i \in 1..last |-> IF IsValid(q[i]) THEN 1 ELSE 0]
           lock == [i \in 1..last |-> IF IsValid(q[i]) THEN LockedAt(q[i], n) ELSE 0]
           V(k) == {i \in 1..k : IsValid(q[i])}
<1>1. last \in Nat /\ DOMAIN q = 1..last /\ \A i \in 1..last : q[i] \in Schedules
  BY ElementOfSeq, LenProperties
<1>2. IsFiniteSet(1..last) /\ ValidPlaces(q) = V(last)
  BY <1>1, FS_Interval DEF ValidPlaces
<1>3. \A i \in 1..last : LockedAt(q[i], n) \in Nat
  BY <1>1, LockedNat
<1> HIDE DEF last
<1>4. Cardinality(V(last)) = SumFunctionOnSet(one, 1..last)
  <2> DEFINE Good(k) == /\ IsFiniteSet(V(k)) /\ Cardinality(V(k)) \in Nat
                        /\ Cardinality(V(k)) = SumFunctionOnSet(one, 1..k)
             G == {k \in 0..last : Good(k)}
  <2>1. 0 \in G
    <3>1. V(0) = {}
      OBVIOUS
    <3>2. Cardinality(V(0)) = 0 /\ IsFiniteSet(V(0))
      BY <3>1, FS_EmptySet
    <3>3. SumFunctionOnSet(one, 1..0) = 0
      BY SumStart
    <3>4. QED
      BY <1>1, <3>2, <3>3
  <2>2. ASSUME NEW k \in 0..last, k \in G, k < last PROVE k + 1 \in G
    <3> DEFINE next == k + 1
    <3>1. next \in 1..last /\ next \in 0..last /\ k \in Nat
      BY <1>1, <2>2
    <3>2. \A i \in 1..last : one[i] \in Int
      OBVIOUS
    <3>3. SumFunctionOnSet(one, 1..next) = SumFunctionOnSet(one, 1..k) + one[next]
      <4> HIDE DEF one
      <4>1. QED
        BY <1>1, <2>2, <3>2, SumNext
    <3>4. Good(k)
      BY <2>2
    <3>5. CASE IsValid(q[next])
      <4>1. V(next) = V(k) \cup {next} /\ next \notin V(k)
        <5>1. \A i : i \in 1..next <=> i \in 1..k \/ i = next
          BY <3>1
        <5>2. QED
          BY <3>1, <3>5, <5>1
      <4>2. one[next] = 1
        BY <3>1, <3>5
      <4> HIDE DEF V, one
      <4>3. IsFiniteSet(V(next)) /\ Cardinality(V(next)) = Cardinality(V(k)) + 1
        BY <3>4, <4>1, FS_AddElement
      <4>4. QED
        BY <3>1, <3>3, <3>4, <4>2, <4>3
    <3>6. CASE ~IsValid(q[next])
      <4>1. V(next) = V(k)
        <5>1. \A i : i \in 1..next <=> i \in 1..k \/ i = next
          BY <3>1
        <5>2. QED
          BY <3>1, <3>6, <5>1
      <4>2. one[next] = 0
        BY <3>1, <3>6
      <4> HIDE DEF V, one
      <4>3. Cardinality(V(next)) = SumFunctionOnSet(one, 1..next)
        BY <3>3, <3>4, <4>1, <4>2
      <4>4. QED
        BY <3>1, <3>4, <4>1, <4>3
    <3>7. QED
      BY <3>5, <3>6
  <2>3. \A k \in 0..last : k \in G
    <3>1. \A k \in 0..last : k \in G /\ k < last => k + 1 \in G
      BY <2>2
    <3> HIDE DEF G
    <3>2. QED
      BY <1>1, <2>1, <3>1, CountingUp
  <2>4. Good(last)
    BY <1>1, <2>3
  <2>5. QED
    BY <2>4
<1>5. ValidLock(q, n) = SumFunctionOnSet(lock, 1..last)
  <2> DEFINE f == [i \in ValidPlaces(q) |-> LockedAt(q[i], n)]
  <2>1. DOMAIN f = ValidPlaces(q) /\ ValidPlaces(q) \subseteq 1..last
    BY <1>1 DEF ValidPlaces
  <2>2. /\ \A i \in DOMAIN f : f[i] \in Int
        /\ \A i \in 1..last : lock[i] = IF i \in DOMAIN f THEN f[i] ELSE 0
    BY <1>1, <1>3, <2>1 DEF ValidPlaces
  <2>3. ValidLock(q, n) = SumFunction(f)
    BY DEF ValidLock
  <2> HIDE DEF f, lock
  <2>4. SumFunction(f) = SumFunctionOnSet(lock, 1..last)
    BY <1>2, <2>1, <2>2, TotalSelected
  <2>5. QED
    BY <2>3, <2>4
<1>6. QED
  BY <1>2, <1>4, <1>5 DEF last

\* An account loses nothing that is locked, and has the locks of the whole list
\* if it has room for all of it.
LEMMA SchedulesAdded ==
    ASSUME NEW q \in ListsOf, NEW list \in Seq(Schedules), NEW n \in Nat
    PROVE  LET added == AddSchedules(q, list, n)
               number == Cardinality(ValidPlaces(list))
           IN  /\ added \in ListsOf /\ number \in Nat /\ ValidLock(list, n) \in Nat
               /\ TotalLockedAt(q, n) <= TotalLockedAt(added, n)
               /\ Len(added) <= Len(q) + number
               /\ Len(q) + number <= MaxSchedules
                     => TotalLockedAt(added, n) = TotalLockedAt(q, n) + ValidLock(list, n)
<1> DEFINE last == Len(list)
           one == [i \in 1..last |-> IF IsValid(list[i]) THEN 1 ELSE 0]
           lock == [i \in 1..last |-> IF IsValid(list[i]) THEN LockedAt(list[i], n) ELSE 0]
           N(k) == SumFunctionOnSet(one, 1..k)
           L(k) == SumFunctionOnSet(lock, 1..k)
           T(p) == TotalLockedAt(p, n)
<1>1. last \in Nat /\ \A i \in 1..last : list[i] \in Schedules
  BY ElementOfSeq, LenProperties
<1>2. Cardinality(ValidPlaces(list)) = N(last) /\ ValidLock(list, n) = L(last)
  BY PlacesCounted
<1>3. PICK h : /\ h[0] = q
               /\ \A k \in 0..last : h[k] \in ListsOf
               /\ \A k \in 0..last : k < last => h[k + 1] = AddSchedule(h[k], list[k + 1], n)
               /\ h[last] = AddSchedules(q, list, n)
  BY AddSteps
<1>4. \A i \in 1..last : LockedAt(list[i], n) \in Nat
  BY <1>1, LockedNat
<1>5. \A i \in 1..last : one[i] \in Nat /\ lock[i] \in Nat
  BY <1>4
<1>6. \A p \in ListsOf : T(p) \in Nat /\ Len(p) \in Nat
  BY LockedParts, LenProperties DEF ListsOf
<1> HIDE DEF last, T
<1>7. \A k \in 0..last : N(k) \in Nat /\ L(k) \in Nat
  <2> SUFFICES ASSUME NEW k \in 0..last PROVE N(k) \in Nat /\ L(k) \in Nat
    OBVIOUS
  <2>1. IsFiniteSet(1..k) /\ \A i \in 1..k : one[i] \in Nat /\ lock[i] \in Nat
    <3>1. \A i \in 1..k : i \in 1..last
      BY <1>1
    <3>2. k \in Nat
      BY <1>1
    <3>3. QED
      BY <1>5, <3>1, <3>2, FS_Interval
  <2> HIDE DEF one, lock
  <2>2. QED
    BY <2>1, SumNat
<1> DEFINE Good(k) == /\ T(q) <= T(h[k])
                      /\ Len(h[k]) <= Len(q) + N(k)
                      /\ Len(q) + N(k) <= MaxSchedules => T(h[k]) = T(q) + L(k)
           G == {k \in 0..last : Good(k)}
<1>8. 0 \in G
  <2>1. N(0) = 0 /\ L(0) = 0
    BY SumStart
  <2> HIDE DEF N, L
  <2>2. QED
    BY <1>1, <1>3, <1>6, <2>1
<1>9. ASSUME NEW k \in 0..last, k \in G, k < last PROVE k + 1 \in G
  <2> DEFINE next == k + 1
             s == list[next]
  <2>1. next \in 1..last /\ next \in 0..last /\ s \in Schedules
    BY <1>1, <1>9
  <2>2. Good(k) /\ h[k] \in ListsOf /\ h[next] \in ListsOf /\ h[next] = AddSchedule(h[k], s, n)
    BY <1>3, <1>9, <2>1
  <2>3. N(next) = N(k) + one[next] /\ L(next) = L(k) + lock[next]
    <3>1. \A i \in 1..last : one[i] \in Int /\ lock[i] \in Int
      BY <1>5
    <3> HIDE DEF one, lock
    <3>2. QED
      BY <1>1, <1>9, <3>1, SumNext
  <2>4. /\ T(h[k]) <= T(h[next])
        /\ ~IsValid(s) => Len(h[next]) <= Len(h[k]) /\ T(h[next]) = T(h[k])
        /\ IsValid(s) => Len(h[next]) <= Len(h[k]) + 1
        /\ IsValid(s) /\ Len(h[k]) < MaxSchedules => T(h[next]) = T(h[k]) + LockedAt(s, n)
    <3> DEFINE p == h[k]
    <3> HIDE DEF p, s, next
    <3>1. p \in ListsOf /\ s \in Schedules
      BY <2>1, <2>2 DEF p
    <3>2. LET added == AddSchedule(p, s, n)
          IN  /\ T(p) <= T(added)
              /\ ~IsValid(s) => Len(added) <= Len(p) /\ T(added) = T(p)
              /\ IsValid(s) => Len(added) <= Len(p) + 1
              /\ IsValid(s) /\ Len(p) < MaxSchedules => T(added) = T(p) + LockedAt(s, n)
      BY <3>1, AddedFacts DEF T
    <3>3. h[next] = AddSchedule(p, s, n)
      BY <2>2 DEF p
    <3>4. QED
      BY <3>2, <3>3 DEF p
  <2>5. /\ T(h[k]) \in Nat /\ T(h[next]) \in Nat /\ T(q) \in Nat
        /\ Len(h[k]) \in Nat /\ Len(h[next]) \in Nat /\ Len(q) \in Nat
        /\ N(k) \in Nat /\ L(k) \in Nat /\ MaxSchedules \in Nat
    BY <1>6, <1>7, <2>2, VestedCoinsAssumption
  <2>6. /\ IsValid(s) => one[next] = 1 /\ lock[next] = LockedAt(s, n)
        /\ ~IsValid(s) => one[next] = 0 /\ lock[next] = 0
        /\ LockedAt(s, n) \in Nat
    BY <1>4, <2>1
  <2> HIDE DEF N, L, one, lock, s, next
  <2>7. /\ T(q) <= T(h[k])
        /\ Len(h[k]) <= Len(q) + N(k)
        /\ Len(q) + N(k) <= MaxSchedules => T(h[k]) = T(q) + L(k)
    BY <2>2
  <2> HIDE DEF Good
  <2>8. CASE IsValid(s)
    <3>1. Len(q) + N(next) <= MaxSchedules
             => Len(q) + N(k) <= MaxSchedules /\ Len(h[k]) < MaxSchedules
      BY <2>7, <2>3, <2>5, <2>6, <2>8
    <3>2. T(q) <= T(h[next])
      BY <2>7, <2>4, <2>5
    <3>3. Len(h[next]) <= Len(q) + N(next)
      <4>1. Len(h[next]) <= Len(h[k]) + 1
        BY <2>4, <2>8
      <4>2. N(next) = N(k) + 1
        BY <2>3, <2>6, <2>8
      <4>3. Len(h[k]) <= Len(q) + N(k)
        BY <2>7
      <4>4. QED
        BY <2>5, <4>1, <4>2, <4>3
    <3>4. Len(q) + N(next) <= MaxSchedules => T(h[next]) = T(q) + L(next)
      BY <2>7, <2>3, <2>4, <2>5, <2>6, <2>8, <3>1
    <3>5. Good(next)
      BY <3>2, <3>3, <3>4 DEF Good
    <3>6. QED
      BY <2>1, <3>5 DEF next
  <2>9. CASE ~IsValid(s)
    <3>1. Good(next)
      BY <2>7, <2>3, <2>4, <2>5, <2>6, <2>9 DEF Good
    <3>2. QED
      BY <2>1, <3>1 DEF next
  <2>10. QED
    BY <2>8, <2>9
<1>10. \A k \in 0..last : Good(k)
  <2>1. \A k \in 0..last : k \in G /\ k < last => k + 1 \in G
    BY <1>9
  <2> HIDE DEF G
  <2>2. \A k \in 0..last : k \in G
    BY <1>1, <1>8, <2>1, CountingUp
  <2>3. QED
    BY <2>2 DEF G
<1>11. Good(last) /\ N(last) \in Nat /\ L(last) \in Nat /\ h[last] \in ListsOf
  <2> HIDE DEF Good, N, L
  <2>1. QED
    BY <1>1, <1>3, <1>7, <1>10
<1> HIDE DEF N, L, one, lock
<1>12. QED
  BY <1>2, <1>3, <1>11 DEF T

-----------------------------------------------------------------------------
(* What the payments of a distribution that succeeds do, one by one. *)

Pays(s, t, a, payment) ==
    LET x == payment.amount
    IN  /\ x = 0 \/ x <= s.balance[a]
        /\ t.balance[a] = IF x = 0 THEN s.balance[a] ELSE Left(s, a, x)
        /\ \A d \in Accounts \ {a} :
              t.balance[d] = s.balance[d] + (IF d = payment.to THEN x ELSE 0)
        /\ \A d \in Accounts :
              t.schedules[d] = IF d = payment.to
                               THEN AddSchedules(s.schedules[d], payment.schedules, now)
                               ELSE s.schedules[d]

LEMMA PayFacts ==
    ASSUME NEW s, Underway(s), s.schedules \in [Accounts -> ListsOf], now \in Nat,
           NEW a \in Accounts, NEW payment \in Payments, payment.to # a
    PROVE  LET t == Pay(s, a, payment)
           IN  /\ t.schedules \in [Accounts -> ListsOf]
               /\ t.ok => s.ok /\ Pays(s, t, a, payment)
<1> DEFINE x == payment.amount
           to == payment.to
           taken == IF x = 0 THEN s ELSE Take(s, a, x)
           locks(q) == AddSchedules(q, payment.schedules, now)
           t == Pay(s, a, payment)
<1>1. /\ x \in Nat /\ to \in Accounts /\ payment.schedules \in Seq(Schedules)
      /\ s.balance \in [Accounts -> Nat]
      /\ {"ok", "balance", "issuance", "schedules"} \subseteq DOMAIN s
  BY DEF Payments, Underway, Purses
<1>2. CASE s.ok /\ CanTransfer(s, a, payment)
  <2> DEFINE paid == [taken EXCEPT !.balance[to] = @ + x, !.schedules[to] = locks(@)]
             left == IF x = 0 THEN s.balance ELSE [s.balance EXCEPT ![a] = Left(s, a, x)]
  <2>1. t = paid
    BY <1>2 DEF Pay
  <2>2. taken.balance = left /\ taken.schedules = s.schedules /\ DOMAIN taken = DOMAIN s
    <3>1. CASE x = 0
      BY <3>1
    <3>2. CASE x # 0
      <4>1. taken = [s EXCEPT !.balance[a] = Left(s, a, x), !.issuance = @ - Dust(s, a, x)]
        BY <3>2 DEF Take, Left, Dust
      <4> HIDE DEF x, taken
      <4>2. QED
        BY <1>1, <3>2, <4>1
    <3>3. QED
      BY <3>1, <3>2
  <2> HIDE DEF taken, left, locks
  <2>3. /\ paid.balance = [left EXCEPT ![to] = left[to] + x]
        /\ paid.schedules = [s.schedules EXCEPT ![to] = locks(s.schedules[to])]
    <3> HIDE DEF x, to
    <3>1. {"balance", "schedules"} \subseteq DOMAIN taken
      BY <1>1, <2>2
    <3>2. QED
      BY <2>2, <3>1
  <2>4. x = 0 \/ x <= s.balance[a]
    BY <1>2 DEF CanTransfer
  <2>5. \A q \in ListsOf : locks(q) \in ListsOf
    BY <1>1, AddedListTyped DEF locks
  <2>6. Left(s, a, x) \in Nat
    BY <1>1, <2>4, VestedCoinsAssumption DEF Left
  <2> HIDE DEF paid, t
  <2>7. t.schedules \in [Accounts -> ListsOf]
    BY <1>1, <2>1, <2>3, <2>5
  <2>8. /\ left \in [Accounts -> Nat] /\ left[a] = (IF x = 0 THEN s.balance[a] ELSE Left(s, a, x))
        /\ \A d \in Accounts \ {a} : left[d] = s.balance[d]
    BY <1>1, <2>6 DEF left
  <2>9. /\ t.balance[a] = left[a]
        /\ \A d \in Accounts \ {a} : t.balance[d] = left[d] + (IF d = to THEN x ELSE 0)
    BY <1>1, <2>1, <2>3, <2>8
  <2>10. \A d \in Accounts :
            t.schedules[d] = IF d = to THEN locks(s.schedules[d]) ELSE s.schedules[d]
    BY <1>1, <2>1, <2>3
  <2>11. Pays(s, t, a, payment)
    BY <2>4, <2>8, <2>9, <2>10 DEF Pays, locks
  <2>12. QED
    BY <1>2, <2>7, <2>11 DEF t
<1>3. CASE ~(s.ok /\ CanTransfer(s, a, payment))
  <2>1. t = [s EXCEPT !.ok = FALSE]
    BY <1>3 DEF Pay
  <2>2. ~ t.ok /\ t.schedules = s.schedules
    BY <1>1, <2>1
  <2>3. QED
    BY <2>2
<1>4. QED
  BY <1>2, <1>3

PaidAlong(h, a, list) ==
    /\ h[0] = Opening /\ h[Len(list)] = DoDistribution(a, list)
    /\ \A k \in 0..Len(list) :
          h[k].balance \in [Accounts -> Nat] /\ h[k].schedules \in [Accounts -> ListsOf]
    /\ \A k \in 0..Len(list) : k < Len(list) => Pays(h[k], h[k + 1], a, list[k + 1])

\* A distribution that succeeds has made all its payments.
LEMMA PaymentsMade ==
    ASSUME EconomicsInv, schedules \in [Accounts -> ListsOf],
           NEW a \in Accounts, NEW list \in Seq(Payments),
           \A i \in DOMAIN list : list[i].to # a, DoDistribution(a, list).ok
    PROVE  \E h : PaidAlong(h, a, list)
<1> DEFINE n == Len(list)
<1>1. n \in Nat /\ DOMAIN list = 1..n /\ \A i \in 1..n : list[i] \in Payments
  BY ElementOfSeq, LenProperties
<1>2. PICK h : PaysAlong(h, a, list)
  BY PayingSteps
<1>3. /\ h[0] = Opening /\ h[n] = DoDistribution(a, list)
      /\ \A k \in 0..n : Underway(h[k])
      /\ \A k \in 0..n : k < n => h[k + 1] = Pay(h[k], a, list[k + 1])
  BY <1>2 DEF PaysAlong
<1>4. now \in Nat
  BY DEF EconomicsInv
<1> DEFINE Locks(k) == h[k].schedules \in [Accounts -> ListsOf]
           Made(j) == Pays(h[j], h[j + 1], a, list[j + 1])
           Good(k) == Locks(k) /\ (h[k].ok => \A j \in 0..n : j < k => Made(j))
           G == {k \in 0..n : Good(k)}
<1> HIDE DEF n
<1>5. 0 \in G
  <2>1. Locks(0)
    BY <1>3 DEF Opening
  <2>2. \A j \in 0..n : ~(j < 0)
    BY <1>1
  <2> HIDE DEF Locks, Made
  <2>3. QED
    BY <1>1, <2>1, <2>2
<1>6. ASSUME NEW k \in 0..n, k \in G, k < n PROVE k + 1 \in G
  <2>1. k + 1 \in 0..n /\ list[k + 1] \in Payments /\ list[k + 1].to # a
    BY <1>1, <1>6
  <2>2. Underway(h[k]) /\ Locks(k) /\ h[k + 1] = Pay(h[k], a, list[k + 1])
    BY <1>3, <1>6
  <2>3. Locks(k + 1) /\ (h[k + 1].ok => h[k].ok /\ Made(k))
    BY <1>4, <2>1, <2>2, PayFacts
  <2>4. \A j \in 0..n : j < k + 1 => j < k \/ j = k
    BY <1>1
  <2>5. Good(k)
    BY <1>6
  <2> HIDE DEF Locks, Made
  <2>6. QED
    BY <2>1, <2>3, <2>4, <2>5
<1>7. \A k \in 0..n : Good(k)
  <2>1. \A k \in 0..n : k \in G /\ k < n => k + 1 \in G
    BY <1>6
  <2> HIDE DEF G
  <2>2. \A k \in 0..n : k \in G
    BY <1>1, <1>5, <2>1, CountingUp
  <2>3. QED
    BY <2>2 DEF G
<1>8. \A j \in 0..n : j < n => Made(j)
  BY <1>1, <1>3, <1>7
<1>9. \A k \in 0..n : h[k].balance \in [Accounts -> Nat]
  BY <1>3 DEF Underway, Purses
<1>10. \A k \in 0..n : Locks(k)
  BY <1>7
<1>11. PaidAlong(h, a, list)
  BY <1>3, <1>8, <1>9, <1>10 DEF PaidAlong, n
<1>12. QED
  BY <1>11

\* The fund pays the sum of the list, and loses what is left if that is dust.
LEMMA FundPays ==
    ASSUME balance \in [Accounts -> Nat], NEW a \in Accounts, NEW list \in Seq(Payments),
           NEW h, PaidAlong(h, a, list)
    PROVE  LET sum == Listed(list)
               left == balance[a] - sum
           IN  DoDistribution(a, list).balance[a]
                  = IF sum > 0 /\ left < ExistentialDeposit THEN 0 ELSE left
<1> DEFINE n == Len(list)
           f == [i \in DOMAIN list |-> list[i].amount]
           P(k) == SumFunctionOnSet(f, 1..k)
           own(k) == h[k].balance[a]
<1>1. n \in Nat /\ DOMAIN list = 1..n /\ \A i \in 1..n : list[i] \in Payments
  BY ElementOfSeq, LenProperties
<1>2. \A i \in 1..n : f[i] = list[i].amount /\ f[i] \in Nat
  BY <1>1 DEF Payments
<1>3. Listed(list) = P(n)
  <2>1. DOMAIN f = 1..n /\ Listed(list) = SumFunction(f)
    BY <1>1 DEF Listed
  <2> HIDE DEF f
  <2>2. QED
    BY <2>1 DEF SumFunction
<1>4. /\ own(0) = balance[a] /\ own(n) = DoDistribution(a, list).balance[a]
      /\ \A k \in 0..n : own(k) \in Nat
      /\ \A k \in 0..n : k < n => Pays(h[k], h[k + 1], a, list[k + 1])
  BY DEF PaidAlong, Opening
<1> HIDE DEF n, f
<1>5. \A k \in 0..n : P(k) \in Nat
  <2> SUFFICES ASSUME NEW k \in 0..n PROVE P(k) \in Nat
    OBVIOUS
  <2>1. k \in Nat /\ \A i \in 1..k : i \in 1..n
    BY <1>1
  <2>2. IsFiniteSet(1..k) /\ \A i \in 1..k : f[i] \in Nat
    BY <1>2, <2>1, FS_Interval
  <2>3. QED
    BY <2>2, SumNat
<1>6. balance[a] \in Nat /\ ExistentialDeposit \in Nat \ {0}
  BY VestedCoinsAssumption
<1> DEFINE b == balance[a]
           Rest(sum) == IF sum > 0 /\ b - sum < ExistentialDeposit THEN 0 ELSE b - sum
           Good(k) == P(k) <= b /\ own(k) = Rest(P(k))
           G == {k \in 0..n : Good(k)}
<1>7. 0 \in G
  <2>1. P(0) = 0
    BY SumStart
  <2> HIDE DEF P, own, b
  <2>2. Rest(0) = b
    BY <1>6 DEF b
  <2>3. Good(0)
    BY <1>4, <1>6, <2>1, <2>2 DEF b
  <2>4. QED
    BY <1>1, <2>3
<1>8. ASSUME NEW k \in 0..n, k \in G, k < n PROVE k + 1 \in G
  <2> DEFINE next == k + 1
             x == f[next]
  <2>1. next \in 1..n /\ next \in 0..n
    BY <1>1, <1>8
  <2>2. P(next) = P(k) + x
    <3>1. \A i \in 1..n : f[i] \in Int
      BY <1>2
    <3>2. n \in Nat /\ k \in 0..n /\ k < n
      BY <1>1, <1>8
    <3> HIDE DEF Good, G, own, b, Rest
    <3>3. QED
      BY <3>1, <3>2, SumNext
  <2>3. x \in Nat /\ x = list[next].amount /\ P(k) \in Nat /\ own(k) \in Nat
    BY <1>2, <1>4, <1>5, <2>1
  <2>4. /\ x = 0 \/ x <= own(k)
        /\ own(next) = IF x = 0 THEN own(k)
                       ELSE IF own(k) - x >= ExistentialDeposit THEN own(k) - x ELSE 0
    BY <1>4, <1>8, <2>3 DEF Pays, Left
  <2>5. P(k) <= b /\ own(k) = Rest(P(k))
    BY <1>8
  <2> HIDE DEF P, own, x, next, b
  <2>6. P(next) <= b /\ own(next) = Rest(P(next))
    <3>1. b \in Nat
      BY <1>6 DEF b
    <3>2. CASE x = 0
      BY <2>2, <2>3, <2>4, <2>5, <3>1, <3>2
    <3>3. CASE x # 0
      <4>1. x <= own(k) /\ own(k) > 0
        BY <2>3, <2>4, <3>3
      <4>2. own(k) = b - P(k)
        BY <2>5, <4>1
      <4>3. P(next) <= b /\ P(next) > 0 /\ own(k) - x = b - P(next)
        BY <2>2, <2>3, <3>1, <3>3, <4>1, <4>2
      <4>4. own(next) = IF b - P(next) >= ExistentialDeposit THEN b - P(next) ELSE 0
        BY <2>4, <3>3, <4>3
      <4>5. P(next) \in Nat
        BY <2>2, <2>3
      <4>6. QED
        BY <1>6, <3>1, <4>3, <4>4, <4>5
    <3>4. QED
      BY <3>2, <3>3
  <2>7. QED
    BY <2>1, <2>6 DEF next
<1>9. \A k \in 0..n : Good(k)
  <2>1. \A k \in 0..n : k \in G /\ k < n => k + 1 \in G
    BY <1>8
  <2> HIDE DEF G
  <2>2. \A k \in 0..n : k \in G
    BY <1>1, <1>7, <2>1, CountingUp
  <2>3. QED
    BY <2>2 DEF G
<1>10. Good(n)
  BY <1>1, <1>9
<1>11. QED
  BY <1>3, <1>4, <1>10

\* The values at the places of payments to d, and with zeros at the others.
Selected(list, d, v) == [i \in PaymentsTo(list, d) |-> v[i]]

Padded(list, d, v) == [i \in 1..Len(list) |-> IF list[i].to = d THEN v[i] ELSE 0]

LEMMA SumOfPayments ==
    ASSUME NEW list \in Seq(Payments), NEW d, NEW v, \A i \in DOMAIN list : v[i] \in Nat
    PROVE  LET z == Padded(list, d, v)
           IN  /\ SumFunction(Selected(list, d, v)) = SumFunctionOnSet(z, 1..Len(list))
               /\ \A k \in 0..Len(list) : SumFunctionOnSet(z, 1..k) \in Nat
               /\ \A k \in 0..Len(list) : k < Len(list) =>
                     SumFunctionOnSet(z, 1..(k + 1))
                        = SumFunctionOnSet(z, 1..k)
                             + (IF list[k + 1].to = d THEN v[k + 1] ELSE 0)
<1> DEFINE n == Len(list)
           f == Selected(list, d, v)
           z == Padded(list, d, v)
<1>1. n \in Nat /\ DOMAIN list = 1..n
  BY ElementOfSeq, LenProperties
<1>2. DOMAIN f \subseteq 1..n /\ \A i \in 1..n : z[i] \in Nat
  BY <1>1 DEF PaymentsTo, Selected, Padded
<1>3. /\ \A i \in DOMAIN f : f[i] \in Int
      /\ \A i \in 1..n : z[i] = IF i \in DOMAIN f THEN f[i] ELSE 0
  BY <1>1 DEF PaymentsTo, Selected, Padded
<1>4. \A k \in 0..n : k < n =>
         k + 1 \in 1..n /\ z[k + 1] = IF list[k + 1].to = d THEN v[k + 1] ELSE 0
  BY <1>1 DEF Padded
<1> HIDE DEF n, f, z
<1>5. SumFunction(f) = SumFunctionOnSet(z, 1..n)
  <2>1. IsFiniteSet(1..n)
    BY <1>1, FS_Interval
  <2>2. QED
    BY <1>2, <1>3, <2>1, TotalSelected
<1>6. ASSUME NEW k \in 0..n PROVE SumFunctionOnSet(z, 1..k) \in Nat
  <2>1. k \in Nat /\ \A i \in 1..k : i \in 1..n
    BY <1>1
  <2>2. IsFiniteSet(1..k) /\ \A i \in 1..k : z[i] \in Nat
    BY <1>2, <2>1, FS_Interval
  <2>3. QED
    BY <2>2, SumNat
<1>7. ASSUME NEW k \in 0..n, k < n
      PROVE  SumFunctionOnSet(z, 1..(k + 1)) = SumFunctionOnSet(z, 1..k) + z[k + 1]
  BY <1>1, <1>2, <1>7, SumNext
<1>8. QED
  BY <1>4, <1>5, <1>6, <1>7 DEF n, f, z

\* Everybody else gets what is listed for them.
LEMMA RecipientPaid ==
    ASSUME balance \in [Accounts -> Nat], NEW a \in Accounts, NEW list \in Seq(Payments),
           NEW h, PaidAlong(h, a, list), NEW d \in Accounts \ {a}
    PROVE  DoDistribution(a, list).balance[d] = balance[d] + PaidTo(list, d)
<1> DEFINE n == Len(list)
           v == [i \in DOMAIN list |-> list[i].amount]
           z == Padded(list, d, v)
           P(k) == SumFunctionOnSet(z, 1..k)
           has(k) == h[k].balance[d]
<1>1. n \in Nat /\ DOMAIN list = 1..n /\ \A i \in 1..n : list[i] \in Payments
  BY ElementOfSeq, LenProperties
<1>2. \A i \in 1..n : v[i] = list[i].amount /\ v[i] \in Nat
  BY <1>1 DEF Payments
<1>3. PaidTo(list, d) = SumFunction(Selected(list, d, v))
  <2>1. \A i \in PaymentsTo(list, d) : list[i].amount = v[i]
    BY DEF PaymentsTo
  <2>2. [i \in PaymentsTo(list, d) |-> list[i].amount] = [i \in PaymentsTo(list, d) |-> v[i]]
    BY <2>1
  <2>3. QED
    BY <2>2, Zenon DEF PaidTo, Selected
<1>4. /\ SumFunction(Selected(list, d, v)) = P(n)
      /\ \A k \in 0..n : P(k) \in Nat
      /\ \A k \in 0..n : k < n =>
            P(k + 1) = P(k) + (IF list[k + 1].to = d THEN v[k + 1] ELSE 0)
  <2>1. \A i \in DOMAIN list : v[i] \in Nat
    BY <1>1, <1>2
  <2> HIDE DEF v
  <2>2. QED
    BY <2>1, SumOfPayments
<1>5. /\ has(0) = balance[d] /\ has(n) = DoDistribution(a, list).balance[d]
      /\ \A k \in 0..n : has(k) \in Nat
      /\ \A k \in 0..n : k < n => Pays(h[k], h[k + 1], a, list[k + 1])
  BY DEF PaidAlong, Opening
<1> HIDE DEF n, v, z
<1> DEFINE Good(k) == has(k) = balance[d] + P(k)
           G == {k \in 0..n : Good(k)}
<1>6. 0 \in G
  <2>1. P(0) = 0 /\ balance[d] \in Nat
    BY SumStart
  <2> HIDE DEF P, has
  <2>2. QED
    BY <1>1, <1>5, <2>1
<1>7. ASSUME NEW k \in 0..n, k \in G, k < n PROVE k + 1 \in G
  <2> DEFINE next == k + 1
  <2>1. next \in 1..n /\ next \in 0..n
    BY <1>1, <1>7
  <2>2. has(next) = has(k) + (IF list[next].to = d THEN list[next].amount ELSE 0)
    BY <1>5, <1>7 DEF Pays
  <2>3. P(next) = P(k) + (IF list[next].to = d THEN list[next].amount ELSE 0)
    BY <1>2, <1>4, <1>7, <2>1
  <2>4. balance[d] \in Nat /\ P(k) \in Nat /\ list[next].amount \in Nat
    BY <1>2, <1>4, <2>1
  <2>5. has(k) = balance[d] + P(k)
    BY <1>7
  <2> HIDE DEF P, has, next
  <2>6. has(next) = balance[d] + P(next)
    BY <2>2, <2>3, <2>4, <2>5
  <2>7. QED
    BY <2>1, <2>6 DEF next
<1>8. \A k \in 0..n : Good(k)
  <2>1. \A k \in 0..n : k \in G /\ k < n => k + 1 \in G
    BY <1>7
  <2> HIDE DEF G
  <2>2. \A k \in 0..n : k \in G
    BY <1>1, <1>6, <2>1, CountingUp
  <2>3. QED
    BY <2>2 DEF G
<1>9. Good(n)
  BY <1>1, <1>8
<1>10. QED
  BY <1>3, <1>4, <1>5, <1>9

\* Nobody loses a lock, and who has room for all that is listed has all of it.
LEMMA LocksPromised ==
    ASSUME now \in Nat, schedules \in [Accounts -> ListsOf], NEW a \in Accounts,
           NEW list \in Seq(Payments), NEW h, PaidAlong(h, a, list), NEW d \in Accounts
    PROVE  LET before == TotalLockedAt(schedules[d], now)
               after == TotalLockedAt(DoDistribution(a, list).schedules[d], now)
           IN  /\ after >= before
               /\ Len(schedules[d]) + PromisedNumber(list, d) <= MaxSchedules
                     => after = before + PromisedLock(list, d, now)
<1> DEFINE n == Len(list)
           T(q) == TotalLockedAt(q, now)
           u == [i \in DOMAIN list |-> Cardinality(ValidPlaces(list[i].schedules))]
           v == [i \in DOMAIN list |-> ValidLock(list[i].schedules, now)]
           zu == Padded(list, d, u)
           zv == Padded(list, d, v)
           N(k) == SumFunctionOnSet(zu, 1..k)
           L(k) == SumFunctionOnSet(zv, 1..k)
           has(k) == h[k].schedules[d]
<1>1. /\ n \in Nat /\ DOMAIN list = 1..n
      /\ \A i \in 1..n : list[i] \in Payments /\ list[i].schedules \in Seq(Schedules)
  <2>1. n \in Nat /\ DOMAIN list = 1..n /\ \A i \in 1..n : list[i] \in Payments
    BY ElementOfSeq, LenProperties
  <2>2. \A payment \in Payments : payment.schedules \in Seq(Schedules)
    BY DEF Payments
  <2>3. QED
    BY <2>1, <2>2
<1>2. \A i \in DOMAIN list : u[i] \in Nat /\ v[i] \in Nat
  <2>1. \A q \in Seq(Schedules) : Cardinality(ValidPlaces(q)) \in Nat /\ ValidLock(q, now) \in Nat
    BY EmptyListed, SchedulesAdded
  <2>2. QED
    BY <1>1, <2>1
<1>3. /\ PromisedNumber(list, d) = SumFunction(Selected(list, d, u))
      /\ PromisedLock(list, d, now) = SumFunction(Selected(list, d, v))
  <2>1. PaymentsTo(list, d) \subseteq DOMAIN list
    BY DEF PaymentsTo
  <2>2. /\ [i \in PaymentsTo(list, d) |-> Cardinality(ValidPlaces(list[i].schedules))]
              = [i \in PaymentsTo(list, d) |-> u[i]]
        /\ [i \in PaymentsTo(list, d) |-> ValidLock(list[i].schedules, now)]
              = [i \in PaymentsTo(list, d) |-> v[i]]
    BY <2>1
  <2>3. QED
    BY <2>2, Zenon DEF PromisedNumber, PromisedLock, Selected
<1>4. /\ SumFunction(Selected(list, d, u)) = N(n)
      /\ \A k \in 0..n : N(k) \in Nat
      /\ \A k \in 0..n : k < n => N(k + 1) = N(k) + (IF list[k + 1].to = d THEN u[k + 1] ELSE 0)
  <2>1. \A i \in DOMAIN list : u[i] \in Nat
    BY <1>2
  <2> HIDE DEF u, v, zv, L, T, has
  <2>2. QED
    BY <2>1, SumOfPayments
<1>5. /\ SumFunction(Selected(list, d, v)) = L(n)
      /\ \A k \in 0..n : L(k) \in Nat
      /\ \A k \in 0..n : k < n => L(k + 1) = L(k) + (IF list[k + 1].to = d THEN v[k + 1] ELSE 0)
  <2>1. \A i \in DOMAIN list : v[i] \in Nat
    BY <1>2
  <2> HIDE DEF u, v, zu, N, T, has
  <2>2. QED
    BY <2>1, SumOfPayments
<1>6. /\ has(0) = schedules[d] /\ has(n) = DoDistribution(a, list).schedules[d]
      /\ \A k \in 0..n : has(k) \in ListsOf
      /\ \A k \in 0..n : k < n => Pays(h[k], h[k + 1], a, list[k + 1])
  BY DEF PaidAlong, Opening
<1>7. \A q \in ListsOf : T(q) \in Nat /\ Len(q) \in Nat
  BY LockedParts, LenProperties DEF ListsOf
<1> DEFINE q0 == schedules[d]
           Good(k) == /\ T(q0) <= T(has(k))
                      /\ Len(has(k)) <= Len(q0) + N(k)
                      /\ Len(q0) + N(k) <= MaxSchedules => T(has(k)) = T(q0) + L(k)
           G == {k \in 0..n : Good(k)}
<1>8. q0 \in ListsOf
  OBVIOUS
<1> HIDE DEF n, zu, zv, T, q0
<1>9. 0 \in G
  <2>1. N(0) = 0 /\ L(0) = 0
    BY SumStart
  <2>2. has(0) = q0
    BY <1>6 DEF q0
  <2> HIDE DEF N, L, has
  <2>3. QED
    BY <1>1, <1>7, <1>8, <2>1, <2>2
<1>10. ASSUME NEW k \in 0..n, k \in G, k < n PROVE k + 1 \in G
  <2> DEFINE next == k + 1
             p == has(k)
             q == has(next)
             extra == list[next].schedules
  <2>1. /\ next \in 1..n /\ next \in 0..n /\ next \in DOMAIN list
        /\ extra \in Seq(Schedules) /\ p \in ListsOf /\ q \in ListsOf
    BY <1>1, <1>6, <1>10
  <2>2. q = IF list[next].to = d THEN AddSchedules(p, extra, now) ELSE p
    BY <1>6, <1>10 DEF Pays
  <2>3. /\ N(next) = N(k) + (IF list[next].to = d THEN u[next] ELSE 0)
        /\ L(next) = L(k) + (IF list[next].to = d THEN v[next] ELSE 0)
    BY <1>4, <1>5, <1>10
  <2>4. /\ T(p) <= T(AddSchedules(p, extra, now))
        /\ Len(AddSchedules(p, extra, now)) <= Len(p) + u[next]
        /\ Len(p) + u[next] <= MaxSchedules => T(AddSchedules(p, extra, now)) = T(p) + v[next]
    <3>1. u[next] = Cardinality(ValidPlaces(extra)) /\ v[next] = ValidLock(extra, now)
      BY <2>1
    <3> HIDE DEF u, v, p, extra
    <3>2. QED
      BY <2>1, <3>1, SchedulesAdded DEF T
  <2>5. /\ T(p) \in Nat /\ T(q) \in Nat /\ T(q0) \in Nat
        /\ Len(p) \in Nat /\ Len(q) \in Nat /\ Len(q0) \in Nat
        /\ N(k) \in Nat /\ L(k) \in Nat /\ N(next) \in Nat /\ L(next) \in Nat
        /\ u[next] \in Nat /\ v[next] \in Nat /\ MaxSchedules \in Nat
    BY <1>2, <1>4, <1>5, <1>7, <1>8, <2>1, VestedCoinsAssumption
  <2>6. /\ T(q0) <= T(p) /\ Len(p) <= Len(q0) + N(k)
        /\ Len(q0) + N(k) <= MaxSchedules => T(p) = T(q0) + L(k)
    BY <1>10
  <2> HIDE DEF N, L, u, v, extra, p, q, next
  <2>7. /\ T(q0) <= T(q) /\ Len(q) <= Len(q0) + N(next)
        /\ Len(q0) + N(next) <= MaxSchedules => T(q) = T(q0) + L(next)
    <3>1. CASE list[next].to = d
      <4> DEFINE tp == T(p)
                 tq == T(q)
                 t0 == T(q0)
                 sp == Len(p)
                 sq == Len(q)
                 s0 == Len(q0)
                 nk == N(k)
                 lk == L(k)
                 un == u[next]
                 vn == v[next]
                 nn == N(next)
                 ln == L(next)
      <4>1. q = AddSchedules(p, extra, now) /\ nn = nk + un /\ ln = lk + vn
        BY <2>2, <2>3, <3>1
      <4>2. tp <= tq /\ sq <= sp + un /\ (sp + un <= MaxSchedules => tq = tp + vn)
        BY <2>4, <4>1
      <4>3. /\ tp \in Nat /\ tq \in Nat /\ t0 \in Nat
            /\ sp \in Nat /\ sq \in Nat /\ s0 \in Nat
            /\ nk \in Nat /\ lk \in Nat /\ un \in Nat /\ vn \in Nat /\ MaxSchedules \in Nat
        BY <2>5
      <4>4. t0 <= tp /\ sp <= s0 + nk /\ (s0 + nk <= MaxSchedules => tp = t0 + lk)
        BY <2>6
      <4> HIDE DEF tp, tq, t0, sp, sq, s0, nk, lk, un, vn, nn, ln
      <4>5. t0 <= tq /\ sq <= s0 + nn /\ (s0 + nn <= MaxSchedules => tq = t0 + ln)
        BY <4>1, <4>2, <4>3, <4>4
      <4>6. QED
        BY <4>5 DEF tq, t0, sq, s0, nn, ln
    <3>2. CASE list[next].to # d
      BY <2>2, <2>3, <2>5, <2>6, <3>2
    <3>3. QED
      BY <3>1, <3>2
  <2>8. QED
    BY <2>1, <2>7 DEF next, q
<1>11. \A k \in 0..n : Good(k)
  <2>1. \A k \in 0..n : k \in G /\ k < n => k + 1 \in G
    BY <1>10
  <2> HIDE DEF G
  <2>2. \A k \in 0..n : k \in G
    BY <1>1, <1>9, <2>1, CountingUp
  <2>3. QED
    BY <2>2 DEF G
<1>12. Good(n) /\ T(has(n)) \in Nat /\ T(q0) \in Nat
  <2> HIDE DEF Good, has
  <2>1. n \in 0..n
    BY <1>1
  <2>2. QED
    BY <1>6, <1>7, <1>8, <1>11, <2>1
<1> HIDE DEF N, L, u, v, has
<1>13. QED
  BY <1>3, <1>4, <1>5, <1>6, <1>12 DEF T, q0

LEMMA DistributeStep ==
    ASSUME EconomicsInv, NEW f \in Funds, NEW m, NEW list \in Distributions,
           Distribute(f, m, list), UNCHANGED <<settings, liquidity, owed, adjusted, calls>>
    PROVE  EconomicsInv' /\ SettledFirst /\ adjusted' = adjusted
<1> DEFINE done == DoDistribution(FundAccount[f], list)
<1>1. FundAccount[f] \in Accounts /\ list \in Seq(Payments)
  BY PublicFundsAssumption
<1>2. Underway(done)
  BY <1>1, DistributionForm
<1>3. balance' = done.balance /\ issuance' = done.issuance /\ now' = now
  BY DEF Distribute, CoinsBecome
<1> HIDE DEF done
<1> DEFINE s == [balance |-> done.balance, issuance |-> done.issuance]
<1>4. s \in Purses /\ Unaccounted(s) = 0 /\ done.issuance <= issuance
  BY <1>2 DEF Underway, Unaccounted
<1>5. balance' = s.balance /\ issuance' = s.issuance
  BY <1>3
<1>6. balance' \in [Accounts -> Nat] /\ issuance' \in Int /\ issuance' <= issuance
  BY <1>3, <1>4, <1>5 DEF Purses
<1> HIDE DEF s
<1>7. IssuanceMatches'
  BY <1>4, <1>5, AccountedFor
<1>8. SettledFirst
  BY <1>6 DEF SettledFirst, EconomicsInv, EconomicsTypeOK
<1>9. QED
  BY <1>3, <1>6, <1>7, <1>8
     DEF settings, EconomicsInv, EconomicsTypeOK, PointsInOrder

LEMMA EconomyStep ==
    EconomicsInv /\ [EconomyNext]_economyVars
        => EconomicsInv' /\ [SettledFirst]_allEconomicsVars
<1> SUFFICES ASSUME EconomicsInv, [EconomyNext]_economyVars
             PROVE  EconomicsInv' /\ [SettledFirst]_allEconomicsVars
  OBVIOUS
<1>1. CASE EconomicsNext \/ UNCHANGED economyVars
  BY <1>1, EconomicsStep DEF economyVars
<1>2. ASSUME PublicNext, UNCHANGED <<settings, liquidity, owed, adjusted, calls>>
      PROVE  EconomicsInv' /\ SettledFirst
  <2>1. ASSUME NEW f \in Funds, NEW m \in Managers, NEW list \in Distributions,
               Distribute(f, m, list)
        PROVE  EconomicsInv' /\ SettledFirst
    BY <1>2, <2>1, DistributeStep
  <2>2. ASSUME NEW f \in Funds, NEW m \in Managers, SetManager(f, m)
        PROVE  EconomicsInv' /\ SettledFirst
    BY <1>2, <2>2, IssuanceKept
       DEF SetManager, settings, EconomicsInv, EconomicsTypeOK, PointsInOrder, SettledFirst
  <2>3. QED
    BY <1>2, <2>1, <2>2 DEF PublicNext
<1>3. QED
  BY <1>1, <1>2 DEF EconomyNext

LEMMA EconomyInvariant == EconomySpec => []EconomicsInv
<1>1. EconomyInit => EconomicsInv
  BY EconomicsStarts DEF EconomyInit
<1>2. QED
  BY <1>1, EconomyStep, PTL DEF EconomySpec

-----------------------------------------------------------------------------
(* What distributions need: the lists of all accounts, and what was recorded. *)

Distributed == [fund : Funds, by : Managers, list : Distributions]

FundsInv ==
    /\ schedules \in [Accounts -> ListsOf]
    /\ distributed \in Seq(Distributed)

\* What the property says of a distribution of list out of the account of f.
DoneAsListed(f, list) ==
    LET a == FundAccount[f]
        sum == Listed(list)
        left == balance[a] - sum
    IN  /\ balance'[a] = IF sum > 0 /\ left < ExistentialDeposit THEN 0 ELSE left
        /\ \A d \in Accounts \ {a} : balance'[d] = balance[d] + PaidTo(list, d)
        /\ \A d \in Accounts :
              LET before == TotalLockedAt(schedules[d], now)
                  after == TotalLockedAt(schedules'[d], now)
              IN  /\ after >= before
                  /\ Len(schedules[d]) + PromisedNumber(list, d) <= MaxSchedules
                        => after = before + PromisedLock(list, d, now)

LEMMA DistributeDone ==
    ASSUME EconomicsInv, FundsInv, NEW f \in Funds, NEW m \in Managers,
           NEW list \in Distributions, Distribute(f, m, list)
    PROVE  /\ FundsInv' /\ DoneAsListed(f, list)
           /\ distributed'[Len(distributed')] = [fund |-> f, by |-> m, list |-> list]
<1> DEFINE a == FundAccount[f]
           done == DoDistribution(a, list)
           record == [fund |-> f, by |-> m, list |-> list]
<1>1. a \in Accounts /\ list \in Seq(Payments) /\ \A i \in DOMAIN list : list[i].to # a
  BY PublicFundsAssumption
<1>2. /\ balance' = done.balance /\ schedules' = done.schedules /\ done.ok
      /\ distributed' = Append(distributed, record)
  BY DEF Distribute, CoinsBecome
<1>3. /\ balance \in [Accounts -> Nat] /\ now \in Nat
      /\ schedules \in [Accounts -> ListsOf] /\ distributed \in Seq(Distributed)
  BY DEF EconomicsInv, EconomicsTypeOK, FundsInv
<1>4. record \in Distributed
  BY DEF Distributed
<1>5. distributed' \in Seq(Distributed) /\ distributed'[Len(distributed')] = record
  <2> HIDE DEF record
  <2>1. QED
    BY <1>2, <1>3, <1>4, AppendProperties
<1> HIDE DEF done, a
<1>6. PICK h : PaidAlong(h, a, list)
  BY <1>1, <1>2, <1>3, PaymentsMade DEF done
<1>7. schedules' \in [Accounts -> ListsOf]
  <2>1. Len(list) \in 0..Len(list)
    BY <1>1, LenProperties
  <2>2. QED
    BY <1>2, <1>6, <2>1 DEF PaidAlong, done
<1>8. balance'[a] = LET sum == Listed(list)
                        left == balance[a] - sum
                    IN  IF sum > 0 /\ left < ExistentialDeposit THEN 0 ELSE left
  BY <1>1, <1>2, <1>3, <1>6, FundPays DEF done
<1>9. \A d \in Accounts \ {a} : balance'[d] = balance[d] + PaidTo(list, d)
  BY <1>1, <1>2, <1>3, <1>6, RecipientPaid DEF done
<1>10. \A d \in Accounts :
          LET before == TotalLockedAt(schedules[d], now)
              after == TotalLockedAt(schedules'[d], now)
          IN  /\ after >= before
              /\ Len(schedules[d]) + PromisedNumber(list, d) <= MaxSchedules
                    => after = before + PromisedLock(list, d, now)
  BY <1>1, <1>2, <1>3, <1>6, LocksPromised DEF done
<1>11. DoneAsListed(f, list)
  BY <1>8, <1>9, <1>10 DEF DoneAsListed, a
<1>12. QED
  BY <1>5, <1>7, <1>11 DEF FundsInv, record

AsListed ==
    distributed' # distributed =>
        LET last == distributed'[Len(distributed')]
        IN  DoneAsListed(last.fund, last.list)

LEMMA FundsStep ==
    EconomicsInv /\ FundsInv /\ [EconomyNext]_economyVars => FundsInv' /\ AsListed
<1> SUFFICES ASSUME EconomicsInv, FundsInv, [EconomyNext]_economyVars
             PROVE  FundsInv' /\ AsListed
  OBVIOUS
<1>1. CASE UNCHANGED <<schedules, distributed>>
  BY <1>1 DEF FundsInv, AsListed
<1>2. ASSUME EconomicsNext PROVE schedules' = schedules
  <2>1. ASSUME NEW x, NEW a, PayReward(a, x) PROVE schedules' = schedules
    BY <2>1 DEF PayReward
  <2>2. ASSUME NEW n, NEW custody, NEW ratio, EndEra(n, custody, ratio)
        PROVE  schedules' = schedules
    BY <2>2 DEF EndEra
  <2>3. CASE Administrate
    BY <2>3 DEF Administrate, SetInflationParams, SetInterestPoints,
                SetLiquidityRewardsStake, SetLiquidityRewardsBalance, Called
  <2>4. ASSUME NEW payer, NEW fee, NEW tip, NEW author, PayFees(payer, fee, tip, author)
        PROVE  schedules' = schedules
    BY <2>4 DEF PayFees, Called
  <2>5. CASE BridgeAdjust
    BY <2>5 DEF BridgeAdjust
  <2>6. QED
    BY <1>2, <2>1, <2>2, <2>3, <2>4, <2>5 DEF EconomicsNext
<1>3. ASSUME NEW f \in Funds, NEW m \in Managers, NEW list \in Distributions,
             Distribute(f, m, list)
      PROVE  FundsInv' /\ AsListed
  <2>1. /\ FundsInv' /\ DoneAsListed(f, list)
        /\ distributed'[Len(distributed')] = [fund |-> f, by |-> m, list |-> list]
    BY <1>3, DistributeDone
  <2>2. AsListed
    BY <2>1 DEF AsListed
  <2>3. QED
    BY <2>1, <2>2
<1>4. ASSUME NEW f, NEW m, SetManager(f, m) PROVE UNCHANGED <<schedules, distributed>>
  BY <1>4 DEF SetManager
<1>5. CASE UNCHANGED economyVars
  BY <1>1, <1>5 DEF economyVars, allEconomicsVars, publicVars
<1>6. QED
  BY <1>1, <1>2, <1>3, <1>4, <1>5 DEF EconomyNext, PublicNext, publicVars

LEMMA EconomyTyped == EconomySpec => [](EconomicsInv /\ FundsInv)
<1>1. EconomyInit => EconomicsInv /\ FundsInv
  <2> SUFFICES ASSUME EconomyInit PROVE EconomicsInv /\ FundsInv
    OBVIOUS
  <2>1. EconomicsInv
    BY EconomicsStarts DEF EconomyInit
  <2>2. schedules = [a \in Accounts |-> << >>] /\ distributed = << >>
    BY DEF EconomyInit, EconomicsInit, PublicInit
  <2>3. distributed \in Seq(Distributed)
    BY <2>2
  <2>4. QED
    BY <2>1, <2>2, <2>3, EmptyListed DEF FundsInv
<1>2. QED
  BY <1>1, EconomyStep, FundsStep, PTL DEF EconomySpec

-----------------------------------------------------------------------------
(* The results. *)

\* No amount is ever negative: no account, no liquidity rewards, nothing that is
\* granted (era_payout, update_liquidity_rewards, the fee split).
THEOREM EconomicsTypeCorrect == EconomicsSpec => []EconomicsTypeOK
<1>1. EconomicsInv => EconomicsTypeOK
  BY DEF EconomicsInv
<1>2. QED
  BY <1>1, EconomicsInvariant, PTL

\* The points are in the order of their blocks, in whatever order they were
\* submitted, and none gets lost: unless an empty list is set, no end of an era
\* panics (set_interest_points, get_ideal_interest).
THEOREM PointsStayInOrder == EconomicsSpec => []PointsInOrder
<1>1. EconomicsInv => PointsInOrder
  BY DEF EconomicsInv
<1>2. QED
  BY <1>1, EconomicsInvariant, PTL

\* As long as the pool can pay, nothing is minted for a reward or a remainder, for
\* any rewards, parameters and order of steps (on_nonzero_unbalanced,
\* RewardRemainderAdapter).
THEOREM PoolFirst == EconomicsSpec => PoolPaysFirst
<1>1. EconomicsInv /\ [EconomicsNext]_allEconomicsVars
          => [issuance' > issuance => balance'[RewardsPool] = 0]_allEconomicsVars
  BY EconomicsStep DEF SettledFirst
<1>2. QED
  BY <1>1, EconomicsInvariant, PTL DEF EconomicsSpec, PoolPaysFirst

\* The interest of every block is between those of two points of the list,
\* whatever list is submitted (compute_ideal_interest, which divides block
\* numbers).
THEOREM InterestStaysWithin == EconomicsSpec => []InterestWithinPoints
<1>1. ASSUME EconomicsInv PROVE InterestWithinPoints
  <2>1. points \in Seq(Points) \ {<<>>}
    BY <1>1 DEF EconomicsInv, EconomicsTypeOK, PointsInOrder
  <2>2. \A block \in 0..MaxBlock : block \in Nat
    BY VestedCoinsAssumption
  <2>3. QED
    BY <2>1, <2>2, InterestBetween DEF InterestWithinPoints
<1>2. QED
  BY <1>1, EconomicsInvariant, PTL

\* On a curve like that of the example the interest of every block is the one
\* between its points, in whatever order they were submitted and however long
\* the slopes and the eras are (set_interest_points, compute_ideal_interest).
THEOREM CurveIsFollowed == EconomySpec => []InterestFollowsCurve
<1>1. ASSUME EconomicsInv PROVE InterestFollowsCurve
  <2>1. points \in Seq(Points) \ {<<>>}
        /\ \A i, j \in DOMAIN points : i < j => points[i].block <= points[j].block
    BY <1>1 DEF EconomicsInv, EconomicsTypeOK, PointsInOrder
  <2>2. \A block \in 0..MaxBlock : block \in Nat
    BY VestedCoinsAssumption
  <2>3. QED
    BY <2>1, <2>2, SortedFollows DEF InterestFollowsCurve
<1>2. QED
  BY <1>1, EconomyInvariant, PTL

\* The migration takes from the bridge what it gives to the pool, and leaves the
\* stakeable coins as they are if the liquidity rewards were as expected: what
\* its post_upgrade asserts (BridgeAdjust).
THEOREM MigrationNeutral == EconomicsSpec => AdjustKeepsStakeable
<1>1. ASSUME EconomicsInv, BridgeAdjust
      PROVE  /\ balance'[RewardsPool] + balance'[BridgeAccount]
                   = balance[RewardsPool] + balance[BridgeAccount]
             /\ liquidity = AdjustLiquidity + AdjustTransfer =>
                   \A custody \in CustodyTotals :
                       Stakeable(custody)' = Stakeable(custody)
  <2>1. /\ balance \in [Accounts -> Nat] /\ liquidity \in Nat
        /\ SystemAccounts \subseteq Accounts
    BY <1>1, EconomicsAssumption DEF EconomicsInv, EconomicsTypeOK
  <2>2. /\ balance[RewardsPool] \in Nat /\ balance[BridgeAccount] \in Nat
        /\ balance[TestnetFund] \in Nat /\ balance[SaleFund] \in Nat
        /\ AdjustTransfer \in Nat /\ AdjustLiquidity \in Nat
        /\ CustodyTotals \subseteq Nat
    BY <2>1, EconomicsAssumption DEF SystemAccounts
  <2>3. /\ balance'[RewardsPool] = balance[RewardsPool] + AdjustTransfer
        /\ balance'[BridgeAccount] = balance[BridgeAccount] - AdjustTransfer
        /\ balance'[TestnetFund] = balance[TestnetFund]
        /\ balance'[SaleFund] = balance[SaleFund]
        /\ liquidity' = AdjustLiquidity /\ issuance' = issuance
    BY <1>1, <2>1, EconomicsAssumption DEF BridgeAdjust, SystemAccounts
  <2>4. ASSUME liquidity = AdjustLiquidity + AdjustTransfer, NEW custody \in CustodyTotals
        PROVE  Stakeable(custody)' = Stakeable(custody)
    <3>1. balance'[RewardsPool] + custody + liquidity' + balance'[TestnetFund]
              + balance'[SaleFund]
            = balance[RewardsPool] + custody + liquidity + balance[TestnetFund]
                 + balance[SaleFund]
      BY <2>2, <2>3, <2>4
    <3>2. QED
      BY <2>3, <3>1 DEF Stakeable
  <2>5. QED
    BY <2>2, <2>3, <2>4
<1>2. EconomicsInv /\ [EconomicsNext]_allEconomicsVars
          => [ adjusted' # adjusted =>
                 /\ balance'[RewardsPool] + balance'[BridgeAccount]
                       = balance[RewardsPool] + balance[BridgeAccount]
                 /\ liquidity = AdjustLiquidity + AdjustTransfer =>
                       \A custody \in CustodyTotals :
                           Stakeable(custody)' = Stakeable(custody) ]_allEconomicsVars
  BY <1>1, EconomicsStep
<1>3. QED
  BY <1>2, EconomicsInvariant, PTL DEF EconomicsSpec, AdjustKeepsStakeable

-----------------------------------------------------------------------------
(* The economics pallet together with the public funds. *)

\* Whoever is rewarded, pays fees or is paid out of the public funds, and
\* whatever is burnt, minted or lost as dust on the way: the issuance stays the
\* sum of all accounts, for any amounts and lists of payments
\* (on_nonzero_unbalanced, RewardRemainderAdapter, DealWithFees, do_distribution).
THEOREM IssuanceFollowsAccounts == EconomySpec => []IssuanceMatches
<1>1. EconomicsInv => IssuanceMatches
  BY DEF EconomicsInv
<1>2. QED
  BY <1>1, EconomyInvariant, PTL

\* The coins of the pool and of the funds are not stakeable, and all others are
\* but for those under custody and the liquidity rewards
\* (compute_total_stakeable, which subtracts them from the issuance).
THEOREM StakeableKept == EconomySpec => []StakeableIsTheRest
<1>1. ASSUME EconomicsInv PROVE StakeableIsTheRest
  <2> DEFINE A == Accounts \ {RewardsPool}
             B == A \ {TestnetFund}
             R == Accounts \ {RewardsPool, TestnetFund, SaleFund}
             rest == [a \in R |-> balance[a]]
  <2>1. /\ balance \in [Accounts -> Nat] /\ liquidity \in Nat
        /\ CustodyTotals \subseteq Nat
        /\ RewardsPool \in Accounts /\ TestnetFund \in A /\ SaleFund \in B
        /\ B \ {SaleFund} = R
    BY <1>1, EconomicsAssumption DEF EconomicsInv, EconomicsTypeOK, SystemAccounts
  <2>2. /\ IsFiniteSet(Accounts) /\ IsFiniteSet(A) /\ IsFiniteSet(B) /\ IsFiniteSet(R)
    BY VestedCoinsAssumption, FS_Subset
  <2>3. /\ \A a \in Accounts : balance[a] \in Int /\ balance[a] \in Nat
        /\ \A a \in A : balance[a] \in Int
        /\ \A a \in B : balance[a] \in Int
        /\ \A a \in R : balance[a] \in Nat /\ balance[a] = rest[a]
        /\ DOMAIN balance = Accounts /\ DOMAIN rest = R
    BY <2>1
  <2> HIDE DEF A, B, R, rest
  <2>4. /\ SumFunctionOnSet(balance, Accounts)
              = balance[RewardsPool] + SumFunctionOnSet(balance, Accounts \ {RewardsPool})
        /\ SumFunctionOnSet(balance, A)
              = balance[TestnetFund] + SumFunctionOnSet(balance, A \ {TestnetFund})
        /\ SumFunctionOnSet(balance, B)
              = balance[SaleFund] + SumFunctionOnSet(balance, B \ {SaleFund})
    BY <2>1, <2>2, <2>3, SumRemove
  <2>5. /\ SumFunctionOnSet(balance, Accounts \ {RewardsPool}) = SumFunctionOnSet(balance, A)
        /\ SumFunctionOnSet(balance, A \ {TestnetFund}) = SumFunctionOnSet(balance, B)
    BY DEF A, B
  <2>6. SumFunctionOnSet(balance, B \ {SaleFund}) = SumFunctionOnSet(balance, R)
    BY <2>1, Zenon
  <2>7. SumFunctionOnSet(balance, R) \in Nat
    BY <2>2, <2>3, SumNat
  <2>8. SumFunction(rest) = SumFunctionOnSet(balance, R)
    <3>1. SumFunctionOnSet(balance, R) = SumFunctionOnSet(rest, R)
      BY <2>2, <2>3, SumSame
    <3>2. SumFunction(rest) = SumFunctionOnSet(rest, R)
      BY <2>3, Zenon DEF SumFunction
    <3>3. QED
      BY <3>1, <3>2
  <2>9. issuance = SumFunctionOnSet(balance, Accounts)
    BY <1>1, <2>3, Zenon DEF EconomicsInv, IssuanceMatches, SumFunction
  <2>10. /\ balance[RewardsPool] \in Nat /\ balance[TestnetFund] \in Nat
         /\ balance[SaleFund] \in Nat
    BY <2>1, <2>3 DEF A, B
  <2>11. ASSUME NEW custody \in CustodyTotals
         PROVE  Stakeable(custody) = Monus(SumFunction(rest), custody + liquidity)
    <3>1. custody \in Nat
      BY <2>1
    <3>2. issuance = SumFunction(rest) + balance[RewardsPool] + balance[TestnetFund]
                        + balance[SaleFund]
      BY <2>4, <2>5, <2>6, <2>7, <2>8, <2>9, <2>10
    <3>3. QED
      BY <2>1, <2>7, <2>8, <2>10, <3>1, <3>2 DEF Stakeable, Monus
  <2>12. QED
    BY <2>11 DEF StakeableIsTheRest, rest, R
<1>2. QED
  BY <1>1, EconomyInvariant, PTL

\* Nor does a distribution mint anything that the pool could pay.
THEOREM PoolFirstWithFunds == EconomySpec => PoolPaysFirst
<1>1. EconomicsInv /\ [EconomyNext]_economyVars
          => [issuance' > issuance => balance'[RewardsPool] = 0]_allEconomicsVars
  BY EconomyStep DEF SettledFirst
<1>2. QED
  BY <1>1, EconomyInvariant, PTL DEF EconomySpec, PoolPaysFirst

\* On a curve that falls, no era has a higher interest than the era before it,
\* for every curve and every length of eras (compute_ideal_interest, which
\* shifts all eras but the first ones to their middle).
THEOREM InterestNeverRises == EconomySpec => InterestFalls
<1> DEFINE Falls ==
        /\ now' > now
        /\ now < EraDuration /\ EraDuration <= now' => 2 * (now' - now) >= EraDuration
        /\ \A i, j \in DOMAIN points : i < j => points[i].interest >= points[j].interest
        => IdealInterest(points, now') <= IdealInterest(points, now)
<1>1. EconomicsInv /\ EconomicsInv' /\ [EconomyNext]_economyVars => [Falls]_allEconomicsVars
  <2> SUFFICES ASSUME EconomicsInv, EconomicsInv', now' > now,
                      now < EraDuration /\ EraDuration <= now' => 2 * (now' - now) >= EraDuration,
                      \A i, j \in DOMAIN points : i < j => points[i].interest >= points[j].interest
               PROVE  IdealInterest(points, now') <= IdealInterest(points, now)
    OBVIOUS
  <2>1. now \in Nat /\ now' \in Nat /\ points \in Seq(Points) \ {<<>>}
    BY DEF EconomicsInv, EconomicsTypeOK, PointsInOrder
  <2>2. EraMidpoint(now) <= EraMidpoint(now')
    BY <2>1, MidpointsInOrder
  <2>3. QED
    BY <2>1, <2>2, CurveFalls
<1>2. EconomySpec => [][Falls]_allEconomicsVars
  <2> HIDE DEF Falls
  <2>1. QED
    BY <1>1, EconomyInvariant, PTL DEF EconomySpec
<1>3. QED
  BY <1>2 DEF InterestFalls

\* A distribution of the public funds, which tests the sum of its list once,
\* transfers one by one and ignores the errors of add_vesting_schedule, pays and
\* locks as its list says (do_distribution).
THEOREM DistributionsKeepToTheList == EconomySpec => DistributedAsListed
<1>1. EconomicsInv /\ FundsInv /\ [EconomyNext]_economyVars
         => [AsListed]_<<balance, schedules, now, publicVars>>
  BY FundsStep
<1>2. EconomySpec => [][AsListed]_<<balance, schedules, now, publicVars>>
  BY <1>1, EconomyTyped, PTL DEF EconomySpec
<1>3. QED
  BY <1>2 DEF DistributedAsListed, AsListed, DoneAsListed
=============================================================================

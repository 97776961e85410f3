-------------------------- MODULE VestedCoins_proofs --------------------------
(***************************************************************************)
(* Lemmas about the vesting schedules of an account.  pallet_vesting goes  *)
(* through a list once, to drop what is finished, and the pallets of this  *)
(* chain go through the lists that they add: both are folds, taken apart   *)
(* here into the lists that an account has on the way.                     *)
(***************************************************************************)
EXTENDS VestedCoins, Sums, TLAPS

Step(adding, q, s, n) ==
    IF adding THEN AddSchedule(q, s, n)
    ELSE IF LockedAt(s, n) > 0 THEN Append(q, s) ELSE q

\* g is what has become of base after each set of places of the list, of which
\* the highest comes last.
IsFolding(g, adding, base, list, n, S) ==
    g = [s \in SUBSET S |->
            IF s = {} THEN base
            ELSE Step(adding, g[s \ {Seqs!Max(s)}], list[Seqs!Max(s)], n)]

Folded(adding, base, list, n) ==
    (CHOOSE g : IsFolding(g, adding, base, list, n, DOMAIN list))[DOMAIN list]

LEMMA FoldDefs ==
    ASSUME NEW base, NEW list, NEW n
    PROVE  /\ Unfinished(list, n) = Folded(FALSE, <<>>, list, n)
           /\ AddSchedules(base, list, n) = Folded(TRUE, base, list, n)
<1> DEFINE Dropping(g) ==
               g = [s \in SUBSET DOMAIN list |->
                       IF s = {} THEN <<>>
                       ELSE IF LockedAt(list[Seqs!Max(s)], n) > 0
                            THEN Append(g[s \ {Seqs!Max(s)}], list[Seqs!Max(s)])
                            ELSE g[s \ {Seqs!Max(s)}]]
           Adding(g) ==
               g = [s \in SUBSET DOMAIN list |->
                       IF s = {} THEN base
                       ELSE AddSchedule(g[s \ {Seqs!Max(s)}], list[Seqs!Max(s)], n)]
<1>1. Unfinished(list, n) = (CHOOSE g : Dropping(g))[DOMAIN list]
  BY DEF Unfinished, Seqs!FoldLeft, Seqs!MapThenFoldSet
<1>2. AddSchedules(base, list, n) = (CHOOSE g : Adding(g))[DOMAIN list]
  BY DEF AddSchedules, Seqs!FoldLeft, Seqs!MapThenFoldSet
<1>3. \A g : Dropping(g) <=> IsFolding(g, FALSE, <<>>, list, n, DOMAIN list)
  BY DEF IsFolding, Step
<1>4. \A g : Adding(g) <=> IsFolding(g, TRUE, base, list, n, DOMAIN list)
  BY DEF IsFolding, Step
<1> HIDE DEF Dropping, Adding
<1>5. (CHOOSE g : Dropping(g)) = (CHOOSE g : IsFolding(g, FALSE, <<>>, list, n, DOMAIN list))
  BY <1>3, Zenon
<1>6. (CHOOSE g : Adding(g)) = (CHOOSE g : IsFolding(g, TRUE, base, list, n, DOMAIN list))
  BY <1>4, Zenon
<1>7. QED
  BY <1>1, <1>2, <1>5, <1>6 DEF Folded

LEMMA Highest ==
    ASSUME NEW k \in Nat, NEW s \in SUBSET (1..k), k \in s
    PROVE  Seqs!Max(s) = k
<1>1. \A y \in s : k >= y
  OBVIOUS
<1>2. \A x \in s : (\A y \in s : x >= y) => x = k
  OBVIOUS
<1>3. QED
  BY <1>1, <1>2 DEF Seqs!Max

\* The equation has a solution for the first k places, and so for all.
LEMMA FoldingExists ==
    ASSUME NEW adding, NEW base, NEW list, NEW n, NEW k \in Nat
    PROVE  \E g : IsFolding(g, adding, base, list, n, 1..k)
<1> DEFINE G == {j \in Nat : \E g : IsFolding(g, adding, base, list, n, 1..j)}
<1>1. 0 \in G
  <2> DEFINE g == [s \in SUBSET (1..0) |-> base]
  <2>1. \A s \in SUBSET (1..0) : s = {}
    OBVIOUS
  <2>2. IsFolding(g, adding, base, list, n, 1..0)
    BY <2>1 DEF IsFolding
  <2>3. QED
    BY <2>2
<1>2. ASSUME NEW j \in Nat, NEW g, IsFolding(g, adding, base, list, n, 1..j)
      PROVE  \E h : IsFolding(h, adding, base, list, n, 1..(j + 1))
  <2> DEFINE top == j + 1
             h == [s \in SUBSET (1..top) |->
                      IF top \in s THEN Step(adding, g[s \ {top}], list[top], n) ELSE g[s]]
  <2>1. ASSUME NEW s \in SUBSET (1..top)
        PROVE  h[s] = IF s = {} THEN base
                      ELSE Step(adding, h[s \ {Seqs!Max(s)}], list[Seqs!Max(s)], n)
    <3>1. CASE top \in s
      <4>1. Seqs!Max(s) = top
        BY <3>1, Highest
      <4>2. s \ {top} \in SUBSET (1..top) /\ top \notin s \ {top} /\ s # {}
        BY <3>1
      <4>3. h[s \ {top}] = g[s \ {top}] /\ h[s] = Step(adding, g[s \ {top}], list[top], n)
        BY <3>1, <4>2
      <4> HIDE DEF h, top
      <4>4. QED
        BY <4>1, <4>2, <4>3
    <3>2. CASE top \notin s
      <4>1. /\ s \in SUBSET (1..j) /\ s \ {Seqs!Max(s)} \in SUBSET (1..j)
            /\ s \ {Seqs!Max(s)} \in SUBSET (1..top) /\ top \notin s \ {Seqs!Max(s)}
        <5>1. \A x \in 1..top : x # top => x \in 1..j
          OBVIOUS
        <5>2. s \in SUBSET (1..j)
          BY <3>2, <5>1
        <5>3. \A m : /\ s \ {m} \in SUBSET (1..j) /\ s \ {m} \in SUBSET (1..top)
                     /\ top \notin s \ {m}
          BY <3>2, <5>2
        <5>4. QED
          BY <5>2, <5>3
      <4>2. g[s] = IF s = {} THEN base
                   ELSE Step(adding, g[s \ {Seqs!Max(s)}], list[Seqs!Max(s)], n)
        BY <1>2, <4>1 DEF IsFolding
      <4>3. h[s] = g[s] /\ h[s \ {Seqs!Max(s)}] = g[s \ {Seqs!Max(s)}]
        BY <3>2, <4>1
      <4> HIDE DEF h, top
      <4>4. QED
        BY <4>2, <4>3
    <3>3. QED
      BY <3>1, <3>2
  <2>2. h = [s \in SUBSET (1..top) |-> h[s]]
    OBVIOUS
  <2> HIDE DEF h
  <2>3. h = [s \in SUBSET (1..top) |->
                IF s = {} THEN base
                ELSE Step(adding, h[s \ {Seqs!Max(s)}], list[Seqs!Max(s)], n)]
    BY <2>1, <2>2
  <2>4. IsFolding(h, adding, base, list, n, 1..top)
    BY <2>3 DEF IsFolding
  <2>5. QED
    BY <2>4
<1>3. \A j \in 0..k : j \in G /\ j < k => j + 1 \in G
  BY <1>2
<1> HIDE DEF G
<1>4. \A j \in 0..k : j \in G
  BY <1>1, <1>3, CountingUp
<1>5. QED
  BY <1>4 DEF G

\* A fold goes through the lists h[0], h[1], ... of which each is one step from
\* the one before.
GoesThrough(h, adding, base, list, n) ==
    /\ h[0] = base
    /\ \A k \in 0..Len(list) :
          k < Len(list) => h[k + 1] = Step(adding, h[k], list[k + 1], n)
    /\ h[Len(list)] = Folded(adding, base, list, n)

LEMMA FoldSteps ==
    ASSUME NEW adding, NEW base, NEW list \in Seq(Schedules), NEW n
    PROVE  \E h : GoesThrough(h, adding, base, list, n)
<1> DEFINE last == Len(list)
           g == CHOOSE f : IsFolding(f, adding, base, list, n, DOMAIN list)
           h == [k \in 0..last |-> g[1..k]]
<1>1. last \in Nat /\ DOMAIN list = 1..last
  OBVIOUS
<1>2. IsFolding(g, adding, base, list, n, 1..last)
  BY <1>1, FoldingExists
<1>3. h[last] = Folded(adding, base, list, n)
  BY <1>1 DEF Folded
<1> HIDE DEF g, last
<1>4. h[0] = base
  <2>1. 1..0 = {} /\ {} \in SUBSET (1..last) /\ 0 \in 0..last
    BY <1>1
  <2>2. g[{}] = base
    BY <1>2, <2>1 DEF IsFolding
  <2>3. QED
    BY <2>1, <2>2
<1>5. ASSUME NEW k \in 0..last, k < last
      PROVE  h[k + 1] = Step(adding, h[k], list[k + 1], n)
  <2> DEFINE top == k + 1
             s == 1..top
  <2>1. top \in Nat /\ top \in s /\ s \in SUBSET (1..last) /\ s # {} /\ s \ {top} = 1..k
    <3>1. top \in Nat /\ top \in s /\ \A i \in s : i \in 1..last
      BY <1>1, <1>5
    <3>2. \A i : i \in 1..k <=> i \in s /\ i # top
      BY <1>1, <1>5
    <3> HIDE DEF s
    <3>3. QED
      BY <3>1, <3>2
  <2>2. Seqs!Max(s) = top
    BY <2>1, Highest
  <2>3. h[k] = g[1..k] /\ h[top] = g[s]
    BY <1>1, <1>5
  <2> HIDE DEF s, top, h
  <2>4. g[s] = Step(adding, g[s \ {top}], list[top], n)
    BY <1>2, <2>1, <2>2 DEF IsFolding
  <2>5. h[top] = Step(adding, h[k], list[top], n)
    BY <2>1, <2>3, <2>4
  <2>6. QED
    BY <2>5 DEF top
<1> HIDE DEF h
<1>6. QED
  BY <1>3, <1>4, <1>5 DEF last, GoesThrough

LEMMA LockedNat ==
    ASSUME NEW s \in Schedules, NEW n \in Nat
    PROVE  LockedAt(s, n) \in Nat
<1>1. s.locked \in Nat /\ s.perBlock \in Nat /\ s.start \in Nat
  BY DEF Schedules
<1>2. Max2(s.perBlock, 1) \in Nat /\ Monus(n, s.start) \in Nat
  BY <1>1 DEF Max2, Monus
<1>3. Max2(s.perBlock, 1) * Monus(n, s.start) \in Nat
  BY <1>2
<1>4. QED
  BY <1>1, <1>3 DEF LockedAt, Monus

\* What a list locks, and what it locks with one schedule more.
LEMMA LockedParts ==
    ASSUME NEW q \in Seq(Schedules), NEW n \in Nat
    PROVE  /\ IsFiniteSet(DOMAIN q)
           /\ TotalLockedAt(q, n) \in Nat
           /\ TotalLockedAt(q, n)
                 = SumFunctionOnSet([i \in DOMAIN q |-> LockedAt(q[i], n)], DOMAIN q)
<1> DEFINE w == [i \in DOMAIN q |-> LockedAt(q[i], n)]
<1>1. IsFiniteSet(DOMAIN q)
  <2>1. DOMAIN q = 1..Len(q) /\ Len(q) \in Nat
    OBVIOUS
  <2>2. QED
    BY <2>1, FS_Interval
<1>2. DOMAIN w = DOMAIN q /\ \A i \in DOMAIN w : w[i] \in Nat
  <2>1. \A i \in DOMAIN q : q[i] \in Schedules
    OBVIOUS
  <2>2. \A i \in DOMAIN q : LockedAt(q[i], n) \in Nat
    BY <2>1, LockedNat
  <2>3. QED
    BY <2>2
<1>3. TotalLockedAt(q, n) = SumFunction(w)
  BY DEF TotalLockedAt
<1> HIDE DEF w
<1>4. SumFunction(w) \in Nat
  BY <1>1, <1>2, TotalNat
<1>5. SumFunction(w) = SumFunctionOnSet(w, DOMAIN q)
  BY <1>2, Zenon DEF SumFunction, SumFunctionOnSet, FoldFunction
<1>6. QED
  BY <1>1, <1>3, <1>4, <1>5 DEF w

LEMMA LockedAppend ==
    ASSUME NEW q \in Seq(Schedules), NEW s \in Schedules, NEW n \in Nat
    PROVE  TotalLockedAt(Append(q, s), n) = TotalLockedAt(q, n) + LockedAt(s, n)
<1> DEFINE f == [i \in DOMAIN q |-> LockedAt(q[i], n)]
           longer == Append(q, s)
           g == [i \in DOMAIN longer |-> LockedAt(longer[i], n)]
           last == Len(q) + 1
<1>1. /\ Len(q) \in Nat /\ DOMAIN q = 1..Len(q) /\ DOMAIN longer = 1..last
      /\ longer[last] = s /\ \A i \in DOMAIN q : longer[i] = q[i] /\ q[i] \in Schedules
  OBVIOUS
<1>2. last \notin DOMAIN q /\ DOMAIN longer = DOMAIN q \cup {last}
  BY <1>1
<1>3. LockedAt(s, n) \in Nat /\ \A i \in DOMAIN q : LockedAt(q[i], n) \in Nat
  BY <1>1, LockedNat
<1>4. IsFiniteSet(DOMAIN q)
  BY LockedParts
<1>5. TotalLockedAt(q, n) = SumFunction(f) /\ TotalLockedAt(longer, n) = SumFunction(g)
  BY DEF TotalLockedAt
<1> HIDE DEF longer, last
<1>6. DOMAIN f = DOMAIN q /\ DOMAIN g = DOMAIN longer
  OBVIOUS
<1>7. ASSUME NEW i \in DOMAIN q
      PROVE  f[i] \in Int /\ g[i] = f[i]
  <2>1. i \in DOMAIN longer /\ longer[i] = q[i]
    BY <1>1, <1>2
  <2>2. f[i] = LockedAt(q[i], n) /\ g[i] = LockedAt(longer[i], n)
    BY <2>1
  <2>3. f[i] \in Int
    BY <1>3, <2>2
  <2>4. QED
    BY <2>1, <2>2, <2>3
<1>8. g[last] = LockedAt(s, n)
  BY <1>1, <1>2
<1> HIDE DEF f, g
<1>9. IsFiniteSet(DOMAIN f) /\ g[last] \in Int /\ last \notin DOMAIN f
      /\ DOMAIN g = DOMAIN f \cup {last}
      /\ \A i \in DOMAIN f : f[i] \in Int /\ g[i] = f[i]
  BY <1>2, <1>3, <1>4, <1>6, <1>7, <1>8
<1>10. SumFunction(g) = SumFunction(f) + g[last]
  BY <1>9, TotalExtended
<1>11. QED
  BY <1>5, <1>8, <1>10 DEF longer

\* Dropping the finished schedules drops nothing that is locked.
LEMMA UnfinishedFacts ==
    ASSUME NEW q \in Seq(Schedules), NEW n \in Nat
    PROVE  /\ Unfinished(q, n) \in Seq(Schedules)
           /\ Len(Unfinished(q, n)) <= Len(q)
           /\ TotalLockedAt(Unfinished(q, n), n) = TotalLockedAt(q, n)
<1> DEFINE last == Len(q)
           w == [i \in DOMAIN q |-> LockedAt(q[i], n)]
<1>1. last \in Nat /\ DOMAIN q = 1..last /\ \A i \in 1..last : q[i] \in Schedules
  OBVIOUS
<1>2. \A i \in 1..last : w[i] = LockedAt(q[i], n) /\ w[i] \in Nat
  BY <1>1, LockedNat
<1>3. TotalLockedAt(q, n) = SumFunctionOnSet(w, 1..last)
  BY <1>1, LockedParts
<1>4. PICK h : /\ h[0] = << >>
               /\ \A k \in 0..last : k < last => h[k + 1] = Step(FALSE, h[k], q[k + 1], n)
               /\ h[last] = Folded(FALSE, << >>, q, n)
  <2>1. \E h : GoesThrough(h, FALSE, << >>, q, n)
    BY FoldSteps
  <2>2. QED
    BY <2>1 DEF GoesThrough
<1> HIDE DEF last, w
<1> DEFINE Good(k) == /\ h[k] \in Seq(Schedules)
                      /\ Len(h[k]) <= k
                      /\ TotalLockedAt(h[k], n) = SumFunctionOnSet(w, 1..k)
           G == {k \in 0..last : Good(k)}
<1>5. 0 \in G
  <2>1. << >> \in Seq(Schedules) /\ Len(<< >>) = 0 /\ DOMAIN << >> = {} /\ 1..0 = {}
    OBVIOUS
  <2>2. TotalLockedAt(<< >>, n) = 0
    <3>1. TotalLockedAt(<< >>, n) = SumFunctionOnSet([i \in DOMAIN << >> |-> LockedAt(<< >>[i], n)], DOMAIN << >>)
      BY <2>1, LockedParts
    <3> DEFINE f == [i \in DOMAIN << >> |-> LockedAt(<< >>[i], n)]
    <3>2. TotalLockedAt(<< >>, n) = SumFunctionOnSet(f, DOMAIN << >>)
      BY <3>1
    <3> HIDE DEF f
    <3>3. SumFunctionOnSet(f, DOMAIN << >>) = SumFunctionOnSet(f, {})
      BY <2>1, Zenon
    <3>4. QED
      BY <3>2, <3>3, SumEmpty
  <2>3. SumFunctionOnSet(w, 1..0) = 0
    <3>1. SumFunctionOnSet(w, 1..0) = SumFunctionOnSet(w, {})
      BY <2>1, Zenon
    <3>2. QED
      BY <3>1, SumEmpty
  <2>4. Good(0)
    BY <1>4, <2>1, <2>2, <2>3
  <2>5. QED
    BY <1>1, <2>4
<1>6. ASSUME NEW k \in 0..last, k \in G, k < last PROVE k + 1 \in G
  <2> DEFINE s == q[k + 1]
             next == k + 1
  <2>1. next \in 1..last /\ next \in 0..last /\ s \in Schedules
    BY <1>1, <1>6
  <2>2. /\ h[k] \in Seq(Schedules) /\ Len(h[k]) <= k
        /\ TotalLockedAt(h[k], n) = SumFunctionOnSet(w, 1..k)
    BY <1>6
  <2>3. h[next] = IF LockedAt(s, n) > 0 THEN Append(h[k], s) ELSE h[k]
    BY <1>4, <1>6 DEF Step
  <2>4. LockedAt(s, n) \in Nat /\ w[next] = LockedAt(s, n)
    BY <1>2, <2>1, LockedNat
  <2>5. SumFunctionOnSet(w, 1..next) = SumFunctionOnSet(w, 1..k) + w[next]
    <3>1. 1..next = (1..k) \cup {next} /\ next \notin 1..k
      BY <1>1, <1>6
    <3>2. IsFiniteSet(1..k)
      BY <1>1, FS_Interval
    <3>3. \A i \in (1..k) \cup {next} : w[i] \in Int
      BY <1>1, <1>2, <1>6
    <3> HIDE DEF next
    <3>4. SumFunctionOnSet(w, (1..k) \cup {next}) = SumFunctionOnSet(w, 1..k) + w[next]
      BY <3>1, <3>2, <3>3, SumAdd
    <3>5. SumFunctionOnSet(w, 1..next) = SumFunctionOnSet(w, (1..k) \cup {next})
      BY <3>1, Zenon
    <3>6. QED
      BY <3>4, <3>5
  <2>6. TotalLockedAt(h[k], n) \in Nat
    BY <2>2, LockedParts
  <2>7. CASE LockedAt(s, n) > 0
    <3>1. h[next] = Append(h[k], s)
      BY <2>3, <2>7
    <3>2. Append(h[k], s) \in Seq(Schedules) /\ Len(Append(h[k], s)) = Len(h[k]) + 1
      BY <2>1, <2>2
    <3>3. TotalLockedAt(Append(h[k], s), n) = TotalLockedAt(h[k], n) + LockedAt(s, n)
      BY <2>1, <2>2, LockedAppend
    <3>4. Len(h[next]) <= next
      BY <1>1, <2>2, <3>1, <3>2
    <3>5. TotalLockedAt(h[next], n) = SumFunctionOnSet(w, 1..next)
      BY <2>2, <2>4, <2>5, <3>1, <3>3
    <3>6. QED
      BY <2>1, <3>1, <3>2, <3>4, <3>5
  <2>8. CASE ~(LockedAt(s, n) > 0)
    <3>1. h[next] = h[k] /\ w[next] = 0
      BY <2>3, <2>4, <2>8
    <3>2. TotalLockedAt(h[next], n) = SumFunctionOnSet(w, 1..next)
      BY <2>2, <2>5, <2>6, <3>1
    <3>3. Len(h[next]) <= next
      BY <1>1, <2>2, <3>1
    <3>4. QED
      BY <2>1, <2>2, <3>1, <3>2, <3>3
  <2>9. QED
    BY <2>7, <2>8
<1>7. \A k \in 0..last : k \in G
  <2>1. \A k \in 0..last : k \in G /\ k < last => k + 1 \in G
    BY <1>6
  <2> HIDE DEF G
  <2>2. QED
    BY <1>1, <1>5, <2>1, CountingUp
<1>8. Good(last)
  BY <1>1, <1>7
<1>9. QED
  BY <1>3, <1>4, <1>8, FoldDefs DEF last

\* The lists that an account may have.
ListsOf == {q \in Seq(Schedules) : Len(q) <= MaxSchedules}

LEMMA EmptyListed == << >> \in ListsOf
<1>1. << >> \in Seq(Schedules) /\ Len(<< >>) = 0
  OBVIOUS
<1>2. QED
  BY <1>1, VestedCoinsAssumption DEF ListsOf

\* Adding a schedule to an account leaves a list that it may have.  If there is
\* room, a valid one adds what it locks, and nothing that is locked is lost.
LEMMA AddedFacts ==
    ASSUME NEW q \in ListsOf, NEW s \in Schedules, NEW n \in Nat
    PROVE  LET added == AddSchedule(q, s, n)
               before == TotalLockedAt(q, n)
               after == TotalLockedAt(added, n)
           IN  /\ added \in ListsOf
               /\ before \in Nat /\ after \in Nat /\ before <= after
               /\ ~IsValid(s) => Len(added) <= Len(q) /\ after = before
               /\ IsValid(s) => Len(added) <= Len(q) + 1
               /\ IsValid(s) /\ Len(q) < MaxSchedules => after = before + LockedAt(s, n)
<1> DEFINE added == AddSchedule(q, s, n)
<1>1. q \in Seq(Schedules) /\ Len(q) \in Nat /\ Len(q) <= MaxSchedules
      /\ TotalLockedAt(q, n) \in Nat
  <2>1. q \in Seq(Schedules) /\ Len(q) <= MaxSchedules
    BY DEF ListsOf
  <2>2. Len(q) \in Nat
    BY <2>1
  <2>3. TotalLockedAt(q, n) \in Nat
    BY <2>1, LockedParts
  <2>4. QED
    BY <2>1, <2>2, <2>3
<1>2. CASE IsValid(s) /\ Len(q) < MaxSchedules
  <2> DEFINE longer == Append(q, s)
  <2>1. longer \in Seq(Schedules) /\ Len(longer) = Len(q) + 1
    BY <1>1
  <2>2. TotalLockedAt(longer, n) = TotalLockedAt(q, n) + LockedAt(s, n)
        /\ LockedAt(s, n) \in Nat
    BY <1>1, LockedAppend, LockedNat
  <2> HIDE DEF longer
  <2>3. /\ Unfinished(longer, n) \in Seq(Schedules)
        /\ Len(Unfinished(longer, n)) <= Len(longer)
        /\ TotalLockedAt(Unfinished(longer, n), n) = TotalLockedAt(longer, n)
    BY <2>1, UnfinishedFacts
  <2>4. added = Unfinished(longer, n)
    BY <1>2 DEF AddSchedule, longer
  <2>5. Len(Unfinished(longer, n)) \in Nat
    BY <2>3
  <2>6. added \in ListsOf
    BY <1>1, <1>2, <2>1, <2>3, <2>4, <2>5, VestedCoinsAssumption DEF ListsOf
  <2> HIDE DEF added
  <2>7. QED
    BY <1>1, <1>2, <2>1, <2>2, <2>3, <2>4, <2>6 DEF added
<1>3. CASE ~(IsValid(s) /\ Len(q) < MaxSchedules)
  <2>1. added = q
    BY <1>3 DEF AddSchedule
  <2> HIDE DEF added
  <2>2. QED
    BY <1>1, <1>3, <2>1 DEF added
<1>4. QED
  BY <1>2, <1>3

\* Adding a list goes through the lists h[0], h[1], ..., one schedule after the
\* other.
LEMMA AddSteps ==
    ASSUME NEW q \in ListsOf, NEW list \in Seq(Schedules), NEW n \in Nat
    PROVE  \E h : /\ h[0] = q
                  /\ \A k \in 0..Len(list) : h[k] \in ListsOf
                  /\ \A k \in 0..Len(list) :
                        k < Len(list) => h[k + 1] = AddSchedule(h[k], list[k + 1], n)
                  /\ h[Len(list)] = AddSchedules(q, list, n)
<1> DEFINE last == Len(list)
<1>1. last \in Nat /\ \A i \in 1..last : list[i] \in Schedules
  OBVIOUS
<1>2. PICK h : /\ h[0] = q
               /\ \A k \in 0..last : k < last => h[k + 1] = AddSchedule(h[k], list[k + 1], n)
               /\ h[last] = AddSchedules(q, list, n)
  <2>1. PICK h : GoesThrough(h, TRUE, q, list, n)
    BY FoldSteps
  <2>2. h[last] = AddSchedules(q, list, n)
    BY <2>1, FoldDefs DEF GoesThrough
  <2>3. \A k \in 0..last : k < last => h[k + 1] = AddSchedule(h[k], list[k + 1], n)
    BY <2>1 DEF GoesThrough, Step
  <2>4. h[0] = q
    BY <2>1 DEF GoesThrough
  <2>5. QED
    BY <2>2, <2>3, <2>4
<1> HIDE DEF last
<1> DEFINE G == {k \in 0..last : h[k] \in ListsOf}
<1>3. 0 \in G
  BY <1>1, <1>2
<1>4. ASSUME NEW k \in 0..last, k \in G, k < last PROVE k + 1 \in G
  <2>1. k + 1 \in 0..last /\ list[k + 1] \in Schedules
    BY <1>1, <1>4
  <2>2. h[k + 1] = AddSchedule(h[k], list[k + 1], n)
    BY <1>2, <1>4
  <2>3. QED
    BY <1>4, <2>1, <2>2, AddedFacts
<1>5. \A k \in 0..last : k \in G
  <2>1. \A k \in 0..last : k \in G /\ k < last => k + 1 \in G
    BY <1>4
  <2> HIDE DEF G
  <2>2. QED
    BY <1>1, <1>3, <2>1, CountingUp
<1>6. QED
  BY <1>2, <1>5 DEF last

LEMMA AddedListTyped ==
    ASSUME NEW q \in ListsOf, NEW list \in Seq(Schedules), NEW n \in Nat
    PROVE  AddSchedules(q, list, n) \in ListsOf
<1>1. PICK h : /\ \A k \in 0..Len(list) : h[k] \in ListsOf
               /\ h[Len(list)] = AddSchedules(q, list, n)
  BY AddSteps
<1>2. Len(list) \in 0..Len(list)
  OBVIOUS
<1>3. QED
  BY <1>1, <1>2
=============================================================================

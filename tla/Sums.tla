--------------------------------- MODULE Sums ---------------------------------
(***************************************************************************)
(* Lemmas about SumFunction and SumFunctionOnSet of the module Functions,  *)
(* in which the ledgers of the pallets are written: the total of a map,    *)
(* and what changing, inserting or removing one entry does to it.          *)
(*                                                                         *)
(* The induction principles of the library take an operator as parameter;  *)
(* here the induction is on a set G of good subsets, whose complement, if  *)
(* there is any, has a member of least cardinality.                        *)
(***************************************************************************)
EXTENDS StorageMap, Functions, FiniteSets, FiniteSetTheorems, WellFoundedInduction, TLAPS

\* A set of natural numbers has a least one.
LEMMA LeastElement ==
    ASSUME NEW S, S \subseteq Nat, S # {}
    PROVE  \E m \in S : \A k \in S : m <= k
<1> DEFINE R == {ss \in Nat \X Nat : ss[1] < ss[2]}
<1>1. IsWellFoundedOn(R, Nat)
  BY NatLessThanWellFounded DEF OpToRel
<1> HIDE DEF R
<1>2. PICK m \in S : \A k \in S : ~ (<<k, m>> \in R)
  BY <1>1, WFMin
<1>3. \A k \in S : ~ (k < m)
  BY <1>2 DEF R
<1>4. QED
  BY <1>3

\* Induction along an interval.
LEMMA CountingUp ==
    ASSUME NEW n \in Nat, NEW G, 0 \in G,
           \A k \in 0..n : k \in G /\ k < n => k + 1 \in G
    PROVE  \A k \in 0..n : k \in G
<1> SUFFICES ASSUME NEW k0 \in 0..n, k0 \notin G PROVE FALSE
  OBVIOUS
<1> DEFINE Bad == {k \in 0..n : k \notin G}
<1>1. Bad \subseteq Nat /\ Bad # {}
  OBVIOUS
<1>2. PICK m \in Bad : \A k \in Bad : m <= k
  BY <1>1, LeastElement
<1>3. m # 0 /\ m - 1 \in 0..n /\ m - 1 \notin Bad /\ m - 1 < n /\ (m - 1) + 1 = m
  BY <1>2
<1>4. m \in G
  BY <1>3
<1>5. QED
  BY <1>2, <1>4

\* Induction over the subsets of a finite set: a subset is good if all its
\* proper subsets are.
LEMMA SubsetInduction ==
    ASSUME NEW W, IsFiniteSet(W), NEW G,
           \A s \in SUBSET W : (\A u \in SUBSET s : u # s => u \in G) => s \in G
    PROVE  \A s \in SUBSET W : s \in G
<1> SUFFICES ASSUME NEW s0 \in SUBSET W, s0 \notin G PROVE FALSE
  OBVIOUS
<1> DEFINE Bad == {s \in SUBSET W : s \notin G}
           Sizes == {n \in Nat : \E s \in Bad : Cardinality(s) = n}
<1>1. \A s \in SUBSET W : IsFiniteSet(s) /\ Cardinality(s) \in Nat
  BY FS_Subset, FS_CardinalityType
<1>2. s0 \in Bad /\ Cardinality(s0) \in Sizes
  BY <1>1
<1>3. PICK m \in Sizes : \A k \in Sizes : m <= k
  BY <1>2, LeastElement
<1>4. PICK s \in Bad : Cardinality(s) = m
  BY <1>3
<1>5. ASSUME NEW u \in SUBSET s, u # s PROVE u \in G
  <2>1. u \in SUBSET W /\ IsFiniteSet(s) /\ IsFiniteSet(u)
    BY <1>1, <1>4
  <2>2. Cardinality(u) <= Cardinality(s) /\ Cardinality(u) # Cardinality(s)
    BY <2>1, <1>5, FS_Subset
  <2>3. CASE u \notin G
    <3>1. Cardinality(u) \in Sizes
      BY <1>1, <2>1, <2>3
    <3>2. QED
      BY <1>3, <1>4, <2>2, <3>1
  <2>4. QED
    BY <2>3
<1>6. QED
  BY <1>4, <1>5

\* Induction over a finite set: a subset is good if it is empty or is good
\* without one of its elements.
LEMMA ElementInduction ==
    ASSUME NEW W, IsFiniteSet(W), NEW G, {} \in G,
           \A s \in SUBSET W : (\E x \in s : s \ {x} \in G) => s \in G
    PROVE  W \in G
<1>1. ASSUME NEW s \in SUBSET W, \A u \in SUBSET s : u # s => u \in G
      PROVE  s \in G
  <2>1. CASE s # {}
    <3>1. PICK x : x \in s
      BY <2>1
    <3>2. s \ {x} \in G
      BY <1>1, <3>1
    <3>3. QED
      BY <3>1, <3>2
  <2>2. QED
    BY <2>1
<1>2. QED
  BY <1>1, SubsetInduction

-----------------------------------------------------------------------------
(* The equation that defines a sum. *)

\* g[s] is the sum of f over s, for every subset s of S.
IsSumOf(g, f, S) ==
    g = [s \in SUBSET S |-> IF s = {} THEN 0
                            ELSE f[CHOOSE x \in s : TRUE]
                                     + g[s \ {CHOOSE x \in s : TRUE}]]

LEMMA SumDef ==
    ASSUME NEW f, NEW S
    PROVE  SumFunctionOnSet(f, S) = (CHOOSE g : IsSumOf(g, f, S))[S]
BY DEF SumFunctionOnSet, FoldFunctionOnSet, MapThenFoldSet, IsSumOf

\* The equation has one solution at most.
LEMMA SumUnique ==
    ASSUME NEW S, IsFiniteSet(S), NEW f, NEW g, NEW h,
           IsSumOf(g, f, S), IsSumOf(h, f, S)
    PROVE  g = h
<1> DEFINE G == {s \in SUBSET S : g[s] = h[s]}
           c(s) == CHOOSE x \in s : TRUE
<1>1. \A s \in SUBSET S : g[s] = IF s = {} THEN 0 ELSE f[c(s)] + g[s \ {c(s)}]
  BY DEF IsSumOf
<1>2. \A s \in SUBSET S : h[s] = IF s = {} THEN 0 ELSE f[c(s)] + h[s \ {c(s)}]
  BY DEF IsSumOf
<1>3. ASSUME NEW s \in SUBSET S, \A u \in SUBSET s : u # s => u \in G
      PROVE  s \in G
  <2>1. CASE s = {}
    BY <1>1, <1>2, <2>1
  <2>2. CASE s # {}
    <3>1. c(s) \in s
      BY <2>2
    <3>2. s \ {c(s)} \in SUBSET s /\ s \ {c(s)} # s
      BY <3>1
    <3>3. g[s \ {c(s)}] = h[s \ {c(s)}]
      BY <1>3, <3>2
    <3>4. QED
      BY <1>1, <1>2, <2>2, <3>3
  <2>3. QED
    BY <2>1, <2>2
<1>4. \A s \in SUBSET S : s \in G
  <2> HIDE DEF G
  <2>1. QED
    BY <1>3, SubsetInduction
<1>5. QED
  BY <1>4 DEF IsSumOf

\* A solution for a set is one for its subsets.
LEMMA SumRestrict ==
    ASSUME NEW S, NEW T \in SUBSET S, NEW f, NEW g, IsSumOf(g, f, S)
    PROVE  IsSumOf([s \in SUBSET T |-> g[s]], f, T)
<1> DEFINE c(s) == CHOOSE x \in s : TRUE
           r == [s \in SUBSET T |-> g[s]]
<1>1. \A s \in SUBSET S : g[s] = IF s = {} THEN 0 ELSE f[c(s)] + g[s \ {c(s)}]
  BY DEF IsSumOf
<1>2. \A s \in SUBSET T : r[s] = IF s = {} THEN 0 ELSE f[c(s)] + r[s \ {c(s)}]
  <2> SUFFICES ASSUME NEW s \in SUBSET T
               PROVE  r[s] = IF s = {} THEN 0 ELSE f[c(s)] + r[s \ {c(s)}]
    OBVIOUS
  <2>1. s \in SUBSET S /\ s \ {c(s)} \in SUBSET T
    OBVIOUS
  <2>2. r[s] = g[s] /\ r[s \ {c(s)}] = g[s \ {c(s)}]
    BY <2>1
  <2>3. QED
    BY <1>1, <2>1, <2>2
<1>3. QED
  BY <1>2 DEF IsSumOf

\* The equation has a solution.
LEMMA SumExists ==
    ASSUME NEW S, IsFiniteSet(S), NEW f
    PROVE  \E g : IsSumOf(g, f, S)
<1> DEFINE G == {s \in SUBSET S : \E g : IsSumOf(g, f, s)}
           c(s) == CHOOSE x \in s : TRUE
           V(s) == (CHOOSE g : IsSumOf(g, f, s))[s]
<1>1. ASSUME NEW T \in SUBSET S, \A u \in SUBSET T : u # T => u \in G
      PROVE  T \in G
  <2> DEFINE g == [s \in SUBSET T |-> IF s = {} THEN 0 ELSE f[c(s)] + V(s \ {c(s)})]
  <2>1. \A s \in SUBSET T : s # {} => c(s) \in s
    OBVIOUS
  <2>2. ASSUME NEW u \in SUBSET T, u # T
        PROVE  V(u) = IF u = {} THEN 0 ELSE f[c(u)] + V(u \ {c(u)})
    <3> DEFINE h == CHOOSE k : IsSumOf(k, f, u)
    <3>1. IsSumOf(h, f, u)
      BY <1>1, <2>2
    <3>2. h[u] = IF u = {} THEN 0 ELSE f[c(u)] + h[u \ {c(u)}]
      <4> HIDE DEF h
      <4>1. QED
        BY <3>1 DEF IsSumOf
    <3>3. ASSUME u # {} PROVE h[u \ {c(u)}] = V(u \ {c(u)})
      <4> DEFINE w == u \ {c(u)}
                 k == CHOOSE j : IsSumOf(j, f, w)
                 r == [s \in SUBSET w |-> h[s]]
      <4>1. w \in SUBSET u /\ w \in SUBSET T /\ w # T /\ IsFiniteSet(w)
        BY <2>1, <3>3, FS_Subset
      <4>2. IsSumOf(k, f, w)
        BY <1>1, <4>1
      <4>3. IsSumOf(r, f, w)
        <5> HIDE DEF h, w
        <5>1. QED
          BY <3>1, <4>1, SumRestrict
      <4>4. k = r
        <5> HIDE DEF k, r
        <5>1. QED
          BY <4>1, <4>2, <4>3, SumUnique
      <4>5. r[w] = h[w]
        BY <4>1
      <4>6. V(w) = k[w]
        OBVIOUS
      <4>7. QED
        <5> HIDE DEF k, r, h, V
        <5>1. QED
          BY <4>4, <4>5, <4>6
    <3>4. V(u) = h[u]
      OBVIOUS
    <3>5. QED
      <4> HIDE DEF h, V
      <4>1. QED
        BY <3>2, <3>3, <3>4
  <2>3. \A s \in SUBSET T : s # {} => s \ {c(s)} \in SUBSET T /\ s \ {c(s)} # T
    BY <2>1
  <2>4. ASSUME NEW s \in SUBSET T, s # {}
        PROVE  g[s \ {c(s)}] = V(s \ {c(s)})
    <3> DEFINE u == s \ {c(s)}
    <3>1. u \in SUBSET T /\ u # T
      BY <2>3, <2>4
    <3>2. V(u) = IF u = {} THEN 0 ELSE f[c(u)] + V(u \ {c(u)})
      <4> HIDE DEF u, V
      <4>1. QED
        BY <2>2, <3>1
    <3>3. g[u] = IF u = {} THEN 0 ELSE f[c(u)] + V(u \ {c(u)})
      <4> HIDE DEF u, V
      <4>1. QED
        BY <3>1
    <3>4. QED
      <4> HIDE DEF g, V, u
      <4>1. g[u] = V(u)
        BY <3>2, <3>3
      <4>2. QED
        BY <4>1 DEF u
  <2>5. \A s \in SUBSET T : g[s] = IF s = {} THEN 0 ELSE f[c(s)] + g[s \ {c(s)}]
    <3> SUFFICES ASSUME NEW s \in SUBSET T
                 PROVE  g[s] = IF s = {} THEN 0 ELSE f[c(s)] + g[s \ {c(s)}]
      OBVIOUS
    <3>1. g[s] = IF s = {} THEN 0 ELSE f[c(s)] + V(s \ {c(s)})
      <4> HIDE DEF V
      <4>1. QED
        OBVIOUS
    <3>2. QED
      <4> HIDE DEF V, g
      <4>1. QED
        BY <3>1, <2>4
  <2>6. g = [s \in SUBSET T |-> g[s]]
    <3> HIDE DEF V
    <3>1. QED
      OBVIOUS
  <2>7. IsSumOf(g, f, T)
    <3> HIDE DEF g
    <3>1. QED
      BY <2>5, <2>6 DEF IsSumOf
  <2>8. QED
    <3> HIDE DEF g
    <3>1. QED
      BY <2>7
<1>2. \A s \in SUBSET S : s \in G
  <2> HIDE DEF G
  <2>1. QED
    BY <1>1, SubsetInduction
<1>3. QED
  BY <1>2

\* The defining equation of a sum.
LEMMA SumChosen ==
    ASSUME NEW S, IsFiniteSet(S), NEW f
    PROVE  SumFunctionOnSet(f, S) =
               IF S = {} THEN 0
               ELSE f[CHOOSE x \in S : TRUE]
                        + SumFunctionOnSet(f, S \ {CHOOSE x \in S : TRUE})
<1> DEFINE T == S \ {CHOOSE x \in S : TRUE}
           g == CHOOSE k : IsSumOf(k, f, S)
           h == CHOOSE k : IsSumOf(k, f, T)
           r == [s \in SUBSET T |-> g[s]]
<1>1. T \in SUBSET S /\ IsFiniteSet(T)
  BY FS_Subset
<1>2. IsSumOf(g, f, S) /\ IsSumOf(h, f, T)
  <2>1. \E k : IsSumOf(k, f, S)
    BY SumExists
  <2>2. \E k : IsSumOf(k, f, T)
    <3> HIDE DEF T
    <3>1. QED
      BY <1>1, SumExists
  <2>3. QED
    <3> HIDE DEF T
    <3>1. QED
      BY <2>1, <2>2
<1>3. SumFunctionOnSet(f, S) = g[S] /\ SumFunctionOnSet(f, T) = h[T]
  <2> HIDE DEF T
  <2>1. QED
    BY SumDef
<1>4. h = r
  <2>1. IsSumOf(r, f, T)
    <3> HIDE DEF g, h, T
    <3>1. QED
      BY <1>1, <1>2, SumRestrict
  <2>2. QED
    <3> HIDE DEF g, h, r, T
    <3>1. QED
      BY <1>1, <1>2, <2>1, SumUnique
<1>5. h[T] = g[T]
  <2> HIDE DEF g, h, T
  <2>1. QED
    BY <1>4
<1>6. g[S] = IF S = {} THEN 0 ELSE f[CHOOSE x \in S : TRUE] + g[T]
  <2> HIDE DEF g, h
  <2>1. QED
    BY <1>2 DEF IsSumOf
<1>7. QED
  <2> HIDE DEF g, h
  <2>1. QED
    BY <1>3, <1>5, <1>6

-----------------------------------------------------------------------------
(* Sums over a set. *)

LEMMA SumEmpty ==
    ASSUME NEW f
    PROVE  SumFunctionOnSet(f, {}) = 0
BY SumChosen, FS_EmptySet

\* A sum depends on the values at the members of the set only.
LEMMA SumSame ==
    ASSUME NEW S, IsFiniteSet(S), NEW f, NEW g, \A x \in S : f[x] = g[x]
    PROVE  SumFunctionOnSet(f, S) = SumFunctionOnSet(g, S)
<1> DEFINE G == {s \in SUBSET S : SumFunctionOnSet(f, s) = SumFunctionOnSet(g, s)}
           c(s) == CHOOSE x \in s : TRUE
<1>1. ASSUME NEW s \in SUBSET S, \A u \in SUBSET s : u # s => u \in G
      PROVE  s \in G
  <2>1. CASE s = {}
    BY <2>1, SumEmpty
  <2>2. CASE s # {}
    <3>1. c(s) \in s
      BY <2>2
    <3>2. s \ {c(s)} \in G
      BY <1>1, <3>1
    <3>3. IsFiniteSet(s)
      BY FS_Subset
    <3>4. /\ SumFunctionOnSet(f, s) = f[c(s)] + SumFunctionOnSet(f, s \ {c(s)})
          /\ SumFunctionOnSet(g, s) = g[c(s)] + SumFunctionOnSet(g, s \ {c(s)})
      BY <2>2, <3>3, SumChosen
    <3>5. f[c(s)] = g[c(s)]
      BY <3>1
    <3>6. QED
      BY <3>2, <3>4, <3>5
  <2>3. QED
    BY <2>1, <2>2
<1>2. \A s \in SUBSET S : s \in G
  <2> HIDE DEF G
  <2>1. QED
    BY <1>1, SubsetInduction
<1>3. QED
  BY <1>2

LEMMA SumInt ==
    ASSUME NEW S, IsFiniteSet(S), NEW f, \A x \in S : f[x] \in Int
    PROVE  SumFunctionOnSet(f, S) \in Int
<1> DEFINE G == {s \in SUBSET S : SumFunctionOnSet(f, s) \in Int}
           c(s) == CHOOSE x \in s : TRUE
<1>1. ASSUME NEW s \in SUBSET S, \A u \in SUBSET s : u # s => u \in G
      PROVE  s \in G
  <2>1. CASE s = {}
    BY <2>1, SumEmpty
  <2>2. CASE s # {}
    <3>1. c(s) \in s
      BY <2>2
    <3>2. s \ {c(s)} \in G
      BY <1>1, <3>1
    <3>3. SumFunctionOnSet(f, s) = f[c(s)] + SumFunctionOnSet(f, s \ {c(s)})
      BY <2>2, FS_Subset, SumChosen
    <3>4. f[c(s)] \in Int
      BY <3>1
    <3>5. QED
      BY <3>2, <3>3, <3>4
  <2>3. QED
    BY <2>1, <2>2
<1>2. \A s \in SUBSET S : s \in G
  <2> HIDE DEF G
  <2>1. QED
    BY <1>1, SubsetInduction
<1>3. QED
  BY <1>2

\* Any member of the set may be added last.
LEMMA SumRemove ==
    ASSUME NEW S, IsFiniteSet(S), NEW f, \A x \in S : f[x] \in Int, NEW a \in S
    PROVE  SumFunctionOnSet(f, S) = f[a] + SumFunctionOnSet(f, S \ {a})
<1> DEFINE G == {s \in SUBSET S : \A x \in s :
                    SumFunctionOnSet(f, s) = f[x] + SumFunctionOnSet(f, s \ {x})}
           c(s) == CHOOSE x \in s : TRUE
<1>1. ASSUME NEW s \in SUBSET S, \A u \in SUBSET s : u # s => u \in G, NEW x \in s
      PROVE  SumFunctionOnSet(f, s) = f[x] + SumFunctionOnSet(f, s \ {x})
  <2> DEFINE y == c(s)
             u == s \ {x, y}
  <2>1. y \in s
    BY <1>1
  <2>2. SumFunctionOnSet(f, s) = f[y] + SumFunctionOnSet(f, s \ {y})
    BY <1>1, FS_Subset, SumChosen
  <2> HIDE DEF y
  <2>3. CASE x = y
    BY <2>2, <2>3
  <2>4. CASE x # y
    <3>1. s \ {y} \in G /\ s \ {x} \in G
      BY <1>1, <2>1
    <3>2. x \in s \ {y} /\ y \in s \ {x} /\ (s \ {y}) \ {x} = u /\ (s \ {x}) \ {y} = u
      BY <1>1, <2>1, <2>4
    <3>3. /\ SumFunctionOnSet(f, s \ {y}) = f[x] + SumFunctionOnSet(f, u)
          /\ SumFunctionOnSet(f, s \ {x}) = f[y] + SumFunctionOnSet(f, u)
      <4> HIDE DEF u
      <4>1. QED
        BY <3>1, <3>2
    <3>4. f[x] \in Int /\ f[y] \in Int /\ SumFunctionOnSet(f, u) \in Int
      <4>1. u \in SUBSET S /\ IsFiniteSet(u)
        BY FS_Subset
      <4>2. QED
        <5> HIDE DEF u
        <5>1. QED
          BY <1>1, <2>1, <4>1, SumInt
    <3>5. QED
      <4> HIDE DEF u
      <4>1. QED
        BY <2>2, <3>3, <3>4
  <2>5. QED
    BY <2>3, <2>4
<1>2. \A s \in SUBSET S : s \in G
  <2>1. ASSUME NEW s \in SUBSET S, \A u \in SUBSET s : u # s => u \in G
        PROVE  s \in G
    BY <1>1, <2>1
  <2> HIDE DEF G
  <2>2. QED
    BY <2>1, SubsetInduction
<1>3. QED
  BY <1>2

\* A new member adds its value.
LEMMA SumAdd ==
    ASSUME NEW S, IsFiniteSet(S), NEW a, a \notin S,
           NEW f, \A x \in S \cup {a} : f[x] \in Int
    PROVE  SumFunctionOnSet(f, S \cup {a}) = SumFunctionOnSet(f, S) + f[a]
<1> DEFINE T == S \cup {a}
<1>1. IsFiniteSet(T) /\ a \in T /\ \A x \in T : f[x] \in Int
  BY FS_AddElement
<1>2. T \ {a} = S
  OBVIOUS
<1>3. f[a] \in Int /\ SumFunctionOnSet(f, S) \in Int
  BY SumInt
<1> HIDE DEF T
<1>4. SumFunctionOnSet(f, T) = f[a] + SumFunctionOnSet(f, T \ {a})
  BY <1>1, SumRemove
<1>5. SumFunctionOnSet(f, T) = SumFunctionOnSet(f, S) + f[a]
  <2>1. SumFunctionOnSet(f, T \ {a}) = SumFunctionOnSet(f, S)
    BY <1>2, Zenon
  <2>2. QED
    BY <1>3, <1>4, <2>1
<1>6. QED
  BY <1>5 DEF T

\* One value changes and the sum changes with it.
LEMMA SumChange ==
    ASSUME NEW S, IsFiniteSet(S), NEW a \in S,
           NEW f, NEW g, \A x \in S : f[x] \in Int /\ g[x] \in Int,
           \A x \in S \ {a} : f[x] = g[x]
    PROVE  SumFunctionOnSet(g, S) = SumFunctionOnSet(f, S) - f[a] + g[a]
<1>1. IsFiniteSet(S \ {a}) /\ S \ {a} \in SUBSET S
  BY FS_Subset
<1>2. /\ SumFunctionOnSet(f, S) = f[a] + SumFunctionOnSet(f, S \ {a})
      /\ SumFunctionOnSet(g, S) = g[a] + SumFunctionOnSet(g, S \ {a})
  BY SumRemove
<1>3. SumFunctionOnSet(f, S \ {a}) = SumFunctionOnSet(g, S \ {a})
  BY <1>1, SumSame
<1>4. f[a] \in Int /\ g[a] \in Int /\ SumFunctionOnSet(f, S \ {a}) \in Int
  BY <1>1, SumInt
<1>5. QED
  BY <1>2, <1>3, <1>4

LEMMA SumNat ==
    ASSUME NEW S, IsFiniteSet(S), NEW f, \A x \in S : f[x] \in Nat
    PROVE  SumFunctionOnSet(f, S) \in Nat
<1> DEFINE G == {s \in SUBSET S : SumFunctionOnSet(f, s) \in Nat}
<1>1. {} \in G
  BY SumEmpty
<1>2. ASSUME NEW s \in SUBSET S, NEW x \in s, s \ {x} \in G PROVE s \in G
  <2>1. SumFunctionOnSet(f, s) = f[x] + SumFunctionOnSet(f, s \ {x})
    BY FS_Subset, SumRemove
  <2>2. f[x] \in Nat
    OBVIOUS
  <2>3. QED
    BY <1>2, <2>1, <2>2
<1>3. S \in G
  <2> HIDE DEF G
  <2>1. QED
    BY <1>1, <1>2, ElementInduction
<1>4. QED
  BY <1>3

\* Sums are added value by value.
LEMMA SumPlus ==
    ASSUME NEW S, IsFiniteSet(S), NEW f, NEW g, NEW h,
           \A x \in S : f[x] \in Int /\ g[x] \in Int /\ h[x] = f[x] + g[x]
    PROVE  SumFunctionOnSet(h, S) = SumFunctionOnSet(f, S) + SumFunctionOnSet(g, S)
<1> DEFINE P(s) == SumFunctionOnSet(h, s) = SumFunctionOnSet(f, s) + SumFunctionOnSet(g, s)
           G == {s \in SUBSET S : P(s)}
<1>1. {} \in G
  BY SumEmpty
<1>2. ASSUME NEW s \in SUBSET S, NEW x \in s, s \ {x} \in G PROVE s \in G
  <2>1. IsFiniteSet(s) /\ IsFiniteSet(s \ {x}) /\ s \ {x} \in SUBSET S
    BY FS_Subset
  <2>2. \A y \in s : f[y] \in Int /\ g[y] \in Int /\ h[y] \in Int
    OBVIOUS
  <2>3. /\ SumFunctionOnSet(f, s) = f[x] + SumFunctionOnSet(f, s \ {x})
        /\ SumFunctionOnSet(g, s) = g[x] + SumFunctionOnSet(g, s \ {x})
        /\ SumFunctionOnSet(h, s) = h[x] + SumFunctionOnSet(h, s \ {x})
    BY <2>1, <2>2, SumRemove
  <2>4. /\ SumFunctionOnSet(f, s \ {x}) \in Int
        /\ SumFunctionOnSet(g, s \ {x}) \in Int
    BY <2>1, SumInt
  <2>5. QED
    BY <1>2, <2>2, <2>3, <2>4
<1>3. S \in G
  <2> HIDE DEF G
  <2>1. QED
    BY <1>1, <1>2, ElementInduction
<1>4. QED
  BY <1>3

\* A sum grows with its values.
LEMMA SumMonotone ==
    ASSUME NEW S, IsFiniteSet(S), NEW f, NEW g,
           \A x \in S : f[x] \in Int /\ g[x] \in Int /\ f[x] <= g[x]
    PROVE  SumFunctionOnSet(f, S) <= SumFunctionOnSet(g, S)
<1> DEFINE d == [x \in S |-> g[x] - f[x]]
<1>1. \A x \in S : d[x] \in Nat
  OBVIOUS
<1>2. \A x \in S : f[x] \in Int /\ d[x] \in Int /\ g[x] = f[x] + d[x]
  OBVIOUS
<1> HIDE DEF d
<1>3. SumFunctionOnSet(g, S) = SumFunctionOnSet(f, S) + SumFunctionOnSet(d, S)
  BY <1>2, SumPlus
<1>4. SumFunctionOnSet(d, S) \in Nat
  BY <1>1, SumNat
<1>5. SumFunctionOnSet(f, S) \in Int
  BY SumInt
<1>6. QED
  BY <1>3, <1>4, <1>5

\* No value is more than the sum.
LEMMA SumMember ==
    ASSUME NEW S, IsFiniteSet(S), NEW f, \A x \in S : f[x] \in Nat, NEW a \in S
    PROVE  f[a] <= SumFunctionOnSet(f, S)
<1>1. SumFunctionOnSet(f, S) = f[a] + SumFunctionOnSet(f, S \ {a})
  BY SumRemove
<1>2. SumFunctionOnSet(f, S \ {a}) \in Nat
  BY FS_Subset, SumNat
<1>3. QED
  BY <1>1, <1>2

\* Zeros do not count.
LEMMA SumZeros ==
    ASSUME NEW S, IsFiniteSet(S), NEW T \in SUBSET S, NEW f, \A x \in S : f[x] \in Int,
           \A x \in S \ T : f[x] = 0
    PROVE  SumFunctionOnSet(f, S) = SumFunctionOnSet(f, T)
<1> DEFINE G == {s \in SUBSET S : SumFunctionOnSet(f, s) = SumFunctionOnSet(f, s \cap T)}
<1>1. {} \in G
  <2>1. {} \cap T = {}
    OBVIOUS
  <2>2. QED
    BY <2>1, Zenon
<1>2. ASSUME NEW s \in SUBSET S, NEW x \in s, s \ {x} \in G PROVE s \in G
  <2> DEFINE u == s \ {x}
             v == s \cap T
  <2>1. IsFiniteSet(s) /\ IsFiniteSet(v) /\ IsFiniteSet(u)
    BY FS_Subset
  <2>2. SumFunctionOnSet(f, s) = f[x] + SumFunctionOnSet(f, u)
    BY <2>1, SumRemove
  <2>3. SumFunctionOnSet(f, u) = SumFunctionOnSet(f, u \cap T)
    BY <1>2
  <2>4. SumFunctionOnSet(f, u) \in Int
    BY <2>1, SumInt
  <2>5. CASE x \in T
    <3>1. x \in v /\ u \cap T = v \ {x} /\ \A y \in v : f[y] \in Int
      BY <2>5
    <3> HIDE DEF u, v
    <3>2. SumFunctionOnSet(f, v) = f[x] + SumFunctionOnSet(f, v \ {x})
      BY <2>1, <3>1, SumRemove
    <3>3. SumFunctionOnSet(f, u \cap T) = SumFunctionOnSet(f, v \ {x})
      BY <3>1, Zenon
    <3>4. SumFunctionOnSet(f, s) = SumFunctionOnSet(f, v)
      BY <2>2, <2>3, <3>2, <3>3
    <3>5. QED
      BY <3>4 DEF v
  <2>6. CASE x \notin T
    <3>1. f[x] = 0 /\ u \cap T = v
      BY <2>6
    <3> HIDE DEF u, v
    <3>2. SumFunctionOnSet(f, u \cap T) = SumFunctionOnSet(f, v)
      BY <3>1, Zenon
    <3>3. SumFunctionOnSet(f, s) = SumFunctionOnSet(f, v)
      BY <2>2, <2>3, <2>4, <3>1, <3>2
    <3>4. QED
      BY <3>3 DEF v
  <2>7. QED
    BY <2>5, <2>6
<1>3. S \in G
  <2> HIDE DEF G
  <2>1. QED
    BY <1>1, <1>2, ElementInduction
<1>4. SumFunctionOnSet(f, S) = SumFunctionOnSet(f, S \cap T) /\ S \cap T = T
  BY <1>3
<1>5. QED
  BY <1>4, Zenon

-----------------------------------------------------------------------------
(* The total of a map. *)

LEMMA TotalEmpty ==
    ASSUME NEW f, DOMAIN f = {}
    PROVE  SumFunction(f) = 0
BY SumEmpty DEF SumFunction

LEMMA TotalNat ==
    ASSUME NEW f, IsFiniteSet(DOMAIN f), \A x \in DOMAIN f : f[x] \in Nat
    PROVE  SumFunction(f) \in Nat
BY SumNat DEF SumFunction

\* Every entry is covered by the total.
LEMMA TotalMember ==
    ASSUME NEW f, IsFiniteSet(DOMAIN f), \A x \in DOMAIN f : f[x] \in Nat,
           NEW a \in DOMAIN f
    PROVE  f[a] <= SumFunction(f)
BY SumMember DEF SumFunction

\* Maps with the same entries have the same total, and one with larger entries
\* a larger one.
LEMMA TotalSame ==
    ASSUME NEW f, NEW g, IsFiniteSet(DOMAIN f), DOMAIN g = DOMAIN f,
           \A x \in DOMAIN f : g[x] = f[x]
    PROVE  SumFunction(g) = SumFunction(f)
BY SumSame DEF SumFunction

LEMMA TotalMonotone ==
    ASSUME NEW f, NEW g, IsFiniteSet(DOMAIN f), DOMAIN g = DOMAIN f,
           \A x \in DOMAIN f : f[x] \in Int /\ g[x] \in Int /\ f[x] <= g[x]
    PROVE  SumFunction(f) <= SumFunction(g)
BY SumMonotone DEF SumFunction

LEMMA TotalPlus ==
    ASSUME NEW S, IsFiniteSet(S), NEW f, NEW g, NEW h,
           DOMAIN f = S, DOMAIN g = S, DOMAIN h = S,
           \A x \in S : f[x] \in Int /\ g[x] \in Int /\ h[x] = f[x] + g[x]
    PROVE  SumFunction(h) = SumFunction(f) + SumFunction(g)
BY SumPlus DEF SumFunction

\* g is f with one more entry.
LEMMA TotalExtended ==
    ASSUME NEW f, IsFiniteSet(DOMAIN f), NEW a, a \notin DOMAIN f,
           NEW g, DOMAIN g = DOMAIN f \cup {a}, g[a] \in Int,
           \A x \in DOMAIN f : f[x] \in Int /\ g[x] = f[x]
    PROVE  SumFunction(g) = SumFunction(f) + g[a]
<1> DEFINE S == DOMAIN f
<1>1. \A x \in S \cup {a} : g[x] \in Int
  OBVIOUS
<1>2. SumFunctionOnSet(g, S \cup {a}) = SumFunctionOnSet(g, S) + g[a]
  <2> HIDE DEF S
  <2>1. IsFiniteSet(S) /\ a \notin S
    BY DEF S
  <2>2. QED
    BY <1>1, <2>1, SumAdd
<1>3. SumFunctionOnSet(g, S) = SumFunctionOnSet(f, S)
  BY SumSame
<1>4. SumFunction(f) = SumFunctionOnSet(f, S)
  BY DEF SumFunction
<1>5. SumFunction(g) = SumFunctionOnSet(g, S \cup {a})
  BY Zenon DEF SumFunction
<1>6. QED
  <2> HIDE DEF S
  <2>1. QED
    BY <1>2, <1>3, <1>4, <1>5

\* g is f without the entry of a.
LEMMA TotalReduced ==
    ASSUME NEW f, IsFiniteSet(DOMAIN f), NEW a \in DOMAIN f,
           NEW g, DOMAIN g = DOMAIN f \ {a},
           \A x \in DOMAIN f : f[x] \in Int /\ (x # a => g[x] = f[x])
    PROVE  SumFunction(g) = SumFunction(f) - f[a]
<1> DEFINE S == DOMAIN g
<1>1. IsFiniteSet(S) /\ a \notin S /\ DOMAIN f = S \cup {a}
  BY FS_Subset
<1>2. \A x \in S : g[x] \in Int /\ f[x] = g[x]
  OBVIOUS
<1>3. SumFunction(f) = SumFunction(g) + f[a]
  BY <1>1, <1>2, TotalExtended
<1>4. SumFunction(g) \in Int /\ f[a] \in Int
  BY <1>1, <1>2, SumInt DEF SumFunction
<1>5. QED
  BY <1>3, <1>4

\* g is f with another value at a.
LEMMA TotalChanged ==
    ASSUME NEW f, IsFiniteSet(DOMAIN f), NEW a \in DOMAIN f,
           NEW g, DOMAIN g = DOMAIN f,
           \A x \in DOMAIN f : f[x] \in Int /\ g[x] \in Int /\ (x # a => g[x] = f[x])
    PROVE  SumFunction(g) = SumFunction(f) - f[a] + g[a]
BY SumChange DEF SumFunction

\* g is f with other values at a and at b.
LEMMA TotalMoved ==
    ASSUME NEW f, IsFiniteSet(DOMAIN f), NEW a \in DOMAIN f, NEW b \in DOMAIN f,
           a # b, NEW g, DOMAIN g = DOMAIN f,
           \A x \in DOMAIN f :
               f[x] \in Int /\ g[x] \in Int /\ (x # a /\ x # b => g[x] = f[x])
    PROVE  SumFunction(g) = SumFunction(f) - f[a] - f[b] + g[a] + g[b]
<1> DEFINE h == [x \in DOMAIN f |-> IF x = a THEN g[a] ELSE f[x]]
<1>1. /\ DOMAIN h = DOMAIN f /\ h[a] = g[a] /\ h[b] = f[b]
      /\ \A x \in DOMAIN f : h[x] \in Int
      /\ \A x \in DOMAIN f : x # a => h[x] = f[x]
      /\ \A x \in DOMAIN f : x # b => g[x] = h[x]
  OBVIOUS
<1> HIDE DEF h
<1>2. SumFunction(h) = SumFunction(f) - f[a] + h[a]
  BY <1>1, TotalChanged
<1>3. SumFunction(g) = SumFunction(h) - h[b] + g[b]
  <2>1. IsFiniteSet(DOMAIN h) /\ b \in DOMAIN h /\ DOMAIN g = DOMAIN h
    BY <1>1
  <2>2. \A x \in DOMAIN h : h[x] \in Int /\ g[x] \in Int /\ (x # b => g[x] = h[x])
    BY <1>1
  <2>3. QED
    BY <2>1, <2>2, TotalChanged
<1>4. SumFunction(f) \in Int /\ f[a] \in Int /\ f[b] \in Int /\ g[a] \in Int /\ g[b] \in Int
  BY SumInt DEF SumFunction
<1>5. QED
  BY <1>1, <1>2, <1>3, <1>4
-----------------------------------------------------------------------------
(* The operations of storage maps. *)

\* The entry that a map has for a key counts no more once it is replaced.
LEMMA TotalInsert ==
    ASSUME NEW f, IsFiniteSet(DOMAIN f), \A x \in DOMAIN f : f[x] \in Int,
           NEW k, NEW v \in Int
    PROVE  SumFunction(Insert(f, k, v))
              = SumFunction(f) - (IF k \in DOMAIN f THEN f[k] ELSE 0) + v
<1> DEFINE g == Insert(f, k, v)
<1>1. /\ DOMAIN g = DOMAIN f \cup {k} /\ g[k] = v
      /\ \A x \in DOMAIN f : x # k => g[x] = f[x]
  BY DEF Insert
<1>2. SumFunction(f) \in Int
  BY SumInt DEF SumFunction
<1> HIDE DEF g
<1>3. CASE k \in DOMAIN f
  <2>1. DOMAIN g = DOMAIN f
    BY <1>1, <1>3
  <2>2. \A x \in DOMAIN f : f[x] \in Int /\ g[x] \in Int /\ (x # k => g[x] = f[x])
    BY <1>1
  <2>3. SumFunction(g) = SumFunction(f) - f[k] + g[k]
    BY <1>3, <2>1, <2>2, TotalChanged
  <2>4. QED
    BY <1>1, <1>3, <2>3 DEF g
<1>4. CASE k \notin DOMAIN f
  <2>1. \A x \in DOMAIN f : f[x] \in Int /\ g[x] = f[x]
    BY <1>1, <1>4
  <2>2. SumFunction(g) = SumFunction(f) + g[k]
    BY <1>1, <1>4, <2>1, TotalExtended
  <2>3. QED
    BY <1>1, <1>2, <1>4, <2>2 DEF g
<1>5. QED
  BY <1>3, <1>4

LEMMA TotalRemove ==
    ASSUME NEW f, IsFiniteSet(DOMAIN f), \A x \in DOMAIN f : f[x] \in Int,
           NEW k \in DOMAIN f
    PROVE  SumFunction(Remove(f, k)) = SumFunction(f) - f[k]
<1> DEFINE g == Remove(f, k)
<1>1. /\ DOMAIN g = DOMAIN f \ {k}
      /\ \A x \in DOMAIN f : f[x] \in Int /\ (x # k => g[x] = f[x])
  BY DEF Remove
<1> HIDE DEF g
<1>2. SumFunction(g) = SumFunction(f) - f[k]
  BY <1>1, TotalReduced
<1>3. QED
  BY <1>2 DEF g

\* An entry that is moved may replace another, and adds nothing.
LEMMA TotalMove ==
    ASSUME NEW f, IsFiniteSet(DOMAIN f), \A x \in DOMAIN f : f[x] \in Nat,
           NEW old, NEW new
    PROVE  SumFunction(Move(f, old, new)) <= SumFunction(f)
<1>1. SumFunction(f) \in Nat
  BY TotalNat
<1>2. CASE old \in DOMAIN f
  <2> DEFINE g == Remove(f, old)
             h == Insert(g, new, f[old])
  <2>1. SumFunction(g) = SumFunction(f) - f[old]
    BY <1>2, TotalRemove
  <2>2. /\ IsFiniteSet(DOMAIN g)
        /\ \A x \in DOMAIN g : g[x] \in Nat
    BY FS_Subset DEF Remove
  <2>3. f[old] \in Nat /\ SumFunction(g) \in Nat
    BY <1>2, <2>2, TotalNat
  <2> HIDE DEF g
  <2>4. SumFunction(h) = SumFunction(g) - (IF new \in DOMAIN g THEN g[new] ELSE 0) + f[old]
    BY <2>2, <2>3, TotalInsert
  <2> HIDE DEF h
  <2>5. SumFunction(h) <= SumFunction(f)
    BY <1>1, <2>1, <2>2, <2>3, <2>4
  <2>6. Move(f, old, new) = h
    BY <1>2 DEF Move, g, h
  <2>7. QED
    BY <2>5, <2>6
<1>3. CASE old \notin DOMAIN f
  <2>1. Move(f, old, new) = f
    BY <1>3 DEF Move
  <2>2. QED
    BY <1>1, <2>1
<1>4. QED
  BY <1>2, <1>3
-----------------------------------------------------------------------------
(* Maps with different keys. *)

\* What g has beyond the keys of f is zero, and what it has for them is not more.
LEMMA TotalWithin ==
    ASSUME NEW f, IsFiniteSet(DOMAIN f), \A x \in DOMAIN f : f[x] \in Nat,
           NEW g, IsFiniteSet(DOMAIN g), \A x \in DOMAIN g : g[x] \in Nat,
           \A x \in DOMAIN g : g[x] = 0 \/ (x \in DOMAIN f /\ g[x] <= f[x])
    PROVE  SumFunction(g) <= SumFunction(f)
<1> DEFINE S == DOMAIN f
           T == DOMAIN g
           W == S \cup T
           F == [x \in W |-> IF x \in S THEN f[x] ELSE 0]
           H == [x \in W |-> IF x \in T THEN g[x] ELSE 0]
<1>1. IsFiniteSet(W) /\ IsFiniteSet(S) /\ IsFiniteSet(T) /\ S \in SUBSET W /\ T \in SUBSET W
  BY FS_Union
<1>2. /\ \A x \in W : F[x] \in Int /\ H[x] \in Int /\ H[x] <= F[x]
      /\ \A x \in W \ S : F[x] = 0
      /\ \A x \in W \ T : H[x] = 0
      /\ \A x \in S : f[x] = F[x]
      /\ \A x \in T : g[x] = H[x]
  OBVIOUS
<1>3. SumFunction(f) = SumFunctionOnSet(f, S) /\ SumFunction(g) = SumFunctionOnSet(g, T)
  BY DEF SumFunction
<1> HIDE DEF S, T, W, F, H
<1>4. SumFunctionOnSet(f, S) = SumFunctionOnSet(F, S)
  BY <1>1, <1>2, SumSame
<1>5. SumFunctionOnSet(g, T) = SumFunctionOnSet(H, T)
  BY <1>1, <1>2, SumSame
<1>6. /\ SumFunctionOnSet(F, W) = SumFunctionOnSet(F, S)
      /\ SumFunctionOnSet(H, W) = SumFunctionOnSet(H, T)
  BY <1>1, <1>2, SumZeros
<1>7. SumFunctionOnSet(H, W) <= SumFunctionOnSet(F, W)
  BY <1>1, <1>2, SumMonotone
<1>8. QED
  BY <1>3, <1>4, <1>5, <1>6, <1>7

\* A sum over an interval, one number further.
LEMMA SumNext ==
    ASSUME NEW n \in Nat, NEW f, \A i \in 1..n : f[i] \in Int, NEW k \in 0..n, k < n
    PROVE  SumFunctionOnSet(f, 1..(k + 1)) = SumFunctionOnSet(f, 1..k) + f[k + 1]
<1> DEFINE next == k + 1
<1>1. 1..next = (1..k) \cup {next} /\ next \notin 1..k
  OBVIOUS
<1>2. IsFiniteSet(1..k)
  BY FS_Interval
<1>3. \A i \in (1..k) \cup {next} : f[i] \in Int
  OBVIOUS
<1> HIDE DEF next
<1>4. SumFunctionOnSet(f, (1..k) \cup {next}) = SumFunctionOnSet(f, 1..k) + f[next]
  BY <1>1, <1>2, <1>3, SumAdd
<1>5. SumFunctionOnSet(f, 1..next) = SumFunctionOnSet(f, (1..k) \cup {next})
  BY <1>1, Zenon
<1>6. QED
  BY <1>4, <1>5 DEF next

LEMMA SumStart ==
    ASSUME NEW f
    PROVE  SumFunctionOnSet(f, 1..0) = 0
<1>1. 1..0 = {}
  OBVIOUS
<1>2. SumFunctionOnSet(f, 1..0) = SumFunctionOnSet(f, {})
  BY <1>1, Zenon
<1>3. QED
  BY <1>2, SumEmpty

\* The total of a map is a sum over any larger set, the rest of which counts as 0.
LEMMA TotalSelected ==
    ASSUME NEW S, IsFiniteSet(S), NEW f, DOMAIN f \subseteq S, \A x \in DOMAIN f : f[x] \in Int,
           NEW z, \A x \in S : z[x] = IF x \in DOMAIN f THEN f[x] ELSE 0
    PROVE  SumFunction(f) = SumFunctionOnSet(z, S)
<1> DEFINE T == DOMAIN f
<1>1. T \in SUBSET S /\ IsFiniteSet(T)
  BY FS_Subset
<1>2. /\ \A x \in S : z[x] \in Int
      /\ \A x \in S \ T : z[x] = 0
      /\ \A x \in T : z[x] = f[x]
  OBVIOUS
<1>3. SumFunction(f) = SumFunctionOnSet(f, T)
  BY Zenon DEF SumFunction, SumFunctionOnSet, FoldFunction
<1> HIDE DEF T
<1>4. SumFunctionOnSet(f, T) = SumFunctionOnSet(z, T)
  BY <1>1, <1>2, SumSame
<1>5. SumFunctionOnSet(z, S) = SumFunctionOnSet(z, T)
  BY <1>1, <1>2, SumZeros
<1>6. QED
  BY <1>3, <1>4, <1>5
=============================================================================

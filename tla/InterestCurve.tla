---------------------------- MODULE InterestCurve ----------------------------
(***************************************************************************)
(* The ideal interest of the chain (xx-economics/src/inflation.rs), a      *)
(* function of the block number that is given by points.                   *)
(***************************************************************************)
EXTENDS Perbills, Sequences, FiniteSets

CONSTANT EraDuration  \* T::EraDuration, in blocks

ASSUME CurveAssumption == EraDuration \in Nat \ {0}

Points == [block : Nat, interest : Perbill]

\* The position in an order by block that leaves points of one block as they are.
Position(points, i) ==
    Cardinality({j \in DOMAIN points :
                    \/ points[j].block < points[i].block
                    \/ points[j].block = points[i].block /\ j <= i})

\* Variant: the points are kept in the order they were submitted in.
AsSubmitted(points) == points

SortedByBlock(points) ==
    [k \in DOMAIN points |->
        points[CHOOSE i \in DOMAIN points : Position(points, i) = k]]

\* Variant: eras are shifted to their start.
EraStart(block) == IF block >= EraDuration THEN block - EraDuration ELSE block

\* The block that is interpolated from: the middle of the era that ends.
EraMidpoint(block) ==
    IF block >= EraDuration
    THEN block - PartOf(FromRational(1, 2), EraDuration)
    ELSE block

\* compute_ideal_interest: the ratio is that of the block number itself.
Interpolated(block, start, end) ==
    LET ratio == FromRational(EraMidpoint(block), end.block - start.block)
    IN  IF start.interest >= end.interest
        THEN start.interest - Times(ratio, start.interest - end.interest)
        ELSE start.interest + Times(ratio, end.interest - start.interest)

\* get_ideal_interest, which panics if there are no points.
IdealInterest(points, block) ==
    LET reached == {i \in DOMAIN points : points[i].block >= block}
        first == CHOOSE i \in reached : \A j \in reached : i <= j
    IN  CASE reached = {} -> points[Len(points)].interest
          [] reached # {} /\ first = 1 -> points[1].interest
          [] OTHER -> Interpolated(block, points[first - 1], points[first])

-----------------------------------------------------------------------------
(***************************************************************************)
(* What the curve is meant to be, stated for a set of points of different  *)
(* blocks, in whatever order they are kept: the line between the points.   *)
(***************************************************************************)
Latest(P) == CHOOSE p \in P : \A q \in P : q.block <= p.block

Earliest(P) == CHOOSE p \in P : \A q \in P : p.block <= q.block

\* The shape of the example in the source: after a first slope that starts at
\* block 0, the interest is constant or falls from one block to the next.
LikeTheExample(P) ==
    /\ P # {}
    /\ \A p, q \in P : p.block = q.block => p = q
    /\ Earliest(P).block = 0
    /\ \A p \in P :
          LET later == {q \in P : q.block > p.block}
          IN  later # {} /\ p.block > 0
                 => \/ Earliest(later).interest = p.interest
                    \/ Earliest(later).block = p.block + 1

\* interest lies on the line from start to end at elapsed blocks after start,
\* but for two roundings.
OnLine(interest, start, end, elapsed) ==
    LET length == end.block - start.block
        off == (interest - start.interest) * length
                  - (end.interest - start.interest) * elapsed
    IN  off < 2 * length /\ -off < 2 * length

FollowsCurve(interest, P, block) ==
    LET before == {p \in P : p.block < block}
        after == P \ before
    IN  CASE after = {} -> interest = Latest(P).interest
          [] after # {} /\ before = {} -> interest = Earliest(P).interest
          [] OTHER ->
                LET start == Latest(before)
                    end == Earliest(after)
                    elapsed == EraMidpoint(block) - start.block
                IN  IF end.block = start.block + 1
                    THEN interest = end.interest
                    ELSE OnLine(interest, start, end, elapsed)
=============================================================================

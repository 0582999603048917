--------------------------- MODULE PositionLemmas ---------------------------
(***************************************************************************)
(* Facts about sets of positions of a sequence, for the proofs of the      *)
(* modules that keep, drop or reorder entries by their positions.          *)
(***************************************************************************)
EXTENDS Integers, FiniteSets, FiniteSetsExt, WellFoundedInduction,
        FiniteSetTheorems, TLAPS

\* Every non-empty set of naturals has a least element.
LEMMA LeastNat ==
  ASSUME NEW T \in SUBSET Nat, T # {}
  PROVE  \E x \in T : \A y \in T : x <= y
<1> DEFINE R == OpToRel(<, Nat)
<1>1. IsWellFoundedOn(R, Nat)
  BY NatLessThanWellFounded
<1> HIDE DEF R
<1>2. \A x, y \in Nat : y < x => <<y, x>> \in R
  BY DEF R, OpToRel
<1>3. PICK x \in T : \A y \in T : ~ (<<y, x>> \in R)
  BY <1>1, WFMin
<1>4. ASSUME NEW y \in T PROVE x <= y
  <2>1. x \in Nat /\ y \in Nat
    OBVIOUS
  <2>2. ~(y < x)
    BY <1>2, <1>3, <2>1
  <2> QED BY <2>1, <2>2
<1> QED BY <1>4

\* Min of FiniteSetsExt on positions: the first match of a scan, the smallest batch.
LEMMA MinOfNat ==
  ASSUME NEW T \in SUBSET Nat, T # {}
  PROVE  Min(T) \in T /\ \A y \in T : Min(T) <= y
BY LeastNat DEF Min

---------------------------------------------------------------------------
(***************************************************************************)
(* The rank of m in I is the number of positions of I up to m; it is 0 at  *)
(* 0, grows by one at each position of I, and is Cardinality(I) at the     *)
(* end, so every n in 1..Cardinality(I) is the rank of some position of I. *)
(***************************************************************************)
CountUpTo(I, m) == Cardinality({j \in I : j <= m})

\* A set of positions of a finite sequence is finite.
LEMMA PositionsFinite ==
  ASSUME NEW n \in Nat, NEW I \in SUBSET (1..n)
  PROVE  IsFiniteSet(I) /\ Cardinality(I) \in Nat
<1>1. IsFiniteSet(1..n)
  BY FS_Interval
<1> QED BY <1>1, FS_Subset, FS_CardinalityType

\* The rank of a position is a natural number.
LEMMA RankType ==
  ASSUME NEW n \in Nat, NEW I \in SUBSET (1..n), NEW m \in Int
  PROVE  /\ IsFiniteSet({j \in I : j <= m})
         /\ CountUpTo(I, m) \in Nat
         /\ IsFiniteSet(I)
         /\ Cardinality(I) \in Nat
<1>1. IsFiniteSet(1..n)
  BY FS_Interval
<1>2. IsFiniteSet(I)
  BY <1>1, FS_Subset
<1>3. IsFiniteSet({j \in I : j <= m})
  BY <1>2, FS_Subset
<1> QED BY <1>2, <1>3, FS_CardinalityType DEF CountUpTo

\* The rank grows by one at a position of I and nowhere else.
LEMMA RankStep ==
  ASSUME NEW n \in Nat, NEW I \in SUBSET (1..n), NEW m \in 1..n
  PROVE  CountUpTo(I, m) = IF m \in I THEN CountUpTo(I, m - 1) + 1 ELSE CountUpTo(I, m - 1)
<1> DEFINE L == {j \in I : j <= m - 1}
<1>1. m \in Int /\ m - 1 \in Int /\ \A j \in I : j \in Int
  OBVIOUS
<1>2. IsFiniteSet(L)
  BY <1>1, RankType
<1>3. \A j \in I : (j <= m) <=> (j <= m - 1 \/ j = m)
  BY <1>1
<1>4. ~(m <= m - 1)
  BY <1>1
<1>5. CASE m \in I
  <2>1. {j \in I : j <= m} = L \cup {m}
    BY <1>3, <1>5
  <2>2. Cardinality(L \cup {m}) = Cardinality(L) + 1
    BY <1>2, <1>4, FS_AddElement
  <2> QED BY <1>5, <2>1, <2>2 DEF CountUpTo
<1>6. CASE m \notin I
  <2>1. {j \in I : j <= m} = L
    BY <1>3, <1>6
  <2> QED BY <1>6, <2>1 DEF CountUpTo
<1> QED BY <1>5, <1>6

\* The rank at a position of I exceeds the rank anywhere before it.
LEMMA RankMonotone ==
  ASSUME NEW n \in Nat, NEW I \in SUBSET (1..n),
         NEW a \in Int, NEW b \in I, a < b
  PROVE  CountUpTo(I, a) < CountUpTo(I, b)
<1> DEFINE L == {j \in I : j <= a}
           U == {j \in I : j <= b}
<1>1. b \in Int /\ \A j \in I : j \in Int
  OBVIOUS
<1>2. IsFiniteSet(L) /\ IsFiniteSet(U)
  BY <1>1, RankType
<1>3. ~(b <= a) /\ b <= b /\ \A j \in I : j <= a => j <= b
  BY <1>1
<1>4. b \notin L /\ L \cup {b} \in SUBSET U
  BY <1>3
<1>5. Cardinality(L \cup {b}) = Cardinality(L) + 1
  BY <1>2, <1>4, FS_AddElement
<1>6. Cardinality(L \cup {b}) <= Cardinality(U)
  BY <1>2, <1>4, FS_Subset
<1>7. CountUpTo(I, a) \in Nat /\ CountUpTo(I, b) \in Nat
  BY <1>1, RankType
<1> HIDE DEF L, U
<1>8. CountUpTo(I, a) = Cardinality(L) /\ CountUpTo(I, b) = Cardinality(U)
  BY DEF CountUpTo, L, U
<1> QED BY <1>5, <1>6, <1>7, <1>8

\* Every number up to the size of I is the rank of a position of I.
LEMMA RankOnto ==
  ASSUME NEW n \in Nat, NEW I \in SUBSET (1..n), NEW k \in 1..Cardinality(I)
  PROVE  \E i \in I : CountUpTo(I, i) = k
<1> DEFINE T == {m \in 0..n : CountUpTo(I, m) >= k}
<1>1. CountUpTo(I, n) = Cardinality(I)
  <2>1. \A j \in I : j <= n
    OBVIOUS
  <2>2. {j \in I : j <= n} = I
    BY <2>1
  <2> QED BY <2>2 DEF CountUpTo
<1>2. T \in SUBSET Nat /\ n \in T
  BY <1>1, RankType
<1>3. PICK m \in T : \A y \in T : m <= y
  BY <1>2, LeastNat
<1>4. CountUpTo(I, 0) = 0
  <2>1. \A j \in I : ~(j <= 0)
    OBVIOUS
  <2>2. {j \in I : j <= 0} = {}
    BY <2>1
  <2> QED BY <2>2, FS_EmptySet DEF CountUpTo
<1>5. k \in Nat /\ k >= 1
  BY RankType
<1>6. m \in 1..n
  BY <1>4, <1>5
<1>7. m - 1 \in 0..n /\ m - 1 \notin T
  BY <1>3, <1>6
<1>8. CountUpTo(I, m) \in Nat /\ CountUpTo(I, m - 1) \in Nat
  <2>1. m \in Int /\ m - 1 \in Int
    BY <1>6
  <2> QED BY <2>1, RankType
<1>9. CountUpTo(I, m - 1) < k /\ CountUpTo(I, m) >= k
  BY <1>5, <1>7, <1>8
<1>10. CountUpTo(I, m) = IF m \in I THEN CountUpTo(I, m - 1) + 1 ELSE CountUpTo(I, m - 1)
  BY <1>6, RankStep
<1> HIDE DEF T
<1>11. m \in I /\ CountUpTo(I, m) = k
  BY <1>5, <1>8, <1>9, <1>10
<1> QED BY <1>11
=============================================================================

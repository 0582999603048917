-------------------------- MODULE OperationProofs --------------------------
(***************************************************************************)
(* Proofs about the operation queue, first by itself and then with its     *)
(* callers, for any operations, callers, workers, capacity, failures,      *)
(* crashes and rollbacks.                                                  *)
(*                                                                         *)
(* The invariants of OperationQueue: their conjunction is inductive.       *)
(* Order and deduplication need OnePlace for nothing, but OnePlace needs   *)
(* its own three parts together (a reserved entry comes back to a queue    *)
(* that must not hold it), and the bound needs the type of the queue.      *)
(*                                                                         *)
(* Of OperationGate:                                                       *)
(*                                                                         *)
(*   GateTyping      GateTypeOK                                            *)
(*   GateKeepsQueue  what OperationQueue promises, under these callers     *)
(*   Refinement      QueueRefined: GateSpec implements OperationQueue      *)
(*                                                                         *)
(* and, until the first failure, crash or rollback and with operations     *)
(* that keep their heartbeat:                                              *)
(*                                                                         *)
(*   ExclusionUndisturbed, SlotUndisturbed, FlagUndisturbed and            *)
(*   NoLingeringUndisturbed                                                *)
(*                                                                         *)
(* A step of GateNext is a step of the queue or a change of a checkpoint's *)
(* status, which the queue does not read (StatusStep).  GateInv adds to    *)
(* the invariant of the queue what a task holds at each of its points and  *)
(* that the table is finite, so that its latest row exists.  QuietInv says *)
(* who holds the slot, the flag and every unfinished row when nothing      *)
(* failed.                                                                 *)
(***************************************************************************)
EXTENDS OperationGate, PositionLemmas, SequenceTheorems

---------------------------------------------------------------------------
(***************************************************************************)
(* What the sequence operators of OperationQueue do to a queue.            *)
(***************************************************************************)

\* NthOf enumerates I in increasing order and leaves none out.
LEMMA NthOfProperties ==
  ASSUME NEW n \in Nat, NEW I \in SUBSET (1..n)
  PROVE  /\ \A k \in 1..Cardinality(I) : NthOf(I, k) \in I
         /\ \A k, l \in 1..Cardinality(I) : k < l => NthOf(I, k) < NthOf(I, l)
         /\ \A i \in I : \E k \in 1..Cardinality(I) : NthOf(I, k) = i
         /\ Cardinality(I) \in 0..n
<1> \A j \in I : j \in Int
  OBVIOUS
<1>0. Cardinality(I) \in Nat
  BY PositionsFinite
<1>1. ASSUME NEW k \in 1..Cardinality(I)
      PROVE  NthOf(I, k) \in I /\ CountUpTo(I, NthOf(I, k)) = k
  <2>1. PICK i \in I : CountUpTo(I, i) = k
    BY RankOnto
  <2>2. \E j \in I : Cardinality({l \in I : l <= j}) = k
    BY <2>1 DEF CountUpTo
  <2> QED BY <2>2 DEF NthOf, CountUpTo
<1>2. ASSUME NEW k \in 1..Cardinality(I), NEW l \in 1..Cardinality(I), k < l
      PROVE  NthOf(I, k) < NthOf(I, l)
  <2>1. PICK a \in I : a = NthOf(I, k) /\ CountUpTo(I, a) = k
    BY <1>1
  <2>2. PICK b \in I : b = NthOf(I, l) /\ CountUpTo(I, b) = l
    BY <1>1
  <2>3. b < a => l < k
    <3>1. SUFFICES ASSUME b < a PROVE CountUpTo(I, b) < CountUpTo(I, a)
      BY <2>1, <2>2
    <3> QED BY <3>1, RankMonotone
  <2>4. k \in Int /\ l \in Int /\ a \in Int /\ b \in Int
    BY <1>0
  <2>5. a < b
    BY <1>2, <2>1, <2>2, <2>3, <2>4
  <2> QED BY <2>1, <2>2, <2>5
<1>3. ASSUME NEW i \in I
      PROVE  \E k \in 1..Cardinality(I) : NthOf(I, k) = i
  <2>1. i \in Int /\ 0 \in Int /\ 0 < i
    OBVIOUS
  <2>2. CountUpTo(I, i) \in Nat /\ CountUpTo(I, 0) \in Nat
    BY <2>1, RankType
  <2>3. CountUpTo(I, 0) < CountUpTo(I, i)
    BY <2>1, RankMonotone
  <2>4. CountUpTo(I, i) <= Cardinality(I)
    <3>1. IsFiniteSet(I) /\ {j \in I : j <= i} \in SUBSET I
      BY RankType, <2>1
    <3> QED BY <3>1, FS_Subset DEF CountUpTo
  <2>5. PICK k \in 1..Cardinality(I) : k = CountUpTo(I, i)
    BY <1>0, <2>2, <2>3, <2>4
  <2>6. PICK m \in I : m = NthOf(I, k) /\ CountUpTo(I, m) = k
    BY <1>1
  <2>7. m \in Int /\ k \in Int
    BY <1>0
  <2>8. m < i => CountUpTo(I, m) < CountUpTo(I, i)
    BY <2>7, RankMonotone
  <2>9. i < m => CountUpTo(I, i) < CountUpTo(I, m)
    BY <2>1, RankMonotone
  <2>10. m = i
    BY <2>1, <2>5, <2>6, <2>7, <2>8, <2>9
  <2> QED BY <2>6, <2>10
<1>4. Cardinality(I) <= n
  <2>1. IsFiniteSet(1..n) /\ Cardinality(1..n) = n
    BY FS_Interval
  <2> QED BY <2>1, FS_Subset
<1> QED BY <1>0, <1>1, <1>2, <1>3, <1>4

---------------------------------------------------------------------------
(***************************************************************************)
(* t keeps some of the entries of s, in their order.                       *)
(***************************************************************************)
SubOf(t, s) ==
  \E f \in [1..Len(t) -> 1..Len(s)] :
    /\ \A n \in 1..Len(t) : t[n] = s[f[n]]
    /\ \A m, n \in 1..Len(t) : m < n => f[m] < f[n]

\* Dropping entries breaks neither the order nor the absence of duplicates.
LEMMA SubOfPreserves ==
  ASSUME NEW s \in Seq(Ops), NEW t \in Seq(Ops), SubOf(t, s)
  PROVE  /\ PrioritySorted(s) => PrioritySorted(t)
         /\ DistinctRequests(s) => DistinctRequests(t)
         /\ DistinctEntries(s) => DistinctEntries(t)
         /\ \A n \in 1..Len(t) : \E i \in 1..Len(s) : t[n] = s[i]
<1>1. PICK f \in [1..Len(t) -> 1..Len(s)] :
         /\ \A n \in 1..Len(t) : t[n] = s[f[n]]
         /\ \A m, n \in 1..Len(t) : m < n => f[m] < f[n]
  BY DEF SubOf
<1>2. Len(t) \in Nat /\ Len(s) \in Nat /\ DOMAIN t = 1..Len(t) /\ DOMAIN s = 1..Len(s)
  BY LenProperties
<1>3. \A n \in 1..Len(t) : f[n] \in 1..Len(s)
  OBVIOUS
<1>4. ASSUME NEW m \in 1..Len(t), NEW n \in 1..Len(t), f[m] = f[n] PROVE m = n
  <2>1. f[m] \in Int /\ m \in Int /\ n \in Int
    BY <1>2, <1>3
  <2>2. ~(m < n) /\ ~(n < m)
    BY <1>1, <1>4, <2>1
  <2> QED BY <2>1, <2>2
<1>5. PrioritySorted(s) => PrioritySorted(t)
  BY <1>1, <1>2, <1>3 DEF PrioritySorted
<1>6. DistinctRequests(s) => DistinctRequests(t)
  BY <1>1, <1>2, <1>3, <1>4 DEF DistinctRequests
<1>7. DistinctEntries(s) => DistinctEntries(t)
  BY <1>1, <1>2, <1>3, <1>4 DEF DistinctEntries
<1> QED BY <1>1, <1>3, <1>5, <1>6, <1>7

\* VecDeque::retain keeps exactly the entries at I, in their order.
LEMMA RetainAtProperties ==
  ASSUME NEW s \in Seq(Ops), NEW I \in SUBSET (1..Len(s))
  PROVE  /\ RetainAt(s, I) \in Seq(Ops)
         /\ Len(RetainAt(s, I)) = Cardinality(I)
         /\ Len(RetainAt(s, I)) <= Len(s)
         /\ SubOf(RetainAt(s, I), s)
         /\ \A n \in 1..Cardinality(I) : \E i \in I : RetainAt(s, I)[n] = s[i]
         /\ \A i \in I : \E n \in 1..Cardinality(I) : RetainAt(s, I)[n] = s[i]
<1>1. Len(s) \in Nat /\ DOMAIN s = 1..Len(s)
  BY LenProperties
<1>2. /\ \A k \in 1..Cardinality(I) : NthOf(I, k) \in I
      /\ \A k, l \in 1..Cardinality(I) : k < l => NthOf(I, k) < NthOf(I, l)
      /\ \A i \in I : \E k \in 1..Cardinality(I) : NthOf(I, k) = i
      /\ Cardinality(I) \in 0..Len(s)
  BY <1>1, NthOfProperties
<1>3. PICK k \in Nat : k = Cardinality(I) /\ k <= Len(s)
  BY <1>1, <1>2
<1>4. PICK f : f = [n \in 1..k |-> NthOf(I, n)]
  OBVIOUS
<1>5. PICK t : t = [n \in 1..k |-> s[f[n]]]
  OBVIOUS
<1>6. f \in [1..k -> 1..Len(s)] /\ \A n \in 1..k : f[n] = NthOf(I, n)
  BY <1>2, <1>3, <1>4
<1>7. \A n \in 1..k : f[n] \in I /\ s[f[n]] \in Ops
  BY <1>1, <1>2, <1>3, <1>6
<1>8. t \in Seq(Ops) /\ Len(t) = k
  BY <1>5, <1>7, IsASeq, LenProperties
<1>9. t = RetainAt(s, I)
  BY <1>3, <1>5, <1>6 DEF RetainAt
<1>10. \A n \in 1..k : t[n] = s[f[n]]
  BY <1>5
<1>11. \A m, n \in 1..k : m < n => f[m] < f[n]
  BY <1>2, <1>3, <1>6
<1>12. SubOf(t, s)
  BY <1>6, <1>8, <1>10, <1>11 DEF SubOf
<1>13. \A n \in 1..k : \E i \in I : t[n] = s[i]
  BY <1>7, <1>10
<1>14. \A i \in I : \E n \in 1..k : t[n] = s[i]
  BY <1>2, <1>3, <1>6, <1>10
<1> QED BY <1>3, <1>8, <1>9, <1>12, <1>13, <1>14

\* VecDeque::remove closes the gap and changes nothing else.
LEMMA RemoveAtProperties ==
  ASSUME NEW s \in Seq(Ops), NEW i \in 1..Len(s)
  PROVE  /\ RemoveAt(s, i) \in Seq(Ops)
         /\ Len(RemoveAt(s, i)) = Len(s) - 1
         /\ \A n \in 1..(Len(s) - 1) :
              RemoveAt(s, i)[n] = IF n < i THEN s[n] ELSE s[n + 1]
         /\ SubOf(RemoveAt(s, i), s)
<1>1. Len(s) \in Nat /\ i \in Int /\ \A n \in 1..Len(s) : s[n] \in Ops
  BY LenProperties
<1>2. PICK a : a = SubSeq(s, 1, i - 1)
  OBVIOUS
<1>3. PICK b : b = SubSeq(s, i + 1, Len(s))
  OBVIOUS
<1>4. \A n \in 1..(i - 1) : s[n] \in Ops
  BY <1>1
<1>5. \A n \in (i + 1)..Len(s) : s[n] \in Ops
  BY <1>1
<1>6. i - 1 \in Int /\ i + 1 \in Int /\ Len(s) \in Int
  BY <1>1
<1>7. /\ a \in Seq(Ops) /\ Len(a) = i - 1
      /\ \A n \in 1..(i - 1) : a[n] = s[n]
  <2>1. /\ a \in Seq(Ops)
        /\ Len(a) = IF 1 <= i - 1 THEN (i - 1) - 1 + 1 ELSE 0
        /\ \A n \in 1..((i - 1) - 1 + 1) : a[n] = s[1 + n - 1]
    BY <1>2, <1>4, <1>6, SubSeqProperties
  <2> QED BY <2>1, <1>1
<1>8. /\ b \in Seq(Ops) /\ Len(b) = Len(s) - i
      /\ \A n \in 1..(Len(s) - i) : b[n] = s[i + n]
  <2>1. /\ b \in Seq(Ops)
        /\ Len(b) = IF i + 1 <= Len(s) THEN Len(s) - (i + 1) + 1 ELSE 0
        /\ \A n \in 1..(Len(s) - (i + 1) + 1) : b[n] = s[(i + 1) + n - 1]
    BY <1>3, <1>5, <1>6, SubSeqProperties
  <2>2. /\ Len(s) - (i + 1) + 1 = Len(s) - i
        /\ \A n \in 1..(Len(s) - i) : (i + 1) + n - 1 = i + n
    BY <1>1
  <2>3. Len(b) = Len(s) - i
    BY <1>1, <2>1
  <2> QED BY <2>1, <2>2, <2>3
<1>9. PICK t : t = a \o b
  OBVIOUS
<1>10. /\ t \in Seq(Ops) /\ Len(t) = Len(a) + Len(b)
       /\ \A n \in 1..(Len(a) + Len(b)) :
            t[n] = IF n <= Len(a) THEN a[n] ELSE b[n - Len(a)]
  BY <1>7, <1>8, <1>9, ConcatProperties
<1>11. Len(t) = Len(s) - 1
  BY <1>1, <1>7, <1>8, <1>10
<1>12. ASSUME NEW n \in 1..(Len(s) - 1)
       PROVE  t[n] = IF n < i THEN s[n] ELSE s[n + 1]
  <2>1. t[n] = IF n <= i - 1 THEN a[n] ELSE b[n - (i - 1)]
    BY <1>1, <1>7, <1>8, <1>10
  <2>2. CASE n < i
    BY <1>1, <1>7, <2>1, <2>2
  <2>3. CASE ~(n < i)
    <3>1. PICK k \in 1..(Len(s) - i) : k = n - (i - 1) /\ i + k = n + 1
      BY <1>1, <2>3
    <3>2. b[k] = s[n + 1]
      BY <1>8, <3>1
    <3>3. ~(n <= i - 1)
      BY <1>1, <2>3
    <3> QED BY <2>1, <2>3, <3>1, <3>2, <3>3
  <2> QED BY <2>2, <2>3
<1>13. t = RemoveAt(s, i)
  BY <1>2, <1>3, <1>9 DEF RemoveAt
<1>14. SubOf(t, s)
  <2>1. PICK f : f = [n \in 1..(Len(s) - 1) |-> IF n < i THEN n ELSE n + 1]
    OBVIOUS
  <2>2. f \in [1..Len(t) -> 1..Len(s)]
    BY <1>1, <1>11, <2>1
  <2>3. \A n \in 1..Len(t) : t[n] = s[f[n]]
    BY <1>11, <1>12, <2>1
  <2>4. \A m, n \in 1..Len(t) : m < n => f[m] < f[n]
    BY <1>1, <1>11, <2>1
  <2> QED BY <2>2, <2>3, <2>4 DEF SubOf
<1> QED BY <1>10, <1>11, <1>12, <1>13, <1>14

\* VecDeque::insert shifts what comes after the new entry.
LEMMA InsertAtProperties ==
  ASSUME NEW s \in Seq(Ops), NEW i \in 1..(Len(s) + 1), NEW e \in Ops
  PROVE  /\ InsertAt(s, i, e) \in Seq(Ops)
         /\ Len(InsertAt(s, i, e)) = Len(s) + 1
         /\ \A n \in 1..(Len(s) + 1) :
              /\ n < i => InsertAt(s, i, e)[n] = s[n]
              /\ n = i => InsertAt(s, i, e)[n] = e
              /\ n > i => InsertAt(s, i, e)[n] = s[n - 1]
<1>1. Len(s) \in Nat /\ i \in Int /\ \A n \in 1..Len(s) : s[n] \in Ops
  BY LenProperties
<1>2. PICK a : a = SubSeq(s, 1, i - 1)
  OBVIOUS
<1>3. PICK b : b = SubSeq(s, i, Len(s))
  OBVIOUS
<1>4. \A n \in 1..(i - 1) : s[n] \in Ops
  BY <1>1
<1>5. \A n \in i..Len(s) : s[n] \in Ops
  BY <1>1
<1>6. i - 1 \in Int /\ Len(s) \in Int
  BY <1>1
<1>7. /\ a \in Seq(Ops) /\ Len(a) = i - 1
      /\ \A n \in 1..(i - 1) : a[n] = s[n]
  <2>1. /\ a \in Seq(Ops)
        /\ Len(a) = IF 1 <= i - 1 THEN (i - 1) - 1 + 1 ELSE 0
        /\ \A n \in 1..((i - 1) - 1 + 1) : a[n] = s[1 + n - 1]
    BY <1>2, <1>4, <1>6, SubSeqProperties
  <2> QED BY <2>1, <1>1
<1>8. /\ b \in Seq(Ops) /\ Len(b) = Len(s) - i + 1
      /\ \A n \in 1..(Len(s) - i + 1) : b[n] = s[i + n - 1]
  <2>1. /\ b \in Seq(Ops)
        /\ Len(b) = IF i <= Len(s) THEN Len(s) - i + 1 ELSE 0
        /\ \A n \in 1..(Len(s) - i + 1) : b[n] = s[i + n - 1]
    BY <1>1, <1>3, <1>5, <1>6, SubSeqProperties
  <2>2. Len(b) = Len(s) - i + 1
    BY <1>1, <2>1
  <2> QED BY <2>1, <2>2
<1>9. PICK h : h = a \o <<e>>
  OBVIOUS
<1>10. <<e>> \in Seq(Ops) /\ Len(<<e>>) = 1 /\ <<e>>[1] = e
  OBVIOUS
<1>11. /\ h \in Seq(Ops) /\ Len(h) = i
       /\ \A n \in 1..(i - 1) : h[n] = s[n]
       /\ h[i] = e
  <2>1. /\ h \in Seq(Ops) /\ Len(h) = (i - 1) + 1
        /\ \A n \in 1..((i - 1) + 1) :
             h[n] = IF n <= i - 1 THEN a[n] ELSE <<e>>[n - (i - 1)]
    BY <1>7, <1>9, <1>10, ConcatProperties
  <2>2. i \in 1..((i - 1) + 1) /\ ~(i <= i - 1) /\ i - (i - 1) = 1
    BY <1>1
  <2>3. h[i] = e
    BY <1>10, <2>1, <2>2
  <2>4. \A n \in 1..(i - 1) : h[n] = s[n]
    BY <1>1, <1>7, <2>1
  <2>5. Len(h) = i
    BY <1>1, <2>1
  <2> QED BY <2>1, <2>3, <2>4, <2>5
<1>12. PICK t : t = h \o b
  OBVIOUS
<1>13. /\ t \in Seq(Ops) /\ Len(t) = Len(s) + 1
       /\ \A n \in 1..(Len(s) + 1) : t[n] = IF n <= i THEN h[n] ELSE b[n - i]
  <2>1. /\ t \in Seq(Ops) /\ Len(t) = i + (Len(s) - i + 1)
        /\ \A n \in 1..(i + (Len(s) - i + 1)) : t[n] = IF n <= i THEN h[n] ELSE b[n - i]
    BY <1>8, <1>11, <1>12, ConcatProperties
  <2>2. i + (Len(s) - i + 1) = Len(s) + 1
    BY <1>1
  <2> QED BY <2>1, <2>2
<1>14. ASSUME NEW n \in 1..(Len(s) + 1), n > i PROVE t[n] = s[n - 1]
  <2>1. PICK k \in 1..(Len(s) - i + 1) : k = n - i /\ i + k - 1 = n - 1
    BY <1>1, <1>14
  <2>2. b[k] = s[n - 1]
    BY <1>8, <2>1
  <2>3. ~(n <= i)
    BY <1>1, <1>14
  <2> QED BY <1>13, <2>1, <2>2, <2>3
<1>15. ASSUME NEW n \in 1..(Len(s) + 1), n < i PROVE t[n] = s[n]
  <2>1. n \in 1..(i - 1) /\ n <= i
    BY <1>1, <1>15
  <2> QED BY <1>11, <1>13, <2>1
<1>16. t[i] = e
  <2>1. i <= i
    BY <1>1
  <2> QED BY <1>11, <1>13, <2>1
<1>17. t = InsertAt(s, i, e)
  BY <1>2, <1>3, <1>9, <1>12 DEF InsertAt
<1> QED BY <1>13, <1>14, <1>15, <1>16, <1>17

---------------------------------------------------------------------------
(***************************************************************************)
(* The three steps of enqueue.                                             *)
(***************************************************************************)
\* OperationPriority has three values (queue.rs:27-50).
LEMMA PriorityType == \A o \in Ops : Priority(o) \in 1..3
BY DEF Priority

\* The deduplication of enqueue drops the entries of the same request and no
\* other.
LEMMA DeduplicatedProperties ==
  ASSUME NEW s \in Seq(Ops), NEW o \in Ops
  PROVE  /\ Deduplicated(s, o) \in Seq(Ops)
         /\ Len(Deduplicated(s, o)) <= Len(s)
         /\ SubOf(Deduplicated(s, o), s)
         /\ \A n \in 1..Len(Deduplicated(s, o)) : ~SameRequest(Deduplicated(s, o)[n], o)
         /\ \A i \in 1..Len(s) : ~SameRequest(s[i], o) =>
              \E n \in 1..Len(Deduplicated(s, o)) : Deduplicated(s, o)[n] = s[i]
<1>1. DOMAIN s = 1..Len(s)
  BY LenProperties
<1>2. PICK I : I = {i \in 1..Len(s) : ~SameRequest(s[i], o)}
  OBVIOUS
<1>3. I \in SUBSET (1..Len(s)) /\ \A i \in 1..Len(s) : i \in I <=> ~SameRequest(s[i], o)
  BY <1>2
<1>4. Deduplicated(s, o) = RetainAt(s, I)
  BY <1>1, <1>2 DEF Deduplicated
<1>5. PICK t : t = RetainAt(s, I)
  OBVIOUS
<1>6. /\ t \in Seq(Ops) /\ Len(t) = Cardinality(I) /\ Len(t) <= Len(s) /\ SubOf(t, s)
      /\ \A n \in 1..Cardinality(I) : \E i \in I : t[n] = s[i]
      /\ \A i \in I : \E n \in 1..Cardinality(I) : t[n] = s[i]
  BY <1>3, <1>5, RetainAtProperties
<1>7. \A n \in 1..Len(t) : ~SameRequest(t[n], o)
  BY <1>3, <1>6
<1>8. \A i \in 1..Len(s) : ~SameRequest(s[i], o) => \E n \in 1..Len(t) : t[n] = s[i]
  BY <1>3, <1>6
<1> QED BY <1>4, <1>5, <1>6, <1>7, <1>8

\* The insert position of enqueue is behind every entry of higher or equal
\* priority and, in a sorted queue, before every entry of lower priority.
LEMMA InsertPositionProperties ==
  ASSUME NEW s \in Seq(Ops), NEW o \in Ops
  PROVE  /\ InsertPosition(s, o) \in 1..(Len(s) + 1)
         /\ \A i \in 1..Len(s) : i < InsertPosition(s, o) => Priority(s[i]) >= Priority(o)
         /\ PrioritySorted(s) =>
              \A i \in 1..Len(s) : i >= InsertPosition(s, o) => Priority(o) >= Priority(s[i])
<1>1. Len(s) \in Nat /\ DOMAIN s = 1..Len(s) /\ \A i \in 1..Len(s) : s[i] \in Ops
  BY LenProperties
<1>2. \A i \in 1..Len(s) : Priority(s[i]) \in Int /\ Priority(o) \in Int
  BY <1>1, PriorityType
<1>3. PICK T : T = {i \in 1..Len(s) : Priority(o) > Priority(s[i])}
  OBVIOUS
<1>4. T \in SUBSET Nat /\ \A i \in 1..Len(s) : i \in T <=> Priority(o) > Priority(s[i])
  BY <1>1, <1>3
<1>5. PICK p : p = InsertPosition(s, o)
  OBVIOUS
<1>6. p = IF T = {} THEN Len(s) + 1 ELSE Min(T)
  BY <1>1, <1>3, <1>5 DEF InsertPosition
<1>7. CASE T = {}
  <2>1. p = Len(s) + 1
    BY <1>6, <1>7
  <2>2. \A i \in 1..Len(s) : ~(i >= p)
    BY <1>1, <2>1
  <2>3. \A i \in 1..Len(s) : Priority(s[i]) >= Priority(o)
    BY <1>2, <1>4, <1>7
  <2> QED BY <1>1, <1>5, <2>1, <2>2, <2>3
<1>8. CASE T # {}
  <2>1. p \in T /\ \A i \in T : p <= i
    BY <1>4, <1>6, <1>8, MinOfNat
  <2>2. p \in 1..Len(s) /\ Priority(o) > Priority(s[p])
    BY <1>3, <2>1
  <2>3. ASSUME NEW i \in 1..Len(s), i < p PROVE Priority(s[i]) >= Priority(o)
    <3>1. i \notin T
      BY <1>1, <2>1, <2>2, <2>3
    <3> QED BY <1>2, <1>4, <3>1
  <2>4. ASSUME PrioritySorted(s), NEW i \in 1..Len(s), i >= p
        PROVE  Priority(o) >= Priority(s[i])
    <3>1. p < i \/ p = i
      BY <1>1, <2>2, <2>4
    <3>2. Priority(s[p]) >= Priority(s[i])
      BY <1>1, <1>2, <2>2, <2>4, <3>1 DEF PrioritySorted
    <3>3. Priority(s[p]) \in Int /\ Priority(s[i]) \in Int /\ Priority(o) \in Int
      BY <1>2, <2>2
    <3> QED BY <2>2, <3>2, <3>3
  <2> QED BY <1>1, <1>5, <2>2, <2>3, <2>4
<1> QED BY <1>7, <1>8

\* The insertion of enqueue keeps a queue sorted and free of duplicates.
LEMMA InsertByPriorityProperties ==
  ASSUME NEW s \in Seq(Ops), NEW o \in Ops
  PROVE  /\ InsertByPriority(s, o) \in Seq(Ops)
         /\ Len(InsertByPriority(s, o)) = Len(s) + 1
         /\ PrioritySorted(s) => PrioritySorted(InsertByPriority(s, o))
         /\ DistinctRequests(s) /\ (\A i \in 1..Len(s) : ~SameRequest(s[i], o))
              => DistinctRequests(InsertByPriority(s, o))
         /\ DistinctEntries(s) /\ (\A i \in 1..Len(s) : s[i] # o)
              => DistinctEntries(InsertByPriority(s, o))
         /\ \A n \in 1..(Len(s) + 1) :
              InsertByPriority(s, o)[n] = o
                \/ \E i \in 1..Len(s) : InsertByPriority(s, o)[n] = s[i]
         /\ \A i \in 1..Len(s) :
              \E n \in 1..(Len(s) + 1) : InsertByPriority(s, o)[n] = s[i]
<1>1. Len(s) \in Nat /\ DOMAIN s = 1..Len(s) /\ \A i \in 1..Len(s) : s[i] \in Ops
  BY LenProperties
<1>2. PICK p \in 1..(Len(s) + 1) :
         /\ p = InsertPosition(s, o)
         /\ \A i \in 1..Len(s) : i < p => Priority(s[i]) >= Priority(o)
         /\ PrioritySorted(s) => \A i \in 1..Len(s) : i >= p => Priority(o) >= Priority(s[i])
  BY InsertPositionProperties
<1>3. PICK t : t = InsertByPriority(s, o)
  OBVIOUS
<1>4. /\ t \in Seq(Ops) /\ Len(t) = Len(s) + 1
      /\ \A n \in 1..(Len(s) + 1) : /\ n < p => t[n] = s[n]
                                    /\ n = p => t[n] = o
                                    /\ n > p => t[n] = s[n - 1]
  BY <1>2, <1>3, InsertAtProperties DEF InsertByPriority
<1>5. DOMAIN t = 1..(Len(s) + 1) /\ \A n \in 1..(Len(s) + 1) : t[n] \in Ops
  BY <1>4, LenProperties
<1>6. ASSUME NEW n \in 1..(Len(s) + 1)
      PROVE  \/ n = p /\ t[n] = o
             \/ n < p /\ n \in 1..Len(s) /\ t[n] = s[n]
             \/ n > p /\ n - 1 \in 1..Len(s) /\ t[n] = s[n - 1]
  <2>1. n < p \/ n = p \/ n > p
    BY <1>1
  <2>2. n < p => n \in 1..Len(s)
    BY <1>1
  <2>3. n > p => n - 1 \in 1..Len(s)
    BY <1>1
  <2> QED BY <1>4, <2>1, <2>2, <2>3
<1>7. ASSUME NEW i \in 1..Len(s)
      PROVE  \E n \in 1..(Len(s) + 1) : t[n] = s[i]
  <2>1. CASE i < p
    <3>1. i \in 1..(Len(s) + 1)
      BY <1>1
    <3> QED BY <1>4, <2>1, <3>1
  <2>2. CASE ~(i < p)
    <3>1. PICK n \in 1..(Len(s) + 1) : n > p /\ n - 1 = i
      <4>1. i + 1 \in 1..(Len(s) + 1) /\ i + 1 > p /\ (i + 1) - 1 = i
        BY <1>1, <2>2
      <4> QED BY <4>1
    <3>2. t[n] = s[n - 1]
      BY <1>4, <3>1
    <3> QED BY <3>1, <3>2
  <2> QED BY <2>1, <2>2
<1>8. \A x, y \in Ops : Priority(x) \in Int /\ Priority(y) \in Int
  BY PriorityType
<1>9. ASSUME PrioritySorted(s), NEW m \in 1..(Len(s) + 1), NEW n \in 1..(Len(s) + 1), m < n
      PROVE  Priority(t[m]) >= Priority(t[n])
  <2>1. ASSUME NEW i \in 1..Len(s), NEW j \in 1..Len(s), i <= j
        PROVE  Priority(s[i]) >= Priority(s[j])
    <3>1. CASE i = j
      <4>1. Priority(s[i]) >= Priority(s[i])
        BY <1>1, <1>8
      <4> QED BY <3>1, <4>1
    <3>2. CASE i < j
      BY <1>1, <1>9, <3>2 DEF PrioritySorted
    <3> QED BY <1>1, <2>1, <3>1, <3>2
  <2>2. CASE m = p
    <3>1. n > p /\ n - 1 \in 1..Len(s) /\ t[n] = s[n - 1] /\ n - 1 >= p
      BY <1>1, <1>6, <1>9, <2>2
    <3>2. Priority(o) >= Priority(s[n - 1])
      BY <1>2, <1>9, <3>1
    <3> QED BY <1>4, <2>2, <3>1, <3>2
  <2>3. CASE m < p
    <3>1. m \in 1..Len(s) /\ t[m] = s[m]
      BY <1>1, <1>6, <2>3
    <3>2. CASE n < p
      <4>1. n \in 1..Len(s) /\ t[n] = s[n] /\ m <= n
        BY <1>1, <1>6, <1>9, <3>2
      <4> QED BY <2>1, <3>1, <4>1
    <3>3. CASE n = p
      BY <1>2, <1>4, <2>3, <3>1, <3>3
    <3>4. CASE n > p
      <4>1. n - 1 \in 1..Len(s) /\ t[n] = s[n - 1] /\ m <= n - 1
        BY <1>1, <1>6, <1>9, <3>4
      <4> QED BY <2>1, <3>1, <4>1
    <3> QED BY <1>1, <3>2, <3>3, <3>4
  <2>4. CASE m > p
    <3>1. m - 1 \in 1..Len(s) /\ t[m] = s[m - 1]
      BY <1>1, <1>6, <2>4
    <3>2. n - 1 \in 1..Len(s) /\ t[n] = s[n - 1] /\ m - 1 <= n - 1
      BY <1>1, <1>6, <1>9, <2>4
    <3> QED BY <2>1, <3>1, <3>2
  <2> QED BY <1>1, <2>2, <2>3, <2>4
<1>10. PrioritySorted(s) => PrioritySorted(t)
  BY <1>5, <1>9 DEF PrioritySorted
<1>11. \A x, y \in Ops : SameRequest(x, y) => SameRequest(y, x)
  BY DEF SameRequest
<1>12. ASSUME DistinctRequests(s), \A i \in 1..Len(s) : ~SameRequest(s[i], o),
              NEW m \in 1..(Len(s) + 1), NEW n \in 1..(Len(s) + 1), SameRequest(t[m], t[n])
       PROVE  m = n
  <2>1. \A i, j \in 1..Len(s) : SameRequest(s[i], s[j]) => i = j
    BY <1>1, <1>12 DEF DistinctRequests
  <2>2. (m = p) => (n = p)
    BY <1>1, <1>6, <1>11, <1>12
  <2>3. (n = p) => (m = p)
    BY <1>1, <1>6, <1>12
  <2>4. (m < p /\ n < p) => m = n
    BY <1>6, <1>12, <2>1
  <2>5. (m > p /\ n > p) => m = n
    <3>1. (m > p /\ n > p) => m - 1 = n - 1
      BY <1>6, <1>12, <2>1
    <3> QED BY <1>1, <3>1
  <2>6. ~(m < p /\ n > p)
    <3>1. SUFFICES ASSUME m < p, n > p PROVE FALSE
      OBVIOUS
    <3>2. m = n - 1
      BY <1>1, <1>6, <1>12, <2>1, <3>1
    <3> QED BY <1>1, <3>1, <3>2
  <2>7. ~(n < p /\ m > p)
    <3>1. SUFFICES ASSUME n < p, m > p PROVE FALSE
      OBVIOUS
    <3>2. n = m - 1
      BY <1>1, <1>6, <1>12, <2>1, <3>1
    <3> QED BY <1>1, <3>1, <3>2
  <2> QED BY <1>1, <2>2, <2>3, <2>4, <2>5, <2>6, <2>7
<1>13. ASSUME DistinctEntries(s), \A i \in 1..Len(s) : s[i] # o,
              NEW m \in 1..(Len(s) + 1), NEW n \in 1..(Len(s) + 1), t[m] = t[n]
       PROVE  m = n
  <2>1. \A i, j \in 1..Len(s) : s[i] = s[j] => i = j
    BY <1>1, <1>13 DEF DistinctEntries
  <2>2. (m = p) <=> (n = p)
    BY <1>1, <1>6, <1>13
  <2>3. (m < p /\ n < p) => m = n
    BY <1>6, <1>13, <2>1
  <2>4. (m > p /\ n > p) => m = n
    <3>1. (m > p /\ n > p) => m - 1 = n - 1
      BY <1>6, <1>13, <2>1
    <3> QED BY <1>1, <3>1
  <2>5. ~(m < p /\ n > p)
    <3>1. SUFFICES ASSUME m < p, n > p PROVE FALSE
      OBVIOUS
    <3>2. m = n - 1
      BY <1>1, <1>6, <1>13, <2>1, <3>1
    <3> QED BY <1>1, <3>1, <3>2
  <2>6. ~(n < p /\ m > p)
    <3>1. SUFFICES ASSUME n < p, m > p PROVE FALSE
      OBVIOUS
    <3>2. n = m - 1
      BY <1>1, <1>6, <1>13, <2>1, <3>1
    <3> QED BY <1>1, <3>1, <3>2
  <2> QED BY <1>1, <2>2, <2>3, <2>4, <2>5, <2>6
<1>14. DistinctRequests(s) /\ (\A i \in 1..Len(s) : ~SameRequest(s[i], o))
         => DistinctRequests(t)
  BY <1>5, <1>12 DEF DistinctRequests
<1>15. DistinctEntries(s) /\ (\A i \in 1..Len(s) : s[i] # o) => DistinctEntries(t)
  BY <1>5, <1>13 DEF DistinctEntries
<1>16. \A n \in 1..(Len(s) + 1) : t[n] = o \/ \E i \in 1..Len(s) : t[n] = s[i]
  BY <1>6
<1> QED BY <1>3, <1>4, <1>7, <1>10, <1>14, <1>15, <1>16

\* The eviction of enqueue drops one entry of a queue over capacity, and in a
\* sorted queue one of the lowest priority.
LEMMA EvictOverflowProperties ==
  ASSUME NEW s \in Seq(Ops), Len(s) > 0
  PROVE  /\ EvictOverflow(s) \in Seq(Ops)
         /\ Len(EvictOverflow(s)) = IF Len(s) > MaxPending THEN Len(s) - 1 ELSE Len(s)
         /\ SubOf(EvictOverflow(s), s)
         /\ PrioritySorted(s) =>
              \A i \in 1..Len(s) :
                \/ \E n \in 1..Len(EvictOverflow(s)) : EvictOverflow(s)[n] = s[i]
                \/ \A j \in 1..Len(s) : Priority(s[j]) >= Priority(s[i])
<1>1. Len(s) \in Nat /\ DOMAIN s = 1..Len(s) /\ \A i \in 1..Len(s) : s[i] \in Ops
  BY LenProperties
<1>2. CASE ~(Len(s) > MaxPending)
  <2>1. EvictOverflow(s) = s
    BY <1>2 DEF EvictOverflow
  <2>2. SubOf(s, s)
    <3>1. PICK f : f = [n \in 1..Len(s) |-> n]
      OBVIOUS
    <3>2. f \in [1..Len(s) -> 1..Len(s)] /\ \A n \in 1..Len(s) : f[n] = n
      BY <3>1
    <3> QED BY <3>2 DEF SubOf
  <2> QED BY <1>2, <2>1, <2>2
<1>3. CASE Len(s) > MaxPending
  <2>1. PICK T : T = {i \in 1..Len(s) : Priority(s[i]) = Priority(s[Len(s)])}
    OBVIOUS
  <2>2. T \in SUBSET Nat /\ Len(s) \in T
    BY <1>1, <2>1
  <2>3. PICK p \in T : p = EvictPosition(s)
    BY <1>1, <2>1, <2>2, MinOfNat DEF EvictPosition
  <2>4. p \in 1..Len(s) /\ Priority(s[p]) = Priority(s[Len(s)])
    BY <2>1
  <2>5. PICK t : t = RemoveAt(s, p)
    OBVIOUS
  <2>6. EvictOverflow(s) = t
    BY <1>3, <2>3, <2>5 DEF EvictOverflow
  <2>7. /\ t \in Seq(Ops) /\ Len(t) = Len(s) - 1 /\ SubOf(t, s)
        /\ \A n \in 1..(Len(s) - 1) : t[n] = IF n < p THEN s[n] ELSE s[n + 1]
    BY <2>4, <2>5, RemoveAtProperties
  <2>8. ASSUME PrioritySorted(s), NEW i \in 1..Len(s)
        PROVE  \/ \E n \in 1..Len(t) : t[n] = s[i]
               \/ \A j \in 1..Len(s) : Priority(s[j]) >= Priority(s[i])
    <3>1. CASE i < p
      <4>1. i \in 1..(Len(s) - 1)
        BY <1>1, <2>4, <3>1
      <4> QED BY <2>7, <3>1, <4>1
    <3>2. CASE i > p
      <4>1. PICK n \in 1..(Len(s) - 1) : ~(n < p) /\ n + 1 = i
        <5>1. i - 1 \in 1..(Len(s) - 1) /\ ~(i - 1 < p) /\ (i - 1) + 1 = i
          BY <1>1, <2>4, <3>2
        <5> QED BY <5>1
      <4>2. t[n] = s[n + 1]
        BY <2>7, <4>1
      <4> QED BY <2>7, <4>1, <4>2
    <3>3. CASE i = p
      <4>1. ASSUME NEW j \in 1..Len(s) PROVE Priority(s[j]) >= Priority(s[Len(s)])
        <5>1. Len(s) \in 1..Len(s)
          BY <1>1
        <5>2. Priority(s[j]) \in 1..3
          BY <1>1, PriorityType
        <5>3. CASE j = Len(s)
          <6>1. Priority(s[j]) >= Priority(s[j])
            BY <5>2
          <6> QED BY <5>3, <6>1
        <5>4. CASE j < Len(s)
          BY <1>1, <2>8, <5>1, <5>4 DEF PrioritySorted
        <5>5. j \in Int /\ Len(s) \in Int /\ j <= Len(s)
          BY <1>1
        <5>6. j = Len(s) \/ j < Len(s)
          BY <5>5
        <5> QED BY <5>3, <5>4, <5>6
      <4> QED BY <2>4, <3>3, <4>1
    <3> QED BY <1>1, <2>4, <3>1, <3>2, <3>3
  <2> QED BY <1>3, <2>6, <2>7, <2>8
<1> QED BY <1>2, <1>3

\* enqueue as a whole: it keeps the order and the absence of duplicates, adds
\* nothing but o, grows the queue only below its capacity, and what it drops
\* was replaced by o or has the lowest priority of the queue.
LEMMA EnqueuedProperties ==
  ASSUME NEW s \in Seq(Ops), NEW o \in Ops
  PROVE  /\ Enqueued(s, o) \in Seq(Ops)
         /\ Len(Enqueued(s, o)) <= MaxPending \/ Len(Enqueued(s, o)) <= Len(s)
         /\ PrioritySorted(s) => PrioritySorted(Enqueued(s, o))
         /\ DistinctRequests(s) => DistinctRequests(Enqueued(s, o))
         /\ DistinctEntries(s) => DistinctEntries(Enqueued(s, o))
         /\ \A n \in 1..Len(Enqueued(s, o)) :
              Enqueued(s, o)[n] = o \/ \E i \in 1..Len(s) : Enqueued(s, o)[n] = s[i]
         /\ PrioritySorted(s) =>
              \A i \in 1..Len(s) :
                \/ SameRequest(s[i], o)
                \/ \E n \in 1..Len(Enqueued(s, o)) : Enqueued(s, o)[n] = s[i]
                \/ \A n \in 1..Len(Enqueued(s, o)) :
                     Priority(Enqueued(s, o)[n]) >= Priority(s[i])
<1>1. PICK d : d = Deduplicated(s, o)
  OBVIOUS
<1>2. PICK t : t = InsertByPriority(d, o)
  OBVIOUS
<1>3. PICK e : e = EvictOverflow(t)
  OBVIOUS
<1>4. e = Enqueued(s, o)
  BY <1>1, <1>2, <1>3 DEF Enqueued
<1>5. /\ d \in Seq(Ops) /\ Len(d) <= Len(s) /\ SubOf(d, s)
      /\ \A n \in 1..Len(d) : ~SameRequest(d[n], o)
      /\ \A i \in 1..Len(s) : ~SameRequest(s[i], o) => \E n \in 1..Len(d) : d[n] = s[i]
  BY <1>1, DeduplicatedProperties
<1>6. /\ PrioritySorted(s) => PrioritySorted(d)
      /\ DistinctRequests(s) => DistinctRequests(d)
      /\ DistinctEntries(s) => DistinctEntries(d)
      /\ \A n \in 1..Len(d) : \E i \in 1..Len(s) : d[n] = s[i]
  BY <1>5, SubOfPreserves
<1>7. \A n \in 1..Len(d) : d[n] # o
  BY <1>5 DEF SameRequest
<1>8. /\ t \in Seq(Ops) /\ Len(t) = Len(d) + 1
      /\ PrioritySorted(d) => PrioritySorted(t)
      /\ DistinctRequests(d) => DistinctRequests(t)
      /\ DistinctEntries(d) => DistinctEntries(t)
      /\ \A n \in 1..(Len(d) + 1) : t[n] = o \/ \E i \in 1..Len(d) : t[n] = d[i]
      /\ \A i \in 1..Len(d) : \E n \in 1..(Len(d) + 1) : t[n] = d[i]
  BY <1>2, <1>5, <1>7, InsertByPriorityProperties
<1>9. /\ Len(s) \in Nat /\ Len(d) \in Nat /\ Len(t) > 0
      /\ MaxPending \in Nat
  BY <1>5, <1>8, LenProperties, QueueAssumption
<1>10. /\ e \in Seq(Ops)
       /\ Len(e) = IF Len(t) > MaxPending THEN Len(t) - 1 ELSE Len(t)
       /\ SubOf(e, t)
       /\ PrioritySorted(t) =>
            \A i \in 1..Len(t) :
              \/ \E n \in 1..Len(e) : e[n] = t[i]
              \/ \A j \in 1..Len(t) : Priority(t[j]) >= Priority(t[i])
  BY <1>3, <1>8, <1>9, EvictOverflowProperties
<1>11. /\ PrioritySorted(t) => PrioritySorted(e)
       /\ DistinctRequests(t) => DistinctRequests(e)
       /\ DistinctEntries(t) => DistinctEntries(e)
       /\ \A n \in 1..Len(e) : \E i \in 1..Len(t) : e[n] = t[i]
  BY <1>8, <1>10, SubOfPreserves
<1>12. Len(e) <= MaxPending \/ Len(e) <= Len(s)
  BY <1>5, <1>8, <1>9, <1>10
<1>13. ASSUME NEW n \in 1..Len(e)
       PROVE  e[n] = o \/ \E i \in 1..Len(s) : e[n] = s[i]
  <2>1. PICK i \in 1..(Len(d) + 1) : e[n] = t[i]
    BY <1>8, <1>11
  <2>2. CASE t[i] = o
    BY <2>1, <2>2
  <2>3. CASE \E j \in 1..Len(d) : t[i] = d[j]
    BY <1>6, <2>1, <2>3
  <2> QED BY <1>8, <2>2, <2>3
<1>14. ASSUME PrioritySorted(s), NEW i \in 1..Len(s)
       PROVE  \/ SameRequest(s[i], o)
              \/ \E n \in 1..Len(e) : e[n] = s[i]
              \/ \A n \in 1..Len(e) : Priority(e[n]) >= Priority(s[i])
  <2>1. SUFFICES ASSUME ~SameRequest(s[i], o)
                 PROVE  \/ \E n \in 1..Len(e) : e[n] = s[i]
                        \/ \A n \in 1..Len(e) : Priority(e[n]) >= Priority(s[i])
    OBVIOUS
  <2>2. PICK k \in 1..Len(t) : t[k] = s[i]
    BY <1>5, <1>8, <2>1
  <2>3. CASE \E n \in 1..Len(e) : e[n] = t[k]
    BY <2>2, <2>3
  <2>4. CASE \A j \in 1..Len(t) : Priority(t[j]) >= Priority(t[k])
    BY <1>11, <2>2, <2>4
  <2> QED BY <1>6, <1>8, <1>10, <1>14, <2>3, <2>4
<1> QED BY <1>4, <1>6, <1>8, <1>10, <1>11, <1>12, <1>13, <1>14

---------------------------------------------------------------------------
(* The inductive invariant and its preservation.                           *)
IInv == TypeOK /\ QueueOrdered /\ Deduplication /\ BoundedQueue /\ OnePlace

---------------------------------------------------------------------------
\* Every statement on the checkpoint table leaves a table.
LEMMA TableOperators ==
  ASSUME NEW cp \in Tables, NEW o \in Ops
  PROVE  /\ CreateCheckpoint(cp, o) \in Tables
         /\ SetActiveFlag(cp, o) \in Tables
         /\ ClearActiveFlag(cp, o) \in Tables
         /\ UpdateHeartbeat(cp, o) \in Tables
         /\ [cp EXCEPT ![o].flag = "stale"] \in Tables
         /\ CleanupStaleActive(cp) \in Tables
<1>1. \A p \in Ops : cp[p] \in Row
  BY DEF Tables
<1>2. \A p \in Ops, f \in Flags : [cp[p] EXCEPT !.flag = f] \in Row
  BY <1>1 DEF Row
<1>3. \A f \in Flags : [cp EXCEPT ![o].flag = f] \in Tables
  BY <1>1, <1>2 DEF Tables
<1>4. "fresh" \in Flags /\ "clear" \in Flags /\ "stale" \in Flags
  BY DEF Flags
<1>5. CreateCheckpoint(cp, o) \in Tables
  BY DEF CreateCheckpoint, Tables, Row, Statuses, Flags
<1>6. CleanupStaleActive(cp) \in Tables
  BY <1>1, <1>2, <1>4 DEF CleanupStaleActive, Tables
<1> QED
  BY <1>3, <1>4, <1>5, <1>6 DEF SetActiveFlag, ClearActiveFlag, UpdateHeartbeat

\* A new queue satisfies the inductive invariant.
LEMMA InitIInv == Init => IInv
<1> SUFFICES ASSUME Init PROVE IInv
  OBVIOUS
<1> USE DEF Init
<1>1. pending \in Seq(Ops) /\ Len(pending) = 0 /\ DOMAIN pending = {}
  BY EmptySeq
<1>2. TypeOK
  <2>1. NoRow \in Row
    BY DEF NoRow, Row, Statuses, Flags
  <2>2. checkpoint \in Tables
    BY <2>1 DEF EmptyTable, Tables
  <2>3. cleanup \in [busy : BOOLEAN, dbActive : Ops \cup {NoOp}]
    BY DEF IdleCleanup
  <2>4. rollbacks \in 0..MaxRollbacks
    BY QueueAssumption
  <2> QED BY <1>1, <2>2, <2>3, <2>4 DEF TypeOK
<1>3. QueueOrdered /\ Deduplication
  BY <1>1 DEF QueueOrdered, Deduplication, PrioritySorted, DistinctRequests
<1>4. BoundedQueue
  BY <1>1, QueueAssumption DEF BoundedQueue
<1>5. OnePlace
  BY <1>1 DEF OnePlace, DistinctEntries, PendingOps
<1> QED BY <1>2, <1>3, <1>4, <1>5 DEF IInv

---------------------------------------------------------------------------
(***************************************************************************)
(* The actions that change the queue or its owners.                        *)
(***************************************************************************)
\* enqueue preserves the inductive invariant.
LEMMA EnqueueStep ==
  ASSUME IInv, NEW o \in Ops, Enqueue(o)
  PROVE  IInv'
<1> USE DEF Enqueue
<1>1. pending \in Seq(Ops) /\ pending' = Enqueued(pending, o) /\ rollbacks \in Nat
  BY DEF IInv, TypeOK
<1>2. PICK s \in Seq(Ops) : s = pending
  BY <1>1
<1>3. PICK t : t = Enqueued(s, o) /\ t = pending'
  BY <1>1, <1>2
<1>4. /\ t \in Seq(Ops)
      /\ Len(t) <= MaxPending \/ Len(t) <= Len(s)
      /\ PrioritySorted(s) => PrioritySorted(t)
      /\ DistinctRequests(s) => DistinctRequests(t)
      /\ DistinctEntries(s) => DistinctEntries(t)
      /\ \A n \in 1..Len(t) : t[n] = o \/ \E i \in 1..Len(s) : t[n] = s[i]
  <2> HIDE DEF Enqueue
  <2>1. t = Enqueued(s, o)
    BY <1>3
  <2> QED BY <2>1, EnqueuedProperties
<1>5. /\ Len(s) \in Nat /\ DOMAIN s = 1..Len(s)
      /\ Len(t) \in Nat /\ DOMAIN t = 1..Len(t)
  BY <1>1, <1>2, <1>4, LenProperties
<1>6. TypeOK'
  BY <1>3, <1>4 DEF IInv, TypeOK
<1>7. QueueOrdered' /\ Deduplication'
  BY <1>2, <1>3, <1>4 DEF IInv, QueueOrdered, Deduplication, PrioritySorted, DistinctRequests
<1>8. BoundedQueue'
  BY <1>1, <1>2, <1>3, <1>4, <1>5, QueueAssumption DEF IInv, BoundedQueue
<1>9. OnePlace'
  <2>1. DistinctEntries(pending)'
    BY <1>2, <1>3, <1>4 DEF IInv, OnePlace, DistinctEntries
  <2>2. \A n \in 1..Len(t) : t[n] = o \/ t[n] \in PendingOps
    BY <1>2, <1>4, <1>5 DEF PendingOps
  <2>3. PendingOps' \subseteq PendingOps \cup {o}
    BY <1>3, <1>5, <2>2 DEF PendingOps
  <2> QED BY <2>1, <2>3 DEF IInv, OnePlace, ReservedOps
<1> QED BY <1>6, <1>7, <1>8, <1>9 DEF IInv

\* What holds for the pending queue holds for a part of it.
LEMMA DropFromQueue ==
  ASSUME IInv, pending' \in Seq(Ops), SubOf(pending', pending),
         Len(pending') <= Len(pending), UNCHANGED rollbacks
  PROVE  /\ QueueOrdered' /\ Deduplication' /\ BoundedQueue'
         /\ DistinctEntries(pending')
         /\ PendingOps' \subseteq PendingOps
<1>1. PICK s : s = pending
  OBVIOUS
<1>2. PICK t : t = pending'
  OBVIOUS
<1>3. s \in Seq(Ops) /\ t \in Seq(Ops) /\ SubOf(t, s) /\ rollbacks \in Nat
  BY <1>1, <1>2 DEF IInv, TypeOK
<1>4. /\ PrioritySorted(s) => PrioritySorted(t)
      /\ DistinctRequests(s) => DistinctRequests(t)
      /\ DistinctEntries(s) => DistinctEntries(t)
      /\ \A n \in 1..Len(t) : \E i \in 1..Len(s) : t[n] = s[i]
  BY <1>3, SubOfPreserves
<1>5. /\ Len(s) \in Nat /\ DOMAIN s = 1..Len(s)
      /\ Len(t) \in Nat /\ DOMAIN t = 1..Len(t)
  BY <1>3, LenProperties
<1>6. QueueOrdered' /\ Deduplication'
  BY <1>1, <1>2, <1>4 DEF IInv, QueueOrdered, Deduplication, PrioritySorted, DistinctRequests
<1>7. BoundedQueue'
  BY <1>1, <1>2, <1>3, <1>5, QueueAssumption DEF IInv, BoundedQueue
<1>8. DistinctEntries(pending')
  BY <1>1, <1>2, <1>4 DEF IInv, OnePlace
<1>9. PendingOps' \subseteq PendingOps
  BY <1>1, <1>2, <1>4, <1>5 DEF PendingOps
<1> QED BY <1>6, <1>7, <1>8, <1>9

\* cancel_pending preserves the inductive invariant.
LEMMA CancelPendingStep ==
  ASSUME IInv, NEW o \in Ops, CancelPending(o)
  PROVE  IInv'
<1>1. PICK i \in 1..Len(pending) : pending' = RemoveAt(pending, i)
  BY LenProperties DEF CancelPending, IInv, TypeOK
<1>2. pending \in Seq(Ops)
  BY DEF IInv, TypeOK
<1>3. pending' \in Seq(Ops) /\ Len(pending') = Len(pending) - 1 /\ SubOf(pending', pending)
  BY <1>1, <1>2, RemoveAtProperties
<1>4. Len(pending') <= Len(pending)
  BY <1>2, <1>3, LenProperties
<1>5. UNCHANGED <<active, reserved, cleanup, checkpoint, rollbacks>>
  BY DEF CancelPending
<1>6. /\ QueueOrdered' /\ Deduplication' /\ BoundedQueue'
      /\ DistinctEntries(pending') /\ PendingOps' \subseteq PendingOps
  BY <1>3, <1>4, <1>5, DropFromQueue
<1>7. TypeOK'
  BY <1>3, <1>5 DEF IInv, TypeOK
<1>8. OnePlace'
  BY <1>5, <1>6 DEF IInv, OnePlace, ReservedOps
<1> QED BY <1>6, <1>7, <1>8 DEF IInv

\* A restart and clear_pending leave an empty queue.
LEMMA EmptiedQueue ==
  ASSUME IInv, pending' = <<>>, UNCHANGED rollbacks
  PROVE  /\ pending' \in Seq(Ops)
         /\ QueueOrdered' /\ Deduplication' /\ BoundedQueue'
         /\ DistinctEntries(pending') /\ PendingOps' = {}
<1>1. pending' \in Seq(Ops) /\ Len(pending') = 0 /\ DOMAIN pending' = {}
  BY EmptySeq
<1>2. rollbacks \in Nat
  BY DEF IInv, TypeOK
<1>3. BoundedQueue'
  BY <1>1, <1>2, QueueAssumption DEF BoundedQueue
<1>4. PendingOps' = {}
  BY <1>1 DEF PendingOps
<1> QED
  BY <1>1, <1>3, <1>4
     DEF QueueOrdered, Deduplication, PrioritySorted, DistinctRequests, DistinctEntries

\* clear_pending preserves the inductive invariant.
LEMMA ClearPendingStep ==
  ASSUME IInv, ClearPending
  PROVE  IInv'
<1>1. pending' = <<>> /\ UNCHANGED <<active, reserved, cleanup, checkpoint, rollbacks>>
  BY DEF ClearPending
<1>2. TypeOK'
  BY <1>1, EmptiedQueue DEF IInv, TypeOK
<1>3. OnePlace'
  BY <1>1, EmptiedQueue DEF IInv, OnePlace, ReservedOps
<1> QED BY <1>1, <1>2, <1>3, EmptiedQueue DEF IInv

\* A restart of the process preserves the inductive invariant.
LEMMA RestartStep ==
  ASSUME IInv, Restart
  PROVE  IInv'
<1>1. pending' = <<>> /\ UNCHANGED <<checkpoint, rollbacks>>
  BY DEF Restart
<1>2. TypeOK'
  BY <1>1, EmptiedQueue DEF IInv, TypeOK, Restart, IdleCleanup
<1>3. OnePlace'
  BY <1>1, EmptiedQueue DEF IInv, OnePlace, Restart
<1> QED BY <1>1, <1>2, <1>3, EmptiedQueue DEF IInv

\* load_persisted_active preserves the inductive invariant.
LEMMA LoadPersistedActiveStep ==
  ASSUME IInv, LoadPersistedActive
  PROVE  IInv'
<1> USE DEF LoadPersistedActive
<1>1. PendingOps' = {}
  BY EmptySeq DEF PendingOps
<1>2. TypeOK'
  BY DEF IInv, TypeOK, ActiveRows
<1>3. QueueOrdered' /\ Deduplication' /\ BoundedQueue'
  BY DEF IInv, QueueOrdered, Deduplication, BoundedQueue
<1>4. OnePlace'
  BY <1>1 DEF IInv, OnePlace, ReservedOps
<1> QED BY <1>2, <1>3, <1>4 DEF IInv

\* The first phase of dequeue preserves the inductive invariant: what it pops
\* is reserved by its caller alone.
LEMMA DequeueReserveStep ==
  ASSUME IInv, NEW c \in Callers, DequeueReserve(c)
  PROVE  IInv'
<1> USE DEF DequeueReserve
<1>1. PICK s \in Seq(Ops) : s = pending /\ s # <<>>
  BY DEF IInv, TypeOK
<1>2. PICK h \in Ops : h = Head(s)
  BY <1>1, HeadTailProperties
<1>3. PICK t \in Seq(Ops) : t = Tail(s)
  BY <1>1, HeadTailProperties
<1>4. /\ Len(t) = Len(s) - 1 /\ Len(s) \in Nat /\ DOMAIN s = 1..Len(s)
      /\ Len(s) >= 1 /\ h = s[1] /\ DOMAIN t = 1..Len(t)
      /\ \A n \in 1..Len(t) : t[n] = s[n + 1]
  BY <1>1, <1>2, <1>3, HeadTailProperties, LenProperties, EmptySeq
<1>5. SubOf(t, s)
  <2>1. PICK f : f = [n \in 1..Len(t) |-> n + 1]
    OBVIOUS
  <2>2. f \in [1..Len(t) -> 1..Len(s)] /\ \A n \in 1..Len(t) : f[n] = n + 1
    BY <1>4, <2>1
  <2>3. \A m, n \in 1..Len(t) : m < n => f[m] < f[n]
    BY <1>4, <2>2
  <2> QED BY <1>4, <2>2, <2>3 DEF SubOf
<1>6. /\ pending' = t /\ active' = h /\ active = NoOp /\ reserved[c] = NoOp
      /\ reserved' = [reserved EXCEPT ![c] = h]
      /\ UNCHANGED <<cleanup, checkpoint, rollbacks>>
  BY <1>1, <1>2, <1>3
<1>7. /\ QueueOrdered' /\ Deduplication' /\ BoundedQueue'
      /\ DistinctEntries(pending') /\ PendingOps' \subseteq PendingOps
  <2>1. pending' \in Seq(Ops) /\ SubOf(pending', pending) /\ Len(pending') <= Len(pending)
    <3> HIDE DEF DequeueReserve
    <3>1. Len(t) <= Len(s)
      BY <1>4
    <3>2. pending' = t /\ pending = s
      BY <1>1, <1>6
    <3> QED BY <1>5, <3>1, <3>2
  <2> QED BY <1>6, <2>1, DropFromQueue
<1>8. TypeOK'
  BY <1>6 DEF IInv, TypeOK
<1>9. h \in PendingOps /\ h \notin PendingOps'
  <2>1. h \in PendingOps
    BY <1>1, <1>4 DEF PendingOps
  <2>2. ASSUME NEW n \in 1..Len(t), t[n] = h PROVE FALSE
    <3>1. n + 1 \in 1..Len(s) /\ 1 \in 1..Len(s) /\ s[n + 1] = s[1]
      BY <1>4, <2>2
    <3>2. n + 1 = 1
      BY <1>1, <1>4, <3>1 DEF IInv, OnePlace, DistinctEntries
    <3> QED BY <1>4, <3>2
  <2>3. h \notin PendingOps'
    BY <1>4, <1>6, <2>2 DEF PendingOps
  <2> QED BY <2>1, <2>3
<1>10. \A d \in Callers : reserved'[d] = IF d = c THEN h ELSE reserved[d]
  BY <1>6 DEF IInv, TypeOK
<1>11. \A d \in Callers : reserved[d] # h
  BY <1>9, OpsAssumption DEF IInv, OnePlace, ReservedOps
<1>12. OnePlace'
  <2>1. ReservedOps' \subseteq ReservedOps \cup {h}
    BY <1>10 DEF ReservedOps
  <2>2. \A d, e \in Callers : reserved'[d] # NoOp /\ reserved'[d] = reserved'[e] => d = e
    BY <1>10, <1>11 DEF IInv, OnePlace
  <2>3. PendingOps' \cap (ReservedOps' \cup {active'}) = {}
    BY <1>6, <1>7, <1>9, <2>1 DEF IInv, OnePlace
  <2> QED BY <1>7, <2>2, <2>3 DEF OnePlace
<1> QED BY <1>7, <1>8, <1>12 DEF IInv

\* The rollback of dequeue preserves the inductive invariant: what it restores
\* is nowhere else.
LEMMA DequeueRollbackStep ==
  ASSUME IInv, NEW c \in Callers, DequeueRollback(c)
  PROVE  IInv'
<1>1. PICK s \in Seq(Ops) : s = pending
  BY DEF IInv, TypeOK
<1>2. PICK h \in Ops : h = reserved[c]
  BY DEF IInv, TypeOK, DequeueRollback
<1>3. PICK t : t = <<h>> \o s
  OBVIOUS
<1>4. /\ pending' = t /\ active' = NoOp
      /\ reserved' = [reserved EXCEPT ![c] = NoOp]
      /\ rollbacks' = rollbacks + 1 /\ rollbacks < MaxRollbacks
      /\ UNCHANGED <<cleanup, checkpoint>>
  BY <1>1, <1>2, <1>3 DEF DequeueRollback, Cons
<1>5. /\ <<h>> \in Seq(Ops) /\ Len(<<h>>) = 1 /\ <<h>>[1] = h
      /\ Len(s) \in Nat /\ DOMAIN s = 1..Len(s)
  BY LenProperties
<1>6. /\ t \in Seq(Ops) /\ Len(t) = 1 + Len(s)
      /\ \A n \in 1..(1 + Len(s)) : t[n] = IF n <= 1 THEN <<h>>[n] ELSE s[n - 1]
  BY <1>3, <1>5, ConcatProperties
<1>7. DOMAIN t = 1..(1 + Len(s)) /\ t[1] = h
  BY <1>5, <1>6, LenProperties
<1>8. \A n \in 1..(1 + Len(s)) : n # 1 => n - 1 \in 1..Len(s) /\ t[n] = s[n - 1]
  BY <1>5, <1>6
<1>9. rollbacks \in Nat /\ MaxRollbacks \in Nat /\ MaxPending \in Nat
  BY QueueAssumption DEF IInv, TypeOK
<1>10. TypeOK'
  <2>1. rollbacks' \in 0..MaxRollbacks
    BY <1>4, <1>9
  <2>2. reserved' \in [Callers -> Ops \cup {NoOp}]
    BY <1>4 DEF IInv, TypeOK
  <2> QED BY <1>4, <1>6, <2>1, <2>2 DEF IInv, TypeOK
<1>11. QueueOrdered' /\ Deduplication'
  BY <1>4, <1>9 DEF QueueOrdered, Deduplication
<1>12. BoundedQueue'
  <2>1. Len(s) <= MaxPending + rollbacks
    BY <1>1 DEF IInv, BoundedQueue
  <2>2. 1 + Len(s) <= MaxPending + (rollbacks + 1)
    BY <1>5, <1>9, <2>1
  <2> QED BY <1>4, <1>6, <2>2 DEF BoundedQueue
<1>13. h \notin PendingOps /\ \A i \in 1..Len(s) : s[i] # h
  <2>1. h \in ReservedOps
    BY <1>2, OpsAssumption DEF ReservedOps
  <2>2. h \notin PendingOps
    BY <2>1 DEF IInv, OnePlace
  <2> QED BY <1>1, <1>5, <2>2 DEF PendingOps
<1>14. PendingOps' \subseteq PendingOps \cup {h}
  <2>1. \A n \in 1..(1 + Len(s)) : t[n] \in PendingOps \cup {h}
    BY <1>1, <1>5, <1>7, <1>8 DEF PendingOps
  <2> QED BY <1>4, <1>7, <2>1 DEF PendingOps
<1>15. DistinctEntries(t)
  <2>1. SUFFICES ASSUME NEW m \in 1..(1 + Len(s)), NEW n \in 1..(1 + Len(s)), t[m] = t[n]
                 PROVE  m = n
    BY <1>7 DEF DistinctEntries
  <2>2. \A i, j \in 1..Len(s) : s[i] = s[j] => i = j
    BY <1>1, <1>5 DEF IInv, OnePlace, DistinctEntries
  <2>3. (m = 1) <=> (n = 1)
    BY <1>7, <1>8, <1>13, <2>1
  <2>4. m # 1 /\ n # 1 => m - 1 = n - 1
    BY <1>8, <2>1, <2>2
  <2> QED BY <1>5, <2>3, <2>4
<1>16. \A d \in Callers : reserved'[d] = IF d = c THEN NoOp ELSE reserved[d]
  BY <1>4 DEF IInv, TypeOK
<1>17. h # NoOp /\ \A d \in Callers : d # c => reserved[d] # h
  BY <1>2, OpsAssumption DEF IInv, OnePlace
<1>18. ReservedOps' \subseteq ReservedOps \ {h}
  BY <1>16, <1>17 DEF ReservedOps
<1>19. OnePlace'
  <2>1. \A d, e \in Callers : reserved'[d] # NoOp /\ reserved'[d] = reserved'[e] => d = e
    BY <1>16 DEF IInv, OnePlace
  <2>2. NoOp \notin PendingOps'
    <3>1. \A n \in 1..(1 + Len(s)) : t[n] \in Ops
      BY <1>6, ElementOfSeq
    <3> QED BY <1>4, <1>7, <3>1, OpsAssumption DEF PendingOps
  <2>3. PendingOps' \cap (ReservedOps' \cup {active'}) = {}
    BY <1>4, <1>14, <1>18, <2>2 DEF IInv, OnePlace
  <2>4. DistinctEntries(pending)'
    BY <1>4, <1>15 DEF DistinctEntries
  <2> QED BY <2>1, <2>3, <2>4 DEF OnePlace
<1> QED BY <1>10, <1>11, <1>12, <1>19 DEF IInv

\* The second phase of dequeue preserves the inductive invariant.
LEMMA DequeuePersistStep ==
  ASSUME IInv, NEW c \in Callers, DequeuePersist(c)
  PROVE  IInv'
<1> USE DEF DequeuePersist
<1>1. reserved[c] \in Ops /\ checkpoint \in Tables
  BY DEF IInv, TypeOK
<1>2. checkpoint' \in Tables
  BY <1>1, TableOperators
<1>3. TypeOK'
  BY <1>2 DEF IInv, TypeOK
<1>4. QueueOrdered' /\ Deduplication' /\ BoundedQueue'
  BY DEF IInv, QueueOrdered, Deduplication, BoundedQueue
<1>5. \A d \in Callers : reserved'[d] = IF d = c THEN NoOp ELSE reserved[d]
  BY DEF IInv, TypeOK
<1>6. ReservedOps' \subseteq ReservedOps
  BY <1>5 DEF ReservedOps
<1>7. OnePlace'
  BY <1>5, <1>6 DEF IInv, OnePlace, PendingOps
<1> QED BY <1>3, <1>4, <1>7 DEF IInv

\* The other actions leave the queue and the reservations alone and at most
\* empty the slot.
LEMMA QueueUnchangedStep ==
  ASSUME IInv, UNCHANGED <<pending, reserved, rollbacks>>,
         active' \in {active, NoOp},
         cleanup' \in [busy : BOOLEAN, dbActive : Ops \cup {NoOp}],
         checkpoint' \in Tables
  PROVE  IInv'
<1>1. TypeOK'
  BY DEF IInv, TypeOK
<1>2. QueueOrdered' /\ Deduplication' /\ BoundedQueue'
  BY DEF IInv, QueueOrdered, Deduplication, BoundedQueue
<1>3. \A i \in DOMAIN pending : pending[i] \in Ops
  BY LenProperties, ElementOfSeq DEF IInv, TypeOK
<1>4. NoOp \notin PendingOps
  BY <1>3, OpsAssumption DEF PendingOps
<1>5. OnePlace'
  BY <1>4 DEF IInv, OnePlace, PendingOps, ReservedOps
<1> QED BY <1>1, <1>2, <1>5 DEF IInv

\* Every step of the queue, its callers and the table preserves the inductive
\* invariant.
LEMMA NextIInv == IInv /\ [Next]_vars => IInv'
<1> SUFFICES ASSUME IInv, [Next]_vars PROVE IInv'
  OBVIOUS
<1>0. /\ checkpoint \in Tables /\ active \in Ops \cup {NoOp}
      /\ cleanup \in [busy : BOOLEAN, dbActive : Ops \cup {NoOp}]
  BY DEF IInv, TypeOK
<1>1. ASSUME NEW o \in Ops, Enqueue(o) PROVE IInv'
  BY <1>1, EnqueueStep
<1>2. ASSUME NEW o \in Ops, CancelPending(o) PROVE IInv'
  BY <1>2, CancelPendingStep
<1>3. ASSUME NEW c \in Callers, DequeueReserve(c) PROVE IInv'
  BY <1>3, DequeueReserveStep
<1>4. ASSUME NEW c \in Callers, DequeuePersist(c) PROVE IInv'
  BY <1>4, DequeuePersistStep
<1>5. ASSUME NEW c \in Callers, DequeueRollback(c) PROVE IInv'
  BY <1>5, DequeueRollbackStep
<1>6. ASSUME NEW o \in Ops, CheckpointCreated(o) PROVE IInv'
  <2>1. checkpoint' \in Tables
    BY <1>0, <1>6, TableOperators DEF CheckpointCreated
  <2> QED BY <1>0, <1>6, <2>1, QueueUnchangedStep DEF CheckpointCreated, queueVars
<1>7. ASSUME NEW o \in Ops, Heartbeat(o) PROVE IInv'
  <2>1. checkpoint' \in Tables
    BY <1>0, <1>7, TableOperators DEF Heartbeat
  <2> QED BY <1>0, <1>7, <2>1, QueueUnchangedStep DEF Heartbeat, queueVars
<1>8. ASSUME NEW o \in Ops, HeartbeatExpires(o) PROVE IInv'
  <2>1. checkpoint' \in Tables
    BY <1>0, <1>8, TableOperators DEF HeartbeatExpires
  <2> QED BY <1>0, <1>8, <2>1, QueueUnchangedStep DEF HeartbeatExpires, queueVars
<1>17. ASSUME NEW o \in Ops, CheckpointFailed(o) PROVE IInv'
  <2>1. checkpoint' \in Tables
    BY <1>0, <1>17, TableOperators DEF CheckpointFailed
  <2> QED BY <1>0, <1>17, <2>1, QueueUnchangedStep DEF CheckpointFailed, queueVars
<1>18. CASE CheckpointsExpire
  <2>1. NoRow \in Row
    BY DEF NoRow, Row, Statuses, Flags
  <2>2. checkpoint' \in Tables
    BY <1>0, <1>18, <2>1 DEF CheckpointsExpire, Tables
  <2> QED BY <1>0, <1>18, <2>2, QueueUnchangedStep DEF CheckpointsExpire, queueVars
<1>9. ASSUME NEW dbOk \in BOOLEAN, CompleteActive(dbOk) PROVE IInv'
  <2>1. active \in Ops
    BY <1>0, <1>9 DEF CompleteActive
  <2>2. checkpoint' \in Tables
    BY <1>0, <1>9, <2>1, TableOperators DEF CompleteActive
  <2> QED BY <1>0, <1>9, <2>2, QueueUnchangedStep DEF CompleteActive
<1>10. ASSUME NEW o \in Ops, NEW dbOk \in BOOLEAN, ClearActiveByOperation(o, dbOk)
       PROVE  IInv'
  <2>1. checkpoint' \in Tables
    BY <1>0, <1>10, TableOperators DEF ClearActiveByOperation
  <2> QED BY <1>0, <1>10, <2>1, QueueUnchangedStep DEF ClearActiveByOperation
<1>11. CASE ClearPending
  BY <1>11, ClearPendingStep
<1>12. CASE CleanupStaleDb
  <2>1. checkpoint' = CleanupStaleActive(checkpoint)
    BY <1>12 DEF CleanupStaleDb
  <2>2. PICK o \in Ops : TRUE
    BY <1>12 DEF CleanupStaleDb, StaleActive, ActiveRows
  <2>3. checkpoint' \in Tables
    BY <1>0, <2>1, <2>2, TableOperators
  <2>4. cleanup' \in [busy : BOOLEAN, dbActive : Ops \cup {NoOp}]
    BY <1>12 DEF CleanupStaleDb, ActiveRows
  <2> QED BY <1>12, <2>3, <2>4, QueueUnchangedStep DEF CleanupStaleDb
<1>13. CASE CleanupStaleMemory
  <2>1. cleanup' \in [busy : BOOLEAN, dbActive : Ops \cup {NoOp}]
    BY <1>13 DEF CleanupStaleMemory, IdleCleanup
  <2> QED BY <1>0, <1>13, <2>1, QueueUnchangedStep DEF CleanupStaleMemory
<1>14. CASE Restart
  BY <1>14, RestartStep
<1>15. CASE LoadPersistedActive
  BY <1>15, LoadPersistedActiveStep
<1>16. CASE UNCHANGED vars
  BY <1>0, <1>16, QueueUnchangedStep DEF vars
<1> QED
  BY <1>1, <1>2, <1>3, <1>4, <1>5, <1>6, <1>7, <1>8, <1>9, <1>10, <1>11, <1>12,
     <1>13, <1>14, <1>15, <1>16, <1>17, <1>18 DEF Next

---------------------------------------------------------------------------
\* The inductive invariant holds in every state of the queue, whatever the
\* constants are.
THEOREM Invariance == Spec => []IInv
<1>1. Init => IInv
  BY InitIInv
<1>2. IInv /\ [Next]_vars => IInv'
  BY NextIInv
<1> QED BY <1>1, <1>2, PTL DEF Spec

\* The queue, the slot, the reservations and the table keep their types.
THEOREM TypeCorrect == Spec => []TypeOK
<1>1. IInv => TypeOK
  BY DEF IInv
<1> QED BY <1>1, Invariance, PTL

\* Without a rolled-back dequeue the pending queue of queue.rs is sorted by
\* priority after any sequence of calls.
THEOREM OrderCorrect == Spec => []QueueOrdered
<1>1. IInv => QueueOrdered
  BY DEF IInv
<1> QED BY <1>1, Invariance, PTL

\* Without a rolled-back dequeue no request is pending twice.
THEOREM DeduplicationCorrect == Spec => []Deduplication
<1>1. IInv => Deduplication
  BY DEF IInv
<1> QED BY <1>1, Invariance, PTL

\* The queue never exceeds its capacity by more than the number of
\* rolled-back dequeues.
THEOREM BoundCorrect == Spec => []BoundedQueue
<1>1. IInv => BoundedQueue
  BY DEF IInv
<1> QED BY <1>1, Invariance, PTL

\* No operation is pending twice, reserved by two dequeues, or pending while
\* it holds the slot or is being dequeued.
THEOREM OnePlaceCorrect == Spec => []OnePlace
<1>1. IInv => OnePlace
  BY DEF IInv
<1> QED BY <1>1, Invariance, PTL

\* enqueue on a full queue of queue.rs drops an operation of the lowest
\* pending priority.
THEOREM EvictionCorrect == Spec => EvictsLowestPriority
<1> DEFINE A == rollbacks = 0 =>
                  \A o \in Ops : Enqueue(o) =>
                    \A p \in PendingOps \ PendingOps' :
                      SameRequest(p, o)
                        \/ \A r \in PendingOps' : Priority(r) >= Priority(p)
<1>1. IInv => A
  <2>1. SUFFICES ASSUME IInv, rollbacks = 0, NEW o \in Ops, Enqueue(o),
                        NEW p \in PendingOps \ PendingOps', ~SameRequest(p, o)
                 PROVE  \A r \in PendingOps' : Priority(r) >= Priority(p)
    OBVIOUS
  <2> HIDE DEF A
  <2>2. PICK s \in Seq(Ops) : s = pending /\ PrioritySorted(s)
    BY <2>1 DEF IInv, TypeOK, QueueOrdered
  <2>3. PICK t : t = Enqueued(s, o) /\ t = pending'
    BY <2>1, <2>2 DEF Enqueue
  <2>4. /\ t \in Seq(Ops)
        /\ \A i \in 1..Len(s) :
             \/ SameRequest(s[i], o)
             \/ \E n \in 1..Len(t) : t[n] = s[i]
             \/ \A n \in 1..Len(t) : Priority(t[n]) >= Priority(s[i])
    <3>1. t = Enqueued(s, o)
      BY <2>3
    <3>2. /\ t \in Seq(Ops)
          /\ PrioritySorted(s) =>
               \A i \in 1..Len(s) :
                 \/ SameRequest(s[i], o)
                 \/ \E n \in 1..Len(t) : t[n] = s[i]
                 \/ \A n \in 1..Len(t) : Priority(t[n]) >= Priority(s[i])
      BY <3>1, EnqueuedProperties
    <3> QED BY <2>2, <3>2
  <2>5. DOMAIN s = 1..Len(s) /\ DOMAIN t = 1..Len(t)
    BY <2>4, LenProperties
  <2>6. PICK i \in 1..Len(s) : s[i] = p
    BY <2>1, <2>2, <2>5 DEF PendingOps
  <2>7. \A n \in 1..Len(t) : t[n] # p
    BY <2>1, <2>3, <2>5 DEF PendingOps
  <2>8. \A n \in 1..Len(t) : Priority(t[n]) >= Priority(p)
    BY <2>1, <2>4, <2>6, <2>7
  <2> QED BY <2>3, <2>5, <2>8 DEF PendingOps
<1> HIDE DEF A
<1>2. Spec => [][A]_vars
  BY <1>1, Invariance, PTL
<1> QED BY <1>2 DEF A, EvictsLowestPriority

---------------------------------------------------------------------------
(***************************************************************************)
(* The queue with its callers.                                             *)
(***************************************************************************)
\* A checkpoint table as the queue sees it: the refinement mapping of Queue.
Forgotten(cp) ==
  [o \in Ops |-> IF Exists(cp, o) THEN [cp[o] EXCEPT !.status = "in_progress"] ELSE NoRow]

\* Forgetting the statuses gives a table again, whose rows keep their existence
\* and their active_flag and nothing else.
LEMMA ForgottenRows ==
  ASSUME NEW cp \in Tables
  PROVE  /\ Forgotten(cp) \in Tables
         /\ \A p \in Ops : Exists(cp, p) =>
              /\ Forgotten(cp)[p].status = "in_progress"
              /\ Forgotten(cp)[p].flag = cp[p].flag
         /\ \A p \in Ops : ~ Exists(cp, p) => Forgotten(cp)[p] = NoRow
<1>1. ASSUME NEW p \in Ops, Exists(cp, p)
      PROVE  /\ [cp[p] EXCEPT !.status = "in_progress"] \in Row
             /\ [cp[p] EXCEPT !.status = "in_progress"].status = "in_progress"
             /\ [cp[p] EXCEPT !.status = "in_progress"].flag = cp[p].flag
  BY DEF Tables, Row, Statuses
<1>2. NoRow \in Row
  BY DEF NoRow, Row, Statuses, Flags
<1> QED BY <1>1, <1>2 DEF Forgotten, Tables

\* Two checkpoint tables with the same statuses and flags are the same.
LEMMA SameTable ==
  ASSUME NEW cp \in Tables, NEW dp \in Tables,
         \A p \in Ops : cp[p].status = dp[p].status /\ cp[p].flag = dp[p].flag
  PROVE  cp = dp
<1>1. \A p \in Ops : cp[p] = dp[p]
  BY DEF Tables, Row
<1> QED BY <1>1 DEF Tables

\* What each statement of checkpoint_repo.rs does to the status and to the
\* active_flag of every row.
LEMMA TableOperatorsRows ==
  ASSUME NEW cp \in Tables, NEW o \in Ops
  PROVE  /\ MarkOperationCompleted(cp, o) \in Tables
         /\ MarkOperationFailed(cp, o) \in Tables
         /\ \A f \in Flags : \A p \in Ops :
              /\ [cp EXCEPT ![o].flag = f][p].status = cp[p].status
              /\ [cp EXCEPT ![o].flag = f][p].flag = IF p = o THEN f ELSE cp[p].flag
         /\ \A p \in Ops :
              /\ CreateCheckpoint(cp, o)[p].status = IF p = o THEN "in_progress" ELSE cp[p].status
              /\ CreateCheckpoint(cp, o)[p].flag = IF p = o THEN "clear" ELSE cp[p].flag
         /\ Exists(cp, o) => \A p \in Ops :
              /\ MarkOperationCompleted(cp, o)[p].status = IF p = o THEN "completed" ELSE cp[p].status
              /\ MarkOperationCompleted(cp, o)[p].flag = cp[p].flag
              /\ MarkOperationFailed(cp, o)[p].status = IF p = o THEN "failed" ELSE cp[p].status
              /\ MarkOperationFailed(cp, o)[p].flag = IF p = o THEN "clear" ELSE cp[p].flag
<1>1. \A p \in Ops : cp[p] \in Row
  BY DEF Tables
<1>2. MarkOperationCompleted(cp, o) \in Tables
  BY <1>1 DEF MarkOperationCompleted, Tables, Row, Statuses
<1>3. MarkOperationFailed(cp, o) \in Tables
  BY <1>1 DEF MarkOperationFailed, Tables, Row, Statuses, Flags
<1>4. ASSUME NEW f \in Flags, NEW p \in Ops
      PROVE  /\ [cp EXCEPT ![o].flag = f][p].status = cp[p].status
             /\ [cp EXCEPT ![o].flag = f][p].flag = IF p = o THEN f ELSE cp[p].flag
  BY <1>1 DEF Tables, Row
<1>5. ASSUME NEW p \in Ops
      PROVE  /\ CreateCheckpoint(cp, o)[p].status = IF p = o THEN "in_progress" ELSE cp[p].status
             /\ CreateCheckpoint(cp, o)[p].flag = IF p = o THEN "clear" ELSE cp[p].flag
  BY DEF CreateCheckpoint, Tables
<1>6. ASSUME Exists(cp, o), NEW p \in Ops
      PROVE   /\ MarkOperationCompleted(cp, o)[p].status = IF p = o THEN "completed" ELSE cp[p].status
              /\ MarkOperationCompleted(cp, o)[p].flag = cp[p].flag
  BY <1>1, <1>6 DEF MarkOperationCompleted, Tables, Row
<1>7. ASSUME Exists(cp, o), NEW p \in Ops
      PROVE   /\ MarkOperationFailed(cp, o)[p].status = IF p = o THEN "failed" ELSE cp[p].status
              /\ MarkOperationFailed(cp, o)[p].flag = IF p = o THEN "clear" ELSE cp[p].flag
  BY <1>1, <1>7 DEF MarkOperationFailed, Tables, Row
<1> QED BY <1>2, <1>3, <1>4, <1>5, <1>6, <1>7

\* Creating a checkpoint and setting or clearing its flag can be done before or
\* after forgetting the statuses; completing one is invisible, and failing one
\* is a cleared flag.
LEMMA TableForgets ==
  ASSUME NEW cp \in Tables, NEW o \in Ops
  PROVE  /\ Exists(Forgotten(cp), o) <=> Exists(cp, o)
         /\ Flagged(Forgotten(cp), o) <=> Flagged(cp, o)
         /\ Forgotten(CreateCheckpoint(cp, o)) = CreateCheckpoint(Forgotten(cp), o)
         /\ Exists(cp, o) => \A f \in Flags :
              Forgotten([cp EXCEPT ![o].flag = f]) = [Forgotten(cp) EXCEPT ![o].flag = f]
         /\ Forgotten(SetActiveFlag(cp, o)) = SetActiveFlag(Forgotten(cp), o)
         /\ Forgotten(ClearActiveFlag(cp, o)) = ClearActiveFlag(Forgotten(cp), o)
         /\ Forgotten(MarkOperationCompleted(cp, o)) = Forgotten(cp)
         /\ Forgotten(MarkOperationFailed(cp, o)) = ClearActiveFlag(Forgotten(cp), o)
<1> DEFINE F == Forgotten(cp)
<1>0. NoRow.status = "absent" /\ NoRow.flag = "clear" /\ "fresh" \in Flags /\ "clear" \in Flags
  BY DEF NoRow, Flags
<1>1. F \in Tables
  BY ForgottenRows
<1>2. \A p \in Ops : /\ Exists(cp, p) => F[p].status = "in_progress" /\ F[p].flag = cp[p].flag
                     /\ ~ Exists(cp, p) => F[p].status = "absent" /\ F[p].flag = "clear"
  BY <1>0, ForgottenRows
<1>3. \A p \in Ops : Exists(F, p) <=> Exists(cp, p)
  BY <1>2 DEF Exists
<1>4. \A p \in Ops : Flagged(F, p) <=> Flagged(cp, p)
  BY <1>2, <1>3 DEF Flagged
<1> HIDE DEF F
<1>5. Forgotten(CreateCheckpoint(cp, o)) = CreateCheckpoint(F, o)
  <2> DEFINE dp == CreateCheckpoint(cp, o)
             G == CreateCheckpoint(F, o)
             H == Forgotten(dp)
  <2>1. dp \in Tables /\ G \in Tables
    BY <1>1, TableOperators
  <2>2. \A p \in Ops : dp[p].status = (IF p = o THEN "in_progress" ELSE cp[p].status)
                       /\ dp[p].flag = (IF p = o THEN "clear" ELSE cp[p].flag)
    BY TableOperatorsRows
  <2>3. \A p \in Ops : G[p].status = (IF p = o THEN "in_progress" ELSE F[p].status)
                       /\ G[p].flag = (IF p = o THEN "clear" ELSE F[p].flag)
    BY <1>1, TableOperatorsRows
  <2> HIDE DEF dp, G
  <2>4. \A p \in Ops : /\ Exists(dp, p) => H[p].status = "in_progress" /\ H[p].flag = dp[p].flag
                       /\ ~ Exists(dp, p) => H[p].status = "absent" /\ H[p].flag = "clear"
    BY <1>0, <2>1, ForgottenRows
  <2>5. H \in Tables
    BY <2>1, ForgottenRows
  <2> HIDE DEF H
  <2>6. \A p \in Ops : H[p].status = G[p].status /\ H[p].flag = G[p].flag
    BY <1>2, <2>2, <2>3, <2>4 DEF Exists
  <2>7. H = G
    BY <2>1, <2>5, <2>6, SameTable
  <2> QED BY <2>7 DEF H, dp, G
<1>6. ASSUME Exists(cp, o), NEW f \in Flags
      PROVE  Forgotten([cp EXCEPT ![o].flag = f]) = [F EXCEPT ![o].flag = f]
  <2> DEFINE dp == [cp EXCEPT ![o].flag = f]
             G == [F EXCEPT ![o].flag = f]
             H == Forgotten(dp)
  <2>1. dp \in Tables /\ G \in Tables
    BY <1>1 DEF Tables, Row
  <2>2. \A p \in Ops : dp[p].status = cp[p].status
                       /\ dp[p].flag = (IF p = o THEN f ELSE cp[p].flag)
    BY TableOperatorsRows
  <2>3. \A p \in Ops : G[p].status = F[p].status
                       /\ G[p].flag = (IF p = o THEN f ELSE F[p].flag)
    BY <1>1, TableOperatorsRows
  <2> HIDE DEF dp, G
  <2>4. \A p \in Ops : /\ Exists(dp, p) => H[p].status = "in_progress" /\ H[p].flag = dp[p].flag
                       /\ ~ Exists(dp, p) => H[p].status = "absent" /\ H[p].flag = "clear"
    BY <1>0, <2>1, ForgottenRows
  <2>5. H \in Tables
    BY <2>1, ForgottenRows
  <2> HIDE DEF H
  <2>6. \A p \in Ops : H[p].status = G[p].status /\ H[p].flag = G[p].flag
    BY <1>2, <1>6, <2>2, <2>3, <2>4 DEF Exists
  <2>7. H = G
    BY <2>1, <2>5, <2>6, SameTable
  <2> QED BY <2>7 DEF H, dp, G
<1>7. /\ Forgotten(SetActiveFlag(cp, o)) = SetActiveFlag(F, o)
      /\ Forgotten(ClearActiveFlag(cp, o)) = ClearActiveFlag(F, o)
  <2>1. CASE Exists(cp, o)
    BY <1>0, <1>3, <1>6, <2>1 DEF SetActiveFlag, ClearActiveFlag
  <2>2. CASE ~ Exists(cp, o)
    BY <1>3, <2>2 DEF SetActiveFlag, ClearActiveFlag, F
  <2> QED BY <2>1, <2>2
<1>8. ASSUME Exists(cp, o) 
      PROVE  /\ Forgotten(MarkOperationCompleted(cp, o)) = F
             /\ Forgotten(MarkOperationFailed(cp, o)) = [F EXCEPT ![o].flag = "clear"]
  <2> DEFINE cc == MarkOperationCompleted(cp, o)
             cf == MarkOperationFailed(cp, o)
             G == [F EXCEPT ![o].flag = "clear"]
             C == Forgotten(cc)
             H == Forgotten(cf)
  <2>1. cc \in Tables /\ cf \in Tables
    BY TableOperatorsRows
  <2>1a. G \in Tables
    BY <1>0, <1>1 DEF Tables, Row
  <2>2. \A p \in Ops : /\ cc[p].status = IF p = o THEN "completed" ELSE cp[p].status
                       /\ cc[p].flag = cp[p].flag
    BY <1>8, TableOperatorsRows
  <2>2a. \A p \in Ops : /\ cf[p].status = IF p = o THEN "failed" ELSE cp[p].status
                        /\ cf[p].flag = IF p = o THEN "clear" ELSE cp[p].flag
    BY <1>8, TableOperatorsRows
  <2>3. \A p \in Ops : G[p].status = F[p].status
                       /\ G[p].flag = (IF p = o THEN "clear" ELSE F[p].flag)
    BY <1>0, <1>1, TableOperatorsRows
  <2> HIDE DEF cc, cf, G
  <2>4. \A p \in Ops : /\ Exists(cc, p) => C[p].status = "in_progress" /\ C[p].flag = cc[p].flag
                       /\ ~ Exists(cc, p) => C[p].status = "absent" /\ C[p].flag = "clear"
    BY <1>0, <2>1, ForgottenRows
  <2>5. \A p \in Ops : /\ Exists(cf, p) => H[p].status = "in_progress" /\ H[p].flag = cf[p].flag
                       /\ ~ Exists(cf, p) => H[p].status = "absent" /\ H[p].flag = "clear"
    BY <1>0, <2>1, ForgottenRows
  <2>6. C \in Tables /\ H \in Tables
    BY <2>1, ForgottenRows
  <2> HIDE DEF C, H
  <2>7. C = F
    <3>1. \A p \in Ops : C[p].status = F[p].status /\ C[p].flag = F[p].flag
      BY <1>2, <1>8, <2>2, <2>4 DEF Exists
    <3> QED BY <1>1, <2>6, <3>1, SameTable
  <2>8. H = G
    <3>1. \A p \in Ops : H[p].status = G[p].status /\ H[p].flag = G[p].flag
      BY <1>2, <1>8, <2>2a, <2>3, <2>5 DEF Exists
    <3> QED BY <2>1a, <2>6, <3>1, SameTable
  <2> QED BY <2>7, <2>8 DEF C, H, cc, cf, G
<1>9. /\ Forgotten(MarkOperationCompleted(cp, o)) = F
      /\ Forgotten(MarkOperationFailed(cp, o)) = ClearActiveFlag(F, o)
  <2>1. CASE Exists(cp, o)
    BY <1>3, <1>8, <2>1 DEF ClearActiveFlag
  <2>2. CASE ~ Exists(cp, o)
    BY <1>3, <2>2 DEF MarkOperationCompleted, MarkOperationFailed, ClearActiveFlag, F
  <2> QED BY <2>1, <2>2
<1> QED BY <1>3, <1>4, <1>5, <1>6, <1>7, <1>9 DEF F

\* The cleanup of stale flags finds and clears the same rows, whether the
\* statuses are forgotten before or after.
LEMMA SweepForgets ==
  ASSUME NEW cp \in Tables
  PROVE  /\ ActiveRows(Forgotten(cp)) = ActiveRows(cp)
         /\ StaleActive(Forgotten(cp)) = StaleActive(cp)
         /\ Forgotten(CleanupStaleActive(cp)) = CleanupStaleActive(Forgotten(cp))
         /\ \A old \in SUBSET Ops :
              Forgotten([o \in Ops |-> IF o \in old THEN NoRow ELSE cp[o]])
              = [o \in Ops |-> IF o \in old THEN NoRow ELSE Forgotten(cp)[o]]
<1> DEFINE F == Forgotten(cp)
<1>1. \A p \in Ops : /\ Exists(F, p) <=> Exists(cp, p)
                     /\ Flagged(F, p) <=> Flagged(cp, p)
                     /\ Flagged(cp, p) => F[p].flag = cp[p].flag
  BY TableForgets, ForgottenRows DEF Flagged
<1> HIDE DEF F
<1>2. ActiveRows(F) = ActiveRows(cp)
  BY <1>1 DEF ActiveRows
<1>3. StaleActive(F) = StaleActive(cp)
  BY <1>1, <1>2 DEF StaleActive, ActiveRows
<1>4. Forgotten(CleanupStaleActive(cp)) = CleanupStaleActive(F)
  <2>1. \A p \in StaleActive(cp) : p \in Ops /\ Exists(cp, p)
    BY DEF StaleActive, ActiveRows, Flagged
  <2>2. \A p \in Ops : cp[p] \in Row
    BY DEF Tables
  <2>3. ASSUME NEW p \in Ops
        PROVE  Forgotten(CleanupStaleActive(cp))[p] = CleanupStaleActive(F)[p]
    <3>1. CASE p \in StaleActive(cp)
      BY <1>3, <2>1, <2>2, <3>1 DEF Forgotten, CleanupStaleActive, Exists, F, Row
    <3>2. CASE p \notin StaleActive(cp)
      BY <1>3, <3>2 DEF Forgotten, CleanupStaleActive, Exists, F
    <3> QED BY <3>1, <3>2
  <2> QED BY <2>3 DEF Forgotten, CleanupStaleActive
<1>5. ASSUME NEW old \in SUBSET Ops
      PROVE  Forgotten([o \in Ops |-> IF o \in old THEN NoRow ELSE cp[o]])
              = [o \in Ops |-> IF o \in old THEN NoRow ELSE F[o]]
  BY DEF Forgotten, Exists, NoRow, F
<1> QED BY <1>2, <1>3, <1>4, <1>5 DEF F

\* The table operators of the instance Queue are those of Checkpoints: they do
\* not depend on the table the instance substitutes.
LEMMA SameOperators ==
  /\ \A cp, o : /\ Queue!Exists(cp, o) <=> Exists(cp, o)
                /\ Queue!Flagged(cp, o) <=> Flagged(cp, o)
                /\ Queue!CreateCheckpoint(cp, o) = CreateCheckpoint(cp, o)
                /\ Queue!SetActiveFlag(cp, o) = SetActiveFlag(cp, o)
                /\ Queue!ClearActiveFlag(cp, o) = ClearActiveFlag(cp, o)
                /\ Queue!UpdateHeartbeat(cp, o) = UpdateHeartbeat(cp, o)
  /\ \A cp : /\ Queue!ActiveRows(cp) = ActiveRows(cp)
             /\ Queue!StaleActive(cp) = StaleActive(cp)
             /\ Queue!CleanupStaleActive(cp) = CleanupStaleActive(cp)
<1>1. \A cp, o : /\ Queue!Exists(cp, o) <=> Exists(cp, o)
                 /\ Queue!Flagged(cp, o) <=> Flagged(cp, o)
  BY DEF Queue!Exists, Exists, Queue!Flagged, Flagged
<1>2. \A cp, o : /\ Queue!CreateCheckpoint(cp, o) = CreateCheckpoint(cp, o)
                /\ Queue!SetActiveFlag(cp, o) = SetActiveFlag(cp, o)
                /\ Queue!ClearActiveFlag(cp, o) = ClearActiveFlag(cp, o)
                /\ Queue!UpdateHeartbeat(cp, o) = UpdateHeartbeat(cp, o)
  BY DEF Queue!CreateCheckpoint, CreateCheckpoint, Queue!SetActiveFlag, SetActiveFlag,
         Queue!ClearActiveFlag, ClearActiveFlag, Queue!UpdateHeartbeat, UpdateHeartbeat,
         Queue!Exists, Exists
<1>3. \A cp : /\ Queue!ActiveRows(cp) = ActiveRows(cp)
             /\ Queue!StaleActive(cp) = StaleActive(cp)
             /\ Queue!CleanupStaleActive(cp) = CleanupStaleActive(cp)
  BY DEF Queue!ActiveRows, ActiveRows, Queue!StaleActive, StaleActive,
     Queue!CleanupStaleActive,
         CleanupStaleActive, Queue!Flagged, Flagged, Queue!Exists, Exists
<1> QED BY <1>1, <1>2, <1>3

\* enqueue computes the same pending deque in the instance Queue.
LEMMA SameEnqueued == \A s, o : Queue!Enqueued(s, o) = Enqueued(s, o)
<1>1. /\ \A o, p : Queue!SameRequest(o, p) <=> SameRequest(o, p)
      /\ \A o : Queue!Priority(o) = Priority(o)
  BY DEF Queue!SameRequest, SameRequest, Queue!QueueKind, QueueKind, Queue!Priority,
     Priority
<1>2. /\ \A S : Queue!Min(S) = Min(S)
      /\ \A s, i : Queue!RemoveAt(s, i) = RemoveAt(s, i)
      /\ \A s, i, e : Queue!InsertAt(s, i, e) = InsertAt(s, i, e)
  BY DEF Queue!Min, Min, Queue!RemoveAt, RemoveAt, Queue!InsertAt, InsertAt
<1>3. \A s, I : Queue!RetainAt(s, I) = RetainAt(s, I)
  <2>1. \A S : Queue!Cardinality(S) = Cardinality(S)
    BY Zenon DEF Queue!Cardinality, Cardinality, Queue!IsFiniteSet, IsFiniteSet
  <2>2. \A I, n : Queue!NthOf(I, n) = NthOf(I, n)
    BY <2>1 DEF Queue!NthOf, NthOf
  <2> QED BY <2>1, <2>2 DEF Queue!RetainAt, RetainAt
<1>4. \A s, o : Queue!Deduplicated(s, o) = Deduplicated(s, o)
  BY <1>1, <1>3 DEF Queue!Deduplicated, Deduplicated
<1>5. \A s, o : Queue!InsertPosition(s, o) = InsertPosition(s, o)
  BY <1>1, <1>2 DEF Queue!InsertPosition, InsertPosition
<1>6. \A s, o : Queue!InsertByPriority(s, o) = InsertByPriority(s, o)
  BY <1>2, <1>5 DEF Queue!InsertByPriority, InsertByPriority
<1>7. \A s : Queue!EvictPosition(s) = EvictPosition(s)
  BY <1>1, <1>2 DEF Queue!EvictPosition, EvictPosition
<1>8. \A s : Queue!EvictOverflow(s) = EvictOverflow(s)
  BY <1>2, <1>7 DEF Queue!EvictOverflow, EvictOverflow
<1> QED BY <1>4, <1>6, <1>8 DEF Queue!Enqueued, Enqueued

\* mark_operation_completed, mark_operation_failed or the TTL cleanup, on a
\* table the queue leaves alone.
StatusStep ==
  /\ UNCHANGED <<queueVars, rollbacks>>
  /\ \/ \E o \in Ops : checkpoint' = MarkOperationCompleted(checkpoint, o)
     \/ \E o \in Ops : checkpoint' = MarkOperationFailed(checkpoint, o)
     \/ \E old \in SUBSET Expirable(checkpoint) : checkpoint' = DeleteExpired(checkpoint, old)

\* A step of the queue is a step of the queue as its callers see it.
LEMMA NextForgets ==
  ASSUME TypeOK, [Next]_vars
  PROVE  [Queue!Next]_(Queue!vars)
<1>0. checkpoint \in Tables /\ active \in Ops \cup {NoOp}
  BY DEF TypeOK
<1> DEFINE F == Forgotten(checkpoint)
<1>a. checkpoint' = checkpoint => F' = F
  BY DEF Forgotten, Exists
<1>b. Queue!PendingOps = PendingOps /\ Queue!ReservedOps = ReservedOps
      /\ Queue!IdleCleanup = IdleCleanup
  BY DEF Queue!PendingOps, PendingOps, Queue!ReservedOps, ReservedOps, Queue!IdleCleanup,
     IdleCleanup
<1>1. ASSUME NEW o \in Ops, Enqueue(o) PROVE Queue!Enqueue(o)
  BY <1>1, <1>a, <1>b, SameEnqueued DEF Enqueue, Queue!Enqueue, F, Forgotten
<1>2. ASSUME NEW o \in Ops, CancelPending(o) PROVE Queue!CancelPending(o)
  <2>1. \A s, i : Queue!RemoveAt(s, i) = RemoveAt(s, i)
    BY DEF Queue!RemoveAt, RemoveAt
  <2> QED BY <1>2, <1>a, <2>1 DEF CancelPending, Queue!CancelPending, F, Forgotten
<1>3. ASSUME NEW c \in Callers, DequeueReserve(c) PROVE Queue!DequeueReserve(c)
  BY <1>3, <1>a DEF DequeueReserve, Queue!DequeueReserve, F, Forgotten
<1>4. ASSUME NEW c \in Callers, DequeuePersist(c) PROVE Queue!DequeuePersist(c)
  <2>1. F' = SetActiveFlag(F, reserved[c])
    BY <1>0, <1>4, TableForgets DEF TypeOK, DequeuePersist
  <2> QED BY <1>4, <2>1, SameOperators DEF DequeuePersist, Queue!DequeuePersist, F,
             Forgotten
<1>5. ASSUME NEW c \in Callers, DequeueRollback(c) PROVE Queue!DequeueRollback(c)
  <2>1. \A e, s : Queue!Cons(e, s) = Cons(e, s)
    BY DEF Queue!Cons, Cons
  <2> QED BY <1>5, <1>a, <2>1 DEF DequeueRollback, Queue!DequeueRollback, F, Forgotten
<1>6. ASSUME NEW o \in Ops, CheckpointCreated(o) PROVE Queue!CheckpointCreated(o)
  <2>1. F' = CreateCheckpoint(F, o) /\ ~ Exists(F, o)
    BY <1>0, <1>6, TableForgets DEF CheckpointCreated
  <2> QED BY <1>6, <2>1, SameOperators
          DEF CheckpointCreated, Queue!CheckpointCreated, F, Forgotten, queueVars, Queue!queueVars
<1>7. ASSUME NEW o \in Ops, CheckpointFailed(o) PROVE Queue!CheckpointFailed(o)
  <2>1. F' = ClearActiveFlag(F, o) /\ Flagged(F, o)
    BY <1>0, <1>7, TableForgets DEF CheckpointFailed
  <2> QED BY <1>7, <2>1, SameOperators
          DEF CheckpointFailed, Queue!CheckpointFailed, F, Forgotten, queueVars, Queue!queueVars
<1>8. CASE CheckpointsExpire
  <2>1. PICK old \in SUBSET {o \in Ops : Exists(checkpoint, o) /\ ~Flagged(checkpoint, o)} :
              checkpoint' = [o \in Ops |-> IF o \in old THEN NoRow ELSE checkpoint[o]]
    BY <1>8 DEF CheckpointsExpire
  <2>2. F' = [o \in Ops |-> IF o \in old THEN NoRow ELSE F[o]]
    BY <1>0, <2>1, SweepForgets
  <2>3. \A o \in old : o \in Ops /\ Exists(F, o) /\ ~ Flagged(F, o)
    BY <1>0, <2>1, TableForgets
  <2>4. Queue!NoRow = NoRow
    BY DEF Queue!NoRow, NoRow
  <2>5. Queue!CheckpointsExpire
    BY <1>8, <2>2, <2>3, <2>4, SameOperators
       DEF CheckpointsExpire, Queue!CheckpointsExpire, F, Forgotten, queueVars, Queue!queueVars
  <2> QED BY <2>5 DEF Queue!Next
<1>9. ASSUME NEW o \in Ops, Heartbeat(o) PROVE Queue!Heartbeat(o)
  <2>1. F' = UpdateHeartbeat(F, o) /\ Flagged(F, o)
    BY <1>0, <1>9, TableForgets DEF Heartbeat, UpdateHeartbeat, Flagged, Flags
  <2> QED BY <1>9, <2>1, SameOperators
          DEF Heartbeat, Queue!Heartbeat, F, Forgotten, queueVars, Queue!queueVars
<1>10. ASSUME NEW o \in Ops, HeartbeatExpires(o) PROVE Queue!HeartbeatExpires(o)
  <2>1. F' = [F EXCEPT ![o].flag = "stale"] /\ Flagged(F, o)
    BY <1>0, <1>10, TableForgets DEF HeartbeatExpires, Flagged, Flags
  <2> QED BY <1>10, <2>1, SameOperators
          DEF HeartbeatExpires, Queue!HeartbeatExpires, F, Forgotten, queueVars, Queue!queueVars
<1>11. ASSUME NEW dbOk \in BOOLEAN, CompleteActive(dbOk) PROVE Queue!CompleteActive(dbOk)
  <2>1. F' = IF dbOk THEN ClearActiveFlag(F, active) ELSE F
    BY <1>0, <1>11, TableForgets DEF CompleteActive
  <2> QED BY <1>11, <2>1, SameOperators DEF CompleteActive, Queue!CompleteActive, F,
             Forgotten
<1>12. ASSUME NEW o \in Ops, NEW dbOk \in BOOLEAN, ClearActiveByOperation(o, dbOk)
       PROVE  Queue!ClearActiveByOperation(o, dbOk)
  <2>1. F' = IF dbOk THEN ClearActiveFlag(F, o) ELSE F
    BY <1>0, <1>12, TableForgets DEF ClearActiveByOperation
  <2> QED BY <1>12, <2>1, SameOperators
          DEF ClearActiveByOperation, Queue!ClearActiveByOperation, F, Forgotten
<1>13. CASE ClearPending
  <2>1. Queue!ClearPending
    BY <1>13, <1>a DEF ClearPending, Queue!ClearPending, F, Forgotten
  <2> QED BY <2>1 DEF Queue!Next
<1>14. CASE CleanupStaleDb
  <2>1. /\ F' = CleanupStaleActive(F) /\ StaleActive(F) = StaleActive(checkpoint)
        /\ ActiveRows(F) = ActiveRows(checkpoint)
    BY <1>0, <1>14, SweepForgets DEF CleanupStaleDb
  <2>2. Queue!CleanupStaleDb
    BY <1>14, <2>1, SameOperators DEF CleanupStaleDb, Queue!CleanupStaleDb, F, Forgotten
  <2> QED BY <2>2 DEF Queue!Next
<1>15. CASE CleanupStaleMemory
  <2>1. Queue!CleanupStaleMemory
    BY <1>15, <1>a, <1>b DEF CleanupStaleMemory, Queue!CleanupStaleMemory, F, Forgotten
  <2> QED BY <2>1 DEF Queue!Next
<1>16. CASE Restart
  <2>1. Queue!Restart
    BY <1>16, <1>a, <1>b DEF Restart, Queue!Restart, F, Forgotten
  <2> QED BY <2>1 DEF Queue!Next
<1>17. CASE LoadPersistedActive
  <2>1. ActiveRows(F) = ActiveRows(checkpoint)
    BY <1>0, SweepForgets
  <2>2. Queue!LoadPersistedActive
    BY <1>17, <1>a, <1>b, <2>1, SameOperators
       DEF LoadPersistedActive, Queue!LoadPersistedActive, F, Forgotten
  <2> QED BY <2>2 DEF Queue!Next
<1>18. CASE UNCHANGED vars
  BY <1>18, <1>a DEF vars, Queue!vars, F, Forgotten
<1> QED BY <1>1, <1>2, <1>3, <1>4, <1>5, <1>6, <1>7, <1>8, <1>9, <1>10, <1>11, <1>12, <1>13,
           <1>14, <1>15, <1>16, <1>17, <1>18 DEF Next, Queue!Next

\* A change of checkpoint statuses is to the queue a cleared flag, a deleted row
\* or nothing.
LEMMA StatusForgets ==
  ASSUME TypeOK, StatusStep
  PROVE  [Queue!Next]_(Queue!vars)
<1> DEFINE F == Forgotten(checkpoint)
<1>0. checkpoint \in Tables
  BY DEF TypeOK
<1>q. UNCHANGED <<pending, active, reserved, cleanup, rollbacks>>
  BY DEF StatusStep, queueVars
<1>1. ASSUME NEW o \in Ops, checkpoint' = MarkOperationCompleted(checkpoint, o)
      PROVE  UNCHANGED Queue!vars
  <2>1. F' = F
    BY <1>0, <1>1, TableForgets
  <2> QED BY <1>q, <2>1 DEF Queue!vars, F, Forgotten
<1>2. ASSUME NEW o \in Ops, checkpoint' = MarkOperationFailed(checkpoint, o)
      PROVE  [Queue!Next]_(Queue!vars)
  <2>1. F' = ClearActiveFlag(F, o)
    BY <1>0, <1>2, TableForgets
  <2>2. CASE Flagged(F, o)
    <3>1. Queue!CheckpointFailed(o)
      BY <1>q, <2>1, <2>2, SameOperators
         DEF Queue!CheckpointFailed, F, Forgotten, Queue!queueVars
    <3> QED BY <3>1 DEF Queue!Next
  <2>3. CASE ~ Flagged(F, o)
    <3>1. F \in Tables
      BY <1>0, ForgottenRows
    <3>2. ClearActiveFlag(F, o) = F
      BY <2>3, <3>1 DEF ClearActiveFlag, Flagged, Tables, Row
    <3> QED BY <1>q, <2>1, <3>2 DEF Queue!vars, F, Forgotten
  <2> QED BY <2>2, <2>3
<1>3. ASSUME NEW old \in SUBSET Expirable(checkpoint),
             checkpoint' = DeleteExpired(checkpoint, old)
      PROVE  Queue!Next
  <2>1. old \in SUBSET Ops /\ checkpoint' = [o \in Ops |-> IF o \in old THEN NoRow ELSE checkpoint[o]]
    BY <1>3 DEF DeleteExpired, Expirable
  <2>2. F' = [o \in Ops |-> IF o \in old THEN NoRow ELSE F[o]]
    BY <1>0, <2>1, SweepForgets
  <2>3. \A o \in old : o \in Ops /\ Exists(checkpoint, o) /\ ~ Flagged(checkpoint, o)
    BY DEF Expirable, Exists, Flagged
  <2>4. \A o \in old : o \in Ops /\ Exists(F, o) /\ ~ Flagged(F, o)
    BY <1>0, <2>3, TableForgets
  <2>5. Queue!NoRow = NoRow
    BY DEF Queue!NoRow, NoRow
  <2>6. Queue!CheckpointsExpire
    BY <1>q, <2>2, <2>4, <2>5, SameOperators
       DEF Queue!CheckpointsExpire, F, Forgotten, Queue!queueVars
  <2> QED BY <2>6 DEF Queue!Next
<1> QED BY <1>1, <1>2, <1>3 DEF StatusStep

\* The operations that have a checkpoint.
Recorded(cp) == {o \in Ops : Exists(cp, o)}

\* A task holds an id from its request to its return, a row while it indexes or
\* has still to close it, and the operation complete_active gave it.
WorkerInv ==
  \A w \in Callers :
    /\ worker[w].pc # "idle" => worker[w].own \in Ops
    /\ worker[w].pc \in {"index", "markRow"} => worker[w].row \in Ops
    /\ worker[w].pc = "mark" => worker[w].done \in Ops

\* The inductive invariant of the callers.
GateInv == IInv /\ GateTypeOK /\ WorkerInv /\ IsFiniteSet(Recorded(checkpoint))

\* A finite set of operation ids that is not empty has a latest one.
LEMMA GreatestOfFinite ==
  ASSUME NEW S \in SUBSET Nat, IsFiniteSet(S), S # {}
  PROVE  \E x \in S : \A y \in S : y <= x
<1> DEFINE Has(R) == \E x \in R : \A y \in R : y <= x
           T == {n \in Nat : \E R \in SUBSET S : R # {} /\ Cardinality(R) = n /\ ~ Has(R)}
<1>1. \A R \in SUBSET S : IsFiniteSet(R) /\ Cardinality(R) \in Nat
  BY FS_Subset, FS_CardinalityType
<1>2. SUFFICES ASSUME T # {} PROVE FALSE
  BY <1>1
<1>3. PICK n \in T : \A m \in T : n <= m
  <2>1. T \in SUBSET Nat
    OBVIOUS
  <2> HIDE DEF T
  <2> QED BY <1>2, <2>1, LeastNat
<1>4. PICK R \in SUBSET S : R # {} /\ Cardinality(R) = n /\ ~ Has(R)
  BY <1>3
<1>5. PICK x \in R : TRUE
  BY <1>4
<1> DEFINE Q == R \ {x}
<1>6. Q \in SUBSET S /\ Cardinality(Q) = n - 1
  BY <1>1, <1>4, <1>5, FS_RemoveElement
<1>7. CASE Q = {}
  BY <1>4, <1>5, <1>7
<1>8. CASE Q # {}
  <2>1. Cardinality(Q) \in Nat /\ n \in Nat
    BY <1>1, <1>3, <1>6
  <2>2. Has(Q)
    <3>1. ~ Has(Q) => Cardinality(Q) \in T
      BY <1>6, <1>8, <2>1
    <3> HIDE DEF T, Q, Has
    <3> QED BY <1>3, <1>6, <2>1, <3>1
  <2>3. PICK y \in Q : \A z \in Q : z <= y
    BY <2>2
  <2>4. x \in Nat /\ y \in Nat /\ \A z \in R : z \in Nat
    BY <1>5
  <2>5. CASE x <= y
    BY <1>4, <1>5, <2>3, <2>4, <2>5
  <2>6. CASE y <= x
    BY <1>4, <1>5, <2>3, <2>4, <2>6
  <2> QED BY <2>4, <2>5, <2>6
<1> QED BY <1>7, <1>8

\* The ORDER BY ... LIMIT 1 of get_latest_incomplete_by_type returns an
\* unfinished operation of the kind and the root, or none.
LEMMA LatestType ==
  ASSUME IsFiniteSet(Recorded(checkpoint)), NEW kind, NEW root
  PROVE  /\ LatestIncompleteByType(checkpoint, kind, root) \in Ops \cup {NoOp}
         /\ LatestIncompleteByType(checkpoint, kind, root) # NoOp =>
              LatestIncompleteByType(checkpoint, kind, root)
                \in IncompleteByType(checkpoint, kind, root)
<1> DEFINE found == IncompleteByType(checkpoint, kind, root)
<1>1. found \subseteq Recorded(checkpoint) /\ found \in SUBSET Ops /\ found \in SUBSET Nat
  BY OpsAssumption DEF IncompleteByType, UnfinishedOperations, Recorded, Exists
<1>2. IsFiniteSet(found)
  BY <1>1, FS_Subset
<1>3. found # {} => \E o \in found : \A p \in found : p <= o
  BY <1>1, <1>2, GreatestOfFinite
<1> HIDE DEF found
<1>4. LatestIncompleteByType(checkpoint, kind, root)
        = IF found = {} THEN NoOp ELSE CHOOSE o \in found : \A p \in found : p <= o
  BY DEF LatestIncompleteByType, found
<1> QED BY <1>1, <1>3, <1>4 DEF found

\* Only create_checkpoint adds a row, and only its own.
LEMMA RecordedRows ==
  ASSUME NEW cp \in Tables, NEW o \in Ops
  PROVE  /\ Recorded(CreateCheckpoint(cp, o)) \subseteq Recorded(cp) \cup {o}
         /\ \A f \in Flags : Recorded([cp EXCEPT ![o].flag = f]) \subseteq Recorded(cp)
         /\ Recorded(SetActiveFlag(cp, o)) \subseteq Recorded(cp)
         /\ Recorded(ClearActiveFlag(cp, o)) \subseteq Recorded(cp)
         /\ Recorded(MarkOperationCompleted(cp, o)) \subseteq Recorded(cp)
         /\ Recorded(MarkOperationFailed(cp, o)) \subseteq Recorded(cp)
         /\ Recorded(CleanupStaleActive(cp)) \subseteq Recorded(cp)
<1>1. Recorded(CreateCheckpoint(cp, o)) \subseteq Recorded(cp) \cup {o}
  BY TableOperatorsRows DEF Recorded, Exists
<1>2. ASSUME NEW f \in Flags PROVE Recorded([cp EXCEPT ![o].flag = f]) \subseteq Recorded(cp)
  BY TableOperatorsRows DEF Recorded, Exists
<1>3. "fresh" \in Flags /\ "clear" \in Flags
  BY DEF Flags
<1>4. /\ Recorded(SetActiveFlag(cp, o)) \subseteq Recorded(cp)
      /\ Recorded(ClearActiveFlag(cp, o)) \subseteq Recorded(cp)
  BY <1>2, <1>3 DEF SetActiveFlag, ClearActiveFlag
<1>5. /\ Recorded(MarkOperationCompleted(cp, o)) \subseteq Recorded(cp)
      /\ Recorded(MarkOperationFailed(cp, o)) \subseteq Recorded(cp)
  <2>1. CASE Exists(cp, o)
    <3>1. \A p \in Ops : p # o =>
            /\ MarkOperationCompleted(cp, o)[p].status = cp[p].status
            /\ MarkOperationFailed(cp, o)[p].status = cp[p].status
      BY <2>1, TableOperatorsRows
    <3> QED BY <2>1, <3>1 DEF Recorded, Exists
  <2>2. CASE ~ Exists(cp, o)
    BY <2>2 DEF MarkOperationCompleted, MarkOperationFailed
  <2> QED BY <2>1, <2>2
<1>6. Recorded(CleanupStaleActive(cp)) \subseteq Recorded(cp)
  <2>1. \A p \in Ops : cp[p] \in Row
    BY DEF Tables
  <2> QED BY <2>1 DEF Recorded, Exists, CleanupStaleActive, Row, StaleActive, ActiveRows,
             Flagged
<1> QED BY <1>1, <1>2, <1>4, <1>5, <1>6

\* The checkpoint table stays finite: a step of the queue's callers adds at most
\* one row.
LEMMA RecordedStep ==
  ASSUME TypeOK, IsFiniteSet(Recorded(checkpoint)), [Next]_vars \/ StatusStep
  PROVE  IsFiniteSet(Recorded(checkpoint'))
<1> DEFINE S == Recorded(checkpoint)
           T == Recorded(checkpoint')
<1>0. checkpoint \in Tables
  BY DEF TypeOK
<1>1. SUFFICES \E o : T \subseteq S \cup {o}
  <2>1. PICK o : T \subseteq S \cup {o}
    BY <1>1
  <2>2. IsFiniteSet(S \cup {o})
    BY FS_AddElement
  <2> QED BY <2>1, <2>2, FS_Subset
<1>2. ASSUME StatusStep PROVE T \subseteq S
  <2>1. ASSUME NEW old \in SUBSET Expirable(checkpoint),
               checkpoint' = DeleteExpired(checkpoint, old)
        PROVE  T \subseteq S
    BY <2>1 DEF DeleteExpired, Recorded, Exists, NoRow
  <2> QED BY <1>0, <1>2, <2>1, RecordedRows DEF StatusStep
<1>3. ASSUME NEW o \in Ops, CheckpointCreated(o) PROVE T \subseteq S \cup {o}
  BY <1>0, <1>3, RecordedRows DEF CheckpointCreated
<1>4. CASE checkpoint' = checkpoint
  BY <1>4
<1>5. ASSUME NEW c \in Callers, DequeuePersist(c) PROVE T \subseteq S
  BY <1>0, <1>5, RecordedRows DEF DequeuePersist, TypeOK
<1>6. ASSUME NEW o \in Ops, CheckpointFailed(o) \/ Heartbeat(o) \/ HeartbeatExpires(o)
      PROVE  T \subseteq S
  BY <1>0, <1>6, RecordedRows
     DEF CheckpointFailed, Heartbeat, HeartbeatExpires, UpdateHeartbeat, Flags
<1>7. CASE CheckpointsExpire
  BY <1>7 DEF CheckpointsExpire, Recorded, Exists, NoRow
<1>8. ASSUME NEW dbOk \in BOOLEAN, CompleteActive(dbOk) PROVE T \subseteq S
  BY <1>0, <1>8, RecordedRows DEF CompleteActive, TypeOK
<1>9. ASSUME NEW o \in Ops, NEW dbOk \in BOOLEAN, ClearActiveByOperation(o, dbOk)
      PROVE  T \subseteq S
  BY <1>0, <1>9, RecordedRows DEF ClearActiveByOperation
<1>10. CASE CleanupStaleDb
  <2>1. PICK o \in Ops : TRUE
    BY <1>10 DEF CleanupStaleDb, StaleActive, ActiveRows
  <2> QED BY <1>0, <1>10, <2>1, RecordedRows DEF CleanupStaleDb
<1>11. [Next]_vars => \/ \E o \in Ops : CheckpointCreated(o) \/ CheckpointFailed(o) \/ Heartbeat(o)
                                        \/ HeartbeatExpires(o)
                      \/ \E c \in Callers : DequeuePersist(c)
                      \/ CheckpointsExpire \/ CleanupStaleDb
                      \/ \E dbOk \in BOOLEAN : CompleteActive(dbOk)
                      \/ \E o \in Ops, dbOk \in BOOLEAN : ClearActiveByOperation(o, dbOk)
                      \/ checkpoint' = checkpoint
  BY DEF Next, vars, Enqueue, CancelPending, DequeueReserve, DequeueRollback, ClearPending,
         CleanupStaleMemory, Restart, LoadPersistedActive
<1> HIDE DEF S, T
<1> QED BY <1>2, <1>3, <1>4, <1>5, <1>6, <1>7, <1>8, <1>9, <1>10, <1>11

\* A new operation id is one of the ids asked for that was not handed out yet.
LEMMA NextIdType ==
  ASSUME NEW ids \in SUBSET Ops, NEW o \in NextId(ids)
  PROVE  o \in ids /\ o \notin used
<1>1. ids \ used \in SUBSET Nat /\ ~ (ids \subseteq used) /\ o = Min(ids \ used)
  BY OpsAssumption DEF NextId
<1> QED BY <1>1, MinOfNat

\* The workers are callers of the queue, and the ids they draw are operations.
LEMMA CallerSets ==
  /\ HotWorker \in Callers /\ FullWorkers \subseteq Callers
  /\ GateIds \in SUBSET Ops /\ IndexIds \in SUBSET Ops
  /\ \A kind : OpsOfKind(kind) \in SUBSET Ops
BY GateAssumption DEF GateIds, OpsOfKind

\* What index(), the hot-update runtime, the startup recovery and the cleanup
\* task do is a step of the queue or a change of a checkpoint's status.
LEMMA QueueOrStatus ==
  ASSUME GateInv, [GateNext]_allVars
  PROVE  [Next]_vars \/ StatusStep
<1>a. /\ worker \in [Callers -> Workers] /\ recovery \in SUBSET Ops
      /\ \A w \in Callers : worker[w].own \in Ops \cup {NoOp}
      /\ \A w \in Callers : worker[w].pc # "idle" => worker[w].own \in Ops
      /\ \A w \in Callers : worker[w].pc \in {"index", "markRow"} => worker[w].row \in Ops
      /\ \A w \in Callers : worker[w].pc = "mark" => worker[w].done \in Ops
  BY DEF GateInv, GateTypeOK, WorkerInv, Workers
<1>b. \A kind : OpsOfKind(kind) \in SUBSET Ops
  BY CallerSets
<1>c. recovery # {} => NextRecovered \in Ops
  <2>1. recovery \in SUBSET Nat
    BY <1>a, OpsAssumption
  <2> QED BY <1>a, <2>1, MinOfNat DEF NextRecovered
<1>1. ASSUME NEW w \in FullWorkers, FullRequest(w) PROVE [Next]_vars \/ StatusStep
  BY <1>1 DEF FullRequest
<1>2. ASSUME NEW w \in FullWorkers, FullFails(w) PROVE [Next]_vars \/ StatusStep
  BY <1>2 DEF FullFails
<1>3. ASSUME NEW w \in FullWorkers, FullEnqueue(w) PROVE [Next]_vars \/ StatusStep
  BY <1>3, <1>a, CallerSets DEF FullEnqueue, At, Next
<1>4. ASSUME NEW w \in FullWorkers, FullStart(w) PROVE [Next]_vars \/ StatusStep
  <2>1. UNCHANGED vars \/ \E p \in NextId(IndexIds) : CheckpointCreated(p)
    BY <1>4 DEF FullStart
  <2>2. NextId(IndexIds) \subseteq Ops
    BY CallerSets, NextIdType
  <2> QED BY <2>1, <2>2 DEF Next
<1>5. ASSUME NEW w \in FullWorkers, FullIndexed(w) PROVE [Next]_vars \/ StatusStep
  BY <1>5, <1>a, CallerSets DEF FullIndexed, At, StatusStep
<1>6. ASSUME NEW w \in Callers, Reject(w) PROVE [Next]_vars \/ StatusStep
  BY <1>6 DEF Reject
<1>7. ASSUME NEW w \in Callers, Abandon(w) PROVE [Next]_vars \/ StatusStep
  BY <1>7 DEF Abandon
<1>8. ASSUME NEW w \in Callers, CompleteNothing(w) PROVE [Next]_vars \/ StatusStep
  BY <1>8 DEF CompleteNothing
<1>9. ASSUME NEW w \in Callers, GateDequeue(w) PROVE [Next]_vars \/ StatusStep
  BY <1>9 DEF GateDequeue, Next
<1>10. ASSUME NEW w \in Callers, GatePersist(w) PROVE [Next]_vars \/ StatusStep
  BY <1>10 DEF GatePersist, Next
<1>11. ASSUME NEW w \in Callers, GateRollback(w) PROVE [Next]_vars \/ StatusStep
  BY <1>11 DEF GateRollback, Next
<1>12. ASSUME NEW w \in Callers, Complete(w) PROVE [Next]_vars \/ StatusStep
  BY <1>12 DEF Complete, Next
<1>13. ASSUME NEW w \in Callers, CompleteFails(w) PROVE [Next]_vars \/ StatusStep
  BY <1>13 DEF CompleteFails, Next
<1>14. ASSUME NEW w \in Callers, Mark(w) PROVE [Next]_vars \/ StatusStep
  BY <1>14, <1>a DEF Mark, At, StatusStep
<1>15. ASSUME NEW w \in Callers, MarkRow(w) PROVE [Next]_vars \/ StatusStep
  BY <1>15, <1>a DEF MarkRow, At, StatusStep
<1>16. ASSUME NEW w \in Callers, Clear(w) PROVE [Next]_vars \/ StatusStep
  BY <1>16, <1>a DEF Clear, At, Next
<1>17. ASSUME NEW requeue \in BOOLEAN, HotTakeConfig(requeue) PROVE [Next]_vars \/ StatusStep
  <2>1. \E p \in NextId(OpsOfKind("config_change")) : Enqueue(p)
    BY <1>17 DEF HotTakeConfig
  <2>2. NextId(OpsOfKind("config_change")) \subseteq Ops
    BY <1>b, NextIdType
  <2> QED BY <2>1, <2>2 DEF Next
<1>18. CASE ConfigChanged
  BY <1>18 DEF ConfigChanged
<1>19. CASE HotResume
  BY <1>19 DEF HotResume
<1>20. CASE HotRequest
  <2>1. \E p \in NextId(OpsOfKind("hot_update")) : Enqueue(p)
    BY <1>20 DEF HotRequest
  <2>2. NextId(OpsOfKind("hot_update")) \subseteq Ops
    BY <1>b, NextIdType
  <2> QED BY <2>1, <2>2 DEF Next
<1>21. CASE HotCheckpoint
  BY <1>21, <1>a, CallerSets DEF HotCheckpoint, At, Next
<1>22. CASE HotNoChange
  BY <1>22 DEF HotNoChange
<1>23. CASE HotSucceeds
  BY <1>23, <1>a, CallerSets DEF HotSucceeds, StatusStep
<1>24. CASE HotFails
  <2>1. worker[HotWorker].own \in Ops
    BY <1>24, <1>a, CallerSets DEF HotFails
  <2>2. CASE KindOf[worker[HotWorker].own] = "config_change"
    BY <1>24, <2>1, <2>2 DEF HotFails, StatusStep
  <2>3. CASE KindOf[worker[HotWorker].own] # "config_change"
    BY <1>24, <2>3 DEF HotFails, vars, queueVars
  <2> QED BY <2>2, <2>3
<1>25. CASE Crash
  BY <1>25 DEF Crash, Next
<1>26. CASE RecoverStale
  BY <1>26, <1>c DEF RecoverStale, StatusStep
<1>27. CASE RecoverQueued
  BY <1>27, <1>c DEF RecoverQueued, Next
<1>28. CASE RecoverDirect
  BY <1>28 DEF RecoverDirect
<1>29. ASSUME NEW o \in Ops, TimeoutPasses(o) PROVE [Next]_vars \/ StatusStep
  BY <1>29 DEF TimeoutPasses, Next
<1>30. CASE TtlCleanup
  BY <1>30 DEF TtlCleanup, StatusStep
<1>31. CASE StaleCleanup
  BY <1>31 DEF StaleCleanup, Next
<1>32. CASE UNCHANGED allVars
  BY <1>32 DEF allVars
<1> QED BY <1>1, <1>2, <1>3, <1>4, <1>5, <1>6, <1>7, <1>8, <1>9, <1>10, <1>11, <1>12, <1>13,
           <1>14, <1>15, <1>16, <1>17, <1>18, <1>19, <1>20, <1>21, <1>22, <1>23, <1>24,
           <1>25, <1>26, <1>27, <1>28, <1>29, <1>30, <1>31, <1>32 DEF GateNext, FullStep,
           AnyStep, Faulty, HotStep, Recover

\* Every step of every task keeps the types and what a task holds at each of its
\* points.
LEMMA WorkerStep ==
  ASSUME GateInv, [GateNext]_allVars
  PROVE  GateTypeOK' /\ WorkerInv'
<1> DEFINE Goal == GateTypeOK' /\ WorkerInv'
<1>a. /\ worker \in [Callers -> Workers] /\ configs \in Nat
      /\ recovery \in SUBSET Ops /\ used \in SUBSET Ops
      /\ failures \in 0..MaxFailures /\ crashes \in 0..MaxCrashes
      /\ MaxFailures \in Nat /\ MaxCrashes \in Nat
  BY GateAssumption DEF GateInv, GateTypeOK
<1>b. Idle \in Workers /\ Idle.pc = "idle"
  BY DEF Idle, Workers, Points
<1>c. HotWorker \in Callers
  BY CallerSets
<1>i. active \in Ops \cup {NoOp}
  BY DEF GateInv, IInv, TypeOK
<1>d. ASSUME NEW w \in Callers, NEW r \in Workers, worker' = [worker EXCEPT ![w] = r],
             r.pc # "idle" => r.own \in Ops,
             r.pc \in {"index", "markRow"} => r.row \in Ops,
             r.pc = "mark" => r.done \in Ops
      PROVE  worker' \in [Callers -> Workers] /\ WorkerInv'
  <2>1. worker' \in [Callers -> Workers]
    BY <1>a, <1>d
  <2>2. \A v \in Callers : worker'[v] = IF v = w THEN r ELSE worker[v]
    BY <1>a, <1>d
  <2> QED BY <1>d, <2>1, <2>2 DEF GateInv, WorkerInv
<1>e. ASSUME NEW w \in Callers, NEW ok \in BOOLEAN, Return(w, ok)
      PROVE  worker' \in [Callers -> Workers] /\ configs' \in Nat /\ WorkerInv'
  <2>1. worker' = [worker EXCEPT ![w] = Idle]
    BY <1>e DEF Return
  <2>2. configs' \in Nat
    BY <1>a, <1>e DEF Return
  <2>3. worker' \in [Callers -> Workers] /\ WorkerInv'
    BY <1>b, <1>d, <2>1
  <2> QED BY <2>2, <2>3
<1>f. ASSUME NEW w \in Callers, NEW pc \in Points, Goto(w, pc), worker[w].pc # "idle",
             pc \in {"index", "markRow"} => worker[w].row \in Ops, pc # "mark"
      PROVE  worker' \in [Callers -> Workers] /\ WorkerInv'
  <2> DEFINE r == [worker[w] EXCEPT !.pc = pc]
  <2>1. worker[w] \in Workers
    BY <1>a
  <2>2. /\ r \in Workers /\ r.pc = pc /\ r.own = worker[w].own /\ r.row = worker[w].row
    BY <2>1 DEF Workers
  <2>3. worker' = [worker EXCEPT ![w] = r]
    BY <1>f DEF Goto
  <2>4. r.own \in Ops
    BY <1>f, <2>2 DEF GateInv, WorkerInv
  <2> HIDE DEF r
  <2> QED BY <1>d, <1>f, <2>2, <2>3, <2>4
<1>g. UNCHANGED worker => worker' \in [Callers -> Workers] /\ WorkerInv'
  BY <1>a DEF GateInv, WorkerInv
<1>h. UNCHANGED <<configs, recovery, used, failures, crashes>>
        => (worker' \in [Callers -> Workers] /\ WorkerInv' => Goal)
  BY <1>a DEF GateTypeOK
<1>j. UNCHANGED <<configs, recovery, used, crashes>> /\ Fails
        => (worker' \in [Callers -> Workers] /\ WorkerInv' => Goal)
  BY <1>a DEF GateTypeOK, Fails, MayFail
<1>1. ASSUME NEW w \in FullWorkers, FullRequest(w) PROVE Goal
  <2>1. w \in Callers /\ worker[w] \in Workers
    BY <1>a, CallerSets
  <2>2. PICK o \in NextId(GateIds) :
          /\ worker' = [worker EXCEPT ![w].own = o,
                          ![w].pc = IF HasActiveFullIndex THEN "gate" ELSE "enqueue"]
          /\ used' = used \cup {o}
    BY <1>1 DEF FullRequest
  <2>3. o \in Ops
    BY CallerSets, NextIdType
  <2> DEFINE pc == IF HasActiveFullIndex THEN "gate" ELSE "enqueue"
             r == [worker[w] EXCEPT !.own = o, !.pc = pc]
  <2>4. pc \in {"gate", "enqueue"}
    OBVIOUS
  <2>5. worker' = [worker EXCEPT ![w] = r]
    BY <2>2
  <2> HIDE DEF pc
  <2>6. r \in Workers /\ r.pc = pc /\ r.own = o
    BY <2>1, <2>3, <2>4 DEF Workers, Points
  <2> HIDE DEF r
  <2>7. worker' \in [Callers -> Workers] /\ WorkerInv'
    BY <1>d, <2>1, <2>3, <2>4, <2>5, <2>6
  <2> QED BY <1>1, <1>a, <2>2, <2>3, <2>7 DEF FullRequest, GateTypeOK
<1>2. ASSUME NEW w \in FullWorkers, FullEnqueue(w) PROVE Goal
  <2>1. worker' \in [Callers -> Workers] /\ WorkerInv'
    BY <1>2, <1>f, CallerSets DEF FullEnqueue, At, Points
  <2> QED BY <1>2, <1>h, <2>1 DEF FullEnqueue
<1>3. ASSUME NEW w \in FullWorkers, FullStart(w) PROVE Goal
  <2>1. w \in Callers /\ worker[w] \in Workers /\ worker[w].pc = "start"
    BY <1>3, <1>a, CallerSets DEF FullStart, At
  <2> DEFINE latest == LatestIncompleteByType(checkpoint, "full_index", RootOf[worker[w].own])
  <2>2. PICK p : /\ worker' = [worker EXCEPT ![w].pc = "index", ![w].row = p]
                 /\ \/ p = latest /\ latest # NoOp /\ UNCHANGED used
                    \/ p \in NextId(IndexIds) /\ used' = used \cup {p}
    BY <1>3 DEF FullStart
  <2>3. p \in Ops
    <3>1. latest \in Ops \cup {NoOp}
      BY LatestType DEF GateInv
    <3>2. p \in NextId(IndexIds) => p \in Ops
      BY CallerSets, NextIdType
    <3> HIDE DEF latest
    <3> QED BY <2>2, <3>1, <3>2
  <2> DEFINE r == [worker[w] EXCEPT !.pc = "index", !.row = p]
  <2>4. worker' = [worker EXCEPT ![w] = r]
    BY <2>2
  <2>5. r \in Workers /\ r.pc = "index" /\ r.own = worker[w].own /\ r.row = p
    BY <2>1, <2>3 DEF Workers, Points
  <2>6. worker[w].own \in Ops
    BY <2>1 DEF GateInv, WorkerInv
  <2> HIDE DEF r, latest
  <2>7. worker' \in [Callers -> Workers] /\ WorkerInv'
    BY <1>d, <2>1, <2>3, <2>4, <2>5, <2>6
  <2> QED BY <1>3, <1>a, <2>2, <2>3, <2>7 DEF FullStart, GateTypeOK
<1>4. ASSUME NEW w \in FullWorkers, FullIndexed(w) PROVE Goal
  <2>1. w \in Callers /\ worker[w] \in Workers /\ worker[w].own \in Ops
    BY <1>4, <1>a, CallerSets DEF FullIndexed, At, GateInv, WorkerInv
  <2> DEFINE r == [worker[w] EXCEPT !.pc = "complete", !.row = NoOp]
  <2>2. worker' = [worker EXCEPT ![w] = r]
    BY <1>4 DEF FullIndexed
  <2>3. r \in Workers /\ r.pc = "complete" /\ r.own = worker[w].own
    BY <2>1 DEF Workers, Points
  <2> HIDE DEF r
  <2>4. worker' \in [Callers -> Workers] /\ WorkerInv'
    BY <1>d, <2>1, <2>2, <2>3
  <2> QED BY <1>4, <1>h, <2>4 DEF FullIndexed
<1>5. ASSUME NEW w \in FullWorkers, FullFails(w) PROVE Goal
  <2>1. w \in Callers /\ worker[w] \in Workers /\ worker[w].own \in Ops
    BY <1>5, <1>a, CallerSets DEF FullFails, At, GateInv, WorkerInv
  <2>2. PICK pc \in {"complete", "clear"} : worker' = [worker EXCEPT ![w].pc = pc, ![w].row = NoOp]
    BY <1>5 DEF FullFails
  <2> DEFINE r == [worker[w] EXCEPT !.pc = pc, !.row = NoOp]
  <2>3. worker' = [worker EXCEPT ![w] = r]
    BY <2>2
  <2>4. r \in Workers /\ r.pc = pc /\ r.own = worker[w].own
    BY <2>1 DEF Workers, Points
  <2> HIDE DEF r
  <2>5. worker' \in [Callers -> Workers] /\ WorkerInv'
    BY <1>d, <2>1, <2>2, <2>3, <2>4
  <2> QED BY <1>5, <1>j, <2>5 DEF FullFails
<1>6. ASSUME NEW w \in Callers, Reject(w) PROVE Goal
  <2>1. worker' \in [Callers -> Workers] /\ configs' \in Nat /\ WorkerInv'
    BY <1>6, <1>e DEF Reject
  <2> QED BY <1>6, <1>a, <2>1 DEF Reject, GateTypeOK, Fails, MayFail
<1>7. ASSUME NEW w \in Callers, GateRollback(w) PROVE Goal
  <2>1. worker' \in [Callers -> Workers] /\ configs' \in Nat /\ WorkerInv'
    BY <1>7, <1>e DEF GateRollback
  <2> QED BY <1>7, <1>a, <2>1 DEF GateRollback, GateTypeOK, Fails, MayFail
<1>8. ASSUME NEW w \in Callers, Abandon(w) PROVE Goal
  <2>1. worker' \in [Callers -> Workers] /\ configs' \in Nat /\ WorkerInv'
    BY <1>8, <1>e DEF Abandon
  <2> QED BY <1>8, <1>a, <2>1 DEF Abandon, GateTypeOK, Fails, MayFail
<1>9. ASSUME NEW w \in Callers, CompleteFails(w) PROVE Goal
  <2>1. worker' \in [Callers -> Workers] /\ configs' \in Nat /\ WorkerInv'
    BY <1>9, <1>e DEF CompleteFails
  <2> QED BY <1>9, <1>a, <2>1 DEF CompleteFails, GateTypeOK, Fails, MayFail
<1>10. ASSUME NEW w \in Callers, MarkRow(w) PROVE Goal
  <2>1. worker' \in [Callers -> Workers] /\ configs' \in Nat /\ WorkerInv'
    BY <1>10, <1>e DEF MarkRow
  <2> QED BY <1>10, <1>a, <2>1 DEF MarkRow, GateTypeOK, Fails, MayFail
<1>11. ASSUME NEW w \in Callers, Clear(w) PROVE Goal
  <2>1. worker' \in [Callers -> Workers] /\ configs' \in Nat /\ WorkerInv'
    BY <1>11, <1>e DEF Clear
  <2> QED BY <1>11, <1>a, <2>1 DEF Clear, GateTypeOK, Fails, MayFail
<1>12. ASSUME NEW w \in Callers, GateDequeue(w) PROVE Goal
  <2>1. worker' \in [Callers -> Workers] /\ WorkerInv'
    BY <1>12, <1>f DEF GateDequeue, At, Points
  <2> QED BY <1>12, <1>h, <2>1 DEF GateDequeue
<1>13. ASSUME NEW w \in Callers, GatePersist(w) PROVE Goal
  <2> DEFINE pc == IF w = HotWorker THEN "checkpoint" ELSE "start"
  <2>1. pc \in Points /\ pc \notin {"index", "markRow", "mark"} /\ Goto(w, pc)
    BY <1>13 DEF GatePersist, Points
  <2> HIDE DEF pc
  <2>2. worker' \in [Callers -> Workers] /\ WorkerInv'
    BY <1>13, <1>f, <2>1 DEF GatePersist, At
  <2> QED BY <1>13, <1>h, <2>2 DEF GatePersist
<1>14. ASSUME NEW w \in Callers, Complete(w) PROVE Goal
  <2>1. worker[w] \in Workers /\ worker[w].own \in Ops /\ active \in Ops
    BY <1>14, <1>a, <1>i DEF Complete, CompleteActive, At, GateInv, WorkerInv
  <2> DEFINE r == [worker[w] EXCEPT !.pc = "mark", !.done = active]
  <2>2. worker' = [worker EXCEPT ![w] = r]
    BY <1>14 DEF Complete
  <2>3. r \in Workers /\ r.pc = "mark" /\ r.own = worker[w].own /\ r.done = active
    BY <2>1 DEF Workers, Points
  <2> HIDE DEF r
  <2>4. worker' \in [Callers -> Workers] /\ WorkerInv'
    BY <1>d, <2>1, <2>2, <2>3
  <2> QED BY <1>14, <1>h, <2>4 DEF Complete
<1>15. ASSUME NEW w \in Callers, CompleteNothing(w) PROVE Goal
  <2>1. CASE worker[w].row = NoOp
    <3>1. worker' \in [Callers -> Workers] /\ configs' \in Nat /\ WorkerInv'
      BY <1>15, <1>e, <2>1 DEF CompleteNothing
    <3> QED BY <1>15, <1>a, <3>1 DEF CompleteNothing, GateTypeOK
  <2>2. CASE worker[w].row # NoOp
    <3>1. worker[w].row \in Ops /\ worker[w].pc # "idle"
      BY <1>15, <1>a, <2>2 DEF CompleteNothing, At, Workers
    <3>2. Goto(w, "markRow") /\ UNCHANGED configs
      BY <1>15, <2>2 DEF CompleteNothing
    <3>3. worker' \in [Callers -> Workers] /\ WorkerInv'
      BY <1>f, <3>1, <3>2 DEF Points
    <3> QED BY <1>15, <1>h, <3>2, <3>3 DEF CompleteNothing
  <2> QED BY <2>1, <2>2
<1>16. ASSUME NEW w \in Callers, Mark(w) PROVE Goal
  <2>1. CASE worker[w].row = NoOp
    <3>1. worker' \in [Callers -> Workers] /\ configs' \in Nat /\ WorkerInv'
      BY <1>16, <1>e, <2>1 DEF Mark
    <3> QED BY <1>16, <1>a, <3>1 DEF Mark, GateTypeOK
  <2>2. CASE worker[w].row # NoOp
    <3>1. worker[w].row \in Ops /\ worker[w].pc # "idle"
      BY <1>16, <1>a, <2>2 DEF Mark, At, Workers
    <3>2. Goto(w, "markRow") /\ UNCHANGED configs
      BY <1>16, <2>2 DEF Mark
    <3>3. worker' \in [Callers -> Workers] /\ WorkerInv'
      BY <1>f, <3>1, <3>2 DEF Points
    <3> QED BY <1>16, <1>h, <3>2, <3>3 DEF Mark
  <2> QED BY <2>1, <2>2
<1>17. ASSUME NEW requeue \in BOOLEAN, HotTakeConfig(requeue) PROVE Goal
  <2>1. worker[HotWorker] \in Workers
    BY <1>a, <1>c
  <2>2. PICK o \in NextId(OpsOfKind("config_change")) :
          /\ worker' = [worker EXCEPT ![HotWorker].pc = "gate", ![HotWorker].own = o,
                                      ![HotWorker].requeue = requeue]
          /\ used' = used \cup {o}
    BY <1>17 DEF HotTakeConfig
  <2>3. o \in Ops
    BY CallerSets, NextIdType
  <2> DEFINE r == [worker[HotWorker] EXCEPT !.pc = "gate", !.own = o, !.requeue = requeue]
  <2>4. worker' = [worker EXCEPT ![HotWorker] = r]
    BY <2>2
  <2>5. r \in Workers /\ r.pc = "gate" /\ r.own = o
    BY <1>17, <2>1, <2>3 DEF Workers, Points
  <2> HIDE DEF r
  <2>6. worker' \in [Callers -> Workers] /\ WorkerInv'
    BY <1>c, <1>d, <2>3, <2>4, <2>5
  <2> QED BY <1>17, <1>a, <2>2, <2>3, <2>6 DEF HotTakeConfig, GateTypeOK, Fails, MayFail
<1>18. CASE HotRequest
  <2>1. worker[HotWorker] \in Workers
    BY <1>a, <1>c
  <2>2. PICK o \in NextId(OpsOfKind("hot_update")) :
          /\ worker' = [worker EXCEPT ![HotWorker].pc = "gate", ![HotWorker].own = o]
          /\ used' = used \cup {o}
    BY <1>18 DEF HotRequest
  <2>3. o \in Ops
    BY CallerSets, NextIdType
  <2> DEFINE r == [worker[HotWorker] EXCEPT !.pc = "gate", !.own = o]
  <2>4. worker' = [worker EXCEPT ![HotWorker] = r]
    BY <2>2
  <2>5. r \in Workers /\ r.pc = "gate" /\ r.own = o
    BY <1>18, <2>1, <2>3 DEF Workers, Points
  <2> HIDE DEF r
  <2>6. worker' \in [Callers -> Workers] /\ WorkerInv'
    BY <1>c, <1>d, <2>3, <2>4, <2>5
  <2> QED BY <1>18, <1>a, <2>2, <2>3, <2>6 DEF HotRequest, GateTypeOK, Fails, MayFail
<1>19. CASE ConfigChanged
  BY <1>19, <1>a, <1>g DEF ConfigChanged, GateTypeOK
<1>20. CASE HotResume
  <2>1. worker[HotWorker] \in Workers /\ Resumable \in Ops
    BY <1>20, <1>a, <1>c, LatestType DEF HotResume, Resumable, GateInv
  <2> DEFINE r == [worker[HotWorker] EXCEPT !.pc = "resume", !.own = Resumable]
  <2>2. worker' = [worker EXCEPT ![HotWorker] = r]
    BY <1>20 DEF HotResume
  <2>3. r \in Workers /\ r.pc = "resume" /\ r.own = Resumable
    BY <2>1 DEF Workers, Points
  <2> HIDE DEF r
  <2>4. worker' \in [Callers -> Workers] /\ WorkerInv'
    BY <1>c, <1>d, <2>1, <2>2, <2>3
  <2> QED BY <1>20, <1>h, <2>4 DEF HotResume
<1>21. CASE HotCheckpoint
  <2>1. worker' \in [Callers -> Workers] /\ WorkerInv'
    BY <1>21, <1>c, <1>f DEF HotCheckpoint, At, Points
  <2> QED BY <1>21, <1>h, <2>1 DEF HotCheckpoint
<1>22. CASE HotNoChange
  <2>1. worker[HotWorker] \in Workers /\ worker[HotWorker].own \in Ops
    BY <1>22, <1>a, <1>c DEF HotNoChange, At, GateInv, WorkerInv
  <2> DEFINE r == [worker[HotWorker] EXCEPT !.pc = "complete", !.row = worker[HotWorker].own]
  <2>2. worker' = [worker EXCEPT ![HotWorker] = r]
    BY <1>22 DEF HotNoChange
  <2>3. r \in Workers /\ r.pc = "complete" /\ r.own = worker[HotWorker].own
    BY <2>1 DEF Workers, Points
  <2> HIDE DEF r
  <2>4. worker' \in [Callers -> Workers] /\ WorkerInv'
    BY <1>c, <1>d, <2>1, <2>2, <2>3
  <2> QED BY <1>22, <1>h, <2>4 DEF HotNoChange
<1>23. CASE HotSucceeds
  <2>1. worker' \in [Callers -> Workers] /\ WorkerInv'
    BY <1>23, <1>c, <1>f DEF HotSucceeds, Points
  <2> QED BY <1>23, <1>h, <2>1 DEF HotSucceeds
<1>24. CASE HotFails
  <2>1. worker' \in [Callers -> Workers] /\ WorkerInv'
    BY <1>24, <1>c, <1>f DEF HotFails, Points
  <2> QED BY <1>24, <1>j, <2>1 DEF HotFails
<1>25. CASE Crash
  <2>1. worker' \in [Callers -> Workers] /\ \A w \in Callers : worker'[w] = Idle
    BY <1>25, <1>b DEF Crash
  <2>2. WorkerInv'
    BY <1>b, <2>1 DEF WorkerInv
  <2> QED BY <1>25, <1>a, <2>1, <2>2 DEF Crash, GateTypeOK, UnfinishedOperations
<1>26. CASE RecoverStale
  BY <1>26, <1>a, <1>g DEF RecoverStale, GateTypeOK
<1>27. CASE RecoverQueued
  BY <1>27, <1>a, <1>g DEF RecoverQueued, GateTypeOK
<1>28. CASE RecoverDirect
  BY <1>28, <1>a, <1>g DEF RecoverDirect, GateTypeOK
<1>29. ASSUME NEW o \in Ops, TimeoutPasses(o) PROVE Goal
  BY <1>29, <1>g, <1>h DEF TimeoutPasses, gateVars
<1>30. CASE TtlCleanup
  BY <1>30, <1>g, <1>h DEF TtlCleanup, gateVars
<1>31. CASE StaleCleanup
  BY <1>31, <1>g, <1>h DEF StaleCleanup, gateVars
<1>32. CASE UNCHANGED allVars
  BY <1>32, <1>g, <1>h DEF allVars, gateVars
<1> QED BY <1>1, <1>2, <1>3, <1>4, <1>5, <1>6, <1>7, <1>8, <1>9, <1>10, <1>11, <1>12, <1>13,
           <1>14, <1>15, <1>16, <1>17, <1>18, <1>19, <1>20, <1>21, <1>22, <1>23, <1>24,
           <1>25, <1>26, <1>27, <1>28, <1>29, <1>30, <1>31, <1>32 DEF GateNext, FullStep,
           AnyStep, Faulty, HotStep, Recover

\* The invariant holds when the server starts.
LEMMA GateInvInit == GateInit => GateInv
<1> SUFFICES ASSUME GateInit PROVE GateInv
  OBVIOUS
<1>1. IInv
  BY InitIInv DEF GateInit
<1>2. Idle \in Workers /\ Idle.pc = "idle"
  BY DEF Idle, Workers, Points
<1>3. GateTypeOK /\ WorkerInv
  BY <1>2, GateAssumption DEF GateInit, GateTypeOK, WorkerInv
<1>4. Recorded(checkpoint) = {}
  BY DEF GateInit, Init, EmptyTable, NoRow, Recorded, Exists
<1>5. IsFiniteSet(Recorded(checkpoint))
  BY <1>4, FS_EmptySet
<1> QED BY <1>1, <1>3, <1>5 DEF GateInv

\* A change of checkpoint statuses keeps the invariant of the queue.
LEMMA StatusIInv ==
  ASSUME IInv, StatusStep
  PROVE  IInv'
<1>1. checkpoint \in Tables /\ cleanup \in [busy : BOOLEAN, dbActive : Ops \cup {NoOp}]
  BY DEF IInv, TypeOK
<1>2. checkpoint' \in Tables
  <2>1. ASSUME NEW old \in SUBSET Expirable(checkpoint),
               checkpoint' = DeleteExpired(checkpoint, old)
        PROVE  checkpoint' \in Tables
    <3>1. NoRow \in Row
      BY DEF NoRow, Row, Statuses, Flags
    <3> QED BY <1>1, <2>1, <3>1 DEF DeleteExpired, Tables
  <2> QED BY <1>1, <2>1, TableOperatorsRows DEF StatusStep
<1>3. UNCHANGED <<pending, active, reserved, cleanup, rollbacks>>
  BY DEF StatusStep, queueVars
<1> QED BY <1>1, <1>2, <1>3, QueueUnchangedStep

\* Every step of the callers keeps the invariant.
LEMMA GateInvStep == GateInv /\ [GateNext]_allVars => GateInv'
<1> SUFFICES ASSUME GateInv, [GateNext]_allVars PROVE GateInv'
  OBVIOUS
<1>1. [Next]_vars \/ StatusStep
  BY QueueOrStatus
<1>2. IInv'
  BY <1>1, NextIInv, StatusIInv DEF GateInv
<1>3. GateTypeOK' /\ WorkerInv'
  BY WorkerStep
<1>4. IsFiniteSet(Recorded(checkpoint'))
  BY <1>1, RecordedStep DEF GateInv, IInv
<1> QED BY <1>2, <1>3, <1>4 DEF GateInv, Recorded

\* The inductive invariant holds in every state of index(), the hot-update
\* runtime, crashes, recovery and the cleanup, under any number of failures.
THEOREM GateInvariance == GateSpec => []GateInv
<1>1. GateInv /\ [GateNext]_allVars => GateInv'
  BY GateInvStep
<1> QED BY GateInvInit, <1>1, PTL DEF GateSpec

\* The tasks of index() and of the hot-update runtime, the pending configuration
\* paths and the startup recovery have their types.
THEOREM GateTyping == GateSpec => []GateTypeOK
<1>1. GateInv => GateTypeOK
  BY DEF GateInv
<1> QED BY GateInvariance, <1>1, PTL

\* Under the callers of queue.rs the pending deque stays ordered, deduplicated and
\* bounded, and an operation stays in one place: whichever of them fails, whenever
\* the server crashes and whatever the recovery queues again.
THEOREM GateKeepsQueue ==
  GateSpec => [](TypeOK /\ QueueOrdered /\ Deduplication /\ BoundedQueue /\ OnePlace)
<1>1. GateInv => TypeOK /\ QueueOrdered /\ Deduplication /\ BoundedQueue /\ OnePlace
  BY DEF GateInv, IInv
<1> QED BY GateInvariance, <1>1, PTL

\* Index requests, hot updates, their failures, crashes and the startup recovery
\* use the queue as OperationQueue allows it: GateSpec implements OperationQueue,
\* with the statuses of the checkpoints forgotten.
THEOREM Refinement == GateSpec => QueueRefined
<1>1. GateInit => Queue!Init
  <2> SUFFICES ASSUME GateInit PROVE Queue!Init
    OBVIOUS
  <2>1. \A o \in Ops : ~ Exists(checkpoint, o)
    BY DEF GateInit, Init, EmptyTable, NoRow, Exists
  <2>2. Forgotten(checkpoint) = [o \in Ops |-> NoRow]
    BY <2>1 DEF Forgotten
  <2> QED BY <2>2 DEF GateInit, Init, Queue!Init, Forgotten, Queue!EmptyTable, Queue!NoRow,
             NoRow,
             IdleCleanup, Queue!IdleCleanup
<1>2. GateInv /\ [GateNext]_allVars => [Queue!Next]_(Queue!vars)
  <2> SUFFICES ASSUME GateInv, [GateNext]_allVars PROVE [Queue!Next]_(Queue!vars)
    OBVIOUS
  <2>1. [Next]_vars \/ StatusStep
    BY QueueOrStatus
  <2> QED BY <2>1, NextForgets, StatusForgets DEF GateInv, IInv
<1> QED BY GateInvariance, <1>1, <1>2, PTL DEF GateSpec, QueueRefined, Queue!Spec

\* Nothing has failed so far: no step, no persist, and the process lived.
Undisturbed == failures = 0 /\ crashes = 0 /\ rollbacks = 0

\* The checkpoint a task works on or has still to close: the row of the file
\* indexer, the row a hot update or a configuration change created, and that of
\* a hot update without changes until mark_operation_completed closed it.
Owns(w, o) ==
  \/ w \in FullWorkers /\ worker[w].pc = "index" /\ worker[w].row = o
  \/ w = HotWorker /\ worker[w].pc = "run" /\ worker[w].own = o
  \/ w = HotWorker /\ worker[w].pc \in {"complete", "mark", "markRow"} /\ worker[w].row = o

\* No recovery and no cleanup runs, and no task is on a failure path or on the
\* resumption of an interrupted hot update.
Faultless ==
  /\ recovery = {} /\ cleanup.busy = FALSE
  /\ \A w \in Callers : worker[w].pc \notin {"clear", "resume"}

\* The slot belongs to the one task behind the gate, and a dequeue between its
\* phases reserved what the slot holds.
SlotInv ==
  /\ GateExclusion /\ SlotMeansWork
  /\ \A w \in Callers : reserved[w] # NoOp => At(w, "persist") /\ reserved[w] = active

\* Only the operation in the slot is flagged, and its heartbeat is recent.
FlagInv == FlagMirrorsSlot /\ StaleActive(checkpoint) = {}

\* Every unfinished checkpoint is owned, those of the file indexer by a task that
\* indexes.
OwnerInv ==
  /\ \A w \in FullWorkers : At(w, "index") => KindOf[worker[w].row] = "full_index"
  /\ \A o \in UnfinishedOperations(checkpoint) : \E w \in Callers : Owns(w, o)

\* The inductive invariant of the time before the first failure.
QuietInv == Faultless /\ SlotInv /\ FlagInv /\ OwnerInv

\* A step that leaves the slot alone, and every task on its side of the gate,
\* keeps SlotInv.
LEMMA SlotKept ==
  ASSUME SlotInv, active' = active,
         \A v \in Callers : reserved'[v] # NoOp => reserved'[v] = reserved[v] /\ At(v, "persist")',
         \A v \in Callers : Working(v)' <=> Working(v)
  PROVE  SlotInv'
<1>1. GateExclusion'
  BY DEF SlotInv, GateExclusion
<1>2. SlotMeansWork'
  BY DEF SlotInv, SlotMeansWork
<1> QED BY <1>1, <1>2 DEF SlotInv, At

\* A step that leaves the slot alone and flags no row keeps FlagInv.
LEMMA FlagKept ==
  ASSUME FlagInv, active' = active,
         \A o \in Ops : Flagged(checkpoint, o)' =>
           Flagged(checkpoint, o) /\ checkpoint'[o].flag = checkpoint[o].flag
  PROVE  FlagInv'
BY DEF FlagInv, FlagMirrorsSlot, StaleActive, ActiveRows

\* A step that starts no checkpoint and takes none from its owner keeps OwnerInv.
LEMMA OwnerKept ==
  ASSUME OwnerInv,
         UnfinishedOperations(checkpoint)' \subseteq UnfinishedOperations(checkpoint),
         \A o \in UnfinishedOperations(checkpoint)', v \in Callers : Owns(v, o) => Owns(v, o)',
         \A v \in FullWorkers : At(v, "index")' => KindOf[worker'[v].row] = "full_index"
  PROVE  OwnerInv'
<1>1. \A o \in UnfinishedOperations(checkpoint)' : \E w \in Callers : Owns(w, o)'
  BY DEF OwnerInv
<1> QED BY <1>1 DEF OwnerInv

\* mark_operation_completed finishes its operation and touches no active_flag.
LEMMA MarkedTable ==
  ASSUME checkpoint \in Tables, NEW o,
         checkpoint' = MarkOperationCompleted(checkpoint, o), o \in Ops
  PROVE  /\ \A p \in Ops : Flagged(checkpoint, p)' =>
              Flagged(checkpoint, p) /\ checkpoint'[p].flag = checkpoint[p].flag
         /\ UnfinishedOperations(checkpoint)' = UnfinishedOperations(checkpoint) \ {o}
<1>1. CASE Exists(checkpoint, o)
  <2>1. \A p \in Ops : /\ checkpoint'[p].status = IF p = o THEN "completed" ELSE checkpoint[p].status
                       /\ checkpoint'[p].flag = checkpoint[p].flag
    BY <1>1, TableOperatorsRows
  <2> QED BY <1>1, <2>1 DEF Flagged, Exists, UnfinishedOperations
<1>2. CASE ~ Exists(checkpoint, o)
  BY <1>2 DEF MarkOperationCompleted, UnfinishedOperations, Exists
<1> QED BY <1>1, <1>2

\* Clearing the active_flag of an operation changes no other flag and no status.
LEMMA ClearedTable ==
  ASSUME checkpoint \in Tables, NEW o, o \in Ops,
         checkpoint' = ClearActiveFlag(checkpoint, o)
  PROVE  /\ \A p \in Ops : Flagged(checkpoint, p)' =>
              /\ p # o /\ Flagged(checkpoint, p)
              /\ checkpoint'[p].flag = checkpoint[p].flag
         /\ UnfinishedOperations(checkpoint)' = UnfinishedOperations(checkpoint)
<1>1. CASE Exists(checkpoint, o)
  <2>1. \A p \in Ops : /\ checkpoint'[p].status = checkpoint[p].status
                       /\ checkpoint'[p].flag = IF p = o THEN "clear" ELSE checkpoint[p].flag
    BY <1>1, TableOperatorsRows DEF ClearActiveFlag, Flags
  <2> QED BY <1>1, <2>1 DEF Flagged, Exists, UnfinishedOperations
<1>2. CASE ~ Exists(checkpoint, o)
  BY <1>2 DEF ClearActiveFlag, UnfinishedOperations, Exists, Flagged
<1> QED BY <1>1, <1>2

\* Setting the active_flag of an operation, if it has a row, changes no other flag
\* and no status.
LEMMA FlaggedTable ==
  ASSUME checkpoint \in Tables, NEW o, o \in Ops,
         checkpoint' = SetActiveFlag(checkpoint, o)
  PROVE  /\ \A p \in Ops : Flagged(checkpoint, p)' =>
              \/ p = o /\ checkpoint'[p].flag = "fresh"
              \/ Flagged(checkpoint, p) /\ checkpoint'[p].flag = checkpoint[p].flag
         /\ UnfinishedOperations(checkpoint)' = UnfinishedOperations(checkpoint)
<1>1. CASE Exists(checkpoint, o)
  <2>1. \A p \in Ops : /\ checkpoint'[p].status = checkpoint[p].status
                       /\ checkpoint'[p].flag = IF p = o THEN "fresh" ELSE checkpoint[p].flag
    BY <1>1, TableOperatorsRows DEF SetActiveFlag, Flags
  <2> QED BY <1>1, <2>1 DEF Flagged, Exists, UnfinishedOperations
<1>2. CASE ~ Exists(checkpoint, o)
  BY <1>2 DEF SetActiveFlag, UnfinishedOperations, Exists, Flagged
<1> QED BY <1>1, <1>2

\* create_checkpoint adds an unfinished operation and flags none.
LEMMA CreatedTable ==
  ASSUME checkpoint \in Tables, NEW o, o \in Ops,
         checkpoint' = CreateCheckpoint(checkpoint, o)
  PROVE  /\ \A p \in Ops : Flagged(checkpoint, p)' =>
              Flagged(checkpoint, p) /\ checkpoint'[p].flag = checkpoint[p].flag
         /\ UnfinishedOperations(checkpoint)' = UnfinishedOperations(checkpoint) \cup {o}
<1>1. \A p \in Ops : /\ checkpoint'[p].status = IF p = o THEN "in_progress" ELSE checkpoint[p].status
                     /\ checkpoint'[p].flag = IF p = o THEN "clear" ELSE checkpoint[p].flag
  BY TableOperatorsRows
<1> QED BY <1>1 DEF Flagged, Exists, UnfinishedOperations

\* A step of the callers after which nothing has failed yet keeps QuietInv: the
\* failure paths are not taken, and neither the timeout nor the resumption nor
\* the stale cleanup finds anything to do.
LEMMA QuietStep ==
  ASSUME ~ Slow, GateInv, QuietInv, [GateNext]_allVars, Undisturbed, Undisturbed'
  PROVE  QuietInv'
<1>a. /\ worker \in [Callers -> Workers] /\ checkpoint \in Tables
      /\ active \in Ops \cup {NoOp} /\ reserved \in [Callers -> Ops \cup {NoOp}]
      /\ pending \in Seq(Ops) /\ NoOp \notin Ops
      /\ \A w \in Callers : worker[w] \in Workers
  BY OpsAssumption DEF GateInv, GateTypeOK, IInv, TypeOK
<1>b. /\ HotWorker \in Callers /\ FullWorkers \subseteq Callers
      /\ HotWorker \notin FullWorkers /\ \A v \in Callers : v # HotWorker => v \in FullWorkers
  BY GateAssumption
<1>c. WorkerInv
  BY DEF GateInv
<1>d. Faultless /\ SlotInv /\ FlagInv /\ OwnerInv
  BY DEF QuietInv
<1>e. SUFFICES Faultless' /\ SlotInv' /\ FlagInv' /\ OwnerInv'
  BY DEF QuietInv
<1> DEFINE Goal == Faultless' /\ SlotInv' /\ FlagInv' /\ OwnerInv'
<1>f. ~ Fails
  BY DEF Undisturbed, Fails
<1>g. ASSUME NEW w \in Callers, \A v \in Callers : v # w => worker'[v] = worker[v],
             worker'[w].pc \notin {"clear", "resume"}, recovery' = recovery, cleanup' = cleanup
      PROVE  Faultless'
  BY <1>d, <1>g DEF Faultless
<1>h. ASSUME NEW w \in Callers, \A v \in Callers : v # w => worker'[v] = worker[v],
             active' = active, reserved' = reserved, Working(w)' <=> Working(w),
             worker[w].pc = "persist" => worker'[w].pc = "persist"
      PROVE  SlotInv'
  <2>1. \A v \in Callers : Working(v)' <=> Working(v)
    BY <1>h DEF Working
  <2>2. ASSUME NEW v \in Callers, reserved'[v] # NoOp
        PROVE  reserved'[v] = reserved[v] /\ At(v, "persist")'
    <3>1. reserved[v] # NoOp /\ reserved'[v] = reserved[v] /\ worker[v].pc = "persist"
      BY <1>d, <1>h, <2>2 DEF SlotInv, At
    <3> QED BY <1>h, <3>1 DEF At
  <2> QED BY <1>d, <1>h, <2>1, <2>2, SlotKept
<1>i. ASSUME checkpoint' = checkpoint, active' = active PROVE FlagInv'
  BY <1>d, <1>i DEF FlagInv, FlagMirrorsSlot, StaleActive, ActiveRows, Flagged, Exists
<1>j. ASSUME NEW w \in Callers, \A v \in Callers : v # w => worker'[v] = worker[v],
             UnfinishedOperations(checkpoint)' \subseteq UnfinishedOperations(checkpoint),
             \A o \in UnfinishedOperations(checkpoint)' : Owns(w, o) => Owns(w, o)',
             w \in FullWorkers /\ worker'[w].pc = "index" => KindOf[worker'[w].row] = "full_index"
      PROVE  OwnerInv'
  <2>1. ASSUME NEW o \in UnfinishedOperations(checkpoint)', NEW v \in Callers, Owns(v, o)
        PROVE  Owns(v, o)'
    <3>1. CASE v = w
      BY <1>j, <2>1, <3>1
    <3>2. CASE v # w
      <4>1. worker'[v] = worker[v]
        BY <1>j, <3>2
      <4> QED BY <2>1, <4>1 DEF Owns
    <3> QED BY <3>1, <3>2
  <2>2. ASSUME NEW v \in FullWorkers, At(v, "index")' PROVE KindOf[worker'[v].row] = "full_index"
    BY <1>b, <1>d, <1>j, <2>2 DEF OwnerInv, At
  <2> QED BY <1>d, <1>j, <2>1, <2>2, OwnerKept
<1>k. ASSUME UNCHANGED worker, UNCHANGED <<active, reserved, cleanup, recovery>>,
             \A o \in Ops : Flagged(checkpoint, o)' =>
               Flagged(checkpoint, o) /\ checkpoint'[o].flag = checkpoint[o].flag,
             UnfinishedOperations(checkpoint)' = UnfinishedOperations(checkpoint)
      PROVE  Goal
  <2>1. Faultless' /\ SlotInv'
    BY <1>b, <1>d, <1>g, <1>h, <1>k DEF Working, Faultless
  <2>2. FlagInv'
    BY <1>d, <1>k, FlagKept
  <2>3. OwnerInv'
    BY <1>b, <1>d, <1>k DEF OwnerInv, Owns, At
  <2> QED BY <2>1, <2>2, <2>3
<1>l. Idle.pc = "idle"
  BY DEF Idle
<1>1. ASSUME NEW w \in FullWorkers, FullRequest(w) PROVE Goal
  <2>1. w \in Callers /\ worker[w] \in Workers /\ worker[w].pc = "idle"
    BY <1>1, <1>a, <1>b DEF FullRequest, At, Ready
  <2>2. /\ \A v \in Callers : v # w => worker'[v] = worker[v]
        /\ worker'[w].pc \in {"gate", "enqueue"}
    BY <1>1, <1>a, <1>l, <2>1 DEF FullRequest, Goto, Return, Workers
  <2>3. Faultless'
    BY <1>1, <1>g, <2>1, <2>2 DEF FullRequest, vars, queueVars, Enqueue, CheckpointCreated,
       DequeueReserve, DequeuePersist, CompleteActive
  <2>4. SlotInv'
    BY <1>1, <1>h, <2>1, <2>2 DEF FullRequest, vars, queueVars, Enqueue, CheckpointCreated,
       Working
  <2>5. FlagInv'
    BY <1>1, <1>i DEF FullRequest, vars, queueVars, Enqueue, CheckpointCreated
  <2>6. OwnerInv'
    <3>1. checkpoint' = checkpoint
      BY <1>1 DEF FullRequest, vars, Enqueue, DequeueReserve
    <3>2. \A p : ~ Owns(w, p)
      BY <1>b, <2>1 DEF Owns
    <3> QED BY <1>j, <2>1, <2>2, <3>1, <3>2 DEF UnfinishedOperations
  <2> QED BY <2>3, <2>4, <2>5, <2>6
<1>2. ASSUME NEW w \in FullWorkers, FullEnqueue(w) PROVE Goal
  <2>1. w \in Callers /\ worker[w] \in Workers /\ worker[w].pc = "enqueue"
    BY <1>2, <1>a, <1>b DEF FullEnqueue, At, Ready
  <2>2. /\ \A v \in Callers : v # w => worker'[v] = worker[v]
        /\ worker'[w].pc = "gate"
    BY <1>2, <1>a, <1>l, <2>1 DEF FullEnqueue, Goto, Return, Workers
  <2>3. Faultless'
    BY <1>2, <1>g, <2>1, <2>2 DEF FullEnqueue, vars, queueVars, Enqueue, CheckpointCreated,
       DequeueReserve, DequeuePersist, CompleteActive
  <2>4. SlotInv'
    BY <1>2, <1>h, <2>1, <2>2 DEF FullEnqueue, vars, queueVars, Enqueue, CheckpointCreated,
       Working
  <2>5. FlagInv'
    BY <1>2, <1>i DEF FullEnqueue, vars, queueVars, Enqueue, CheckpointCreated
  <2>6. OwnerInv'
    <3>1. checkpoint' = checkpoint
      BY <1>2 DEF FullEnqueue, vars, Enqueue, DequeueReserve
    <3>2. \A p : ~ Owns(w, p)
      BY <1>b, <2>1 DEF Owns
    <3> QED BY <1>j, <2>1, <2>2, <3>1, <3>2 DEF UnfinishedOperations
  <2> QED BY <2>3, <2>4, <2>5, <2>6
<1>3. ASSUME NEW w \in FullWorkers, FullStart(w) PROVE Goal
  <2>1. w \in Callers /\ worker[w] \in Workers /\ worker[w].pc = "start" /\ w # HotWorker
    BY <1>3, <1>a, <1>b DEF FullStart, At
  <2> DEFINE latest == LatestIncompleteByType(checkpoint, "full_index", RootOf[worker[w].own])
  <2>2. PICK p : /\ worker' = [worker EXCEPT ![w].pc = "index", ![w].row = p]
                 /\ \/ p = latest /\ latest # NoOp /\ UNCHANGED vars
                    \/ p \in NextId(IndexIds) /\ CheckpointCreated(p)
    BY <1>3 DEF FullStart
  <2>3. p \in Ops /\ KindOf[p] = "full_index"
    <3>1. latest # NoOp => latest \in Ops /\ KindOf[latest] = "full_index"
      BY LatestType DEF GateInv, IncompleteByType, UnfinishedOperations
    <3>2. p \in NextId(IndexIds) => p \in IndexIds
      BY CallerSets, NextIdType
    <3> HIDE DEF latest
    <3> QED BY <2>2, <3>1, <3>2, GateAssumption DEF OpsOfKind
  <2>4. /\ \A v \in Callers : v # w => worker'[v] = worker[v]
        /\ worker'[w].pc = "index" /\ worker'[w].row = p
    BY <1>a, <2>1, <2>2 DEF Workers
  <2> HIDE DEF latest
  <2>5. UNCHANGED <<active, reserved, cleanup, recovery>>
    BY <1>3, <2>2 DEF FullStart, vars, CheckpointCreated, queueVars
  <2>6. Faultless' /\ SlotInv'
    BY <1>g, <1>h, <2>1, <2>4, <2>5 DEF Working
  <2>7. CASE UNCHANGED vars
    <3>1. checkpoint' = checkpoint /\ \A q : ~ Owns(w, q)
      BY <1>b, <2>1, <2>7 DEF Owns, vars
    <3>2. OwnerInv'
      BY <1>j, <2>1, <2>3, <2>4, <3>1 DEF UnfinishedOperations
    <3> QED BY <1>i, <2>5, <2>6, <3>1, <3>2
  <2>8. CASE CheckpointCreated(p)
    <3>1. /\ \A q \in Ops : Flagged(checkpoint, q)' =>
                Flagged(checkpoint, q) /\ checkpoint'[q].flag = checkpoint[q].flag
          /\ UnfinishedOperations(checkpoint)' = UnfinishedOperations(checkpoint) \cup {p}
      BY <1>a, <2>3, <2>8, CreatedTable DEF CheckpointCreated
    <3>2. FlagInv'
      BY <1>d, <2>5, <3>1, FlagKept
    <3>3. Owns(w, p)'
      BY <2>4 DEF Owns
    <3>4. ASSUME NEW q \in UnfinishedOperations(checkpoint) PROVE \E v \in Callers : Owns(v, q)'
      <4>1. PICK v \in Callers : Owns(v, q)
        BY <1>d DEF OwnerInv
      <4>2. v # w
        BY <2>1, <4>1 DEF Owns
      <4>3. worker'[v] = worker[v]
        BY <2>4, <4>2
      <4> QED BY <4>1, <4>3 DEF Owns
    <3>5. \A v \in FullWorkers : At(v, "index")' => KindOf[worker'[v].row] = "full_index"
      BY <1>b, <1>d, <2>3, <2>4 DEF OwnerInv, At
    <3>6. OwnerInv'
      BY <2>1, <3>1, <3>3, <3>4, <3>5 DEF OwnerInv
    <3> QED BY <2>6, <3>2, <3>6
  <2> QED BY <2>2, <2>7, <2>8
<1>4. ASSUME NEW w \in FullWorkers, FullIndexed(w) PROVE Goal
  <2>1. w \in Callers /\ worker[w] \in Workers /\ worker[w].pc = "index"
    BY <1>4, <1>a, <1>b DEF FullIndexed, At, Ready
  <2>2. /\ \A v \in Callers : v # w => worker'[v] = worker[v]
        /\ worker'[w].pc = "complete"
    BY <1>4, <1>a, <1>l, <2>1 DEF FullIndexed, Goto, Return, Workers
  <2>3. Faultless'
    BY <1>4, <1>g, <2>1, <2>2 DEF FullIndexed, vars, queueVars, Enqueue, CheckpointCreated,
       DequeueReserve, DequeuePersist, CompleteActive
  <2>4. SlotInv'
    BY <1>4, <1>h, <2>1, <2>2 DEF FullIndexed, vars, queueVars, Enqueue, CheckpointCreated,
       Working
  <2>5. FlagInv'
    <3>1. worker[w].row \in Ops
      BY <1>c, <2>1 DEF WorkerInv
    <3>2. active' = active
      BY <1>4 DEF FullIndexed, queueVars
    <3> QED BY <1>4, <1>a, <1>d, <3>1, <3>2, MarkedTable, FlagKept DEF FullIndexed
  <2>6. OwnerInv'
    <3>1. worker[w].row \in Ops
      BY <1>c, <2>1 DEF WorkerInv
    <3>2. UnfinishedOperations(checkpoint)' = UnfinishedOperations(checkpoint) \ {worker[w].row}
      BY <1>4, <1>a, <3>1, MarkedTable DEF FullIndexed
    <3>3. \A p \in UnfinishedOperations(checkpoint)' : ~ Owns(w, p)
      BY <1>b, <2>1, <3>2 DEF Owns
    <3> QED BY <1>j, <2>1, <2>2, <3>2, <3>3
  <2> QED BY <2>3, <2>4, <2>5, <2>6
<1>5. ASSUME NEW w \in FullWorkers, FullFails(w) PROVE Goal
  BY <1>5, <1>f DEF FullFails
<1>6. ASSUME NEW w \in Callers, Abandon(w) PROVE Goal
  BY <1>6, <1>f DEF Abandon
<1>7. ASSUME NEW w \in Callers, CompleteFails(w) PROVE Goal
  BY <1>7, <1>f DEF CompleteFails
<1>8. ASSUME NEW w \in Callers, Reject(w) PROVE Goal
  <2>1. w \in Callers /\ worker[w] \in Workers /\ worker[w].pc = "gate"
    BY <1>8, <1>a, <1>b DEF Reject, At, Ready
  <2>2. /\ \A v \in Callers : v # w => worker'[v] = worker[v]
        /\ worker'[w].pc = "idle"
    BY <1>8, <1>a, <1>l, <2>1 DEF Reject, Goto, Return, Workers
  <2>3. Faultless'
    BY <1>8, <1>g, <2>1, <2>2 DEF Reject, vars, queueVars, Enqueue, CheckpointCreated,
       DequeueReserve, DequeuePersist, CompleteActive
  <2>4. SlotInv'
    BY <1>8, <1>h, <2>1, <2>2 DEF Reject, vars, queueVars, Enqueue, CheckpointCreated,
       Working
  <2>5. FlagInv'
    BY <1>8, <1>i DEF Reject, vars, queueVars, Enqueue, CheckpointCreated
  <2>6. OwnerInv'
    <3>1. checkpoint' = checkpoint
      BY <1>8 DEF Reject, vars, Enqueue, DequeueReserve
    <3>2. \A p : ~ Owns(w, p)
      BY <1>b, <2>1 DEF Owns
    <3> QED BY <1>j, <2>1, <2>2, <3>1, <3>2 DEF UnfinishedOperations
  <2> QED BY <2>3, <2>4, <2>5, <2>6
<1>9. ASSUME NEW w \in Callers, GateDequeue(w) PROVE Goal
  <2>1. w \in Callers /\ worker[w] \in Workers /\ worker[w].pc = "gate"
    BY <1>9, <1>a, <1>b DEF GateDequeue, At, Ready
  <2>2. /\ \A v \in Callers : v # w => worker'[v] = worker[v]
        /\ worker'[w].pc = "persist"
    BY <1>9, <1>a, <1>l, <2>1 DEF GateDequeue, Goto, Return, Workers
  <2>3. Faultless'
    BY <1>9, <1>g, <2>1, <2>2 DEF GateDequeue, vars, queueVars, Enqueue, CheckpointCreated,
       DequeueReserve, DequeuePersist, CompleteActive
  <2>4. SlotInv'
    <3>1. active = NoOp /\ active' = Head(pending) /\ pending # <<>>
          /\ reserved' = [reserved EXCEPT ![w] = Head(pending)]
      BY <1>9 DEF GateDequeue, DequeueReserve
    <3>2. active' \in Ops
      BY <1>a, <3>1
    <3>3. \A v \in Callers : ~ Working(v)
      BY <1>d, <3>1 DEF SlotInv, SlotMeansWork
    <3>4. \A v \in Callers : v # w => ~ Working(v)'
      BY <2>2, <3>3 DEF Working
    <3>5. Working(w)'
      BY <2>2 DEF Working
    <3>6. GateExclusion' /\ SlotMeansWork'
      BY <1>a, <3>2, <3>4, <3>5 DEF GateExclusion, SlotMeansWork
    <3>7. \A v \in Callers : reserved[v] = NoOp
      BY <1>d, <3>3 DEF SlotInv, At, Working
    <3>8. \A v \in Callers : reserved'[v] = IF v = w THEN Head(pending) ELSE NoOp
      BY <1>a, <3>1, <3>7
    <3>9. \A v \in Callers : reserved'[v] # NoOp => worker'[v].pc = "persist" /\ reserved'[v] = active'
      BY <2>2, <3>1, <3>8
    <3> QED BY <3>6, <3>9 DEF SlotInv, At
  <2>5. FlagInv'
    <3>1. active = NoOp /\ checkpoint' = checkpoint
      BY <1>9 DEF GateDequeue, DequeueReserve
    <3>2. ActiveRows(checkpoint) = {}
      BY <1>a, <1>d, <3>1 DEF FlagInv, FlagMirrorsSlot, ActiveRows
    <3>3. ActiveRows(checkpoint') = {}
      BY <3>1, <3>2
    <3> QED BY <3>3 DEF FlagInv, FlagMirrorsSlot, StaleActive
  <2>6. OwnerInv'
    <3>1. checkpoint' = checkpoint
      BY <1>9 DEF GateDequeue, vars, Enqueue, DequeueReserve
    <3>2. \A p : ~ Owns(w, p)
      BY <1>b, <2>1 DEF Owns
    <3> QED BY <1>j, <2>1, <2>2, <3>1, <3>2 DEF UnfinishedOperations
  <2> QED BY <2>3, <2>4, <2>5, <2>6
<1>10. ASSUME NEW w \in Callers, GatePersist(w) PROVE Goal
  <2>1. w \in Callers /\ worker[w] \in Workers /\ worker[w].pc = "persist"
    BY <1>10, <1>a, <1>b DEF GatePersist, At, Ready
  <2>2. /\ \A v \in Callers : v # w => worker'[v] = worker[v]
        /\ worker'[w].pc \in {"checkpoint", "start"}
    BY <1>10, <1>a, <1>l, <2>1 DEF GatePersist, Goto, Return, Workers
  <2>3. Faultless'
    BY <1>10, <1>g, <2>1, <2>2 DEF GatePersist, vars, queueVars, Enqueue, CheckpointCreated,
       DequeueReserve, DequeuePersist, CompleteActive
  <2>4. SlotInv'
    <3>1. active' = active /\ reserved' = [reserved EXCEPT ![w] = NoOp]
      BY <1>10 DEF GatePersist, DequeuePersist
    <3>2. \A v \in Callers : Working(v)' <=> Working(v)
      BY <2>1, <2>2 DEF Working
    <3>3. ASSUME NEW v \in Callers, reserved'[v] # NoOp
          PROVE  reserved'[v] = reserved[v] /\ At(v, "persist")'
      <4>1. v # w /\ reserved'[v] = reserved[v]
        BY <1>a, <3>1, <3>3
      <4>2. worker'[v] = worker[v]
        BY <2>2, <4>1
      <4>3. At(v, "persist")
        BY <1>d, <3>3, <4>1 DEF SlotInv
      <4> QED BY <4>1, <4>2, <4>3 DEF At
    <3> QED BY <1>d, <3>1, <3>2, <3>3, SlotKept
  <2>5. FlagInv'
    <3>1. active' = active /\ checkpoint' = SetActiveFlag(checkpoint, reserved[w]) /\ reserved[w] # NoOp
      BY <1>10 DEF GatePersist, DequeuePersist
    <3>2. reserved[w] = active /\ active \in Ops
      BY <1>a, <1>d, <2>1, <3>1 DEF SlotInv
    <3>3. \A p \in Ops : Flagged(checkpoint, p)' =>
              \/ p = active /\ checkpoint'[p].flag = "fresh"
              \/ Flagged(checkpoint, p) /\ checkpoint'[p].flag = checkpoint[p].flag
      BY <1>a, <3>1, <3>2, FlaggedTable
    <3> QED BY <1>d, <3>1, <3>3 DEF FlagInv, FlagMirrorsSlot, StaleActive, ActiveRows
  <2>6. OwnerInv'
    <3>1. checkpoint' = SetActiveFlag(checkpoint, reserved[w]) /\ reserved[w] \in Ops
      BY <1>10, <1>a DEF GatePersist, DequeuePersist
    <3>2. UnfinishedOperations(checkpoint)' = UnfinishedOperations(checkpoint)
      BY <1>a, <3>1, FlaggedTable
    <3>3. \A p : ~ Owns(w, p)
      BY <2>1 DEF Owns
    <3> QED BY <1>j, <2>1, <2>2, <3>2, <3>3
  <2> QED BY <2>3, <2>4, <2>5, <2>6
<1>11. ASSUME NEW w \in Callers, GateRollback(w) PROVE Goal
  BY <1>11 DEF GateRollback, DequeueRollback, Undisturbed
<1>12. ASSUME NEW w \in Callers, Complete(w) PROVE Goal
  <2>1. w \in Callers /\ worker[w] \in Workers /\ worker[w].pc = "complete"
    BY <1>12, <1>a, <1>b DEF Complete, At, Ready
  <2>2. /\ \A v \in Callers : v # w => worker'[v] = worker[v]
        /\ worker'[w].pc = "mark" /\ worker'[w].row = worker[w].row
    BY <1>12, <1>a, <1>l, <2>1 DEF Complete, Goto, Return, Workers
  <2>3. Faultless'
    BY <1>12, <1>g, <2>1, <2>2 DEF Complete, vars, queueVars, Enqueue, CheckpointCreated,
       DequeueReserve, DequeuePersist, CompleteActive
  <2>4. SlotInv'
    <3>1. active' = NoOp /\ reserved' = reserved /\ active # NoOp
      BY <1>12 DEF Complete, CompleteActive
    <3>2. Working(w)
      BY <2>1 DEF Working
    <3>3. \A v \in Callers : v # w => ~ Working(v)
      BY <1>d, <2>1, <3>2 DEF SlotInv, GateExclusion
    <3>4. \A v \in Callers : ~ Working(v)'
      BY <2>2, <3>3 DEF Working
    <3>5. GateExclusion' /\ SlotMeansWork'
      BY <3>1, <3>4 DEF GateExclusion, SlotMeansWork
    <3>6. \A v \in Callers : reserved'[v] = NoOp
      BY <1>d, <2>1, <3>1, <3>3 DEF SlotInv, At, Working
    <3> QED BY <3>5, <3>6 DEF SlotInv
  <2>5. FlagInv'
    <3>1. active' = NoOp /\ active \in Ops /\ checkpoint' = ClearActiveFlag(checkpoint, active)
      BY <1>12, <1>a DEF Complete, CompleteActive
    <3>2. \A p \in Ops : Flagged(checkpoint, p)' => p # active /\ Flagged(checkpoint, p)
      BY <1>a, <3>1, ClearedTable
    <3>3. ActiveRows(checkpoint)' = {}
      BY <1>d, <3>2 DEF FlagInv, FlagMirrorsSlot, ActiveRows
    <3> QED BY <3>3 DEF FlagInv, FlagMirrorsSlot, StaleActive
  <2>6. OwnerInv'
    <3>1. active \in Ops /\ checkpoint' = ClearActiveFlag(checkpoint, active)
      BY <1>12, <1>a DEF Complete, CompleteActive
    <3>2. UnfinishedOperations(checkpoint)' = UnfinishedOperations(checkpoint)
      BY <1>a, <3>1, ClearedTable
    <3>3. \A p : Owns(w, p) => Owns(w, p)'
      BY <1>b, <2>1, <2>2 DEF Owns
    <3> QED BY <1>j, <2>1, <2>2, <3>2, <3>3
  <2> QED BY <2>3, <2>4, <2>5, <2>6
<1>13. ASSUME NEW w \in Callers, CompleteNothing(w) PROVE Goal
  BY <1>13, <1>d DEF CompleteNothing, At, SlotInv, SlotMeansWork, Working
<1>14. ASSUME NEW w \in Callers, Mark(w) PROVE Goal
  <2>1. w \in Callers /\ worker[w] \in Workers /\ worker[w].pc = "mark"
    BY <1>14, <1>a, <1>b DEF Mark, At, Ready
  <2>2. /\ \A v \in Callers : v # w => worker'[v] = worker[v]
        /\ \/ worker[w].row \notin Ops /\ worker'[w].pc = "idle"
           \/ worker'[w].pc = "markRow" /\ worker'[w].row = worker[w].row
    BY <1>14, <1>a, <1>l, <2>1 DEF Mark, Goto, Return, Workers
  <2>3. Faultless'
    BY <1>14, <1>g, <2>1, <2>2 DEF Mark, vars, queueVars, Enqueue, CheckpointCreated,
       DequeueReserve, DequeuePersist, CompleteActive
  <2>4. SlotInv'
    BY <1>14, <1>h, <2>1, <2>2 DEF Mark, vars, queueVars, Enqueue, CheckpointCreated,
       Working
  <2>5. FlagInv'
    <3>1. worker[w].done \in Ops
      BY <1>c, <2>1 DEF WorkerInv
    <3>2. active' = active
      BY <1>14 DEF Mark, queueVars
    <3> QED BY <1>14, <1>a, <1>d, <3>1, <3>2, MarkedTable, FlagKept DEF Mark
  <2>6. OwnerInv'
    <3>1. worker[w].done \in Ops
      BY <1>c, <2>1 DEF WorkerInv
    <3>2. UnfinishedOperations(checkpoint)' \subseteq UnfinishedOperations(checkpoint)
      BY <1>14, <1>a, <3>1, MarkedTable DEF Mark
    <3>3. \A p \in UnfinishedOperations(checkpoint) : Owns(w, p) => Owns(w, p)'
      BY <1>b, <2>1, <2>2 DEF Owns, UnfinishedOperations
    <3> QED BY <1>j, <2>1, <2>2, <3>2, <3>3
  <2> QED BY <2>3, <2>4, <2>5, <2>6
<1>15. ASSUME NEW w \in Callers, MarkRow(w) PROVE Goal
  <2>1. w \in Callers /\ worker[w] \in Workers /\ worker[w].pc = "markRow"
    BY <1>15, <1>a, <1>b DEF MarkRow, At, Ready
  <2>2. /\ \A v \in Callers : v # w => worker'[v] = worker[v]
        /\ worker'[w].pc = "idle"
    BY <1>15, <1>a, <1>l, <2>1 DEF MarkRow, Goto, Return, Workers
  <2>3. Faultless'
    BY <1>15, <1>g, <2>1, <2>2 DEF MarkRow, vars, queueVars, Enqueue, CheckpointCreated,
       DequeueReserve, DequeuePersist, CompleteActive
  <2>4. SlotInv'
    BY <1>15, <1>h, <2>1, <2>2 DEF MarkRow, vars, queueVars, Enqueue, CheckpointCreated,
       Working
  <2>5. FlagInv'
    <3>1. worker[w].row \in Ops
      BY <1>c, <2>1 DEF WorkerInv
    <3>2. active' = active
      BY <1>15 DEF MarkRow, queueVars
    <3> QED BY <1>15, <1>a, <1>d, <3>1, <3>2, MarkedTable, FlagKept DEF MarkRow
  <2>6. OwnerInv'
    <3>1. worker[w].row \in Ops
      BY <1>c, <2>1 DEF WorkerInv
    <3>2. UnfinishedOperations(checkpoint)' = UnfinishedOperations(checkpoint) \ {worker[w].row}
      BY <1>15, <1>a, <3>1, MarkedTable DEF MarkRow
    <3>3. \A p \in UnfinishedOperations(checkpoint)' : ~ Owns(w, p)
      BY <1>b, <2>1, <3>2 DEF Owns
    <3> QED BY <1>j, <2>1, <2>2, <3>2, <3>3
  <2> QED BY <2>3, <2>4, <2>5, <2>6
<1>16. ASSUME NEW w \in Callers, Clear(w) PROVE Goal
  BY <1>16, <1>d DEF Clear, At, Faultless
<1>17. ASSUME NEW requeue \in BOOLEAN, HotTakeConfig(requeue) PROVE Goal
  <2>1. HotWorker \in Callers /\ worker[HotWorker] \in Workers /\ worker[HotWorker].pc = "idle"
    BY <1>17, <1>a, <1>b DEF HotTakeConfig, At, Ready
  <2>2. /\ \A v \in Callers : v # HotWorker => worker'[v] = worker[v]
        /\ worker'[HotWorker].pc = "gate"
    BY <1>17, <1>a, <1>l, <2>1 DEF HotTakeConfig, Goto, Return, Workers
  <2>3. Faultless'
    BY <1>17, <1>g, <2>1, <2>2 DEF HotTakeConfig, vars, queueVars, Enqueue,
       CheckpointCreated, DequeueReserve, DequeuePersist, CompleteActive
  <2>4. SlotInv'
    BY <1>17, <1>h, <2>1, <2>2 DEF HotTakeConfig, vars, queueVars, Enqueue,
       CheckpointCreated, Working
  <2>5. FlagInv'
    BY <1>17, <1>i DEF HotTakeConfig, vars, queueVars, Enqueue, CheckpointCreated
  <2>6. OwnerInv'
    <3>1. checkpoint' = checkpoint
      BY <1>17 DEF HotTakeConfig, vars, Enqueue, DequeueReserve
    <3>2. \A p : ~ Owns(HotWorker, p)
      BY <1>b, <2>1 DEF Owns
    <3> QED BY <1>j, <2>1, <2>2, <3>1, <3>2 DEF UnfinishedOperations
  <2> QED BY <2>3, <2>4, <2>5, <2>6
<1>18. CASE HotRequest
  <2>1. HotWorker \in Callers /\ worker[HotWorker] \in Workers /\ worker[HotWorker].pc = "idle"
    BY <1>18, <1>a, <1>b DEF HotRequest, At, Ready
  <2>2. /\ \A v \in Callers : v # HotWorker => worker'[v] = worker[v]
        /\ worker'[HotWorker].pc = "gate"
    BY <1>18, <1>a, <1>l, <2>1 DEF HotRequest, Goto, Return, Workers
  <2>3. Faultless'
    BY <1>18, <1>g, <2>1, <2>2 DEF HotRequest, vars, queueVars, Enqueue, CheckpointCreated,
       DequeueReserve, DequeuePersist, CompleteActive
  <2>4. SlotInv'
    BY <1>18, <1>h, <2>1, <2>2 DEF HotRequest, vars, queueVars, Enqueue, CheckpointCreated,
       Working
  <2>5. FlagInv'
    BY <1>18, <1>i DEF HotRequest, vars, queueVars, Enqueue, CheckpointCreated
  <2>6. OwnerInv'
    <3>1. checkpoint' = checkpoint
      BY <1>18 DEF HotRequest, vars, Enqueue, DequeueReserve
    <3>2. \A p : ~ Owns(HotWorker, p)
      BY <1>b, <2>1 DEF Owns
    <3> QED BY <1>j, <2>1, <2>2, <3>1, <3>2 DEF UnfinishedOperations
  <2> QED BY <2>3, <2>4, <2>5, <2>6
<1>19. CASE ConfigChanged
  BY <1>19, <1>k DEF ConfigChanged, vars, UnfinishedOperations, Flagged, Exists
<1>20. CASE HotResume
  <2>1. Resumable \in UnfinishedOperations(checkpoint) /\ KindOf[Resumable] = "hot_update"
    BY <1>20, LatestType DEF HotResume, Resumable, GateInv, IncompleteByType
  <2>2. PICK v \in Callers : Owns(v, Resumable)
    BY <1>d, <2>1 DEF OwnerInv
  <2>3. worker[HotWorker].pc = "idle"
    BY <1>20 DEF HotResume, Ready, At
  <2>4. v \in FullWorkers /\ At(v, "index") /\ worker[v].row = Resumable
    BY <2>2, <2>3 DEF Owns, At
  <2> QED BY <1>d, <2>1, <2>4 DEF OwnerInv
<1>21. CASE HotCheckpoint
  <2>1. HotWorker \in Callers /\ worker[HotWorker] \in Workers /\ worker[HotWorker].pc = "checkpoint"
    BY <1>21, <1>a, <1>b DEF HotCheckpoint, At, Ready
  <2>2. /\ \A v \in Callers : v # HotWorker => worker'[v] = worker[v]
        /\ worker'[HotWorker].pc = "run" /\ worker'[HotWorker].own = worker[HotWorker].own
    BY <1>21, <1>a, <1>l, <2>1 DEF HotCheckpoint, Goto, Return, Workers
  <2>3. Faultless'
    BY <1>21, <1>g, <2>1, <2>2 DEF HotCheckpoint, vars, queueVars, Enqueue,
       CheckpointCreated, DequeueReserve, DequeuePersist, CompleteActive
  <2>4. SlotInv'
    BY <1>21, <1>h, <2>1, <2>2 DEF HotCheckpoint, vars, queueVars, Enqueue,
       CheckpointCreated, Working
  <2>5. FlagInv'
    <3>1. worker[HotWorker].own \in Ops /\ active' = active
      BY <1>21, <1>b, <1>c, <2>1 DEF WorkerInv, HotCheckpoint, CheckpointCreated, queueVars
    <3> QED BY <1>21, <1>a, <1>d, <3>1, CreatedTable, FlagKept DEF HotCheckpoint,
               CheckpointCreated
  <2>6. OwnerInv'
    <3>1. worker[HotWorker].own \in Ops
      BY <1>b, <1>c, <2>1 DEF WorkerInv
    <3>2. PICK p \in Ops : p = worker[HotWorker].own
      BY <3>1
    <3>3. /\ UnfinishedOperations(checkpoint)' = UnfinishedOperations(checkpoint) \cup {p}
          /\ Owns(HotWorker, p)'
      <4>1. UnfinishedOperations(checkpoint)' = UnfinishedOperations(checkpoint) \cup {p}
        BY <1>21, <1>a, <3>2, CreatedTable DEF HotCheckpoint, CheckpointCreated
      <4>2. Owns(HotWorker, p)'
        BY <2>2, <3>2 DEF Owns
      <4> QED BY <4>1, <4>2
    <3>4. ASSUME NEW q \in UnfinishedOperations(checkpoint) PROVE \E v \in Callers : Owns(v, q)'
      <4>1. PICK v \in Callers : Owns(v, q)
        BY <1>d DEF OwnerInv
      <4>2. v # HotWorker
        BY <1>b, <2>1, <4>1 DEF Owns
      <4>3. worker'[v] = worker[v]
        BY <2>2, <4>2
      <4> QED BY <4>1, <4>3 DEF Owns
    <3>5. \A v \in FullWorkers : At(v, "index")' => KindOf[worker'[v].row] = "full_index"
      BY <1>b, <1>d, <2>2 DEF OwnerInv, At
    <3>6. \A q \in UnfinishedOperations(checkpoint)' : \E v \in Callers : Owns(v, q)'
      BY <1>b, <3>3, <3>4
    <3> QED BY <3>5, <3>6 DEF OwnerInv
  <2> QED BY <2>3, <2>4, <2>5, <2>6
<1>22. CASE HotNoChange
  <2>1. HotWorker \in Callers /\ worker[HotWorker] \in Workers /\ worker[HotWorker].pc = "run"
    BY <1>22, <1>a, <1>b DEF HotNoChange, At, Ready
  <2>2. /\ \A v \in Callers : v # HotWorker => worker'[v] = worker[v]
        /\ worker'[HotWorker].pc = "complete" /\ worker'[HotWorker].row = worker[HotWorker].own
    BY <1>22, <1>a, <1>l, <2>1 DEF HotNoChange, Goto, Return, Workers
  <2>3. Faultless'
    BY <1>22, <1>g, <2>1, <2>2 DEF HotNoChange, vars, queueVars, Enqueue, CheckpointCreated,
       DequeueReserve, DequeuePersist, CompleteActive
  <2>4. SlotInv'
    BY <1>22, <1>h, <2>1, <2>2 DEF HotNoChange, vars, queueVars, Enqueue, CheckpointCreated,
       Working
  <2>5. FlagInv'
    BY <1>22, <1>i DEF HotNoChange, vars, queueVars, Enqueue, CheckpointCreated
  <2>6. OwnerInv'
    <3>1. checkpoint' = checkpoint
      BY <1>22 DEF HotNoChange, vars
    <3>2. \A p : Owns(HotWorker, p) => Owns(HotWorker, p)'
      BY <1>b, <2>1, <2>2 DEF Owns
    <3> QED BY <1>b, <1>j, <2>1, <2>2, <3>1, <3>2 DEF UnfinishedOperations
  <2> QED BY <2>3, <2>4, <2>5, <2>6
<1>23. CASE HotSucceeds
  <2>1. HotWorker \in Callers /\ worker[HotWorker] \in Workers /\ worker[HotWorker].pc = "run"
    BY <1>23, <1>a, <1>b, <1>d DEF HotSucceeds, Faultless
  <2>2. /\ \A v \in Callers : v # HotWorker => worker'[v] = worker[v]
        /\ worker'[HotWorker].pc = "complete"
    BY <1>23, <1>a, <1>l, <2>1 DEF HotSucceeds, Goto, Return, Workers
  <2>3. Faultless'
    BY <1>23, <1>g, <2>1, <2>2 DEF HotSucceeds, vars, queueVars, Enqueue, CheckpointCreated,
       DequeueReserve, DequeuePersist, CompleteActive
  <2>4. SlotInv'
    BY <1>23, <1>h, <2>1, <2>2 DEF HotSucceeds, vars, queueVars, Enqueue, CheckpointCreated,
       Working
  <2>5. FlagInv'
    <3>1. worker[HotWorker].own \in Ops
      BY <1>b, <1>c, <2>1 DEF WorkerInv
    <3>2. active' = active
      BY <1>23 DEF HotSucceeds, queueVars
    <3> QED BY <1>23, <1>a, <1>d, <3>1, <3>2, MarkedTable, FlagKept DEF HotSucceeds
  <2>6. OwnerInv'
    <3>1. worker[HotWorker].own \in Ops
      BY <1>b, <1>c, <2>1 DEF WorkerInv
    <3>2. UnfinishedOperations(checkpoint)' = UnfinishedOperations(checkpoint) \ {worker[HotWorker].own}
      BY <1>23, <1>a, <3>1, MarkedTable DEF HotSucceeds
    <3>3. \A p \in UnfinishedOperations(checkpoint)' : ~ Owns(HotWorker, p)
      BY <1>b, <2>1, <3>2 DEF Owns
    <3> QED BY <1>j, <2>1, <2>2, <3>2, <3>3
  <2> QED BY <2>3, <2>4, <2>5, <2>6
<1>24. CASE HotFails
  BY <1>24, <1>f DEF HotFails
<1>25. CASE Crash
  BY <1>25 DEF Crash, Undisturbed
<1>26. CASE RecoverStale
  BY <1>26, <1>d DEF RecoverStale, Faultless
<1>27. CASE RecoverQueued
  BY <1>27, <1>d DEF RecoverQueued, Faultless
<1>28. CASE RecoverDirect
  BY <1>28, <1>d DEF RecoverDirect, Faultless
<1>29. ASSUME NEW o \in Ops, TimeoutPasses(o) PROVE Goal
  <2>1. Flagged(checkpoint, o)
    BY <1>29 DEF TimeoutPasses, HeartbeatExpires
  <2>2. o = active /\ active # NoOp
    BY <1>a, <1>d, <2>1 DEF FlagInv, FlagMirrorsSlot, ActiveRows
  <2>3. \E w \in Callers : Working(w)
    BY <1>d, <2>2 DEF SlotInv, SlotMeansWork
  <2> QED BY <1>29, <2>2, <2>3 DEF TimeoutPasses
<1>30. CASE TtlCleanup
  <2>1. PICK old \in SUBSET Expirable(checkpoint) : checkpoint' = DeleteExpired(checkpoint, old)
    BY <1>30 DEF TtlCleanup
  <2>2. \A p \in Ops : checkpoint'[p] = IF p \in old THEN NoRow ELSE checkpoint[p]
    BY <2>1 DEF DeleteExpired
  <2>3. /\ \A p \in Ops : Flagged(checkpoint, p)' =>
             Flagged(checkpoint, p) /\ checkpoint'[p].flag = checkpoint[p].flag
        /\ UnfinishedOperations(checkpoint)' = UnfinishedOperations(checkpoint)
    BY <2>1, <2>2 DEF Flagged, Exists, UnfinishedOperations, NoRow, Expirable
  <2>4. UNCHANGED worker /\ UNCHANGED <<active, reserved, cleanup, recovery>>
    BY <1>30 DEF TtlCleanup, queueVars, gateVars
  <2> QED BY <1>k, <2>3, <2>4
<1>31. CASE StaleCleanup
  BY <1>31, <1>d DEF StaleCleanup, CleanupStaleDb, CleanupStaleMemory, Faultless, FlagInv
<1>32. CASE UNCHANGED allVars
  BY <1>32, <1>k DEF allVars, gateVars, vars, UnfinishedOperations, Flagged, Exists
<1> QED BY <1>1, <1>2, <1>3, <1>4, <1>5, <1>6, <1>7, <1>8, <1>9, <1>10, <1>11, <1>12, <1>13,
           <1>14, <1>15, <1>16, <1>17, <1>18, <1>19, <1>20, <1>21, <1>22, <1>23, <1>24,
           <1>25, <1>26, <1>27, <1>28, <1>29, <1>30, <1>31, <1>32 DEF GateNext, FullStep,
           AnyStep, Faulty, HotStep, Recover

\* Until something fails, the tasks, the slot, the flags and the unfinished
\* checkpoints agree.  The hypothesis is that no operation outlasts its heartbeat
\* timeout: cleanup_stale_operations takes the slot from one that does.
THEOREM QuietInvariance ==
  ASSUME ~ Slow
  PROVE  GateSpec => [](Undisturbed => QuietInv)
<1>1. GateInit => (Undisturbed => QuietInv)
  <2> SUFFICES ASSUME GateInit PROVE QuietInv
    OBVIOUS
  <2>1. \A w \in Callers : worker[w].pc = "idle" /\ reserved[w] = NoOp
    BY DEF GateInit, Init, Idle
  <2>2. Faultless
    BY <2>1 DEF GateInit, Init, IdleCleanup, Faultless
  <2>3. SlotInv
    BY <2>1 DEF GateInit, Init, SlotInv, GateExclusion, SlotMeansWork, Working
  <2>4. \A o \in Ops : checkpoint[o].status = "absent"
    BY DEF GateInit, Init, EmptyTable, NoRow
  <2>5. ActiveRows(checkpoint) = {} /\ UnfinishedOperations(checkpoint) = {}
    BY <2>4 DEF ActiveRows, Flagged, Exists, UnfinishedOperations
  <2>6. FlagInv /\ OwnerInv
    BY <2>1, <2>5, GateAssumption DEF FlagInv, FlagMirrorsSlot, StaleActive, OwnerInv, At
  <2> QED BY <2>2, <2>3, <2>6 DEF QuietInv
<1>2. GateInv /\ (Undisturbed => QuietInv) /\ [GateNext]_allVars => (Undisturbed => QuietInv)'
  <2> SUFFICES ASSUME GateInv, Undisturbed => QuietInv, [GateNext]_allVars, Undisturbed'
               PROVE  QuietInv'
    OBVIOUS
  <2>1. failures \in Nat /\ crashes \in Nat /\ rollbacks \in Nat
    BY GateAssumption, QueueAssumption DEF GateInv, GateTypeOK, IInv, TypeOK
  <2>2. \/ failures' = failures \/ failures' = failures + 1
    BY DEF GateNext, FullStep, AnyStep, Faulty, HotStep, Recover, allVars, gateVars, Fails,
           FullRequest, FullEnqueue, FullStart, FullIndexed, FullFails, Reject, GateDequeue, GatePersist, GateRollback,
           Abandon, Complete, CompleteNothing, CompleteFails, Mark, MarkRow, Clear, HotTakeConfig, ConfigChanged,
           HotResume, HotRequest, HotCheckpoint, HotNoChange, HotSucceeds, HotFails, Crash, RecoverStale,
           RecoverQueued, RecoverDirect, TimeoutPasses, TtlCleanup, StaleCleanup
  <2>3. \/ crashes' = crashes \/ crashes' = crashes + 1
    BY DEF GateNext, FullStep, AnyStep, Faulty, HotStep, Recover, allVars, gateVars, Fails,
           FullRequest, FullEnqueue, FullStart, FullIndexed, FullFails, Reject, GateDequeue, GatePersist, GateRollback,
           Abandon, Complete, CompleteNothing, CompleteFails, Mark, MarkRow, Clear, HotTakeConfig, ConfigChanged,
           HotResume, HotRequest, HotCheckpoint, HotNoChange, HotSucceeds, HotFails, Crash, RecoverStale,
           RecoverQueued, RecoverDirect, TimeoutPasses, TtlCleanup, StaleCleanup
  <2>4. \/ rollbacks' = rollbacks \/ rollbacks' = rollbacks + 1
    <3>1. [Next]_vars \/ StatusStep
      BY QueueOrStatus
    <3>2. CASE StatusStep
      BY <3>2 DEF StatusStep
    <3>3. CASE [Next]_vars
      BY <3>3 DEF Next, vars, Enqueue, CancelPending, DequeueReserve, DequeuePersist,
         DequeueRollback,
         CheckpointCreated, CheckpointFailed, CheckpointsExpire, Heartbeat, HeartbeatExpires, CompleteActive,
         ClearActiveByOperation, ClearPending, CleanupStaleDb, CleanupStaleMemory, Restart, LoadPersistedActive
    <3> QED BY <3>1, <3>2, <3>3
  <2>5. Undisturbed
    BY <2>1, <2>2, <2>3, <2>4 DEF Undisturbed
  <2> QED BY <2>5, QuietStep
<1> QED BY GateInvariance, <1>1, <1>2, PTL DEF GateSpec

\* "Ensures no concurrent conflicts between operations" (coordinator.rs:7): until
\* something fails, at most one task is behind the gate of execute_next_operation.
THEOREM ExclusionUndisturbed ==
  ASSUME ~ Slow
  PROVE  GateSpec => [](Undisturbed => GateExclusion)
<1>1. (Undisturbed => QuietInv) => (Undisturbed => GateExclusion)
  BY DEF QuietInv, SlotInv
<1> QED BY QuietInvariance, <1>1, PTL

\* Until something fails, the active slot of queue.rs is taken exactly while a task
\* is behind the gate: it is neither lost under a running operation nor kept after
\* one.
THEOREM SlotUndisturbed ==
  ASSUME ~ Slow
  PROVE  GateSpec => [](Undisturbed => SlotMeansWork)
<1>1. (Undisturbed => QuietInv) => (Undisturbed => SlotMeansWork)
  BY DEF QuietInv, SlotInv
<1> QED BY QuietInvariance, <1>1, PTL

\* Until something fails, the active_flag of the checkpoint table is set for the
\* operation in the slot only, so cleanup_stale_operations never frees the slot
\* of a running one.
THEOREM FlagUndisturbed ==
  ASSUME ~ Slow
  PROVE  GateSpec => [](Undisturbed => FlagMirrorsSlot)
<1>1. (Undisturbed => QuietInv) => (Undisturbed => FlagMirrorsSlot)
  BY DEF QuietInv, FlagInv
<1> QED BY QuietInvariance, <1>1, PTL

\* "The early checkpoint ... must not linger as in_progress"
\* (operation_runtime.rs:512): until something fails, an unfinished checkpoint is
\* one a task of index() or of the hot-update runtime still works on or closes.
THEOREM NoLingeringUndisturbed ==
  ASSUME ~ Slow
  PROVE  GateSpec => [](Undisturbed => NoLingeringCheckpoint)
<1>1. OwnerInv => NoLingeringCheckpoint
  BY DEF OwnerInv, NoLingeringCheckpoint, Owns
<1>2. (Undisturbed => QuietInv) => (Undisturbed => NoLingeringCheckpoint)
  BY <1>1 DEF QuietInv
<1> QED BY QuietInvariance, <1>2, PTL
============================================================================

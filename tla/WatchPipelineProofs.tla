------------------------ MODULE WatchPipelineProofs ------------------------
(***************************************************************************)
(* Proofs about the way of a file change to the index, for any files,      *)
(* channel and queue capacity, and number of changes and failures:         *)
(*                                                                         *)
(*   WatchTyping          WatchTypeOK                                      *)
(*   NothingSilentlyLost  NoSilentLoss                                     *)
(*                                                                         *)
(* NoSilentLoss speaks of one step, but not from any state: what a         *)
(* half-failed operation left to resume must be what the operation that    *)
(* resumes it works on (ResumeInv), what an operation is about to publish  *)
(* must be right, undo a file that is there, or be of a file that is known *)
(* to differ (BatchInv), and work that a change overtook must have news of *)
(* that change or a scan behind it (StaleInv).  An operation that failed   *)
(* when its generation was already active is different: its resumption     *)
(* only records hashes (ShownInv).                                         *)
(*                                                                         *)
(* The lemmas on Latest... say what the queue knows after a batch of       *)
(* events: unless it asks for a scan, the latest event of every file, so   *)
(* that forwarding events loses nothing.                                   *)
(***************************************************************************)
EXTENDS WatchPipeline, PositionLemmas, SequenceTheorems

\* The contents of a WatchChangeQueue.
Queues == [entries : [Files -> News], rescan : BOOLEAN]
\* A queue with finitely many entries, within its capacity.
Sound(q) == /\ q \in Queues /\ IsFiniteSet(Queued(q.entries))
            /\ Cardinality(Queued(q.entries)) <= Capacity
\* The latest news of f in the events s, or what q says when s has none.
LatestIn(s, q, f) ==
  LET A == {i \in DOMAIN s : s[i].path = f}
  IN  IF A # {} THEN s[Max(A)].news ELSE q[f]
\* The j-th event of s is the last one about f.
LastAbout(s, f, j) ==
  /\ j \in 1 .. Len(s) /\ s[j].path = f
  /\ \A k \in 1 .. Len(s) : s[k].path = f => k <= j

\* The running operation works on f as it was before a later change.
Stale(f) ==
  /\ op.batch[f] # "none" /\ f \notin op.good
  /\ f \in op.bad => f \notin present

\* The types, with the queue's entries and the model's counters.
TypeInv ==
  /\ WatchTypeOK /\ IsFiniteSet(Queued(entries))
  /\ changes \in Nat /\ failures \in Nat

\* An operation that looks for changes has nothing to resume; one that publishes a
\* resumption works on the files left to resume, and undoes only what was left as
\* a deletion.
ResumeInv ==
  /\ op.pc \in {"take", "detect"} => resume = NoNews
  /\ op.pc = "publish" /\ resume # NoNews =>
       \A f \in Files : /\ resume[f] # "none" <=> op.batch[f] # "none"
                        /\ f \in op.bad => resume[f] = "deleted"

\* What an operation is about to publish: right of the disk, a deletion of a file
\* that is there, or of a file that differs from the index anyway.
BatchInv ==
  op.pc = "publish" => \A f \in Files :
    /\ f \in op.good => op.batch[f] = Disk(f) /\ f \notin op.bad
    /\ f \in op.bad => op.batch[f] = "deleted"
    /\ op.batch[f] # "none" => f \in op.good \cup (op.bad \cap present) \cup dirty

\* Work that a later change overtook has an event or a scan behind it, as long as
\* it is not active.
StaleInv ==
  op.pc = "publish" /\ ~shown => \A f \in Files :
    Stale(f) => overflow \/ rescan \/ LatestNews(f) # "none"

\* What an operation publishes or leaves to resume is not empty.
WorkInv ==
  /\ op.pc = "publish" => \E f \in Files : op.batch[f] # "none"
  /\ shown => \E f \in Files : resume[f] # "none"

\* An operation whose generation is active left files that differ from the index or
\* are in it as they are on disk; its resumption takes no file out and none up.
ShownInv ==
  /\ shown => /\ op.pc \notin {"take", "detect"}
              /\ \A f \in Files : resume[f] # "none" /\ f \notin dirty => resume[f] = Disk(f)
  /\ shown /\ op.pc = "publish" =>
       op.batch = resume /\ \A f \in Files : f \notin op.bad /\ (f \in op.good => f \notin dirty)

\* The inductive invariant of the watch pipeline.
WatchInv == TypeInv /\ ResumeInv /\ BatchInv /\ StaleInv /\ WorkInv /\ ShownInv
---------------------------------------------------------------------------
\* The maximum of a set of positions is one of them and none is larger.
LEMMA MaxPosition ==
  ASSUME NEW n \in Nat, NEW T \in SUBSET (1 .. n), T # {}
  PROVE  Max(T) \in T /\ \A y \in T : y <= Max(T)
<1> DEFINE R == {k \in Nat : \E x \in T : k = n - x}
<1>1. \A x \in T : n - x \in R
  OBVIOUS
<1>2. R \in SUBSET Nat /\ R # {}
  BY <1>1
<1>3. PICK k \in R : \A y \in R : k <= y
  BY <1>2, LeastNat
<1>4. PICK x \in T : k = n - x
  BY <1>3
<1>5. \A y \in T : x >= y
  <2> SUFFICES ASSUME NEW y \in T PROVE x >= y
    OBVIOUS
  <2>1. k <= n - y
    BY <1>1, <1>3
  <2> QED BY <1>4, <2>1
<1>6. Max(T) \in T /\ \A y \in T : Max(T) >= y
  BY <1>5 DEF Max
<1> QED BY <1>6

\* The latest news of f is that of the last event about it.
LEMMA LatestAt ==
  ASSUME NEW s \in Seq(Events), NEW q, NEW f, NEW j, LastAbout(s, f, j)
  PROVE  LatestIn(s, q, f) = s[j].news
<1> DEFINE A == {i \in DOMAIN s : s[i].path = f}
<1>1. DOMAIN s = 1 .. Len(s) /\ Len(s) \in Nat
  BY LenProperties
<1>2. A \in SUBSET (1 .. Len(s)) /\ j \in A
  BY <1>1 DEF LastAbout
<1>3. Max(A) \in A /\ j <= Max(A)
  BY <1>1, <1>2, MaxPosition
<1>4. Max(A) <= j
  BY <1>1, <1>3 DEF LastAbout
<1>5. Max(A) = j
  BY <1>1, <1>2, <1>3, <1>4
<1> QED BY <1>2, <1>5 DEF LatestIn

\* Without an event about f the queue's entry stands.
LEMMA LatestNone ==
  ASSUME NEW s \in Seq(Events), NEW q, NEW f, \A k \in 1 .. Len(s) : s[k].path # f
  PROVE  LatestIn(s, q, f) = q[f]
<1>1. DOMAIN s = 1 .. Len(s)
  BY LenProperties
<1> QED BY <1>1 DEF LatestIn

\* If some event is about f there is a last one.
LEMMA LatestExists ==
  ASSUME NEW s \in Seq(Events), NEW f, NEW i \in 1 .. Len(s), s[i].path = f
  PROVE  \E j : LastAbout(s, f, j)
<1> DEFINE A == {k \in 1 .. Len(s) : s[k].path = f}
<1>1. Len(s) \in Nat
  BY LenProperties
<1>2. Max(A) \in A /\ \A y \in A : y <= Max(A)
  BY <1>1, MaxPosition
<1>3. LastAbout(s, f, Max(A))
  BY <1>2 DEF LastAbout
<1> QED BY <1>3

\* The latest news is news.
LEMMA LatestType ==
  ASSUME NEW s \in Seq(Events), NEW q \in [Files -> News], NEW f \in Files
  PROVE  LatestIn(s, q, f) \in News
<1>1. CASE \A k \in 1 .. Len(s) : s[k].path # f
  BY <1>1, LatestNone
<1>2. CASE \E k \in 1 .. Len(s) : s[k].path = f
  <2>1. PICK j : LastAbout(s, f, j)
    BY <1>2, LatestExists
  <2>2. LatestIn(s, q, f) = s[j].news
    BY <2>1, LatestAt
  <2>3. s[j] \in Events
    BY <2>1, ElementOfSeq DEF LastAbout
  <2> QED BY <2>2, <2>3 DEF Events
<1> QED BY <1>1, <1>2

\* One more event is the latest of its path and of no other.
LEMMA LatestAppend ==
  ASSUME NEW s \in Seq(Events), NEW e \in Events, NEW q, NEW f
  PROVE  LatestIn(Append(s, e), q, f) = IF e.path = f THEN e.news ELSE LatestIn(s, q, f)
<1> DEFINE t == Append(s, e)  n == Len(s)
<1>1. /\ t \in Seq(Events) /\ Len(t) = n + 1 /\ t[n + 1] = e /\ n \in Nat
      /\ \A i \in 1 .. n : t[i] = s[i]
  BY AppendProperties, LenProperties
<1> HIDE DEF t
<1>2. CASE e.path = f
  <2>1. LastAbout(t, f, n + 1)
    BY <1>1, <1>2 DEF LastAbout
  <2>2. LatestIn(t, q, f) = t[n + 1].news
    BY <1>1, <2>1, LatestAt
  <2> QED BY <1>1, <1>2, <2>2 DEF t
<1>3. CASE e.path # f /\ \A k \in 1 .. n : s[k].path # f
  <2>1. \A k \in 1 .. Len(t) : t[k].path # f
    BY <1>1, <1>3
  <2>2. LatestIn(t, q, f) = q[f] /\ LatestIn(s, q, f) = q[f]
    BY <1>1, <1>3, <2>1, LatestNone
  <2> QED BY <1>3, <2>2 DEF t
<1>4. CASE e.path # f /\ \E k \in 1 .. n : s[k].path = f
  <2>1. PICK j : LastAbout(s, f, j)
    BY <1>4, LatestExists
  <2>2. j \in 1 .. n /\ j \in 1 .. Len(t) /\ t[j] = s[j] /\ s[j].path = f
    BY <1>1, <2>1 DEF LastAbout
  <2>5. LastAbout(t, f, j)
    <3> SUFFICES ASSUME NEW k \in 1 .. Len(t), t[k].path = f PROVE k <= j
      BY <2>2 DEF LastAbout
    <3>1. k # n + 1
      BY <1>1, <1>4
    <3>2. k \in 1 .. n /\ t[k] = s[k]
      BY <1>1, <3>1
    <3> QED BY <2>1, <3>2 DEF LastAbout
  <2>3. LatestIn(s, q, f) = s[j].news
    BY <2>1, LatestAt
  <2>4. LatestIn(t, q, f) = t[j].news
    BY <1>1, <2>5, LatestAt
  <2> QED BY <1>4, <2>2, <2>3, <2>4 DEF t
<1> QED BY <1>2, <1>3, <1>4

\* Events forwarded in two parts tell what they tell in one.
LEMMA LatestSplit ==
  ASSUME NEW s \in Seq(Events), NEW t \in Seq(Events), NEW q, NEW r, NEW f,
         r[f] = LatestIn(s, q, f)
  PROVE  LatestIn(t, r, f) = LatestIn(s \o t, q, f)
<1> DEFINE u == s \o t  m == Len(s)  n == Len(t)
<1>1. /\ u \in Seq(Events) /\ Len(u) = m + n /\ m \in Nat /\ n \in Nat
      /\ \A i \in 1 .. m + n : u[i] = IF i <= m THEN s[i] ELSE t[i - m]
  BY ConcatProperties, LenProperties
<1> HIDE DEF u
<1>2. CASE \E k \in 1 .. n : t[k].path = f
  <2>1. PICK j : LastAbout(t, f, j)
    BY <1>2, LatestExists
  <2>a. j \in 1 .. n /\ t[j].path = f /\ j + m \in 1 .. m + n /\ ~(j + m <= m) /\ (j + m) - m = j
    BY <1>1, <2>1 DEF LastAbout
  <2>2. j + m \in 1 .. Len(u) /\ u[j + m] = t[j]
    BY <1>1, <2>a
  <2>3. \A k \in 1 .. Len(u) : u[k].path = f => k <= j + m
    <3> SUFFICES ASSUME NEW k \in 1 .. Len(u), u[k].path = f, k > m PROVE k <= j + m
      BY <1>1, <2>a
    <3>1. k - m \in 1 .. n /\ u[k] = t[k - m]
      BY <1>1
    <3>2. k - m <= j
      BY <2>1, <3>1 DEF LastAbout
    <3> QED BY <1>1, <2>a, <3>2
  <2>b. LastAbout(u, f, j + m)
    BY <2>2, <2>3, <2>a DEF LastAbout
  <2>4. LatestIn(u, q, f) = u[j + m].news
    BY <1>1, <2>b, LatestAt
  <2>5. LatestIn(t, r, f) = t[j].news
    BY <2>1, LatestAt
  <2> QED BY <2>2, <2>4, <2>5 DEF u
<1>3. CASE (\A k \in 1 .. n : t[k].path # f) /\ \A k \in 1 .. m : s[k].path # f
  <2>1. \A k \in 1 .. Len(u) : u[k].path # f
    <3> SUFFICES ASSUME NEW k \in 1 .. Len(u) PROVE u[k].path # f
      OBVIOUS
    <3>1. CASE k <= m
      <4>1. k \in 1 .. m /\ u[k] = s[k]
        BY <1>1, <3>1
      <4> QED BY <1>3, <4>1
    <3>2. CASE k > m
      <4>1. k - m \in 1 .. n /\ u[k] = t[k - m]
        BY <1>1, <3>2
      <4> QED BY <1>3, <4>1
    <3> QED BY <1>1, <3>1, <3>2
  <2>2. LatestIn(u, q, f) = q[f] /\ LatestIn(s, q, f) = q[f] /\ LatestIn(t, r, f) = r[f]
    BY <1>1, <1>3, <2>1, LatestNone
  <2> QED BY <2>2 DEF u
<1>4. CASE (\A k \in 1 .. n : t[k].path # f) /\ \E k \in 1 .. m : s[k].path = f
  <2>1. PICK j : LastAbout(s, f, j)
    BY <1>4, LatestExists
  <2>2. j \in 1 .. m /\ j \in 1 .. Len(u) /\ u[j] = s[j] /\ s[j].path = f
    BY <1>1, <2>1 DEF LastAbout
  <2>3. \A k \in 1 .. Len(u) : u[k].path = f => k <= j
    <3> SUFFICES ASSUME NEW k \in 1 .. Len(u), u[k].path = f PROVE k <= j
      OBVIOUS
    <3>1. CASE k <= m
      <4>1. k \in 1 .. m /\ u[k] = s[k]
        BY <1>1, <3>1
      <4> QED BY <2>1, <4>1 DEF LastAbout
    <3>2. CASE k > m
      <4>1. k - m \in 1 .. n /\ u[k] = t[k - m]
        BY <1>1, <3>2
      <4> QED BY <1>4, <4>1
    <3> QED BY <1>1, <3>1, <3>2
  <2>b. LastAbout(u, f, j)
    BY <2>2, <2>3 DEF LastAbout
  <2>4. LatestIn(u, q, f) = u[j].news
    BY <1>1, <2>b, LatestAt
  <2>5. LatestIn(s, q, f) = s[j].news
    BY <2>1, LatestAt
  <2>6. LatestIn(t, r, f) = r[f]
    BY <1>4, LatestNone
  <2> QED BY <2>2, <2>4, <2>5, <2>6 DEF u
<1> QED BY <1>2, <1>3, <1>4

---------------------------------------------------------------------------
\* insert_inner keeps the queue within its capacity, never clears the flag, and
\* stores the event unless it sets the flag.
LEMMA Insertion ==
  ASSUME NEW q, Sound(q), NEW e \in Events
  PROVE  /\ Sound(InsertInner(q, e))
         /\ q.rescan => InsertInner(q, e).rescan
         /\ \/ InsertInner(q, e).rescan
            \/ InsertInner(q, e).entries = [q.entries EXCEPT ![e.path] = e.news]
<1> DEFINE r == [q EXCEPT !.entries[e.path] = e.news]
<1>0. e.path \in Files /\ e.news \in News /\ e.news # "none" /\ q.entries \in [Files -> News]
      /\ q.rescan \in BOOLEAN
  BY DEF Events, Sound, Queues
<1>1. Capacity \in Nat /\ Cardinality(Queued(q.entries)) \in Nat
  BY WatchAssumption, FS_CardinalityType DEF Sound
<1>2. CASE q.entries[e.path] # "none" \/ Cardinality(Queued(q.entries)) < Capacity
  <2>1. InsertInner(q, e) = r
    BY <1>2 DEF InsertInner
  <2>2. r \in Queues /\ r.rescan = q.rescan /\ r.entries = [q.entries EXCEPT ![e.path] = e.news]
    BY <1>0 DEF Sound, Queues
  <2>3. Queued(r.entries) = Queued(q.entries) \cup {e.path}
    BY <1>0, <2>2 DEF Queued
  <2>4. IsFiniteSet(Queued(r.entries)) /\ Cardinality(Queued(r.entries)) <= Capacity
    <3>1. CASE e.path \in Queued(q.entries)
      <4>1. Queued(r.entries) = Queued(q.entries)
        BY <2>3, <3>1
      <4> QED BY <4>1 DEF Sound
    <3>2. CASE e.path \notin Queued(q.entries)
      <4>1. Cardinality(Queued(q.entries)) < Capacity
        BY <1>0, <1>2, <3>2 DEF Queued
      <4>2. /\ IsFiniteSet(Queued(r.entries))
            /\ Cardinality(Queued(r.entries)) = Cardinality(Queued(q.entries)) + 1
        BY <2>3, <3>2, FS_AddElement DEF Sound
      <4> QED BY <1>1, <4>1, <4>2
    <3> QED BY <3>1, <3>2
  <2> HIDE DEF r
  <2> QED BY <2>1, <2>2, <2>4 DEF Sound
<1>3. CASE ~(q.entries[e.path] # "none" \/ Cardinality(Queued(q.entries)) < Capacity)
  <2>1. InsertInner(q, e) = [q EXCEPT !.rescan = TRUE]
    BY <1>3 DEF InsertInner
  <2> DEFINE p == [q EXCEPT !.rescan = TRUE]
  <2>2. p \in Queues /\ p.rescan = TRUE /\ p.entries = q.entries
    BY DEF Sound, Queues
  <2> HIDE DEF p
  <2>3. InsertInner(q, e) = p
    BY <2>1 DEF p
  <2> QED BY <2>2, <2>3 DEF Sound
<1> QED BY <1>2, <1>3

\* Inserting a batch is inserting its events one after the other.
LEMMA InsertedSteps ==
  ASSUME NEW q, NEW events, Len(events) \in Nat
  PROVE  \E h : /\ h[0] = q
                /\ \A i \in 1 .. Len(events) : h[i] = InsertInner(h[i - 1], events[i])
                /\ Inserted(q, events) = h[Len(events)]
<1> DEFINE n == Len(events)
           Defines(g, m) == g = [i \in 0 .. m |-> IF i = 0 THEN q
                                                  ELSE InsertInner(g[i - 1], events[i])]
           B == {m \in Nat : m <= n /\ ~\E g : Defines(g, m)}
<1>1. B = {}
  <2> SUFFICES ASSUME B # {} PROVE FALSE
    OBVIOUS
  <2>1. PICK m \in B : \A y \in B : m <= y
    BY LeastNat
  <2>2. m \in Nat /\ m <= n /\ ~\E g : Defines(g, m)
    BY <2>1
  <2>3. CASE m = 0
    <3> DEFINE g == [i \in 0 .. 0 |-> q]
    <3>1. Defines(g, 0)
      OBVIOUS
    <3> QED BY <2>2, <2>3, <3>1
  <2>4. CASE m > 0
    <3>a. m - 1 \in Nat /\ m - 1 <= n /\ ~(m <= m - 1)
      BY <2>2, <2>4
    <3>1. m - 1 \notin B
      BY <2>1, <3>a
    <3>2. \E g : Defines(g, m - 1)
      BY <3>1, <3>a
    <3>3. PICK g : Defines(g, m - 1)
      BY <3>2
    <3> DEFINE k == [i \in 0 .. m |-> IF i = m THEN InsertInner(g[m - 1], events[m]) ELSE g[i]]
    <3>4. \A i \in 0 .. m - 1 : g[i] = IF i = 0 THEN q ELSE InsertInner(g[i - 1], events[i])
      BY <3>3
    <3>5. \A i \in 0 .. m - 1 : k[i] = g[i]
      BY <2>2
    <3>6. k[m] = InsertInner(g[m - 1], events[m])
      BY <2>2
    <3>7. \A i \in 0 .. m : k[i] = IF i = 0 THEN q ELSE InsertInner(k[i - 1], events[i])
      <4> SUFFICES ASSUME NEW i \in 0 .. m
                   PROVE  k[i] = IF i = 0 THEN q ELSE InsertInner(k[i - 1], events[i])
        OBVIOUS
      <4> HIDE DEF k
      <4>1. CASE i = m
        <5>1. m - 1 \in 0 .. m - 1 /\ m # 0
          BY <2>2, <2>4
        <5> QED BY <3>5, <3>6, <4>1, <5>1
      <4>2. CASE i # m /\ i # 0
        <5>1. i \in 0 .. m - 1 /\ i - 1 \in 0 .. m - 1
          BY <2>2, <4>2
        <5> QED BY <3>4, <3>5, <4>2, <5>1
      <4>3. CASE i = 0
        <5>1. 0 \in 0 .. m - 1
          BY <2>2, <2>4
        <5> QED BY <3>4, <3>5, <4>3, <5>1
      <4> QED BY <4>1, <4>2, <4>3
    <3>8. Defines(k, m)
      BY <3>7
    <3> QED BY <2>2, <3>8
  <2> QED BY <2>2, <2>3, <2>4
<1>2. \E g : Defines(g, n)
  BY <1>1
<1> DEFINE h == CHOOSE g : Defines(g, n)
<1>3. Defines(h, n)
  BY <1>2
<1>4. Inserted(q, events) = h[n]
  BY DEF Inserted
<1> HIDE DEF h
<1>5. h[0] = q /\ \A i \in 1 .. n : h[i] = InsertInner(h[i - 1], events[i])
  BY <1>3
<1> QED BY <1>4, <1>5

\* After a batch the queue is within its capacity and, unless it is flagged, has
\* the latest news of every file ("the last event's deletion flag wins").
LEMMA InsertedQueue ==
  ASSUME NEW q, Sound(q), NEW events \in Seq(Events)
  PROVE  /\ Sound(Inserted(q, events))
         /\ \/ Inserted(q, events).rescan
            \/ \A f \in Files : Inserted(q, events).entries[f] = LatestIn(events, q.entries, f)
<1> DEFINE n == Len(events)
<1>0. n \in Nat /\ \A i \in 1 .. n : events[i] \in Events
  BY LenProperties, ElementOfSeq
<1>1. PICK h : /\ h[0] = q
               /\ \A i \in 1 .. n : h[i] = InsertInner(h[i - 1], events[i])
               /\ Inserted(q, events) = h[n]
  BY <1>0, InsertedSteps
<1> DEFINE Told(i) == \A f \in Files : h[i].entries[f] = LatestIn(SubSeq(events, 1, i), q.entries, f)
           B == {i \in Nat : i <= n /\ ~(Sound(h[i]) /\ (h[i].rescan \/ Told(i)))}
<1>2. \A i \in 0 .. n : SubSeq(events, 1, i) \in Seq(Events)
  BY <1>0, SubSeqProperties
<1>3. \A i \in 1 .. n : SubSeq(events, 1, i) = Append(SubSeq(events, 1, i - 1), events[i])
  BY <1>0
<1>4. B = {}
  <2> SUFFICES ASSUME B # {} PROVE FALSE
    OBVIOUS
  <2>1. PICK m \in B : \A y \in B : m <= y
    BY LeastNat
  <2>2. m \in Nat /\ m <= n /\ ~(Sound(h[m]) /\ (h[m].rescan \/ Told(m)))
    BY <2>1
  <2>3. CASE m = 0
    <3>1. SubSeq(events, 1, 0) = <<>>
      BY <1>0
    <3>2. \A f \in Files : LatestIn(<<>>, q.entries, f) = q.entries[f]
      BY DEF LatestIn
    <3>3. Told(0)
      BY <1>1, <3>1, <3>2
    <3> QED BY <1>1, <2>2, <2>3, <3>3
  <2>4. CASE m > 0
    <3>1. m - 1 \in 0 .. n /\ m \in 1 .. n /\ m - 1 \notin B
      BY <2>1, <2>2, <2>4
    <3>2. Sound(h[m - 1]) /\ (h[m - 1].rescan \/ Told(m - 1))
      BY <3>1
    <3>3. h[m] = InsertInner(h[m - 1], events[m]) /\ events[m] \in Events
      BY <1>0, <1>1, <3>1
    <3>4. /\ Sound(h[m])
          /\ h[m - 1].rescan => h[m].rescan
          /\ \/ h[m].rescan
             \/ h[m].entries = [h[m - 1].entries EXCEPT ![events[m].path] = events[m].news]
      <4> DEFINE p == h[m - 1]  e == events[m]
      <4>1. Sound(p) /\ e \in Events
        BY <3>2, <3>3
      <4> HIDE DEF p, e
      <4>2. /\ Sound(InsertInner(p, e))
            /\ p.rescan => InsertInner(p, e).rescan
            /\ \/ InsertInner(p, e).rescan
               \/ InsertInner(p, e).entries = [p.entries EXCEPT ![e.path] = e.news]
        BY <4>1, Insertion
      <4> QED BY <3>3, <4>2 DEF p, e
    <3>5. ASSUME ~h[m].rescan PROVE Told(m)
      <4> SUFFICES ASSUME NEW f \in Files
                   PROVE  h[m].entries[f] = LatestIn(SubSeq(events, 1, m), q.entries, f)
        OBVIOUS
      <4>1. h[m - 1].entries[f] = LatestIn(SubSeq(events, 1, m - 1), q.entries, f)
        BY <3>2, <3>4, <3>5
      <4>2. LatestIn(SubSeq(events, 1, m), q.entries, f) =
              IF events[m].path = f THEN events[m].news
              ELSE LatestIn(SubSeq(events, 1, m - 1), q.entries, f)
        <5> DEFINE s == SubSeq(events, 1, m - 1)
        <5>1. s \in Seq(Events) /\ SubSeq(events, 1, m) = Append(s, events[m])
          BY <1>2, <1>3, <3>1
        <5> HIDE DEF s
        <5>2. LatestIn(Append(s, events[m]), q.entries, f) =
                IF events[m].path = f THEN events[m].news ELSE LatestIn(s, q.entries, f)
          BY <3>3, <5>1, LatestAppend
        <5> QED BY <5>1, <5>2 DEF s
      <4>3. h[m - 1].entries \in [Files -> News]
        BY <3>2 DEF Sound, Queues
      <4> QED BY <3>4, <3>5, <4>1, <4>2, <4>3
    <3> QED BY <2>2, <3>4, <3>5
  <2> QED BY <2>2, <2>3, <2>4
<1>5. Sound(h[n]) /\ (h[n].rescan \/ Told(n))
  BY <1>0, <1>4
<1>6. SubSeq(events, 1, n) = events
  BY SubSeqFull
<1> QED BY <1>1, <1>5, <1>6

---------------------------------------------------------------------------
\* The states of the operation that holds the runtime mutex.
OpRecords == [pc : {"idle", "start", "take", "detect", "publish"}, rescan : BOOLEAN,
              batch : [Files -> News], good : SUBSET Files, bad : SUBSET Files]

\* LatestNews in terms of LatestIn, now and after a step.
LEMMA NewsOf ==
  ASSUME NEW f
  PROVE  /\ LatestNews(f) = LatestIn(accumulated \o channel, entries, f)
         /\ LatestNews(f)' = LatestIn(accumulated' \o channel', entries', f)
BY DEF LatestNews, LatestIn, About, OnTheWay

\* Where events and entries stay, the latest news stays.
LEMMA NewsSame ==
  ASSUME NEW f, UNCHANGED <<accumulated, channel, entries>>
  PROVE  LatestNews(f)' = LatestNews(f)
<1>1. accumulated' \o channel' = accumulated \o channel /\ entries' = entries
  OBVIOUS
<1> QED BY <1>1, NewsOf

\* The latest news of a file is news.
LEMMA NewsType ==
  ASSUME TypeInv, NEW f \in Files
  PROVE  LatestNews(f) \in News
<1>1. accumulated \o channel \in Seq(Events) /\ entries \in [Files -> News]
  BY ConcatProperties DEF TypeInv, WatchTypeOK
<1>2. LatestIn(accumulated \o channel, entries, f) \in News
  BY <1>1, LatestType
<1> QED BY <1>2, NewsOf

\* What is true of a file is news of it, and either of two things.
LEMMA DiskNews ==
  ASSUME NEW f
  PROVE  /\ Disk(f) \in News \ {"none"} /\ Disk(f)' \in News \ {"none"}
         /\ Disk(f) = (IF f \in present THEN "changed" ELSE "deleted")
         /\ Disk(f)' = (IF f \in present' THEN "changed" ELSE "deleted")
BY DEF Disk, News

\* extend keeps the queue sound and flagged once flagged; an unflagged queue has
\* the latest news of the batch.
LEMMA Extended ==
  ASSUME TypeInv, NEW events \in Seq(Events), Extend(events)
  PROVE  /\ entries' \in [Files -> News] /\ rescan' \in BOOLEAN
         /\ IsFiniteSet(Queued(entries)') /\ Cardinality(Queued(entries)') <= Capacity
         /\ rescan => rescan'
         /\ rescan' \/ \A f \in Files : entries'[f] = LatestIn(events, entries, f)
<1> DEFINE q == [entries |-> entries, rescan |-> rescan]
<1>1. q \in Queues /\ q.entries = entries /\ q.rescan = rescan
  BY DEF TypeInv, WatchTypeOK, Queues
<1>2. Sound(q)
  BY <1>1 DEF Sound, TypeInv, WatchTypeOK
<1>3. /\ rescan => entries' = q.entries /\ rescan' = q.rescan
      /\ ~rescan => entries' = Inserted(q, events).entries /\ rescan' = Inserted(q, events).rescan
  BY DEF Extend
<1> HIDE DEF q
<1>4. /\ Sound(Inserted(q, events))
      /\ \/ Inserted(q, events).rescan
         \/ \A f \in Files : Inserted(q, events).entries[f] = LatestIn(events, q.entries, f)
  BY <1>2, InsertedQueue
<1>5. \E p : Sound(p) /\ entries' = p.entries /\ rescan' = p.rescan
  BY <1>2, <1>3, <1>4
<1>6. PICK p : Sound(p) /\ entries' = p.entries /\ rescan' = p.rescan
  BY <1>5
<1>7. /\ entries' \in [Files -> News] /\ rescan' \in BOOLEAN
      /\ IsFiniteSet(Queued(entries)') /\ Cardinality(Queued(entries)') <= Capacity
  <2>1. Queued(entries)' = Queued(p.entries)
    BY <1>6 DEF Queued
  <2> QED BY <1>6, <2>1 DEF Sound, Queues
<1>8. rescan' \/ \A f \in Files : entries'[f] = LatestIn(events, entries, f)
  BY <1>1, <1>3, <1>4
<1>9. rescan => rescan'
  BY <1>1, <1>3
<1> QED BY <1>7, <1>8, <1>9

\* Receiving an event and the debounce tick move events towards the queue: unless
\* the queue is flagged no file's latest news changes.
LEMMA Forwarded ==
  ASSUME TypeInv, DebounceTick \/ \E due \in BOOLEAN : Receive(due)
  PROVE  /\ accumulated' \in Seq(Events) /\ channel' \in Seq(Events) /\ Len(channel') <= ChannelCapacity
         /\ debounced' \in BOOLEAN
         /\ entries' \in [Files -> News] /\ rescan' \in BOOLEAN
         /\ IsFiniteSet(Queued(entries)') /\ Cardinality(Queued(entries)') <= Capacity
         /\ rescan => rescan'
         /\ rescan' \/ \A f \in Files : LatestNews(f)' = LatestNews(f)
         /\ UNCHANGED <<diskVars, overflow, runVars>>
<1>0. /\ accumulated \in Seq(Events) /\ channel \in Seq(Events) /\ Len(channel) <= ChannelCapacity
      /\ Len(channel) \in Nat /\ ChannelCapacity \in Nat
  BY WatchAssumption, LenProperties DEF TypeInv, WatchTypeOK
<1>1. CASE DebounceTick
  <2>1. /\ Extend(accumulated) /\ accumulated' = <<>> /\ debounced' = FALSE
        /\ UNCHANGED <<diskVars, channel, overflow, runVars>>
    BY <1>1 DEF DebounceTick
  <2>2. /\ entries' \in [Files -> News] /\ rescan' \in BOOLEAN
        /\ IsFiniteSet(Queued(entries)') /\ Cardinality(Queued(entries)') <= Capacity
        /\ rescan => rescan'
        /\ rescan' \/ \A f \in Files : entries'[f] = LatestIn(accumulated, entries, f)
    BY <1>0, <2>1, Extended
  <2>3. ASSUME ~rescan', NEW f \in Files PROVE LatestNews(f)' = LatestNews(f)
    <3>1. entries'[f] = LatestIn(accumulated, entries, f)
      BY <2>2, <2>3
    <3>2. LatestIn(channel, entries', f) = LatestIn(accumulated \o channel, entries, f)
      BY <1>0, <3>1, LatestSplit
    <3>3. accumulated' \o channel' = channel
      BY <1>0, <2>1, ConcatEmptySeq
    <3> QED BY <3>2, <3>3, NewsOf
  <2>4. accumulated' \in Seq(Events) /\ channel' \in Seq(Events) /\ Len(channel') <= ChannelCapacity
    BY <1>0, <2>1
  <2>5. debounced' \in BOOLEAN
    BY <2>1
  <2> QED BY <2>1, <2>2, <2>3, <2>4, <2>5
<1>2. CASE \E due \in BOOLEAN : Receive(due)
  <2>1. PICK due \in BOOLEAN : Receive(due)
    BY <1>2
  <2> DEFINE ev == Append(accumulated, Head(channel))
  <2>2. /\ channel # <<>> /\ channel' = Tail(channel) /\ debounced' = ~due
        /\ due => Extend(ev) /\ accumulated' = <<>>
        /\ ~due => accumulated' = ev /\ UNCHANGED <<entries, rescan>>
        /\ UNCHANGED <<diskVars, overflow, runVars>>
    BY <2>1 DEF Receive, queueVars
  <2>3. /\ ev \in Seq(Events) /\ channel' \in Seq(Events) /\ Len(channel') <= ChannelCapacity
        /\ ev \o channel' = accumulated \o channel
    <3>1. /\ Head(channel) \in Events /\ Tail(channel) \in Seq(Events)
          /\ Len(Tail(channel)) = Len(channel) - 1
          /\ channel = <<Head(channel)>> \o Tail(channel)
      BY <1>0, <2>2, HeadTailProperties
    <3>2. ev = accumulated \o <<Head(channel)>> /\ ev \in Seq(Events)
      BY <1>0, <3>1, AppendIsConcat, AppendProperties
    <3>3. ev \o Tail(channel) = accumulated \o (<<Head(channel)>> \o Tail(channel))
      <4>1. <<Head(channel)>> \in Seq(Events)
        BY <3>1
      <4> DEFINE e == <<Head(channel)>>  t == Tail(channel)
      <4>2. e \in Seq(Events) /\ t \in Seq(Events)
        BY <3>1, <4>1
      <4> HIDE DEF e, t
      <4>3. (accumulated \o e) \o t = accumulated \o (e \o t)
        BY <1>0, <4>2, ConcatAssociative
      <4> QED BY <3>2, <4>3 DEF e, t
    <3> QED BY <1>0, <2>2, <3>1, <3>2, <3>3
  <2> HIDE DEF ev
  <2>4. CASE due
    <3>2. /\ entries' \in [Files -> News] /\ rescan' \in BOOLEAN
          /\ IsFiniteSet(Queued(entries)') /\ Cardinality(Queued(entries)') <= Capacity
          /\ rescan => rescan'
          /\ rescan' \/ \A f \in Files : entries'[f] = LatestIn(ev, entries, f)
      BY <2>2, <2>3, <2>4, Extended
    <3>3. ASSUME ~rescan', NEW f \in Files PROVE LatestNews(f)' = LatestNews(f)
      <4>1. entries'[f] = LatestIn(ev, entries, f)
        BY <3>2, <3>3
      <4>2. LatestIn(channel', entries', f) = LatestIn(ev \o channel', entries, f)
        <5> DEFINE c == channel'  r == entries'
        <5>1. ev \in Seq(Events) /\ c \in Seq(Events) /\ r[f] = LatestIn(ev, entries, f)
          BY <2>3, <4>1
        <5> HIDE DEF c, r
        <5>2. LatestIn(c, r, f) = LatestIn(ev \o c, entries, f)
          BY <5>1, LatestSplit
        <5> QED BY <5>2 DEF c, r
      <4>3. accumulated' \o channel' = channel'
        BY <2>2, <2>3, <2>4, ConcatEmptySeq
      <4> QED BY <2>3, <4>2, <4>3, NewsOf
    <3>4. accumulated' = <<>>
      BY <2>2, <2>4
    <3>5. accumulated' \in Seq(Events)
      BY <3>4
    <3>6. debounced' \in BOOLEAN
      BY <2>2
    <3> QED BY <2>2, <2>3, <3>2, <3>3, <3>5, <3>6
  <2>5. CASE ~due
    <3>1. accumulated' = ev /\ entries' = entries /\ rescan' = rescan
      BY <2>2, <2>5
    <3>2. \A f \in Files : LatestNews(f)' = LatestNews(f)
      BY <2>3, <3>1, NewsOf
    <3>3. debounced' \in BOOLEAN
      BY <2>2
    <3>4. Queued(entries)' = Queued(entries)
      BY <3>1 DEF Queued
    <3> QED BY <2>2, <2>3, <3>1, <3>2, <3>3, <3>4 DEF TypeInv, WatchTypeOK
  <2> QED BY <2>4, <2>5
<1> QED BY <1>1, <1>2

---------------------------------------------------------------------------
\* The four exceptions of NoSilentLoss.
Excused(f) ==
  \/ op.pc \in {"take", "detect"} /\ failures' > failures
  \/ op.pc = "take" /\ rescan /\ ~op.rescan
  \/ op.pc = "detect" /\ Scanning /\ LatestNews(f) \notin {"none", Disk(f)}
  \/ f \in hidden'

\* A step loses no file that was covered, the exceptions apart.
Kept(f) == Covered(f) /\ ~Covered(f)' => Excused(f)

\* A step of the event loop that keeps the latest news, or asks for a scan, keeps
\* the invariant and loses nothing.
LEMMA SameRest ==
  ASSUME WatchInv, UNCHANGED <<diskVars, runVars>>, overflow' \in BOOLEAN,
         accumulated' \in Seq(Events), channel' \in Seq(Events), Len(channel') <= ChannelCapacity,
         debounced' \in BOOLEAN, entries' \in [Files -> News], rescan' \in BOOLEAN,
         IsFiniteSet(Queued(entries)'), Cardinality(Queued(entries)') <= Capacity,
         overflow \/ rescan => overflow' \/ rescan',
         overflow' \/ rescan' \/ \A f \in Files : LatestNews(f)' = LatestNews(f)
  PROVE  WatchInv' /\ \A f \in Files : Kept(f)
<1>0. UNCHANGED <<present, dirty, hidden, changes, wanted, op, resume, shown, failures>>
  BY DEF diskVars, runVars
<1>1. TypeInv'
  BY <1>0 DEF WatchInv, TypeInv, WatchTypeOK
<1>2. ResumeInv'
  BY <1>0 DEF WatchInv, ResumeInv
<1>3. \A f \in Files : Disk(f)' = Disk(f)
  BY <1>0 DEF Disk
<1>4. BatchInv'
  BY <1>0, <1>3 DEF WatchInv, BatchInv
<1>5. \A f \in Files : Stale(f)' <=> Stale(f)
  BY <1>0 DEF Stale
<1>6. StaleInv'
  BY <1>0, <1>5 DEF WatchInv, StaleInv
<1>8. WorkInv' /\ ShownInv'
  BY <1>0, <1>3 DEF WatchInv, WorkInv, ShownInv
<1>7. ASSUME NEW f \in Files PROVE Kept(f)
  <2>1. CASE overflow' \/ rescan'
    BY <2>1, <1>0 DEF Kept, Excused, Covered
  <2>2. CASE LatestNews(f)' = LatestNews(f) /\ ~(overflow' \/ rescan')
    <3>1. Undone(f)' <=> Undone(f)
      BY <1>0, <2>2 DEF Undone, Scanning
    <3>2. (op.pc = "detect" /\ Scanning)' <=> op.pc = "detect" /\ Scanning
      BY <1>0 DEF Scanning
    <3> QED BY <1>0, <1>3, <2>2, <3>1, <3>2 DEF Kept, Covered
  <2> QED BY <2>1, <2>2
<1> QED BY <1>1, <1>2, <1>4, <1>6, <1>7, <1>8 DEF WatchInv

\* The steps of the event loop.
LEMMA LoopStep ==
  ASSUME WatchInv, PropagateOverflow \/ DebounceTick \/ \E due \in BOOLEAN : Receive(due)
  PROVE  WatchInv' /\ \A f \in Files : Kept(f)
<1>0. TypeInv
  BY DEF WatchInv
<1>1. CASE PropagateOverflow
  <2>1. /\ overflow' = FALSE /\ rescan' = TRUE
        /\ UNCHANGED <<diskVars, channel, accumulated, debounced, entries, runVars>>
    BY <1>1 DEF PropagateOverflow
  <2>2. overflow' \in BOOLEAN /\ rescan' \in BOOLEAN /\ rescan'
    BY <2>1
  <2>3. /\ accumulated' \in Seq(Events) /\ channel' \in Seq(Events) /\ Len(channel') <= ChannelCapacity
        /\ debounced' \in BOOLEAN /\ entries' \in [Files -> News]
        /\ IsFiniteSet(Queued(entries)') /\ Cardinality(Queued(entries)') <= Capacity
    <3>1. Queued(entries)' = Queued(entries)
      BY <2>1 DEF Queued
    <3> QED BY <1>0, <2>1, <3>1 DEF TypeInv, WatchTypeOK
  <2>4. UNCHANGED <<diskVars, runVars>>
    BY <2>1
  <2> QED BY <2>2, <2>3, <2>4, SameRest
<1>2. CASE DebounceTick \/ \E due \in BOOLEAN : Receive(due)
  <2>1. /\ accumulated' \in Seq(Events) /\ channel' \in Seq(Events) /\ Len(channel') <= ChannelCapacity
        /\ debounced' \in BOOLEAN
        /\ entries' \in [Files -> News] /\ rescan' \in BOOLEAN
        /\ IsFiniteSet(Queued(entries)') /\ Cardinality(Queued(entries)') <= Capacity
        /\ rescan => rescan'
        /\ rescan' \/ \A f \in Files : LatestNews(f)' = LatestNews(f)
        /\ UNCHANGED <<diskVars, overflow, runVars>>
    BY <1>0, <1>2, Forwarded
  <2>2. overflow' \in BOOLEAN /\ overflow' = overflow /\ UNCHANGED <<diskVars, runVars>>
    BY <1>0, <2>1 DEF TypeInv, WatchTypeOK
  <2> QED BY <2>1, <2>2, SameRest
<1> QED BY <1>1, <1>2

\* A change of a file: its event is the latest news, or the overflow is noted.
LEMMA ChangeStep ==
  ASSUME WatchInv, NEW f \in Files, Change(f)
  PROVE  WatchInv' /\ \A g \in Files : Kept(g)
<1>0. TypeInv /\ accumulated \in Seq(Events) /\ channel \in Seq(Events)
      /\ Len(channel) \in Nat /\ ChannelCapacity \in Nat
  BY WatchAssumption, LenProperties DEF WatchInv, TypeInv, WatchTypeOK
<1> DEFINE e == [path |-> f, news |-> Disk(f)']
<1>1. e \in Events /\ e.path = f /\ e.news = Disk(f)'
  BY DiskNews DEF Events
<1>2. /\ changes' = changes + 1 /\ present' \in {present \cup {f}, present \ {f}}
      /\ dirty' = dirty \cup {f} /\ hidden' = hidden \ {f}
      /\ op' = [op EXCEPT !.good = @ \ {f}]
      /\ UNCHANGED <<accumulated, debounced, entries, rescan, wanted, resume, shown, failures>>
      /\ Len(channel) < ChannelCapacity => channel' = Append(channel, e) /\ overflow' = overflow
      /\ ~(Len(channel) < ChannelCapacity) => channel' = channel /\ overflow' = TRUE
  BY DEF Change, queueVars
<1> HIDE DEF e
<1>3. /\ op' \in OpRecords /\ op'.pc = op.pc /\ op'.rescan = op.rescan /\ op'.batch = op.batch
      /\ op'.good = op.good \ {f} /\ op'.bad = op.bad
  BY <1>0, <1>2 DEF TypeInv, WatchTypeOK, OpRecords
<1>4. channel' \in Seq(Events) /\ Len(channel') <= ChannelCapacity
  <2>1. CASE Len(channel) < ChannelCapacity
    <3>1. channel' = Append(channel, e)
      BY <1>2, <2>1
    <3>2. Append(channel, e) \in Seq(Events) /\ Len(Append(channel, e)) = Len(channel) + 1
      BY <1>0, <1>1, AppendProperties
    <3> QED BY <1>0, <2>1, <3>1, <3>2
  <2>2. CASE ~(Len(channel) < ChannelCapacity)
    BY <1>0, <1>2, <2>2 DEF TypeInv, WatchTypeOK
  <2> QED BY <2>1, <2>2
<1>5. overflow' \in BOOLEAN /\ (overflow => overflow')
  <2>1. overflow \in BOOLEAN
    BY <1>0 DEF TypeInv, WatchTypeOK
  <2>2. overflow' = overflow \/ overflow' = TRUE
    BY <1>2
  <2> QED BY <2>1, <2>2, Zenon
<1>6. \A g \in Files : g # f => LatestNews(g)' = LatestNews(g)
  <2> SUFFICES ASSUME NEW g \in Files, g # f PROVE LatestNews(g)' = LatestNews(g)
    OBVIOUS
  <2>1. CASE Len(channel) < ChannelCapacity
    <3>a. accumulated' = accumulated /\ channel' = Append(channel, e)
      BY <1>2, <2>1
    <3>b. accumulated \o Append(channel, e) = Append(accumulated \o channel, e)
      BY <1>0, <1>1
    <3>1. accumulated' \o channel' = Append(accumulated \o channel, e)
      BY <3>a, <3>b
    <3>2. accumulated \o channel \in Seq(Events)
      BY <1>0, ConcatProperties
    <3>3. LatestIn(Append(accumulated \o channel, e), entries, g) = LatestIn(accumulated \o channel, entries, g)
      <4> DEFINE s == accumulated \o channel
      <4>1. s \in Seq(Events) /\ e.path # g
        BY <1>1, <3>2
      <4> HIDE DEF s
      <4>2. LatestIn(Append(s, e), entries, g) = IF e.path = g THEN e.news ELSE LatestIn(s, entries, g)
        BY <1>1, <4>1, LatestAppend
      <4> QED BY <4>1, <4>2 DEF s
    <3> QED BY <1>2, <3>1, <3>3, NewsOf
  <2>2. CASE ~(Len(channel) < ChannelCapacity)
    BY <1>2, <2>2, NewsSame
  <2> QED BY <2>1, <2>2
<1>7. overflow' \/ LatestNews(f)' = Disk(f)'
  <2>1. CASE Len(channel) < ChannelCapacity
    <3>a. accumulated' = accumulated /\ channel' = Append(channel, e)
      BY <1>2, <2>1
    <3>b. accumulated \o Append(channel, e) = Append(accumulated \o channel, e)
      BY <1>0, <1>1
    <3>1. accumulated' \o channel' = Append(accumulated \o channel, e)
      BY <3>a, <3>b
    <3>2. accumulated \o channel \in Seq(Events)
      BY <1>0, ConcatProperties
    <3>3. LatestIn(Append(accumulated \o channel, e), entries, f) = e.news
      BY <1>1, <3>2, LatestAppend
    <3> QED BY <1>1, <1>2, <3>1, <3>3, NewsOf
  <2>2. CASE ~(Len(channel) < ChannelCapacity)
    BY <1>2, <2>2
  <2> QED BY <2>1, <2>2
<1>8. TypeInv'
  <2>1. Queued(entries)' = Queued(entries)
    BY <1>2 DEF Queued
  <2>2. present' \subseteq Files /\ dirty' \subseteq Files /\ hidden' \subseteq dirty' /\ changes' \in Nat
    BY <1>0, <1>2 DEF TypeInv, WatchTypeOK
  <2>3. /\ accumulated' \in Seq(Events) /\ debounced' \in BOOLEAN /\ rescan' \in BOOLEAN
        /\ entries' \in [Files -> News] /\ wanted' \in BOOLEAN /\ resume' \in [Files -> News]
        /\ shown' \in BOOLEAN /\ failures' \in Nat /\ IsFiniteSet(Queued(entries)') /\ Cardinality(Queued(entries)') <= Capacity
    BY <1>0, <1>2, <2>1 DEF TypeInv, WatchTypeOK
  <2> QED BY <1>3, <1>4, <1>5, <2>2, <2>3 DEF TypeInv, WatchTypeOK, OpRecords
<1>9. ResumeInv'
  BY <1>2, <1>3 DEF WatchInv, ResumeInv
<1>10. \A g \in Files : g # f => /\ Disk(g)' = Disk(g) /\ (g \in present' <=> g \in present)
                                 /\ (g \in op'.good <=> g \in op.good)
                                 /\ (g \in hidden' <=> g \in hidden) /\ (g \in dirty' <=> g \in dirty)
  BY <1>2, <1>3 DEF Disk
<1>11. BatchInv'
  BY <1>2, <1>3, <1>10 DEF WatchInv, BatchInv
<1>12. StaleInv'
  <2> SUFFICES ASSUME op'.pc = "publish", ~shown', NEW g \in Files, Stale(g)'
               PROVE  overflow' \/ rescan' \/ LatestNews(g)' # "none"
    BY DEF StaleInv
  <2>1. CASE g = f
    BY <1>7, <2>1, DiskNews
  <2>2. CASE g # f
    <3>1. Stale(g)
      BY <1>3, <1>10, <2>2 DEF Stale
    <3> QED BY <1>2, <1>3, <1>5, <1>6, <2>2, <3>1 DEF WatchInv, StaleInv
  <2> QED BY <2>1, <2>2
<1>14. WorkInv' /\ ShownInv'
  BY <1>2, <1>3, <1>10 DEF WatchInv, WorkInv, ShownInv
<1>13. ASSUME NEW g \in Files PROVE Kept(g)
  <2>1. CASE g = f
    BY <1>2, <1>7, <2>1 DEF Kept, Covered
  <2>2. CASE g # f
    <3>0. Scanning' <=> Scanning
      BY <1>3 DEF Scanning
    <3>1. Undone(g)' <=> Undone(g)
      BY <1>2, <1>3, <1>6, <1>10, <2>2, <3>0 DEF Undone
    <3> QED BY <1>2, <1>3, <1>5, <1>6, <1>10, <2>2, <3>0, <3>1 DEF Kept, Covered
  <2> QED BY <2>1, <2>2
<1> QED BY <1>8, <1>9, <1>11, <1>12, <1>13, <1>14 DEF WatchInv

---------------------------------------------------------------------------
\* The steps that decide on an operation or begin one, explicit changes included.
LEMMA StartStep ==
  ASSUME WatchInv,
         \/ BackgroundDecides \/ ForceUpdate \/ BeginWanted \/ RunCommitUpdate
         \/ \E f \in Files : RunExplicitChanges(f)
  PROVE  WatchInv' /\ \A f \in Files : Kept(f)
<1>0. TypeInv
  BY DEF WatchInv
<1>1. CASE BackgroundDecides \/ ForceUpdate
  <2>1. /\ wanted' = TRUE /\ (debounced' = debounced \/ debounced' = FALSE)
        /\ UNCHANGED <<present, dirty, hidden, changes, channel, overflow, accumulated, entries,
                       rescan, op, resume, shown, failures>>
    BY <1>1 DEF BackgroundDecides, ForceUpdate, diskVars, loopVars, queueVars
  <2>2. wanted' \in BOOLEAN /\ debounced' \in BOOLEAN
    <3>1. debounced \in BOOLEAN
      BY <1>0 DEF TypeInv, WatchTypeOK
    <3> QED BY <2>1, <3>1, Zenon
  <2>3. TypeInv'
    <3>1. Queued(entries)' = Queued(entries)
      BY <2>1 DEF Queued
    <3> QED BY <1>0, <2>1, <2>2, <3>1 DEF TypeInv, WatchTypeOK
  <2>4. \A f \in Files : /\ LatestNews(f)' = LatestNews(f) /\ Disk(f)' = Disk(f)
                         /\ (Stale(f)' <=> Stale(f))
    BY <2>1, NewsSame DEF Disk, Stale
  <2>5. ResumeInv' /\ BatchInv' /\ StaleInv' /\ WorkInv' /\ ShownInv'
    BY <2>1, <2>4 DEF WatchInv, ResumeInv, BatchInv, StaleInv, WorkInv, ShownInv
  <2>6. ASSUME NEW f \in Files PROVE Kept(f)
    <3>1. (Undone(f)' <=> Undone(f)) /\ (Scanning' <=> Scanning)
      BY <2>1, <2>4 DEF Undone, Scanning
    <3> QED BY <2>1, <2>4, <3>1 DEF Kept, Covered
  <2> QED BY <2>3, <2>5, <2>6 DEF WatchInv
<1>2. CASE \/ BeginWanted \/ RunCommitUpdate \/ \E f \in Files : RunExplicitChanges(f)
  <2>1. /\ op.pc = "idle" /\ op' = [op EXCEPT !.pc = "start"]
        /\ wanted' = wanted \/ wanted' = FALSE
        /\ UNCHANGED <<present, dirty, hidden, changes, channel, overflow, accumulated, debounced,
                       resume, shown, failures>>
    BY <1>2 DEF BeginWanted, RunCommitUpdate, RunExplicitChanges, Begin, diskVars, loopVars
  <2>2. /\ op' \in OpRecords /\ op'.pc = "start"
    BY <1>0, <2>1 DEF TypeInv, WatchTypeOK, OpRecords
  <2>3. /\ entries' \in [Files -> News] /\ rescan' \in BOOLEAN
        /\ IsFiniteSet(Queued(entries)') /\ Cardinality(Queued(entries)') <= Capacity
        /\ rescan => rescan'
        /\ rescan' \/ \A f \in Files : LatestNews(f)' \in {LatestNews(f), Disk(f)}
    <3>1. CASE BeginWanted \/ RunCommitUpdate
      <4>1. entries' = entries /\ rescan' = rescan
        BY <3>1 DEF BeginWanted, RunCommitUpdate, queueVars
      <4>2. Queued(entries)' = Queued(entries)
        BY <4>1 DEF Queued
      <4>3. \A f \in Files : LatestNews(f)' = LatestNews(f)
        BY <2>1, <4>1, NewsSame
      <4> QED BY <1>0, <4>1, <4>2, <4>3 DEF TypeInv, WatchTypeOK
    <3>2. CASE \E f \in Files : RunExplicitChanges(f)
      <4>1. PICK f \in Files : RunExplicitChanges(f)
        BY <3>2
      <4> DEFINE e == [path |-> f, news |-> Disk(f)]
      <4>2. e \in Events /\ e.path = f /\ e.news = Disk(f)
        BY DiskNews DEF Events
      <4>3. Extend(<<e>>)
        BY <4>1 DEF RunExplicitChanges
      <4> HIDE DEF e
      <4>4. <<e>> \in Seq(Events)
        BY <4>2
      <4>5. /\ entries' \in [Files -> News] /\ rescan' \in BOOLEAN
            /\ IsFiniteSet(Queued(entries)') /\ Cardinality(Queued(entries)') <= Capacity
            /\ rescan => rescan'
            /\ rescan' \/ \A g \in Files : entries'[g] = LatestIn(<<e>>, entries, g)
        BY <1>0, <4>3, <4>4, Extended
      <4>6. ASSUME ~rescan', NEW g \in Files PROVE LatestNews(g)' \in {LatestNews(g), Disk(g)}
        <5> DEFINE s == accumulated \o channel
        <5>1. s \in Seq(Events)
          BY <1>0, ConcatProperties DEF TypeInv, WatchTypeOK
        <5>2. LatestNews(g) = LatestIn(s, entries, g) /\ LatestNews(g)' = LatestIn(s, entries', g)
          BY <2>1, NewsOf
        <5> HIDE DEF s
        <5>3. entries'[g] = LatestIn(<<e>>, entries, g)
          BY <4>5, <4>6
        <5>4. LatestIn(<<e>>, entries, g) = IF e.path = g THEN e.news ELSE entries[g]
          <6> DEFINE t == <<>>
          <6>1. <<e>> = Append(t, e) /\ t \in Seq(Events)
            OBVIOUS
          <6>2. LatestIn(t, entries, g) = entries[g]
            BY DEF LatestIn
          <6> HIDE DEF t
          <6>3. LatestIn(Append(t, e), entries, g) =
                  IF e.path = g THEN e.news ELSE LatestIn(t, entries, g)
            BY <4>2, <6>1, LatestAppend
          <6> QED BY <6>1, <6>2, <6>3
        <5>5. CASE \A k \in 1 .. Len(s) : s[k].path # g
          <6>1. LatestIn(s, entries, g) = entries[g] /\ LatestIn(s, entries', g) = entries'[g]
            BY <5>1, <5>5, LatestNone
          <6> QED BY <4>2, <5>2, <5>3, <5>4, <6>1
        <5>6. CASE \E k \in 1 .. Len(s) : s[k].path = g
          <6>1. PICK j : LastAbout(s, g, j)
            BY <5>1, <5>6, LatestExists
          <6>2. LatestIn(s, entries, g) = s[j].news /\ LatestIn(s, entries', g) = s[j].news
            BY <5>1, <6>1, LatestAt
          <6> QED BY <5>2, <6>2
        <5> QED BY <5>5, <5>6
      <4> QED BY <4>5, <4>6
    <3> QED BY <1>2, <3>1, <3>2
  <2>4. wanted' \in BOOLEAN
    <3>1. wanted \in BOOLEAN
      BY <1>0 DEF TypeInv, WatchTypeOK
    <3> QED BY <2>1, <3>1, Zenon
  <2>5. TypeInv'
    BY <1>0, <2>1, <2>2, <2>3, <2>4 DEF TypeInv, WatchTypeOK, OpRecords
  <2>6. ResumeInv' /\ BatchInv' /\ StaleInv' /\ WorkInv' /\ ShownInv'
    BY <2>1, <2>2 DEF WatchInv, ResumeInv, BatchInv, StaleInv, WorkInv, ShownInv, Disk
  <2>7. ASSUME NEW f \in Files PROVE Kept(f)
    <3>0. Disk(f)' = Disk(f)
      BY <2>1 DEF Disk
    <3>1. CASE rescan'
      BY <2>1, <3>1 DEF Kept, Covered, Excused
    <3>2. CASE LatestNews(f)' = Disk(f)
      BY <3>0, <3>2 DEF Kept, Covered
    <3>3. CASE ~rescan' /\ LatestNews(f)' = LatestNews(f)
      <4>1. Undone(f)' => Undone(f)
        BY <2>1, <2>2, <3>3 DEF Undone
      <4> QED BY <2>1, <2>2, <2>3, <3>0, <3>3, <4>1 DEF Kept, Covered
    <3> QED BY <2>3, <3>1, <3>2, <3>3
  <2> QED BY <2>5, <2>6, <2>7 DEF WatchInv
<1> QED BY <1>1, <1>2

---------------------------------------------------------------------------
\* The runtime between operations.
LEMMA IdleRecord == IdleOp \in OpRecords /\ IdleOp.pc = "idle"
<1>1. NoNews \in [Files -> News]
  BY DEF NoNews, News
<1> QED BY <1>1 DEF IdleOp, OpRecords

\* A step of the operation that leaves disk, event loop and queue alone keeps the
\* types and the latest news.
LEMMA OpTyping ==
  ASSUME TypeInv, op' \in OpRecords, resume' \in [Files -> News], failures' \in Nat,
         shown' \in BOOLEAN, UNCHANGED <<diskVars, loopVars, queueVars, wanted>>
  PROVE  /\ TypeInv'
         /\ \A f \in Files : LatestNews(f)' = LatestNews(f) /\ Disk(f)' = Disk(f)
<1>1. UNCHANGED <<present, dirty, hidden, changes, channel, overflow, accumulated, debounced,
                  entries, rescan, wanted>>
  BY DEF diskVars, loopVars, queueVars
<1>2. Queued(entries)' = Queued(entries)
  BY <1>1 DEF Queued
<1>3. TypeInv'
  BY <1>1, <1>2 DEF TypeInv, WatchTypeOK, OpRecords
<1>4. \A f \in Files : LatestNews(f)' = LatestNews(f) /\ Disk(f)' = Disk(f)
  BY <1>1, NewsSame DEF Disk
<1> QED BY <1>3, <1>4

\* An operation that is rejected, or dies before its files are checkpointed.
LEMMA EndStep ==
  ASSUME WatchInv, OpYields \/ OpDies
  PROVE  WatchInv' /\ \A f \in Files : Kept(f)
<1>0. TypeInv
  BY DEF WatchInv
<1>1. /\ op.pc \in {"start", "take", "detect"} /\ failures' = failures + 1 /\ op' = IdleOp
      /\ UNCHANGED <<diskVars, loopVars, queueVars, wanted, resume, shown>>
  BY DEF OpYields, OpDies, Fails
<1>2. op' \in OpRecords /\ op'.pc = "idle"
  BY <1>1, IdleRecord
<1>3. failures' \in Nat /\ failures' > failures /\ resume' \in [Files -> News] /\ shown' \in BOOLEAN
  BY <1>0, <1>1 DEF TypeInv, WatchTypeOK
<1>4. TypeInv' /\ \A f \in Files : LatestNews(f)' = LatestNews(f) /\ Disk(f)' = Disk(f)
  BY <1>0, <1>1, <1>2, <1>3, OpTyping
<1>5. ResumeInv' /\ BatchInv' /\ StaleInv' /\ WorkInv' /\ ShownInv'
  BY <1>1, <1>2, <1>4 DEF WatchInv, ResumeInv, BatchInv, StaleInv, WorkInv, ShownInv, diskVars
<1>6. ASSUME NEW f \in Files PROVE Kept(f)
  <2>1. CASE op.pc # "start"
    BY <1>1, <1>3, <2>1 DEF Kept, Excused
  <2>2. CASE op.pc = "start"
    <3>1. UNCHANGED <<present, dirty, hidden, overflow, rescan, resume, shown>>
      BY <1>1 DEF diskVars, loopVars, queueVars
    <3>2. Undone(f)' => Undone(f)
      BY <1>2, <1>4, <3>1 DEF Undone
    <3> QED BY <1>2, <1>4, <2>2, <3>1, <3>2 DEF Kept, Covered
  <2> QED BY <2>1, <2>2
<1> QED BY <1>4, <1>5, <1>6 DEF WatchInv

\* An operation resumes a failed one, or reads the queue's flag.
LEMMA BeginStep ==
  ASSUME WatchInv, OpResumes \/ OpResumesShown \/ OpReadsFlag
  PROVE  WatchInv' /\ \A f \in Files : Kept(f)
<1>0. TypeInv /\ op \in OpRecords /\ resume \in [Files -> News]
  BY DEF WatchInv, TypeInv, WatchTypeOK, OpRecords
<1>1. op.pc = "start" /\ UNCHANGED <<diskVars, loopVars, queueVars, wanted, resume, shown, failures>>
  BY DEF OpResumes, OpResumesShown, OpReadsFlag
<1>2. UNCHANGED <<present, dirty, hidden, overflow, rescan>>
  BY <1>1 DEF diskVars, loopVars, queueVars
<1>3. failures' \in Nat /\ resume' \in [Files -> News] /\ shown' \in BOOLEAN
  BY <1>0, <1>1 DEF TypeInv, WatchTypeOK
<1>4. CASE OpReadsFlag
  <2>1. op' = [op EXCEPT !.pc = "take", !.rescan = rescan] /\ resume = NoNews
    BY <1>4 DEF OpReadsFlag
  <2>2. op' \in OpRecords /\ op'.pc = "take"
    BY <1>0, <2>1 DEF OpRecords, TypeInv, WatchTypeOK
  <2>3. TypeInv' /\ \A f \in Files : LatestNews(f)' = LatestNews(f) /\ Disk(f)' = Disk(f)
    BY <1>0, <1>1, <1>3, <2>2, OpTyping
  <2>4. ResumeInv' /\ BatchInv' /\ StaleInv'
    BY <1>1, <2>1, <2>2 DEF ResumeInv, BatchInv, StaleInv, NoNews
  <2>6. ~shown
    BY <2>1 DEF WatchInv, WorkInv, NoNews
  <2>7. WorkInv' /\ ShownInv'
    BY <1>1, <2>2, <2>6 DEF WorkInv, ShownInv
  <2>5. ASSUME NEW f \in Files PROVE Kept(f)
    <3>1. Undone(f)' => Undone(f)
      BY <1>1, <1>2, <2>2, <2>3 DEF Undone
    <3> QED BY <1>1, <1>2, <2>2, <2>3, <3>1 DEF Kept, Covered
  <2> QED BY <2>3, <2>4, <2>5, <2>7 DEF WatchInv
<1>5. CASE OpResumes
  <2> DEFINE bad == {f \in present : resume[f] = "deleted"}
             good == Queued(resume) \ bad
             batch == [f \in Files |-> IF f \in good THEN Disk(f) ELSE resume[f]]
  <2>1. /\ op' = [op EXCEPT !.pc = "publish", !.good = good, !.bad = bad, !.batch = batch]
        /\ resume # NoNews /\ ~shown
    BY <1>5 DEF OpResumes
  <2>2. bad \subseteq Files /\ good \subseteq Files /\ batch \in [Files -> News]
    BY <1>0, DiskNews DEF TypeInv, WatchTypeOK, Queued
  <2>3. \A f \in Files : /\ f \in bad <=> f \in present /\ resume[f] = "deleted"
                         /\ f \in good <=> resume[f] # "none" /\ f \notin bad
                         /\ batch[f] = IF f \in good THEN Disk(f) ELSE resume[f]
    BY DEF Queued
  <2> HIDE DEF bad, good, batch
  <2>4. /\ op' \in OpRecords /\ op'.pc = "publish" /\ op'.good = good /\ op'.bad = bad
        /\ op'.batch = batch
    BY <1>0, <2>1, <2>2 DEF OpRecords
  <2>5. TypeInv' /\ \A f \in Files : LatestNews(f)' = LatestNews(f) /\ Disk(f)' = Disk(f)
    BY <1>0, <1>1, <1>3, <2>4, OpTyping
  <2>6. ResumeInv'
    BY <1>1, <2>3, <2>4, DiskNews DEF ResumeInv
  <2>7. BatchInv'
    BY <1>2, <2>3, <2>4, <2>5 DEF BatchInv
  <2>8. StaleInv'
    BY <1>2, <2>3, <2>4 DEF StaleInv, Stale
  <2>9. ASSUME NEW f \in Files PROVE Kept(f)
    <3>1. Undone(f)' => Undone(f)
      BY <1>1, <1>2, <2>1, <2>3, <2>4, <2>5 DEF Undone
    <3> QED BY <1>1, <1>2, <2>4, <2>5, <3>1 DEF Kept, Covered
  <2>10. WorkInv' /\ ShownInv'
    <3>1. \E f \in Files : resume[f] # "none"
      BY <1>0, <2>1 DEF NoNews
    <3> QED BY <1>1, <2>1, <2>3, <2>4, <3>1, DiskNews DEF WorkInv, ShownInv
  <2> QED BY <2>5, <2>6, <2>7, <2>8, <2>9, <2>10 DEF WatchInv
<1>6. CASE OpResumesShown
  <2> DEFINE good == Queued(resume) \ dirty
  <2>1. /\ op' = [op EXCEPT !.pc = "publish", !.good = good, !.bad = {}, !.batch = resume]
        /\ shown
    BY <1>6 DEF OpResumesShown
  <2>2. good \subseteq Files /\ \A f \in Files : f \in good <=> resume[f] # "none" /\ f \notin dirty
    BY DEF Queued
  <2> HIDE DEF good
  <2>3. /\ op' \in OpRecords /\ op'.pc = "publish" /\ op'.good = good /\ op'.bad = {}
        /\ op'.batch = resume
    BY <1>0, <2>1, <2>2 DEF OpRecords
  <2>4. TypeInv' /\ \A f \in Files : LatestNews(f)' = LatestNews(f) /\ Disk(f)' = Disk(f)
    BY <1>0, <1>1, <1>3, <2>3, OpTyping
  <2>5. ResumeInv'
    BY <1>1, <2>3 DEF ResumeInv
  <2>6. shown' /\ \A f \in Files : resume[f] # "none" /\ f \notin dirty => resume[f] = Disk(f)
    BY <1>1, <2>1 DEF WatchInv, ShownInv
  <2>7. BatchInv'
    BY <1>2, <2>2, <2>3, <2>4, <2>6 DEF BatchInv
  <2>8. StaleInv'
    BY <2>6 DEF StaleInv
  <2>9. WorkInv' /\ ShownInv'
    BY <1>1, <1>2, <2>1, <2>2, <2>3, <2>4, <2>6 DEF WatchInv, WorkInv, ShownInv
  <2>10. ASSUME NEW f \in Files PROVE Kept(f)
    <3>1. Undone(f)' => Undone(f)
      BY <1>1, <1>2, <2>3, <2>4 DEF Undone
    <3> QED BY <1>1, <1>2, <2>3, <2>4, <3>1 DEF Kept, Covered
  <2> QED BY <2>4, <2>5, <2>7, <2>8, <2>9, <2>10 DEF WatchInv
<1> QED BY <1>4, <1>5, <1>6

\* take: what leaves the queue is with the operation, and a flag that is cleared was
\* read before or is an exception.
LEMMA TakeStep ==
  ASSUME WatchInv, OpTakes
  PROVE  WatchInv' /\ \A f \in Files : Kept(f)
<1>0. TypeInv /\ op \in OpRecords /\ resume \in [Files -> News] /\ resume = NoNews
      /\ entries \in [Files -> News]
  BY DEF WatchInv, TypeInv, WatchTypeOK, OpRecords, ResumeInv, OpTakes
<1>1. /\ op.pc = "take" /\ op' = [op EXCEPT !.pc = "detect", !.batch = entries]
      /\ entries' = NoNews /\ rescan' = FALSE
      /\ UNCHANGED <<present, dirty, hidden, changes, channel, overflow, accumulated, debounced,
                     wanted, resume, shown, failures>>
  BY DEF OpTakes, diskVars, loopVars
<1>2. /\ op' \in OpRecords /\ op'.pc = "detect" /\ op'.batch = entries /\ op'.rescan = op.rescan
  BY <1>0, <1>1 DEF OpRecords
<1>3. Queued(entries)' = {} /\ entries' \in [Files -> News]
  BY <1>1 DEF Queued, NoNews, News
<1>4. IsFiniteSet(Queued(entries)') /\ Cardinality(Queued(entries)') <= Capacity
  BY <1>3, FS_EmptySet, WatchAssumption
<1>5. TypeInv'
  <2>1. rescan' \in BOOLEAN
    BY <1>1
  <2>2. /\ present' \subseteq Files /\ dirty' \subseteq Files /\ hidden' \subseteq dirty'
        /\ channel' \in Seq(Events) /\ Len(channel') <= ChannelCapacity /\ accumulated' \in Seq(Events)
        /\ overflow' \in BOOLEAN /\ debounced' \in BOOLEAN /\ wanted' \in BOOLEAN
        /\ resume' \in [Files -> News] /\ shown' \in BOOLEAN /\ changes' \in Nat /\ failures' \in Nat
    BY <1>0, <1>1 DEF TypeInv, WatchTypeOK
  <2> QED BY <1>2, <1>3, <1>4, <2>1, <2>2 DEF TypeInv, WatchTypeOK, OpRecords
<1>6. ResumeInv' /\ BatchInv' /\ StaleInv'
  BY <1>0, <1>1, <1>2 DEF ResumeInv, BatchInv, StaleInv, NoNews
<1>9. WorkInv' /\ ShownInv'
  BY <1>1, <1>2 DEF WatchInv, WorkInv, ShownInv
<1>7. ASSUME NEW f \in Files
      PROVE  \/ LatestNews(f)' = LatestNews(f) /\ LatestNews(f) # "none"
             \/ LatestNews(f)' = "none" /\ LatestNews(f) = entries[f]
  <2> DEFINE s == accumulated \o channel
             none == NoNews
  <2>1. s \in Seq(Events) /\ none[f] = "none"
    BY <1>0, ConcatProperties DEF TypeInv, WatchTypeOK, NoNews
  <2>2. LatestNews(f) = LatestIn(s, entries, f) /\ LatestNews(f)' = LatestIn(s, none, f)
    BY <1>1, NewsOf
  <2> HIDE DEF s, none
  <2>3. CASE \A k \in 1 .. Len(s) : s[k].path # f
    <3>1. LatestIn(s, entries, f) = entries[f] /\ LatestIn(s, none, f) = none[f]
      BY <2>1, <2>3, LatestNone
    <3> QED BY <2>1, <2>2, <3>1
  <2>4. CASE \E k \in 1 .. Len(s) : s[k].path = f
    <3>1. PICK j : LastAbout(s, f, j)
      BY <2>1, <2>4, LatestExists
    <3>2. LatestIn(s, entries, f) = s[j].news /\ LatestIn(s, none, f) = s[j].news
      BY <2>1, <3>1, LatestAt
    <3>3. s[j] \in Events
      BY <2>1, <3>1 DEF LastAbout
    <3>4. s[j].news # "none"
      BY <3>3 DEF Events
    <3> QED BY <2>2, <3>2, <3>4
  <2> QED BY <2>3, <2>4
<1>8. ASSUME NEW f \in Files PROVE Kept(f)
  <2> SUFFICES ASSUME Covered(f), ~Excused(f) PROVE Covered(f)'
    BY DEF Kept
  <2>0. Disk(f)' = Disk(f) /\ Disk(f) # "none"
    BY <1>1, DiskNews DEF Disk
  <2>1. rescan \/ op.rescan => Scanning'
    BY <1>1, <1>2 DEF Excused, Scanning
  <2>2. CASE f \notin hidden /\ (overflow \/ rescan \/ op.rescan)
    BY <1>1, <1>2, <2>1, <2>2 DEF Covered
  <2>3. CASE LatestNews(f) = Disk(f)
    BY <1>2, <1>7, <2>0, <2>3 DEF Covered
  <2>4. CASE f \notin dirty /\ ~Undone(f) /\ LatestNews(f) # Disk(f)
    <3>1. ~Undone(f)'
      <4> SUFFICES ASSUME Undone(f)' PROVE FALSE
        OBVIOUS
      <4>1. f \in present /\ resume'[f] # "deleted" /\ Disk(f) = "changed"
        BY <1>0, <1>1 DEF Undone, NoNews, Disk
      <4>2. LatestNews(f) \in News /\ LatestNews(f) # "deleted"
        BY <1>0, <2>4, <4>1, NewsType DEF Undone
      <4>3. LatestNews(f) = "none"
        BY <2>4, <4>1, <4>2 DEF News
      <4> QED BY <1>2, <1>7, <4>1, <4>3 DEF Undone
    <3> QED BY <1>1, <2>4, <3>1 DEF Covered
  <2>5. resume[f] = "none"
    BY <1>0 DEF NoNews
  <2> QED BY <1>1, <2>0, <2>2, <2>3, <2>4, <2>5 DEF Covered
<1> QED BY <1>5, <1>6, <1>8, <1>9 DEF WatchInv

\* Change detection, by scan or from the queue's paths, with unreadable files.
LEMMA DetectStep ==
  ASSUME WatchInv, NEW lost \in SUBSET Files, OpDetects(lost)
  PROVE  WatchInv' /\ \A f \in Files : Kept(f)
<1>0. TypeInv /\ op \in OpRecords /\ resume \in [Files -> News] /\ failures \in Nat
      /\ resume = NoNews /\ op.batch \in [Files -> News]
  BY DEF WatchInv, TypeInv, WatchTypeOK, OpRecords, ResumeInv, OpDetects
<1> DEFINE found == IF Scanning THEN ScanFinds ELSE Queued(op.batch)
           news == [f \in Files |-> IF f \notin found \ lost THEN "none"
                                    ELSE IF Scanning THEN Disk(f) ELSE op.batch[f]]
           good == {f \in Files : news[f] = Disk(f)}
           bad == {f \in present : news[f] = "deleted"}
           batch == [f \in Files |-> IF f \in good \cup bad THEN news[f] ELSE "none"]
<1>1. /\ op.pc = "detect"
      /\ op' = IF good \cup bad = {} THEN IdleOp
               ELSE [op EXCEPT !.pc = "publish", !.good = good, !.bad = bad, !.batch = batch]
      /\ UNCHANGED <<diskVars, loopVars, queueVars, wanted, resume, shown>>
      /\ lost = {} => failures' = failures
      /\ lost # {} => failures' = failures + 1
  BY DEF OpDetects, Fails
<1>2. UNCHANGED <<present, dirty, hidden, overflow, rescan>>
  BY <1>1 DEF diskVars, loopVars, queueVars
<1>3. ASSUME NEW f \in Files
      PROVE  /\ Scanning => (f \in found <=> f \in dirty \ hidden)
             /\ ~Scanning => (f \in found <=> op.batch[f] # "none")
             /\ news[f] = IF f \notin found \ lost THEN "none"
                          ELSE IF Scanning THEN Disk(f) ELSE op.batch[f]
  BY DEF ScanFinds, Queued
<1>4. news \in [Files -> News]
  BY <1>0, DiskNews DEF News
<1> HIDE DEF found, news
<1>5. good \subseteq Files /\ bad \subseteq Files /\ batch \in [Files -> News]
  BY <1>0, <1>4 DEF TypeInv, WatchTypeOK, News
<1>6. \A f \in Files : /\ f \in good <=> news[f] = Disk(f)
                       /\ f \in bad <=> f \in present /\ news[f] = "deleted"
                       /\ batch[f] = IF f \in good \cup bad THEN news[f] ELSE "none"
  OBVIOUS
<1> HIDE DEF good, bad, batch
<1>7. /\ op' \in OpRecords
      /\ \/ op'.pc = "idle" /\ good \cup bad = {}
         \/ /\ op'.pc = "publish" /\ op'.good = good /\ op'.bad = bad /\ op'.batch = batch
            /\ good \cup bad # {}
  <2>1. CASE good \cup bad = {}
    BY <1>1, <2>1, IdleRecord
  <2>2. CASE good \cup bad # {}
    <3>1. op' = [op EXCEPT !.pc = "publish", !.good = good, !.bad = bad, !.batch = batch]
      BY <1>1, <2>2
    <3> QED BY <1>0, <1>5, <2>2, <3>1 DEF OpRecords
  <2> QED BY <2>1, <2>2
<1>8. /\ failures' \in Nat /\ resume' \in [Files -> News] /\ (lost # {} => failures' > failures)
      /\ shown' \in BOOLEAN
  BY <1>0, <1>1 DEF TypeInv, WatchTypeOK
<1>9. TypeInv' /\ \A f \in Files : LatestNews(f)' = LatestNews(f) /\ Disk(f)' = Disk(f)
  BY <1>0, <1>1, <1>7, <1>8, OpTyping
<1>10. ResumeInv'
  BY <1>0, <1>1, <1>7 DEF ResumeInv, NoNews
<1>11. BatchInv'
  BY <1>2, <1>6, <1>7, <1>9, DiskNews DEF BatchInv
<1>12. StaleInv'
  BY <1>2, <1>6, <1>7 DEF StaleInv, Stale
<1>14. WorkInv' /\ ShownInv'
  <2>1. ~shown'
    BY <1>1 DEF WatchInv, ShownInv
  <2>2. ASSUME op'.pc = "publish" PROVE \E f \in Files : batch[f] # "none"
    <3>1. PICK f \in good \cup bad : TRUE
      BY <1>7, <2>2
    <3>2. f \in Files /\ batch[f] = news[f] /\ news[f] # "none"
      BY <1>5, <1>6, <3>1, DiskNews
    <3> QED BY <3>2
  <2> QED BY <1>7, <2>1, <2>2 DEF WorkInv, ShownInv
<1>13. ASSUME NEW f \in Files PROVE Kept(f)
  <2> SUFFICES ASSUME Covered(f), ~Excused(f) PROVE Covered(f)'
    BY DEF Kept
  <2>0. /\ lost = {} /\ f \notin hidden /\ resume[f] = "none" /\ resume'[f] = "none"
        /\ Scanning => LatestNews(f) \in {"none", Disk(f)}
    BY <1>0, <1>1, <1>2, <1>8 DEF Excused, NoNews
  <2>1. CASE LatestNews(f) = Disk(f) \/ overflow \/ rescan
    BY <1>2, <1>9, <2>0, <2>1 DEF Covered
  <2>2. CASE f \in good /\ LatestNews(f) = "none"
    BY <1>7, <1>9, <2>2 DEF Covered
  <2>3. ASSUME f \notin dirty, ~Undone(f) \/ (Scanning /\ LatestNews(f) = "none") PROVE Covered(f)'
    <3>1. ~Undone(f)'
      <4> SUFFICES ASSUME Undone(f)' PROVE FALSE
        OBVIOUS
      <4>1. f \in present /\ Disk(f) = "changed"
        BY <1>2 DEF Undone, Disk
      <4>2. LatestNews(f) # "deleted"
        BY <2>3, <4>1 DEF Undone
      <4>3. f \in bad
        BY <1>7, <1>9, <2>0, <4>2 DEF Undone
      <4>4. ~Scanning /\ op.batch[f] = "deleted"
        BY <1>3, <1>6, <4>1, <4>3
      <4> QED BY <1>1, <2>3, <4>1, <4>4 DEF Undone
    <3> QED BY <1>2, <2>3, <3>1 DEF Covered
  <2>4. CASE Scanning /\ LatestNews(f) = "none"
    <3>1. CASE f \in dirty
      <4>1. f \in good
        BY <1>3, <1>6, <2>0, <2>4, <3>1
      <4> QED BY <2>2, <2>4, <4>1
    <3>2. CASE f \notin dirty
      BY <2>3, <2>4, <3>2
    <3> QED BY <3>1, <3>2
  <2>5. CASE ~Scanning /\ LatestNews(f) = "none" /\ op.batch[f] = Disk(f)
    <3>1. f \in good
      BY <1>3, <1>6, <2>0, <2>5, DiskNews
    <3> QED BY <2>2, <2>5, <3>1
  <2> QED BY <1>1, <2>0, <2>1, <2>3, <2>4, <2>5, DiskNews DEF Covered
<1> QED BY <1>9, <1>10, <1>11, <1>12, <1>13, <1>14 DEF WatchInv

\* A file left to resume, without later news: the resumption has it right, or a scan
\* is due.
LEMMA Resumable ==
  ASSUME WatchInv, op.pc = "publish", ~shown, NEW f \in Files,
         resume[f] = "changed" \/ resume[f] = Disk(f), LatestNews(f) = "none"
  PROVE  \/ f \in op.good
         \/ overflow \/ rescan
<1>1. resume[f] # "none" /\ resume # NoNews
  BY DiskNews DEF NoNews
<1>2. op.batch[f] # "none" /\ (f \in op.bad => resume[f] = "deleted")
  BY <1>1 DEF WatchInv, ResumeInv
<1>3. f \in op.bad => f \notin present
  BY <1>2, DiskNews
<1> QED BY <1>2, <1>3 DEF WatchInv, StaleInv, Stale

\* An operation fails after its checkpoint: its files are left to resume.
LEMMA FailStep ==
  ASSUME WatchInv, OpFails
  PROVE  WatchInv' /\ \A f \in Files : Kept(f)
<1>0. TypeInv /\ BatchInv /\ op.batch \in [Files -> News] /\ failures \in Nat /\ shown \in BOOLEAN
  BY DEF WatchInv, TypeInv, WatchTypeOK
<1>1. /\ op.pc = "publish" /\ failures' = failures + 1 /\ resume' = op.batch /\ op' = IdleOp
      /\ UNCHANGED <<diskVars, loopVars, queueVars, wanted, shown>>
  BY DEF OpFails, Fails
<1>2. UNCHANGED <<present, dirty, hidden, overflow, rescan>>
  BY <1>1 DEF diskVars, loopVars, queueVars
<1>3. /\ op' \in OpRecords /\ op'.pc = "idle" /\ failures' \in Nat /\ resume' \in [Files -> News]
      /\ shown' \in BOOLEAN
  BY <1>0, <1>1, IdleRecord
<1>4. TypeInv' /\ \A f \in Files : LatestNews(f)' = LatestNews(f) /\ Disk(f)' = Disk(f)
  BY <1>0, <1>1, <1>3, OpTyping
<1>5. ResumeInv' /\ BatchInv' /\ StaleInv'
  BY <1>3 DEF ResumeInv, BatchInv, StaleInv
<1>7. WorkInv' /\ ShownInv'
  BY <1>1, <1>2, <1>3, <1>4 DEF WatchInv, WorkInv, ShownInv
<1>6. ASSUME NEW f \in Files PROVE Kept(f)
  <2> SUFFICES ASSUME Covered(f), f \notin hidden PROVE Covered(f)'
    BY <1>2 DEF Kept, Excused
  <2>1. CASE overflow \/ rescan \/ LatestNews(f) = Disk(f)
    BY <1>2, <1>4, <2>1 DEF Covered
  <2>2. CASE f \in op.good /\ LatestNews(f) = "none"
    <3>1. CASE ~shown
      BY <1>0, <1>1, <1>4, <2>2, <3>1 DEF Covered, BatchInv
    <3>2. CASE shown
      <4>1. f \notin dirty
        BY <1>1, <2>2, <3>2 DEF WatchInv, ShownInv
      <4>2. ~Undone(f)'
        BY <1>1, <1>3, <1>4, <2>2, <3>2 DEF Undone
      <4> QED BY <1>2, <4>1, <4>2 DEF Covered
    <3> QED BY <3>1, <3>2
  <2>3. CASE f \notin dirty /\ ~Undone(f)
    <3>1. ~Undone(f)'
      <4> SUFFICES ASSUME Undone(f)' PROVE FALSE
        OBVIOUS
      <4>1. f \in present /\ op.batch[f] = "deleted"
        BY <1>1, <1>2, <1>3, <1>4, <2>3 DEF Undone
      <4>2. f \notin op.good /\ f \notin op.bad
        BY <1>0, <1>1, <2>3, <4>1 DEF BatchInv, Undone, Disk
      <4> QED BY <1>0, <1>1, <2>3, <4>1, <4>2 DEF BatchInv
    <3> QED BY <1>2, <2>3, <3>1 DEF Covered
  <2>4. CASE ~shown /\ LatestNews(f) = "none" /\ (resume[f] = "changed" \/ resume[f] = Disk(f))
    BY <1>1, <2>1, <2>2, <2>4, Resumable
  <2> QED BY <1>1, <2>1, <2>2, <2>3, <2>4 DEF Covered
<1> QED BY <1>4, <1>5, <1>6, <1>7 DEF WatchInv

\* An operation publishes and records the hashes of what it published.
LEMMA PublishStep ==
  ASSUME WatchInv, OpPublishes
  PROVE  WatchInv' /\ \A f \in Files : Kept(f)
<1>0. TypeInv /\ BatchInv /\ op \in OpRecords
  BY DEF WatchInv, TypeInv, WatchTypeOK, OpRecords
<1>1. /\ op.pc = "publish" /\ op' = IdleOp /\ resume' = NoNews /\ shown' = FALSE
      /\ dirty' = (dirty \ op.good) \cup op.bad
      /\ hidden' = (hidden \ Queued(op.batch)) \cup (Rehashed \ op.good)
      /\ UNCHANGED <<present, changes, channel, overflow, accumulated, debounced, entries, rescan,
                     wanted, failures>>
  BY DEF OpPublishes, loopVars, queueVars
<1>2. op' \in OpRecords /\ op'.pc = "idle" /\ resume' \in [Files -> News] /\ shown' \in BOOLEAN
  BY <1>1, IdleRecord DEF NoNews, News
<1>3. dirty' \subseteq Files /\ hidden' \subseteq dirty'
  <2>1. /\ present \subseteq Files /\ dirty \subseteq Files /\ hidden \subseteq dirty
        /\ op.bad \subseteq Files
    BY <1>0 DEF TypeInv, WatchTypeOK, OpRecords
  <2>2. ASSUME NEW f \in hidden' PROVE f \in dirty'
    <3>1. CASE f \in hidden /\ f \notin Queued(op.batch)
      <4>1. f \in Files /\ op.batch[f] = "none"
        BY <2>1, <3>1 DEF Queued
      <4>2. f \notin op.good
        BY <1>0, <1>1, <4>1, DiskNews DEF BatchInv
      <4> QED BY <1>1, <2>1, <3>1, <4>2
    <3>2. CASE f \in Rehashed /\ f \notin op.good
      <4>1. f \in present /\ f \in Files /\ op.batch[f] = "changed"
        BY <2>1, <3>2 DEF Rehashed
      <4>2. f \notin op.bad
        BY <1>0, <1>1, <4>1 DEF BatchInv
      <4>3. f \in dirty
        BY <1>0, <1>1, <3>2, <4>1, <4>2 DEF BatchInv
      <4> QED BY <1>1, <3>2, <4>3
    <3> QED BY <1>1, <2>2, <3>1, <3>2
  <2> QED BY <1>1, <2>1, <2>2
<1>4. TypeInv'
  <2>1. Queued(entries)' = Queued(entries)
    BY <1>1 DEF Queued
  <2> QED BY <1>0, <1>1, <1>2, <1>3, <2>1 DEF TypeInv, WatchTypeOK, OpRecords
<1>5. ResumeInv' /\ BatchInv' /\ StaleInv' /\ WorkInv' /\ ShownInv'
  BY <1>1, <1>2 DEF ResumeInv, BatchInv, StaleInv, WorkInv, ShownInv
<1>6. ASSUME NEW f \in Files PROVE Kept(f)
  <2> SUFFICES ASSUME Covered(f), f \notin hidden' PROVE Covered(f)'
    BY DEF Kept, Excused
  <2>0. LatestNews(f)' = LatestNews(f) /\ Disk(f)' = Disk(f) /\ resume'[f] = "none"
    BY <1>1, NewsSame DEF Disk, NoNews
  <2>1. CASE overflow \/ rescan \/ LatestNews(f) = Disk(f)
    BY <1>1, <2>0, <2>1 DEF Covered
  <2>2. CASE f \in op.good /\ LatestNews(f) = "none"
    <3>1. f \notin dirty'
      BY <1>0, <1>1, <2>2 DEF BatchInv
    <3>2. ~Undone(f)'
      BY <1>2, <2>0, <2>2 DEF Undone
    <3> QED BY <3>1, <3>2 DEF Covered
  <2>3. CASE f \notin dirty /\ ~Undone(f)
    <3>1. f \notin op.bad
      <4> SUFFICES ASSUME f \in op.bad PROVE FALSE
        OBVIOUS
      <4>1. f \notin present
        BY <1>1, <2>3 DEF Undone
      <4>2. op.batch[f] = "deleted" /\ f \notin op.good
        BY <1>0, <1>1 DEF BatchInv
      <4> QED BY <1>0, <1>1, <2>3, <4>1, <4>2 DEF BatchInv
    <3>2. ~Undone(f)'
      BY <1>1, <1>2, <2>0, <2>3 DEF Undone
    <3> QED BY <1>1, <2>3, <3>1, <3>2 DEF Covered
  <2>4. CASE ~shown /\ LatestNews(f) = "none" /\ (resume[f] = "changed" \/ resume[f] = Disk(f))
    BY <1>1, <2>1, <2>2, <2>4, Resumable
  <2> QED BY <1>1, <2>1, <2>2, <2>3, <2>4 DEF Covered
<1> QED BY <1>4, <1>5, <1>6 DEF WatchInv

\* An operation fails once its generation is active, before its hashes are recorded.
LEMMA LateStep ==
  ASSUME WatchInv, OpFailsLate
  PROVE  WatchInv' /\ \A f \in Files : Kept(f)
<1>0. TypeInv /\ BatchInv /\ op \in OpRecords /\ failures \in Nat
  BY DEF WatchInv, TypeInv, WatchTypeOK, OpRecords
<1>1. /\ op.pc = "publish" /\ op' = IdleOp /\ resume' = op.batch /\ shown' = TRUE
      /\ dirty' = (dirty \ op.good) \cup op.bad /\ hidden' = hidden \ op.good
      /\ failures' = failures + 1
      /\ UNCHANGED <<present, changes, channel, overflow, accumulated, debounced, entries, rescan,
                     wanted>>
  BY DEF OpFailsLate, Fails, loopVars, queueVars
<1>2. /\ op' \in OpRecords /\ op'.pc = "idle" /\ resume' \in [Files -> News] /\ shown' \in BOOLEAN
      /\ failures' \in Nat
  BY <1>0, <1>1, IdleRecord DEF OpRecords
<1>3. dirty' \subseteq Files /\ hidden' \subseteq dirty'
  BY <1>0, <1>1 DEF TypeInv, WatchTypeOK, OpRecords
<1>4. TypeInv'
  <2>1. Queued(entries)' = Queued(entries)
    BY <1>1 DEF Queued
  <2> QED BY <1>0, <1>1, <1>2, <1>3, <2>1 DEF TypeInv, WatchTypeOK, OpRecords
<1>5. ResumeInv' /\ BatchInv' /\ StaleInv'
  BY <1>2 DEF ResumeInv, BatchInv, StaleInv
<1>6. \A f \in Files : LatestNews(f)' = LatestNews(f) /\ Disk(f)' = Disk(f)
  BY <1>1, NewsSame DEF Disk
<1>7. WorkInv' /\ ShownInv'
  <2>1. \E f \in Files : resume'[f] # "none"
    BY <1>1 DEF WatchInv, WorkInv
  <2>2. ASSUME NEW f \in Files, op.batch[f] # "none", f \notin dirty' PROVE op.batch[f] = Disk(f)
    BY <1>0, <1>1, <2>2 DEF BatchInv
  <2> QED BY <1>1, <1>2, <1>6, <2>1, <2>2 DEF WorkInv, ShownInv
<1>8. ASSUME NEW f \in Files PROVE Kept(f)
  <2> SUFFICES ASSUME Covered(f), f \notin hidden' PROVE Covered(f)'
    BY DEF Kept, Excused
  <2>0. shown'
    BY <1>1
  <2>1. CASE overflow \/ rescan \/ LatestNews(f) = Disk(f)
    BY <1>1, <1>6, <2>1 DEF Covered
  <2>2. CASE f \in op.good /\ LatestNews(f) = "none"
    <3>1. f \notin dirty'
      BY <1>0, <1>1, <2>2 DEF BatchInv
    <3>2. ~Undone(f)'
      BY <1>2, <1>6, <2>0, <2>2 DEF Undone
    <3> QED BY <3>1, <3>2 DEF Covered
  <2>3. CASE f \notin dirty /\ ~Undone(f)
    <3>1. f \notin op.bad
      <4> SUFFICES ASSUME f \in op.bad PROVE FALSE
        OBVIOUS
      <4>1. f \notin present
        BY <1>1, <2>3 DEF Undone
      <4>2. op.batch[f] = "deleted" /\ f \notin op.good
        BY <1>0, <1>1 DEF BatchInv
      <4> QED BY <1>0, <1>1, <2>3, <4>1, <4>2 DEF BatchInv
    <3>2. ~Undone(f)'
      BY <1>1, <1>2, <1>6, <2>0, <2>3 DEF Undone
    <3> QED BY <1>1, <2>3, <3>1, <3>2 DEF Covered
  <2>4. CASE ~shown /\ LatestNews(f) = "none" /\ (resume[f] = "changed" \/ resume[f] = Disk(f))
    BY <1>1, <2>1, <2>2, <2>4, Resumable
  <2> QED BY <1>1, <2>1, <2>2, <2>3, <2>4 DEF Covered
<1> QED BY <1>4, <1>5, <1>7, <1>8 DEF WatchInv
---------------------------------------------------------------------------
\* The invariant holds when watching starts on an index that agrees with the disk.
LEMMA InitInv == Init => WatchInv
<1> SUFFICES ASSUME Init PROVE WatchInv
  OBVIOUS
<1>1. op \in OpRecords /\ op.pc = "idle"
  BY IdleRecord DEF Init
<1>2. /\ NoNews \in [Files -> News] /\ Queued(entries) = {}
  BY DEF Init, NoNews, News, Queued
<1>3. IsFiniteSet(Queued(entries)) /\ Cardinality(Queued(entries)) <= Capacity
  BY <1>2, FS_EmptySet, WatchAssumption
<1>4. channel \in Seq(Events) /\ Len(channel) <= ChannelCapacity /\ accumulated \in Seq(Events)
  BY WatchAssumption DEF Init
<1>5. TypeInv
  BY <1>1, <1>2, <1>3, <1>4 DEF Init, TypeInv, WatchTypeOK, OpRecords
<1>6. ~shown
  BY DEF Init
<1> QED BY <1>1, <1>5, <1>6 DEF WatchInv, ResumeInv, BatchInv, StaleInv, WorkInv, ShownInv

\* A step of something else.
LEMMA StutterStep ==
  ASSUME WatchInv, UNCHANGED vars
  PROVE  WatchInv' /\ \A f \in Files : Kept(f)
<1>0. UNCHANGED <<present, dirty, hidden, changes, channel, overflow, accumulated, debounced,
                  entries, rescan, wanted, op, resume, shown, failures>>
  BY DEF vars, diskVars, loopVars, queueVars, runVars
<1>1. \A f \in Files : /\ LatestNews(f)' = LatestNews(f) /\ Disk(f)' = Disk(f)
                       /\ (Stale(f)' <=> Stale(f))
  BY <1>0, NewsSame DEF Disk, Stale
<1>2. TypeInv'
  <2>1. Queued(entries)' = Queued(entries)
    BY <1>0 DEF Queued
  <2> QED BY <1>0, <2>1 DEF WatchInv, TypeInv, WatchTypeOK
<1>3. ResumeInv' /\ BatchInv' /\ StaleInv' /\ WorkInv' /\ ShownInv'
  BY <1>0, <1>1 DEF WatchInv, ResumeInv, BatchInv, StaleInv, WorkInv, ShownInv
<1>4. ASSUME NEW f \in Files PROVE Kept(f)
  <2>1. (Undone(f)' <=> Undone(f)) /\ (Scanning' <=> Scanning)
    BY <1>0, <1>1 DEF Undone, Scanning
  <2> QED BY <1>0, <1>1, <2>1 DEF Kept, Covered
<1> QED BY <1>2, <1>3, <1>4 DEF WatchInv

\* Every step keeps the invariant and loses no covered file, the exceptions apart.
LEMMA WatchStep ==
  ASSUME WatchInv, [Next]_vars
  PROVE  WatchInv' /\ \A f \in Files : Kept(f)
<1>1. CASE UNCHANGED vars
  BY <1>1, StutterStep
<1>2. CASE \E f \in Files : Change(f)
  BY <1>2, ChangeStep
<1>3. CASE PropagateOverflow \/ DebounceTick \/ \E due \in BOOLEAN : Receive(due)
  BY <1>3, LoopStep
<1>4. CASE \/ BackgroundDecides \/ ForceUpdate \/ BeginWanted \/ RunCommitUpdate
           \/ \E f \in Files : RunExplicitChanges(f)
  BY <1>4, StartStep
<1>5. CASE OpYields \/ OpDies
  BY <1>5, EndStep
<1>6. CASE OpResumes \/ OpResumesShown \/ OpReadsFlag
  BY <1>6, BeginStep
<1>7. CASE OpTakes
  BY <1>7, TakeStep
<1>8. CASE \E lost \in SUBSET Files : OpDetects(lost)
  BY <1>8, DetectStep
<1>9. CASE OpFails
  BY <1>9, FailStep
<1>13. CASE OpFailsLate
  BY <1>13, LateStep
<1>10. CASE OpPublishes
  BY <1>10, PublishStep
<1>11. CASE OpDetects({})
  <2>1. {} \in SUBSET Files
    OBVIOUS
  <2> QED BY <1>11, <2>1, <1>8
<1>12. CASE \E lost \in SUBSET Files \ {{}} : OpDetects(lost)
  BY <1>12, <1>8
<1> QED BY <1>1, <1>2, <1>3, <1>4, <1>5, <1>6, <1>7, <1>9, <1>10, <1>11, <1>12,
           <1>13 DEF Next, OpStep

\* The inductive invariant holds as long as files are watched.
THEOREM WatchInvariance == Spec => []WatchInv
<1>1. WatchInv /\ [Next]_vars => WatchInv'
  BY WatchStep
<1> QED BY <1>1, InitInv, PTL DEF Spec

\* The types, and with them the bounds FILE_EVENT_CHANNEL_CAPACITY and
\* DEFAULT_WATCH_CHANGE_CAPACITY, however events overflow, repeat or are handed in
\* through the API.
THEOREM WatchTyping == Spec => []WatchTypeOK
<1>1. WatchInv => WatchTypeOK
  BY DEF WatchInv, TypeInv
<1> QED BY <1>1, WatchInvariance, PTL

\* No step of the watcher, the event loop, the queue or an operation drops a change
\* that an event, a scan or a checkpoint still covers, outside the four exceptions
\* that NoSilentLoss names.
THEOREM NothingSilentlyLost == Spec => NoSilentLoss
<1> DEFINE Safe == \A f \in Files : Covered(f) /\ ~Covered(f)' =>
                     \/ op.pc \in {"take", "detect"} /\ failures' > failures
                     \/ op.pc = "take" /\ rescan /\ ~op.rescan
                     \/ op.pc = "detect" /\ Scanning /\ LatestNews(f) \notin {"none", Disk(f)}
                     \/ f \in hidden'
<1>1. WatchInv /\ [Next]_vars => [Safe]_vars
  BY WatchStep DEF Kept, Excused
<1>2. NoSilentLoss <=> [][Safe]_vars
  BY DEF NoSilentLoss
<1> HIDE DEF Safe
<1> QED BY <1>1, <1>2, WatchInvariance, PTL DEF Spec
============================================================================

------------------------- MODULE GenerationsProofs -------------------------
(***************************************************************************)
(* Proofs about the generation lifecycle, for any files, operations,       *)
(* changes, crashes and storage failures, and any number of retained       *)
(* generations.                                                            *)
(*                                                                         *)
(*   GenTyping             GenTypeOK                                       *)
(*   PublicationsMonotone  PublicationMonotone                             *)
(*   MarkersAlwaysSound    MarkersSound                                    *)
(*   ChainAlwaysShallow    ChainShallow, when two active generations are   *)
(*                         retained                                        *)
(*   GenerationsPublishAtomically                                          *)
(*                         PublishedAtomically, the refinement of          *)
(*                         Publication                                     *)
(*                                                                         *)
(* Any operation may begin beside unfinished ones and any storage call may *)
(* fail, in every theorem.                                                 *)
(*                                                                         *)
(* Six layers, each resting on the ones before it.  TypeInv: types, a      *)
(* running operation has an id and its changes, publication ids are        *)
(* distinct (so that the newest active row is determined), and a running   *)
(* hot update is not yet published.  OrderInv: the candidate slot belongs  *)
(* to the running operation and is one epoch ahead, no epoch about to be   *)
(* activated is behind the active one, and a collection plan never names   *)
(* the active publication.  AloneInv and MarkInv: nothing runs beside an   *)
(* unfinished hot update that has not been overtaken, and what its markers *)
(* say is done is in its candidate.  LaneInv: at most one operation runs   *)
(* or is unfinished without having been overtaken, its row is the newest   *)
(* of the table, and an operation builds only on a generation that does    *)
(* not inherit.  ChainInv: when the                                        *)
(* published generation inherits, a row without parent says so of the      *)
(* generation it inherits from, newer than any row that says otherwise,    *)
(* and a collection keeps that row.  ShownInv: above the published epoch   *)
(* the stores hold only what unfinished operations put there, the current  *)
(* candidate hides only what it changes, what the published generation has *)
(* copied of its parent is what it inherits, and a collection keeps both.  *)
(* LaneInv and ChainInv hold until an overtaken operation is taken up      *)
(* again, ShownInv until any of the Harms is done; ShownInv rests on all   *)
(* the others but ChainInv.                                                *)
(***************************************************************************)
EXTENDS Generations, PositionLemmas

\* Where an operation is before its commit.
HotPcs == {"prepare", "compact", "compactDocs", "unlink", "clean", "register", "process", "mark"}
\* Where a full index is before its publication.
FullPcs == {"ready", "scan", "manifest", "batch"}
\* Where an operation collects retired generations.
GcPcs == {"plan", "collectDocs", "collectRows"}
\* Where an operation may be.
Pcs == {"idle", "commit", "abort", "republish", "finish"} \cup HotPcs \cup FullPcs \cup GcPcs
\* Plans of a collection.
Plans == [protected : SUBSET Nat, stale : SUBSET Nat, pubs : SUBSET Nat]
\* The operation that runs.
Runs == [op : Ops \cup {None}, pc : Pcs, k : 0..2, resume : BOOLEAN, failed : BOOLEAN, plan : Plans]
\* Epochs, and 0 for none.
Bounded == 0..MaxEpoch
\* Rows of the manifest table.
Rows == [st : {"none", "building", "active", "failed"}, pub : Nat, data : Bounded,
         parent : Bounded, ready : BOOLEAN]
\* Meta values.
Metas == [epoch : Bounded, active : Bounded, ready : BOOLEAN]
\* What a store holds under one epoch.
Epoch == [Files -> Ops \cup {None}]
\* What the stores hold.
Datas == [Stores -> [Epochs -> Epoch]]
\* The files each epoch hides of its parent.
Overrides == [Epochs -> SUBSET Files]
\* What a hot update has to do.
Changes == [put : SUBSET Files, del : SUBSET Files]
\* What the storage coordinator keeps in memory.
Mems == [hot : Bounded, slot : Ops \cup {None}, full : Bounded]

\* The types of the variables.
Typed ==
  /\ man \in [Ops -> Rows] /\ meta \in Metas /\ data \in Datas /\ ov \in Overrides
  /\ ck \in [Ops -> {"none", "in_progress", "completed", "failed"}]
  /\ work \in [Ops -> {None} \cup Changes]
  /\ marks \in [Ops -> SUBSET (Stores \cup Files)]
  /\ mem \in Mems /\ run \in Runs
  /\ crashes \in 0..MaxCrashes /\ faults \in 0..MaxFaults
\* A running operation has an id and a step; a hot update that runs or can be
\* resumed has its changes.
Launched ==
  /\ run.pc # "idle" => run.op \in Ops /\ run.k \in 1..2
  /\ run.pc = "idle" => run.op = None
  /\ run.pc \in HotPcs => work[run.op] \in Changes
  /\ \A o \in HotOps : ck[o] = "in_progress" => work[o] \in Changes

\* The operations whose row is active, of any table m.
ActOps(m) == {o \in Ops : m[o].st = "active"}
\* The row of o is the newest active one of m.
IsTop(m, o) == o \in ActOps(m) /\ \A p \in ActOps(m) : m[p].pub <= m[o].pub
\* The operation of that row.
Top(m) == CHOOSE o \in ActOps(m) : \A p \in ActOps(m) : m[p].pub <= m[o].pub
\* The epoch it publishes, 0 when nothing is published.
TopEpoch(m) == IF ActOps(m) = {} THEN 0 ELSE m[Top(m)].data
\* The epoch it inherits from.
TopParent(m) == IF ActOps(m) = {} THEN 0 ELSE m[Top(m)].parent
\* Its publication id.
TopPub(m) == IF ActOps(m) = {} THEN 0 ELSE m[Top(m)].pub
\* Publication ids are the primary key of the table.
DistinctPubs(m) ==
  \A o, p \in Ops : m[o].st # "none" /\ m[p].st # "none" /\ m[o].pub = m[p].pub => o = p

\* A hot update before its commit is not yet published and has an epoch left; what it
\* compacts inherits.
RoomInv ==
  /\ run.pc \in HotPcs => man[run.op].st # "active" /\ ActiveEpoch < MaxEpoch
  /\ run.pc \in {"compact", "compactDocs", "unlink"} => ActiveParent > 0
\* The first layer of the inductive invariant.
TypeInv == Typed /\ Launched /\ DistinctPubs(man) /\ RoomInv

---------------------------------------------------------------------------
\* The model's names for the published generation, as functions of the table: what
\* a step does to them is what it does to the table.
LEMMA ActiveIsTop ==
  /\ ActiveOps = ActOps(man) /\ Active = Top(man) /\ ActiveEpoch = TopEpoch(man)
  /\ ActiveParent = TopParent(man) /\ ActivePub = TopPub(man)
  /\ ActiveOps' = ActOps(man') /\ Active' = Top(man') /\ ActiveEpoch' = TopEpoch(man')
  /\ ActiveParent' = TopParent(man') /\ ActivePub' = TopPub(man')
<1> USE DEF ActiveOps, ActOps, Active, Top
<1>1. ActiveOps = ActOps(man) /\ ActiveOps' = ActOps(man')
  OBVIOUS
<1>2. Active = Top(man) /\ Active' = Top(man')
  OBVIOUS
<1> QED BY <1>1, <1>2 DEF ActiveEpoch, ActiveParent, ActivePub, TopEpoch, TopParent, TopPub

\* Of finitely many rows one has the highest publication id.
LEMMA NewestExists ==
  ASSUME NEW m \in [Ops -> Rows], NEW S \in SUBSET Ops, S # {}
  PROVE  \E o \in S : \A p \in S : m[p].pub <= m[o].pub
<1> DEFINE Above(o) == {p \in S : m[o].pub < m[p].pub}
           N == {Cardinality(Above(o)) : o \in S}
<1>0. \A o \in Ops : m[o].pub \in Nat
  BY DEF Rows
<1>1. ASSUME NEW o \in S PROVE IsFiniteSet(Above(o)) /\ Cardinality(Above(o)) \in Nat
  <2>1. Above(o) \in SUBSET Ops
    OBVIOUS
  <2>2. IsFiniteSet(Above(o))
    BY <2>1, GenAssumption, FS_Subset
  <2> QED BY <2>2, FS_CardinalityType
<1>2. N \in SUBSET Nat /\ N # {}
  BY <1>1
<1>3. PICK n \in N : \A k \in N : n <= k
  BY <1>2, LeastNat
<1>4. PICK o \in S : n = Cardinality(Above(o))
  BY <1>3
<1>5. ASSUME NEW p \in S, ~(m[p].pub <= m[o].pub) PROVE FALSE
  <2>1. m[o].pub < m[p].pub /\ ~(m[p].pub < m[p].pub)
    BY <1>0, <1>5
  <2>2. p \in Above(o) /\ p \notin Above(p)
    BY <2>1
  <2>3. Above(p) \subseteq Above(o)
    BY <1>0, <2>1
  <2>4. Cardinality(Above(o)) <= Cardinality(Above(p))
    BY <1>3, <1>4
  <2> HIDE DEF Above
  <2>5. /\ Cardinality(Above(p)) <= Cardinality(Above(o))
        /\ Cardinality(Above(p)) # Cardinality(Above(o))
    BY <1>1, <2>2, <2>3, FS_Subset
  <2> QED BY <1>1, <2>4, <2>5
<1> QED BY <1>5

\* The next publication id of begin_building is above every one in the table.
LEMMA HighestPub ==
  ASSUME NEW m \in [Ops -> Rows]
  PROVE  LET h == Highest({0} \cup {m[p].pub : p \in Ops})
         IN  h \in Nat /\ \A p \in Ops : m[p].pub <= h
<1> DEFINE T == {0} \cup {m[p].pub : p \in Ops}
<1>0. \A o \in Ops : m[o].pub \in Nat
  BY DEF Rows
<1>1. T \in SUBSET Nat
  BY <1>0
<1>2. \E x \in T : \A y \in T : y <= x
  <2>1. CASE Ops = {}
    BY <2>1
  <2>2. CASE Ops # {}
    <3>1. PICK o \in Ops : \A p \in Ops : m[p].pub <= m[o].pub
      BY <2>2, NewestExists
    <3>2. m[o].pub \in T /\ \A y \in T : y <= m[o].pub
      BY <1>0, <3>1
    <3> QED BY <3>2
  <2> QED BY <2>1, <2>2
<1> HIDE DEF T
<1>3. Highest(T) \in T /\ \A y \in T : y <= Highest(T)
  BY <1>2 DEF Highest
<1>4. \A p \in Ops : m[p].pub \in T
  BY DEF T
<1> QED BY <1>1, <1>3, <1>4 DEF T

\* When a row is active, a newest active row exists.
LEMMA TopExists ==
  ASSUME NEW m \in [Ops -> Rows], ActOps(m) # {}
  PROVE  IsTop(m, Top(m))
<1>1. ActOps(m) \in SUBSET Ops
  BY DEF ActOps
<1>2. \E o \in ActOps(m) : \A p \in ActOps(m) : m[p].pub <= m[o].pub
  BY <1>1, NewestExists
<1> QED BY <1>2 DEF Top, IsTop

\* It is the only one, because publication ids are distinct.
LEMMA TopIs ==
  ASSUME NEW m \in [Ops -> Rows], DistinctPubs(m), NEW o, IsTop(m, o)
  PROVE  /\ o \in Ops /\ Top(m) = o /\ TopEpoch(m) = m[o].data
         /\ TopParent(m) = m[o].parent /\ TopPub(m) = m[o].pub
<1>1. o \in ActOps(m) /\ o \in Ops /\ ActOps(m) # {}
  BY DEF IsTop, ActOps
<1>2. IsTop(m, Top(m))
  BY <1>1, TopExists
<1> DEFINE t == Top(m)
<1>3. t \in Ops /\ m[t].st = "active" /\ m[o].st = "active" /\ m[o].pub <= m[t].pub /\ m[t].pub <= m[o].pub
  BY <1>2 DEF IsTop, ActOps
<1>4. m[t].pub \in Nat /\ m[o].pub \in Nat
  BY <1>1, <1>3 DEF Rows
<1> HIDE DEF t
<1>5. t = o
  BY <1>1, <1>3, <1>4 DEF DistinctPubs
<1> QED BY <1>1, <1>5 DEF t, TopEpoch, TopParent, TopPub

\* Its epoch, parent and publication id have their types.
LEMMA TopRange ==
  ASSUME NEW m \in [Ops -> Rows]
  PROVE  TopEpoch(m) \in Bounded /\ TopParent(m) \in Bounded /\ TopPub(m) \in Nat
<1>1. CASE ActOps(m) = {}
  BY <1>1, GenAssumption DEF TopEpoch, TopParent, TopPub, Bounded
<1>2. CASE ActOps(m) # {}
  <2>1. m[Top(m)] \in Rows
    BY <1>2, TopExists DEF IsTop, ActOps
  <2> QED BY <1>2, <2>1 DEF TopEpoch, TopParent, TopPub, Rows
<1> QED BY <1>1, <1>2

\* A table with the same active rows publishes the same generation.
LEMMA SameTop ==
  ASSUME NEW m \in [Ops -> Rows], NEW n \in [Ops -> Rows], DistinctPubs(m), DistinctPubs(n),
         ActOps(n) = ActOps(m),
         \A o \in ActOps(m) : n[o].pub = m[o].pub /\ n[o].data = m[o].data
  PROVE  /\ Top(n) = Top(m) \/ ActOps(m) = {}
         /\ TopEpoch(n) = TopEpoch(m) /\ TopPub(n) = TopPub(m)
         /\ (\A o \in ActOps(m) : n[o].parent = m[o].parent) => TopParent(n) = TopParent(m)
<1>1. CASE ActOps(m) = {}
  BY <1>1 DEF TopEpoch, TopParent, TopPub
<1>2. CASE ActOps(m) # {}
  <2>1. IsTop(m, Top(m))
    BY <1>2, TopExists
  <2>2. IsTop(n, Top(m)) /\ Top(m) \in ActOps(m)
    BY <2>1 DEF IsTop
  <2>3. Top(n) = Top(m) /\ TopEpoch(n) = n[Top(m)].data /\ TopPub(n) = n[Top(m)].pub
        /\ TopParent(n) = n[Top(m)].parent
    BY <2>2, TopIs
  <2> QED BY <1>2, <2>2, <2>3 DEF TopEpoch, TopParent, TopPub
<1> QED BY <1>1, <1>2

\* A new row keeps publication ids distinct when it keeps the id of the row it
\* replaces or has a fresh one.
LEMMA ReplaceRow ==
  ASSUME NEW m \in [Ops -> Rows], DistinctPubs(m), NEW o \in Ops, NEW r \in Rows,
         \/ m[o].st # "none" /\ r.pub = m[o].pub
         \/ \A p \in Ops : m[p].pub < r.pub
  PROVE  /\ [m EXCEPT ![o] = r] \in [Ops -> Rows]
         /\ DistinctPubs([m EXCEPT ![o] = r])
<1>1. [m EXCEPT ![o] = r] \in [Ops -> Rows]
  OBVIOUS
<1>2. \A p \in Ops : m[p].pub \in Nat
  BY DEF Rows
<1> QED BY <1>1, <1>2 DEF DistinctPubs, Rows

---------------------------------------------------------------------------
\* A parent link leads to an epoch.
LEMMA ParentRange ==
  ASSUME Typed, NEW e
  PROVE  ParentOf(e) \in Bounded
<1> DEFINE R == {o \in Ops : man[o].st # "none" /\ man[o].data = e}
           N == CHOOSE o \in R : \A p \in R : man[p].pub <= man[o].pub
<1>0. man \in [Ops -> Rows] /\ 0 \in Bounded
  BY GenAssumption DEF Typed, Bounded
<1>1. ParentOf(e) = IF R = {} THEN 0 ELSE man[N].parent
  BY DEF ParentOf
<1>2. R # {} => N \in R
  BY <1>0, NewestExists
<1>3. R \subseteq Ops
  OBVIOUS
<1> HIDE DEF R, N
<1>4. R # {} => man[N] \in Rows
  BY <1>0, <1>2, <1>3
<1> QED BY <1>0, <1>1, <1>4 DEF Rows

\* begin_building: a new row gets the next publication id, a row that exists keeps
\* its id, epoch and parent.
LEMMA BegunRow ==
  ASSUME man \in [Ops -> Rows], NEW o \in Ops, NEW e \in Bounded
  PROVE  /\ Begun(o, e) \in Rows
         /\ Begun(o, e).st = IF man[o].st = "active" THEN "active" ELSE "building"
         /\ man[o].st = "none" => /\ Begun(o, e).data = e /\ Begun(o, e).parent = 0
                                  /\ \A p \in Ops : man[p].pub < Begun(o, e).pub
         /\ man[o].st # "none" => /\ Begun(o, e).pub = man[o].pub /\ Begun(o, e).data = man[o].data
                                  /\ Begun(o, e).parent = man[o].parent
<1> DEFINE h == Highest({0} \cup {man[p].pub : p \in Ops})
<1>1. man[o] \in Rows
  OBVIOUS
<1>2. h \in Nat /\ \A p \in Ops : man[p].pub <= h
  BY HighestPub
<1>0. \A p \in Ops : man[p].pub \in Nat
  BY DEF Rows
<1> HIDE DEF h
<1>3. CASE man[o].st = "none"
  <2>1. Begun(o, e) = [st |-> "building", data |-> e, parent |-> 0, ready |-> FALSE, pub |-> 1 + h]
    BY <1>3 DEF Begun, h
  <2>2. 0 \in Bounded /\ 1 + h \in Nat
    BY <1>2, GenAssumption DEF Bounded
  <2>3. \A p \in Ops : man[p].pub < 1 + h
    BY <1>2, <1>0
  <2> QED BY <1>3, <2>1, <2>2, <2>3 DEF Rows
<1>4. CASE man[o].st = "failed"
  <2>1. Begun(o, e) = [man[o] EXCEPT !.st = "building", !.ready = FALSE]
    BY <1>4 DEF Begun
  <2> QED BY <1>1, <1>4, <2>1 DEF Rows
<1>5. CASE man[o].st \in {"building", "active"}
  <2>1. Begun(o, e) = man[o]
    BY <1>5 DEF Begun
  <2> QED BY <1>1, <1>5, <2>1
<1> QED BY <1>1, <1>3, <1>4, <1>5 DEF Rows

\* activate: the row is that of begin_building, active; it takes over the parent of
\* the active generation only when it republishes its epoch.
LEMMA ActivatedRow ==
  ASSUME man \in [Ops -> Rows], NEW o \in Ops, NEW e \in Bounded
  PROVE  /\ Activated(o, e) \in Rows /\ Activated(o, e).st = "active"
         /\ Activated(o, e).pub = Begun(o, e).pub
         /\ Activated(o, e).data = Begun(o, e).data
         /\ man[o].st = "active" => Activated(o, e) = man[o]
         /\ Activated(o, e).parent # Begun(o, e).parent =>
              /\ Activated(o, e).parent = ActiveParent /\ ActiveParent > 0 /\ ActiveEpoch = e
              /\ Begun(o, e).parent = 0 \/ man[o].st = "failed"
<1> DEFINE b == Begun(o, e)
           orphan == b.parent = 0 \/ man[o].st = "failed"
           par == IF orphan /\ ActiveParent > 0 /\ ActiveEpoch = e THEN ActiveParent ELSE b.parent
<1>1. b \in Rows /\ (b.st = "active" <=> man[o].st = "active")
  BY BegunRow
<1>2. Activated(o, e) = IF b.st = "active" THEN b ELSE [b EXCEPT !.st = "active", !.parent = par]
  BY DEF Activated
<1>3. par \in Bounded
  BY <1>1, TopRange, ActiveIsTop DEF Rows
<1>4. /\ b.parent # par => par = ActiveParent /\ ActiveParent > 0 /\ ActiveEpoch = e
      /\ b.parent # par => b.parent = 0 \/ man[o].st = "failed"
  OBVIOUS
<1>5. man[o].st = "active" => b = man[o]
  BY DEF Begun
<1> HIDE DEF b, par
<1>6. CASE b.st = "active"
  BY <1>1, <1>2, <1>5, <1>6 DEF b
<1>7. CASE b.st # "active"
  BY <1>1, <1>2, <1>3, <1>4, <1>7 DEF Rows, b
<1> QED BY <1>6, <1>7

\* activate keeps the table and the meta values well typed.
LEMMA ActivateType ==
  ASSUME man \in [Ops -> Rows], DistinctPubs(man), meta \in Metas,
         NEW o \in Ops, NEW e \in Bounded, Activate(o, e)
  PROVE  man' \in [Ops -> Rows] /\ DistinctPubs(man') /\ meta' \in Metas
<1> DEFINE r == Activated(o, e)
<1>1. r \in Rows /\ (\/ man[o].st # "none" /\ r.pub = man[o].pub
                     \/ \A p \in Ops : man[p].pub < r.pub)
  BY ActivatedRow, BegunRow
<1>2. man' = [man EXCEPT ![o] = r]
  BY DEF Activate
<1> HIDE DEF r
<1>3. man' \in [Ops -> Rows] /\ DistinctPubs(man')
  BY <1>1, <1>2, ReplaceRow
<1>4. CASE man[o].st = "active"
  BY <1>3, <1>4 DEF Activate
<1>5. CASE man[o].st # "active"
  BY <1>3, <1>5 DEF Activate, Metas
<1> QED BY <1>4, <1>5

\* mark_failed touches building rows only, and never what is published.
LEMMA MarkFailedType ==
  ASSUME man \in [Ops -> Rows], DistinctPubs(man), NEW o \in Ops, MarkFailed(o)
  PROVE  /\ man' \in [Ops -> Rows] /\ DistinctPubs(man')
         /\ ActOps(man') = ActOps(man)
         /\ \A p \in Ops : /\ man'[p].pub = man[p].pub /\ man'[p].data = man[p].data
                           /\ man'[p].parent = man[p].parent
                           /\ man'[p].st = IF p = o /\ man[p].st = "building" THEN "failed" ELSE man[p].st
         /\ ActiveEpoch' = ActiveEpoch /\ ActiveParent' = ActiveParent /\ ActivePub' = ActivePub
<1> DEFINE r == [man[o] EXCEPT !.st = IF @ = "building" THEN "failed" ELSE @]
<1>1. man[o] \in Rows
  OBVIOUS
<1>2. man' = [man EXCEPT ![o] = r]
  BY DEF MarkFailed
<1>3. /\ r \in Rows /\ r.pub = man[o].pub /\ r.data = man[o].data /\ r.parent = man[o].parent
      /\ r.st = IF man[o].st = "building" THEN "failed" ELSE man[o].st
  BY <1>1 DEF Rows
<1> HIDE DEF r
<1>4. \A p \in Ops : /\ man'[p].pub = man[p].pub /\ man'[p].data = man[p].data
                     /\ man'[p].parent = man[p].parent
                     /\ man'[p].st = IF p = o /\ man[p].st = "building" THEN "failed" ELSE man[p].st
  BY <1>2, <1>3
<1>5. man' \in [Ops -> Rows]
  BY <1>2, <1>3
<1>6. DistinctPubs(man')
  <2>1. \A p \in Ops : man'[p].st = "none" <=> man[p].st = "none"
    BY <1>4
  <2> QED BY <1>4, <2>1 DEF DistinctPubs
<1>7. ActOps(man') = ActOps(man)
  BY <1>4 DEF ActOps
<1>8. \A p \in ActOps(man) : /\ man'[p].pub = man[p].pub /\ man'[p].data = man[p].data
                             /\ man'[p].parent = man[p].parent
  BY <1>4 DEF ActOps
<1>9. TopEpoch(man') = TopEpoch(man) /\ TopParent(man') = TopParent(man) /\ TopPub(man') = TopPub(man)
  BY <1>5, <1>6, <1>7, <1>8, SameTop
<1> QED BY <1>4, <1>5, <1>6, <1>7, <1>9, ActiveIsTop

\* Deleting epochs and materializing a parent keep the types of the stores.
LEMMA StoreType ==
  ASSUME Typed
  PROVE  /\ \A s \in Stores : \A E : Wiped(data, s, E) \in Datas
         /\ ActiveParent > 0 => \A s \in Stores : Materialized(s) \in Datas
         /\ \A E : Unhidden(E) \in Overrides
<1>1. Blank \in Epoch
  BY DEF Blank, Epoch
<1>2. data \in [Stores -> [Epochs -> Epoch]]
  BY DEF Typed, Datas
<1>3. ASSUME NEW s \in Stores, NEW E PROVE Wiped(data, s, E) \in Datas
  <2>1. [e \in Epochs |-> IF e \in E THEN Blank ELSE data[s][e]] \in [Epochs -> Epoch]
    BY <1>1, <1>2
  <2> QED BY <1>2, <2>1 DEF Wiped, Datas
<1>4. ASSUME ActiveParent > 0, NEW s \in Stores PROVE Materialized(s) \in Datas
  <2> DEFINE m == [f \in Files |-> IF f \notin ov[ActiveEpoch] /\ data[s][ActiveParent][f] # None
                                   THEN data[s][ActiveParent][f] ELSE data[s][ActiveEpoch][f]]
             d == [data[s] EXCEPT ![ActiveEpoch] = m]
  <2>1. Materialized(s) = [data EXCEPT ![s] = d]
    BY DEF Materialized
  <2>2. ActiveParent \in Epochs
    <3>1. ActiveParent \in Bounded
      BY TopRange, ActiveIsTop DEF Typed
    <3> QED BY <1>4, <3>1, GenAssumption DEF Bounded, Epochs
  <2>3. data[s] \in [Epochs -> Epoch]
    BY <1>2
  <2>4. ActiveEpoch \in Epochs => m \in Epoch
    BY <2>2, <2>3 DEF Epoch
  <2>5. d \in [Epochs -> Epoch]
    <3> HIDE DEF m
    <3>1. CASE ActiveEpoch \in Epochs
      BY <2>3, <2>4, <3>1
    <3>2. CASE ActiveEpoch \notin Epochs
      BY <2>3, <3>2
    <3> QED BY <3>1, <3>2
  <2> HIDE DEF d
  <2> QED BY <1>2, <2>1, <2>5 DEF Datas
<1>5. ASSUME NEW E PROVE Unhidden(E) \in Overrides
  BY DEF Unhidden, Typed, Overrides
<1> QED BY <1>3, <1>4, <1>5

---------------------------------------------------------------------------
\* The steps named in actions are steps.
LEMMA PcNames ==
  /\ {"prepare", "abort", "process", "commit", "republish", "finish", "plan", "idle"} \subseteq Pcs
  /\ HotPcs \subseteq Pcs /\ FullPcs \subseteq Pcs /\ GcPcs \subseteq Pcs
BY DEF Pcs, HotPcs, FullPcs, GcPcs

\* Where the operation goes after a processor has prepared.
LEMMA PreparedRun ==
  ASSUME run \in Runs, NEW f \in BOOLEAN, Prepared(f)
  PROVE  /\ run' \in Runs /\ run'.op = run.op /\ run'.failed = f /\ run'.plan = run.plan
         /\ run'.resume = run.resume
         /\ run.k < 2 => run'.pc = "prepare" /\ run'.k = 2
         /\ ~(run.k < 2) => run'.pc = (IF f THEN "abort" ELSE "process") /\ run'.k = 1
<1> DEFINE p == IF run.k < 2 THEN "prepare" ELSE IF f THEN "abort" ELSE "process"
           q == IF run.k < 2 THEN 2 ELSE 1
<1>0. run.plan \in Plans
  BY DEF NoPlan, Plans, Runs
<1>1. p \in Pcs /\ q \in 0..2
  BY PcNames
<1>2. /\ run.k < 2 => p = "prepare" /\ q = 2
      /\ ~(run.k < 2) => p = (IF f THEN "abort" ELSE "process") /\ q = 1
  OBVIOUS
<1>3. run' = [run EXCEPT !.failed = f, !.pc = p, !.k = q, !.plan = run.plan]
  BY DEF Prepared, Runs
<1> HIDE DEF p, q
<1>4. /\ run' \in Runs /\ run'.op = run.op /\ run'.failed = f /\ run'.plan = run.plan
      /\ run'.pc = p /\ run'.k = q /\ run'.resume = run.resume
  <2> HIDE DEF NoPlan, Plans
  <2>1. run' \in Runs
    BY <1>0, <1>1, <1>3 DEF Runs
  <2>2. run'.op = run.op /\ run'.pc = p /\ run'.k = q /\ run'.plan = run.plan
    BY <1>3 DEF Runs
  <2>3. run'.failed = f /\ run'.resume = run.resume
    BY <1>3, Zenon DEF Runs
  <2> QED BY <2>1, <2>2, <2>3, Zenon
<1> QED BY <1>2, <1>4, Zenon

\* Where the operation goes after a module was processed.
LEMMA NextModuleRun ==
  ASSUME run \in Runs, NEW f \in BOOLEAN, NextModule(f)
  PROVE  /\ run' \in Runs /\ run'.op = run.op /\ run'.failed = f /\ run'.plan = run.plan
         /\ run.k < 2 => run'.pc = "process" /\ run'.k = 2
         /\ ~(run.k < 2) => run'.pc = (IF f THEN "abort" ELSE "commit") /\ run'.k = 1
<1> DEFINE p == IF run.k < 2 THEN "process" ELSE IF f THEN "abort" ELSE "commit"
           q == IF run.k < 2 THEN 2 ELSE 1
<1>0. run.plan \in Plans
  BY DEF NoPlan, Plans, Runs
<1>1. p \in Pcs /\ q \in 0..2
  BY PcNames
<1>2. /\ run.k < 2 => p = "process" /\ q = 2
      /\ ~(run.k < 2) => p = (IF f THEN "abort" ELSE "commit") /\ q = 1
  OBVIOUS
<1>3. run' = [run EXCEPT !.failed = f, !.pc = p, !.k = q, !.plan = run.plan]
  BY DEF NextModule, Runs
<1> HIDE DEF p, q
<1>4. /\ run' \in Runs /\ run'.op = run.op /\ run'.failed = f /\ run'.plan = run.plan
      /\ run'.pc = p /\ run'.k = q
  <2> HIDE DEF NoPlan, Plans
  <2>1. run' \in Runs
    BY <1>0, <1>1, <1>3 DEF Runs
  <2>2. run'.op = run.op /\ run'.pc = p /\ run'.k = q /\ run'.plan = run.plan
    BY <1>3 DEF Runs
  <2>3. run'.failed = f
    BY <1>3, Zenon DEF Runs
  <2> QED BY <2>1, <2>2, <2>3, Zenon
<1> QED BY <1>2, <1>4, Zenon

\* Where the operation goes after a processor has committed and collected.
LEMMA NextCommitRun ==
  ASSUME run \in Runs, NEW f \in BOOLEAN, NextCommit(f)
  PROVE  /\ run' \in Runs /\ run'.op = run.op /\ run'.failed = f /\ run'.plan = NoPlan
         /\ run.k < 2 => run'.pc = "commit" /\ run'.k = 2
         /\ ~(run.k < 2) => run'.pc = (IF f THEN "abort" ELSE "republish") /\ run'.k = (IF f THEN 1 ELSE 2)
<1> DEFINE p == IF run.k < 2 THEN "commit" ELSE IF f THEN "abort" ELSE "republish"
           q == IF run.k < 2 THEN 2 ELSE IF f THEN 1 ELSE 2
<1>0. NoPlan \in Plans
  BY DEF NoPlan, Plans, Runs
<1>1. p \in Pcs /\ q \in 0..2
  BY PcNames
<1>2. /\ run.k < 2 => p = "commit" /\ q = 2
      /\ ~(run.k < 2) => p = (IF f THEN "abort" ELSE "republish") /\ q = (IF f THEN 1 ELSE 2)
  OBVIOUS
<1>3. run' = [run EXCEPT !.failed = f, !.pc = p, !.k = q, !.plan = NoPlan]
  BY DEF NextCommit, Runs
<1> HIDE DEF p, q
<1>4. /\ run' \in Runs /\ run'.op = run.op /\ run'.failed = f /\ run'.plan = NoPlan
      /\ run'.pc = p /\ run'.k = q
  <2> HIDE DEF NoPlan, Plans
  <2>1. run' \in Runs
    BY <1>0, <1>1, <1>3 DEF Runs
  <2>2. run'.op = run.op /\ run'.pc = p /\ run'.k = q /\ run'.plan = NoPlan
    BY <1>3 DEF Runs
  <2>3. run'.failed = f
    BY <1>3, Zenon DEF Runs
  <2> QED BY <2>1, <2>2, <2>3, Zenon
<1> QED BY <1>2, <1>4, Zenon

\* An operation starts at its first step, for its first processor.
LEMMA LaunchRun ==
  /\ Idle \in Runs /\ Idle.op = None /\ Idle.pc = "idle"
  /\ \A o \in Ops, pc \in Pcs, b \in BOOLEAN : Launch(o, pc, b) =>
       /\ run' \in Runs /\ run'.op = o /\ run'.pc = pc /\ run'.k = 1 /\ run'.resume = b
<1>0. NoPlan \in Plans
  BY DEF NoPlan, Plans
<1> HIDE DEF NoPlan, Plans
<1>1. Idle \in Runs /\ Idle.op = None /\ Idle.pc = "idle"
  BY <1>0 DEF Idle, Runs, Pcs
<1>2. ASSUME NEW o \in Ops, NEW pc \in Pcs, NEW b \in BOOLEAN, Launch(o, pc, b)
      PROVE  run' \in Runs /\ run'.op = o /\ run'.pc = pc /\ run'.k = 1 /\ run'.resume = b
  <2>1. run' = [op |-> o, pc |-> pc, k |-> 1, resume |-> b, failed |-> FALSE, plan |-> NoPlan]
    BY <1>2 DEF Launch, Idle
  <2>2. run' \in Runs /\ run'.op = o /\ run'.pc = pc /\ run'.k = 1
    BY <1>0, <2>1 DEF Runs
  <2>3. run'.resume = b
    BY <2>1, Zenon
  <2> QED BY <2>2, <2>3, Zenon
<1> QED BY <1>1, <1>2, Zenon

\* A step to pc keeps the rest of the operation.
LEMMA PcRun ==
  ASSUME run \in Runs, NEW pc \in Pcs, run' = [run EXCEPT !.pc = pc]
  PROVE  /\ run' \in Runs /\ run'.op = run.op /\ run'.pc = pc /\ run'.k = run.k
         /\ run'.failed = run.failed /\ run'.plan = run.plan /\ run'.resume = run.resume
BY DEF Runs

\* What is published changes only with the table.
LEMMA SameMan ==
  ASSUME UNCHANGED man
  PROVE  /\ ActiveOps' = ActiveOps /\ ActiveEpoch' = ActiveEpoch /\ ActiveParent' = ActiveParent
         /\ ActivePub' = ActivePub /\ Active' = Active /\ DistinctPubs(man') = DistinctPubs(man)
BY ActiveIsTop

\* The published generation has its types.
LEMMA EpochRange ==
  ASSUME Typed
  PROVE  ActiveEpoch \in Bounded /\ ActiveParent \in Bounded /\ ActivePub \in Nat
BY TopRange, ActiveIsTop DEF Typed

\* A collection plan is a plan.
LEMMA PlanType ==
  ASSUME Typed, NEW old \in SUBSET Ops
  PROVE  GcPlan(old) \in Plans
<1> DEFINE K == Kept(old)
           G == {o \in Ops : man[o].st # "none"} \ K
<1>1. \A o \in Ops : man[o].data \in Nat /\ man[o].parent \in Nat /\ man[o].pub \in Nat
  BY GenAssumption DEF Typed, Rows, Bounded
<1>2. \A o \in Ops : Ancestors(o) \in SUBSET Nat
  BY <1>1, ParentRange, GenAssumption DEF Ancestors, Bounded
<1>3. meta.active \in Nat /\ meta.epoch \in Nat
  BY GenAssumption DEF Typed, Metas, Bounded
<1>4. K \subseteq Ops /\ G \subseteq Ops
  BY DEF Kept
<1> HIDE DEF K, G
<1>5. ((UNION {{man[o].data} \cup Ancestors(o) : o \in K}) \cup {meta.active, meta.epoch}) \ {0} \in SUBSET Nat
  <2> HIDE DEF Ancestors
  <2>1. \A o \in K : {man[o].data} \cup Ancestors(o) \in SUBSET Nat
    BY <1>1, <1>2, <1>4
  <2>2. UNION {{man[o].data} \cup Ancestors(o) : o \in K} \in SUBSET Nat
    BY <2>1, Zenon
  <2> DEFINE U == UNION {{man[o].data} \cup Ancestors(o) : o \in K}
  <2>3. U \in SUBSET Nat
    BY <2>2
  <2> HIDE DEF U
  <2>4. (U \cup {meta.active, meta.epoch}) \ {0} \in SUBSET Nat
    BY <1>3, <2>3
  <2> QED BY <2>4 DEF U
<1>6. Protected(old) \in SUBSET Nat
  BY <1>5 DEF Protected, K
<1>7. {man[o].data : o \in G} \ Protected(old) \in SUBSET Nat /\ {man[o].pub : o \in G} \in SUBSET Nat
  BY <1>1, <1>4
<1>8. GcPlan(old) = [protected |-> Protected(old), stale |-> {man[o].data : o \in G} \ Protected(old),
                     pubs |-> {man[o].pub : o \in G}]
  BY DEF GcPlan, G, K
<1> HIDE DEF Protected
<1> QED BY <1>6, <1>7, <1>8 DEF Plans

---------------------------------------------------------------------------
\* Starting or resuming an operation keeps the first layer.
LEMMA TypeStart ==
  ASSUME TypeInv, \/ \E o \in HotOps : StartHot(o) \/ ResumeHot(o)
                  \/ \E o \in ConfigOps : StartConfig(o)
                  \/ \E o \in FullOps : StartFull(o)
  PROVE  TypeInv'
<1> USE DEF TypeInv
<1>0. /\ Typed /\ Launched /\ DistinctPubs(man) /\ RoomInv
      /\ HotOps \subseteq Ops /\ ConfigOps \subseteq Ops /\ FullOps \subseteq Ops
      /\ "prepare" \in Pcs /\ "ready" \in Pcs
  BY PcNames DEF Ops, FullPcs
<1>1. ASSUME NEW o \in HotOps, StartHot(o) PROVE TypeInv'
  <2>1. /\ run' \in Runs /\ run'.op = o /\ run'.pc = "prepare" /\ run'.k = 1
    BY <1>0, <1>1, LaunchRun DEF StartHot
  <2>2. /\ UNCHANGED <<man, meta, data, ov, marks, mem, crashes>>
        /\ man[o].st # "active" /\ ActiveEpoch < MaxEpoch
    BY <1>1 DEF StartHot, dbVars, Fresh, Room
  <2>f. faults' \in 0..MaxFaults
    BY <1>0, <1>1, GenAssumption DEF StartHot, Typed
  <2>3. PICK c \in HotChanges : work' = [work EXCEPT ![o] = c]
    BY <1>1 DEF StartHot
  <2>4. c \in Changes /\ ck' = [ck EXCEPT ![o] = "in_progress"]
    BY <1>1, GenAssumption DEF StartHot, Changes
  <2>5. Typed'
    BY <1>0, <2>1, <2>2, <2>f, <2>3, <2>4 DEF Typed
  <2>6. Launched'
    BY <1>0, <2>1, <2>3, <2>4 DEF Launched, Typed
  <2>7. RoomInv'
    BY <2>1, <2>2, SameMan DEF RoomInv
  <2> QED BY <1>0, <2>2, <2>5, <2>6, <2>7
<1>2. ASSUME NEW o \in HotOps, ResumeHot(o) PROVE TypeInv'
  <2>1. /\ UNCHANGED <<man, meta, data, ov, work, mem, crashes, faults>> /\ ActiveEpoch < MaxEpoch
        /\ marks' = [marks EXCEPT ![o] = IF Adoptable(o) THEN @ ELSE {}]
        /\ ck[o] = "in_progress" /\ run.pc = "idle"
    BY <1>2 DEF ResumeHot, Recoverable, dbVars, Room, Unfinished, At
  <2>2. marks' \in [Ops -> SUBSET (Stores \cup Files)]
    BY <1>0, <2>1 DEF Typed
  <2>3. CASE man[o].st = "active"
    <3>1. ck' = [ck EXCEPT ![o] = "completed"] /\ UNCHANGED run
      BY <1>2, <2>3 DEF ResumeHot, Resume
    <3>2. Typed'
      BY <1>0, <2>1, <2>2, <3>1 DEF Typed
    <3>3. Launched'
      BY <1>0, <2>1, <3>1 DEF Launched, Typed
    <3>4. RoomInv'
      BY <1>0, <2>1, <3>1, SameMan DEF RoomInv
    <3> QED BY <1>0, <2>1, <3>2, <3>3, <3>4
  <2>4. CASE man[o].st # "active"
    <3>1. Launch(o, "prepare", TRUE) /\ UNCHANGED ck
      BY <1>2, <2>4 DEF ResumeHot, Resume
    <3>2. /\ run' \in Runs /\ run'.op = o /\ run'.pc = "prepare" /\ run'.k = 1
      BY <1>0, <3>1, LaunchRun
    <3>3. Typed'
      BY <1>0, <2>1, <2>2, <3>1, <3>2 DEF Typed
    <3>4. Launched'
      BY <1>0, <2>1, <3>1, <3>2 DEF Launched, Typed
    <3>5. RoomInv'
      BY <2>1, <2>4, <3>2, SameMan DEF RoomInv
    <3> QED BY <1>0, <2>1, <3>3, <3>4, <3>5
  <2> QED BY <2>3, <2>4
<1>3. ASSUME NEW o \in ConfigOps, StartConfig(o) PROVE TypeInv'
  <2>1. /\ run' \in Runs /\ run'.op = o /\ run'.pc = "prepare" /\ run'.k = 1
    BY <1>0, <1>3, LaunchRun DEF StartConfig
  <2>2. /\ UNCHANGED <<man, meta, data, ov, marks, mem, crashes, faults>>
        /\ man[o].st # "active" /\ ActiveEpoch < MaxEpoch
    BY <1>3 DEF StartConfig, dbVars, Fresh, Room
  <2> DEFINE c == [put |-> {}, del |-> {}]
  <2>3. work' = [work EXCEPT ![o] = c] /\ c \in Changes
    BY <1>3 DEF StartConfig, Changes
  <2> HIDE DEF c
  <2>4. ck' = [ck EXCEPT ![o] = "in_progress"]
    BY <1>3 DEF StartConfig
  <2>5. Typed'
    BY <1>0, <2>1, <2>2, <2>3, <2>4 DEF Typed
  <2>6. Launched'
    BY <1>0, <2>1, <2>3, <2>4 DEF Launched, Typed
  <2>7. RoomInv'
    BY <2>1, <2>2, SameMan DEF RoomInv
  <2> QED BY <1>0, <2>2, <2>5, <2>6, <2>7
<1>4. ASSUME NEW o \in FullOps, StartFull(o) PROVE TypeInv'
  <2> DEFINE e == IF meta.epoch > 0 /\ (~meta.ready \/ Unfinished(FullOps) # {})
                  THEN meta.epoch ELSE meta.epoch + 1
  <2>1. /\ run' \in Runs /\ run'.op = o /\ run'.pc = "ready" /\ run'.k = 1
    BY <1>0, <1>4, LaunchRun DEF StartFull
  <2>2. /\ UNCHANGED <<man, data, ov, ck, work, marks, crashes, faults>> /\ meta.epoch < MaxEpoch
        /\ mem' = [mem EXCEPT !.full = e] /\ meta' = [meta EXCEPT !.epoch = e]
    BY <1>4 DEF StartFull, ckVars, Room
  <2>3. e \in Bounded
    BY <1>0, <2>2, GenAssumption DEF Typed, Metas, Bounded
  <2> HIDE DEF e
  <2>4. meta' \in Metas /\ mem' \in Mems
    BY <1>0, <2>2, <2>3 DEF Typed, Metas, Mems
  <2>5. Typed'
    BY <1>0, <2>1, <2>2, <2>4 DEF Typed
  <2>6. Launched'
    BY <1>0, <2>1, <2>2 DEF Launched, HotPcs
  <2>7. RoomInv'
    BY <2>1 DEF RoomInv, HotPcs
  <2> QED BY <1>0, <2>2, <2>5, <2>6, <2>7
<1> QED BY <1>1, <1>2, <1>3, <1>4

\* So does every step of prepare.
LEMMA TypePrepare ==
  ASSUME TypeInv, \/ PrepareAgain \/ Adopt \/ AdoptFails \/ Resolve \/ CompactRows \/ CompactDocs \/ Unlink
                  \/ CleanDocs \/ Register \/ PrepareFails \/ PrepareRefused
  PROVE  TypeInv'
<1> USE DEF TypeInv
<1>0. /\ Typed /\ Launched /\ DistinctPubs(man) /\ RoomInv
      /\ run \in Runs /\ man \in [Ops -> Rows]
      /\ {"compact", "compactDocs", "unlink", "clean", "register"} \subseteq Pcs
  BY PcNames DEF Typed, HotPcs
<1>r. run.failed \in BOOLEAN
  BY <1>0 DEF Runs
<1>h. ASSUME run.pc \in HotPcs, UNCHANGED <<man, ck, work>>, run'.op = run.op, run'.k \in 1..2,
             run'.pc \in HotPcs \cup {"abort"},
             run'.pc \in {"compact", "compactDocs", "unlink"} => ActiveParent > 0
      PROVE  Launched' /\ RoomInv' /\ DistinctPubs(man')
  <2>1. Launched'
    BY <1>0, <1>h DEF Launched, HotPcs
  <2>2. RoomInv'
    BY <1>0, <1>h, SameMan DEF RoomInv, HotPcs
  <2> QED BY <1>0, <1>h, <2>1, <2>2
<1>1. CASE PrepareAgain
  <2> DEFINE f == run.failed \/ mem.slot # run.op
  <2>1. /\ run.pc = "prepare" /\ UNCHANGED <<man, meta, data, ov, ck, work, marks, mem, crashes, faults>>
        /\ Prepared(f) /\ f \in BOOLEAN
    BY <1>1 DEF PrepareAgain, At, dbVars, ckVars
  <2> HIDE DEF f
  <2>2. run' \in Runs /\ run'.op = run.op /\ run'.k \in 1..2 /\ run'.pc \in {"prepare", "abort", "process"}
    BY <1>0, <2>1, PreparedRun
  <2>3. Typed'
    BY <1>0, <2>1, <2>2 DEF Typed
  <2> QED BY <1>h, <2>1, <2>2, <2>3 DEF HotPcs
<1>2. CASE Adopt
  <2>1. /\ run.pc = "prepare" /\ UNCHANGED <<man, meta, data, ov, ck, work, marks, crashes, faults>>
        /\ Prepared(run.failed) /\ mem' = [mem EXCEPT !.slot = run.op, !.hot = man[run.op].data]
    BY <1>2 DEF Adopt, At, dbVars, ckVars
  <2>2. run' \in Runs /\ run'.op = run.op /\ run'.k \in 1..2 /\ run'.pc \in {"prepare", "abort", "process"}
    BY <1>0, <1>r, <2>1, PreparedRun
  <2>3. run.op \in Ops
    BY <1>0, <2>1 DEF Launched
  <2>4. man[run.op].data \in Bounded
    BY <1>0, <2>3 DEF Rows
  <2>5. mem' \in Mems
    BY <1>0, <2>1, <2>3, <2>4 DEF Typed, Mems
  <2>6. Typed'
    BY <1>0, <2>1, <2>2, <2>5 DEF Typed
  <2> QED BY <1>h, <2>1, <2>2, <2>6 DEF HotPcs
<1>8. CASE AdoptFails
  <2> DEFINE t == TRUE
  <2>1. /\ run.pc = "prepare" /\ UNCHANGED <<man, meta, data, ov, ck, work, marks, crashes>>
        /\ Prepared(t) /\ t \in BOOLEAN /\ mem' = [mem EXCEPT !.slot = run.op]
    BY <1>8 DEF AdoptFails, At, dbVars, ckVars
  <2> HIDE DEF t
  <2>2. run' \in Runs /\ run'.op = run.op /\ run'.k \in 1..2 /\ run'.pc \in {"prepare", "abort", "process"}
    BY <1>0, <2>1, PreparedRun
  <2>3. run.op \in Ops
    BY <1>0, <2>1 DEF Launched
  <2>4. mem' \in Mems /\ faults' \in 0..MaxFaults
    BY <1>0, <1>8, <2>1, <2>3, GenAssumption DEF AdoptFails, Typed, Mems
  <2>5. Typed'
    BY <1>0, <2>1, <2>2, <2>4 DEF Typed
  <2> QED BY <1>h, <2>1, <2>2, <2>5 DEF HotPcs
<1>3. CASE Resolve
  <2> DEFINE p == IF ActiveParent > 0 THEN "compact" ELSE "clean"
  <2>1. /\ run.pc = "prepare" /\ UNCHANGED <<man, meta, data, ov, ck, work, marks, crashes, faults>>
        /\ run' = [run EXCEPT !.pc = p] /\ mem' = [mem EXCEPT !.slot = run.op, !.hot = ActiveEpoch + 1]
    BY <1>3 DEF Resolve, At, dbVars, ckVars
  <2>2. p \in Pcs /\ p \in {"compact", "clean"} /\ (p = "compact" => ActiveParent > 0)
    BY <1>0
  <2> HIDE DEF p
  <2>3. run' \in Runs /\ run'.op = run.op /\ run'.k = run.k /\ run'.pc = p
    BY <1>0, <2>1, <2>2, PcRun
  <2>4. run.op \in Ops /\ run.k \in 1..2
    BY <1>0, <2>1 DEF Launched
  <2>5. ActiveEpoch + 1 \in Bounded
    BY <1>0, <2>1, EpochRange, GenAssumption DEF Bounded, RoomInv, HotPcs
  <2>6. mem' \in Mems
    BY <1>0, <2>1, <2>4, <2>5 DEF Typed, Mems
  <2>7. Typed'
    BY <1>0, <2>1, <2>3, <2>6 DEF Typed
  <2> QED BY <1>h, <2>1, <2>2, <2>3, <2>4, <2>7 DEF HotPcs
<1>4. CASE CompactRows \/ CompactDocs \/ CleanDocs
  <2>1. PICK p \in {"compactDocs", "unlink", "register"} :
        /\ run' = [run EXCEPT !.pc = p]
        /\ p = "register" => run.pc = "clean"
        /\ p # "register" => run.pc \in {"compact", "compactDocs"}
    BY <1>4 DEF CompactRows, CompactDocs, CleanDocs, At
  <2>2. /\ UNCHANGED <<man, meta, ov, ck, work, marks, mem, crashes, faults>>
        /\ run.pc \in {"compact", "compactDocs", "clean"}
        /\ run.pc # "clean" => data' \in {Materialized("rows"), Materialized("docs")}
        /\ run.pc = "clean" => data' = Wiped(data, "docs", {mem.hot})
    BY <1>4 DEF CompactRows, CompactDocs, CleanDocs, At, ckVars
  <2>p. p \in Pcs
    BY <1>0
  <2>3. run' \in Runs /\ run'.op = run.op /\ run'.k = run.k /\ run'.pc = p
    BY <1>0, <2>1, <2>p, PcRun
  <2>4. run.op \in Ops /\ run.k \in 1..2
    BY <1>0, <2>2 DEF Launched
  <2>5. run.pc \in {"compact", "compactDocs"} => ActiveParent > 0
    BY <1>0 DEF RoomInv
  <2>6. data' \in Datas
    BY <1>0, <2>2, <2>5, StoreType DEF Stores
  <2>7. Typed'
    BY <1>0, <2>2, <2>3, <2>6 DEF Typed
  <2> QED BY <1>h, <2>1, <2>2, <2>3, <2>4, <2>5, <2>7 DEF HotPcs
<1>5. CASE Unlink
  <2>1. /\ run.pc = "unlink" /\ UNCHANGED <<meta, data, ck, work, marks, mem, crashes, faults>>
        /\ run' = [run EXCEPT !.pc = "clean"] /\ ov' = Unhidden({ActiveEpoch})
        /\ man' = [man EXCEPT ![Active].parent = 0]
    BY <1>5 DEF Unlink, At, ckVars
  <2>2. run' \in Runs /\ run'.op = run.op /\ run'.k = run.k /\ run'.pc = "clean"
    BY <1>0, <2>1, PcRun
  <2>3. run.op \in Ops /\ run.k \in 1..2 /\ man[run.op].st # "active"
    BY <1>0, <2>1 DEF Launched, RoomInv, HotPcs
  <2>4. man' \in [Ops -> Rows] /\ \A o \in Ops : man'[o].st = man[o].st /\ man'[o].pub = man[o].pub
                                                /\ man'[o].data = man[o].data
    <3>1. CASE Active \in Ops
      <4> DEFINE r == [man[Active] EXCEPT !.parent = 0]
      <4>1. man' = [man EXCEPT ![Active] = r] /\ man[Active] \in Rows
        BY <1>0, <2>1, <3>1
      <4>2. r \in Rows /\ r.st = man[Active].st /\ r.pub = man[Active].pub /\ r.data = man[Active].data
        BY <4>1, GenAssumption DEF Rows, Bounded
      <4> HIDE DEF r
      <4> QED BY <1>0, <3>1, <4>1, <4>2
    <3>2. CASE Active \notin Ops
      BY <1>0, <2>1, <3>2
    <3> QED BY <3>1, <3>2
  <2>5. ov' \in Overrides
    BY <1>0, <2>1, StoreType
  <2>6. Typed'
    BY <1>0, <2>1, <2>2, <2>4, <2>5 DEF Typed
  <2>7. DistinctPubs(man')
    BY <1>0, <2>4 DEF DistinctPubs
  <2>8. ActOps(man') = ActOps(man) /\ ActOps(man) \subseteq Ops
    BY <2>4 DEF ActOps
  <2>9. ActiveEpoch' = ActiveEpoch
    BY <1>0, <2>4, <2>7, <2>8, SameTop, ActiveIsTop
  <2>10. Launched'
    BY <1>0, <2>1, <2>2 DEF Launched, HotPcs
  <2>11. RoomInv'
    BY <1>0, <2>1, <2>2, <2>3, <2>4, <2>9 DEF RoomInv, HotPcs
  <2> QED BY <2>6, <2>7, <2>10, <2>11
<1>6. CASE Register
  <2> DEFINE b == Begun(run.op, mem.hot)
             r == [b EXCEPT !.parent = ActiveEpoch, !.ready = TRUE]
  <2>1. /\ run.pc = "register" /\ UNCHANGED <<meta, ck, work, marks, mem, crashes, faults>>
        /\ man' = [man EXCEPT ![run.op] = r] /\ Prepared(run.failed)
        /\ data' = Wiped(data, "rows", {mem.hot}) /\ ov' = Unhidden({mem.hot})
    BY <1>6 DEF Register, At, ckVars
  <2>2. run' \in Runs /\ run'.op = run.op /\ run'.k \in 1..2 /\ run'.pc \in {"prepare", "abort", "process"}
    BY <1>0, <1>r, <2>1, PreparedRun
  <2>3. run.op \in Ops /\ man[run.op].st # "active" /\ mem.hot \in Bounded
    BY <1>0, <2>1 DEF Launched, RoomInv, HotPcs, Typed, Mems
  <2>4. /\ b \in Rows /\ b.st = "building"
        /\ \/ man[run.op].st # "none" /\ b.pub = man[run.op].pub
           \/ \A p \in Ops : man[p].pub < b.pub
    BY <1>0, <2>3, BegunRow
  <2> HIDE DEF b
  <2>5. r \in Rows /\ r.st = "building" /\ r.pub = b.pub
    BY <1>0, <2>4, EpochRange DEF Rows
  <2> HIDE DEF r
  <2>6. man' \in [Ops -> Rows] /\ DistinctPubs(man')
    BY <1>0, <2>1, <2>3, <2>4, <2>5, ReplaceRow
  <2>7. data' \in Datas /\ ov' \in Overrides
    BY <1>0, <2>1, StoreType DEF Stores
  <2>8. Typed'
    BY <1>0, <2>1, <2>2, <2>6, <2>7 DEF Typed
  <2>9. ActOps(man') = ActOps(man) /\ \A o \in ActOps(man) : man'[o] = man[o]
    BY <1>0, <2>1, <2>3, <2>5 DEF ActOps
  <2>10. ActiveEpoch' = ActiveEpoch
    BY <1>0, <2>6, <2>9, SameTop, ActiveIsTop
  <2>11. Launched'
    BY <1>0, <2>1, <2>2 DEF Launched, HotPcs
  <2>12. RoomInv'
    BY <1>0, <2>1, <2>2, <2>3, <2>5, <2>10 DEF RoomInv, HotPcs
  <2> QED BY <2>6, <2>8, <2>11, <2>12
<1>7. CASE PrepareFails \/ PrepareRefused
  <2>1. /\ run.pc \in HotPcs /\ UNCHANGED <<meta, data, ov, ck, work, marks, crashes>>
        /\ MarkFailed(run.op) /\ mem' = [mem EXCEPT !.slot = None] /\ Prepared(TRUE)
    BY <1>7 DEF PrepareFails, PrepareRefused, PreparationFailed, At, ckVars, HotPcs
  <2>2. run' \in Runs /\ run'.op = run.op /\ run'.k \in 1..2 /\ run'.pc \in {"prepare", "abort"}
    <3> DEFINE t == TRUE
    <3>1. t \in BOOLEAN /\ Prepared(t) /\ (IF t THEN "abort" ELSE "process") = "abort"
      BY <2>1
    <3> HIDE DEF t
    <3>2. /\ run' \in Runs /\ run'.op = run.op
          /\ run.k < 2 => run'.pc = "prepare" /\ run'.k = 2
          /\ ~(run.k < 2) => run'.pc = (IF t THEN "abort" ELSE "process") /\ run'.k = 1
      BY <1>0, <3>1, PreparedRun
    <3> QED BY <3>1, <3>2
  <2>3. run.op \in Ops /\ man[run.op].st # "active"
    BY <1>0, <2>1 DEF Launched, RoomInv, HotPcs
  <2>4. /\ man' \in [Ops -> Rows] /\ DistinctPubs(man') /\ ActiveEpoch' = ActiveEpoch
        /\ man'[run.op].st # "active"
    BY <1>0, <2>1, <2>3, MarkFailedType
  <2>5. mem' \in Mems
    BY <1>0, <2>1 DEF Typed, Mems
  <2>6. faults' \in 0..MaxFaults
    BY <1>0, <1>7, GenAssumption DEF PrepareFails, PrepareRefused, Typed
  <2>7. Typed'
    BY <1>0, <2>1, <2>2, <2>4, <2>5, <2>6 DEF Typed
  <2>8. Launched'
    BY <1>0, <2>1, <2>2 DEF Launched, HotPcs
  <2>9. RoomInv'
    BY <1>0, <2>1, <2>2, <2>4 DEF RoomInv, HotPcs
  <2> QED BY <2>4, <2>7, <2>8, <2>9
<1> QED BY <1>1, <1>2, <1>3, <1>4, <1>5, <1>6, <1>7, <1>8

\* So does processing, commit and abort.
LEMMA TypeProcess ==
  ASSUME TypeInv, Process \/ Mark \/ SkipModule \/ ProcessFails \/ Commit \/ CommitFails \/ Abort
  PROVE  TypeInv'
<1> USE DEF TypeInv
<1>0. /\ Typed /\ Launched /\ DistinctPubs(man) /\ RoomInv
      /\ run \in Runs /\ man \in [Ops -> Rows] /\ "mark" \in Pcs /\ "plan" \in Pcs /\ "abort" \in Pcs
  BY PcNames DEF Typed, HotPcs
<1>r. run.failed \in BOOLEAN
  BY <1>0 DEF Runs
<1>m. run.pc # "idle" => run.op \in Ops /\ run.k \in 1..2 /\ Module \in Stores
  <2>1. Modules[1] \in Stores /\ Modules[2] \in Stores
    BY DEF Modules, Stores
  <2> QED BY <1>0, <2>1 DEF Launched, Module
<1>1. CASE Process
  <2> DEFINE w == work[run.op]
             D(s) == [f \in Files |-> IF f \in w.put /\ s = Module THEN run.op
                                      ELSE IF f \in w.del THEN None ELSE data[s][mem.hot][f]]
  <2>1. /\ run.pc = "process" /\ UNCHANGED <<man, meta, ck, work, marks, mem, crashes, faults>>
        /\ data' = [s \in Stores |-> [data[s] EXCEPT ![mem.hot] = D(s)]]
        /\ ov' = [ov EXCEPT ![mem.hot] = @ \cup w.put \cup w.del]
        /\ run' = [run EXCEPT !.pc = "mark"]
    BY <1>1 DEF Process, At, ckVars
  <2>2. w \in Changes /\ run.op \in Ops
    BY <1>0, <2>1 DEF Launched, HotPcs
  <2>3. data' \in Datas
    <3>1. data \in [Stores -> [Epochs -> Epoch]]
      BY <1>0 DEF Typed, Datas
    <3>2. ASSUME NEW s \in Stores PROVE [data[s] EXCEPT ![mem.hot] = D(s)] \in [Epochs -> Epoch]
      <4>1. CASE mem.hot \in Epochs
        <5>1. data[s][mem.hot] \in Epoch
          BY <3>1, <4>1
        <5>2. D(s) \in Epoch
          BY <2>2, <5>1 DEF Epoch
        <5> HIDE DEF D
        <5> QED BY <3>1, <5>2
      <4>2. CASE mem.hot \notin Epochs
        <5> HIDE DEF D
        <5> QED BY <3>1, <4>2
      <4> QED BY <4>1, <4>2
    <3> HIDE DEF D
    <3> QED BY <2>1, <3>2 DEF Datas
  <2>4. ov' \in Overrides
    BY <1>0, <2>1, <2>2 DEF Typed, Overrides, Changes
  <2>5. run' \in Runs /\ run'.op = run.op /\ run'.k = run.k /\ run'.pc = "mark"
    BY <1>0, <2>1, PcRun
  <2>6. Typed'
    BY <1>0, <2>1, <2>3, <2>4, <2>5 DEF Typed
  <2>7. Launched' /\ RoomInv'
    BY <1>0, <2>1, <2>5, SameMan DEF Launched, RoomInv, HotPcs
  <2> QED BY <1>0, <2>1, <2>6, <2>7
<1>2. ASSUME NEW f \in BOOLEAN, NextModule(f), run.pc \in {"mark", "process"},
             UNCHANGED <<man, meta, data, ov, ck, work, mem, crashes>>, faults' \in 0..MaxFaults,
             marks' \in [Ops -> SUBSET (Stores \cup Files)]
      PROVE  TypeInv'
  <2>1. run' \in Runs /\ run'.op = run.op /\ run'.k \in 1..2 /\ run'.pc \in {"process", "abort", "commit"}
    BY <1>0, <1>2, NextModuleRun
  <2>2. Typed'
    BY <1>0, <1>2, <2>1 DEF Typed
  <2>3. Launched' /\ RoomInv'
    BY <1>0, <1>2, <2>1, SameMan DEF Launched, RoomInv, HotPcs
  <2> QED BY <1>0, <1>2, <2>2, <2>3
<1>3. CASE Mark
  <2>1. /\ run.pc = "mark" /\ marks' = [marks EXCEPT ![run.op] = @ \cup {Module}] /\ NextModule(run.failed)
        /\ UNCHANGED <<man, meta, data, ov, ck, work, mem, crashes, faults>>
    BY <1>3 DEF Mark, At, dbVars
  <2>2. marks' \in [Ops -> SUBSET (Stores \cup Files)]
    BY <1>0, <1>m, <2>1 DEF Typed
  <2> QED BY <1>0, <1>2, <1>r, <2>1, <2>2 DEF Typed
<1>4. CASE SkipModule
  <2>1. /\ run.pc = "process" /\ NextModule(run.failed)
        /\ UNCHANGED <<man, meta, data, ov, ck, work, marks, mem, crashes, faults>>
    BY <1>4 DEF SkipModule, At, dbVars, ckVars
  <2> QED BY <1>0, <1>2, <1>r, <2>1 DEF Typed
<1>5. CASE ProcessFails
  <2> DEFINE t == TRUE
  <2>1. /\ run.pc = "process" /\ NextModule(t) /\ faults' = faults + 1 /\ faults < MaxFaults
        /\ UNCHANGED <<man, meta, data, ov, ck, work, marks, mem, crashes>> /\ t \in BOOLEAN
    BY <1>5 DEF ProcessFails, At, dbVars, ckVars
  <2> HIDE DEF t
  <2>2. faults' \in 0..MaxFaults
    BY <1>0, <2>1, GenAssumption DEF Typed
  <2> QED BY <1>0, <1>2, <2>1, <2>2 DEF Typed
<1>6. CASE Commit
  <2>1. /\ run.pc = "commit" /\ Activate(run.op, mem.hot) /\ mem' = [mem EXCEPT !.slot = None]
        /\ run' = [run EXCEPT !.pc = "plan"]
        /\ UNCHANGED <<data, ov, ck, work, marks, crashes, faults>>
    BY <1>6 DEF Commit, At, ckVars
  <2>2. man' \in [Ops -> Rows] /\ DistinctPubs(man') /\ meta' \in Metas
    BY <1>0, <1>m, <2>1, ActivateType DEF Typed, Mems
  <2>3. run' \in Runs /\ run'.op = run.op /\ run'.k = run.k /\ run'.pc = "plan"
    BY <1>0, <2>1, PcRun
  <2>4. mem' \in Mems
    BY <1>0, <2>1 DEF Typed, Mems
  <2>5. Typed'
    BY <1>0, <2>1, <2>2, <2>3, <2>4 DEF Typed
  <2>6. Launched' /\ RoomInv'
    BY <1>0, <2>1, <2>3 DEF Launched, RoomInv, HotPcs
  <2> QED BY <2>2, <2>5, <2>6
<1>7. CASE CommitFails
  <2> DEFINE t == TRUE
  <2>1. /\ run.pc = "commit" /\ faults' = faults + 1 /\ faults < MaxFaults
        /\ UNCHANGED <<man, meta, data, ov, ck, work, marks, mem, crashes>> /\ t \in BOOLEAN
        /\ NextCommit(t) \/ run' = [run EXCEPT !.failed = t, !.pc = "abort"]
    BY <1>7 DEF CommitFails, At, dbVars, ckVars
  <2> HIDE DEF t
  <2>2. faults' \in 0..MaxFaults
    BY <1>0, <2>1, GenAssumption DEF Typed
  <2>3. CASE NextCommit(t)
    <3>1. /\ run' \in Runs /\ run'.op = run.op /\ run'.k \in 1..2
          /\ run'.pc \in {"commit", "abort", "republish"}
      BY <1>0, <2>1, <2>3, NextCommitRun
    <3>2. Typed'
      BY <1>0, <2>1, <2>2, <3>1 DEF Typed
    <3>3. Launched' /\ RoomInv'
      BY <1>0, <2>1, <3>1 DEF Launched, RoomInv, HotPcs
    <3> QED BY <1>0, <2>1, <3>2, <3>3
  <2>4. CASE run' = [run EXCEPT !.failed = t, !.pc = "abort"]
    <3>1. /\ run' \in Runs /\ run'.op = run.op /\ run'.k = run.k /\ run'.pc = "abort"
      BY <1>0, <2>1, <2>4 DEF Runs
    <3>2. Typed'
      BY <1>0, <2>1, <2>2, <3>1 DEF Typed
    <3>3. Launched' /\ RoomInv'
      BY <1>0, <2>1, <3>1 DEF Launched, RoomInv, HotPcs
    <3> QED BY <1>0, <2>1, <3>2, <3>3
  <2> QED BY <2>1, <2>3, <2>4
<1>8. CASE Abort
  <2>1. /\ run.pc = "abort" /\ MarkFailed(run.op) /\ mem' = [mem EXCEPT !.slot = None]
        /\ data' = Wiped(data, "rows", {mem.hot}) /\ ov' = Unhidden({mem.hot})
        /\ UNCHANGED <<meta, work, marks, crashes, faults>>
    BY <1>8 DEF Abort, At
  <2>2. man' \in [Ops -> Rows] /\ DistinctPubs(man')
    BY <1>0, <1>m, <2>1, MarkFailedType
  <2>3. mem' \in Mems /\ data' \in Datas /\ ov' \in Overrides
    BY <1>0, <2>1, StoreType DEF Typed, Mems, Stores
  <2>4. CASE run.k < 2
    <3>1. run' = [run EXCEPT !.k = 2] /\ UNCHANGED ck
      BY <1>8, <2>4 DEF Abort
    <3>2. run' \in Runs /\ run'.op = run.op /\ run'.k = 2 /\ run'.pc = run.pc
      BY <1>0, <3>1 DEF Runs
    <3>3. Typed'
      BY <1>0, <2>1, <2>2, <2>3, <3>1, <3>2 DEF Typed
    <3>4. Launched' /\ RoomInv'
      BY <1>0, <2>1, <3>1, <3>2 DEF Launched, RoomInv, HotPcs
    <3> QED BY <2>2, <3>3, <3>4
  <2>5. CASE ~(run.k < 2)
    <3> DEFINE c == IF run.op \in ConfigOps THEN "failed" ELSE ck[run.op]
    <3>1. run' = Idle /\ ck' = [ck EXCEPT ![run.op] = c]
      BY <1>8, <2>5 DEF Abort
    <3>2. run' \in Runs /\ run'.op = None /\ run'.pc = "idle"
      BY <3>1, LaunchRun
    <3>3. c \in {"none", "in_progress", "completed", "failed"} /\ (c = "in_progress" => c = ck[run.op])
      BY <1>0, <1>m, <2>1 DEF Typed
    <3> HIDE DEF c
    <3>4. Typed'
      BY <1>0, <2>1, <2>2, <2>3, <3>1, <3>2, <3>3 DEF Typed
    <3>5. \A o \in HotOps : ck'[o] = "in_progress" => ck[o] = "in_progress"
      BY <1>0, <3>1, <3>3 DEF Typed, Ops
    <3>6. Launched' /\ RoomInv'
      BY <1>0, <2>1, <3>2, <3>5 DEF Launched, RoomInv, HotPcs
    <3> QED BY <2>2, <3>4, <3>6
  <2> QED BY <2>4, <2>5
<1> QED BY <1>1, <1>3, <1>4, <1>5, <1>6, <1>7, <1>8

\* So does the collection of retired generations.
LEMMA TypeCollect ==
  ASSUME TypeInv, PlanGc \/ CollectDocs \/ CollectRows \/ GcFails
  PROVE  TypeInv'
<1> USE DEF TypeInv
<1>0. /\ Typed /\ Launched /\ DistinctPubs(man) /\ RoomInv
      /\ run \in Runs /\ man \in [Ops -> Rows]
      /\ "collectDocs" \in Pcs /\ "collectRows" \in Pcs /\ "finish" \in Pcs
  BY PcNames DEF Typed, GcPcs
<1>r. run.failed \in BOOLEAN
  BY <1>0 DEF Runs
<1>m. run.pc # "idle" => run.op \in Ops /\ run.k \in 1..2
  BY <1>0 DEF Launched
<1>n. NoPlan \in Plans
  BY DEF NoPlan, Plans
<1>1. CASE PlanGc
  <2>1. run.pc = "plan" /\ UNCHANGED <<man, meta, data, ov, ck, work, marks, mem, crashes, faults>>
    BY <1>1 DEF PlanGc, At, dbVars, ckVars
  <2>2. PICK old \in SUBSET Ops : run' = [run EXCEPT !.plan = GcPlan(old), !.pc = "collectDocs"]
    BY <1>1 DEF PlanGc
  <2>3. GcPlan(old) \in Plans
    BY <1>0, PlanType
  <2> HIDE DEF GcPlan, Plans
  <2>4. run' \in Runs /\ run'.op = run.op /\ run'.k = run.k /\ run'.pc = "collectDocs"
    BY <1>0, <2>2, <2>3 DEF Runs
  <2>5. Typed'
    BY <1>0, <2>1, <2>4 DEF Typed
  <2>6. Launched' /\ RoomInv'
    BY <1>0, <2>1, <2>4 DEF Launched, RoomInv, HotPcs
  <2> QED BY <1>0, <2>1, <2>5, <2>6
<1>2. CASE CollectDocs
  <2>1. /\ run.pc = "collectDocs" /\ UNCHANGED <<man, meta, ov, ck, work, marks, mem, crashes, faults>>
        /\ data' = Wiped(data, "docs", Epochs \ run.plan.protected) /\ run' = [run EXCEPT !.pc = "collectRows"]
    BY <1>2 DEF CollectDocs, At, ckVars
  <2>2. run' \in Runs /\ run'.op = run.op /\ run'.k = run.k /\ run'.pc = "collectRows"
    BY <1>0, <2>1, PcRun
  <2>3. data' \in Datas
    BY <1>0, <2>1, StoreType DEF Stores
  <2>4. Typed'
    BY <1>0, <2>1, <2>2, <2>3 DEF Typed
  <2>5. Launched' /\ RoomInv'
    BY <1>0, <2>1, <2>2 DEF Launched, RoomInv, HotPcs
  <2> QED BY <1>0, <2>1, <2>4, <2>5
<1>3. ASSUME run.pc \in GcPcs,
             \/ run.op \in FullOps /\ run' = Idle
             \/ run.op \in FullOps /\ run' = [run EXCEPT !.pc = "finish", !.plan = NoPlan]
             \/ NextCommit(run.failed)
      PROVE  /\ run' \in Runs /\ run'.pc \in {"idle", "finish", "commit", "abort", "republish"}
             /\ run'.pc = "idle" => run'.op = None
             /\ run'.pc # "idle" => run'.op \in Ops /\ run'.k \in 1..2
  <2>1. run.op \in Ops /\ run.k \in 1..2
    BY <1>3, <1>m DEF GcPcs
  <2>2. CASE run' = Idle
    BY <2>2, LaunchRun
  <2>3. CASE run' = [run EXCEPT !.pc = "finish", !.plan = NoPlan]
    <3> HIDE DEF NoPlan, Plans
    <3> QED BY <1>0, <1>n, <2>1, <2>3 DEF Runs
  <2>4. CASE NextCommit(run.failed)
    BY <1>0, <1>r, <2>1, <2>4, NextCommitRun
  <2> QED BY <1>3, <2>2, <2>3, <2>4
<1>4. CASE CollectRows
  <2>1. /\ run.pc = "collectRows" /\ UNCHANGED <<meta, ck, work, marks, mem, crashes, faults>>
        /\ data' = Wiped(data, "rows", run.plan.stale) /\ ov' = Unhidden(run.plan.stale)
        /\ man' = [o \in Ops |-> IF man[o].pub \in run.plan.pubs THEN NoRow ELSE man[o]]
        /\ \/ run.op \in FullOps /\ run' = [run EXCEPT !.pc = "finish", !.plan = NoPlan]
           \/ NextCommit(run.failed)
    BY <1>4 DEF CollectRows, At, ckVars
  <2>2. /\ run' \in Runs /\ run'.pc \in {"idle", "finish", "commit", "abort", "republish"}
        /\ run'.pc = "idle" => run'.op = None
        /\ run'.pc # "idle" => run'.op \in Ops /\ run'.k \in 1..2
    BY <1>3, <2>1 DEF GcPcs
  <2>3. data' \in Datas /\ ov' \in Overrides
    BY <1>0, <2>1, StoreType DEF Stores
  <2>4. NoRow \in Rows /\ NoRow.st = "none"
    BY GenAssumption DEF NoRow, Rows, Bounded
  <2>5. man' \in [Ops -> Rows]
    <3> HIDE DEF NoRow, Rows
    <3> QED BY <1>0, <2>1, <2>4
  <2>6. DistinctPubs(man')
    <3>1. \A o \in Ops : man'[o].st # "none" => man'[o] = man[o]
      <4> HIDE DEF NoRow
      <4> QED BY <2>1, <2>4
    <3> QED BY <1>0, <3>1 DEF DistinctPubs
  <2>7. Typed'
    BY <1>0, <2>1, <2>2, <2>3, <2>5 DEF Typed
  <2>8. Launched' /\ RoomInv'
    BY <1>0, <2>1, <2>2 DEF Launched, RoomInv, HotPcs
  <2> QED BY <2>6, <2>7, <2>8
<1>5. CASE GcFails
  <2>1. /\ run.pc \in GcPcs /\ UNCHANGED <<man, meta, data, ov, ck, work, marks, mem, crashes>>
        /\ faults' = faults + 1 /\ faults < MaxFaults
        /\ \/ run.op \in FullOps /\ run' = Idle
           \/ NextCommit(run.failed)
    BY <1>5 DEF GcFails, GcPcs, dbVars, ckVars
  <2>2. /\ run' \in Runs /\ run'.pc \in {"idle", "finish", "commit", "abort", "republish"}
        /\ run'.pc = "idle" => run'.op = None
        /\ run'.pc # "idle" => run'.op \in Ops /\ run'.k \in 1..2
    BY <1>3, <2>1
  <2>3. faults' \in 0..MaxFaults
    BY <1>0, <2>1, GenAssumption DEF Typed
  <2>4. Typed'
    BY <1>0, <2>1, <2>2, <2>3 DEF Typed
  <2>5. Launched' /\ RoomInv'
    BY <1>0, <2>1, <2>2 DEF Launched, RoomInv, HotPcs
  <2> QED BY <1>0, <2>1, <2>4, <2>5
<1> QED BY <1>1, <1>2, <1>4, <1>5

\* So does every step of a full index.
LEMMA TypeFull ==
  ASSUME TypeInv, \/ FullNotReady \/ FullScan \/ FullManifest \/ FullActivate \/ FullFails
                  \/ \E f \in Files : FullBatch(f)
  PROVE  TypeInv'
<1> USE DEF TypeInv
<1>0. /\ Typed /\ Launched /\ DistinctPubs(man) /\ RoomInv
      /\ run \in Runs /\ man \in [Ops -> Rows] /\ meta \in Metas /\ mem \in Mems
      /\ {"scan", "manifest", "batch", "plan"} \subseteq Pcs
  BY PcNames DEF Typed, FullPcs
<1>m. run.pc # "idle" => run.op \in Ops /\ run.k \in 1..2
  BY <1>0 DEF Launched
<1>h. ASSUME \/ run'.op \in Ops /\ run'.k \in 1..2 /\ run'.pc \in FullPcs \cup {"plan"}
             \/ run'.op = None /\ run'.pc = "idle",
             \A o \in HotOps : ck'[o] = "in_progress" => work'[o] \in Changes
      PROVE  Launched' /\ RoomInv'
  BY <1>h DEF Launched, RoomInv, HotPcs, FullPcs
<1>w. UNCHANGED <<ck, work>> => \A o \in HotOps : ck'[o] = "in_progress" => work'[o] \in Changes
  BY <1>0 DEF Launched
<1>1. CASE FullNotReady
  <2>1. /\ run.pc = "ready" /\ meta' = [meta EXCEPT !.ready = FALSE] /\ run' = [run EXCEPT !.pc = "scan"]
        /\ UNCHANGED <<man, data, ov, ck, work, marks, mem, crashes, faults>>
    BY <1>1 DEF FullNotReady, At, ckVars
  <2>2. run' \in Runs /\ run'.op = run.op /\ run'.k = run.k /\ run'.pc = "scan"
    BY <1>0, <2>1, PcRun
  <2>3. meta' \in Metas
    BY <1>0, <2>1 DEF Metas
  <2>4. Typed'
    BY <1>0, <2>1, <2>2, <2>3 DEF Typed
  <2>5. Launched' /\ RoomInv'
    BY <1>h, <1>m, <1>w, <2>1, <2>2 DEF FullPcs
  <2> QED BY <1>0, <2>1, <2>4, <2>5
<1>2. CASE FullScan
  <2>1. /\ run.pc = "scan" /\ run' = [run EXCEPT !.pc = "manifest"]
        /\ UNCHANGED <<man, meta, data, ov, marks, mem, crashes, faults>>
    BY <1>2 DEF FullScan, At, dbVars
  <2>2. run' \in Runs /\ run'.op = run.op /\ run'.k = run.k /\ run'.pc = "manifest"
    BY <1>0, <2>1, PcRun
  <2>3. CASE ck[run.op] = "in_progress"
    <3>1. UNCHANGED <<ck, work>>
      BY <1>2, <2>3 DEF FullScan
    <3>2. Typed'
      BY <1>0, <2>1, <2>2, <3>1 DEF Typed
    <3>3. Launched' /\ RoomInv'
      BY <1>h, <1>m, <1>w, <2>1, <2>2, <3>1 DEF FullPcs
    <3> QED BY <1>0, <2>1, <3>2, <3>3
  <2>4. CASE ck[run.op] # "in_progress"
    <3>1. PICK put \in Scans : work' = [work EXCEPT ![run.op] = [put |-> put, del |-> Files \ put]]
      BY <1>2, <2>4 DEF FullScan
    <3> DEFINE c == [put |-> put, del |-> Files \ put]
    <3>2. c \in Changes /\ work' = [work EXCEPT ![run.op] = c] /\ ck' = [ck EXCEPT ![run.op] = "in_progress"]
      BY <1>2, <2>4, <3>1, GenAssumption DEF FullScan, Changes
    <3> HIDE DEF c
    <3>3. Typed'
      BY <1>0, <2>1, <2>2, <3>2 DEF Typed
    <3>4. \A o \in HotOps : ck'[o] = "in_progress" => work'[o] \in Changes
      BY <1>0, <1>m, <2>1, <3>2 DEF Launched, Typed
    <3>5. Launched' /\ RoomInv'
      BY <1>h, <1>m, <2>1, <2>2, <3>4 DEF FullPcs
    <3> QED BY <1>0, <2>1, <3>3, <3>5
  <2> QED BY <2>3, <2>4
<1>3. CASE FullManifest
  <2>1. /\ run.pc = "manifest" /\ UNCHANGED <<meta, data, ov, ck, work, marks, mem, crashes, faults>>
    BY <1>3 DEF FullManifest, At, ckVars
  <2>2. CASE CanBegin(run.op, mem.full)
    <3> DEFINE b == Begun(run.op, mem.full)
    <3>1. man' = [man EXCEPT ![run.op] = b] /\ run' = [run EXCEPT !.pc = "batch"]
      BY <1>3, <2>2 DEF FullManifest
    <3>2. /\ b \in Rows
          /\ \/ man[run.op].st # "none" /\ b.pub = man[run.op].pub
             \/ \A p \in Ops : man[p].pub < b.pub
      BY <1>0, <1>m, <2>1, BegunRow DEF Mems
    <3> HIDE DEF b
    <3>3. man' \in [Ops -> Rows] /\ DistinctPubs(man')
      BY <1>0, <1>m, <2>1, <3>1, <3>2, ReplaceRow
    <3>4. run' \in Runs /\ run'.op = run.op /\ run'.k = run.k /\ run'.pc = "batch"
      BY <1>0, <3>1, PcRun
    <3>5. Typed'
      BY <1>0, <2>1, <3>3, <3>4 DEF Typed
    <3>6. Launched' /\ RoomInv'
      BY <1>h, <1>m, <1>w, <2>1, <3>4 DEF FullPcs
    <3> QED BY <3>3, <3>5, <3>6
  <2>3. CASE ~CanBegin(run.op, mem.full)
    <3>1. UNCHANGED man /\ run' = Idle
      BY <1>3, <2>3 DEF FullManifest
    <3>2. Typed'
      BY <1>0, <2>1, <3>1, LaunchRun DEF Typed
    <3>3. Launched' /\ RoomInv'
      BY <1>h, <1>w, <2>1, <3>1, LaunchRun
    <3> QED BY <1>0, <3>1, <3>2, <3>3
  <2> QED BY <2>2, <2>3
<1>4. CASE FullActivate
  <2>1. /\ run.pc = "batch" /\ Activate(run.op, mem.full) /\ run' = [run EXCEPT !.pc = "plan"]
        /\ UNCHANGED <<data, ov, ck, work, marks, mem, crashes, faults>>
    BY <1>4 DEF FullActivate, At, ckVars
  <2>2. man' \in [Ops -> Rows] /\ DistinctPubs(man') /\ meta' \in Metas
    BY <1>0, <1>m, <2>1, ActivateType DEF Mems
  <2>3. run' \in Runs /\ run'.op = run.op /\ run'.k = run.k /\ run'.pc = "plan"
    BY <1>0, <2>1, PcRun
  <2>4. Typed'
    BY <1>0, <2>1, <2>2, <2>3 DEF Typed
  <2>5. Launched' /\ RoomInv'
    BY <1>h, <1>m, <1>w, <2>1, <2>3
  <2> QED BY <2>2, <2>4, <2>5
<1>5. CASE FullFails
  <2>1. /\ run.pc = "batch" /\ MarkFailed(run.op) /\ run' = Idle /\ faults' = faults + 1 /\ faults < MaxFaults
        /\ UNCHANGED <<meta, data, ov, ck, work, marks, mem, crashes>>
    BY <1>5 DEF FullFails, At, ckVars
  <2>2. man' \in [Ops -> Rows] /\ DistinctPubs(man')
    BY <1>0, <1>m, <2>1, MarkFailedType
  <2>3. faults' \in 0..MaxFaults
    BY <1>0, <2>1, GenAssumption DEF Typed
  <2>4. Typed'
    BY <1>0, <2>1, <2>2, <2>3, LaunchRun DEF Typed
  <2>5. Launched' /\ RoomInv'
    BY <1>h, <1>w, <2>1, LaunchRun
  <2> QED BY <2>2, <2>4, <2>5
<1>6. ASSUME NEW f \in Files, FullBatch(f) PROVE TypeInv'
  <2>1. /\ run.pc = "batch" /\ UNCHANGED <<man, meta, ov, ck, work, mem, run, crashes, faults>>
        /\ data' = [s \in Stores |-> [data[s] EXCEPT ![mem.full][f] = run.op]]
        /\ marks' = [marks EXCEPT ![run.op] = @ \cup {f}]
    BY <1>6 DEF FullBatch, At
  <2>2. marks' \in [Ops -> SUBSET (Stores \cup Files)]
    BY <1>0, <2>1 DEF Typed
  <2>3. data' \in Datas
    <3>1. data \in [Stores -> [Epochs -> Epoch]] /\ run.op \in Ops
      BY <1>0, <1>m, <2>1 DEF Typed, Datas
    <3>2. ASSUME NEW s \in Stores PROVE [data[s] EXCEPT ![mem.full][f] = run.op] \in [Epochs -> Epoch]
      <4> DEFINE v == [data[s][mem.full] EXCEPT ![f] = run.op]
      <4>1. [data[s] EXCEPT ![mem.full][f] = run.op] = [data[s] EXCEPT ![mem.full] = v]
        OBVIOUS
      <4>2. mem.full \in Epochs => v \in Epoch
        BY <3>1 DEF Epoch
      <4> HIDE DEF v
      <4>3. [data[s] EXCEPT ![mem.full] = v] \in [Epochs -> Epoch]
        BY <3>1, <4>2
      <4> QED BY <4>1, <4>3
    <3> QED BY <2>1, <3>2 DEF Datas
  <2>4. Typed'
    BY <1>0, <2>1, <2>2, <2>3 DEF Typed
  <2>5. Launched' /\ RoomInv'
    BY <1>0, <2>1, SameMan DEF Launched, RoomInv
  <2> QED BY <1>0, <2>1, <2>4, <2>5
<1> QED BY <1>1, <1>2, <1>3, <1>4, <1>5, <1>6

\* Every step keeps the first layer.
LEMMA TypeStep ==
  TypeInv /\ [GenNext]_genVars => TypeInv'
<1> SUFFICES ASSUME TypeInv, [GenNext]_genVars PROVE TypeInv'
  OBVIOUS
<1>0. /\ Typed /\ Launched /\ DistinctPubs(man) /\ RoomInv /\ run \in Runs /\ man \in [Ops -> Rows]
  BY DEF TypeInv, Typed
<1>1. CASE \/ \E o \in HotOps : StartHot(o) \/ ResumeHot(o)
           \/ \E o \in ConfigOps : StartConfig(o)
           \/ \E o \in FullOps : StartFull(o)
  BY <1>1, TypeStart
<1>2. CASE HotStep \/ AdoptFails \/ PrepareFails \/ ProcessFails \/ CommitFails
  BY <1>2, TypePrepare, TypeProcess DEF HotStep
<1>3. CASE GcStep \/ GcFails
  BY <1>3, TypeCollect DEF GcStep
<1>4. CASE FullStep \/ FullFails
  BY <1>4, TypeFull DEF FullStep
<1>5. CASE Finish
  <2>1. /\ run.pc \in {"republish", "finish"} /\ ck' = [ck EXCEPT ![run.op] = "completed"] /\ run' = Idle
        /\ UNCHANGED <<man, meta, data, ov, work, marks, mem, crashes, faults>>
    BY <1>5 DEF Finish, dbVars
  <2>2. Typed'
    BY <1>0, <2>1, LaunchRun DEF Typed
  <2>3. Launched' /\ RoomInv'
    BY <1>0, <2>1, LaunchRun DEF Launched, RoomInv, HotPcs, Typed, Ops
  <2> QED BY <1>0, <2>1, <2>2, <2>3 DEF TypeInv
<1>6. CASE \E o \in RelOps : Republish(o)
  <2>1. PICK o \in RelOps : Republish(o)
    BY <1>6
  <2> DEFINE c == [put |-> {}, del |-> {}]
  <2>2. /\ run.pc = "republish" /\ Activate(o, ActiveEpoch) /\ run' = [run EXCEPT !.pc = "finish"]
        /\ work' = [work EXCEPT ![o] = c] /\ c \in Changes
        /\ UNCHANGED <<data, ov, ck, marks, mem, crashes, faults>> /\ o \in Ops
    BY <2>1 DEF Republish, At, Changes, Ops
  <2> HIDE DEF c
  <2>3. man' \in [Ops -> Rows] /\ DistinctPubs(man') /\ meta' \in Metas
    BY <1>0, <2>2, EpochRange, ActivateType DEF Typed
  <2>4. run' \in Runs /\ run'.op = run.op /\ run'.k = run.k /\ run'.pc = "finish"
    BY <1>0, <2>2, PcNames, PcRun
  <2>5. Typed'
    BY <1>0, <2>2, <2>3, <2>4 DEF Typed
  <2>6. Launched' /\ RoomInv'
    BY <1>0, <2>2, <2>4 DEF Launched, RoomInv, HotPcs, Typed
  <2> QED BY <2>3, <2>5, <2>6 DEF TypeInv
<1>7. CASE Crash
  <2>1. /\ crashes < MaxCrashes /\ crashes' = crashes + 1 /\ run' = Idle
        /\ mem' = [hot |-> meta.active, slot |-> None, full |-> 0]
        /\ UNCHANGED <<man, meta, data, ov, ck, work, marks, faults>>
    BY <1>7 DEF Crash, dbVars, ckVars
  <2>2. mem' \in Mems /\ crashes' \in 0..MaxCrashes
    BY <1>0, <2>1, GenAssumption DEF Typed, Mems, Metas, Bounded
  <2>3. Typed'
    BY <1>0, <2>1, <2>2, LaunchRun DEF Typed
  <2>4. Launched' /\ RoomInv'
    BY <1>0, <2>1, LaunchRun DEF Launched, RoomInv, HotPcs
  <2> QED BY <1>0, <2>1, <2>3, <2>4 DEF TypeInv
<1>8. CASE UNCHANGED genVars
  <2>1. UNCHANGED <<man, meta, data, ov, ck, work, marks, mem, run, crashes, faults>>
    BY <1>8 DEF genVars
  <2>2. Typed' /\ Launched' /\ RoomInv'
    BY <1>0, <2>1, SameMan DEF Typed, Launched, RoomInv
  <2> QED BY <1>0, <2>1, <2>2 DEF TypeInv
<1> QED BY <1>1, <1>2, <1>3, <1>4, <1>5, <1>6, <1>7, <1>8 DEF GenNext, RunStep, Fault

\* It holds at first.
LEMMA TypeInit ==
  GenInit => TypeInv
<1> SUFFICES ASSUME GenInit PROVE TypeInv
  OBVIOUS
<1>1. NoRow \in Rows /\ NoRow.st = "none" /\ Blank \in Epoch /\ 0 \in Bounded
  BY GenAssumption DEF NoRow, Rows, Bounded, Blank, Epoch
<1> HIDE DEF NoRow, Blank, Epoch, Rows
<1>2. man \in [Ops -> Rows] /\ \A o \in Ops : man[o].st = "none"
  BY <1>1 DEF GenInit
<1>3. meta \in Metas /\ mem \in Mems
  BY <1>1 DEF GenInit, Metas, Mems
<1>4. data \in Datas /\ ov \in Overrides
  BY <1>1 DEF GenInit, Datas, Overrides
<1>5. run \in Runs /\ run.op = None /\ run.pc = "idle"
  BY LaunchRun DEF GenInit
<1>6. Typed
  BY <1>2, <1>3, <1>4, <1>5, GenAssumption DEF Typed, GenInit
<1>7. Launched /\ RoomInv
  BY <1>5 DEF Launched, RoomInv, HotPcs, GenInit, Ops
<1>8. DistinctPubs(man)
  BY <1>2 DEF DistinctPubs
<1> QED BY <1>6, <1>7, <1>8 DEF TypeInv

\* What an operation has been overtaken by, and what has been done to readers, is
\* never forgotten.
HistoryGrows == lapped \subseteq lapped' /\ harm \subseteq harm'

\* Every step keeps the history; only a start adds to it, and an abort.
LEMMA HistoryStep ==
  ASSUME [GenNext]_genVars
  PROVE  /\ HistoryGrows
         /\ lapped \in SUBSET Ops /\ harm \in SUBSET Harms => lapped' \in SUBSET Ops /\ harm' \in SUBSET Harms
<1>0. HotOps \subseteq Ops /\ FullOps \subseteq Ops
  BY DEF Ops
<1> USE DEF HistoryGrows, Harms
<1>1. ASSUME NEW o \in HotOps, StartHot(o) \/ ResumeHot(o) PROVE
        /\ lapped' = lapped \/ Overtake(o)
        /\ harm \subseteq harm' /\ harm' \subseteq harm \cup Harms
  BY <1>1 DEF StartHot, ResumeHot, Resume
<1>2. ASSUME NEW o \in ConfigOps, StartConfig(o) PROVE Overtake(o) /\ harm' = harm
  BY <1>2 DEF StartConfig
<1>3. ASSUME NEW o \in FullOps, StartFull(o) PROVE
        Overtake(o) /\ harm \subseteq harm' /\ harm' \subseteq harm \cup Harms
  BY <1>3 DEF StartFull
<1>4. CASE HotStep
  BY <1>4 DEF HotStep, PrepareAgain, Adopt, Resolve, CompactRows, CompactDocs, Unlink, CleanDocs, Register,
              PrepareRefused, PreparationFailed, Process, Mark, SkipModule, Commit, Abort
<1>5. CASE Fault
  BY <1>5 DEF Fault, AdoptFails, PrepareFails, PreparationFailed, ProcessFails, CommitFails, GcFails, FullFails, Crash
<1>6. CASE GcStep \/ FullStep \/ Finish \/ \E o \in RelOps : Republish(o)
  BY <1>6 DEF GcStep, PlanGc, CollectDocs, CollectRows, FullStep, FullNotReady, FullScan, FullManifest,
              FullActivate, FullBatch, Finish, Republish
<1>7. CASE UNCHANGED genVars
  BY <1>7 DEF genVars
<1>8. ASSUME NEW o, Overtake(o) PROVE lapped \subseteq lapped' /\ (lapped \in SUBSET Ops => lapped' \in SUBSET Ops)
  BY <1>0, <1>8 DEF Overtake, Unfinished
<1> QED BY <1>1, <1>2, <1>3, <1>4, <1>5, <1>6, <1>7, <1>8 DEF GenNext, RunStep

\* The first layer holds in every reachable state, whatever overtakes what.
THEOREM GenInvariance == GenSpec => []TypeInv
BY TypeInit, TypeStep, PTL DEF GenSpec

\* Types: manifest rows, meta values, stores, overrides, checkpoints, markers and the
\* running operation keep their types through crashes, adoption and collection.
THEOREM GenTyping == GenSpec => []GenTypeOK
<1> DEFINE H == lapped \in SUBSET Ops /\ harm \in SUBSET Harms
<1>1. TypeInv /\ H => GenTypeOK
  <2> SUFFICES ASSUME TypeInv, H PROVE GenTypeOK
    OBVIOUS
  <2>1. Typed /\ Bounded \subseteq Nat
    BY GenAssumption DEF TypeInv, Bounded
  <2>2. man \in [Ops -> [st : {"none", "building", "active", "failed"}, pub : Nat,
                         data : Nat, parent : Nat, ready : BOOLEAN]]
    BY <2>1 DEF Typed, Rows
  <2>3. meta \in [epoch : Nat, active : Nat, ready : BOOLEAN]
    BY <2>1 DEF Typed, Metas
  <2>4. mem \in [hot : Nat, slot : Ops \cup {None}, full : Nat]
    BY <2>1 DEF Typed, Mems
  <2> QED BY <2>1, <2>2, <2>3, <2>4 DEF GenTypeOK, Typed, Datas, Overrides, Changes, Runs,
             Epoch
<1>2. GenInit => H
  BY DEF GenInit
<1>3. H /\ [GenNext]_genVars => H'
  BY HistoryStep
<1> QED BY <1>1, <1>2, <1>3, GenInvariance, PTL DEF GenSpec

---------------------------------------------------------------------------
\* Its preparation has failed, and the coordinator may have kept the slot with an
\* epoch of before (a failed adoption).
Astray == run.failed /\ run.pc \in {"prepare", "abort"}
\* The slot of a prepared candidate (prepare_candidate) is that of the running
\* operation, and the candidate is one epoch ahead of the published generation.
SlotInv ==
  /\ mem.slot # None => mem.slot = run.op
  /\ mem.slot # None => mem.hot = ActiveEpoch + 1 \/ Astray
  /\ run.pc \in HotPcs \ {"prepare"} => mem.slot = run.op
  /\ run.pc = "prepare" /\ run.k = 2 /\ ~run.failed => mem.slot = run.op
  /\ run.pc \in GcPcs \cup FullPcs \cup {"idle", "republish", "finish"} => mem.slot = None
\* No epoch about to be activated is behind the active one.
EpochInv ==
  /\ ActiveEpoch <= meta.epoch
  /\ run.pc \in FullPcs => run.op \in FullOps /\ ActiveEpoch <= mem.full
  /\ run.pc = "commit" => ActiveEpoch <= mem.hot
  /\ run.pc \in GcPcs /\ run.op \notin FullOps => ActiveEpoch <= mem.hot
\* A collection plan does not name the active publication.
PlanInv ==
  run.pc \in {"collectDocs", "collectRows"} /\ ActiveOps # {} => ActivePub \notin run.plan.pubs
\* The second layer of the inductive invariant.
OrderInv == SlotInv /\ EpochInv /\ PlanInv
\* A step that does not take the published generation back.
Ahead == ActivePub' >= ActivePub /\ ActiveEpoch' >= ActiveEpoch

\* Activating an epoch that is not behind the active one does not take it back: the
\* row is the newest, or the publication stays what it was.
LEMMA ActivateTop ==
  ASSUME Typed, DistinctPubs(man), NEW o \in Ops, NEW e \in Bounded, Activate(o, e),
         ActiveEpoch <= e, ActiveEpoch <= meta.epoch
  PROVE  Ahead /\ ActiveEpoch' <= e /\ ActiveEpoch' <= meta'.epoch
<1> DEFINE r == Activated(o, e)
<1>0. /\ man \in [Ops -> Rows] /\ meta \in Metas /\ Bounded \subseteq Nat
      /\ ActiveEpoch \in Bounded /\ ActivePub \in Nat
  BY EpochRange, GenAssumption DEF Typed, Bounded
<1>1. man' = [man EXCEPT ![o] = r]
  BY DEF Activate
<1>2. man' \in [Ops -> Rows] /\ DistinctPubs(man')
  BY <1>0, ActivateType
<1>3. CASE man[o].st = "active"
  <2>1. r = man[o]
    BY <1>0, <1>3, ActivatedRow
  <2> HIDE DEF r
  <2>2. man' = man
    BY <1>0, <1>1, <2>1
  <2>3. meta' = meta
    BY <1>3 DEF Activate
  <2> QED BY <1>0, <2>2, <2>3, SameMan DEF Ahead
<1>4. CASE man[o].st # "active"
  <2>1. r \in Rows /\ r.st = "active" /\ r.data = e /\ meta'.epoch = e /\ r.pub \in Nat
    <3>1. CASE man[o].st = "none"
      BY <1>0, <1>4, <3>1, ActivatedRow, BegunRow DEF Activate, Rows
    <3>2. CASE man[o].st # "none"
      BY <1>0, <1>4, <3>2, ActivatedRow, BegunRow DEF Activate, CanBegin, Rows
    <3> QED BY <3>1, <3>2
  <2> HIDE DEF r
  <2>2. ActOps(man') = ActOps(man) \cup {o} /\ man'[o] = r /\ o \notin ActOps(man)
        /\ \A p \in ActOps(man) : man'[p] = man[p] /\ man[p].pub \in Nat
    BY <1>0, <1>1, <1>4, <2>1 DEF ActOps, Rows
  <2>3. CASE IsTop(man', o)
    <3>1. TopEpoch(man') = e /\ TopPub(man') = r.pub
      BY <1>2, <2>1, <2>2, <2>3, TopIs
    <3>2. TopPub(man) <= r.pub
      <4>1. CASE ActOps(man) = {}
        BY <2>1, <4>1 DEF TopPub
      <4>2. CASE ActOps(man) # {}
        <5>1. Top(man) \in ActOps(man)
          BY <1>0, <4>2, TopExists DEF IsTop
        <5> QED BY <2>2, <2>3, <4>2, <5>1 DEF IsTop, TopPub
      <4> QED BY <4>1, <4>2
    <3> QED BY <1>0, <2>1, <3>1, <3>2, ActiveIsTop DEF Ahead
  <2>4. CASE ~IsTop(man', o)
    <3>1. ActOps(man) # {}
      BY <2>1, <2>2, <2>4 DEF IsTop
    <3>2. IsTop(man, Top(man))
      BY <1>0, <3>1, TopExists
    <3> DEFINE t == Top(man)
    <3>3. t \in ActOps(man) /\ \A p \in ActOps(man) : man[p].pub <= man[t].pub
      BY <3>2 DEF IsTop
    <3> HIDE DEF t
    <3>4. \E p \in ActOps(man) : ~(man[p].pub <= r.pub)
      BY <2>1, <2>2, <2>4 DEF IsTop
    <3>5. r.pub <= man[t].pub
      BY <2>1, <2>2, <3>3, <3>4
    <3>6. IsTop(man', t)
      BY <2>2, <3>3, <3>5 DEF IsTop
    <3>7. TopEpoch(man') = man'[t].data /\ TopPub(man') = man'[t].pub
      BY <1>2, <3>6, TopIs
    <3>8. TopEpoch(man') = TopEpoch(man) /\ TopPub(man') = TopPub(man)
      BY <2>2, <3>1, <3>3, <3>7 DEF t, TopEpoch, TopPub
    <3> QED BY <1>0, <2>1, <3>8, ActiveIsTop DEF Ahead
  <2> QED BY <2>3, <2>4
<1> QED BY <1>3, <1>4

\* Starting or resuming an operation keeps the second layer and publishes nothing
\* older.
LEMMA OrderStart ==
  ASSUME TypeInv, OrderInv,
         \/ \E o \in HotOps : StartHot(o) \/ ResumeHot(o)
         \/ \E o \in ConfigOps : StartConfig(o)
         \/ \E o \in FullOps : StartFull(o)
  PROVE  OrderInv' /\ Ahead
<1>0. /\ Typed /\ SlotInv /\ EpochInv /\ PlanInv /\ ActiveEpoch \in Nat /\ ActivePub \in Nat
      /\ HotOps \subseteq Ops /\ ConfigOps \subseteq Ops /\ FullOps \subseteq Ops
      /\ "prepare" \in Pcs /\ "ready" \in Pcs
  BY PcNames, EpochRange, GenAssumption DEF TypeInv, OrderInv, Bounded, Ops, FullPcs
<1>1. run.pc = "idle" /\ mem.slot = None /\ UNCHANGED man
  BY <1>0 DEF StartHot, ResumeHot, StartConfig, StartFull, At, SlotInv, dbVars
<1>2. Ahead /\ ActiveEpoch' = ActiveEpoch
  BY <1>0, <1>1, SameMan DEF Ahead
<1>3. CASE \E o \in FullOps : StartFull(o)
  <2>1. PICK o \in FullOps : StartFull(o)
    BY <1>3
  <2> DEFINE e == IF meta.epoch > 0 /\ (~meta.ready \/ Unfinished(FullOps) # {})
                  THEN meta.epoch ELSE meta.epoch + 1
  <2>2. run'.op = o /\ run'.pc = "ready"
    BY <1>0, <2>1, LaunchRun DEF StartFull
  <2>3. mem' = [mem EXCEPT !.full = e] /\ meta' = [meta EXCEPT !.epoch = e]
    BY <2>1 DEF StartFull
  <2>4. meta.epoch \in Nat /\ e \in Nat /\ meta.epoch <= e
    BY <1>0, GenAssumption DEF Typed, Metas, Bounded
  <2> HIDE DEF e
  <2>5. mem'.slot = None /\ mem'.full = e /\ meta'.epoch = e
    BY <1>0, <1>1, <2>3 DEF Typed, Mems, Metas
  <2>6. SlotInv'
    BY <2>2, <2>5 DEF SlotInv, HotPcs
  <2>7. EpochInv'
    BY <1>0, <1>2, <2>2, <2>4, <2>5 DEF EpochInv, GcPcs
  <2>8. PlanInv'
    BY <2>2 DEF PlanInv
  <2> QED BY <1>2, <2>6, <2>7, <2>8 DEF OrderInv
<1>4. CASE \/ \E o \in HotOps : StartHot(o) \/ ResumeHot(o)
           \/ \E o \in ConfigOps : StartConfig(o)
  <2>1. UNCHANGED <<mem, meta>>
    BY <1>4 DEF StartHot, ResumeHot, StartConfig, dbVars
  <2>2. run' = run \/ (run'.pc = "prepare" /\ run'.k = 1)
    <3>1. ASSUME NEW o \in HotOps, StartHot(o) PROVE run'.pc = "prepare" /\ run'.k = 1
      BY <1>0, <3>1, LaunchRun DEF StartHot
    <3>2. ASSUME NEW o \in HotOps, ResumeHot(o) PROVE run' = run \/ (run'.pc = "prepare" /\ run'.k = 1)
      <4>1. run' = run \/ Launch(o, "prepare", TRUE)
        BY <3>2 DEF ResumeHot, Resume
      <4> QED BY <1>0, <4>1, LaunchRun
    <3>3. ASSUME NEW o \in ConfigOps, StartConfig(o) PROVE run'.pc = "prepare" /\ run'.k = 1
      BY <1>0, <3>3, LaunchRun DEF StartConfig
    <3> QED BY <1>4, <3>1, <3>2, <3>3
  <2>3. SlotInv'
    BY <1>1, <2>1, <2>2 DEF SlotInv, HotPcs
  <2>4. EpochInv'
    BY <1>0, <1>1, <1>2, <2>1, <2>2 DEF EpochInv, FullPcs, GcPcs
  <2>5. PlanInv'
    BY <1>1, <2>2 DEF PlanInv
  <2> QED BY <1>2, <2>3, <2>4, <2>5 DEF OrderInv
<1> QED BY <1>3, <1>4

\* So does every step of prepare.
LEMMA OrderPrepare ==
  ASSUME TypeInv, OrderInv,
         \/ PrepareAgain \/ Adopt \/ AdoptFails \/ Resolve \/ CompactRows \/ CompactDocs \/ Unlink
         \/ CleanDocs \/ Register \/ PrepareFails \/ PrepareRefused
  PROVE  OrderInv' /\ Ahead
<1>0. /\ Typed /\ Launched /\ DistinctPubs(man) /\ RoomInv
      /\ SlotInv /\ EpochInv /\ PlanInv /\ ActiveEpoch \in Nat /\ ActivePub \in Nat
      /\ run \in Runs /\ man \in [Ops -> Rows] /\ mem \in Mems
      /\ {"compact", "compactDocs", "unlink", "clean", "register"} \subseteq Pcs
  BY PcNames, EpochRange, GenAssumption DEF TypeInv, OrderInv, Bounded, Typed, HotPcs
<1>r. run.failed \in BOOLEAN
  BY <1>0 DEF Runs
<1>1. run.pc \in HotPcs /\ UNCHANGED meta
  BY DEF PrepareAgain, Adopt, AdoptFails, Resolve, CompactRows, CompactDocs, Unlink, CleanDocs,
     Register,
         PrepareFails, PrepareRefused, PreparationFailed, At, HotPcs, dbVars
<1>2. run.op \in Ops /\ run.op # None /\ run.k \in 1..2 /\ man[run.op].st # "active"
  BY <1>0, <1>1, GenAssumption DEF Launched, RoomInv, HotPcs
<1>h. ASSUME ActiveEpoch' = ActiveEpoch, ActivePub' = ActivePub, run'.op = run.op,
             run'.pc \in HotPcs \cup {"abort"},
             \/ /\ mem'.slot = run.op /\ (mem'.hot = ActiveEpoch + 1 \/ Astray')
             \/ mem'.slot = None /\ run'.pc = "abort"
             \/ mem'.slot = None /\ run'.pc = "prepare" /\ (run'.k = 2 => run'.failed)
      PROVE  OrderInv' /\ Ahead
  <2>1. SlotInv'
    BY <1>2, <1>h DEF SlotInv, HotPcs, GcPcs, FullPcs
  <2>2. EpochInv'
    BY <1>0, <1>1, <1>h DEF EpochInv, HotPcs, GcPcs, FullPcs
  <2>3. PlanInv'
    BY <1>h DEF PlanInv, HotPcs
  <2> QED BY <1>0, <1>h, <2>1, <2>2, <2>3 DEF OrderInv, Ahead
<1>3. CASE PrepareAgain
  <2> DEFINE f == run.failed \/ mem.slot # run.op
  <2>1. /\ UNCHANGED <<man, mem>> /\ mem.slot # None /\ Prepared(f) /\ f \in BOOLEAN
        /\ f => (IF f THEN "abort" ELSE "process") = "abort"
    BY <1>3 DEF PrepareAgain, dbVars
  <2>2. run.failed => f
    OBVIOUS
  <2> HIDE DEF f
  <2>3. run'.op = run.op /\ run'.pc \in {"prepare", "abort", "process"} /\ run'.failed = f
    BY <1>0, <2>1, PreparedRun
  <2>4. f => run'.pc \in {"prepare", "abort"}
    BY <1>0, <2>1, PreparedRun
  <2>5. Astray => Astray'
    BY <2>2, <2>3, <2>4, Zenon DEF Astray
  <2> QED BY <1>0, <1>h, <2>1, <2>3, <2>5, SameMan DEF SlotInv, HotPcs
<1>10. CASE AdoptFails
  <2> DEFINE t == TRUE
  <2>1. /\ UNCHANGED man /\ Prepared(t) /\ t \in BOOLEAN /\ mem' = [mem EXCEPT !.slot = run.op]
        /\ (IF t THEN "abort" ELSE "process") = "abort"
    BY <1>10 DEF AdoptFails, dbVars
  <2>2. t
    OBVIOUS
  <2> HIDE DEF t
  <2>3. run'.op = run.op /\ run'.failed = t /\ run'.pc \in {"prepare", "abort"}
    BY <1>0, <2>1, PreparedRun
  <2>4. Astray'
    BY <2>2, <2>3, Zenon DEF Astray
  <2>5. mem'.slot = run.op
    BY <1>0, <2>1 DEF Mems
  <2> QED BY <1>h, <2>1, <2>3, <2>4, <2>5, SameMan DEF HotPcs
<1>4. CASE Adopt
  <2>1. /\ UNCHANGED man /\ Prepared(run.failed) /\ man[run.op].data = ActiveEpoch + 1
        /\ mem' = [mem EXCEPT !.slot = run.op, !.hot = man[run.op].data]
    BY <1>4 DEF Adopt, dbVars, Adoptable
  <2>2. run'.op = run.op /\ run'.pc \in {"prepare", "abort", "process"}
    BY <1>0, <1>r, <2>1, PreparedRun
  <2>3. mem'.slot = run.op /\ mem'.hot = ActiveEpoch + 1
    BY <1>0, <2>1 DEF Mems
  <2> QED BY <1>h, <2>1, <2>2, <2>3, SameMan DEF HotPcs
<1>5. CASE Resolve
  <2> DEFINE p == IF ActiveParent > 0 THEN "compact" ELSE "clean"
  <2>1. /\ UNCHANGED man /\ run' = [run EXCEPT !.pc = p]
        /\ mem' = [mem EXCEPT !.slot = run.op, !.hot = ActiveEpoch + 1]
    BY <1>5 DEF Resolve, dbVars
  <2>2. p \in Pcs /\ p \in HotPcs
    BY <1>0 DEF HotPcs
  <2> HIDE DEF p
  <2>3. run'.op = run.op /\ run'.pc = p
    BY <1>0, <2>1, <2>2, PcRun
  <2>4. mem'.slot = run.op /\ mem'.hot = ActiveEpoch + 1
    BY <1>0, <2>1 DEF Mems
  <2> QED BY <1>h, <2>1, <2>2, <2>3, <2>4, SameMan
<1>6. CASE CompactRows \/ CompactDocs \/ CleanDocs
  <2>1. PICK p \in {"compactDocs", "unlink", "register"} : run' = [run EXCEPT !.pc = p]
    BY <1>6 DEF CompactRows, CompactDocs, CleanDocs
  <2>2. UNCHANGED <<man, mem>> /\ run.pc \in {"compact", "compactDocs", "clean"}
    BY <1>6 DEF CompactRows, CompactDocs, CleanDocs, At
  <2>3. p \in Pcs /\ p \in HotPcs
    BY <1>0 DEF HotPcs
  <2>4. run'.op = run.op /\ run'.pc = p
    BY <1>0, <2>1, <2>3, PcRun
  <2>5. mem.slot = run.op /\ mem.hot = ActiveEpoch + 1
    BY <1>0, <1>2, <2>2 DEF SlotInv, HotPcs, Astray
  <2> QED BY <1>h, <2>2, <2>3, <2>4, <2>5, SameMan
<1>7. CASE Unlink
  <2>1. /\ run.pc = "unlink" /\ UNCHANGED mem /\ run' = [run EXCEPT !.pc = "clean"]
        /\ man' = [man EXCEPT ![Active].parent = 0]
    BY <1>7 DEF Unlink, At
  <2>2. run'.op = run.op /\ run'.pc = "clean"
    BY <1>0, <2>1, PcRun
  <2>3. mem.slot = run.op /\ mem.hot = ActiveEpoch + 1
    BY <1>0, <1>2, <2>1 DEF SlotInv, HotPcs, Astray
  <2>4. /\ man' \in [Ops -> Rows] /\ DistinctPubs(man')
    BY <1>7, TypePrepare DEF TypeInv, Typed
  <2>5. \A o \in Ops : man'[o].st = man[o].st /\ man'[o].pub = man[o].pub /\ man'[o].data = man[o].data
    <3>1. CASE Active \in Ops
      <4> DEFINE r == [man[Active] EXCEPT !.parent = 0]
      <4>1. man' = [man EXCEPT ![Active] = r] /\ man[Active] \in Rows
        BY <1>0, <2>1, <3>1
      <4>2. r.st = man[Active].st /\ r.pub = man[Active].pub /\ r.data = man[Active].data
        BY <4>1 DEF Rows
      <4> HIDE DEF r
      <4> QED BY <1>0, <3>1, <4>1, <4>2
    <3>2. CASE Active \notin Ops
      BY <1>0, <2>1, <3>2
    <3> QED BY <3>1, <3>2
  <2>6. ActOps(man') = ActOps(man) /\ ActOps(man) \subseteq Ops
    BY <2>5 DEF ActOps
  <2>7. ActiveEpoch' = ActiveEpoch /\ ActivePub' = ActivePub
    BY <1>0, <2>4, <2>5, <2>6, SameTop, ActiveIsTop
  <2> QED BY <1>h, <2>1, <2>2, <2>3, <2>7 DEF HotPcs
<1>8. CASE Register
  <2> DEFINE b == Begun(run.op, mem.hot)
             r == [b EXCEPT !.parent = ActiveEpoch, !.ready = TRUE]
  <2>1. /\ run.pc = "register" /\ UNCHANGED mem /\ Prepared(run.failed)
        /\ man' = [man EXCEPT ![run.op] = r]
    BY <1>8 DEF Register, At
  <2>2. run'.op = run.op /\ run'.pc \in {"prepare", "abort", "process"}
    BY <1>0, <1>r, <2>1, PreparedRun
  <2>3. mem.slot = run.op /\ mem.hot = ActiveEpoch + 1
    BY <1>0, <1>2, <2>1 DEF SlotInv, HotPcs, Astray
  <2>4. /\ man' \in [Ops -> Rows] /\ DistinctPubs(man')
    BY <1>8, TypePrepare DEF TypeInv, Typed
  <2>5. b \in Rows /\ b.st = "building"
    BY <1>0, <1>2, BegunRow DEF Mems
  <2> HIDE DEF b
  <2>6. r.st = "building"
    BY <2>5 DEF Rows
  <2> HIDE DEF r
  <2>7. ActOps(man') = ActOps(man) /\ \A o \in ActOps(man) : man'[o] = man[o]
    BY <1>0, <1>2, <2>1, <2>6 DEF ActOps
  <2>8. ActiveEpoch' = ActiveEpoch /\ ActivePub' = ActivePub
    BY <1>0, <2>4, <2>7, SameTop, ActiveIsTop
  <2> QED BY <1>h, <2>1, <2>2, <2>3, <2>8 DEF HotPcs
<1>9. CASE PrepareFails \/ PrepareRefused
  <2> DEFINE t == TRUE
  <2>1. /\ MarkFailed(run.op) /\ mem' = [mem EXCEPT !.slot = None] /\ Prepared(t) /\ t \in BOOLEAN
        /\ (IF t THEN "abort" ELSE "process") = "abort"
    BY <1>9 DEF PrepareFails, PrepareRefused, PreparationFailed
  <2>2. t
    OBVIOUS
  <2> HIDE DEF t
  <2>3. /\ run'.op = run.op /\ run'.failed = t
        /\ run.k < 2 => run'.pc = "prepare"
        /\ ~(run.k < 2) => run'.pc = (IF t THEN "abort" ELSE "process")
    BY <1>0, <2>1, PreparedRun
  <2>4. run'.pc \in {"prepare", "abort"}
    BY <2>1, <2>3
  <2>5. run'.failed
    BY <2>2, <2>3, Zenon
  <2>6. ActiveEpoch' = ActiveEpoch /\ ActivePub' = ActivePub
    BY <1>0, <1>2, <2>1, MarkFailedType
  <2>7. mem'.slot = None
    BY <1>0, <2>1 DEF Mems
  <2> QED BY <1>h, <2>3, <2>4, <2>5, <2>6, <2>7 DEF HotPcs
<1> QED BY <1>3, <1>4, <1>5, <1>6, <1>7, <1>8, <1>9, <1>10

\* So does processing, commit and abort.
LEMMA OrderProcess ==
  ASSUME TypeInv, OrderInv, Process \/ Mark \/ SkipModule \/ ProcessFails \/ Commit \/ CommitFails \/ Abort
  PROVE  OrderInv' /\ Ahead
<1>0. /\ Typed /\ Launched /\ DistinctPubs(man) /\ SlotInv /\ EpochInv /\ PlanInv
      /\ ActiveEpoch \in Nat /\ ActivePub \in Nat
      /\ run \in Runs /\ man \in [Ops -> Rows] /\ mem \in Mems
      /\ "mark" \in Pcs /\ "plan" \in Pcs /\ "abort" \in Pcs
  BY PcNames, EpochRange, GenAssumption DEF TypeInv, OrderInv, Bounded, Typed, HotPcs
<1>r. run.failed \in BOOLEAN
  BY <1>0 DEF Runs
<1>1. run.pc \in {"process", "mark", "commit", "abort"}
  BY DEF Process, Mark, SkipModule, ProcessFails, Commit, CommitFails, Abort, At
<1>2. run.op \in Ops /\ run.op # None /\ run.k \in 1..2
  BY <1>0, <1>1, GenAssumption DEF Launched
<1>3. run.pc \in {"process", "mark"} => mem.slot = run.op /\ mem.hot = ActiveEpoch + 1
  BY <1>0, <1>2 DEF SlotInv, HotPcs, Astray
<1>4. CASE Process \/ Mark \/ SkipModule \/ ProcessFails
  <2>1. UNCHANGED <<man, meta, mem>> /\ run.pc \in {"process", "mark"}
    BY <1>4 DEF Process, Mark, SkipModule, ProcessFails, At, dbVars
  <2>2. run'.op = run.op /\ run'.pc \in {"mark", "process", "abort", "commit"}
    <3>1. CASE Process
      BY <1>0, <3>1, PcRun DEF Process
    <3>2. CASE NextModule(run.failed)
      BY <1>0, <1>r, <3>2, NextModuleRun
    <3> DEFINE t == TRUE
    <3>3. CASE ProcessFails
      <4>1. t \in BOOLEAN /\ NextModule(t)
        BY <3>3 DEF ProcessFails
      <4> HIDE DEF t
      <4> QED BY <1>0, <4>1, NextModuleRun
    <3> QED BY <1>4, <3>1, <3>2, <3>3 DEF Mark, SkipModule
  <2>3. ActiveEpoch' = ActiveEpoch /\ ActivePub' = ActivePub
    BY <2>1, SameMan
  <2>4. SlotInv'
    BY <1>3, <2>1, <2>2, <2>3 DEF SlotInv, HotPcs, GcPcs, FullPcs
  <2>5. EpochInv'
    BY <1>0, <1>3, <2>1, <2>2, <2>3 DEF EpochInv, GcPcs, FullPcs
  <2>6. PlanInv'
    BY <2>2 DEF PlanInv
  <2> QED BY <1>0, <2>3, <2>4, <2>5, <2>6 DEF OrderInv, Ahead
<1>5. CASE Commit
  <2>1. /\ run.pc = "commit" /\ Activate(run.op, mem.hot) /\ mem' = [mem EXCEPT !.slot = None]
        /\ run' = [run EXCEPT !.pc = "plan"]
    BY <1>5 DEF Commit, At
  <2>2. Ahead /\ ActiveEpoch' <= mem.hot /\ ActiveEpoch' <= meta'.epoch
    BY <1>0, <1>2, <2>1, ActivateTop DEF EpochInv, Mems
  <2>3. run'.op = run.op /\ run'.pc = "plan"
    BY <1>0, <2>1, PcRun
  <2>4. mem'.slot = None /\ mem'.hot = mem.hot
    BY <1>0, <2>1 DEF Mems
  <2>5. SlotInv'
    BY <2>3, <2>4 DEF SlotInv, HotPcs
  <2>6. EpochInv'
    BY <2>2, <2>3, <2>4 DEF EpochInv, FullPcs
  <2>7. PlanInv'
    BY <2>3 DEF PlanInv
  <2> QED BY <2>2, <2>5, <2>6, <2>7 DEF OrderInv
<1>6. CASE CommitFails
  <2> DEFINE t == TRUE
  <2>1. /\ run.pc = "commit" /\ UNCHANGED <<man, meta, mem>> /\ t \in BOOLEAN
        /\ NextCommit(t) \/ run' = [run EXCEPT !.failed = t, !.pc = "abort"]
        /\ (IF t THEN "abort" ELSE "republish") = "abort"
    BY <1>6 DEF CommitFails, At, dbVars
  <2> HIDE DEF t
  <2>2. run'.op = run.op /\ run'.pc \in {"commit", "abort"}
    <3>1. CASE NextCommit(t)
      <4>1. run.k < 2 => run'.pc = "commit"
        BY <1>0, <2>1, <3>1, NextCommitRun
      <4>2. run'.op = run.op
        BY <1>0, <2>1, <3>1, NextCommitRun
      <4>3. ~(run.k < 2) => run'.pc = (IF t THEN "abort" ELSE "republish")
        BY <1>0, <2>1, <3>1, NextCommitRun
      <4> QED BY <2>1, <4>1, <4>2, <4>3
    <3>2. CASE run' = [run EXCEPT !.failed = t, !.pc = "abort"]
      BY <1>0, <2>1, <3>2 DEF Runs
    <3> QED BY <2>1, <3>1, <3>2
  <2>3. ActiveEpoch' = ActiveEpoch /\ ActivePub' = ActivePub
    BY <2>1, SameMan
  <2>s. mem.slot # None => mem.slot = run.op /\ mem.hot = ActiveEpoch + 1
    BY <1>0, <2>1 DEF SlotInv, Astray
  <2>4. SlotInv'
    BY <2>s, <2>1, <2>2, <2>3 DEF SlotInv, HotPcs, GcPcs, FullPcs
  <2>5. EpochInv'
    BY <1>0, <2>1, <2>2, <2>3 DEF EpochInv, GcPcs, FullPcs
  <2>6. PlanInv'
    BY <2>2 DEF PlanInv
  <2> QED BY <1>0, <2>3, <2>4, <2>5, <2>6 DEF OrderInv, Ahead
<1>7. CASE Abort
  <2>1. /\ run.pc = "abort" /\ MarkFailed(run.op) /\ mem' = [mem EXCEPT !.slot = None] /\ UNCHANGED meta
        /\ run' = [run EXCEPT !.k = 2] \/ run' = Idle
    BY <1>7 DEF Abort, At
  <2>2. ActiveEpoch' = ActiveEpoch /\ ActivePub' = ActivePub
    BY <1>0, <1>2, <2>1, MarkFailedType
  <2>3. mem'.slot = None
    BY <1>0, <2>1 DEF Mems
  <2>4. run'.pc \in {"abort", "idle"}
    <3>1. CASE run' = [run EXCEPT !.k = 2]
      BY <1>0, <2>1, <3>1 DEF Runs
    <3>2. CASE run' = Idle
      BY <3>2, LaunchRun
    <3> QED BY <2>1, <3>1, <3>2
  <2>5. SlotInv'
    BY <2>3, <2>4 DEF SlotInv, HotPcs
  <2>6. EpochInv'
    BY <1>0, <2>1, <2>2, <2>4 DEF EpochInv, GcPcs, FullPcs
  <2>7. PlanInv'
    BY <2>4 DEF PlanInv
  <2> QED BY <1>0, <2>2, <2>5, <2>6, <2>7 DEF OrderInv, Ahead
<1> QED BY <1>4, <1>5, <1>6, <1>7

\* The plan keeps the newest active row, because at least one is kept
\* (keep_active_generations.max(1)).
LEMMA TopKept ==
  ASSUME Typed, DistinctPubs(man), NEW old \in SUBSET Ops, ActiveOps # {}
  PROVE  ActivePub \notin GcPlan(old).pubs
<1> DEFINE t == Top(man)
           K == Kept(old)
           G == {o \in Ops : man[o].st # "none"} \ K
<1>0. man \in [Ops -> Rows] /\ ActOps(man) # {}
  BY ActiveIsTop DEF Typed
<1>1. IsTop(man, t)
  BY <1>0, TopExists
<1>2. t \in Ops /\ man[t].st = "active" /\ \A p \in ActOps(man) : man[p].pub <= man[t].pub
  BY <1>1 DEF IsTop, ActOps
<1>3. ActivePub = man[t].pub
  BY <1>0, ActiveIsTop DEF TopPub
<1> HIDE DEF t
<1>4. {p \in ActiveOps : man[p].pub > man[t].pub} = {}
  <2>1. \A p \in ActOps(man) : man[p].pub \in Nat
    BY <1>0 DEF ActOps, Rows
  <2>2. man[t].pub \in Nat
    BY <1>0, <1>2 DEF Rows
  <2> QED BY <1>2, <2>1, <2>2, ActiveIsTop
<1>5. Cardinality({p \in ActiveOps : man[p].pub > man[t].pub}) < KeepActive
  <2>1. Cardinality({p \in ActiveOps : man[p].pub > man[t].pub}) = 0
    BY <1>4, FS_EmptySet
  <2> QED BY <2>1, GenAssumption
<1>6. t \in K
  BY <1>2, <1>5 DEF Kept
<1>7. ASSUME NEW o \in G, man[o].pub = man[t].pub PROVE FALSE
  <2>1. o = t
    BY <1>2, <1>7 DEF DistinctPubs
  <2> QED BY <1>6, <1>7, <2>1
<1>8. GcPlan(old) = [protected |-> Protected(old), stale |-> {man[o].data : o \in G} \ Protected(old),
                     pubs |-> {man[o].pub : o \in G}]
  BY DEF GcPlan
<1> HIDE DEF G, Protected, GcPlan
<1>9. GcPlan(old).pubs = {man[o].pub : o \in G}
  BY <1>8
<1> QED BY <1>3, <1>7, <1>9

\* Deleting rows that are not the newest active one publishes the same generation.
LEMMA CollectTop ==
  ASSUME Typed, DistinctPubs(man), NEW P, ActiveOps # {} => ActivePub \notin P,
         man' = [o \in Ops |-> IF man[o].pub \in P THEN NoRow ELSE man[o]],
         man' \in [Ops -> Rows], DistinctPubs(man')
  PROVE  ActiveEpoch' = ActiveEpoch /\ ActivePub' = ActivePub
<1>0. man \in [Ops -> Rows] /\ NoRow.st = "none"
  BY DEF Typed, NoRow
<1> HIDE DEF NoRow
<1>1. \A p \in ActOps(man') : p \in ActOps(man) /\ man'[p] = man[p]
  BY <1>0 DEF ActOps
<1>2. CASE ActOps(man) = {}
  <2>1. ActOps(man') = {}
    BY <1>1, <1>2
  <2> QED BY <1>2, <2>1, ActiveIsTop DEF TopEpoch, TopPub
<1>3. CASE ActOps(man) # {}
  <2> DEFINE t == Top(man)
  <2>1. IsTop(man, t)
    BY <1>0, <1>3, TopExists
  <2>2. ActivePub = man[t].pub /\ ActiveEpoch = man[t].data
    BY <1>3, ActiveIsTop DEF TopPub, TopEpoch
  <2> HIDE DEF t
  <2>3. t \in ActOps(man) /\ t \in Ops /\ \A p \in ActOps(man) : man[p].pub <= man[t].pub
    BY <2>1 DEF IsTop, ActOps
  <2>4. man'[t] = man[t]
    BY <1>3, <2>2, <2>3, ActiveIsTop
  <2>5. t \in ActOps(man')
    BY <2>3, <2>4 DEF ActOps
  <2>6. IsTop(man', t)
    BY <1>1, <2>3, <2>4, <2>5 DEF IsTop
  <2>7. TopEpoch(man') = man'[t].data /\ TopPub(man') = man'[t].pub
    BY <2>6, TopIs
  <2> QED BY <2>2, <2>4, <2>7, ActiveIsTop
<1> QED BY <1>2, <1>3

\* The collection of retired generations keeps the second layer.
LEMMA OrderCollect ==
  ASSUME TypeInv, OrderInv, PlanGc \/ CollectDocs \/ CollectRows \/ GcFails
  PROVE  OrderInv' /\ Ahead
<1>0. /\ Typed /\ Launched /\ DistinctPubs(man) /\ SlotInv /\ EpochInv /\ PlanInv
      /\ ActiveEpoch \in Nat /\ ActivePub \in Nat
      /\ run \in Runs /\ man \in [Ops -> Rows] /\ mem \in Mems
      /\ "collectDocs" \in Pcs /\ "collectRows" \in Pcs /\ "finish" \in Pcs
  BY PcNames, EpochRange, GenAssumption DEF TypeInv, OrderInv, Bounded, Typed, GcPcs
<1>r. run.failed \in BOOLEAN
  BY <1>0 DEF Runs
<1>1. run.pc \in GcPcs /\ UNCHANGED <<meta, mem>>
  BY DEF PlanGc, CollectDocs, CollectRows, GcFails, At, GcPcs, dbVars
<1>2. mem.slot = None /\ run.k \in 1..2
  BY <1>0, <1>1 DEF SlotInv, GcPcs, Launched
<1>h. ASSUME ActiveEpoch' = ActiveEpoch, ActivePub' = ActivePub,
             \/ run'.pc \in {"collectDocs", "collectRows"} /\ run'.op = run.op
             \/ run'.pc \in {"commit", "abort", "republish"} /\ run.op \notin FullOps
             \/ run'.pc \in {"finish", "idle"},
             PlanInv'
      PROVE  OrderInv' /\ Ahead
  <2>1. SlotInv'
    BY <1>1, <1>2, <1>h DEF SlotInv, HotPcs
  <2>2. EpochInv'
    BY <1>0, <1>1, <1>h DEF EpochInv, GcPcs, FullPcs
  <2> QED BY <1>0, <1>h, <2>1, <2>2 DEF OrderInv, Ahead
<1>3. CASE PlanGc
  <2>1. PICK old \in SUBSET Ops : run' = [run EXCEPT !.plan = GcPlan(old), !.pc = "collectDocs"]
    BY <1>3 DEF PlanGc
  <2>2. UNCHANGED man
    BY <1>3 DEF PlanGc, dbVars
  <2> DEFINE g == GcPlan(old)
  <2>3. ActiveOps # {} => ActivePub \notin g.pubs
    BY <1>0, TopKept
  <2> HIDE DEF g
  <2>4. run'.op = run.op /\ run'.pc = "collectDocs" /\ run'.plan = g
    BY <1>0, <2>1 DEF Runs, g
  <2>5. PlanInv'
    BY <2>2, <2>3, <2>4, SameMan DEF PlanInv
  <2> QED BY <1>h, <2>2, <2>4, <2>5, SameMan
<1>4. CASE CollectDocs
  <2>1. UNCHANGED man /\ run.pc = "collectDocs" /\ run' = [run EXCEPT !.pc = "collectRows"]
    BY <1>4 DEF CollectDocs, At
  <2>2. run'.op = run.op /\ run'.pc = "collectRows" /\ run'.plan = run.plan
    BY <1>0, <2>1, PcRun
  <2>3. PlanInv'
    BY <1>0, <2>1, <2>2, SameMan DEF PlanInv
  <2> QED BY <1>h, <2>1, <2>2, <2>3, SameMan
<1>5. ASSUME \/ run.op \in FullOps /\ run' = Idle
             \/ run.op \in FullOps /\ run' = [run EXCEPT !.pc = "finish", !.plan = NoPlan]
             \/ run.op \notin FullOps /\ NextCommit(run.failed)
      PROVE  /\ \/ run'.pc \in {"commit", "abort", "republish"} /\ run.op \notin FullOps
                \/ run'.pc \in {"finish", "idle"}
             /\ PlanInv'
  <2>1. CASE run' = Idle
    BY <2>1, LaunchRun DEF PlanInv
  <2>2. CASE run' = [run EXCEPT !.pc = "finish", !.plan = NoPlan]
    <3> HIDE DEF NoPlan
    <3>1. run'.pc = "finish"
      BY <1>0, <2>2 DEF Runs
    <3> QED BY <3>1 DEF PlanInv
  <2>3. CASE run.op \notin FullOps /\ NextCommit(run.failed)
    <3>1. run'.pc \in {"commit", "abort", "republish"}
      BY <1>0, <1>2, <1>r, <2>3, NextCommitRun
    <3> QED BY <2>3, <3>1 DEF PlanInv
  <2> QED BY <1>5, <2>1, <2>2, <2>3
<1>6. CASE CollectRows
  <2>1. /\ run.pc = "collectRows"
        /\ man' = [o \in Ops |-> IF man[o].pub \in run.plan.pubs THEN NoRow ELSE man[o]]
        /\ \/ run.op \in FullOps /\ run' = [run EXCEPT !.pc = "finish", !.plan = NoPlan]
           \/ run.op \notin FullOps /\ NextCommit(run.failed)
    BY <1>6 DEF CollectRows, At
  <2>2. man' \in [Ops -> Rows] /\ DistinctPubs(man')
    BY <1>6, TypeCollect DEF TypeInv, Typed
  <2>3. ActiveOps # {} => ActivePub \notin run.plan.pubs
    BY <1>0, <2>1 DEF PlanInv
  <2>4. ActiveEpoch' = ActiveEpoch /\ ActivePub' = ActivePub
    BY <1>0, <2>1, <2>2, <2>3, CollectTop
  <2> QED BY <1>5, <1>h, <2>1, <2>4
<1>7. CASE GcFails
  <2>1. /\ UNCHANGED man
        /\ \/ run.op \in FullOps /\ run' = Idle
           \/ run.op \notin FullOps /\ NextCommit(run.failed)
    BY <1>7 DEF GcFails, dbVars
  <2> QED BY <1>5, <1>h, <2>1, SameMan
<1> QED BY <1>3, <1>4, <1>6, <1>7

\* So does every step of a full index.
LEMMA OrderFull ==
  ASSUME TypeInv, OrderInv,
         \/ FullNotReady \/ FullScan \/ FullManifest \/ FullActivate \/ FullFails
         \/ \E f \in Files : FullBatch(f)
  PROVE  OrderInv' /\ Ahead
<1>0. /\ Typed /\ Launched /\ DistinctPubs(man) /\ SlotInv /\ EpochInv /\ PlanInv
      /\ ActiveEpoch \in Nat /\ ActivePub \in Nat
      /\ run \in Runs /\ man \in [Ops -> Rows] /\ meta \in Metas /\ mem \in Mems
      /\ {"scan", "manifest", "batch", "plan"} \subseteq Pcs
  BY PcNames, EpochRange, GenAssumption DEF TypeInv, OrderInv, Bounded, Typed, FullPcs
<1>1. run.pc \in FullPcs /\ UNCHANGED mem
  BY DEF FullNotReady, FullScan, FullManifest, FullActivate, FullFails, FullBatch, At,
     FullPcs
<1>2. /\ mem.slot = None /\ run.op \in Ops /\ run.op \in FullOps
      /\ ActiveEpoch <= mem.full /\ ActiveEpoch <= meta.epoch
  BY <1>0, <1>1 DEF SlotInv, EpochInv, Ops
<1>h. ASSUME ActiveEpoch' = ActiveEpoch, ActivePub' = ActivePub, meta'.epoch = meta.epoch,
             \/ run'.pc \in FullPcs /\ run'.op = run.op
             \/ run'.pc = "idle"
      PROVE  OrderInv' /\ Ahead
  <2>1. SlotInv'
    BY <1>1, <1>2, <1>h DEF SlotInv, HotPcs, FullPcs
  <2>2. EpochInv'
    BY <1>1, <1>2, <1>h DEF EpochInv, GcPcs, FullPcs
  <2>3. PlanInv'
    BY <1>h DEF PlanInv, FullPcs
  <2> QED BY <1>0, <1>h, <2>1, <2>2, <2>3 DEF OrderInv, Ahead
<1>3. CASE FullNotReady
  <2>1. UNCHANGED man /\ meta' = [meta EXCEPT !.ready = FALSE] /\ run' = [run EXCEPT !.pc = "scan"]
    BY <1>3 DEF FullNotReady
  <2>2. run'.op = run.op /\ run'.pc = "scan" /\ meta'.epoch = meta.epoch
    BY <1>0, <2>1, PcRun DEF Metas
  <2> QED BY <1>h, <2>1, <2>2, SameMan DEF FullPcs
<1>4. CASE FullScan
  <2>1. UNCHANGED <<man, meta>> /\ run' = [run EXCEPT !.pc = "manifest"]
    BY <1>4 DEF FullScan, dbVars
  <2>2. run'.op = run.op /\ run'.pc = "manifest"
    BY <1>0, <2>1, PcRun
  <2> QED BY <1>h, <2>1, <2>2, SameMan DEF FullPcs
<1>5. CASE FullManifest
  <2>1. UNCHANGED meta
    BY <1>5 DEF FullManifest
  <2>2. CASE CanBegin(run.op, mem.full)
    <3> DEFINE b == Begun(run.op, mem.full)
    <3>1. man' = [man EXCEPT ![run.op] = b] /\ run' = [run EXCEPT !.pc = "batch"]
      BY <1>5, <2>2 DEF FullManifest
    <3>2. /\ b \in Rows /\ b.st = (IF man[run.op].st = "active" THEN "active" ELSE "building")
          /\ man[run.op].st = "active" => b = man[run.op]
      BY <1>0, <1>2, BegunRow DEF Mems, Begun
    <3> HIDE DEF b
    <3>3. ActOps(man') = ActOps(man) /\ \A o \in ActOps(man) : man'[o] = man[o]
      BY <1>0, <1>2, <3>1, <3>2 DEF ActOps
    <3>4. man' \in [Ops -> Rows] /\ DistinctPubs(man')
      BY <1>5, TypeFull DEF TypeInv, Typed
    <3>5. ActiveEpoch' = ActiveEpoch /\ ActivePub' = ActivePub
      BY <1>0, <3>3, <3>4, SameTop, ActiveIsTop
    <3>6. run'.op = run.op /\ run'.pc = "batch"
      BY <1>0, <3>1, PcRun
    <3> QED BY <1>h, <2>1, <3>5, <3>6 DEF FullPcs
  <2>3. CASE ~CanBegin(run.op, mem.full)
    <3>1. UNCHANGED man /\ run' = Idle
      BY <1>5, <2>3 DEF FullManifest
    <3> QED BY <1>h, <2>1, <3>1, SameMan, LaunchRun
  <2> QED BY <2>2, <2>3
<1>6. CASE FullActivate
  <2>1. Activate(run.op, mem.full) /\ run' = [run EXCEPT !.pc = "plan"]
    BY <1>6 DEF FullActivate
  <2>2. Ahead /\ ActiveEpoch' <= meta'.epoch
    BY <1>0, <1>2, <2>1, ActivateTop DEF Mems
  <2>3. run'.op = run.op /\ run'.pc = "plan"
    BY <1>0, <2>1, PcRun
  <2>4. SlotInv'
    BY <1>1, <1>2, <2>3 DEF SlotInv, HotPcs
  <2>5. EpochInv'
    BY <1>2, <2>2, <2>3 DEF EpochInv, FullPcs
  <2>6. PlanInv'
    BY <2>3 DEF PlanInv
  <2> QED BY <2>2, <2>4, <2>5, <2>6 DEF OrderInv
<1>7. CASE FullFails
  <2>1. MarkFailed(run.op) /\ run' = Idle /\ UNCHANGED meta
    BY <1>7 DEF FullFails
  <2>2. ActiveEpoch' = ActiveEpoch /\ ActivePub' = ActivePub
    BY <1>0, <1>2, <2>1, MarkFailedType
  <2> QED BY <1>h, <2>1, <2>2, LaunchRun
<1>8. CASE \E f \in Files : FullBatch(f)
  <2>1. UNCHANGED <<man, meta, run>>
    BY <1>8 DEF FullBatch
  <2> QED BY <1>1, <1>h, <2>1, SameMan
<1> QED BY <1>3, <1>4, <1>5, <1>6, <1>7, <1>8

\* Every step keeps the second layer and publishes nothing older.
LEMMA OrderStep ==
  TypeInv /\ OrderInv /\ [GenNext]_genVars => OrderInv' /\ (Ahead \/ UNCHANGED genVars)
<1> SUFFICES ASSUME TypeInv, OrderInv, [GenNext]_genVars
             PROVE  OrderInv' /\ (Ahead \/ UNCHANGED genVars)
  OBVIOUS
<1>0. /\ Typed /\ Launched /\ DistinctPubs(man) /\ SlotInv /\ EpochInv /\ PlanInv
      /\ ActiveEpoch \in Bounded /\ ActiveEpoch \in Nat /\ ActivePub \in Nat
      /\ run \in Runs /\ mem \in Mems
  BY EpochRange, GenAssumption DEF TypeInv, OrderInv, Bounded, Typed
<1>1. CASE \/ \E o \in HotOps : StartHot(o) \/ ResumeHot(o)
           \/ \E o \in ConfigOps : StartConfig(o)
           \/ \E o \in FullOps : StartFull(o)
  BY <1>1, OrderStart
<1>2. CASE HotStep \/ AdoptFails \/ PrepareFails \/ ProcessFails \/ CommitFails
  BY <1>2, OrderPrepare, OrderProcess DEF HotStep
<1>3. CASE GcStep \/ GcFails
  BY <1>3, OrderCollect DEF GcStep
<1>4. CASE FullStep \/ FullFails
  BY <1>4, OrderFull DEF FullStep
<1>5. CASE Finish \/ Crash
  <2>1. UNCHANGED <<man, meta>> /\ run' = Idle /\ mem'.slot = None
    <3>1. CASE Finish
      BY <1>0, <3>1 DEF Finish, dbVars, SlotInv
    <3>2. CASE Crash
      BY <3>2 DEF Crash, dbVars
    <3> QED BY <1>5, <3>1, <3>2
  <2>2. run'.pc = "idle"
    BY <2>1, LaunchRun
  <2>3. ActiveEpoch' = ActiveEpoch /\ ActivePub' = ActivePub
    BY <2>1, SameMan
  <2>4. SlotInv'
    BY <2>1, <2>2 DEF SlotInv, HotPcs
  <2>5. EpochInv'
    BY <1>0, <2>1, <2>2, <2>3 DEF EpochInv, GcPcs, FullPcs
  <2>6. PlanInv'
    BY <2>2 DEF PlanInv
  <2> QED BY <1>0, <2>3, <2>4, <2>5, <2>6 DEF OrderInv, Ahead
<1>6. CASE \E o \in RelOps : Republish(o)
  <2>1. PICK o \in RelOps : Republish(o)
    BY <1>6
  <2>2. /\ run.pc = "republish" /\ Activate(o, ActiveEpoch) /\ run' = [run EXCEPT !.pc = "finish"]
        /\ UNCHANGED mem /\ o \in Ops
    BY <2>1 DEF Republish, At, Ops
  <2>3. Ahead /\ ActiveEpoch' <= meta'.epoch
    BY <1>0, <2>2, ActivateTop DEF EpochInv
  <2>4. run'.op = run.op /\ run'.pc = "finish"
    BY <1>0, <2>2, PcNames, PcRun
  <2>5. SlotInv'
    BY <1>0, <2>2, <2>4 DEF SlotInv, HotPcs
  <2>6. EpochInv'
    BY <2>3, <2>4 DEF EpochInv, GcPcs, FullPcs
  <2>7. PlanInv'
    BY <2>4 DEF PlanInv
  <2> QED BY <2>3, <2>5, <2>6, <2>7 DEF OrderInv
<1>7. CASE UNCHANGED genVars
  <2>1. UNCHANGED <<man, meta, mem, run>>
    BY <1>7 DEF genVars
  <2>2. SlotInv' /\ EpochInv' /\ PlanInv'
    BY <1>0, <2>1, SameMan DEF SlotInv, Astray, EpochInv, PlanInv
  <2> QED BY <1>7, <2>2 DEF OrderInv
<1> QED BY <1>1, <1>2, <1>3, <1>4, <1>5, <1>6, <1>7 DEF GenNext, RunStep, Fault

\* The second layer holds at first.
LEMMA OrderInit ==
  GenInit => OrderInv
<1> SUFFICES ASSUME GenInit PROVE OrderInv
  OBVIOUS
<1>1. run.pc = "idle"
  BY LaunchRun DEF GenInit
<1>2. ActiveEpoch = 0
  BY DEF GenInit, ActiveEpoch, ActiveOps, NoRow
<1> QED BY <1>1, <1>2 DEF OrderInv, SlotInv, EpochInv, PlanInv, GenInit, HotPcs, GcPcs,
           FullPcs

\* The second layer holds in every reachable state, whatever overtakes what.
THEOREM OrderInvariance == GenSpec => []OrderInv
<1>1. GenInit => OrderInv
  BY OrderInit
<1>2. TypeInv /\ OrderInv /\ [GenNext]_genVars => OrderInv'
  BY OrderStep
<1> QED BY <1>1, <1>2, GenInvariance, PTL DEF GenSpec

\* activate, compaction and the collection after a publication: neither the
\* publication id nor the epoch that readers resolve ever goes back, with crashes and
\* failures anywhere, for any number of retained generations from 1 on and whichever
\* operations overtake each other.
THEOREM PublicationsMonotone == GenSpec => PublicationMonotone
<1>1. TypeInv /\ OrderInv /\ [GenNext]_genVars => [ActivePub' >= ActivePub /\ ActiveEpoch' >= ActiveEpoch]_genVars
  BY OrderStep DEF Ahead
<1> QED BY <1>1, GenInvariance, OrderInvariance, PTL DEF GenSpec, PublicationMonotone

---------------------------------------------------------------------------
\* The steps of prepare_candidate behind the adoption.
Preparing == {"compact", "compactDocs", "unlink", "clean", "register"}
\* The changes of o are in the candidate of o, in store s: changed files written,
\* removed ones absent, both hidden in the parent.
Done(o, s) ==
  /\ work[o].put \cup work[o].del \subseteq ov[man[o].data]
  /\ \A f \in work[o].put : data[s][man[o].data][f] = o
  /\ \A f \in work[o].del : data[s][man[o].data][f] = None

\* While a hot update is unfinished and not overtaken, only it runs; a row that is
\* building or failed belongs to an unfinished hot update.
AloneInv ==
  /\ \A o \in HotOps \ lapped : ck[o] = "in_progress" => run.op \in {o, None}
  /\ run.op \in HotOps => ck[run.op] = "in_progress"
  /\ \A o \in HotOps : man[o].st \in {"building", "failed"} => ck[o] = "in_progress"
  /\ run.pc \in GcPcs \cup {"republish", "finish"} => man[run.op].st \in {"active", "none"}
\* Markers name stores; there are none while the candidate is made; when the
\* candidate can be adopted and nothing has overtaken it, what is marked is done in it.
MarkInv ==
  /\ \A o \in HotOps : marks[o] \subseteq Stores /\ (ck[o] = "none" => marks[o] = {})
  /\ \A o \in HotOps : ck[o] = "in_progress" => work[o] \in HotChanges
  /\ run.op \in HotOps /\ run.pc \in Preparing => marks[run.op] = {}
  /\ run.op \in HotOps /\ run.pc = "prepare" =>
       marks[run.op] = {} \/ (run.resume /\ Adoptable(run.op))
  /\ run.op \in HotOps /\ run.pc = "mark" /\ Adoptable(run.op) => Done(run.op, Module)
  /\ \A o \in HotOps \ lapped : Adoptable(o) => \A s \in marks[o] : Done(o, s)

\* While an operation runs, the candidates that are not overtaken are its own.
LEMMA Alone ==
  ASSUME AloneInv, run.op # None, NEW p \in HotOps \ lapped, man[p].st \in {"building", "failed"}
  PROVE  run.op = p
BY DEF AloneInv

\* A step that neither starts nor ends a hot update, and makes no candidate for
\* another one, keeps it alone.
LEMMA AloneFlight ==
  ASSUME AloneInv, HistoryGrows, run'.op = run.op \/ run'.op = None,
         \A p \in HotOps : ck'[p] = ck[p],
         \A p \in HotOps : man'[p].st \in {"building", "failed"} =>
            p = run.op \/ man[p].st \in {"building", "failed"},
         run'.pc \in GcPcs \cup {"republish", "finish"} => man'[run'.op].st \in {"active", "none"}
  PROVE  AloneInv'
<1>0. None \notin HotOps
  BY GenAssumption DEF Ops
<1> QED BY <1>0 DEF AloneInv, HistoryGrows

\* A step after which no hot update has a candidate keeps the markers sound.
LEMMA MarksElsewhere ==
  ASSUME MarkInv, \A p \in HotOps \ lapped' : man'[p].st # "building",
         \A p \in HotOps : /\ marks'[p] = marks[p] /\ work'[p] = work[p]
                           /\ ck'[p] = "in_progress" => ck[p] = "in_progress"
                           /\ ck'[p] = "none" => ck[p] = "none",
         run'.pc \notin Preparing \cup {"prepare", "mark"}
  PROVE  MarkInv'
<1>1. \A p \in HotOps \ lapped' : ~Adoptable(p)'
  BY DEF Adoptable
<1> HIDE DEF Adoptable, Done
<1> QED BY <1>1 DEF MarkInv

\* So does a step that leaves table, stores and overrides alone.
LEMMA MarksSame ==
  ASSUME MarkInv, HistoryGrows, UNCHANGED <<man, data, ov>>,
         \A p \in HotOps : /\ marks'[p] = marks[p] /\ work'[p] = work[p]
                           /\ ck'[p] = "in_progress" => ck[p] = "in_progress"
                           /\ ck'[p] = "none" => ck[p] = "none",
         run'.pc \notin Preparing \cup {"prepare", "mark"}
  PROVE  MarkInv'
<1>1. \A p \in HotOps : Adoptable(p)' = Adoptable(p)
  BY SameMan DEF Adoptable
<1>2. \A p \in HotOps : \A s : Done(p, s)' = Done(p, s)
  BY DEF Done
<1> HIDE DEF Adoptable, Done
<1> QED BY <1>1, <1>2 DEF MarkInv, HistoryGrows

\* Starting or resuming an operation keeps the third layer: a resumed update drops
\* the markers of a candidate that it cannot adopt, and whatever else is unfinished
\* is overtaken.
LEMMA MarksStart ==
  ASSUME TypeInv, AloneInv, MarkInv, HistoryGrows,
         \/ \E o \in HotOps : StartHot(o) \/ ResumeHot(o)
         \/ \E o \in ConfigOps : StartConfig(o)
         \/ \E o \in FullOps : StartFull(o)
  PROVE  AloneInv' /\ MarkInv'
<1>0. /\ Typed /\ HotOps \subseteq Ops /\ ConfigOps \subseteq Ops /\ FullOps \subseteq Ops
      /\ "prepare" \in Pcs /\ "ready" \in Pcs /\ None \notin Ops
      /\ HotOps \cap ConfigOps = {} /\ HotOps \cap FullOps = {}
  BY PcNames, GenAssumption DEF TypeInv, Ops, FullPcs
<1>1. UNCHANGED <<man, data, ov>> /\ run.pc = "idle"
  BY DEF StartHot, ResumeHot, StartConfig, StartFull, dbVars, At
<1>2. \A p \in HotOps : Adoptable(p)' = Adoptable(p)
  BY <1>1, SameMan DEF Adoptable
<1>l. ASSUME NEW o, Overtake(o), NEW p \in HotOps, p # o, ck[p] = "in_progress" PROVE p \in lapped'
  BY <1>l DEF Overtake, Unfinished
<1> HIDE DEF Adoptable
<1>3. ASSUME NEW o \in HotOps, StartHot(o) PROVE AloneInv' /\ MarkInv'
  <2>1. run'.op = o /\ run'.pc = "prepare"
    BY <1>0, <1>3, LaunchRun DEF StartHot
  <2>2. /\ \A p \in HotOps : p # o /\ ck[p] = "in_progress" => p \in lapped'
        /\ ck[o] = "none" /\ man[o].st = "none" /\ UNCHANGED marks
        /\ ck' = [ck EXCEPT ![o] = "in_progress"]
    BY <1>3, <1>l DEF StartHot, Fresh
  <2>3. PICK c \in HotChanges : work' = [work EXCEPT ![o] = c]
    BY <1>3 DEF StartHot
  <2>4. \A p \in HotOps : ck'[p] = (IF p = o THEN "in_progress" ELSE ck[p])
                          /\ work'[p] = (IF p = o THEN c ELSE work[p])
    BY <1>0, <2>2, <2>3 DEF Typed
  <2>5. AloneInv'
    BY <1>0, <1>1, <2>1, <2>2, <2>4 DEF AloneInv, GcPcs
  <2>6. ASSUME NEW p \in HotOps \ lapped', Adoptable(p)', NEW s \in marks'[p] PROVE Done(p, s)'
    <3>1. p # o
      BY <1>1, <2>2, <2>6 DEF Adoptable
    <3>2. work'[p] = work[p]
      BY <2>4, <3>1
    <3>3. Done(p, s)
      BY <1>2, <2>2, <2>6 DEF MarkInv, HistoryGrows
    <3> QED BY <1>1, <3>2, <3>3 DEF Done
  <2>7. marks[o] = {}
    BY <2>2 DEF MarkInv
  <2> HIDE DEF Done
  <2> QED BY <2>1, <2>2, <2>4, <2>5, <2>6, <2>7 DEF MarkInv, Preparing
<1>4. ASSUME NEW o \in HotOps, ResumeHot(o) PROVE AloneInv' /\ MarkInv'
  <2>1. /\ ck[o] = "in_progress" /\ UNCHANGED work
        /\ marks' = [marks EXCEPT ![o] = IF Adoptable(o) THEN @ ELSE {}]
    BY <1>4 DEF ResumeHot, Recoverable, Unfinished
  <2>2. \A p \in HotOps : marks'[p] = (IF p # o \/ Adoptable(o) THEN marks[p] ELSE {})
    BY <1>0, <2>1 DEF Typed
  <2>3. \A p \in HotOps : \A s \in marks'[p] : s \in marks[p]
    BY <2>2
  <2>4. \A p \in HotOps : \A s : Done(p, s)' = Done(p, s)
    BY <1>1, <2>1 DEF Done
  <2> HIDE DEF Done
  <2>5. \A p \in HotOps \ lapped' : Adoptable(p)' => \A s \in marks'[p] : Done(p, s)'
    BY <1>2, <2>3, <2>4 DEF MarkInv, HistoryGrows
  <2>6. CASE man[o].st = "active"
    <3>1. ck' = [ck EXCEPT ![o] = "completed"] /\ UNCHANGED run
      BY <1>4, <2>6 DEF ResumeHot, Resume
    <3>2. \A p \in HotOps : ck'[p] = (IF p = o THEN "completed" ELSE ck[p])
      BY <1>0, <3>1 DEF Typed
    <3>3. run.op = None
      BY <1>1 DEF TypeInv, Launched
    <3>4. AloneInv'
      BY <1>0, <1>1, <2>6, <3>1, <3>2, <3>3 DEF AloneInv, GcPcs, HistoryGrows
    <3> QED BY <1>0, <2>1, <2>3, <2>5, <3>1, <3>2, <3>3, <3>4 DEF MarkInv
  <2>7. CASE man[o].st # "active"
    <3>1. Launch(o, "prepare", TRUE) /\ Overtake(o) /\ UNCHANGED ck
      BY <1>4, <2>7 DEF ResumeHot, Resume
    <3>2. run'.op = o /\ run'.pc = "prepare"
      BY <1>0, <3>1, LaunchRun
    <3>3. run'.resume
      BY <3>1 DEF Launch, Idle
    <3>4. AloneInv'
      BY <1>0, <1>1, <1>l, <2>1, <3>1, <3>2 DEF AloneInv, GcPcs
    <3>5. marks'[o] = {} \/ (run'.resume /\ Adoptable(o)')
      BY <1>2, <2>2, <3>3
    <3> QED BY <1>0, <2>1, <2>3, <2>5, <3>1, <3>2, <3>4, <3>5 DEF MarkInv, Preparing
  <2> QED BY <2>6, <2>7
<1>5. ASSUME NEW o \in ConfigOps, StartConfig(o) PROVE AloneInv' /\ MarkInv'
  <2>1. run'.op = o /\ run'.pc = "prepare"
    BY <1>0, <1>5, LaunchRun DEF StartConfig
  <2> DEFINE c == [put |-> {}, del |-> {}]
  <2>2. /\ \A p \in HotOps : p # o /\ ck[p] = "in_progress" => p \in lapped'
        /\ work' = [work EXCEPT ![o] = c] /\ ck' = [ck EXCEPT ![o] = "in_progress"] /\ UNCHANGED marks
    BY <1>5, <1>l DEF StartConfig
  <2> HIDE DEF c
  <2>3. o \notin HotOps /\ \A p \in HotOps : ck'[p] = ck[p] /\ work'[p] = work[p]
    BY <1>0, <2>2 DEF Typed
  <2>4. AloneInv'
    BY <1>0, <1>1, <2>1, <2>2, <2>3 DEF AloneInv, GcPcs
  <2>5. \A p \in HotOps : \A s : Done(p, s)' = Done(p, s)
    BY <1>1, <2>3 DEF Done
  <2> HIDE DEF Done
  <2> QED BY <1>2, <2>1, <2>2, <2>3, <2>4, <2>5 DEF MarkInv, HistoryGrows
<1>6. ASSUME NEW o \in FullOps, StartFull(o) PROVE AloneInv' /\ MarkInv'
  <2>1. run'.op = o /\ run'.pc = "ready" /\ o \notin HotOps
    BY <1>0, <1>6, LaunchRun DEF StartFull
  <2>2. /\ \A p \in HotOps : p # o /\ ck[p] = "in_progress" => p \in lapped'
        /\ UNCHANGED <<ck, work, marks>>
    BY <1>6, <1>l DEF StartFull, ckVars
  <2>3. AloneInv'
    BY <1>0, <1>1, <2>1, <2>2 DEF AloneInv, GcPcs
  <2>4. MarkInv'
    BY <1>1, <2>1, <2>2, MarksSame DEF Preparing
  <2> QED BY <2>3, <2>4
<1> QED BY <1>3, <1>4, <1>5, <1>6

\* So does every step of prepare: markers are kept only with the candidate they are
\* about.
LEMMA MarksPrepare ==
  ASSUME TypeInv, OrderInv, AloneInv, MarkInv, HistoryGrows,
         \/ PrepareAgain \/ Adopt \/ AdoptFails \/ Resolve \/ CompactRows \/ CompactDocs \/ Unlink
         \/ CleanDocs \/ Register \/ PrepareFails \/ PrepareRefused
  PROVE  AloneInv' /\ MarkInv'
<1>0. /\ Typed /\ Launched /\ DistinctPubs(man) /\ RoomInv /\ HotOps \subseteq Ops
      /\ run \in Runs /\ man \in [Ops -> Rows]
      /\ {"compact", "compactDocs", "unlink", "clean", "register"} \subseteq Pcs
  BY PcNames DEF TypeInv, Typed, HotPcs, Ops
<1>r. run.failed \in BOOLEAN
  BY <1>0 DEF Runs
<1>1. run.pc \in HotPcs /\ UNCHANGED <<ck, work, marks>>
  BY DEF PrepareAgain, Adopt, AdoptFails, Resolve, CompactRows, CompactDocs, Unlink, CleanDocs,
     Register,
         PrepareFails, PrepareRefused, PreparationFailed, At, HotPcs, ckVars
<1>2. run.op \in Ops /\ run.op # None
  BY <1>0, <1>1, GenAssumption DEF Launched, HotPcs
<1>a. ASSUME run'.op = run.op, run'.pc \in HotPcs \cup {"abort"},
             \A p \in HotOps : man'[p].st \in {"building", "failed"} =>
                p = run.op \/ man[p].st \in {"building", "failed"}
      PROVE  AloneInv'
  <2>1. run'.pc \notin GcPcs \cup {"republish", "finish"}
    BY <1>a DEF HotPcs, GcPcs
  <2> QED BY <1>1, <1>a, <2>1, AloneFlight
<1>m. ASSUME run.op \in HotOps => marks[run.op] = {}, run'.op = run.op,
             run'.pc \in HotPcs \cup {"abort"}, run'.pc # "mark",
             \A p \in HotOps : man'[p].st = "building" =>
                p = run.op \/ man[p].st \in {"building", "failed"}
      PROVE  MarkInv'
  <2>1. \A p \in HotOps \ lapped' : Adoptable(p)' => p = run.op
    BY <1>2, <1>m, Alone DEF Adoptable, HistoryGrows
  <2> HIDE DEF Adoptable, Done
  <2> QED BY <1>1, <1>m, <2>1 DEF MarkInv
<1>3. CASE PrepareAgain \/ Adopt \/ AdoptFails
  <2>1. UNCHANGED <<man, data, ov>> /\ run.pc = "prepare"
    BY <1>3 DEF PrepareAgain, Adopt, AdoptFails, dbVars, At
  <2>2. /\ run'.op = run.op /\ run'.pc \in {"prepare", "abort", "process"}
        /\ run'.resume = run.resume
    <3>1. CASE PrepareAgain
      <4> DEFINE f == run.failed \/ mem.slot # run.op
      <4>1. Prepared(f) /\ f \in BOOLEAN
        BY <3>1 DEF PrepareAgain
      <4> HIDE DEF f
      <4>2. run'.op = run.op /\ run'.pc \in {"prepare", "abort", "process"}
        BY <1>0, <4>1, PreparedRun
      <4>3. run'.resume = run.resume
        BY <1>0, <4>1, PreparedRun, Zenon
      <4> QED BY <4>2, <4>3, Zenon
    <3>2. CASE Adopt
      <4>1. Prepared(run.failed)
        BY <3>2 DEF Adopt
      <4>2. run'.op = run.op /\ run'.pc \in {"prepare", "abort", "process"}
        BY <1>0, <1>r, <4>1, PreparedRun
      <4>3. run'.resume = run.resume
        BY <1>0, <1>r, <4>1, PreparedRun, Zenon
      <4> QED BY <4>2, <4>3, Zenon
    <3>3. CASE AdoptFails
      <4> DEFINE t == TRUE
      <4>1. Prepared(t) /\ t \in BOOLEAN
        BY <3>3 DEF AdoptFails
      <4> HIDE DEF t
      <4>2. run'.op = run.op /\ run'.pc \in {"prepare", "abort", "process"}
        BY <1>0, <4>1, PreparedRun
      <4>3. run'.resume = run.resume
        BY <1>0, <4>1, PreparedRun, Zenon
      <4> QED BY <4>2, <4>3, Zenon
    <3> QED BY <1>3, <3>1, <3>2, <3>3
  <2>3. AloneInv'
    BY <1>a, <2>1, <2>2 DEF HotPcs
  <2>4. \A p \in HotOps : Adoptable(p)' = Adoptable(p)
    BY <2>1, SameMan DEF Adoptable
  <2>5. \A p \in HotOps : \A s : Done(p, s)' = Done(p, s)
    BY <1>1, <2>1 DEF Done
  <2> HIDE DEF Adoptable, Done
  <2>6. run.op \in HotOps => marks[run.op] = {} \/ (run.resume /\ Adoptable(run.op))
    BY <2>1 DEF MarkInv
  <2>7. run.op \in HotOps => marks'[run'.op] = {} \/ (run'.resume /\ Adoptable(run.op)')
    BY <1>1, <2>2, <2>4, <2>6, Zenon
  <2>8. MarkInv'
    BY <1>1, <2>2, <2>4, <2>5, <2>7 DEF MarkInv, Preparing, HistoryGrows
  <2> QED BY <2>3, <2>8
<1>4. CASE Resolve
  <2> DEFINE p == IF ActiveParent > 0 THEN "compact" ELSE "clean"
  <2>1. /\ UNCHANGED man /\ run.pc = "prepare" /\ run' = [run EXCEPT !.pc = p]
        /\ ~(run.resume /\ Adoptable(run.op))
    BY <1>4 DEF Resolve, dbVars, At
  <2>2. p \in Pcs /\ p \in {"compact", "clean"}
    BY <1>0
  <2> HIDE DEF p
  <2>3. run'.op = run.op /\ run'.pc = p
    BY <1>0, <2>1, <2>2, PcRun
  <2>4. run.op \in HotOps => marks[run.op] = {}
    BY <2>1 DEF MarkInv
  <2> QED BY <1>a, <1>m, <2>1, <2>2, <2>3, <2>4 DEF HotPcs
<1>5. CASE CompactRows \/ CompactDocs \/ CleanDocs
  <2>1. PICK p \in {"compactDocs", "unlink", "register"} : run' = [run EXCEPT !.pc = p]
    BY <1>5 DEF CompactRows, CompactDocs, CleanDocs
  <2>2. UNCHANGED man /\ run.pc \in {"compact", "compactDocs", "clean"}
    BY <1>5 DEF CompactRows, CompactDocs, CleanDocs, At
  <2>3. p \in Pcs /\ p \in HotPcs
    BY <1>0 DEF HotPcs
  <2>4. run'.op = run.op /\ run'.pc = p
    BY <1>0, <2>1, <2>3, PcRun
  <2>5. run.op \in HotOps => marks[run.op] = {}
    BY <2>2 DEF MarkInv, Preparing
  <2> QED BY <1>a, <1>m, <2>1, <2>2, <2>3, <2>4, <2>5
<1>6. CASE Unlink
  <2>1. /\ run.pc = "unlink" /\ run' = [run EXCEPT !.pc = "clean"]
        /\ man' = [man EXCEPT ![Active].parent = 0]
    BY <1>6 DEF Unlink, At
  <2>2. run'.op = run.op /\ run'.pc = "clean"
    BY <1>0, <2>1, PcRun
  <2>3. \A p \in HotOps : man'[p].st = man[p].st
    <3>1. CASE Active \in Ops
      <4> DEFINE r == [man[Active] EXCEPT !.parent = 0]
      <4>1. man' = [man EXCEPT ![Active] = r] /\ man[Active] \in Rows
        BY <1>0, <2>1, <3>1
      <4>2. r.st = man[Active].st
        BY <4>1 DEF Rows
      <4> HIDE DEF r
      <4> QED BY <1>0, <3>1, <4>1, <4>2
    <3>2. CASE Active \notin Ops
      BY <1>0, <2>1, <3>2
    <3> QED BY <3>1, <3>2
  <2>4. run.op \in HotOps => marks[run.op] = {}
    BY <2>1 DEF MarkInv, Preparing
  <2> QED BY <1>a, <1>m, <2>2, <2>3, <2>4 DEF HotPcs
<1>7. CASE Register
  <2> DEFINE r == [Begun(run.op, mem.hot) EXCEPT !.parent = ActiveEpoch, !.ready = TRUE]
  <2>1. /\ run.pc = "register" /\ Prepared(run.failed) /\ man' = [man EXCEPT ![run.op] = r]
    BY <1>7 DEF Register, At
  <2> HIDE DEF r
  <2>2. run'.op = run.op /\ run'.pc \in {"prepare", "abort", "process"}
    BY <1>0, <1>r, <2>1, PreparedRun
  <2>3. \A p \in HotOps : p # run.op => man'[p] = man[p]
    BY <1>0, <2>1
  <2>4. run.op \in HotOps => marks[run.op] = {}
    BY <2>1 DEF MarkInv, Preparing
  <2> QED BY <1>a, <1>m, <2>2, <2>3, <2>4 DEF HotPcs
<1>8. CASE PrepareFails \/ PrepareRefused
  <2> DEFINE t == TRUE
  <2>1. MarkFailed(run.op) /\ Prepared(t) /\ t \in BOOLEAN
    BY <1>8 DEF PrepareFails, PrepareRefused, PreparationFailed
  <2> HIDE DEF t
  <2>2. run'.op = run.op /\ run'.pc \in {"prepare", "abort", "process"}
    BY <1>0, <2>1, PreparedRun
  <2>3. \A p \in HotOps : p # run.op => man'[p].st = man[p].st
    BY <1>0, <1>2, <2>1, MarkFailedType
  <2>4. run.pc \in Preparing \/ (run.pc = "prepare" /\ ~(run.resume /\ Adoptable(run.op)))
    BY <1>8 DEF PrepareFails, PrepareRefused, At, Preparing
  <2> HIDE DEF Adoptable
  <2>5. run.op \in HotOps => marks[run.op] = {}
    BY <2>4 DEF MarkInv
  <2> QED BY <1>a, <1>m, <2>2, <2>3, <2>5 DEF HotPcs
<1> QED BY <1>3, <1>4, <1>5, <1>6, <1>7, <1>8

\* So does processing, commit and abort: a module is marked after it was written.
LEMMA MarksProcess ==
  ASSUME TypeInv, OrderInv, AloneInv, MarkInv, HistoryGrows,
         Process \/ Mark \/ SkipModule \/ ProcessFails \/ Commit \/ CommitFails \/ Abort
  PROVE  AloneInv' /\ MarkInv'
<1>0. /\ Typed /\ Launched /\ DistinctPubs(man) /\ SlotInv /\ RoomInv /\ HotOps \subseteq Ops
      /\ run \in Runs /\ man \in [Ops -> Rows] /\ mem \in Mems
      /\ "mark" \in Pcs /\ "plan" \in Pcs /\ "abort" \in Pcs
  BY PcNames DEF TypeInv, OrderInv, Typed, HotPcs, Ops
<1>r. run.failed \in BOOLEAN
  BY <1>0 DEF Runs
<1>1. run.pc \in {"process", "mark", "commit", "abort"}
  BY DEF Process, Mark, SkipModule, ProcessFails, Commit, CommitFails, Abort, At
<1>2. run.op \in Ops /\ run.op # None /\ run.k \in 1..2 /\ Module \in Stores
  <2>1. Modules[1] \in Stores /\ Modules[2] \in Stores
    BY DEF Modules, Stores
  <2> QED BY <1>0, <1>1, <2>1, GenAssumption DEF Launched, Module
<1>3. CASE Process
  <2> DEFINE w == work[run.op]
             D(s) == [f \in Files |-> IF f \in w.put /\ s = Module THEN run.op
                                      ELSE IF f \in w.del THEN None ELSE data[s][mem.hot][f]]
  <2>1. /\ run.pc = "process" /\ UNCHANGED <<man, meta, ck, work, marks, mem>>
        /\ data' = [s \in Stores |-> [data[s] EXCEPT ![mem.hot] = D(s)]]
        /\ ov' = [ov EXCEPT ![mem.hot] = @ \cup w.put \cup w.del]
        /\ run' = [run EXCEPT !.pc = "mark"]
    BY <1>3 DEF Process, At, ckVars
  <2>2. run'.op = run.op /\ run'.pc = "mark" /\ run'.k = run.k
    BY <1>0, <2>1, PcRun
  <2>3. AloneInv'
    BY <2>1, <2>2, AloneFlight DEF GcPcs
  <2>4. mem.hot = ActiveEpoch + 1 /\ mem.hot \in Epochs
    BY <1>0, <1>2, <2>1, EpochRange, GenAssumption DEF SlotInv, Astray, RoomInv, HotPcs, Bounded,
       Epochs
  <2>5. Module' = Module
    BY <2>2 DEF Module
  <2>6. \A s \in Stores : data'[s][mem.hot] = D(s)
    <3>1. \A s \in Stores : data[s] \in [Epochs -> Epoch]
      BY <1>0 DEF Typed, Datas
    <3> HIDE DEF D
    <3> QED BY <2>1, <2>4, <3>1
  <2>7. ov'[mem.hot] = ov[mem.hot] \cup w.put \cup w.del
    BY <1>0, <2>1, <2>4 DEF Typed, Overrides
  <2>8. ASSUME run.op \in HotOps, man[run.op].data = mem.hot
        PROVE  /\ Done(run.op, Module)'
               /\ \A s \in marks[run.op] : Done(run.op, s) => Done(run.op, s)'
    <3>1. w \in HotChanges /\ w.put \cap w.del = {} /\ w.put \subseteq Files /\ w.del \subseteq Files
      <4>1. w \in HotChanges
        BY <2>8 DEF AloneInv, MarkInv
      <4> QED BY <4>1, GenAssumption
    <3>2. marks[run.op] \subseteq Stores /\ man'[run.op].data = mem.hot /\ work'[run.op] = w
      BY <2>1, <2>8 DEF MarkInv
    <3> HIDE DEF w
    <3>3. \A s \in Stores : /\ \A f \in w.del : D(s)[f] = None
                            /\ s = Module => \A f \in w.put : D(s)[f] = run.op
                            /\ s # Module => \A f \in w.put : D(s)[f] = data[s][mem.hot][f]
      BY <3>1
    <3>4. w.put \cup w.del \subseteq ov'[mem.hot]
      BY <2>7
    <3> HIDE DEF D
    <3>5. Done(run.op, Module)'
      BY <1>2, <2>2, <2>5, <2>6, <3>2, <3>3, <3>4 DEF Done
    <3>6. ASSUME NEW s \in marks[run.op], Done(run.op, s) PROVE Done(run.op, s)'
      <4>1. CASE s = Module
        BY <2>5, <3>5, <4>1
      <4>2. CASE s # Module
        <5>1. \A f \in w.put : data[s][mem.hot][f] = run.op
          BY <2>8, <3>6 DEF Done, w
        <5> QED BY <2>2, <2>6, <3>2, <3>3, <3>4, <4>2, <5>1 DEF Done
      <4> QED BY <4>1, <4>2
    <3> QED BY <3>5, <3>6
  <2>9. \A p \in HotOps : Adoptable(p)' => Adoptable(p) /\ man[p].data = mem.hot /\ (p \in lapped \/ p = run.op)
    BY <1>2, <2>1, <2>4, SameMan, Alone DEF Adoptable
  <2> HIDE DEF Adoptable, Done
  <2>10. \A p \in HotOps \ lapped' : Adoptable(p)' => \A s \in marks'[p] : Done(p, s)'
    BY <2>1, <2>8, <2>9 DEF MarkInv, HistoryGrows
  <2>11. run.op \in HotOps /\ Adoptable(run.op)' => Done(run.op, Module)'
    BY <2>2, <2>8, <2>9
  <2>12. MarkInv'
    BY <2>1, <2>2, <2>10, <2>11 DEF MarkInv, Preparing
  <2> QED BY <2>3, <2>12
<1>4. CASE Mark
  <2>1. /\ run.pc = "mark" /\ marks' = [marks EXCEPT ![run.op] = @ \cup {Module}] /\ NextModule(run.failed)
        /\ UNCHANGED <<man, data, ov, ck, work>>
    BY <1>4 DEF Mark, At, dbVars
  <2>2. run'.op = run.op /\ run'.pc \in {"process", "abort", "commit"}
    BY <1>0, <1>r, <2>1, NextModuleRun
  <2>3. AloneInv'
    BY <2>1, <2>2, AloneFlight DEF GcPcs
  <2>4. \A p \in HotOps : marks'[p] = (IF p = run.op THEN marks[p] \cup {Module} ELSE marks[p])
    BY <1>0, <2>1 DEF Typed
  <2>5. \A p \in HotOps : Adoptable(p)' = Adoptable(p)
    BY <2>1, SameMan DEF Adoptable
  <2>6. \A p \in HotOps : \A s : Done(p, s)' = Done(p, s)
    BY <2>1 DEF Done
  <2>7. run.op \in HotOps => ck[run.op] = "in_progress"
    BY DEF AloneInv
  <2> HIDE DEF Adoptable, Done, Module
  <2>8. MarkInv'
    BY <1>2, <2>1, <2>2, <2>4, <2>5, <2>6, <2>7 DEF MarkInv, Preparing, HistoryGrows
  <2> QED BY <2>3, <2>8
<1>5. CASE SkipModule \/ ProcessFails \/ CommitFails
  <2>1. UNCHANGED <<man, data, ov, ck, work, marks>> /\ run.pc \in {"process", "commit"}
    BY <1>5 DEF SkipModule, ProcessFails, CommitFails, dbVars, ckVars, At
  <2>2. run'.op = run.op /\ run'.pc \in {"process", "abort", "commit"}
    <3> DEFINE t == TRUE
    <3>1. \/ NextModule(run.failed) \/ NextModule(t) \/ NextCommit(t)
          \/ run' = [run EXCEPT !.failed = t, !.pc = "abort"]
      BY <1>5 DEF SkipModule, ProcessFails, CommitFails
    <3>2. t \in BOOLEAN /\ (IF t THEN "abort" ELSE "republish") = "abort"
      OBVIOUS
    <3> HIDE DEF t
    <3>3. CASE NextModule(run.failed)
      BY <1>0, <1>r, <3>3, NextModuleRun
    <3>4. CASE NextModule(t)
      BY <1>0, <3>2, <3>4, NextModuleRun
    <3>5. CASE NextCommit(t)
      <4>1. /\ run'.op = run.op
            /\ run.k < 2 => run'.pc = "commit"
            /\ ~(run.k < 2) => run'.pc = (IF t THEN "abort" ELSE "republish")
        BY <1>0, <3>2, <3>5, NextCommitRun
      <4> QED BY <3>2, <4>1
    <3>6. CASE run' = [run EXCEPT !.failed = t, !.pc = "abort"]
      BY <1>0, <3>2, <3>6 DEF Runs
    <3> QED BY <3>1, <3>3, <3>4, <3>5, <3>6
  <2>3. AloneInv'
    BY <2>1, <2>2, AloneFlight DEF GcPcs
  <2>4. MarkInv'
    BY <2>1, <2>2, MarksSame DEF Preparing
  <2> QED BY <2>3, <2>4
<1>6. CASE Commit
  <2>1. /\ Activate(run.op, mem.hot) /\ run' = [run EXCEPT !.pc = "plan"]
        /\ UNCHANGED <<ck, work, marks>>
    BY <1>6 DEF Commit, ckVars
  <2>2. run'.op = run.op /\ run'.pc = "plan"
    BY <1>0, <2>1, PcRun
  <2> DEFINE r == Activated(run.op, mem.hot)
  <2>3. man' = [man EXCEPT ![run.op] = r] /\ r.st = "active"
    BY <1>0, <1>2, <2>1, ActivatedRow DEF Activate, Mems
  <2> HIDE DEF r
  <2>4. man'[run.op].st = "active" /\ \A p \in HotOps : p # run.op => man'[p] = man[p]
    BY <1>0, <1>2, <2>3
  <2>5. AloneInv'
    BY <2>1, <2>2, <2>4, AloneFlight
  <2>6. \A p \in HotOps \ lapped' : man'[p].st # "building"
    BY <1>2, <2>4, Alone DEF HistoryGrows
  <2>7. MarkInv'
    BY <2>1, <2>2, <2>6, MarksElsewhere DEF Preparing
  <2> QED BY <2>5, <2>7
<1>7. CASE Abort
  <2>1. /\ MarkFailed(run.op) /\ UNCHANGED <<work, marks>> /\ run.pc = "abort"
        /\ run' = [run EXCEPT !.k = 2] \/ run' = Idle
        /\ ck' = ck \/ ck' = [ck EXCEPT ![run.op] = IF run.op \in ConfigOps THEN "failed" ELSE @]
    BY <1>7 DEF Abort, At
  <2>2. /\ run'.op = run.op \/ run'.op = None
        /\ run'.pc \in {"abort", "idle"}
    <3>1. CASE run' = [run EXCEPT !.k = 2]
      BY <1>0, <2>1, <3>1 DEF Runs
    <3>2. CASE run' = Idle
      BY <3>2, LaunchRun
    <3> QED BY <2>1, <3>1, <3>2
  <2>3. \A p \in HotOps : ck'[p] = ck[p]
    <3>1. \A p \in HotOps : p \notin ConfigOps
      BY GenAssumption
    <3> QED BY <1>0, <1>2, <2>1, <3>1 DEF Typed
  <2>4. \A p \in HotOps : man'[p].st = IF p = run.op /\ man[p].st = "building" THEN "failed" ELSE man[p].st
    BY <1>0, <1>2, <2>1, MarkFailedType
  <2>5. AloneInv'
    BY <2>2, <2>3, <2>4, AloneFlight DEF GcPcs
  <2>6. \A p \in HotOps \ lapped' : man'[p].st # "building"
    BY <1>2, <2>4, Alone DEF HistoryGrows
  <2>7. MarkInv'
    BY <2>1, <2>2, <2>3, <2>6, MarksElsewhere DEF Preparing
  <2> QED BY <2>5, <2>7
<1> QED BY <1>3, <1>4, <1>5, <1>6, <1>7

\* So does the collection: when something publishes, no candidate is there but those
\* it has overtaken.
LEMMA MarksCollect ==
  ASSUME TypeInv, OrderInv, AloneInv, MarkInv, HistoryGrows, PlanGc \/ CollectDocs \/ CollectRows \/ GcFails
  PROVE  AloneInv' /\ MarkInv'
<1>0. /\ Typed /\ Launched /\ HotOps \subseteq Ops /\ run \in Runs /\ man \in [Ops -> Rows]
      /\ "collectDocs" \in Pcs /\ "collectRows" \in Pcs /\ "finish" \in Pcs
  BY PcNames DEF TypeInv, Typed, GcPcs, Ops
<1>r. run.failed \in BOOLEAN
  BY <1>0 DEF Runs
<1>1. run.pc \in GcPcs /\ UNCHANGED <<ck, work, marks>>
  BY DEF PlanGc, CollectDocs, CollectRows, GcFails, At, GcPcs, ckVars
<1>2. run.op \in Ops /\ run.op # None /\ man[run.op].st \in {"active", "none"}
  BY <1>0, <1>1, GenAssumption DEF Launched, AloneInv, GcPcs
<1>3. \A p \in HotOps \ lapped : man[p].st \notin {"building", "failed"}
  BY <1>2, Alone
<1>4. \A p \in Ops : man'[p] = man[p] \/ man'[p].st = "none"
  <2>1. CASE CollectRows
    <3>1. NoRow.st = "none" /\ man' = [o \in Ops |-> IF man[o].pub \in run.plan.pubs THEN NoRow ELSE man[o]]
      BY <2>1 DEF CollectRows, NoRow
    <3> HIDE DEF NoRow
    <3> QED BY <3>1
  <2>2. CASE UNCHANGED man
    BY <2>2
  <2> QED BY <2>1, <2>2 DEF PlanGc, CollectDocs, GcFails, dbVars
<1>5. /\ run'.op = run.op \/ (run'.op = None /\ run'.pc = "idle")
      /\ run'.pc \in {"collectDocs", "collectRows", "idle", "finish", "commit", "abort", "republish"}
  <2>1. CASE PlanGc
    <3>1. PICK old \in SUBSET Ops : run' = [run EXCEPT !.plan = GcPlan(old), !.pc = "collectDocs"]
      BY <2>1 DEF PlanGc
    <3> HIDE DEF GcPlan
    <3> QED BY <1>0, <3>1 DEF Runs
  <2>2. CASE CollectDocs
    BY <1>0, <2>2, PcRun DEF CollectDocs
  <2>3. CASE run' = Idle
    BY <2>3, LaunchRun
  <2>4. CASE run' = [run EXCEPT !.pc = "finish", !.plan = NoPlan]
    <3> HIDE DEF NoPlan
    <3> QED BY <1>0, <2>4 DEF Runs
  <2>5. CASE NextCommit(run.failed)
    <3>1. run.k \in 1..2
      BY <1>0, <1>1 DEF Launched, GcPcs
    <3> QED BY <1>0, <1>r, <2>5, <3>1, NextCommitRun
  <2> QED BY <2>1, <2>2, <2>3, <2>4, <2>5 DEF CollectRows, GcFails
<1>6. AloneInv'
  <2>1. \A p \in HotOps : man'[p].st \in {"building", "failed"} => man[p].st \in {"building", "failed"}
    BY <1>0, <1>4
  <2>2. run'.pc \in GcPcs \cup {"republish", "finish"} => man'[run'.op].st \in {"active", "none"}
    BY <1>2, <1>4, <1>5 DEF GcPcs
  <2> QED BY <1>1, <1>5, <2>1, <2>2, AloneFlight
<1>7. MarkInv'
  <2>1. \A p \in HotOps \ lapped' : man'[p].st # "building"
    BY <1>0, <1>3, <1>4 DEF HistoryGrows
  <2> QED BY <1>1, <1>5, <2>1, MarksElsewhere DEF Preparing
<1> QED BY <1>6, <1>7

\* So does every step of a full index.
LEMMA MarksFull ==
  ASSUME TypeInv, OrderInv, AloneInv, MarkInv, HistoryGrows,
         \/ FullNotReady \/ FullScan \/ FullManifest \/ FullActivate \/ FullFails
         \/ \E f \in Files : FullBatch(f)
  PROVE  AloneInv' /\ MarkInv'
<1>0. /\ Typed /\ Launched /\ DistinctPubs(man) /\ EpochInv
      /\ HotOps \subseteq Ops /\ run \in Runs /\ man \in [Ops -> Rows] /\ mem \in Mems
      /\ {"scan", "manifest", "batch", "plan"} \subseteq Pcs
  BY PcNames DEF TypeInv, OrderInv, Typed, FullPcs, Ops
<1>1. run.pc \in FullPcs
  BY DEF FullNotReady, FullScan, FullManifest, FullActivate, FullFails, FullBatch, At,
     FullPcs
<1>2. run.op \in Ops /\ run.op # None /\ run.op \notin HotOps /\ run.op \in FullOps
  BY <1>0, <1>1, GenAssumption DEF EpochInv, Ops
<1>3. \A p \in HotOps \ lapped : man[p].st \notin {"building", "failed"}
  BY <1>2, Alone
<1>4. /\ \A p \in HotOps : ck'[p] = ck[p] /\ work'[p] = work[p] /\ marks'[p] = marks[p]
  <2>1. \A p \in HotOps : p # run.op
    BY <1>2
  <2>2. CASE FullScan
    BY <1>0, <2>1, <2>2 DEF FullScan, Typed
  <2>3. CASE \E f \in Files : FullBatch(f)
    <3>1. PICK f \in Files : FullBatch(f)
      BY <2>3
    <3> QED BY <1>0, <2>1, <3>1 DEF FullBatch, Typed
  <2>4. CASE FullNotReady \/ FullManifest \/ FullActivate \/ FullFails
    BY <2>4 DEF FullNotReady, FullManifest, FullActivate, FullFails, ckVars
  <2> QED BY <2>2, <2>3, <2>4
<1>5. \A p \in HotOps : man'[p].st = man[p].st
  <2>1. \A p \in HotOps : p # run.op
    BY <1>2
  <2>2. CASE UNCHANGED man
    BY <2>2
  <2>3. CASE man' = [man EXCEPT ![run.op] = Begun(run.op, mem.full)]
    <3> HIDE DEF Begun
    <3> QED BY <1>0, <2>1, <2>3
  <2>4. CASE man' = [man EXCEPT ![run.op] = Activated(run.op, mem.full)]
    <3> HIDE DEF Activated
    <3> QED BY <1>0, <2>1, <2>4
  <2>5. CASE MarkFailed(run.op)
    BY <1>0, <1>2, <2>1, <2>5, MarkFailedType
  <2> QED BY <2>2, <2>3, <2>4, <2>5
          DEF FullNotReady, FullScan, FullManifest, FullActivate, FullFails, FullBatch, Activate, dbVars
<1>6. /\ run'.op = run.op \/ run'.op = None
      /\ run'.pc \in FullPcs \cup {"plan", "idle"}
      /\ run'.pc = "plan" => run'.op = run.op /\ man'[run.op].st = "active"
  <2>1. CASE FullNotReady
    BY <1>0, <2>1, PcRun DEF FullNotReady, FullPcs
  <2>2. CASE FullScan
    BY <1>0, <2>2, PcRun DEF FullScan, FullPcs
  <2>3. CASE run' = Idle
    BY <2>3, LaunchRun
  <2>4. CASE run' = [run EXCEPT !.pc = "batch"]
    BY <1>0, <2>4, PcRun DEF FullPcs
  <2>5. CASE FullActivate
    <3> DEFINE r == Activated(run.op, mem.full)
    <3>1. run' = [run EXCEPT !.pc = "plan"] /\ man' = [man EXCEPT ![run.op] = r]
      BY <2>5 DEF FullActivate, Activate
    <3>2. r.st = "active"
      BY <1>0, <1>2, ActivatedRow DEF Mems
    <3> HIDE DEF r
    <3>3. run'.op = run.op /\ run'.pc = "plan"
      BY <1>0, <3>1, PcRun
    <3> QED BY <1>0, <1>2, <3>1, <3>2, <3>3
  <2>6. CASE run' = run
    BY <1>1, <2>6 DEF FullPcs
  <2> QED BY <2>1, <2>2, <2>3, <2>4, <2>5, <2>6 DEF FullManifest, FullFails, FullBatch
<1>7. AloneInv'
  BY <1>4, <1>5, <1>6, AloneFlight DEF GcPcs, FullPcs
<1>8. MarkInv'
  <2>1. \A p \in HotOps \ lapped' : man'[p].st # "building"
    BY <1>3, <1>5 DEF HistoryGrows
  <2> QED BY <1>4, <1>6, <2>1, MarksElsewhere DEF Preparing, FullPcs
<1> QED BY <1>7, <1>8

\* Every step keeps the third layer.
LEMMA MarksStep ==
  TypeInv /\ OrderInv /\ AloneInv /\ MarkInv /\ [GenNext]_genVars => AloneInv' /\ MarkInv'
<1> SUFFICES ASSUME TypeInv, OrderInv, AloneInv, MarkInv, [GenNext]_genVars PROVE AloneInv' /\ MarkInv'
  OBVIOUS
<1>0. /\ Typed /\ Launched /\ HotOps \subseteq Ops /\ run \in Runs /\ man \in [Ops -> Rows]
      /\ None \notin Ops /\ RelOps \subseteq Ops /\ HotOps \cap RelOps = {}
  BY GenAssumption DEF TypeInv, Typed, Ops
<1>h. HistoryGrows
  BY HistoryStep
<1>1. CASE \/ \E o \in HotOps : StartHot(o) \/ ResumeHot(o)
           \/ \E o \in ConfigOps : StartConfig(o)
           \/ \E o \in FullOps : StartFull(o)
  BY <1>1, <1>h, MarksStart
<1>2. CASE HotStep \/ AdoptFails \/ PrepareFails \/ ProcessFails \/ CommitFails
  BY <1>2, <1>h, MarksPrepare, MarksProcess DEF HotStep
<1>3. CASE GcStep \/ GcFails
  BY <1>3, <1>h, MarksCollect DEF GcStep
<1>4. CASE FullStep \/ FullFails
  BY <1>4, <1>h, MarksFull DEF FullStep
<1>5. CASE Finish
  <2>1. /\ run.pc \in {"republish", "finish"} /\ ck' = [ck EXCEPT ![run.op] = "completed"] /\ run' = Idle
        /\ UNCHANGED <<man, data, ov, work, marks>>
    BY <1>5 DEF Finish, dbVars
  <2>2. run'.op = None /\ run'.pc = "idle"
    BY <2>1, LaunchRun
  <2>3. \A p \in HotOps : ck'[p] = (IF p = run.op THEN "completed" ELSE ck[p])
    BY <1>0, <2>1 DEF Typed
  <2>4. man[run.op].st \in {"active", "none"}
    BY <2>1 DEF AloneInv
  <2>5. AloneInv'
    BY <1>0, <1>h, <2>1, <2>2, <2>3, <2>4 DEF AloneInv, GcPcs, HistoryGrows
  <2>6. MarkInv'
    BY <1>h, <2>1, <2>2, <2>3, MarksSame DEF Preparing
  <2> QED BY <2>5, <2>6
<1>6. CASE \E o \in RelOps : Republish(o)
  <2>1. PICK o \in RelOps : Republish(o)
    BY <1>6
  <2> DEFINE c == [put |-> {}, del |-> {}]
             r == Activated(o, ActiveEpoch)
  <2>2. /\ run.pc = "republish" /\ run' = [run EXCEPT !.pc = "finish"] /\ o \in Ops /\ o \notin HotOps
        /\ work' = [work EXCEPT ![o] = c] /\ man' = [man EXCEPT ![o] = r]
        /\ UNCHANGED <<ck, marks>> /\ \A p \in Ops : man[p].st # "building"
    BY <1>0, <2>1 DEF Republish, At, Activate
  <2>3. r.st = "active"
    BY <1>0, <2>2, EpochRange, ActivatedRow
  <2> HIDE DEF c, r
  <2>4. run'.op = run.op /\ run'.pc = "finish"
    BY <1>0, <2>2, PcNames, PcRun
  <2>5. \A p \in Ops : man'[p] = man[p] \/ man'[p].st = "active"
    BY <1>0, <2>2, <2>3
  <2>6. \A p \in HotOps : man'[p] = man[p] /\ work'[p] = work[p]
    BY <1>0, <2>2 DEF Typed
  <2>7. run.op \in Ops /\ man[run.op].st \in {"active", "none"}
    BY <1>0, <2>2 DEF AloneInv, Launched
  <2>8. AloneInv'
    BY <1>h, <2>2, <2>4, <2>5, <2>6, <2>7, AloneFlight
  <2>9. MarkInv'
    BY <1>0, <2>2, <2>4, <2>6, MarksElsewhere DEF Preparing
  <2> QED BY <2>8, <2>9
<1>7. CASE Crash
  <2>1. run' = Idle /\ UNCHANGED <<man, data, ov, ck, work, marks>>
    BY <1>7 DEF Crash, dbVars, ckVars
  <2>2. run'.op = None /\ run'.pc = "idle"
    BY <2>1, LaunchRun
  <2>3. AloneInv'
    BY <1>h, <2>1, <2>2, AloneFlight DEF GcPcs
  <2>4. MarkInv'
    BY <1>h, <2>1, <2>2, MarksSame DEF Preparing
  <2> QED BY <2>3, <2>4
<1>8. CASE UNCHANGED genVars
  <2>1. UNCHANGED <<man, data, ov, ck, work, marks, run>>
    BY <1>8 DEF genVars
  <2>2. AloneInv'
    BY <1>h, <2>1 DEF AloneInv, HistoryGrows
  <2>3. \A p \in HotOps : Adoptable(p)' = Adoptable(p)
    BY <2>1, SameMan DEF Adoptable
  <2>4. (\A p \in HotOps : \A s : Done(p, s)' = Done(p, s)) /\ Module' = Module
    BY <2>1 DEF Done, Module
  <2> HIDE DEF Adoptable, Done, Module
  <2>5. MarkInv'
    BY <1>h, <2>1, <2>3, <2>4 DEF MarkInv, HistoryGrows
  <2> QED BY <2>2, <2>5
<1> QED BY <1>1, <1>2, <1>3, <1>4, <1>5, <1>6, <1>7, <1>8 DEF GenNext, RunStep, Fault

\* The third layer holds at first.
LEMMA MarksInit ==
  GenInit => AloneInv /\ MarkInv
<1> SUFFICES ASSUME GenInit PROVE AloneInv /\ MarkInv
  OBVIOUS
<1>0. None \notin Ops /\ HotOps \subseteq Ops
  BY GenAssumption DEF Ops
<1>1. run.pc = "idle" /\ run.op = None
  BY LaunchRun DEF GenInit
<1>2. \A o \in Ops : man[o].st = "none" /\ ck[o] = "none" /\ marks[o] = {}
  BY DEF GenInit, NoRow
<1>3. \A o \in HotOps : ~Adoptable(o)
  BY <1>0, <1>2 DEF Adoptable
<1> HIDE DEF Adoptable, Done
<1> QED BY <1>0, <1>1, <1>2, <1>3 DEF AloneInv, MarkInv, GcPcs

\* The third layer holds in every reachable state, whatever overtakes what.
THEOREM MarksInvariance == GenSpec => [](AloneInv /\ MarkInv)
<1>1. GenInit => AloneInv /\ MarkInv
  BY MarksInit
<1>2. TypeInv /\ OrderInv /\ AloneInv /\ MarkInv /\ [GenNext]_genVars => AloneInv' /\ MarkInv'
  BY MarksStep
<1> QED BY <1>1, <1>2, GenInvariance, OrderInvariance, PTL DEF GenSpec

\* resume_operation: the modules that a resumed hot update skips have their changes in
\* the candidate it adopts, for any changes, crashes and failures, unless another
\* operation began while it was unfinished (which takes its epoch and clears its rows).
THEOREM MarkersAlwaysSound == GenSpec => []MarkersSound
<1>1. MarkInv => MarkersSound
  BY DEF MarkInv, MarkersSound, Sound, Done
<1> QED BY <1>1, MarksInvariance, PTL

---------------------------------------------------------------------------
\* An operation that runs, or that is unfinished and has not been overtaken.
Current(o) == o = run.op \/ (o \in HotOps \cup FullOps /\ ck[o] = "in_progress" /\ o \notin lapped)
\* There is at most one.
LoneInv == \A o, p \in Ops : Current(o) /\ Current(p) => o = p
\* A row inherits from the epoch before its own; an unpublished full index inherits
\* from none.
RowInv ==
  \A o \in Ops : man[o].st # "none" =>
    /\ man[o].parent # 0 => man[o].parent = man[o].data - 1
    /\ o \in FullOps /\ man[o].st # "active" => man[o].parent = 0
\* The row of the current operation is the newest of the table until it is
\* published.
NewestInv ==
  \A o \in Ops : Current(o) /\ man[o].st \in {"building", "failed"} =>
    \A p \in Ops \ {o} : man[p].st # "none" => man[p].pub < man[o].pub
\* A candidate that can be adopted was built on a generation that does not inherit; a
\* published full index that is not finished is the active row; a full index that takes
\* up the published epoch again finds it without a parent.
BaseInv ==
  /\ \A o \in HotOps \cup ConfigOps : Current(o) /\ Adoptable(o) => ActiveParent = 0
  /\ \A o \in FullOps : Current(o) /\ man[o].st = "active" => IsTop(man, o)
  /\ meta.epoch = ActiveEpoch /\ (~meta.ready \/ \E o \in FullOps : Current(o)) => ActiveParent = 0
\* The same at each step: who may be there, that what is processed and committed can
\* be adopted or is published, that a candidate is registered on a generation without
\* parent, and that a full index fills the epoch announced in project_meta.
PointInv ==
  /\ run.pc # "idle" => run.op \in HotOps \cup ConfigOps \cup FullOps
  /\ run.pc \in HotPcs \cup {"commit", "abort", "republish"} => run.op \in HotOps \cup ConfigOps
  /\ run.pc = "prepare" /\ run.k = 1 => mem.slot = None
  /\ run.pc = "prepare" /\ run.k = 2 /\ ~run.failed => Adoptable(run.op)
  /\ run.pc \in {"process", "mark"} => Adoptable(run.op)
  /\ run.pc = "commit" => Adoptable(run.op) \/ IsTop(man, run.op)
  /\ run.pc \in {"clean", "register"} => ActiveParent = 0
  /\ run.pc \in GcPcs \cup {"republish"} => IsTop(man, run.op)
  /\ run.pc \in FullPcs => mem.full = meta.epoch
  /\ run.pc \in GcPcs /\ run.op \in FullOps => ActiveParent = 0
\* The part of the fourth layer about the table and the current operation.
OrderlyInv == LoneInv /\ RowInv /\ NewestInv /\ BaseInv
\* The fourth layer of the inductive invariant.
LaneInv == OrderlyInv /\ PointInv
\* A step after which no further operation is current.
NoNewcomer == \A o \in Ops : Current(o)' => Current(o)

\* An operation is of one kind.
LEMMA KindsApart ==
  /\ HotOps \subseteq Ops /\ ConfigOps \subseteq Ops /\ FullOps \subseteq Ops /\ RelOps \subseteq Ops
  /\ None \notin Ops /\ HotOps \cap FullOps = {} /\ ConfigOps \cap FullOps = {}
  /\ HotOps \cap ConfigOps = {} /\ RelOps \cap (HotOps \cup ConfigOps \cup FullOps) = {}
BY GenAssumption DEF Ops

\* Whether a candidate can be adopted depends on the table only.
LEMMA AdoptableSame ==
  ASSUME UNCHANGED man
  PROVE  \A o : Adoptable(o)' = Adoptable(o)
BY SameMan DEF Adoptable

\* A step that leaves the table and project_meta alone and starts nothing keeps the
\* table orderly.
LEMMA LaneSame ==
  ASSUME OrderlyInv, UNCHANGED <<man, meta>>, NoNewcomer
  PROVE  OrderlyInv'
<1>0. LoneInv /\ RowInv /\ NewestInv /\ BaseInv
  BY DEF OrderlyInv
<1>1. \A o \in Ops : Current(o)' => Current(o)
  BY DEF NoNewcomer
<1>k. HotOps \subseteq Ops /\ ConfigOps \subseteq Ops /\ FullOps \subseteq Ops
  BY KindsApart
<1> HIDE DEF Current
<1>2. LoneInv'
  BY <1>0, <1>1 DEF LoneInv
<1>3. RowInv'
  BY <1>0 DEF RowInv
<1>4. NewestInv'
  BY <1>0, <1>1 DEF NewestInv
<1>5. BaseInv'
  <2>1. ASSUME NEW o \in HotOps \cup ConfigOps, Current(o)', Adoptable(o)' PROVE ActiveParent' = 0
    BY <1>0, <1>1, <1>k, <2>1, AdoptableSame, SameMan DEF BaseInv
  <2>2. ASSUME NEW o \in FullOps, Current(o)', man'[o].st = "active" PROVE IsTop(man', o)
    BY <1>0, <1>1, <1>k, <2>2 DEF BaseInv
  <2>3. ASSUME meta'.epoch = ActiveEpoch', ~meta'.ready \/ \E o \in FullOps : Current(o)' PROVE ActiveParent' = 0
    <3>1. meta.epoch = ActiveEpoch /\ (~meta.ready \/ \E o \in FullOps : Current(o))
      BY <1>1, <1>k, <2>3, SameMan
    <3>2. ActiveParent = 0
      BY <1>0, <3>1 DEF BaseInv
    <3> QED BY <3>2, SameMan
  <2> HIDE DEF Adoptable, IsTop
  <2> QED BY <2>1, <2>2, <2>3 DEF BaseInv
<1> QED BY <1>2, <1>3, <1>4, <1>5 DEF OrderlyInv

\* So does mark_failed, which publishes nothing.
LEMMA LaneFailed ==
  ASSUME TypeInv, OrderlyInv, NEW r \in Ops, MarkFailed(r), UNCHANGED meta, NoNewcomer
  PROVE  /\ OrderlyInv' /\ ActiveEpoch' = ActiveEpoch /\ ActiveParent' = ActiveParent
         /\ ActivePub' = ActivePub
<1>0. /\ LoneInv /\ RowInv /\ NewestInv /\ BaseInv
      /\ man \in [Ops -> Rows] /\ DistinctPubs(man)
  BY DEF OrderlyInv, TypeInv, Typed
<1>1. \A o \in Ops : Current(o)' => Current(o)
  BY DEF NoNewcomer
<1>k. HotOps \subseteq Ops /\ ConfigOps \subseteq Ops /\ FullOps \subseteq Ops
  BY KindsApart
<1>m. /\ ActOps(man') = ActOps(man)
      /\ \A p \in Ops : /\ man'[p].pub = man[p].pub /\ man'[p].data = man[p].data
                        /\ man'[p].parent = man[p].parent
                        /\ man'[p].st = IF p = r /\ man[p].st = "building" THEN "failed" ELSE man[p].st
      /\ ActiveEpoch' = ActiveEpoch /\ ActiveParent' = ActiveParent /\ ActivePub' = ActivePub
  BY <1>0, MarkFailedType
<1>n. \A p \in Ops : p # r => man'[p] = man[p]
  BY <1>0 DEF MarkFailed
<1>s. \A p \in Ops : /\ man'[p].st = "none" <=> man[p].st = "none"
                     /\ man'[p].st = "active" <=> man[p].st = "active"
                     /\ man'[p].st \in {"building", "failed"} => man[p].st \in {"building", "failed"}
  BY <1>m
<1>t. \A p \in Ops : IsTop(man, p) => IsTop(man', p)
  BY <1>m DEF IsTop, ActOps
<1>a. \A p \in Ops : Adoptable(p)' => Adoptable(p)
  <2> SUFFICES ASSUME NEW p \in Ops, Adoptable(p)' PROVE Adoptable(p)
    OBVIOUS
  <2>1. man'[p].st = "building"
    BY DEF Adoptable
  <2>2. p # r
    BY <1>m, <2>1
  <2> QED BY <1>m, <1>n, <2>2 DEF Adoptable
<1> HIDE DEF Current, MarkFailed
<1>2. LoneInv'
  BY <1>0, <1>1 DEF LoneInv
<1>3. RowInv'
  BY <1>0, <1>m, <1>s DEF RowInv
<1>4. NewestInv'
  BY <1>0, <1>1, <1>m, <1>s DEF NewestInv
<1>5. BaseInv'
  <2>1. ASSUME NEW o \in HotOps \cup ConfigOps, Current(o)', Adoptable(o)' PROVE ActiveParent' = 0
    BY <1>0, <1>1, <1>a, <1>k, <1>m, <2>1 DEF BaseInv
  <2>2. ASSUME NEW o \in FullOps, Current(o)', man'[o].st = "active" PROVE IsTop(man', o)
    BY <1>0, <1>1, <1>k, <1>s, <1>t, <2>2 DEF BaseInv
  <2>3. ASSUME meta'.epoch = ActiveEpoch', ~meta'.ready \/ \E o \in FullOps : Current(o)' PROVE ActiveParent' = 0
    <3>1. meta.epoch = ActiveEpoch /\ (~meta.ready \/ \E o \in FullOps : Current(o))
      BY <1>1, <1>k, <1>m, <2>3
    <3>2. ActiveParent = 0
      BY <1>0, <3>1 DEF BaseInv
    <3> QED BY <1>m, <3>2
  <2> HIDE DEF Adoptable, IsTop
  <2> QED BY <2>1, <2>2, <2>3 DEF BaseInv
<1> QED BY <1>2, <1>3, <1>4, <1>5, <1>m DEF OrderlyInv

\* Starting or resuming keeps the fourth layer unless an overtaken operation is taken
\* up: a new operation overtakes what is unfinished, and a full index uses an epoch again
\* only when that epoch is not published or does not inherit.
LEMMA LaneStart ==
  ASSUME "stale" \notin harm', TypeInv, OrderInv, LaneInv,
         \/ \E o \in HotOps : StartHot(o) \/ ResumeHot(o)
         \/ \E o \in ConfigOps : StartConfig(o)
         \/ \E o \in FullOps : StartFull(o)
  PROVE  LaneInv'
<1>0. /\ Typed /\ Launched /\ SlotInv /\ EpochInv /\ PointInv /\ OrderlyInv
      /\ LoneInv /\ RowInv /\ NewestInv /\ BaseInv
      /\ "prepare" \in Pcs /\ "ready" \in Pcs
  BY PcNames DEF TypeInv, OrderInv, LaneInv, OrderlyInv, FullPcs
<1>k. /\ HotOps \subseteq Ops /\ ConfigOps \subseteq Ops /\ FullOps \subseteq Ops /\ None \notin Ops
      /\ HotOps \cap FullOps = {} /\ ConfigOps \cap FullOps = {}
  BY KindsApart
<1>1. run.pc = "idle" /\ run.op = None /\ mem.slot = None /\ UNCHANGED man
  BY <1>0 DEF StartHot, ResumeHot, StartConfig, StartFull, At, SlotInv, Launched, dbVars
<1>a. \A o : Adoptable(o)' = Adoptable(o)
  BY <1>1, AdoptableSame
<1>e. ActiveEpoch' = ActiveEpoch /\ ActiveParent' = ActiveParent
  BY <1>1, SameMan
<1>2. ASSUME NEW o \in HotOps \cup ConfigOps, man[o].st = "none",
             Overtake(o), ck' = [ck EXCEPT ![o] = "in_progress"], run'.op = o, run'.pc = "prepare", run'.k = 1,
             UNCHANGED <<mem, meta>>
      PROVE  LaneInv'
  <2>1. \A p \in Ops : Current(p)' => p = o
    BY <1>0, <1>2, <1>k DEF Current, Typed, Overtake, Unfinished
  <2>n. ~Adoptable(o)
    BY <1>2 DEF Adoptable
  <2> HIDE DEF Current, Adoptable
  <2>2. LoneInv'
    BY <2>1 DEF LoneInv
  <2>3. RowInv'
    BY <1>0, <1>1 DEF RowInv
  <2>4. NewestInv'
    BY <1>1, <1>2, <2>1 DEF NewestInv
  <2>5. BaseInv'
    <3>1. \A p \in FullOps : ~Current(p)'
      BY <1>2, <1>k, <2>1
    <3>2. \A p \in HotOps \cup ConfigOps : ~(Current(p)' /\ Adoptable(p)')
      BY <1>a, <1>k, <2>1, <2>n
    <3>3. meta'.epoch = ActiveEpoch' /\ ~meta'.ready => ActiveParent' = 0
      BY <1>0, <1>2, <1>e DEF BaseInv
    <3> QED BY <3>1, <3>2, <3>3 DEF BaseInv
  <2>6. PointInv'
    BY <1>1, <1>2 DEF PointInv, HotPcs, FullPcs, GcPcs
  <2> QED BY <2>2, <2>3, <2>4, <2>5, <2>6 DEF LaneInv, OrderlyInv
<1>3. ASSUME NEW o \in HotOps, StartHot(o) PROVE LaneInv'
  <2>1. run'.op = o /\ run'.pc = "prepare" /\ run'.k = 1
    BY <1>0, <1>3, <1>k, LaunchRun DEF StartHot
  <2>2. /\ man[o].st = "none" /\ UNCHANGED <<mem, meta>> /\ ck' = [ck EXCEPT ![o] = "in_progress"]
        /\ Overtake(o)
    BY <1>3 DEF StartHot, Fresh, dbVars
  <2> QED BY <1>2, <2>1, <2>2
<1>4. ASSUME NEW o \in ConfigOps, StartConfig(o) PROVE LaneInv'
  <2>1. run'.op = o /\ run'.pc = "prepare" /\ run'.k = 1
    BY <1>0, <1>4, <1>k, LaunchRun DEF StartConfig
  <2>2. /\ man[o].st = "none" /\ UNCHANGED <<mem, meta>> /\ ck' = [ck EXCEPT ![o] = "in_progress"]
        /\ Overtake(o)
    BY <1>4 DEF StartConfig, Fresh, dbVars
  <2> QED BY <1>2, <2>1, <2>2
<1>5. ASSUME NEW o \in HotOps, ResumeHot(o) PROVE LaneInv'
  <2>1. ck[o] = "in_progress" /\ UNCHANGED <<mem, meta>>
    BY <1>5 DEF ResumeHot, Recoverable, Unfinished, dbVars
  <2>2. /\ lapped \subseteq lapped'
        /\ \/ run' = run /\ ck' = [ck EXCEPT ![o] = "completed"]
           \/ run'.op = o /\ run'.pc = "prepare" /\ run'.k = 1 /\ ck' = ck /\ o \notin lapped
    BY <1>0, <1>5, <1>k, LaunchRun DEF ResumeHot, Resume, Overtake
  <2>3. NoNewcomer
    BY <1>0, <1>k, <2>1, <2>2 DEF NoNewcomer, Current, Typed
  <2>4. OrderlyInv'
    BY <1>0, <1>1, <2>1, <2>3, LaneSame
  <2>5. PointInv'
    BY <1>1, <1>5, <2>1, <2>2 DEF PointInv, HotPcs, FullPcs, GcPcs
  <2> QED BY <2>4, <2>5 DEF LaneInv
<1>6. ASSUME NEW o \in FullOps, StartFull(o) PROVE LaneInv'
  <2> DEFINE e == IF meta.epoch > 0 /\ (~meta.ready \/ Unfinished(FullOps) # {})
                  THEN meta.epoch ELSE meta.epoch + 1
  <2>1. run'.op = o /\ run'.pc = "ready" /\ run'.k = 1
    BY <1>0, <1>6, <1>k, LaunchRun DEF StartFull
  <2>2. /\ mem' = [mem EXCEPT !.full = e] /\ meta' = [meta EXCEPT !.epoch = e] /\ ck' = ck
        /\ Overtake(o) /\ o \notin lapped
        /\ \/ man[o].st = "none" /\ Unfinished(FullOps) = {}
           \/ ck[o] = "in_progress"
    BY <1>6 DEF StartFull, ckVars, Unfinished, Fresh
  <2>3. e = ActiveEpoch => ActiveParent = 0
    <3>1. ActiveEpoch \in Nat /\ meta.epoch \in Nat /\ ActiveEpoch <= meta.epoch
      BY <1>0, EpochRange, GenAssumption DEF EpochInv, Typed, Metas, Bounded
    <3>2. SUFFICES ASSUME e = ActiveEpoch PROVE ActiveParent = 0
      OBVIOUS
    <3>3. meta.epoch = ActiveEpoch /\ (~meta.ready \/ Unfinished(FullOps) # {})
      BY <3>1, <3>2
    <3>4. Unfinished(FullOps) # {} => \E p \in FullOps : Current(p)
      BY <1>k, <2>2 DEF Unfinished, Current
    <3> HIDE DEF Unfinished, Current
    <3> QED BY <1>0, <3>3, <3>4 DEF BaseInv
  <2> HIDE DEF e
  <2>4. mem'.full = e /\ meta'.epoch = e
    BY <1>0, <2>2 DEF Typed, Mems, Metas
  <2>5. BaseInv' /\ LoneInv' /\ NewestInv'
    <3>1. CASE man[o].st = "none" /\ Unfinished(FullOps) = {}
      <4>1. \A p \in Ops : Current(p)' => p = o
        BY <1>k, <2>1, <2>2 DEF Current, Overtake, Unfinished
      <4> HIDE DEF Current, Adoptable
      <4>2. LoneInv' /\ NewestInv'
        BY <1>1, <3>1, <4>1 DEF LoneInv, NewestInv
      <4>3. BaseInv'
        <5>1. \A p \in HotOps \cup ConfigOps : ~Current(p)'
          BY <1>k, <4>1
        <5>2. \A p \in FullOps : ~(Current(p)' /\ man'[p].st = "active")
          BY <1>1, <1>k, <3>1, <4>1
        <5>3. meta'.epoch = ActiveEpoch' => ActiveParent' = 0
          BY <1>e, <2>3, <2>4
        <5> QED BY <5>1, <5>2, <5>3 DEF BaseInv
      <4> QED BY <4>2, <4>3
    <3>2. CASE ck[o] = "in_progress"
      <4>1. \A p \in Ops : Current(p)' => Current(p)
        BY <1>k, <2>1, <2>2, <3>2 DEF Current, Overtake
      <4> HIDE DEF Current, Adoptable
      <4>2. LoneInv' /\ NewestInv'
        BY <1>0, <1>1, <4>1 DEF LoneInv, NewestInv
      <4>3. BaseInv'
        <5>1. \A p \in HotOps \cup ConfigOps : Current(p)' /\ Adoptable(p)' => ActiveParent' = 0
          BY <1>0, <1>a, <1>e, <1>k, <4>1 DEF BaseInv
        <5>2. \A p \in FullOps : Current(p)' /\ man'[p].st = "active" => IsTop(man', p)
          BY <1>0, <1>1, <1>k, <4>1 DEF BaseInv
        <5>3. meta'.epoch = ActiveEpoch' => ActiveParent' = 0
          BY <1>e, <2>3, <2>4
        <5> HIDE DEF IsTop
        <5> QED BY <5>1, <5>2, <5>3 DEF BaseInv
      <4> QED BY <4>2, <4>3
    <3> QED BY <2>2, <3>1, <3>2
  <2>6. RowInv'
    BY <1>0, <1>1 DEF RowInv
  <2>7. PointInv'
    BY <1>6, <2>1, <2>4 DEF PointInv, HotPcs, FullPcs, GcPcs
  <2> QED BY <2>5, <2>6, <2>7 DEF LaneInv, OrderlyInv
<1> QED BY <1>3, <1>4, <1>5, <1>6

\* So does begin_building for the current operation.
LEMMA LaneBuilding ==
  ASSUME TypeInv, OrderlyInv, UNCHANGED meta, NoNewcomer,
         NEW o \in Ops, Current(o), man[o].st # "active",
         NEW r \in Rows, man' = [man EXCEPT ![o] = r], r.st = "building",
         \/ man[o].st # "none" /\ r.pub = man[o].pub
         \/ \A p \in Ops : man[p].pub < r.pub,
         r.parent # 0 => r.parent = r.data - 1, o \in FullOps => r.parent = 0,
         o \in HotOps \cup ConfigOps => ActiveParent = 0
  PROVE  /\ OrderlyInv' /\ ActiveEpoch' = ActiveEpoch /\ ActiveParent' = ActiveParent
         /\ ActivePub' = ActivePub /\ \A p \in Ops : IsTop(man, p) <=> IsTop(man', p)
<1>0. /\ LoneInv /\ RowInv /\ NewestInv /\ BaseInv
      /\ man \in [Ops -> Rows] /\ DistinctPubs(man)
  BY DEF OrderlyInv, TypeInv, Typed
<1>1. \A p \in Ops : Current(p)' => p = o
  BY <1>0 DEF NoNewcomer, LoneInv
<1>k. HotOps \subseteq Ops /\ ConfigOps \subseteq Ops /\ FullOps \subseteq Ops
  BY KindsApart
<1>t. man' \in [Ops -> Rows] /\ DistinctPubs(man')
  BY <1>0, ReplaceRow
<1>n. man'[o] = r /\ \A p \in Ops : p # o => man'[p] = man[p]
  BY <1>0
<1>m. ActOps(man') = ActOps(man) /\ \A p \in ActOps(man) : man'[p] = man[p]
  BY <1>n DEF ActOps
<1>p. \A p \in Ops : man[p].pub \in Nat
  BY <1>0 DEF Rows
<1>2. ActiveEpoch' = ActiveEpoch /\ ActiveParent' = ActiveParent /\ ActivePub' = ActivePub
  BY <1>0, <1>m, <1>t, SameTop, ActiveIsTop
<1>3. \A p \in Ops : IsTop(man, p) <=> IsTop(man', p)
  BY <1>m DEF IsTop
<1>4. LoneInv'
  BY <1>1 DEF LoneInv
<1>5. RowInv'
  BY <1>0, <1>n DEF RowInv
<1>6. NewestInv'
  <2> SUFFICES ASSUME NEW p \in Ops \ {o}, man'[p].st # "none" PROVE man'[p].pub < man'[o].pub
    BY <1>1 DEF NewestInv
  <2>1. CASE man[o].st # "none" /\ r.pub = man[o].pub
    <3>1. man[o].st \in {"building", "failed"}
      BY <1>0, <2>1 DEF Rows
    <3> QED BY <1>0, <1>n, <2>1, <3>1 DEF NewestInv
  <2>2. CASE \A q \in Ops : man[q].pub < r.pub
    BY <1>n, <2>2
  <2> QED BY <2>1, <2>2
<1>7. BaseInv'
  <2>1. ASSUME NEW p \in HotOps \cup ConfigOps, Current(p)' PROVE ActiveParent' = 0
    BY <1>1, <1>2, <1>k, <2>1
  <2>2. ASSUME NEW p \in FullOps, Current(p)', man'[p].st = "active" PROVE FALSE
    BY <1>1, <1>k, <1>n, <2>2
  <2>3. ASSUME meta'.epoch = ActiveEpoch', ~meta'.ready \/ \E p \in FullOps : Current(p)' PROVE ActiveParent' = 0
    <3>1. meta.epoch = ActiveEpoch /\ (~meta.ready \/ \E p \in FullOps : Current(p))
      BY <1>2, <1>k, <2>3 DEF NoNewcomer
    <3> HIDE DEF Current
    <3>2. ActiveParent = 0
      BY <1>0, <3>1 DEF BaseInv
    <3> QED BY <1>2, <3>2
  <2> HIDE DEF Current, Adoptable, IsTop
  <2> QED BY <2>1, <2>2, <2>3 DEF BaseInv
<1> QED BY <1>2, <1>3, <1>4, <1>5, <1>6, <1>7 DEF OrderlyInv

\* activate of a row that is not active and is the newest: it becomes the active row,
\* with the parent it had unless it republishes the active epoch.
LEMMA ActivateNewest ==
  ASSUME Typed, DistinctPubs(man), NEW o \in Ops, NEW e \in Bounded, Activate(o, e),
         man[o].st # "active",
         man[o].st # "none" => \A p \in Ops \ {o} : man[p].st # "none" => man[p].pub < man[o].pub
  PROVE  /\ IsTop(man', o) /\ man'[o].st = "active" /\ man'[o].data = e
         /\ \A p \in Ops \ {o} : man'[p] = man[p] /\ (man[p].st # "none" => man[p].pub < man'[o].pub)
         /\ ActiveEpoch' = e /\ ActiveParent' = man'[o].parent /\ ActivePub' = man'[o].pub
         /\ meta'.epoch = e /\ meta'.ready /\ man' \in [Ops -> Rows] /\ DistinctPubs(man')
         /\ ActiveParent = 0 \/ ActiveEpoch # e =>
              man'[o].parent = IF man[o].st = "none" THEN 0 ELSE man[o].parent
         /\ man[o].st = "none" /\ ActiveEpoch = e => man'[o].parent = ActiveParent
<1> DEFINE r == Activated(o, e)
           b == Begun(o, e)
<1>0. man \in [Ops -> Rows] /\ meta \in Metas /\ ActiveParent \in Nat
  BY EpochRange, GenAssumption DEF Typed, Bounded
<1>1. man' = [man EXCEPT ![o] = r] /\ CanBegin(o, e)
  BY DEF Activate
<1>2. man' \in [Ops -> Rows] /\ DistinctPubs(man')
  BY <1>0, ActivateType
<1>3. meta' = [epoch |-> e, active |-> e, ready |-> TRUE]
  BY DEF Activate
<1>4. meta'.epoch = e /\ meta'.ready
  BY <1>3
<1>5. /\ b \in Rows /\ b.st = "building" /\ b.data = e
      /\ b.parent = IF man[o].st = "none" THEN 0 ELSE man[o].parent
      /\ \A p \in Ops \ {o} : man[p].st # "none" => man[p].pub < b.pub
  BY <1>0, <1>1, BegunRow DEF CanBegin
<1>6. /\ r \in Rows /\ r.st = "active" /\ r.pub = b.pub /\ r.data = b.data
      /\ r.parent # b.parent => r.parent = ActiveParent /\ ActiveParent > 0 /\ ActiveEpoch = e
  BY <1>0, ActivatedRow
<1>7. b.parent = 0 /\ ActiveParent > 0 /\ ActiveEpoch = e => r.parent = ActiveParent
  <2> SUFFICES ASSUME b.parent = 0, ActiveParent > 0, ActiveEpoch = e PROVE r.parent = ActiveParent
    OBVIOUS
  <2>1. r = [b EXCEPT !.st = "active", !.parent = ActiveParent]
    BY <1>5 DEF Activated
  <2> HIDE DEF r, b
  <2> QED BY <1>5, <2>1 DEF Rows
<1> HIDE DEF r, b
<1>8. man'[o] = r /\ \A p \in Ops \ {o} : man'[p] = man[p]
  BY <1>0, <1>1
<1>9. \A p \in Ops \ {o} : man[p].st # "none" => man[p].pub < man'[o].pub
  BY <1>5, <1>6, <1>8
<1>10. IsTop(man', o)
  <2>1. o \in ActOps(man')
    BY <1>6, <1>8 DEF ActOps
  <2>2. ASSUME NEW p \in ActOps(man') PROVE man'[p].pub <= man'[o].pub
    <3>1. p \in Ops /\ man'[p].st = "active" /\ man'[p].pub \in Nat /\ man'[o].pub \in Nat
      BY <1>2 DEF ActOps, Rows
    <3>2. CASE p = o
      BY <3>1, <3>2
    <3>3. CASE p # o
      <4>1. man'[p] = man[p] /\ man[p].pub < man'[o].pub
        BY <1>8, <1>9, <3>1, <3>3
      <4> QED BY <3>1, <4>1
    <3> QED BY <3>2, <3>3
  <2> QED BY <2>1, <2>2 DEF IsTop
<1>11. ActiveEpoch' = e /\ ActiveParent' = man'[o].parent /\ ActivePub' = man'[o].pub
  BY <1>2, <1>5, <1>6, <1>8, <1>10, TopIs, ActiveIsTop
<1>12. ActiveParent = 0 \/ ActiveEpoch # e =>
              man'[o].parent = IF man[o].st = "none" THEN 0 ELSE man[o].parent
  BY <1>0, <1>5, <1>6, <1>8
<1>13. man[o].st = "none" /\ ActiveEpoch = e => man'[o].parent = ActiveParent
  BY <1>0, <1>5, <1>6, <1>7, <1>8
<1> QED BY <1>2, <1>4, <1>5, <1>6, <1>8, <1>9, <1>10, <1>11, <1>12, <1>13

\* Every step of prepare keeps the fourth layer: what inherits is compacted and
\* unlinked before a candidate is registered on it.
LEMMA LanePrepare ==
  ASSUME TypeInv, OrderInv, LaneInv,
         \/ PrepareAgain \/ Adopt \/ Resolve \/ CompactRows \/ CompactDocs \/ Unlink
         \/ CleanDocs \/ Register \/ AdoptFails \/ PrepareFails \/ PrepareRefused
  PROVE  LaneInv'
<1>0. /\ Typed /\ Launched /\ DistinctPubs(man) /\ RoomInv /\ SlotInv /\ PointInv /\ OrderlyInv
      /\ LoneInv /\ RowInv /\ NewestInv /\ BaseInv
      /\ ActiveEpoch \in Nat /\ ActiveParent \in Nat
      /\ run \in Runs /\ man \in [Ops -> Rows] /\ mem \in Mems /\ mem.hot \in Bounded
      /\ {"compact", "compactDocs", "unlink", "clean", "register"} \subseteq Pcs
  BY PcNames, EpochRange, GenAssumption DEF TypeInv, OrderInv, LaneInv, OrderlyInv, Bounded,
     Typed, HotPcs, Mems
<1>r. run.failed \in BOOLEAN
  BY <1>0 DEF Runs
<1>k. /\ HotOps \subseteq Ops /\ ConfigOps \subseteq Ops /\ FullOps \subseteq Ops /\ None \notin Ops
      /\ HotOps \cap FullOps = {} /\ ConfigOps \cap FullOps = {}
  BY KindsApart
<1>1. run.pc \in HotPcs /\ UNCHANGED <<meta, ck, lapped>>
  BY DEF PrepareAgain, Adopt, Resolve, CompactRows, CompactDocs, Unlink, CleanDocs,
         Register, AdoptFails, PrepareFails, PrepareRefused, PreparationFailed, At, HotPcs, dbVars, ckVars
<1>2. /\ run.op \in Ops /\ run.op # None /\ run.k \in 1..2 /\ man[run.op].st # "active"
      /\ run.op \in HotOps \cup ConfigOps /\ run.op \notin FullOps /\ Current(run.op)
  BY <1>0, <1>1, <1>k DEF Launched, RoomInv, PointInv, Current, HotPcs
<1>c. run'.op = run.op => NoNewcomer
  BY <1>1 DEF NoNewcomer, Current
<1>h. ASSUME run'.op = run.op, run'.pc \in HotPcs \cup {"abort"},
             run'.pc = "prepare" => run'.k = 2,
             run'.pc = "prepare" /\ ~run'.failed => Adoptable(run.op)',
             run'.pc \in {"process", "mark"} => Adoptable(run.op)',
             run'.pc \in {"clean", "register"} => ActiveParent' = 0
      PROVE  PointInv'
  <2>1. run'.op \in HotOps \cup ConfigOps \cup FullOps /\ run'.op \in HotOps \cup ConfigOps
    BY <1>2, <1>h
  <2>2. ~(run'.pc = "prepare" /\ run'.k = 1)
    BY <1>h
  <2>3. run'.pc \notin FullPcs \cup GcPcs \cup {"commit", "republish", "idle"}
    BY <1>h DEF HotPcs, FullPcs, GcPcs
  <2> HIDE DEF Adoptable
  <2>4. run'.pc = "prepare" /\ run'.k = 2 /\ ~run'.failed => Adoptable(run.op)'
    BY <1>h, Zenon
  <2> QED BY <1>h, <2>1, <2>2, <2>3, <2>4 DEF PointInv
<1>q. ASSUME UNCHANGED man, run'.op = run.op, run'.pc \in HotPcs \cup {"abort"},
             run'.pc = "prepare" => run'.k = 2,
             run'.pc = "prepare" /\ ~run'.failed => Adoptable(run.op),
             run'.pc \in {"process", "mark"} => Adoptable(run.op),
             run'.pc \in {"clean", "register"} => ActiveParent = 0
      PROVE  LaneInv'
  <2>1. OrderlyInv'
    BY <1>0, <1>1, <1>c, <1>q, LaneSame
  <2>2. Adoptable(run.op)' = Adoptable(run.op)
    BY <1>q, AdoptableSame DEF Adoptable
  <2>3. ActiveParent' = ActiveParent
    BY <1>q, SameMan
  <2> HIDE DEF Adoptable
  <2>4. PointInv'
    BY <1>h, <1>q, <2>2, <2>3
  <2> QED BY <2>1, <2>4 DEF LaneInv
<1>3. CASE PrepareAgain
  <2> DEFINE f == run.failed \/ mem.slot # run.op
  <2>1. UNCHANGED man /\ run.pc = "prepare" /\ mem.slot # None /\ Prepared(f) /\ f \in BOOLEAN
    BY <1>3 DEF PrepareAgain, dbVars, At
  <2>2. run.k = 2
    BY <1>0, <1>2, <2>1 DEF PointInv
  <2>3. ~f => Adoptable(run.op)
    BY <1>0, <2>1, <2>2 DEF PointInv
  <2> HIDE DEF f, Adoptable
  <2>4. run'.op = run.op /\ run'.pc = IF f THEN "abort" ELSE "process"
    BY <1>0, <2>1, <2>2, PreparedRun
  <2> QED BY <1>q, <2>1, <2>3, <2>4 DEF HotPcs
<1>4. CASE Adopt
  <2>1. UNCHANGED man /\ Prepared(run.failed) /\ Adoptable(run.op)
    BY <1>4 DEF Adopt, dbVars
  <2> HIDE DEF Adoptable
  <2>2. run'.op = run.op /\ run'.pc \in {"prepare", "abort", "process"} /\ (run'.pc = "prepare" => run'.k = 2)
    BY <1>0, <1>r, <2>1, PreparedRun
  <2> QED BY <1>q, <2>1, <2>2 DEF HotPcs
<1>5. CASE Resolve
  <2> DEFINE p == IF ActiveParent > 0 THEN "compact" ELSE "clean"
  <2>1. UNCHANGED man /\ run' = [run EXCEPT !.pc = p]
    BY <1>5 DEF Resolve, dbVars
  <2>2. p \in Pcs /\ p \in {"compact", "clean"} /\ (p = "clean" => ActiveParent = 0)
    BY <1>0
  <2> HIDE DEF p
  <2>3. run'.op = run.op /\ run'.pc = p
    BY <1>0, <2>1, <2>2, PcRun
  <2> QED BY <1>q, <2>1, <2>2, <2>3 DEF HotPcs
<1>6. CASE CompactRows \/ CompactDocs \/ CleanDocs
  <2>1. PICK p \in {"compactDocs", "unlink", "register"} : run' = [run EXCEPT !.pc = p] /\ (p = "register" => run.pc = "clean")
    BY <1>6 DEF CompactRows, CompactDocs, CleanDocs, At
  <2>2. UNCHANGED man
    BY <1>6 DEF CompactRows, CompactDocs, CleanDocs
  <2>3. p \in Pcs /\ (p = "register" => ActiveParent = 0)
    BY <1>0, <2>1 DEF PointInv
  <2>4. run'.op = run.op /\ run'.pc = p
    BY <1>0, <2>1, <2>3, PcRun
  <2> QED BY <1>q, <2>1, <2>2, <2>3, <2>4 DEF HotPcs
<1>7. CASE Unlink
  <2>1. run.pc = "unlink" /\ run' = [run EXCEPT !.pc = "clean"] /\ man' = [man EXCEPT ![Active].parent = 0]
    BY <1>7 DEF Unlink, At
  <2>2. run'.op = run.op /\ run'.pc = "clean"
    BY <1>0, <2>1, PcRun
  <2>3. man' \in [Ops -> Rows] /\ DistinctPubs(man')
    BY <1>7, TypePrepare DEF TypeInv, Typed
  <2>4. ActOps(man) # {} /\ Active = Top(man)
    BY <1>0, <2>1, ActiveIsTop DEF RoomInv, TopParent
  <2> DEFINE t == Top(man)
             r == [man[t] EXCEPT !.parent = 0]
  <2>5. IsTop(man, t)
    BY <1>0, <2>4, TopExists
  <2>6. t \in Ops /\ man' = [man EXCEPT ![t] = r] /\ man[t] \in Rows
    BY <1>0, <2>1, <2>4, <2>5 DEF IsTop, ActOps
  <2> HIDE DEF t
  <2>7. r.st = man[t].st /\ r.pub = man[t].pub /\ r.data = man[t].data /\ r.parent = 0
    BY <2>6 DEF Rows
  <2> HIDE DEF r
  <2>8. /\ man'[t].parent = 0 /\ \A p \in Ops : p # t => man'[p] = man[p]
        /\ \A p \in Ops : man'[p].st = man[p].st /\ man'[p].pub = man[p].pub /\ man'[p].data = man[p].data
    BY <1>0, <2>6, <2>7
  <2>9. ActOps(man') = ActOps(man) /\ \A p \in Ops : IsTop(man, p) => IsTop(man', p)
    BY <2>8 DEF ActOps, IsTop
  <2>10. ActiveParent' = 0
    BY <2>3, <2>5, <2>6, <2>8, <2>9, TopIs, ActiveIsTop
  <2>11. \A p \in Ops : Current(p)' => Current(p)
    BY <1>c, <2>2 DEF NoNewcomer
  <2> HIDE DEF Current
  <2>12. LoneInv' /\ NewestInv'
    BY <1>0, <2>8, <2>11 DEF LoneInv, NewestInv
  <2>13. RowInv'
    BY <1>0, <2>8 DEF RowInv
  <2>14. BaseInv'
    BY <1>0, <1>k, <2>8, <2>9, <2>10, <2>11 DEF BaseInv
  <2>15. PointInv'
    BY <1>h, <2>2, <2>10 DEF HotPcs
  <2> QED BY <2>12, <2>13, <2>14, <2>15 DEF LaneInv, OrderlyInv
<1>8. CASE Register
  <2> DEFINE b == Begun(run.op, mem.hot)
             r == [b EXCEPT !.parent = ActiveEpoch, !.ready = TRUE]
  <2>1. /\ run.pc = "register" /\ Prepared(run.failed) /\ CanBegin(run.op, mem.hot)
        /\ man' = [man EXCEPT ![run.op] = r]
    BY <1>8 DEF Register, At
  <2>2. run'.op = run.op /\ run'.pc \in {"prepare", "abort", "process"} /\ (run'.pc = "prepare" => run'.k = 2)
    BY <1>0, <1>r, <2>1, PreparedRun
  <2>3. mem.hot = ActiveEpoch + 1 /\ ActiveParent = 0 /\ ActiveEpoch \in Bounded
    BY <1>0, <1>2, <2>1, EpochRange DEF SlotInv, Astray, HotPcs, PointInv
  <2>4. /\ b \in Rows /\ b.st = "building" /\ b.data = mem.hot
        /\ \/ man[run.op].st # "none" /\ b.pub = man[run.op].pub
           \/ \A p \in Ops : man[p].pub < b.pub
    BY <1>0, <1>2, <2>1, BegunRow DEF CanBegin
  <2> HIDE DEF b
  <2>5. r \in Rows /\ r.st = "building" /\ r.pub = b.pub /\ r.data = b.data /\ r.parent = ActiveEpoch
    BY <2>3, <2>4 DEF Rows
  <2>6. r.ready
    BY <2>4 DEF Rows
  <2> HIDE DEF r
  <2>7. r.parent = r.data - 1
    BY <1>0, <2>3, <2>4, <2>5
  <2>8. NoNewcomer
    BY <1>c, <2>2
  <2> HIDE DEF Current, NoNewcomer
  <2>9. OrderlyInv' /\ ActiveEpoch' = ActiveEpoch /\ ActiveParent' = ActiveParent
    BY <1>0, <1>1, <1>2, <2>1, <2>3, <2>4, <2>5, <2>7, <2>8, LaneBuilding
  <2>10. man'[run.op] = r
    BY <1>0, <1>2, <2>1
  <2>11. Adoptable(run.op)'
    BY <2>2, <2>3, <2>4, <2>5, <2>6, <2>9, <2>10 DEF Adoptable
  <2> HIDE DEF Adoptable
  <2>12. PointInv'
    BY <1>h, <2>2, <2>11 DEF HotPcs
  <2> QED BY <2>9, <2>12 DEF LaneInv
<1>9. CASE PrepareFails \/ PrepareRefused
  <2> DEFINE t == TRUE
  <2>1. /\ MarkFailed(run.op) /\ Prepared(t) /\ t \in BOOLEAN
        /\ (IF t THEN "abort" ELSE "process") = "abort"
    BY <1>9 DEF PrepareFails, PrepareRefused, PreparationFailed
  <2>2. t
    OBVIOUS
  <2> HIDE DEF t
  <2>3. /\ run'.op = run.op /\ run'.failed = t
        /\ run.k < 2 => run'.pc = "prepare" /\ run'.k = 2
        /\ ~(run.k < 2) => run'.pc = (IF t THEN "abort" ELSE "process")
    BY <1>0, <2>1, PreparedRun
  <2>4. run'.pc \in {"prepare", "abort"} /\ (run'.pc = "prepare" => run'.k = 2)
    BY <2>1, <2>3
  <2>5. run'.failed
    BY <2>2, <2>3, Zenon
  <2>6. OrderlyInv'
    BY <1>0, <1>1, <1>2, <1>c, <2>1, <2>3, LaneFailed
  <2>7. PointInv'
    BY <1>h, <2>3, <2>4, <2>5 DEF HotPcs
  <2> QED BY <2>6, <2>7 DEF LaneInv
<1>10. CASE AdoptFails
  <2> DEFINE t == TRUE
  <2>1. /\ UNCHANGED man /\ Prepared(t) /\ t \in BOOLEAN
        /\ (IF t THEN "abort" ELSE "process") = "abort"
    BY <1>10 DEF AdoptFails, dbVars
  <2>2. t
    OBVIOUS
  <2> HIDE DEF t
  <2>3. /\ run'.op = run.op /\ run'.failed = t
        /\ run.k < 2 => run'.pc = "prepare" /\ run'.k = 2
        /\ ~(run.k < 2) => run'.pc = (IF t THEN "abort" ELSE "process")
    BY <1>0, <2>1, PreparedRun
  <2>4. run'.pc \in {"prepare", "abort"} /\ (run'.pc = "prepare" => run'.k = 2)
    BY <2>1, <2>3
  <2>5. run'.failed
    BY <2>2, <2>3, Zenon
  <2> HIDE DEF Adoptable
  <2> QED BY <1>q, <2>1, <2>3, <2>4, <2>5 DEF HotPcs
<1> QED BY <1>3, <1>4, <1>5, <1>6, <1>7, <1>8, <1>9, <1>10

\* So does processing, commit and abort.
LEMMA LaneProcess ==
  ASSUME TypeInv, OrderInv, LaneInv,
         Process \/ Mark \/ SkipModule \/ ProcessFails \/ Commit \/ CommitFails \/ Abort
  PROVE  LaneInv'
<1>0. /\ Typed /\ Launched /\ DistinctPubs(man) /\ RoomInv /\ PointInv /\ OrderlyInv
      /\ LoneInv /\ RowInv /\ NewestInv /\ BaseInv
      /\ run \in Runs /\ man \in [Ops -> Rows] /\ mem \in Mems /\ mem.hot \in Bounded
      /\ "mark" \in Pcs /\ "plan" \in Pcs /\ "abort" \in Pcs
  BY PcNames DEF TypeInv, OrderInv, LaneInv, OrderlyInv, Typed, HotPcs, Mems
<1>r. run.failed \in BOOLEAN
  BY <1>0 DEF Runs
<1>k. /\ HotOps \subseteq Ops /\ ConfigOps \subseteq Ops /\ FullOps \subseteq Ops /\ None \notin Ops
      /\ HotOps \cap FullOps = {} /\ ConfigOps \cap FullOps = {}
  BY KindsApart
<1>1. run.pc \in {"process", "mark", "commit", "abort"}
  BY DEF Process, Mark, SkipModule, ProcessFails, Commit, CommitFails, Abort, At
<1>2. /\ run.op \in Ops /\ run.op # None /\ run.k \in 1..2
      /\ run.op \in HotOps \cup ConfigOps /\ run.op \notin FullOps /\ Current(run.op)
  BY <1>0, <1>1, <1>k DEF Launched, PointInv, Current, HotPcs
<1>q. ASSUME UNCHANGED <<man, meta, ck, lapped>>, run'.op = run.op,
             \/ run'.pc \in {"process", "mark", "commit"} /\ Adoptable(run.op)
             \/ run'.pc \in {"commit", "plan"} /\ IsTop(man, run.op)
             \/ run'.pc = "abort"
      PROVE  LaneInv'
  <2>1. NoNewcomer
    BY <1>q DEF NoNewcomer, Current
  <2>2. OrderlyInv'
    BY <1>0, <1>q, <2>1, LaneSame
  <2>3. Adoptable(run.op)' = Adoptable(run.op)
    BY <1>q, AdoptableSame DEF Adoptable
  <2> HIDE DEF Adoptable, IsTop
  <2>4. PointInv'
    BY <1>2, <1>q, <2>3 DEF PointInv, HotPcs, GcPcs, FullPcs
  <2> QED BY <2>2, <2>4 DEF LaneInv
<1>3. CASE Process \/ Mark \/ SkipModule \/ ProcessFails
  <2>1. UNCHANGED <<man, meta, ck, lapped>> /\ run.pc \in {"process", "mark"}
    BY <1>3 DEF Process, Mark, SkipModule, ProcessFails, At, dbVars, ckVars
  <2>2. run'.op = run.op /\ run'.pc \in {"mark", "process", "abort", "commit"}
    <3>1. CASE Process
      BY <1>0, <3>1, PcRun DEF Process
    <3>2. CASE NextModule(run.failed)
      BY <1>0, <1>r, <3>2, NextModuleRun
    <3> DEFINE t == TRUE
    <3>3. CASE ProcessFails
      <4>1. t \in BOOLEAN /\ NextModule(t)
        BY <3>3 DEF ProcessFails
      <4> HIDE DEF t
      <4> QED BY <1>0, <4>1, NextModuleRun
    <3> QED BY <1>3, <3>1, <3>2, <3>3 DEF Mark, SkipModule
  <2>3. Adoptable(run.op)
    BY <1>0, <2>1 DEF PointInv
  <2> HIDE DEF Adoptable
  <2> QED BY <1>q, <2>1, <2>2, <2>3
<1>4. CASE Commit
  <2>1. /\ run.pc = "commit" /\ Activate(run.op, mem.hot) /\ run' = [run EXCEPT !.pc = "plan"]
        /\ UNCHANGED <<ck, lapped>>
    BY <1>4 DEF Commit, At, ckVars
  <2>2. run'.op = run.op /\ run'.pc = "plan"
    BY <1>0, <2>1, PcRun
  <2>3. Adoptable(run.op) \/ IsTop(man, run.op)
    BY <1>0, <2>1 DEF PointInv
  <2>4. CASE man[run.op].st = "active"
    <3>1. Activated(run.op, mem.hot) = man[run.op]
      BY <1>0, <1>2, <2>4, ActivatedRow
    <3>2. UNCHANGED <<man, meta>>
      BY <1>0, <2>1, <2>4, <3>1 DEF Activate
    <3>3. IsTop(man, run.op)
      BY <2>3, <2>4 DEF Adoptable
    <3> QED BY <1>q, <2>1, <2>2, <3>2, <3>3
  <2>5. CASE man[run.op].st # "active"
    <3> DEFINE o == run.op
               e == mem.hot
    <3>1. Adoptable(o) /\ man[o].st = "building" /\ man[o].parent = ActiveEpoch /\ man[o].data = ActiveEpoch + 1
      BY <2>3, <2>5 DEF Adoptable, IsTop, ActOps
    <3>2. ActiveParent = 0
      BY <1>0, <1>2, <3>1 DEF BaseInv
    <3>3. \A p \in Ops \ {o} : man[p].st # "none" => man[p].pub < man[o].pub
      BY <1>0, <1>2, <3>1 DEF NewestInv
    <3>4. /\ IsTop(man', o) /\ man'[o].st = "active" /\ man'[o].data = e
          /\ \A p \in Ops \ {o} : man'[p] = man[p]
          /\ ActiveEpoch' = e /\ ActiveParent' = man'[o].parent
          /\ meta'.epoch = e /\ meta'.ready
          /\ man'[o].parent = man[o].parent
      <4> HIDE DEF Adoptable, IsTop
      <4> QED BY <1>0, <1>2, <2>1, <2>5, <3>1, <3>2, <3>3, ActivateNewest
    <3>5. \A p \in Ops : Current(p)' => p = o
      BY <1>0, <1>2, <2>1, <2>2 DEF Current, LoneInv
    <3>6. e = ActiveEpoch + 1
      BY <2>1, <3>1 DEF Activate, CanBegin
    <3>7. ActiveEpoch \in Nat
      BY <1>0, EpochRange, GenAssumption DEF Bounded
    <3> HIDE DEF Current, o, e, Adoptable
    <3>8. LoneInv' /\ NewestInv'
      BY <3>4, <3>5 DEF LoneInv, NewestInv
    <3>9. RowInv'
      <4>1. man'[o].parent = man'[o].data - 1 /\ o \notin FullOps
        BY <1>2, <3>1, <3>4, <3>6, <3>7 DEF o
      <4> HIDE DEF IsTop
      <4> QED BY <1>0, <3>4, <4>1 DEF RowInv
    <3>10. BaseInv'
      <4>1. \A p \in FullOps : ~Current(p)'
        BY <1>2, <1>k, <3>5 DEF o
      <4>2. \A p : p = o => ~Adoptable(p)'
        BY <3>4 DEF Adoptable
      <4>3. \A p \in HotOps \cup ConfigOps : ~(Current(p)' /\ Adoptable(p)')
        BY <1>k, <3>5, <4>2
      <4> HIDE DEF IsTop
      <4> QED BY <3>4, <4>1, <4>3 DEF BaseInv
    <3>11. PointInv'
      BY <1>2, <2>2, <3>4 DEF PointInv, HotPcs, GcPcs, FullPcs, o
    <3> QED BY <3>8, <3>9, <3>10, <3>11 DEF LaneInv, OrderlyInv
  <2> QED BY <2>4, <2>5
<1>5. CASE CommitFails
  <2> DEFINE t == TRUE
  <2>1. /\ run.pc = "commit" /\ UNCHANGED <<man, meta, ck, lapped>> /\ t \in BOOLEAN
        /\ NextCommit(t) \/ run' = [run EXCEPT !.failed = t, !.pc = "abort"]
        /\ (IF t THEN "abort" ELSE "republish") = "abort"
    BY <1>5 DEF CommitFails, At, dbVars, ckVars
  <2> HIDE DEF t
  <2>2. run'.op = run.op /\ run'.pc \in {"commit", "abort"}
    <3>1. CASE NextCommit(t)
      <4>1. run.k < 2 => run'.pc = "commit"
        BY <1>0, <2>1, <3>1, NextCommitRun
      <4>2. run'.op = run.op
        BY <1>0, <2>1, <3>1, NextCommitRun
      <4>3. ~(run.k < 2) => run'.pc = "abort"
        BY <1>0, <2>1, <3>1, NextCommitRun
      <4> QED BY <4>1, <4>2, <4>3
    <3>2. CASE run' = [run EXCEPT !.failed = t, !.pc = "abort"]
      BY <1>0, <3>2 DEF Runs
    <3> QED BY <2>1, <3>1, <3>2
  <2>3. Adoptable(run.op) \/ IsTop(man, run.op)
    BY <1>0, <2>1 DEF PointInv
  <2> HIDE DEF Adoptable, IsTop
  <2> QED BY <1>q, <2>1, <2>2, <2>3
<1>6. CASE Abort
  <2>1. run.pc = "abort" /\ MarkFailed(run.op) /\ UNCHANGED <<meta, lapped>>
    BY <1>6 DEF Abort, At
  <2>2. \/ run'.op = run.op /\ run'.pc = "abort" /\ ck' = ck
        \/ /\ run'.op = None /\ run'.pc = "idle"
           /\ \A p \in Ops : ck'[p] = "in_progress" => ck[p] = "in_progress"
    <3>1. CASE run.k < 2
      <4>1. run' = [run EXCEPT !.k = 2] /\ UNCHANGED ck
        BY <1>6, <3>1 DEF Abort
      <4> QED BY <1>0, <2>1, <4>1 DEF Runs
    <3>2. CASE ~(run.k < 2)
      <4> DEFINE c == IF run.op \in ConfigOps THEN "failed" ELSE ck[run.op]
      <4>1. run' = Idle /\ ck' = [ck EXCEPT ![run.op] = c]
        BY <1>6, <3>2 DEF Abort
      <4>2. c = "in_progress" => c = ck[run.op]
        OBVIOUS
      <4> HIDE DEF c
      <4> QED BY <1>0, <1>2, <4>1, <4>2, LaunchRun DEF Typed
    <3> QED BY <3>1, <3>2
  <2>3. NoNewcomer
    BY <1>k, <2>1, <2>2 DEF NoNewcomer, Current
  <2>4. OrderlyInv'
    BY <1>0, <1>2, <2>1, <2>3, LaneFailed
  <2>5. PointInv'
    BY <1>2, <2>2 DEF PointInv, HotPcs, GcPcs, FullPcs
  <2> QED BY <2>4, <2>5 DEF LaneInv
<1> QED BY <1>3, <1>4, <1>5, <1>6

\* A collection that spares the active publication deletes other rows only.
LEMMA CollectKeeps ==
  ASSUME Typed, DistinctPubs(man), NEW o, IsTop(man, o), NEW P, ActivePub \notin P,
         man' = [q \in Ops |-> IF man[q].pub \in P THEN NoRow ELSE man[q]],
         man' \in [Ops -> Rows], DistinctPubs(man')
  PROVE  /\ IsTop(man', o) /\ man'[o] = man[o] /\ o \in Ops
         /\ ActiveEpoch' = ActiveEpoch /\ ActiveParent' = ActiveParent /\ ActivePub' = ActivePub
         /\ \A q \in Ops : man'[q].st # "none" => man'[q] = man[q]
         /\ \A q \in Ops : IsTop(man, q) => q = o
         /\ \A q \in Ops : man[q].pub \notin P => man'[q] = man[q]
<1>0. man \in [Ops -> Rows] /\ NoRow.st = "none"
  BY DEF Typed, NoRow
<1> HIDE DEF NoRow
<1>1. o \in Ops /\ man[o].st = "active" /\ \A p \in ActOps(man) : man[p].pub <= man[o].pub
  BY DEF IsTop, ActOps
<1>2. ActiveEpoch = man[o].data /\ ActiveParent = man[o].parent /\ ActivePub = man[o].pub
  BY <1>0, TopIs, ActiveIsTop
<1>3. man'[o] = man[o]
  BY <1>1, <1>2
<1>4. \A q \in Ops : man'[q].st # "none" => man'[q] = man[q]
  BY <1>0
<1>5. IsTop(man', o)
  BY <1>1, <1>3, <1>4 DEF IsTop, ActOps
<1>6. ActiveEpoch' = man'[o].data /\ ActiveParent' = man'[o].parent /\ ActivePub' = man'[o].pub
  BY <1>5, TopIs, ActiveIsTop
<1>7. \A q \in Ops : IsTop(man, q) => q = o
  <2> SUFFICES ASSUME NEW q \in Ops, IsTop(man, q) PROVE q = o
    OBVIOUS
  <2>1. Top(man) = q
    BY <1>0, TopIs
  <2>2. Top(man) = o
    BY <1>0, TopIs
  <2> QED BY <2>1, <2>2
<1>8. \A q \in Ops : man[q].pub \notin P => man'[q] = man[q]
  OBVIOUS
<1> QED BY <1>1, <1>2, <1>3, <1>4, <1>5, <1>6, <1>7, <1>8

\* So does the collection of retired generations.
LEMMA LaneCollect ==
  ASSUME TypeInv, OrderInv, LaneInv, PlanGc \/ CollectDocs \/ CollectRows \/ GcFails
  PROVE  LaneInv'
<1>0. /\ Typed /\ Launched /\ DistinctPubs(man) /\ PlanInv /\ PointInv /\ OrderlyInv
      /\ LoneInv /\ RowInv /\ NewestInv /\ BaseInv
      /\ run \in Runs /\ man \in [Ops -> Rows] /\ NoPlan \in Plans
      /\ "collectDocs" \in Pcs /\ "collectRows" \in Pcs /\ "finish" \in Pcs
  BY PcNames DEF TypeInv, OrderInv, LaneInv, OrderlyInv, Typed, GcPcs, NoPlan, Plans
<1>r. run.failed \in BOOLEAN
  BY <1>0 DEF Runs
<1>k. /\ HotOps \subseteq Ops /\ ConfigOps \subseteq Ops /\ FullOps \subseteq Ops /\ None \notin Ops
  BY KindsApart
<1>1. run.pc \in GcPcs /\ UNCHANGED <<meta, ck, lapped>>
  BY DEF PlanGc, CollectDocs, CollectRows, GcFails, At, GcPcs, dbVars, ckVars
<1>2. /\ run.op \in Ops /\ run.k \in 1..2 /\ run.op \in HotOps \cup ConfigOps \cup FullOps
      /\ IsTop(man, run.op) /\ (run.op \in FullOps => ActiveParent = 0)
  BY <1>0, <1>1 DEF PointInv, GcPcs, Launched
<1> HIDE DEF NoPlan, Plans
<1>3. \/ run'.pc \in {"collectDocs", "collectRows"} /\ run'.op = run.op /\ UNCHANGED man
      \/ run'.pc \in {"commit", "abort", "republish"} /\ run.op \notin FullOps /\ run'.op = run.op
      \/ run'.pc = "idle" /\ run'.op = None
      \/ run'.pc = "finish" /\ run'.op = run.op
  <2>1. CASE PlanGc
    <3>1. UNCHANGED man
      BY <2>1 DEF PlanGc, dbVars
    <3>2. PICK old : run' = [run EXCEPT !.plan = GcPlan(old), !.pc = "collectDocs"]
      BY <2>1 DEF PlanGc
    <3> HIDE DEF GcPlan
    <3> QED BY <1>0, <3>1, <3>2 DEF Runs
  <2>2. CASE CollectDocs
    BY <1>0, <2>2, PcRun DEF CollectDocs
  <2>3. CASE run.op \notin FullOps /\ NextCommit(run.failed)
    <3>1. run'.op = run.op
      BY <1>0, <1>r, <2>3, NextCommitRun
    <3>2. run'.pc \in {"commit", "abort", "republish"}
      BY <1>0, <1>2, <1>r, <2>3, NextCommitRun
    <3> QED BY <2>3, <3>1, <3>2
  <2>4. CASE run' = Idle
    BY <2>4, LaunchRun
  <2>5. CASE run' = [run EXCEPT !.pc = "finish", !.plan = NoPlan]
    BY <1>0, <2>5 DEF Runs
  <2> QED BY <2>1, <2>2, <2>3, <2>4, <2>5 DEF CollectRows, GcFails
<1>4. NoNewcomer
  BY <1>1, <1>3, <1>k DEF NoNewcomer, Current
<1>h. ASSUME IsTop(man', run.op), ActiveParent' = ActiveParent PROVE PointInv'
  <2> HIDE DEF IsTop, Adoptable
  <2> QED BY <1>2, <1>3, <1>h DEF PointInv, HotPcs, GcPcs, FullPcs
<1>5. CASE UNCHANGED man
  <2>1. OrderlyInv'
    BY <1>0, <1>1, <1>4, <1>5, LaneSame
  <2>2. PointInv'
    BY <1>2, <1>5, <1>h, SameMan
  <2> QED BY <2>1, <2>2 DEF LaneInv
<1>6. CASE CollectRows
  <2>1. /\ run.pc = "collectRows"
        /\ man' = [o \in Ops |-> IF man[o].pub \in run.plan.pubs THEN NoRow ELSE man[o]]
    BY <1>6 DEF CollectRows, At
  <2>2. man' \in [Ops -> Rows] /\ DistinctPubs(man')
    BY <1>6, TypeCollect DEF TypeInv, Typed
  <2>3. ActivePub \notin run.plan.pubs
    BY <1>0, <1>2, <2>1, ActiveIsTop DEF PlanInv, IsTop
  <2>4. /\ IsTop(man', run.op) /\ man'[run.op] = man[run.op]
        /\ ActiveEpoch' = ActiveEpoch /\ ActiveParent' = ActiveParent
        /\ \A q \in Ops : man'[q].st # "none" => man'[q] = man[q]
        /\ \A q \in Ops : IsTop(man, q) => q = run.op
    BY <1>0, <1>2, <2>1, <2>2, <2>3, CollectKeeps
  <2>5. \A p \in Ops : Current(p)' => Current(p)
    BY <1>4 DEF NoNewcomer
  <2>6. \A p \in Ops : Adoptable(p)' => Adoptable(p)
    BY <2>4 DEF Adoptable
  <2> HIDE DEF Current, Adoptable, IsTop
  <2>7. LoneInv'
    BY <1>0, <2>5 DEF LoneInv
  <2>8. RowInv'
    BY <1>0, <2>4 DEF RowInv
  <2>9. NewestInv'
    BY <1>0, <2>4, <2>5 DEF NewestInv
  <2>10. BaseInv'
    <3>1. \A p \in HotOps \cup ConfigOps : Current(p)' /\ Adoptable(p)' => ActiveParent' = 0
      BY <1>0, <1>k, <2>4, <2>5, <2>6 DEF BaseInv
    <3>2. ASSUME NEW p \in FullOps, Current(p)', man'[p].st = "active" PROVE IsTop(man', p)
      <4>1. IsTop(man, p)
        BY <1>0, <1>k, <2>4, <2>5, <3>2 DEF BaseInv
      <4> QED BY <1>k, <2>4, <4>1
    <3>3. ASSUME meta'.epoch = ActiveEpoch', ~meta'.ready \/ \E p \in FullOps : Current(p)' PROVE ActiveParent' = 0
      <4>1. meta.epoch = ActiveEpoch /\ (~meta.ready \/ \E p \in FullOps : Current(p))
        BY <1>1, <1>k, <2>4, <2>5, <3>3
      <4>2. ActiveParent = 0
        BY <1>0, <4>1 DEF BaseInv
      <4> QED BY <2>4, <4>2
    <3> QED BY <3>1, <3>2, <3>3 DEF BaseInv
  <2>11. PointInv'
    BY <1>h, <2>4
  <2> QED BY <2>7, <2>8, <2>9, <2>10, <2>11 DEF LaneInv, OrderlyInv
<1> QED BY <1>5, <1>6 DEF PlanGc, CollectDocs, GcFails, dbVars

\* So does every step of a full index.
LEMMA LaneFull ==
  ASSUME TypeInv, OrderInv, LaneInv,
         \/ FullNotReady \/ FullScan \/ FullManifest \/ FullActivate \/ FullFails
         \/ \E f \in Files : FullBatch(f)
  PROVE  LaneInv'
<1>0. /\ Typed /\ Launched /\ DistinctPubs(man) /\ EpochInv /\ PointInv /\ OrderlyInv
      /\ LoneInv /\ RowInv /\ NewestInv /\ BaseInv
      /\ run \in Runs /\ man \in [Ops -> Rows] /\ meta \in Metas /\ mem \in Mems /\ mem.full \in Bounded
      /\ {"scan", "manifest", "batch", "plan"} \subseteq Pcs
  BY PcNames DEF TypeInv, OrderInv, LaneInv, OrderlyInv, Typed, FullPcs, Mems
<1>k. /\ HotOps \subseteq Ops /\ ConfigOps \subseteq Ops /\ FullOps \subseteq Ops /\ None \notin Ops
      /\ HotOps \cap FullOps = {} /\ ConfigOps \cap FullOps = {}
  BY KindsApart
<1>1. run.pc \in FullPcs /\ UNCHANGED <<mem, lapped>>
  BY DEF FullNotReady, FullScan, FullManifest, FullActivate, FullFails, FullBatch, At,
     FullPcs
<1>2. /\ run.op \in Ops /\ run.op \in FullOps /\ run.op \notin HotOps \cup ConfigOps
      /\ mem.full = meta.epoch /\ Current(run.op)
  BY <1>0, <1>1, <1>k DEF EpochInv, PointInv, Current
<1>3. mem.full = ActiveEpoch => ActiveParent = 0
  BY <1>0, <1>2 DEF BaseInv
<1>h. ASSUME \/ run'.op = run.op /\ run'.pc \in FullPcs /\ meta'.epoch = meta.epoch
             \/ run'.op = None /\ run'.pc = "idle"
      PROVE  PointInv'
  BY <1>1, <1>2, <1>h DEF PointInv, FullPcs, HotPcs, GcPcs
<1>c. ASSUME \/ run'.op = run.op
             \/ run'.op = None,
             \A p \in Ops : p # run.op /\ ck'[p] = "in_progress" => ck[p] = "in_progress"
      PROVE  NoNewcomer
  BY <1>1, <1>2, <1>c, <1>k DEF NoNewcomer, Current
<1>4. CASE FullNotReady
  <2>1. UNCHANGED <<man, ck>> /\ meta' = [meta EXCEPT !.ready = FALSE] /\ run' = [run EXCEPT !.pc = "scan"]
    BY <1>4 DEF FullNotReady, ckVars
  <2>2. run'.op = run.op /\ run'.pc = "scan" /\ meta'.epoch = meta.epoch
    BY <1>0, <2>1, PcRun DEF Metas
  <2>3. \A p \in Ops : Current(p)' => Current(p)
    BY <1>c, <2>1, <2>2 DEF NoNewcomer
  <2>4. ActiveEpoch' = ActiveEpoch /\ ActiveParent' = ActiveParent /\ \A p : Adoptable(p)' = Adoptable(p)
    BY <2>1, SameMan, AdoptableSame
  <2> HIDE DEF Current, Adoptable
  <2>5. LoneInv' /\ RowInv' /\ NewestInv'
    BY <1>0, <2>1, <2>3 DEF LoneInv, RowInv, NewestInv
  <2>6. BaseInv'
    <3>1. \A p \in HotOps \cup ConfigOps : Current(p)' /\ Adoptable(p)' => ActiveParent' = 0
      BY <1>0, <1>k, <2>3, <2>4 DEF BaseInv
    <3>2. \A p \in FullOps : Current(p)' /\ man'[p].st = "active" => IsTop(man', p)
      BY <1>0, <1>k, <2>1, <2>3 DEF BaseInv
    <3>3. meta'.epoch = ActiveEpoch' => ActiveParent' = 0
      BY <1>2, <1>3, <2>2, <2>4
    <3> HIDE DEF IsTop
    <3> QED BY <3>1, <3>2, <3>3 DEF BaseInv
  <2>7. PointInv'
    BY <1>h, <2>2 DEF FullPcs
  <2> QED BY <2>5, <2>6, <2>7 DEF LaneInv, OrderlyInv
<1>5. CASE FullScan
  <2>1. /\ UNCHANGED <<man, meta>> /\ run' = [run EXCEPT !.pc = "manifest"]
        /\ ck' = ck \/ ck' = [ck EXCEPT ![run.op] = "in_progress"]
    BY <1>5 DEF FullScan, dbVars
  <2>2. run'.op = run.op /\ run'.pc = "manifest"
    BY <1>0, <2>1, PcRun
  <2>3. \A p \in Ops : p # run.op /\ ck'[p] = "in_progress" => ck[p] = "in_progress"
    BY <1>0, <2>1 DEF Typed
  <2>4. OrderlyInv'
    BY <1>0, <1>c, <2>1, <2>2, <2>3, LaneSame
  <2>5. PointInv'
    BY <1>h, <2>1, <2>2 DEF FullPcs
  <2> QED BY <2>4, <2>5 DEF LaneInv
<1>6. CASE FullManifest
  <2>1. UNCHANGED <<meta, ck>>
    BY <1>6 DEF FullManifest, ckVars
  <2>2. CASE CanBegin(run.op, mem.full)
    <3> DEFINE b == Begun(run.op, mem.full)
    <3>1. man' = [man EXCEPT ![run.op] = b] /\ run' = [run EXCEPT !.pc = "batch"]
      BY <1>6, <2>2 DEF FullManifest
    <3>2. run'.op = run.op /\ run'.pc = "batch"
      BY <1>0, <3>1, PcRun
    <3>3. NoNewcomer
      BY <1>c, <2>1, <3>2
    <3>4. OrderlyInv'
      <4>1. CASE man[run.op].st = "active"
        <5>1. b = man[run.op]
          BY <4>1 DEF Begun
        <5>2. UNCHANGED man
          BY <1>0, <3>1, <5>1
        <5> QED BY <1>0, <2>1, <3>3, <5>2, LaneSame
      <4>2. CASE man[run.op].st # "active"
        <5>1. /\ b \in Rows /\ b.st = "building" /\ b.parent = 0
              /\ \/ man[run.op].st # "none" /\ b.pub = man[run.op].pub
                 \/ \A p \in Ops : man[p].pub < b.pub
          BY <1>0, <1>2, <4>2, BegunRow DEF RowInv
        <5> HIDE DEF b, Current, NoNewcomer
        <5> QED BY <1>0, <1>2, <2>1, <3>1, <3>3, <4>2, <5>1, LaneBuilding
      <4> QED BY <4>1, <4>2
    <3>5. PointInv'
      BY <1>h, <2>1, <3>2 DEF FullPcs
    <3> QED BY <3>4, <3>5 DEF LaneInv
  <2>3. CASE ~CanBegin(run.op, mem.full)
    <3>1. UNCHANGED man /\ run' = Idle
      BY <1>6, <2>3 DEF FullManifest
    <3>2. run'.op = None /\ run'.pc = "idle"
      BY <3>1, LaunchRun
    <3>3. OrderlyInv'
      BY <1>0, <1>c, <2>1, <3>1, <3>2, LaneSame
    <3>4. PointInv'
      BY <1>h, <3>2
    <3> QED BY <3>3, <3>4 DEF LaneInv
  <2> QED BY <2>2, <2>3
<1>7. CASE FullActivate
  <2>1. Activate(run.op, mem.full) /\ run' = [run EXCEPT !.pc = "plan"] /\ UNCHANGED ck
    BY <1>7 DEF FullActivate, ckVars
  <2>2. run'.op = run.op /\ run'.pc = "plan"
    BY <1>0, <2>1, PcRun
  <2>p. ASSUME IsTop(man', run.op), ActiveParent' = 0 PROVE PointInv'
    BY <1>2, <2>2, <2>p DEF PointInv, FullPcs, HotPcs, GcPcs
  <2>n. NoNewcomer
    BY <1>c, <2>1, <2>2
  <2>3. CASE man[run.op].st = "active"
    <3>1. Activated(run.op, mem.full) = man[run.op]
      BY <1>0, <1>2, <2>3, ActivatedRow
    <3>2. UNCHANGED <<man, meta>>
      BY <1>0, <2>1, <2>3, <3>1 DEF Activate
    <3>3. IsTop(man, run.op)
      BY <1>0, <1>2, <2>3 DEF BaseInv
    <3>4. ActiveEpoch = man[run.op].data
      BY <1>0, <3>3, TopIs, ActiveIsTop
    <3>5. ActiveParent = 0
      BY <1>3, <2>1, <2>3, <3>4 DEF Activate, CanBegin
    <3>6. OrderlyInv'
      BY <1>0, <2>n, <3>2, LaneSame
    <3>7. PointInv'
      BY <2>p, <3>2, <3>3, <3>5, SameMan
    <3> QED BY <3>6, <3>7 DEF LaneInv
  <2>4. CASE man[run.op].st # "active"
    <3> DEFINE o == run.op
               e == mem.full
    <3>1. man[o].st # "none" => man[o].parent = 0 /\ man[o].st \in {"building", "failed"}
      BY <1>0, <1>2, <2>4 DEF RowInv, Rows
    <3>2. man[o].st # "none" => \A p \in Ops \ {o} : man[p].st # "none" => man[p].pub < man[o].pub
      BY <1>0, <1>2, <3>1 DEF NewestInv
    <3>3. /\ IsTop(man', o) /\ man'[o].st = "active"
          /\ \A p \in Ops \ {o} : man'[p] = man[p]
          /\ ActiveEpoch' = e /\ ActiveParent' = man'[o].parent
          /\ man'[o].parent = 0
      <4> HIDE DEF IsTop
      <4> QED BY <1>0, <1>2, <1>3, <2>1, <2>4, <3>1, <3>2, ActivateNewest
    <3>4. \A p \in Ops : Current(p)' => p = o
      BY <1>0, <1>2, <2>n DEF NoNewcomer, LoneInv
    <3> HIDE DEF Current, o, e, Adoptable
    <3>5. LoneInv' /\ NewestInv'
      BY <3>3, <3>4 DEF LoneInv, NewestInv
    <3>6. RowInv'
      <4> HIDE DEF IsTop
      <4> QED BY <1>0, <3>3 DEF RowInv
    <3>7. BaseInv'
      <4>1. \A p \in FullOps : Current(p)' => IsTop(man', p)
        BY <1>k, <3>3, <3>4
      <4>2. ActiveParent' = 0
        BY <3>3
      <4> HIDE DEF IsTop
      <4> QED BY <4>1, <4>2 DEF BaseInv
    <3>8. PointInv'
      BY <2>p, <3>3 DEF o
    <3> QED BY <3>5, <3>6, <3>7, <3>8 DEF LaneInv, OrderlyInv
  <2> QED BY <2>3, <2>4
<1>8. CASE FullFails
  <2>1. MarkFailed(run.op) /\ run' = Idle /\ UNCHANGED <<meta, ck>>
    BY <1>8 DEF FullFails, ckVars
  <2>2. run'.op = None /\ run'.pc = "idle"
    BY <2>1, LaunchRun
  <2>3. OrderlyInv'
    BY <1>0, <1>2, <1>c, <2>1, <2>2, LaneFailed
  <2>4. PointInv'
    BY <1>h, <2>2
  <2> QED BY <2>3, <2>4 DEF LaneInv
<1>9. CASE \E f \in Files : FullBatch(f)
  <2>1. UNCHANGED <<man, meta, run, ck>>
    BY <1>9 DEF FullBatch
  <2>2. OrderlyInv'
    BY <1>0, <1>c, <2>1, LaneSame
  <2>3. PointInv'
    BY <1>1, <1>h, <2>1
  <2> QED BY <2>2, <2>3 DEF LaneInv
<1> QED BY <1>4, <1>5, <1>6, <1>7, <1>8, <1>9

\* So does the republication of a compacted relation epoch, which carries the link of
\* the active row forward.
LEMMA LaneRepublish ==
  ASSUME TypeInv, OrderInv, LaneInv, NEW o \in RelOps, Republish(o)
  PROVE  /\ LaneInv' /\ IsTop(man', o) /\ man'[o].data = ActiveEpoch /\ man'[o].parent = ActiveParent
         /\ \A p \in Ops \ {o} : man'[p] = man[p] /\ (man[p].st # "none" => man[p].pub < man'[o].pub)
         /\ ActiveEpoch' = ActiveEpoch /\ ActiveParent' = ActiveParent /\ ActivePub' = man'[o].pub
         /\ man'[o].st = "active" /\ run'.pc = "finish" /\ ActivePub < ActivePub'
         /\ \A p \in Ops : man[p].st # "building"
<1>0. /\ Typed /\ Launched /\ DistinctPubs(man) /\ PointInv
      /\ LoneInv /\ RowInv /\ NewestInv /\ BaseInv
      /\ run \in Runs /\ man \in [Ops -> Rows] /\ "finish" \in Pcs
  BY PcNames DEF TypeInv, OrderInv, LaneInv, OrderlyInv, Typed
<1>k. /\ HotOps \subseteq Ops /\ ConfigOps \subseteq Ops /\ FullOps \subseteq Ops /\ RelOps \subseteq Ops
      /\ RelOps \cap (HotOps \cup ConfigOps \cup FullOps) = {}
      /\ HotOps \cap FullOps = {} /\ ConfigOps \cap FullOps = {}
  BY KindsApart
<1>1. /\ run.pc = "republish" /\ man[o].st = "none" /\ Activate(o, ActiveEpoch) /\ UNCHANGED <<ck, lapped>>
      /\ run' = [run EXCEPT !.pc = "finish"] /\ \A p \in Ops : man[p].st # "building"
  BY DEF Republish, At, Fresh
<1>2. /\ run.op \in Ops /\ run.op \in HotOps \cup ConfigOps /\ run.op \notin FullOps
      /\ IsTop(man, run.op) /\ Current(run.op) /\ o # run.op /\ o \in Ops /\ o \notin FullOps
  BY <1>0, <1>1, <1>k DEF PointInv, Current
<1>3. run'.op = run.op /\ run'.pc = "finish"
  BY <1>0, <1>1, PcRun
<1>4. /\ ActiveEpoch = man[run.op].data /\ ActiveParent = man[run.op].parent /\ ActivePub = man[run.op].pub
      /\ man[run.op].st = "active"
  BY <1>0, <1>2, TopIs, ActiveIsTop DEF IsTop, ActOps
<1>5. /\ IsTop(man', o) /\ man'[o].st = "active" /\ man'[o].data = ActiveEpoch
      /\ \A p \in Ops \ {o} : man'[p] = man[p] /\ (man[p].st # "none" => man[p].pub < man'[o].pub)
      /\ ActiveEpoch' = ActiveEpoch /\ ActiveParent' = man'[o].parent /\ ActivePub' = man'[o].pub
      /\ meta'.epoch = ActiveEpoch /\ meta'.ready /\ man'[o].parent = ActiveParent
  <2>1. ActiveEpoch \in Bounded
    BY <1>0, EpochRange
  <2> DEFINE e == ActiveEpoch
  <2>2. e \in Bounded /\ Activate(o, e) /\ ActiveEpoch = e
    BY <1>1, <2>1
  <2> HIDE DEF e
  <2>3. /\ IsTop(man', o) /\ man'[o].st = "active" /\ man'[o].data = e
        /\ \A p \in Ops \ {o} : man'[p] = man[p] /\ (man[p].st # "none" => man[p].pub < man'[o].pub)
        /\ ActiveEpoch' = e /\ ActiveParent' = man'[o].parent /\ ActivePub' = man'[o].pub
        /\ meta'.epoch = e /\ meta'.ready /\ man'[o].parent = ActiveParent
    BY <1>0, <1>1, <1>2, <2>2, ActivateNewest
  <2> QED BY <2>2, <2>3
<1>6. \A p \in Ops : Current(p)' => p = run.op
  BY <1>0, <1>1, <1>2, <1>3 DEF Current, LoneInv
<1> HIDE DEF Current
<1>7. LoneInv'
  BY <1>6 DEF LoneInv
<1>8. NewestInv'
  BY <1>2, <1>4, <1>5, <1>6 DEF NewestInv
<1>9. RowInv'
  <2>1. man'[o].parent # 0 => man'[o].parent = man'[o].data - 1
    BY <1>0, <1>2, <1>4, <1>5 DEF RowInv
  <2> HIDE DEF IsTop
  <2> QED BY <1>0, <1>2, <1>5, <2>1 DEF RowInv
<1>10. BaseInv'
  <2>1. \A p \in FullOps : ~Current(p)'
    BY <1>2, <1>6, <1>k
  <2>2. \A p : p = run.op => ~Adoptable(p)'
    BY <1>2, <1>4, <1>5 DEF Adoptable
  <2>3. \A p \in HotOps \cup ConfigOps : ~(Current(p)' /\ Adoptable(p)')
    BY <1>k, <1>6, <2>2
  <2> HIDE DEF IsTop, Adoptable
  <2> QED BY <1>5, <2>1, <2>3 DEF BaseInv
<1>11. PointInv'
  BY <1>2, <1>3 DEF PointInv, FullPcs, HotPcs, GcPcs
<1> QED BY <1>1, <1>2, <1>3, <1>4, <1>5, <1>7, <1>8, <1>9, <1>10, <1>11 DEF LaneInv,
           OrderlyInv

\* Every step keeps the fourth layer unless it takes up an overtaken operation.
LEMMA LaneStep ==
  ASSUME "stale" \notin harm', TypeInv, OrderInv, LaneInv, [GenNext]_genVars
  PROVE  LaneInv'
<1>0. Typed /\ Launched /\ PointInv /\ OrderlyInv /\ run \in Runs
  BY DEF TypeInv, LaneInv, Typed
<1>k. /\ HotOps \subseteq Ops /\ ConfigOps \subseteq Ops /\ FullOps \subseteq Ops /\ None \notin Ops
  BY KindsApart
<1>1. CASE \/ \E o \in HotOps : StartHot(o) \/ ResumeHot(o)
           \/ \E o \in ConfigOps : StartConfig(o)
           \/ \E o \in FullOps : StartFull(o)
  BY <1>1, LaneStart
<1>2. CASE \/ PrepareAgain \/ Adopt \/ Resolve \/ CompactRows \/ CompactDocs \/ Unlink
           \/ CleanDocs \/ Register \/ AdoptFails \/ PrepareFails \/ PrepareRefused
  BY <1>2, LanePrepare
<1>3. CASE Process \/ Mark \/ SkipModule \/ ProcessFails \/ Commit \/ CommitFails \/ Abort
  BY <1>3, LaneProcess
<1>4. CASE PlanGc \/ CollectDocs \/ CollectRows \/ GcFails
  BY <1>4, LaneCollect
<1>5. CASE \/ FullNotReady \/ FullScan \/ FullManifest \/ FullActivate \/ FullFails
           \/ \E f \in Files : FullBatch(f)
  BY <1>5, LaneFull
<1>6. CASE \E o \in RelOps : Republish(o)
  BY <1>6, LaneRepublish
<1>7. CASE Finish \/ Crash
  <2>1. /\ UNCHANGED <<man, meta, lapped>> /\ run' = Idle
        /\ ck' = ck \/ (run.pc # "idle" /\ ck' = [ck EXCEPT ![run.op] = "completed"])
    BY <1>7 DEF Finish, Crash, dbVars, ckVars
  <2>2. run'.op = None /\ run'.pc = "idle"
    BY <2>1, LaunchRun
  <2>3. NoNewcomer
    BY <1>0, <1>k, <2>1, <2>2 DEF NoNewcomer, Current, Typed
  <2>4. OrderlyInv'
    BY <1>0, <2>1, <2>3, LaneSame
  <2>5. PointInv'
    BY <2>2 DEF PointInv, HotPcs, FullPcs, GcPcs
  <2> QED BY <2>4, <2>5 DEF LaneInv
<1>8. CASE UNCHANGED genVars
  <2>1. UNCHANGED <<man, meta, run, ck, mem, lapped>>
    BY <1>8 DEF genVars
  <2>2. NoNewcomer
    BY <2>1 DEF NoNewcomer, Current
  <2>3. OrderlyInv'
    BY <1>0, <2>1, <2>2, LaneSame
  <2>4. ActiveParent' = ActiveParent /\ \A p : Adoptable(p)' = Adoptable(p)
    BY <2>1, SameMan, AdoptableSame
  <2>5. Adoptable(run.op)' = Adoptable(run.op)
    BY <2>1, <2>4 DEF Adoptable
  <2> HIDE DEF Adoptable, IsTop
  <2>6. PointInv'
    BY <1>0, <2>1, <2>4, <2>5 DEF PointInv
  <2> QED BY <2>3, <2>6 DEF LaneInv
<1> QED BY <1>1, <1>2, <1>3, <1>4, <1>5, <1>6, <1>7, <1>8
     DEF GenNext, RunStep, HotStep, GcStep, FullStep, Fault

\* It holds at first.
LEMMA LaneInit ==
  GenInit => LaneInv
<1> SUFFICES ASSUME GenInit PROVE LaneInv
  OBVIOUS
<1>k. /\ HotOps \subseteq Ops /\ ConfigOps \subseteq Ops /\ FullOps \subseteq Ops /\ None \notin Ops
  BY KindsApart
<1>1. run.pc = "idle" /\ run.op = None
  BY LaunchRun DEF GenInit
<1>2. \A o \in Ops : man[o].st = "none" /\ ck[o] = "none"
  BY DEF GenInit, NoRow
<1>3. \A o \in Ops : ~Current(o)
  BY <1>1, <1>2, <1>k DEF Current
<1>4. meta.ready
  BY DEF GenInit
<1> HIDE DEF Current
<1>5. LoneInv /\ RowInv /\ NewestInv
  BY <1>2, <1>3 DEF LoneInv, RowInv, NewestInv
<1>6. BaseInv
  BY <1>3, <1>4, <1>k DEF BaseInv
<1>7. PointInv
  BY <1>1 DEF PointInv, HotPcs, FullPcs, GcPcs
<1> QED BY <1>5, <1>6, <1>7 DEF LaneInv, OrderlyInv

\* The fourth layer holds in every reachable state, with any configuration change, hot
\* update and full index started over unfinished work, as long as no overtaken operation
\* has been taken up again.
THEOREM LaneInvariance == GenSpec => []("stale" \notin harm => LaneInv)
<1>1. GenInit => ("stale" \notin harm => LaneInv)
  BY LaneInit
<1>2. TypeInv /\ OrderInv /\ ("stale" \notin harm => LaneInv) /\ [GenNext]_genVars
        => ("stale" \notin harm => LaneInv)'
  BY LaneStep, HistoryStep DEF HistoryGrows
<1> QED BY <1>1, <1>2, GenInvariance, OrderInvariance, PTL DEF GenSpec

---------------------------------------------------------------------------
\* Row a of table m publishes the generation that the active row inherits from: it has
\* no parent, only the active row is newer among the active ones, and so is no
\* leftover row of that epoch with a parent.
Heir(m, a) ==
  /\ m[a].st = "active" /\ m[a].data = TopParent(m) /\ m[a].parent = 0
  /\ \A p \in Ops : m[p].st = "active" /\ m[p].pub > m[a].pub => IsTop(m, p)
  /\ \A p \in Ops : m[p].st \in {"building", "failed"} /\ m[p].data = TopParent(m) /\ m[p].parent # 0
       => m[p].pub < m[a].pub
\* Leftovers of failed and abandoned candidates are older than the active row, up to
\* its epoch.
Remnants(m) ==
  \A o \in Ops : m[o].st \in {"building", "failed"} /\ m[o].data <= TopEpoch(m) /\ m[o].parent # 0
    => m[o].pub < TopPub(m)
\* Whatever row names a parent of the generation that the active row inherits from, a
\* newer row names none.
Links(m) ==
  TopParent(m) # 0 =>
    \A o \in Ops : m[o].st # "none" /\ m[o].data = TopParent(m) /\ m[o].parent # 0 =>
      \E a \in Ops : /\ m[a].st = "active" /\ m[a].data = TopParent(m) /\ m[a].parent = 0
                     /\ m[o].pub < m[a].pub
\* There is an heir from the publication on until its collection is over, and the
\* plan of the collection spares it.
HeirInv ==
  TopParent(man) # 0 =>
    /\ run.pc \in GcPcs \/ (run.pc = "commit" /\ man[run.op].st = "active") => \E a \in Ops : Heir(man, a)
    /\ run.pc \in {"collectDocs", "collectRows"} =>
         \E a \in Ops : Heir(man, a) /\ man[a].pub \notin run.plan.pubs
\* The fifth layer of the inductive invariant.
ChainInv == Remnants(man) /\ Links(man) /\ HeirInv

\* An heir is a newer row without parent for every row that names one.
LEMMA HeirLinks ==
  ASSUME NEW m \in [Ops -> Rows], DistinctPubs(m), NEW t, IsTop(m, t),
         m[t].parent # 0 => m[t].parent = m[t].data - 1, NEW a \in Ops, Heir(m, a)
  PROVE  Links(m)
<1>1. t \in Ops /\ m[t] \in Rows /\ TopParent(m) = m[t].parent /\ m[t].data \in Nat
  BY TopIs, GenAssumption DEF Rows, Bounded
<1>2. SUFFICES ASSUME TopParent(m) # 0, NEW o \in Ops, m[o].st # "none",
                      m[o].data = TopParent(m), m[o].parent # 0
               PROVE  m[o].pub < m[a].pub
  BY DEF Links, Heir
<1>3. m[t].data # TopParent(m)
  BY <1>1, <1>2
<1>4. \A p \in Ops : m[p].pub \in Nat /\ m[p].st \in {"none", "building", "active", "failed"}
  BY DEF Rows
<1>5. CASE m[o].st = "active"
  <2>1. ~IsTop(m, o)
    <3> SUFFICES ASSUME IsTop(m, o) PROVE FALSE
      OBVIOUS
    <3>1. Top(m) = o
      BY TopIs
    <3>2. Top(m) = t
      BY TopIs
    <3> QED BY <1>2, <1>3, <3>1, <3>2
  <2>2. ~(m[o].pub > m[a].pub)
    BY <1>5, <2>1 DEF Heir
  <2>3. o # a
    BY <1>2 DEF Heir
  <2>4. m[o].pub # m[a].pub
    BY <1>5, <2>3 DEF DistinctPubs, Heir
  <2> QED BY <1>4, <2>2, <2>4
<1>6. CASE m[o].st \in {"building", "failed"}
  BY <1>2, <1>6 DEF Heir
<1> QED BY <1>2, <1>4, <1>5, <1>6

\* The plan spares the heir: two active generations are retained, and only the active
\* row is newer.
LEMMA HeirKept ==
  ASSUME KeepActive >= 2, Typed, DistinctPubs(man), NEW old \in SUBSET Ops, NEW a \in Ops, Heir(man, a)
  PROVE  man[a].pub \notin GcPlan(old).pubs
<1> DEFINE t == Top(man)
           N == {p \in ActiveOps : man[p].pub > man[a].pub}
           K == Kept(old)
           G == {o \in Ops : man[o].st # "none"} \ K
<1>0. man \in [Ops -> Rows] /\ ActiveOps = ActOps(man) /\ KeepActive \in Nat
  BY ActiveIsTop, GenAssumption DEF Typed
<1>1. N \subseteq {t}
  <2> SUFFICES ASSUME NEW p \in N PROVE p = t
    OBVIOUS
  <2>1. IsTop(man, p)
    BY <1>0 DEF Heir, ActOps
  <2> QED BY <1>0, <2>1, TopIs
<1>2. man[a].st = "active"
  BY DEF Heir
<1> HIDE DEF t
<1>3. Cardinality(N) < KeepActive
  <2> HIDE DEF N
  <2>1. IsFiniteSet({t}) /\ Cardinality({t}) = 1
    BY FS_Singleton
  <2>2. IsFiniteSet(N) /\ Cardinality(N) <= 1
    BY <1>1, <2>1, FS_Subset
  <2>3. Cardinality(N) \in Nat
    BY <2>2, FS_CardinalityType
  <2> QED BY <1>0, <2>2, <2>3
<1>4. a \in K
  BY <1>2, <1>3 DEF Kept
<1>5. ASSUME NEW o \in G, man[o].pub = man[a].pub PROVE FALSE
  <2>1. o = a
    BY <1>2, <1>5 DEF DistinctPubs
  <2> QED BY <1>4, <1>5, <2>1
<1>6. GcPlan(old) = [protected |-> Protected(old), stale |-> {man[o].data : o \in G} \ Protected(old),
                     pubs |-> {man[o].pub : o \in G}]
  BY DEF GcPlan
<1> HIDE DEF G, Protected, GcPlan
<1>7. GcPlan(old).pubs = {man[o].pub : o \in G}
  BY <1>6
<1> QED BY <1>5, <1>7

\* A step that leaves the table alone keeps the fifth layer.
LEMMA ChainSame ==
  ASSUME ChainInv, UNCHANGED man,
         run'.pc \in GcPcs \/ (run'.pc = "commit" /\ man[run'.op].st = "active") =>
           run.pc \in GcPcs \/ (run.pc = "commit" /\ man[run.op].st = "active"),
         run'.pc \in {"collectDocs", "collectRows"} =>
           run.pc \in {"collectDocs", "collectRows"} /\ run'.plan = run.plan
  PROVE  ChainInv'
<1>1. Remnants(man) /\ Links(man) /\ HeirInv
  BY DEF ChainInv
<1>2. Remnants(man') /\ Links(man')
  BY <1>1
<1> HIDE DEF Heir
<1>3. HeirInv'
  BY <1>1 DEF HeirInv
<1> QED BY <1>2, <1>3 DEF ChainInv

\* So does mark_failed.
LEMMA ChainFailed ==
  ASSUME TypeInv, ChainInv, NEW o \in Ops, MarkFailed(o), run'.pc \notin GcPcs \cup {"commit"}
  PROVE  ChainInv'
<1>0. man \in [Ops -> Rows] /\ DistinctPubs(man) /\ Remnants(man) /\ Links(man)
  BY DEF ChainInv, TypeInv, Typed
<1>1. /\ ActOps(man') = ActOps(man)
      /\ \A p \in Ops : /\ man'[p].pub = man[p].pub /\ man'[p].data = man[p].data
                        /\ man'[p].parent = man[p].parent
                        /\ man'[p].st = IF p = o /\ man[p].st = "building" THEN "failed" ELSE man[p].st
      /\ ActiveEpoch' = ActiveEpoch /\ ActiveParent' = ActiveParent /\ ActivePub' = ActivePub
  BY <1>0, MarkFailedType
<1>2. \A p \in Ops : /\ man'[p].st = "none" <=> man[p].st = "none"
                     /\ man'[p].st = "active" <=> man[p].st = "active"
                     /\ man'[p].st \in {"building", "failed"} => man[p].st \in {"building", "failed"}
  BY <1>1
<1>3. TopEpoch(man') = TopEpoch(man) /\ TopParent(man') = TopParent(man) /\ TopPub(man') = TopPub(man)
  BY <1>1, ActiveIsTop
<1>4. Remnants(man')
  BY <1>0, <1>1, <1>2, <1>3 DEF Remnants
<1>5. Links(man')
  <2> SUFFICES ASSUME TopParent(man) # 0, NEW p \in Ops, man[p].st # "none",
                      man[p].data = TopParent(man), man[p].parent # 0
               PROVE  \E a \in Ops : /\ man'[a].st = "active" /\ man'[a].data = TopParent(man)
                                     /\ man'[a].parent = 0 /\ man'[p].pub < man'[a].pub
    BY <1>1, <1>2, <1>3 DEF Links
  <2>1. PICK a \in Ops : /\ man[a].st = "active" /\ man[a].data = TopParent(man)
                         /\ man[a].parent = 0 /\ man[p].pub < man[a].pub
    BY <1>0 DEF Links
  <2> QED BY <1>1, <1>2, <2>1
<1>6. HeirInv'
  BY DEF HeirInv, GcPcs
<1> QED BY <1>4, <1>5, <1>6 DEF ChainInv

\* So does begin_building, of a row without parent or ahead of the active epoch.
LEMMA ChainBuilding ==
  ASSUME TypeInv, ChainInv, NEW o \in Ops, man[o].st # "active",
         NEW r \in Rows, man' = [man EXCEPT ![o] = r], r.st = "building",
         ActiveEpoch' = ActiveEpoch, ActiveParent' = ActiveParent, ActivePub' = ActivePub,
         r.parent = 0 \/ (r.data > ActiveEpoch /\ ActiveParent = 0),
         run'.pc \notin GcPcs \cup {"commit"}
  PROVE  ChainInv'
<1>0. man \in [Ops -> Rows] /\ Remnants(man) /\ Links(man)
  BY DEF ChainInv, TypeInv, Typed
<1>1. TopEpoch(man') = TopEpoch(man) /\ TopParent(man') = TopParent(man) /\ TopPub(man') = TopPub(man)
  BY ActiveIsTop
<1>2. man'[o] = r /\ \A p \in Ops : p # o => man'[p] = man[p]
  BY <1>0
<1>3. r.parent = 0 \/ (~(r.data <= TopEpoch(man)) /\ TopParent(man) = 0)
  <2>1. ActiveEpoch \in Nat /\ r.data \in Nat
    BY EpochRange, GenAssumption DEF Bounded, Rows, TypeInv
  <2> QED BY <2>1, ActiveIsTop
<1>4. Remnants(man')
  BY <1>0, <1>1, <1>2, <1>3 DEF Remnants
<1>5. Links(man')
  <2> SUFFICES ASSUME TopParent(man) # 0, NEW p \in Ops, man'[p].st # "none",
                      man'[p].data = TopParent(man), man'[p].parent # 0
               PROVE  \E a \in Ops : /\ man'[a].st = "active" /\ man'[a].data = TopParent(man)
                                     /\ man'[a].parent = 0 /\ man'[p].pub < man'[a].pub
    BY <1>1 DEF Links
  <2>1. p # o
    BY <1>2, <1>3
  <2>2. PICK a \in Ops : /\ man[a].st = "active" /\ man[a].data = TopParent(man)
                         /\ man[a].parent = 0 /\ man[p].pub < man[a].pub
    BY <1>0, <1>2, <2>1 DEF Links
  <2>3. a # o
    BY <2>2
  <2> QED BY <1>2, <2>1, <2>2, <2>3
<1>6. HeirInv'
  BY DEF HeirInv, GcPcs
<1> QED BY <1>4, <1>5, <1>6 DEF ChainInv

\* When the active row is the newest of the table every leftover is older.
LEMMA ChainNewest ==
  ASSUME NEW m \in [Ops -> Rows], DistinctPubs(m), NEW t, IsTop(m, t),
         \A p \in Ops \ {t} : m[p].st # "none" => m[p].pub < m[t].pub
  PROVE  Remnants(m)
<1>1. t \in Ops /\ m[t].st = "active" /\ TopPub(m) = m[t].pub
  BY TopIs DEF IsTop, ActOps
<1> HIDE DEF IsTop
<1> QED BY <1>1 DEF Remnants

\* Every step of prepare keeps the fifth layer: unlinking leaves nothing to inherit.
LEMMA ChainPrepare ==
  ASSUME TypeInv, OrderInv, LaneInv, ChainInv, TypeInv',
         \/ PrepareAgain \/ Adopt \/ Resolve \/ CompactRows \/ CompactDocs \/ Unlink
         \/ CleanDocs \/ Register \/ AdoptFails \/ PrepareFails \/ PrepareRefused
  PROVE  ChainInv'
<1>0. /\ Typed /\ Launched /\ DistinctPubs(man) /\ RoomInv /\ SlotInv /\ PointInv /\ OrderlyInv
      /\ LoneInv /\ RowInv /\ NewestInv /\ BaseInv
      /\ Remnants(man) /\ Links(man)
      /\ ActiveEpoch \in Nat /\ ActiveParent \in Nat
      /\ run \in Runs /\ man \in [Ops -> Rows] /\ mem \in Mems /\ mem.hot \in Bounded
      /\ man' \in [Ops -> Rows] /\ DistinctPubs(man')
      /\ {"compact", "compactDocs", "unlink", "clean", "register"} \subseteq Pcs
  BY PcNames, EpochRange, GenAssumption
     DEF TypeInv, OrderInv, LaneInv, OrderlyInv, ChainInv, Bounded, Typed, HotPcs, Mems
<1>r. run.failed \in BOOLEAN
  BY <1>0 DEF Runs
<1>1. run.pc \in HotPcs /\ UNCHANGED <<meta, ck, lapped>>
  BY DEF PrepareAgain, Adopt, Resolve, CompactRows, CompactDocs, Unlink, CleanDocs,
     Register, AdoptFails, PrepareFails, PrepareRefused, PreparationFailed, At, HotPcs, dbVars, ckVars
<1>k. /\ HotOps \subseteq Ops /\ ConfigOps \subseteq Ops /\ FullOps \subseteq Ops /\ None \notin Ops
      /\ HotOps \cap FullOps = {} /\ ConfigOps \cap FullOps = {}
  BY KindsApart
<1>2. /\ run.op \in Ops /\ run.op # None /\ run.k \in 1..2 /\ man[run.op].st # "active"
      /\ run.op \in HotOps \cup ConfigOps /\ run.op \notin FullOps /\ Current(run.op)
  BY <1>0, <1>1, <1>k DEF Launched, RoomInv, PointInv, Current, HotPcs
<1>p. ASSUME NEW f \in BOOLEAN, Prepared(f)
      PROVE  run'.pc \notin GcPcs \cup {"commit"} /\ run'.op = run.op
  BY <1>0, <1>p, PreparedRun DEF GcPcs
<1>q. ASSUME UNCHANGED man, run'.pc \notin GcPcs \cup {"commit"} PROVE ChainInv'
  BY <1>q, ChainSame DEF GcPcs
<1>3. CASE PrepareAgain
  <2> DEFINE f == run.failed \/ mem.slot # run.op
  <2>1. UNCHANGED man /\ Prepared(f) /\ f \in BOOLEAN
    BY <1>3 DEF PrepareAgain, dbVars
  <2> HIDE DEF f
  <2> QED BY <1>p, <1>q, <2>1
<1>4. CASE Adopt
  BY <1>4, <1>p, <1>q, <1>r DEF Adopt, dbVars
<1>5. CASE Resolve
  <2> DEFINE p == IF ActiveParent > 0 THEN "compact" ELSE "clean"
  <2>1. UNCHANGED man /\ run' = [run EXCEPT !.pc = p]
    BY <1>5 DEF Resolve, dbVars
  <2>2. p \in Pcs /\ p \in {"compact", "clean"}
    BY <1>0
  <2> HIDE DEF p
  <2>3. run'.pc = p
    BY <1>0, <2>1, <2>2, PcRun
  <2> QED BY <1>q, <2>1, <2>2, <2>3 DEF GcPcs
<1>6. CASE CompactRows \/ CompactDocs \/ CleanDocs
  <2>1. PICK p \in {"compactDocs", "unlink", "register"} : run' = [run EXCEPT !.pc = p]
    BY <1>6 DEF CompactRows, CompactDocs, CleanDocs
  <2>2. UNCHANGED man
    BY <1>6 DEF CompactRows, CompactDocs, CleanDocs
  <2>3. run'.pc = p
    BY <1>0, <2>1, PcRun
  <2> QED BY <1>q, <2>1, <2>2, <2>3 DEF GcPcs
<1>7. CASE Unlink
  <2>1. run.pc = "unlink" /\ run' = [run EXCEPT !.pc = "clean"] /\ man' = [man EXCEPT ![Active].parent = 0]
    BY <1>7 DEF Unlink, At
  <2>2. run'.pc = "clean"
    BY <1>0, <2>1, PcRun
  <2>4. ActOps(man) # {} /\ Active = Top(man)
    BY <1>0, <2>1, ActiveIsTop DEF RoomInv, TopParent
  <2> DEFINE t == Top(man)
             r == [man[t] EXCEPT !.parent = 0]
  <2>5. IsTop(man, t)
    BY <1>0, <2>4, TopExists
  <2>6. t \in Ops /\ man' = [man EXCEPT ![t] = r] /\ man[t] \in Rows
    BY <1>0, <2>1, <2>4, <2>5 DEF IsTop, ActOps
  <2> HIDE DEF t
  <2>7. r.st = man[t].st /\ r.pub = man[t].pub /\ r.data = man[t].data /\ r.parent = 0
    BY <2>6 DEF Rows
  <2> HIDE DEF r
  <2>8. /\ man'[t].parent = 0 /\ \A p \in Ops : p # t => man'[p] = man[p]
        /\ \A p \in Ops : man'[p].st = man[p].st /\ man'[p].pub = man[p].pub /\ man'[p].data = man[p].data
    BY <1>0, <2>6, <2>7
  <2>9. IsTop(man', t)
    BY <2>5, <2>8 DEF ActOps, IsTop
  <2>10. TopParent(man') = 0 /\ TopEpoch(man') = TopEpoch(man) /\ TopPub(man') = TopPub(man)
    <3>1. TopEpoch(man) = man[t].data /\ TopPub(man) = man[t].pub
      BY <1>0, <2>5, TopIs
    <3>2. TopEpoch(man') = man'[t].data /\ TopPub(man') = man'[t].pub /\ TopParent(man') = man'[t].parent
      BY <1>0, <2>9, TopIs
    <3> QED BY <2>6, <2>8, <3>1, <3>2
  <2>11. Remnants(man')
    BY <1>0, <2>8, <2>10 DEF Remnants
  <2>12. Links(man') /\ HeirInv'
    BY <2>10 DEF Links, HeirInv
  <2> QED BY <2>11, <2>12 DEF ChainInv
<1>8. CASE Register
  <2> DEFINE b == Begun(run.op, mem.hot)
             r == [b EXCEPT !.parent = ActiveEpoch, !.ready = TRUE]
  <2>1. /\ run.pc = "register" /\ Prepared(run.failed) /\ CanBegin(run.op, mem.hot)
        /\ man' = [man EXCEPT ![run.op] = r]
    BY <1>8 DEF Register, At
  <2>2. run'.op = run.op /\ run'.pc \notin GcPcs \cup {"commit"}
    BY <1>p, <1>r, <2>1
  <2>3. mem.hot = ActiveEpoch + 1 /\ ActiveParent = 0 /\ ActiveEpoch \in Bounded
    BY <1>0, <1>2, <2>1, EpochRange DEF SlotInv, Astray, HotPcs, PointInv
  <2>4. /\ b \in Rows /\ b.st = "building" /\ b.data = mem.hot
        /\ \/ man[run.op].st # "none" /\ b.pub = man[run.op].pub
           \/ \A p \in Ops : man[p].pub < b.pub
    BY <1>0, <1>2, <2>1, BegunRow DEF CanBegin
  <2> HIDE DEF b
  <2>5. r \in Rows /\ r.st = "building" /\ r.pub = b.pub /\ r.data = b.data /\ r.parent = ActiveEpoch
    BY <2>3, <2>4 DEF Rows
  <2> HIDE DEF r
  <2>7. r.parent = r.data - 1 /\ r.data > ActiveEpoch
    BY <1>0, <2>3, <2>4, <2>5
  <2>8. NoNewcomer
    BY <1>1, <2>2 DEF NoNewcomer, Current
  <2> HIDE DEF Current, NoNewcomer
  <2>9. ActiveEpoch' = ActiveEpoch /\ ActiveParent' = ActiveParent /\ ActivePub' = ActivePub
    BY <1>0, <1>1, <1>2, <2>1, <2>3, <2>4, <2>5, <2>7, <2>8, LaneBuilding
  <2> QED BY <1>2, <2>1, <2>2, <2>3, <2>5, <2>7, <2>9, ChainBuilding
<1>9. CASE PrepareFails \/ PrepareRefused
  <2> DEFINE t == TRUE
  <2>1. MarkFailed(run.op) /\ Prepared(t) /\ t \in BOOLEAN
    BY <1>9 DEF PrepareFails, PrepareRefused, PreparationFailed
  <2> HIDE DEF t
  <2>2. run'.pc \notin GcPcs \cup {"commit"}
    BY <1>p, <2>1
  <2> QED BY <1>2, <2>1, <2>2, ChainFailed
<1>10. CASE AdoptFails
  <2> DEFINE t == TRUE
  <2>1. UNCHANGED man /\ Prepared(t) /\ t \in BOOLEAN
    BY <1>10 DEF AdoptFails, dbVars
  <2> HIDE DEF t
  <2> QED BY <1>p, <1>q, <2>1
<1> QED BY <1>3, <1>4, <1>5, <1>6, <1>7, <1>8, <1>9, <1>10

\* So does publishing a candidate: the row that was active becomes the heir.
LEMMA ChainActivate ==
  ASSUME Typed, DistinctPubs(man), Remnants(man), RowInv', NEW o \in Ops, NEW e \in Bounded,
         Activate(o, e), man[o].st # "active",
         man[o].st # "none" => \A p \in Ops \ {o} : man[p].st # "none" => man[p].pub < man[o].pub,
         ActiveParent = 0,
         ActiveParent' # 0 => ActiveParent' = ActiveEpoch /\ e # ActiveEpoch,
         run'.pc = "plan"
  PROVE  ChainInv'
<1>0. man \in [Ops -> Rows] /\ ActiveEpoch \in Nat
  BY EpochRange, GenAssumption DEF Typed, Bounded
<1>1. /\ IsTop(man', o) /\ man'[o].st = "active" /\ man'[o].data = e
      /\ \A p \in Ops \ {o} : man'[p] = man[p] /\ (man[p].st # "none" => man[p].pub < man'[o].pub)
      /\ man' \in [Ops -> Rows] /\ DistinctPubs(man')
  <2> HIDE DEF IsTop
  <2> QED BY ActivateNewest
<1>2. TopParent(man') = ActiveParent' /\ TopParent(man') = man'[o].parent
  BY <1>1, TopIs, ActiveIsTop
<1>3. Remnants(man')
  BY <1>1, ChainNewest
<1>4. CASE TopParent(man') = 0
  BY <1>3, <1>4 DEF ChainInv, Links, HeirInv
<1>5. CASE TopParent(man') # 0
  <2>1. TopParent(man') = ActiveEpoch /\ ActiveEpoch # 0
    BY <1>2, <1>5
  <2>2. ActOps(man) # {}
    BY <2>1, ActiveIsTop DEF TopEpoch
  <2> DEFINE t == Top(man)
  <2>3. IsTop(man, t)
    BY <1>0, <2>2, TopExists
  <2> HIDE DEF t
  <2>4. /\ t \in Ops /\ TopEpoch(man) = man[t].data /\ TopParent(man) = man[t].parent
        /\ TopPub(man) = man[t].pub /\ man[t].st = "active"
    BY <1>0, <2>3, TopIs DEF IsTop, ActOps
  <2>5. ActiveEpoch = man[t].data /\ man[t].parent = 0
    BY <2>4, ActiveIsTop
  <2>6. t # o /\ man'[t] = man[t]
    BY <1>1, <2>4
  <2>7. Heir(man', t)
    <3>1. man'[t].st = "active" /\ man'[t].data = TopParent(man') /\ man'[t].parent = 0
      BY <2>1, <2>4, <2>5, <2>6
    <3>2. ASSUME NEW p \in Ops, man'[p].st = "active", man'[p].pub > man'[t].pub PROVE IsTop(man', p)
      <4>1. CASE p = o
        BY <1>1, <4>1
      <4>2. CASE p # o
        <5>1. man[p].st = "active" /\ man[p].pub > man[t].pub /\ man[p] \in Rows /\ man[t] \in Rows
          BY <1>0, <1>1, <2>4, <2>6, <3>2, <4>2
        <5>2. man[p].pub <= man[t].pub
          BY <2>3, <5>1 DEF IsTop, ActOps
        <5> QED BY <5>1, <5>2 DEF Rows
      <4> QED BY <4>1, <4>2
    <3>3. ASSUME NEW p \in Ops, man'[p].st \in {"building", "failed"}, man'[p].data = TopParent(man'),
                 man'[p].parent # 0
          PROVE  man'[p].pub < man'[t].pub
      <4>1. p # o /\ man'[p] = man[p]
        BY <1>1, <3>3
      <4>2. man[p].data <= TopEpoch(man)
        BY <1>0, <2>1, <2>4, <2>5, <3>3, <4>1
      <4> QED BY <2>4, <2>6, <3>3, <4>1, <4>2 DEF Remnants
    <3> HIDE DEF IsTop
    <3> QED BY <3>1, <3>2, <3>3 DEF Heir
  <2>8. man'[o].parent # 0 => man'[o].parent = man'[o].data - 1
    <3> HIDE DEF IsTop
    <3> QED BY <1>1 DEF RowInv
  <2>9. Links(man')
    BY <1>1, <2>4, <2>7, <2>8, HeirLinks
  <2>10. HeirInv'
    <3> HIDE DEF Heir
    <3> QED BY <2>4, <2>7 DEF HeirInv, GcPcs
  <2> QED BY <1>3, <2>9, <2>10 DEF ChainInv
<1> QED BY <1>4, <1>5

\* So does processing, commit and abort.
LEMMA ChainProcess ==
  ASSUME TypeInv, OrderInv, LaneInv, ChainInv, LaneInv',
         Process \/ Mark \/ SkipModule \/ ProcessFails \/ Commit \/ CommitFails \/ Abort
  PROVE  ChainInv'
<1>0. /\ Typed /\ Launched /\ DistinctPubs(man) /\ RoomInv /\ PointInv
      /\ RowInv /\ NewestInv /\ BaseInv /\ RowInv' /\ Remnants(man)
      /\ run \in Runs /\ man \in [Ops -> Rows] /\ mem \in Mems /\ mem.hot \in Bounded
      /\ "mark" \in Pcs /\ "plan" \in Pcs /\ "abort" \in Pcs
  BY PcNames DEF TypeInv, OrderInv, LaneInv, OrderlyInv, ChainInv, Typed, HotPcs, Mems
<1>r. run.failed \in BOOLEAN
  BY <1>0 DEF Runs
<1>k. /\ HotOps \subseteq Ops /\ ConfigOps \subseteq Ops /\ FullOps \subseteq Ops /\ None \notin Ops
  BY KindsApart
<1>1. run.pc \in {"process", "mark", "commit", "abort"}
  BY DEF Process, Mark, SkipModule, ProcessFails, Commit, CommitFails, Abort, At
<1>2. /\ run.op \in Ops /\ run.op # None /\ run.k \in 1..2
      /\ run.op \in HotOps \cup ConfigOps /\ Current(run.op)
  BY <1>0, <1>1, <1>k DEF Launched, PointInv, Current, HotPcs
<1>3. CASE Process \/ Mark \/ SkipModule \/ ProcessFails
  <2>1. UNCHANGED man /\ run.pc \in {"process", "mark"}
    BY <1>3 DEF Process, Mark, SkipModule, ProcessFails, At, dbVars
  <2>2. run'.op = run.op /\ run'.pc \in {"mark", "process", "abort", "commit"}
    <3>1. CASE Process
      BY <1>0, <3>1, PcRun DEF Process
    <3>2. CASE NextModule(run.failed)
      BY <1>0, <1>r, <3>2, NextModuleRun
    <3> DEFINE t == TRUE
    <3>3. CASE ProcessFails
      <4>1. t \in BOOLEAN /\ NextModule(t)
        BY <3>3 DEF ProcessFails
      <4> HIDE DEF t
      <4> QED BY <1>0, <4>1, NextModuleRun
    <3> QED BY <1>3, <3>1, <3>2, <3>3 DEF Mark, SkipModule
  <2>3. man[run.op].st # "active"
    BY <1>0, <2>1 DEF RoomInv, HotPcs
  <2> QED BY <2>1, <2>2, <2>3, ChainSame DEF GcPcs
<1>4. CASE Commit
  <2>1. run.pc = "commit" /\ Activate(run.op, mem.hot) /\ run' = [run EXCEPT !.pc = "plan"]
    BY <1>4 DEF Commit, At
  <2>2. run'.op = run.op /\ run'.pc = "plan"
    BY <1>0, <2>1, PcRun
  <2>3. Adoptable(run.op) \/ IsTop(man, run.op)
    BY <1>0, <2>1 DEF PointInv
  <2>4. CASE man[run.op].st = "active"
    <3>1. Activated(run.op, mem.hot) = man[run.op]
      BY <1>0, <1>2, <2>4, ActivatedRow
    <3>2. UNCHANGED man
      BY <1>0, <2>1, <2>4, <3>1 DEF Activate
    <3> QED BY <2>1, <2>2, <2>4, <3>2, ChainSame DEF GcPcs
  <2>5. CASE man[run.op].st # "active"
    <3> DEFINE o == run.op
               e == mem.hot
    <3>1. Adoptable(o) /\ man[o].st = "building" /\ man[o].parent = ActiveEpoch /\ man[o].data = ActiveEpoch + 1
      BY <2>3, <2>5 DEF Adoptable, IsTop, ActOps
    <3>2. ActiveParent = 0
      BY <1>0, <1>2, <3>1 DEF BaseInv
    <3>3. \A p \in Ops \ {o} : man[p].st # "none" => man[p].pub < man[o].pub
      BY <1>0, <1>2, <3>1 DEF NewestInv
    <3>4. ActiveParent' = man'[o].parent /\ man'[o].parent = man[o].parent
      <4> HIDE DEF Adoptable, IsTop
      <4> QED BY <1>0, <1>2, <2>1, <2>5, <3>1, <3>2, <3>3, ActivateNewest
    <3>5. e = ActiveEpoch + 1
      BY <2>1, <3>1 DEF Activate, CanBegin
    <3>6. ActiveEpoch \in Nat
      BY <1>0, EpochRange, GenAssumption DEF Bounded
    <3>7. ActiveParent' = ActiveEpoch /\ e # ActiveEpoch
      BY <3>1, <3>4, <3>5, <3>6
    <3>8. o \in Ops /\ e \in Bounded /\ Activate(o, e) /\ man[o].st # "active"
      BY <1>0, <1>2, <2>1, <2>5
    <3> HIDE DEF o, e, Adoptable
    <3> QED BY <1>0, <2>2, <3>2, <3>3, <3>7, <3>8, ChainActivate
  <2> QED BY <2>4, <2>5
<1>5. CASE CommitFails
  <2> DEFINE t == TRUE
  <2>1. /\ run.pc = "commit" /\ UNCHANGED man /\ t \in BOOLEAN
        /\ NextCommit(t) \/ run' = [run EXCEPT !.failed = t, !.pc = "abort"]
        /\ (IF t THEN "abort" ELSE "republish") = "abort"
    BY <1>5 DEF CommitFails, At, dbVars
  <2> HIDE DEF t
  <2>2. run'.op = run.op /\ run'.pc \in {"commit", "abort"}
    <3>1. CASE NextCommit(t)
      <4>1. run.k < 2 => run'.pc = "commit"
        BY <1>0, <2>1, <3>1, NextCommitRun
      <4>2. run'.op = run.op
        BY <1>0, <2>1, <3>1, NextCommitRun
      <4>3. ~(run.k < 2) => run'.pc = "abort"
        BY <1>0, <2>1, <3>1, NextCommitRun
      <4> QED BY <4>1, <4>2, <4>3
    <3>2. CASE run' = [run EXCEPT !.failed = t, !.pc = "abort"]
      BY <1>0, <3>2 DEF Runs
    <3> QED BY <2>1, <3>1, <3>2
  <2> QED BY <2>1, <2>2, ChainSame DEF GcPcs
<1>6. CASE Abort
  <2>1. run.pc = "abort" /\ MarkFailed(run.op)
    BY <1>6 DEF Abort, At
  <2>2. run'.pc \in {"abort", "idle"}
    <3>1. CASE run.k < 2
      <4>1. run' = [run EXCEPT !.k = 2]
        BY <1>6, <3>1 DEF Abort
      <4> QED BY <1>0, <2>1, <4>1 DEF Runs
    <3>2. CASE ~(run.k < 2)
      BY <1>6, <3>2, LaunchRun DEF Abort
    <3> QED BY <3>1, <3>2
  <2> QED BY <1>2, <2>1, <2>2, ChainFailed DEF GcPcs
<1> QED BY <1>3, <1>4, <1>5, <1>6

\* So does the collection of retired generations, which spares the heir.
LEMMA ChainCollect ==
  ASSUME KeepActive >= 2, TypeInv, OrderInv, LaneInv, ChainInv, TypeInv', LaneInv',
         PlanGc \/ CollectDocs \/ CollectRows \/ GcFails
  PROVE  ChainInv'
<1>0. /\ Typed /\ Launched /\ DistinctPubs(man) /\ PlanInv /\ PointInv
      /\ RowInv /\ RowInv' /\ Remnants(man) /\ Links(man) /\ HeirInv
      /\ run \in Runs /\ man \in [Ops -> Rows] /\ NoPlan \in Plans
      /\ man' \in [Ops -> Rows] /\ DistinctPubs(man')
      /\ "collectDocs" \in Pcs /\ "collectRows" \in Pcs /\ "finish" \in Pcs
  BY PcNames DEF TypeInv, OrderInv, LaneInv, OrderlyInv, ChainInv, Typed, GcPcs, NoPlan,
     Plans
<1>r. run.failed \in BOOLEAN
  BY <1>0 DEF Runs
<1>1. run.pc \in GcPcs
  BY DEF PlanGc, CollectDocs, CollectRows, GcFails, At, GcPcs
<1>2. run.op \in Ops /\ run.k \in 1..2 /\ IsTop(man, run.op)
  BY <1>0, <1>1 DEF PointInv, GcPcs, Launched
<1> HIDE DEF NoPlan, Plans
<1>c. ASSUME NextCommit(run.failed) PROVE run'.pc \in {"commit", "abort", "republish"} /\ run'.op = run.op
  <2>1. run'.op = run.op
    BY <1>0, <1>c, <1>r, NextCommitRun
  <2>2. run'.pc \in {"commit", "abort", "republish"}
    BY <1>0, <1>c, <1>r, NextCommitRun
  <2> QED BY <2>1, <2>2
<1>3. CASE PlanGc
  <2>1. UNCHANGED man
    BY <1>3 DEF PlanGc, dbVars
  <2>2. PICK old \in SUBSET Ops : run' = [run EXCEPT !.plan = GcPlan(old), !.pc = "collectDocs"]
    BY <1>3 DEF PlanGc
  <2> DEFINE P == GcPlan(old)
  <2>3. run' = [run EXCEPT !.plan = P, !.pc = "collectDocs"]
    BY <2>2
  <2> HIDE DEF P
  <2>4. run'.plan = P /\ run'.pc = "collectDocs"
    BY <1>0, <2>3 DEF Runs
  <2>5. ASSUME TopParent(man) # 0 PROVE \E a \in Ops : Heir(man, a) /\ man[a].pub \notin P.pubs
    <3> HIDE DEF Heir
    <3>1. PICK a \in Ops : Heir(man, a)
      BY <1>0, <1>1, <2>5 DEF HeirInv
    <3>2. man[a].pub \notin GcPlan(old).pubs
      BY <1>0, <3>1, HeirKept
    <3> QED BY <3>1, <3>2 DEF P
  <2> HIDE DEF Heir
  <2>6. HeirInv'
    BY <2>1, <2>4, <2>5 DEF HeirInv
  <2> QED BY <1>0, <2>1, <2>6 DEF ChainInv
<1>4. CASE CollectDocs
  <2>1. /\ UNCHANGED man /\ run.pc = "collectDocs" /\ run'.pc = "collectRows" /\ run'.plan = run.plan
    BY <1>0, <1>4, PcRun DEF CollectDocs, At
  <2> QED BY <2>1, ChainSame DEF GcPcs
<1>5. CASE GcFails
  <2>1. UNCHANGED man
    BY <1>5 DEF GcFails, dbVars
  <2>2. run'.pc \in {"commit", "abort", "republish", "idle"}
    BY <1>5, <1>c, LaunchRun DEF GcFails
  <2> QED BY <1>1, <2>1, <2>2, ChainSame DEF GcPcs
<1>6. CASE CollectRows
  <2>1. /\ run.pc = "collectRows"
        /\ man' = [o \in Ops |-> IF man[o].pub \in run.plan.pubs THEN NoRow ELSE man[o]]
    BY <1>6 DEF CollectRows, At
  <2>2. run'.pc \in {"commit", "abort", "republish", "finish"}
    <3>1. CASE run' = [run EXCEPT !.pc = "finish", !.plan = NoPlan]
      BY <1>0, <3>1 DEF Runs
    <3> QED BY <1>6, <1>c, <3>1 DEF CollectRows
  <2>3. ActivePub \notin run.plan.pubs
    BY <1>0, <1>2, <2>1, ActiveIsTop DEF PlanInv, IsTop
  <2>4. /\ IsTop(man', run.op) /\ man'[run.op] = man[run.op]
        /\ ActiveEpoch' = ActiveEpoch /\ ActiveParent' = ActiveParent /\ ActivePub' = ActivePub
        /\ \A q \in Ops : man'[q].st # "none" => man'[q] = man[q]
        /\ \A q \in Ops : IsTop(man, q) => q = run.op
        /\ \A q \in Ops : man[q].pub \notin run.plan.pubs => man'[q] = man[q]
    BY <1>0, <1>2, <2>1, <2>3, CollectKeeps
  <2>5. TopEpoch(man') = TopEpoch(man) /\ TopParent(man') = TopParent(man) /\ TopPub(man') = TopPub(man)
    BY <2>4, ActiveIsTop
  <2>6. Remnants(man')
    <3> HIDE DEF IsTop
    <3> QED BY <1>0, <2>4, <2>5 DEF Remnants
  <2>7. CASE TopParent(man') = 0
    BY <2>6, <2>7 DEF ChainInv, Links, HeirInv
  <2>8. CASE TopParent(man') # 0
    <3>1. PICK a \in Ops : Heir(man, a) /\ man[a].pub \notin run.plan.pubs
      <4> HIDE DEF Heir
      <4> QED BY <1>0, <2>1, <2>5, <2>8 DEF HeirInv
    <3>2. man'[a] = man[a]
      BY <2>4, <3>1
    <3>3. Heir(man', a)
      <4>1. man'[a].st = "active" /\ man'[a].data = TopParent(man') /\ man'[a].parent = 0
        BY <2>5, <3>1, <3>2 DEF Heir
      <4>2. ASSUME NEW p \in Ops, man'[p].st = "active", man'[p].pub > man'[a].pub PROVE IsTop(man', p)
        <5>1. man'[p] = man[p]
          BY <2>4, <4>2
        <5>2. IsTop(man, p)
          BY <3>1, <3>2, <4>2, <5>1 DEF Heir
        <5> HIDE DEF IsTop
        <5> QED BY <2>4, <5>2
      <4>3. ASSUME NEW p \in Ops, man'[p].st \in {"building", "failed"}, man'[p].data = TopParent(man'),
                   man'[p].parent # 0
            PROVE  man'[p].pub < man'[a].pub
        <5>1. man'[p] = man[p]
          BY <2>4, <4>3
        <5> QED BY <2>5, <3>1, <3>2, <4>3, <5>1 DEF Heir
      <4> HIDE DEF IsTop
      <4> QED BY <4>1, <4>2, <4>3 DEF Heir
    <3>4. man'[run.op].parent # 0 => man'[run.op].parent = man'[run.op].data - 1
      <4>1. man[run.op].st # "none"
        BY <1>2 DEF IsTop, ActOps
      <4> HIDE DEF IsTop
      <4> QED BY <1>0, <1>2, <2>4, <4>1 DEF RowInv
    <3>5. Links(man')
      <4> HIDE DEF IsTop, Heir
      <4> QED BY <1>0, <2>4, <3>3, <3>4, HeirLinks
    <3>6. HeirInv'
      <4> HIDE DEF Heir
      <4> QED BY <2>2, <3>3 DEF HeirInv, GcPcs
    <3> QED BY <2>6, <3>5, <3>6 DEF ChainInv
  <2> QED BY <2>7, <2>8
<1> QED BY <1>3, <1>4, <1>5, <1>6

\* So does every step of a full index.
LEMMA ChainFull ==
  ASSUME TypeInv, OrderInv, LaneInv, ChainInv, LaneInv',
         \/ FullNotReady \/ FullScan \/ FullManifest \/ FullActivate \/ FullFails
         \/ \E f \in Files : FullBatch(f)
  PROVE  ChainInv'
<1>0. /\ Typed /\ Launched /\ DistinctPubs(man) /\ EpochInv /\ PointInv /\ OrderlyInv
      /\ LoneInv /\ RowInv /\ NewestInv /\ BaseInv /\ RowInv' /\ Remnants(man) /\ Links(man)
      /\ run \in Runs /\ man \in [Ops -> Rows] /\ meta \in Metas /\ mem \in Mems /\ mem.full \in Bounded
      /\ {"scan", "manifest", "batch", "plan"} \subseteq Pcs
  BY PcNames DEF TypeInv, OrderInv, LaneInv, OrderlyInv, ChainInv, Typed, FullPcs, Mems
<1>k. /\ HotOps \subseteq Ops /\ ConfigOps \subseteq Ops /\ FullOps \subseteq Ops /\ None \notin Ops
      /\ HotOps \cap FullOps = {} /\ ConfigOps \cap FullOps = {}
  BY KindsApart
<1>1. run.pc \in FullPcs /\ UNCHANGED mem
  BY DEF FullNotReady, FullScan, FullManifest, FullActivate, FullFails, FullBatch, At,
     FullPcs
<1>2. /\ run.op \in Ops /\ run.op \in FullOps /\ run.op \notin HotOps \cup ConfigOps
      /\ mem.full = meta.epoch /\ Current(run.op)
  BY <1>0, <1>1, <1>k DEF EpochInv, PointInv, Current
<1>3. mem.full = ActiveEpoch => ActiveParent = 0
  BY <1>0, <1>2 DEF BaseInv
<1>q. ASSUME UNCHANGED man, run'.pc \notin GcPcs \cup {"commit"} PROVE ChainInv'
  BY <1>q, ChainSame DEF GcPcs
<1>4. CASE FullNotReady \/ FullScan
  <2>1. PICK p \in {"scan", "manifest"} : run' = [run EXCEPT !.pc = p]
    BY <1>4 DEF FullNotReady, FullScan
  <2>2. UNCHANGED man
    BY <1>4 DEF FullNotReady, FullScan, dbVars
  <2>3. run'.pc = p
    BY <1>0, <2>1, PcRun
  <2> QED BY <1>q, <2>1, <2>2, <2>3 DEF GcPcs
<1>5. CASE \E f \in Files : FullBatch(f)
  <2>1. UNCHANGED <<man, run>>
    BY <1>5 DEF FullBatch
  <2> QED BY <1>1, <1>q, <2>1 DEF FullPcs, GcPcs
<1>6. CASE FullManifest
  <2>1. UNCHANGED <<meta, ck, lapped>>
    BY <1>6 DEF FullManifest, ckVars
  <2>2. CASE CanBegin(run.op, mem.full)
    <3> DEFINE b == Begun(run.op, mem.full)
    <3>1. man' = [man EXCEPT ![run.op] = b] /\ run' = [run EXCEPT !.pc = "batch"]
      BY <1>6, <2>2 DEF FullManifest
    <3>2. run'.op = run.op /\ run'.pc = "batch"
      BY <1>0, <3>1, PcRun
    <3>3. NoNewcomer
      BY <2>1, <3>2 DEF NoNewcomer, Current
    <3>4. CASE man[run.op].st = "active"
      <4>1. b = man[run.op]
        BY <3>4 DEF Begun
      <4>2. UNCHANGED man
        BY <1>0, <3>1, <4>1
      <4> QED BY <1>q, <3>2, <4>2 DEF GcPcs
    <3>5. CASE man[run.op].st # "active"
      <4>1. /\ b \in Rows /\ b.st = "building" /\ b.parent = 0
            /\ \/ man[run.op].st # "none" /\ b.pub = man[run.op].pub
               \/ \A p \in Ops : man[p].pub < b.pub
        BY <1>0, <1>2, <3>5, BegunRow DEF RowInv
      <4> HIDE DEF b, Current, NoNewcomer
      <4>2. ActiveEpoch' = ActiveEpoch /\ ActiveParent' = ActiveParent /\ ActivePub' = ActivePub
        BY <1>0, <1>2, <2>1, <3>1, <3>3, <3>5, <4>1, LaneBuilding
      <4>3. run'.pc \notin GcPcs \cup {"commit"}
        BY <3>2 DEF GcPcs
      <4> QED BY <1>2, <3>1, <3>5, <4>1, <4>2, <4>3, ChainBuilding
    <3> QED BY <3>4, <3>5
  <2>3. CASE ~CanBegin(run.op, mem.full)
    <3>1. UNCHANGED man /\ run' = Idle
      BY <1>6, <2>3 DEF FullManifest
    <3> QED BY <1>q, <3>1, LaunchRun DEF GcPcs
  <2> QED BY <2>2, <2>3
<1>7. CASE FullActivate
  <2>1. Activate(run.op, mem.full) /\ run' = [run EXCEPT !.pc = "plan"]
    BY <1>7 DEF FullActivate
  <2>2. run'.op = run.op /\ run'.pc = "plan"
    BY <1>0, <2>1, PcRun
  <2>3. CASE man[run.op].st = "active"
    <3>1. Activated(run.op, mem.full) = man[run.op]
      BY <1>0, <1>2, <2>3, ActivatedRow
    <3>2. UNCHANGED man
      BY <1>0, <2>1, <2>3, <3>1 DEF Activate
    <3>3. IsTop(man, run.op)
      BY <1>0, <1>2, <2>3 DEF BaseInv
    <3>4. ActiveEpoch = man[run.op].data
      BY <1>0, <3>3, TopIs, ActiveIsTop
    <3>5. ActiveParent = 0
      BY <1>3, <2>1, <2>3, <3>4 DEF Activate, CanBegin
    <3>6. TopParent(man') = 0
      BY <3>2, <3>5, ActiveIsTop
    <3> QED BY <1>0, <3>2, <3>6 DEF ChainInv, Links, HeirInv
  <2>4. CASE man[run.op].st # "active"
    <3> DEFINE o == run.op
               e == mem.full
    <3>1. man[o].st # "none" => man[o].parent = 0 /\ man[o].st \in {"building", "failed"}
      BY <1>0, <1>2, <2>4 DEF RowInv, Rows
    <3>2. man[o].st # "none" => \A p \in Ops \ {o} : man[p].st # "none" => man[p].pub < man[o].pub
      BY <1>0, <1>2, <3>1 DEF NewestInv
    <3>3. /\ IsTop(man', o) /\ man' \in [Ops -> Rows] /\ DistinctPubs(man')
          /\ \A p \in Ops \ {o} : man'[p] = man[p] /\ (man[p].st # "none" => man[p].pub < man'[o].pub)
          /\ ActiveParent' = man'[o].parent /\ man'[o].parent = 0
      <4> HIDE DEF IsTop
      <4> QED BY <1>0, <1>2, <1>3, <2>1, <2>4, <3>1, <3>2, ActivateNewest
    <3> HIDE DEF o, e, IsTop
    <3>4. Remnants(man')
      BY <3>3, ChainNewest
    <3>5. TopParent(man') = 0
      BY <3>3, ActiveIsTop
    <3> QED BY <3>4, <3>5 DEF ChainInv, Links, HeirInv
  <2> QED BY <2>3, <2>4
<1>8. CASE FullFails
  <2>1. MarkFailed(run.op) /\ run' = Idle
    BY <1>8 DEF FullFails
  <2> QED BY <1>2, <2>1, ChainFailed, LaunchRun DEF GcPcs
<1> QED BY <1>4, <1>5, <1>6, <1>7, <1>8

\* So does the republication of a compacted relation epoch.
LEMMA ChainRepublish ==
  ASSUME TypeInv, OrderInv, LaneInv, ChainInv, TypeInv', NEW o \in RelOps, Republish(o)
  PROVE  ChainInv'
<1>0. /\ man \in [Ops -> Rows] /\ DistinctPubs(man) /\ man' \in [Ops -> Rows] /\ DistinctPubs(man')
      /\ Links(man) /\ o \in Ops
  BY KindsApart DEF TypeInv, ChainInv, Typed
<1>1. /\ LaneInv' /\ IsTop(man', o) /\ man'[o].data = ActiveEpoch
      /\ \A p \in Ops \ {o} : man'[p] = man[p] /\ (man[p].st # "none" => man[p].pub < man'[o].pub)
      /\ ActiveEpoch' = ActiveEpoch /\ ActiveParent' = ActiveParent
      /\ man'[o].st = "active" /\ run'.pc = "finish" /\ man[o].st = "none"
  BY LaneRepublish DEF Republish, Fresh
<1>2. RowInv'
  BY <1>1 DEF LaneInv, OrderlyInv
<1> HIDE DEF IsTop
<1>3. Remnants(man')
  BY <1>0, <1>1, ChainNewest
<1>4. TopParent(man') = TopParent(man) /\ TopParent(man') = man'[o].parent
  BY <1>0, <1>1, TopIs, ActiveIsTop
<1>5. Links(man')
  <2> SUFFICES ASSUME TopParent(man) # 0, NEW p \in Ops, man'[p].st # "none",
                      man'[p].data = TopParent(man), man'[p].parent # 0
               PROVE  \E a \in Ops : /\ man'[a].st = "active" /\ man'[a].data = TopParent(man)
                                     /\ man'[a].parent = 0 /\ man'[p].pub < man'[a].pub
    BY <1>4 DEF Links
  <2>1. man'[o].parent = man'[o].data - 1
    BY <1>0, <1>1, <1>2, <1>4 DEF RowInv
  <2>2. man'[o].data \in Nat
    BY <1>0, GenAssumption DEF Rows, Bounded
  <2>3. p # o
    BY <1>4, <2>1, <2>2
  <2>4. man'[p] = man[p]
    BY <1>1, <2>3
  <2>5. PICK a \in Ops : /\ man[a].st = "active" /\ man[a].data = TopParent(man)
                         /\ man[a].parent = 0 /\ man[p].pub < man[a].pub
    BY <1>0, <2>4 DEF Links
  <2>6. man'[a] = man[a]
    BY <1>1, <2>5
  <2> QED BY <2>4, <2>5, <2>6
<1>6. HeirInv'
  BY <1>1 DEF HeirInv, GcPcs
<1> QED BY <1>3, <1>5, <1>6 DEF ChainInv

\* Every step keeps the fifth layer.
LEMMA ChainStep ==
  ASSUME KeepActive >= 2, "stale" \notin harm',
         TypeInv, OrderInv, LaneInv, ChainInv, [GenNext]_genVars
  PROVE  ChainInv'
<1>t. TypeInv' /\ LaneInv'
  BY TypeStep, LaneStep
<1>0. Typed /\ run \in Runs /\ {"prepare", "ready"} \subseteq Pcs
      /\ HotOps \subseteq Ops /\ ConfigOps \subseteq Ops /\ FullOps \subseteq Ops
  BY PcNames, KindsApart DEF TypeInv, Typed, FullPcs
<1>q. ASSUME UNCHANGED man, run' = run \/ run'.pc \notin GcPcs \cup {"commit"} PROVE ChainInv'
  BY <1>q, ChainSame DEF GcPcs
<1>1. CASE \/ \E o \in HotOps : StartHot(o) \/ ResumeHot(o)
           \/ \E o \in ConfigOps : StartConfig(o)
           \/ \E o \in FullOps : StartFull(o)
  <2>1. UNCHANGED man
    BY <1>1 DEF StartHot, ResumeHot, StartConfig, StartFull, dbVars
  <2>2. \/ run' = run
        \/ \E o \in Ops, pc \in {"prepare", "ready"}, b \in BOOLEAN : Launch(o, pc, b)
    <3> HIDE DEF Launch
    <3> QED BY <1>0, <1>1 DEF StartHot, ResumeHot, Resume, StartConfig, StartFull
  <2>3. run' = run \/ run'.pc \in {"prepare", "ready"}
    <3> HIDE DEF Launch
    <3> QED BY <1>0, <2>2, LaunchRun
  <2> QED BY <1>q, <2>1, <2>3 DEF GcPcs
<1>2. CASE \/ PrepareAgain \/ Adopt \/ Resolve \/ CompactRows \/ CompactDocs \/ Unlink
           \/ CleanDocs \/ Register \/ AdoptFails \/ PrepareFails \/ PrepareRefused
  BY <1>2, <1>t, ChainPrepare
<1>3. CASE Process \/ Mark \/ SkipModule \/ ProcessFails \/ Commit \/ CommitFails \/ Abort
  BY <1>3, <1>t, ChainProcess
<1>4. CASE PlanGc \/ CollectDocs \/ CollectRows \/ GcFails
  BY <1>4, <1>t, ChainCollect
<1>5. CASE \/ FullNotReady \/ FullScan \/ FullManifest \/ FullActivate \/ FullFails
           \/ \E f \in Files : FullBatch(f)
  BY <1>5, <1>t, ChainFull
<1>6. CASE \E o \in RelOps : Republish(o)
  BY <1>6, <1>t, ChainRepublish
<1>7. CASE Finish \/ Crash
  <2>1. UNCHANGED man /\ run' = Idle
    BY <1>7 DEF Finish, Crash, dbVars
  <2> QED BY <1>q, <2>1, LaunchRun DEF GcPcs
<1>8. CASE UNCHANGED genVars
  BY <1>8, <1>q DEF genVars
<1> QED BY <1>1, <1>2, <1>3, <1>4, <1>5, <1>6, <1>7, <1>8
     DEF GenNext, RunStep, HotStep, GcStep, FullStep, Fault

\* It holds at first.
LEMMA ChainInit ==
  GenInit => ChainInv
<1> SUFFICES ASSUME GenInit PROVE ChainInv
  OBVIOUS
<1>1. \A o \in Ops : man[o].st = "none"
  BY DEF GenInit, NoRow
<1>2. TopParent(man) = 0
  BY <1>1 DEF TopParent, ActOps
<1> QED BY <1>1, <1>2 DEF ChainInv, Remnants, Links, HeirInv

\* The fifth layer holds as long as the fourth does, when at least two active
\* generations are retained (gc.rs retains two).
THEOREM ChainInvariance ==
  ASSUME KeepActive >= 2 PROVE GenSpec => []("stale" \notin harm => ChainInv)
<1>1. GenInit => ("stale" \notin harm => ChainInv)
  BY ChainInit
<1>2. TypeInv /\ OrderInv /\ ("stale" \notin harm => LaneInv) /\ ("stale" \notin harm => ChainInv)
        /\ [GenNext]_genVars => ("stale" \notin harm => ChainInv)'
  BY ChainStep, HistoryStep DEF HistoryGrows
<1> QED BY <1>1, <1>2, GenInvariance, OrderInvariance, LaneInvariance, PTL DEF GenSpec

\* parent_data_epoch_of, resolved once by a query and twice by the hash cache: the
\* generation that the published one inherits from inherits from none itself, for any
\* changes, crashes, failures, republications and operations started over unfinished
\* ones, until an overtaken operation is taken up again. The hypothesis is needed: with
\* one retained generation the collection deletes the row that says so and leaves the
\* abandoned candidate of the same epoch, whose link is then followed.
THEOREM ChainAlwaysShallow ==
  ASSUME KeepActive >= 2 PROVE GenSpec => []ChainShallow
<1>1. TypeInv /\ ("stale" \notin harm => ChainInv) => ChainShallow
  <2> SUFFICES ASSUME TypeInv, ChainInv, ActiveParent > 0 PROVE ParentOf(ActiveParent) = 0
    BY DEF ChainShallow
  <2> DEFINE e == ActiveParent
             R == {o \in Ops : man[o].st # "none" /\ man[o].data = e}
             N == CHOOSE o \in R : \A p \in R : man[p].pub <= man[o].pub
  <2>0. man \in [Ops -> Rows] /\ Links(man) /\ e \in Nat /\ e # 0 /\ e = TopParent(man)
    BY EpochRange, GenAssumption, ActiveIsTop DEF TypeInv, Typed, ChainInv, Bounded
  <2>1. ParentOf(e) = IF R = {} THEN 0 ELSE man[N].parent
    BY DEF ParentOf
  <2>2. R # {} => N \in R /\ \A p \in R : man[p].pub <= man[N].pub
    BY <2>0, NewestExists
  <2>3. \A o : o \in R <=> o \in Ops /\ man[o].st # "none" /\ man[o].data = e
    OBVIOUS
  <2> HIDE DEF R, N, e
  <2>4. ASSUME R # {}, man[N].parent # 0 PROVE FALSE
    <3>1. N \in Ops /\ man[N].st # "none" /\ man[N].data = e
      BY <2>2, <2>3, <2>4
    <3>2. PICK a \in Ops : man[a].st = "active" /\ man[a].data = e /\ man[N].pub < man[a].pub
      BY <2>0, <2>4, <3>1 DEF Links
    <3>3. man[a].pub <= man[N].pub
      BY <2>2, <2>3, <2>4, <3>2
    <3>4. man[a].pub \in Nat /\ man[N].pub \in Nat
      BY <2>0, <3>1, <3>2 DEF Rows
    <3> QED BY <3>2, <3>3, <3>4
  <2> QED BY <2>1, <2>4 DEF e
<1> QED BY <1>1, GenInvariance, ChainInvariance, PTL

---------------------------------------------------------------------------
\* An operation that has no checkpoint yet has announced nothing and is not overtaken;
\* one that runs is not overtaken and has a checkpoint, a configuration change announces
\* no file and a full index every file; only one full index is unfinished, and while it
\* runs no hot update is.
AnnounceInv ==
  /\ \A o \in HotOps \cup ConfigOps \cup FullOps :
       ck[o] = "none" => work[o] = None /\ marks[o] = {} /\ man[o].st = "none" /\ o \notin lapped
  /\ None \notin lapped /\ run.op \notin lapped
  /\ run.op \in HotOps \cup ConfigOps => ck[run.op] = "in_progress"
  /\ run.op \in ConfigOps => work[run.op] = [put |-> {}, del |-> {}]
  /\ \A o \in FullOps : ck[o] = "in_progress" =>
       /\ work[o] \in Changes /\ work[o].put \cup work[o].del = Files
       /\ work[o].put \cap work[o].del = {}
  /\ run.pc \in {"ready", "scan"} => ck[run.op] \in {"none", "in_progress"}
  /\ run.pc \in {"manifest", "batch"} => ck[run.op] = "in_progress"
  /\ run.op \in FullOps => \A p \in HotOps \cup FullOps : ck[p] = "in_progress" => p = run.op
  /\ \A o, p \in FullOps : ck[o] = "in_progress" /\ ck[p] = "in_progress" => o = p
\* What the commit relies on: the candidate epoch is clean when it is registered, both
\* modules are marked, the coordinator holds the candidate epoch, and only the second
\* processor finds the row active.
StageInv ==
  /\ run.pc \in {"process", "mark"} /\ run.k = 2 /\ ~run.failed => "docs" \in marks[run.op]
  /\ run.pc = "commit" /\ man[run.op].st # "active" => Stores \subseteq marks[run.op]
  /\ run.pc = "commit" /\ man[run.op].st = "active" => run.k = 2
  /\ run.pc = "commit" /\ man[run.op].st # "active" => mem.hot = ActiveEpoch + 1
  /\ run.pc = "register" => \A f \in Files : data["docs"][ActiveEpoch + 1][f] = None
  /\ run.pc = "finish" => man[run.op].st = "active"
\* A full index fills an epoch above the published one until it is published: its
\* batches are there, in both stores, and its row names that epoch.
FillInv ==
  /\ \A o \in Ops : man[o].st # "none" => man[o].data # 0
  /\ \A o \in FullOps :
       /\ marks[o] \subseteq Files
       /\ Current(o) /\ man[o].st # "active" =>
            /\ meta.epoch > ActiveEpoch
            /\ man[o].st # "none" => man[o].data = meta.epoch
            /\ \A f \in marks[o] : \A s \in Stores : data[s][meta.epoch][f] = o
       /\ Current(o) /\ man[o].st = "active" => work[o].put \subseteq marks[o]
\* Version x of file f under epoch e belongs to an unfinished operation that changes
\* f and, unless it is an overtaken full index, builds at e.
Owned(x, e, f) ==
  /\ x \in HotOps \cup FullOps /\ ck[x] = "in_progress" /\ man[x].st # "active"
  /\ f \in work[x].put
  /\ x \in HotOps => e = ActiveEpoch + 1
  /\ x \in FullOps \ lapped => e = meta.epoch
\* Above the published epoch the stores hold nothing else.
AboveInv ==
  \A e \in Epochs : e > ActiveEpoch => \A s \in Stores : \A f \in Files :
    data[s][e][f] # None => Owned(data[s][e][f], e, f)
\* A candidate that can be adopted hides only what its operation changes and holds only
\* what its operation wrote.
HideInv ==
  \A o \in HotOps \cup ConfigOps : Current(o) /\ Adoptable(o) =>
    /\ ov[ActiveEpoch + 1] \subseteq work[o].put \cup work[o].del
    /\ \A s \in Stores : \A f \in Files : data[s][ActiveEpoch + 1][f] \in {None, o}
\* Compaction has copied what the published generation inherits in store s.
Merged(s) ==
  \A f \in Files \ ov[ActiveEpoch] : data[s][ActiveEpoch][f] = data[s][ActiveParent][f]
\* What the published generation has of a file it does not hide is a copy of what it
\* inherits.
CopyInv ==
  ActiveParent # 0 => \A s \in Stores : \A f \in Files \ ov[ActiveEpoch] :
    data[s][ActiveEpoch][f] \in {None, data[s][ActiveParent][f]}
\* Compaction unlinks after both stores are merged.
MergeInv ==
  /\ run.pc \in {"compactDocs", "unlink"} => Merged("rows")
  /\ run.pc = "unlink" => Merged("docs")
\* The plan of a collection protects the published generation and the one it inherits
\* from, and names neither as stale.
KeepInv ==
  run.pc \in {"collectDocs", "collectRows"} =>
    /\ ActiveEpoch \in run.plan.protected
    /\ ActiveParent # 0 => ActiveParent \in run.plan.protected
    /\ run.plan.stale \cap run.plan.protected = {}
\* The sixth layer of the inductive invariant.
ShownInv ==
  AnnounceInv /\ StageInv /\ FillInv /\ AboveInv /\ HideInv /\ CopyInv /\ MergeInv /\ KeepInv
\* What readers see: the refinement mapping of Publication.
View == [s \in Stores |-> [f \in Files |-> Visible(s, f)]]
\* A step that leaves alone what the published generation consists of.
Untouched ==
  /\ ActiveOps' = {} <=> ActiveOps = {}
  /\ ActiveEpoch' = ActiveEpoch /\ ActiveParent' = ActiveParent
  /\ ActiveOps # {} =>
       /\ ov'[ActiveEpoch] = ov[ActiveEpoch]
       /\ \A s \in Stores : /\ data'[s][ActiveEpoch] = data[s][ActiveEpoch]
                            /\ ActiveParent # 0 => data'[s][ActiveParent] = data[s][ActiveParent]

\* The epochs of the published generation and of its parent are within the stores.
LEMMA ActiveEpochs ==
  ASSUME TypeInv, RowInv, FillInv, ActiveOps # {}
  PROVE  /\ ActiveEpoch \in Epochs /\ ActiveEpoch # 0 /\ ActiveParent # ActiveEpoch
         /\ ActiveParent # 0 => ActiveParent \in Epochs /\ ActiveParent < ActiveEpoch
<1> DEFINE t == Top(man)
<1>0. man \in [Ops -> Rows] /\ DistinctPubs(man) /\ ActOps(man) # {}
  BY ActiveIsTop DEF TypeInv, Typed
<1>1. IsTop(man, t)
  BY <1>0, TopExists
<1> HIDE DEF t
<1>2. t \in Ops /\ man[t].st = "active" /\ TopEpoch(man) = man[t].data /\ TopParent(man) = man[t].parent
  BY <1>0, <1>1, TopIs DEF IsTop, ActOps
<1>3. man[t].data # 0 /\ (man[t].parent # 0 => man[t].parent = man[t].data - 1)
  BY <1>2 DEF FillInv, RowInv
<1>4. man[t].data \in 0..MaxEpoch /\ man[t].parent \in 0..MaxEpoch /\ MaxEpoch \in Nat
  BY <1>0, <1>2, GenAssumption DEF Rows, Bounded
<1>5. ActiveEpoch = man[t].data /\ ActiveParent = man[t].parent
  BY <1>2, ActiveIsTop
<1> QED BY <1>3, <1>4, <1>5 DEF Epochs

\* Nothing published has no epoch.
LEMMA EmptyActive ==
  ActiveOps = {} => ActiveEpoch = 0 /\ ActiveParent = 0
BY DEF ActiveEpoch, ActiveParent

\* Such a step changes nothing that readers see.
LEMMA UntouchedKeeps ==
  ASSUME Untouched, CopyInv
  PROVE  View' = View /\ CopyInv' /\ (ActiveParent # 0 => \A s \in Stores : Merged(s) => Merged(s)')
<1>1. ASSUME NEW s \in Stores, NEW f \in Files PROVE Visible(s, f)' = Visible(s, f)
  <2>1. CASE ActiveOps = {}
    BY <2>1 DEF Untouched, Visible
  <2>2. CASE ActiveOps # {}
    <3>1. CASE ActiveParent = 0
      <4>1. ActiveParent' = 0 /\ ActiveOps' # {} /\ ActiveEpoch' = ActiveEpoch /\ ~(0 > 0)
            /\ data'[s][ActiveEpoch] = data[s][ActiveEpoch]
        BY <2>2, <3>1 DEF Untouched
      <4>2. Visible(s, f) = {data[s][ActiveEpoch][f]} \ {None}
        BY <2>2, <3>1, <4>1 DEF Visible
      <4>3. Visible(s, f)' = {data'[s][ActiveEpoch'][f]} \ {None}
        BY <4>1 DEF Visible
      <4> QED BY <4>1, <4>2, <4>3
    <3>2. CASE ActiveParent # 0
      BY <2>2, <3>2 DEF Untouched, Visible
    <3> QED BY <3>1, <3>2
  <2> QED BY <2>1, <2>2
<1>2. View' = View
  BY <1>1 DEF View
<1>3. ActiveParent # 0 => ActiveOps # {}
  BY EmptyActive
<1>4. CopyInv'
  BY <1>3 DEF CopyInv, Untouched
<1>5. ActiveParent # 0 => \A s \in Stores : Merged(s) => Merged(s)'
  BY <1>3 DEF Merged, Untouched
<1> QED BY <1>2, <1>4, <1>5

\* Wiping epochs of one store only removes, and leaves the other epochs alone.
LEMMA WipedElsewhere ==
  ASSUME Typed, NEW s0 \in Stores, NEW E, data' = Wiped(data, s0, E)
  PROVE  \A s \in Stores : \A e \in Epochs :
           /\ e \notin E => data'[s][e] = data[s][e]
           /\ \A f \in Files : data'[s][e][f] \in {None, data[s][e][f]}
           /\ s = s0 /\ e \in E => \A f \in Files : data'[s][e][f] = None
<1>1. data \in [Stores -> [Epochs -> Epoch]]
  BY DEF Typed, Datas
<1>2. data'[s0] = [e \in Epochs |-> IF e \in E THEN Blank ELSE data[s0][e]]
      /\ \A s \in Stores : s # s0 => data'[s] = data[s]
  BY <1>1 DEF Wiped
<1>3. \A f \in Files : Blank[f] = None
  BY DEF Blank
<1> QED BY <1>2, <1>3

\* So does removing overrides.
LEMMA UnhiddenElsewhere ==
  ASSUME NEW E, ov' = Unhidden(E)
  PROVE  \A e \in Epochs : ov'[e] \subseteq ov[e] /\ (e \notin E => ov'[e] = ov[e])
                           /\ (e \in E => ov'[e] = {})
BY DEF Unhidden

\* A step that adds nothing above the published epoch and ends no operation keeps
\* AboveInv.
LEMMA AboveFrame ==
  ASSUME AboveInv, ActiveEpoch' = ActiveEpoch, lapped \subseteq lapped',
         \A e \in Epochs : e > ActiveEpoch => \A s \in Stores : \A f \in Files :
           data'[s][e][f] \in {None, data[s][e][f]},
         \A x \in HotOps \cup FullOps : ck[x] = "in_progress" /\ man[x].st # "active" =>
           /\ ck'[x] = "in_progress" /\ man'[x].st # "active" /\ work'[x] = work[x]
           /\ x \in FullOps \ lapped' => meta'.epoch = meta.epoch
  PROVE  AboveInv'
<1> SUFFICES ASSUME NEW e \in Epochs, e > ActiveEpoch, NEW s \in Stores, NEW f \in Files,
                    data'[s][e][f] # None
             PROVE  \A y : y = data'[s][e][f] => Owned(y, e, f)'
  BY DEF AboveInv
<1>1. data'[s][e][f] = data[s][e][f]
  OBVIOUS
<1> DEFINE x == data[s][e][f]
<1>2. Owned(x, e, f)
  BY <1>1 DEF AboveInv
<1> HIDE DEF x
<1>3. \A y : y = x => Owned(y, e, f)'
  BY <1>2 DEF Owned
<1> QED BY <1>1, <1>3 DEF x

\* A step that hides and stores nothing more in the candidate epoch and makes nothing
\* adoptable keeps HideInv.
LEMMA HideFrame ==
  ASSUME Typed, HideInv, ActiveEpoch' = ActiveEpoch,
         \A o \in HotOps \cup ConfigOps : Current(o)' /\ Adoptable(o)' =>
           Current(o) /\ Adoptable(o) /\ work'[o] = work[o],
         ActiveEpoch + 1 \in Epochs => ov'[ActiveEpoch + 1] \subseteq ov[ActiveEpoch + 1],
         \A e \in Epochs : e > ActiveEpoch => \A s \in Stores : \A f \in Files :
           data'[s][e][f] \in {None, data[s][e][f]}
  PROVE  HideInv'
<1> SUFFICES ASSUME NEW o \in HotOps \cup ConfigOps, Current(o)', Adoptable(o)'
             PROVE  /\ ov'[ActiveEpoch + 1] \subseteq work'[o].put \cup work'[o].del
                    /\ \A s \in Stores : \A f \in Files : data'[s][ActiveEpoch + 1][f] \in {None, o}
  BY DEF HideInv
<1>1. Current(o) /\ Adoptable(o) /\ work'[o] = work[o]
  OBVIOUS
<1>2. ActiveEpoch + 1 \in Epochs /\ ActiveEpoch + 1 > ActiveEpoch
  <2>1. man[o].data = ActiveEpoch + 1 /\ man[o] \in Rows
    BY <1>1, KindsApart DEF Adoptable, Typed
  <2>2. ActiveEpoch \in Nat
    BY EpochRange, GenAssumption DEF Bounded
  <2> QED BY <2>1, <2>2, GenAssumption DEF Rows, Bounded, Epochs
<1> HIDE DEF Current, Adoptable
<1>3. /\ ov[ActiveEpoch + 1] \subseteq work[o].put \cup work[o].del
      /\ \A s \in Stores : \A f \in Files : data[s][ActiveEpoch + 1][f] \in {None, o}
  BY <1>1 DEF HideInv
<1> QED BY <1>1, <1>2, <1>3

\* What a step of prepare does to the table and to the running operation: nothing is
\* published, only unlinking changes what the published generation inherits, and only
\* the registration makes a candidate.
LEMMA PrepareMoves ==
  ASSUME TypeInv, OrderInv, LaneInv, TypeInv',
         \/ PrepareAgain \/ Adopt \/ Resolve \/ CompactRows \/ CompactDocs \/ Unlink
         \/ CleanDocs \/ Register \/ AdoptFails \/ PrepareFails \/ PrepareRefused
  PROVE  /\ run'.op = run.op /\ run'.pc \in HotPcs \cup {"abort"} /\ run'.pc # "mark"
         /\ run'.pc = "process" => run'.k = 1
         /\ run'.pc = "compactDocs" => CompactRows
         /\ run'.pc = "unlink" => CompactDocs
         /\ run'.pc = "register" => CleanDocs
         /\ ActiveEpoch' = ActiveEpoch
         /\ \A p \in Ops : p # run.op => man'[p].st = man[p].st /\ man'[p].data = man[p].data
         /\ man'[run.op].st # "active"
         /\ man'[run.op].st # "none" =>
              man'[run.op].data # 0 \/ (man[run.op].st # "none" /\ man'[run.op].data = man[run.op].data)
         /\ Register \/ \A p : p = run.op /\ Adoptable(p)' => Adoptable(p)
         /\ Unlink \/ ActiveParent' = ActiveParent
         /\ ActiveOps' = {} <=> ActiveOps = {}
<1>0. /\ Typed /\ Launched /\ DistinctPubs(man) /\ RoomInv /\ SlotInv /\ PointInv /\ OrderlyInv
      /\ LoneInv /\ RowInv /\ NewestInv /\ BaseInv
      /\ ActiveEpoch \in Nat /\ ActiveParent \in Nat
      /\ run \in Runs /\ man \in [Ops -> Rows] /\ mem \in Mems /\ mem.hot \in Bounded
      /\ man' \in [Ops -> Rows] /\ DistinctPubs(man')
      /\ {"compact", "compactDocs", "unlink", "clean", "register"} \subseteq Pcs
  BY PcNames, EpochRange, GenAssumption
     DEF TypeInv, OrderInv, LaneInv, OrderlyInv, Bounded, Typed, HotPcs, Mems
<1>r. run.failed \in BOOLEAN
  BY <1>0 DEF Runs
<1>1. run.pc \in HotPcs /\ UNCHANGED <<meta, ck>>
  BY DEF PrepareAgain, Adopt, Resolve, CompactRows, CompactDocs, Unlink, CleanDocs,
     Register, AdoptFails, PrepareFails, PrepareRefused, PreparationFailed, At, HotPcs, dbVars, ckVars
<1>k. /\ HotOps \subseteq Ops /\ ConfigOps \subseteq Ops /\ FullOps \subseteq Ops /\ None \notin Ops
      /\ HotOps \cap FullOps = {} /\ ConfigOps \cap FullOps = {}
  BY KindsApart
<1>2. /\ run.op \in Ops /\ run.op # None /\ run.k \in 1..2 /\ man[run.op].st # "active"
      /\ run.op \in HotOps \cup ConfigOps /\ run.op \notin FullOps /\ Current(run.op)
  BY <1>0, <1>1, <1>k DEF Launched, RoomInv, PointInv, Current, HotPcs
<1>t. run.pc # "prepare" => mem.hot = ActiveEpoch + 1
  BY <1>0, <1>1, <1>2 DEF SlotInv, Astray, HotPcs
<1> HIDE DEF CompactRows, CompactDocs, CleanDocs, Unlink, Register, Adoptable, Current
<1>p. ASSUME NEW f \in BOOLEAN, Prepared(f)
      PROVE  /\ run'.op = run.op /\ run'.pc \in {"prepare", "abort", "process"}
             /\ run'.pc = "process" => run'.k = 1
  <2>1. run'.op = run.op
    BY <1>0, <1>p, PreparedRun
  <2>2. run'.pc \in {"prepare", "abort", "process"}
    BY <1>0, <1>p, PreparedRun
  <2>3. run'.pc = "process" => run'.k = 1
    BY <1>0, <1>p, PreparedRun
  <2> QED BY <2>1, <2>2, <2>3
<1>q. ASSUME UNCHANGED man
      PROVE  /\ ActiveEpoch' = ActiveEpoch /\ ActiveParent' = ActiveParent /\ ActiveOps' = ActiveOps
             /\ \A p \in Ops : man'[p] = man[p]
             /\ \A p : Adoptable(p)' => Adoptable(p)
  <2>2. \A p : Adoptable(p)' => Adoptable(p)
    BY <1>q, AdoptableSame
  <2> QED BY <1>q, <2>2, SameMan
<1>3. CASE PrepareAgain
  <2> DEFINE f == run.failed \/ mem.slot # run.op
  <2>1. UNCHANGED <<man, mem>> /\ Prepared(f) /\ f \in BOOLEAN /\ mem.slot # None
    BY <1>3 DEF PrepareAgain, dbVars
  <2> HIDE DEF f
  <2>2. run'.op = run.op /\ run'.pc \in {"prepare", "abort", "process"} /\ (run'.pc = "process" => run'.k = 1)
    BY <1>p, <2>1
  <2> QED BY <1>2, <1>q, <2>1, <2>2 DEF HotPcs
<1>4. CASE Adopt
  <2>1. UNCHANGED man /\ Prepared(run.failed)
    BY <1>4 DEF Adopt, dbVars
  <2>2. run'.op = run.op /\ run'.pc \in {"prepare", "abort", "process"} /\ (run'.pc = "process" => run'.k = 1)
    BY <1>p, <1>r, <2>1
  <2> QED BY <1>2, <1>q, <2>1, <2>2 DEF HotPcs
<1>5. CASE Resolve
  <2> DEFINE p == IF ActiveParent > 0 THEN "compact" ELSE "clean"
  <2>1. UNCHANGED man /\ run' = [run EXCEPT !.pc = p]
    BY <1>5 DEF Resolve, dbVars
  <2>2. p \in Pcs /\ p \in {"compact", "clean"}
    BY <1>0
  <2> HIDE DEF p
  <2>3. run'.pc = p /\ run'.op = run.op
    BY <1>0, <2>1, <2>2, PcRun
  <2> QED BY <1>2, <1>q, <2>1, <2>2, <2>3 DEF HotPcs
<1>6. CASE CompactRows
  <2>1. UNCHANGED man /\ run' = [run EXCEPT !.pc = "compactDocs"]
    BY <1>6 DEF CompactRows
  <2>2. run'.pc = "compactDocs" /\ run'.op = run.op
    BY <1>0, <2>1, PcRun
  <2> QED BY <1>2, <1>6, <1>q, <2>1, <2>2 DEF HotPcs
<1>7. CASE CompactDocs
  <2>1. UNCHANGED man /\ run' = [run EXCEPT !.pc = "unlink"]
    BY <1>7 DEF CompactDocs
  <2>2. run'.pc = "unlink" /\ run'.op = run.op
    BY <1>0, <2>1, PcRun
  <2> QED BY <1>2, <1>7, <1>q, <2>1, <2>2 DEF HotPcs
<1>8. CASE CleanDocs
  <2>1. UNCHANGED man /\ run' = [run EXCEPT !.pc = "register"]
    BY <1>8 DEF CleanDocs
  <2>2. run'.pc = "register" /\ run'.op = run.op
    BY <1>0, <2>1, PcRun
  <2> QED BY <1>2, <1>8, <1>q, <2>1, <2>2 DEF HotPcs
<1>9. CASE Unlink
  <2>1. run.pc = "unlink" /\ run' = [run EXCEPT !.pc = "clean"] /\ man' = [man EXCEPT ![Active].parent = 0]
    BY <1>9 DEF Unlink, At
  <2>2. run'.pc = "clean" /\ run'.op = run.op
    BY <1>0, <2>1, PcRun
  <2>3. ActOps(man) # {} /\ Active = Top(man)
    BY <1>0, <2>1, ActiveIsTop DEF RoomInv, TopParent
  <2> DEFINE t == Top(man)
             r == [man[t] EXCEPT !.parent = 0]
  <2>4. IsTop(man, t)
    BY <1>0, <2>3, TopExists
  <2>5. t \in Ops /\ man' = [man EXCEPT ![t] = r] /\ man[t] \in Rows
    BY <1>0, <2>1, <2>3, <2>4 DEF IsTop, ActOps
  <2> HIDE DEF t
  <2>6. r.st = man[t].st /\ r.pub = man[t].pub /\ r.data = man[t].data
    BY <2>5 DEF Rows
  <2> HIDE DEF r
  <2>7. \A p \in Ops : man'[p].st = man[p].st /\ man'[p].pub = man[p].pub /\ man'[p].data = man[p].data
    BY <1>0, <2>5, <2>6
  <2>8. ActOps(man') = ActOps(man)
    BY <2>7 DEF ActOps
  <2>9. ActiveEpoch' = ActiveEpoch
    BY <1>0, <2>7, <2>8, SameTop, ActiveIsTop DEF ActOps
  <2>10. ActiveOps' = ActiveOps
    BY <2>8, ActiveIsTop
  <2>11. man'[run.op] = man[run.op] /\ ActiveEpoch' = ActiveEpoch
    BY <1>0, <1>2, <2>4, <2>5, <2>9 DEF IsTop, ActOps
  <2>12. \A p : p = run.op /\ Adoptable(p)' => Adoptable(p)
    BY <2>11 DEF Adoptable
  <2> QED BY <1>2, <1>9, <2>2, <2>7, <2>9, <2>10, <2>12 DEF HotPcs
<1>10. CASE Register
  <2> DEFINE b == Begun(run.op, mem.hot)
             r == [b EXCEPT !.parent = ActiveEpoch, !.ready = TRUE]
  <2>1. /\ run.pc = "register" /\ Prepared(run.failed) /\ CanBegin(run.op, mem.hot)
        /\ man' = [man EXCEPT ![run.op] = r] /\ UNCHANGED mem
    BY <1>10 DEF Register, At
  <2>2. run'.op = run.op /\ run'.pc \in {"prepare", "abort", "process"} /\ (run'.pc = "process" => run'.k = 1)
    BY <1>p, <1>r, <2>1
  <2>3. mem.hot = ActiveEpoch + 1 /\ ActiveEpoch \in Bounded
    BY <1>0, <1>t, <2>1, EpochRange
  <2>4. b \in Rows /\ b.st = "building" /\ b.data = mem.hot
    BY <1>0, <1>2, <2>1, BegunRow DEF CanBegin
  <2> HIDE DEF b
  <2>5. r.st = "building" /\ r.data = b.data
    BY <2>3, <2>4 DEF Rows
  <2> HIDE DEF r
  <2>6. man'[run.op] = r /\ \A p \in Ops : p # run.op => man'[p] = man[p]
    BY <1>0, <1>2, <2>1
  <2>7. ActOps(man') = ActOps(man) /\ \A p \in ActOps(man) : man'[p] = man[p]
    BY <1>2, <2>5, <2>6 DEF ActOps
  <2>8. ActiveEpoch' = ActiveEpoch /\ ActiveParent' = ActiveParent /\ ActiveOps' = ActiveOps
    BY <1>0, <2>7, SameTop, ActiveIsTop
  <2>9. r.data # 0
    BY <1>0, <2>3, <2>4, <2>5
  <2> QED BY <1>10, <2>1, <2>2, <2>3, <2>5, <2>6, <2>8, <2>9 DEF HotPcs
<1>11. CASE PrepareFails \/ PrepareRefused
  <2> DEFINE t == TRUE
  <2>1. MarkFailed(run.op) /\ Prepared(t) /\ t \in BOOLEAN
    BY <1>11 DEF PrepareFails, PrepareRefused, PreparationFailed
  <2> HIDE DEF t
  <2>4. run'.op = run.op /\ run'.pc \in {"prepare", "abort", "process"} /\ (run'.pc = "process" => run'.k = 1)
    BY <1>p, <2>1
  <2>5. /\ ActOps(man') = ActOps(man)
        /\ \A p \in Ops : /\ man'[p].data = man[p].data
                          /\ man'[p].st = IF p = run.op /\ man[p].st = "building" THEN "failed" ELSE man[p].st
        /\ ActiveEpoch' = ActiveEpoch /\ ActiveParent' = ActiveParent
    BY <1>0, <1>2, <2>1, MarkFailedType
  <2>6. ActiveOps' = ActiveOps
    BY <2>5, ActiveIsTop
  <2>7. \A p : p = run.op /\ Adoptable(p)' => Adoptable(p)
    BY <1>2, <2>5 DEF Adoptable
  <2> QED BY <1>2, <2>4, <2>5, <2>6, <2>7 DEF HotPcs
<1>12. CASE AdoptFails
  <2> DEFINE t == TRUE
  <2>1. UNCHANGED man /\ Prepared(t) /\ t \in BOOLEAN
    BY <1>12 DEF AdoptFails, dbVars
  <2> HIDE DEF t
  <2>2. run'.op = run.op /\ run'.pc \in {"prepare", "abort", "process"} /\ (run'.pc = "process" => run'.k = 1)
    BY <1>p, <2>1
  <2> QED BY <1>2, <1>q, <2>1, <2>2 DEF HotPcs
<1> QED BY <1>3, <1>4, <1>5, <1>6, <1>7, <1>8, <1>9, <1>10, <1>11, <1>12

\* Unlinking leaves the published generation without parent.
LEMMA UnlinkMoves ==
  ASSUME TypeInv, TypeInv', Unlink
  PROVE  ActiveParent > 0 /\ ActiveParent' = 0 /\ ActiveOps' # {} /\ ActiveOps # {}
<1>0. /\ DistinctPubs(man) /\ man \in [Ops -> Rows] /\ man' \in [Ops -> Rows] /\ DistinctPubs(man')
  BY DEF TypeInv, Typed
<1>1. ActiveParent > 0 /\ man' = [man EXCEPT ![Active].parent = 0]
  BY DEF Unlink, At, TypeInv, RoomInv
<1>2. ActOps(man) # {} /\ Active = Top(man)
  BY <1>1, ActiveIsTop DEF TopParent
<1> DEFINE t == Top(man)
<1>3. IsTop(man, t)
  BY <1>0, <1>2, TopExists
<1>4. t \in Ops /\ man' = [man EXCEPT ![t].parent = 0]
  BY <1>1, <1>2, <1>3 DEF IsTop, ActOps
<1> HIDE DEF t
<1>5. man'[t].parent = 0 /\ \A p \in Ops : man'[p].st = man[p].st /\ man'[p].pub = man[p].pub
  BY <1>0, <1>4 DEF Rows
<1>6. IsTop(man', t)
  BY <1>3, <1>5 DEF IsTop, ActOps
<1>7. TopParent(man') = 0 /\ ActOps(man') # {}
  BY <1>0, <1>5, <1>6, TopIs DEF IsTop
<1> QED BY <1>1, <1>2, <1>7, ActiveIsTop

\* Materializing one store of the published generation changes nothing that readers
\* see, and merges that store.
LEMMA CompactKeeps ==
  ASSUME TypeInv, RowInv, FillInv, CopyInv, ActiveParent > 0, UNCHANGED <<man, ov>>,
         NEW s0 \in Stores, data' = Materialized(s0)
  PROVE  /\ View' = View /\ CopyInv' /\ Merged(s0)'
         /\ \A s \in Stores : s # s0 /\ Merged(s) => Merged(s)'
         /\ \A s \in Stores : \A e \in Epochs : e # ActiveEpoch => data'[s][e] = data[s][e]
<1>0. ActiveOps # {} /\ ActiveParent # 0 /\ data \in [Stores -> [Epochs -> Epoch]]
  BY EmptyActive DEF TypeInv, Typed, Datas
<1>1. ActiveEpoch \in Epochs /\ ActiveParent \in Epochs /\ ActiveParent # ActiveEpoch
  BY <1>0, ActiveEpochs
<1>2. ActiveEpoch' = ActiveEpoch /\ ActiveParent' = ActiveParent /\ ActiveOps' = ActiveOps
  BY SameMan
<1>3. /\ \A s \in Stores : s # s0 => data'[s] = data[s]
      /\ \A e \in Epochs : e # ActiveEpoch => data'[s0][e] = data[s0][e]
      /\ \A f \in Files : data'[s0][ActiveEpoch][f] =
           IF f \notin ov[ActiveEpoch] /\ data[s0][ActiveParent][f] # None
           THEN data[s0][ActiveParent][f] ELSE data[s0][ActiveEpoch][f]
  BY <1>0, <1>1 DEF Materialized
<1>4. \A f \in Files \ ov[ActiveEpoch] : data'[s0][ActiveEpoch][f] = data[s0][ActiveParent][f]
  BY <1>0, <1>3 DEF CopyInv
<1>5. Merged(s0)'
  BY <1>1, <1>2, <1>3, <1>4 DEF Merged
<1>6. \A s \in Stores : s # s0 /\ Merged(s) => Merged(s)'
  BY <1>2, <1>3 DEF Merged
<1>7. \A s \in Stores : \A e \in Epochs : e # ActiveEpoch => data'[s][e] = data[s][e]
  BY <1>3
<1>8. CopyInv'
  <2> SUFFICES ASSUME NEW s \in Stores, NEW f \in Files \ ov[ActiveEpoch]
               PROVE  data'[s][ActiveEpoch][f] \in {None, data'[s][ActiveParent][f]}
    BY <1>2 DEF CopyInv
  <2>1. CASE s = s0
    BY <1>1, <1>3, <1>4, <2>1
  <2>2. CASE s # s0
    BY <1>0, <1>3, <2>2 DEF CopyInv
  <2> QED BY <2>1, <2>2
<1>9. ASSUME NEW s \in Stores, NEW f \in Files PROVE Visible(s, f)' = Visible(s, f)
  <2>1. CASE s # s0
    BY <1>2, <1>3, <2>1 DEF Visible
  <2>2. CASE s = s0 /\ f \in ov[ActiveEpoch]
    BY <1>2, <1>3, <2>2 DEF Visible
  <2>3. CASE s = s0 /\ f \notin ov[ActiveEpoch]
    <3> DEFINE c == data[s][ActiveParent][f]
    <3>1. data[s][ActiveEpoch][f] \in {None, c} /\ data'[s][ActiveEpoch][f] = c
          /\ data'[s][ActiveParent][f] = c
      BY <1>0, <1>1, <1>3, <1>4, <2>3 DEF CopyInv
    <3>2. Visible(s, f) = {data[s][ActiveEpoch][f], c} \ {None}
      BY <1>0, <2>3 DEF Visible
    <3>3. Visible(s, f)' = {data'[s][ActiveEpoch][f], data'[s][ActiveParent][f]} \ {None}
      BY <1>0, <1>2, <2>3 DEF Visible
    <3> HIDE DEF c
    <3> QED BY <3>1, <3>2, <3>3
  <2> QED BY <2>1, <2>2, <2>3
<1>10. View' = View
  BY <1>9 DEF View
<1> QED BY <1>5, <1>6, <1>7, <1>8, <1>10

\* Neither does dropping the link and the overrides once both stores are merged.
LEMMA UnlinkKeeps ==
  ASSUME TypeInv, TypeInv', Unlink, Merged("rows"), Merged("docs"), ActiveEpoch' = ActiveEpoch
  PROVE  View' = View /\ CopyInv'
<1>1. ActiveParent > 0 /\ ActiveParent' = 0 /\ ActiveOps' # {} /\ ActiveOps # {}
  BY UnlinkMoves
<1>2. UNCHANGED data
  BY DEF Unlink
<1>3. ASSUME NEW s \in Stores, NEW f \in Files PROVE Visible(s, f)' = Visible(s, f)
  <2>1. Visible(s, f)' = {data[s][ActiveEpoch][f]} \ {None}
    BY <1>1, <1>2 DEF Visible
  <2>2. CASE f \in ov[ActiveEpoch]
    BY <1>1, <2>1, <2>2 DEF Visible
  <2>3. CASE f \notin ov[ActiveEpoch]
    <3>1. data[s][ActiveEpoch][f] = data[s][ActiveParent][f]
      BY <2>3 DEF Merged, Stores
    <3>2. Visible(s, f) = {data[s][ActiveEpoch][f], data[s][ActiveParent][f]} \ {None}
      BY <1>1, <2>3 DEF Visible
    <3> QED BY <2>1, <3>1, <3>2
  <2> QED BY <2>2, <2>3
<1>4. View' = View
  BY <1>3 DEF View
<1>5. CopyInv'
  BY <1>1 DEF CopyInv
<1> QED BY <1>4, <1>5

\* No step of prepare changes what readers see; each keeps the sixth layer.
LEMMA ShownPrepare ==
  ASSUME TypeInv, OrderInv, LaneInv, ShownInv, TypeInv',
         \/ PrepareAgain \/ Adopt \/ Resolve \/ CompactRows \/ CompactDocs \/ Unlink
         \/ CleanDocs \/ Register \/ AdoptFails \/ PrepareFails \/ PrepareRefused
  PROVE  ShownInv' /\ View' = View /\ UNCHANGED work
<1>0. /\ Typed /\ Launched /\ RoomInv /\ SlotInv /\ PointInv /\ LoneInv /\ RowInv
      /\ AnnounceInv /\ StageInv /\ FillInv /\ AboveInv /\ HideInv /\ CopyInv /\ MergeInv
      /\ ActiveEpoch \in Nat /\ ActiveParent \in Nat /\ "rows" \in Stores /\ "docs" \in Stores
  BY EpochRange, GenAssumption
     DEF TypeInv, OrderInv, LaneInv, OrderlyInv, ShownInv, Bounded, Stores
<1>m. /\ run'.op = run.op /\ run'.pc \in HotPcs \cup {"abort"} /\ run'.pc # "mark"
      /\ run'.pc = "process" => run'.k = 1
      /\ run'.pc = "compactDocs" => CompactRows
      /\ run'.pc = "unlink" => CompactDocs
      /\ run'.pc = "register" => CleanDocs
      /\ ActiveEpoch' = ActiveEpoch
      /\ \A p \in Ops : p # run.op => man'[p].st = man[p].st /\ man'[p].data = man[p].data
      /\ man'[run.op].st # "active"
      /\ man'[run.op].st # "none" =>
           man'[run.op].data # 0 \/ (man[run.op].st # "none" /\ man'[run.op].data = man[run.op].data)
      /\ Register \/ \A p : p = run.op /\ Adoptable(p)' => Adoptable(p)
      /\ Unlink \/ ActiveParent' = ActiveParent
      /\ ActiveOps' = {} <=> ActiveOps = {}
  BY PrepareMoves
<1>1. run.pc \in HotPcs /\ UNCHANGED <<meta, ck, work, marks, lapped>>
  BY DEF PrepareAgain, Adopt, Resolve, CompactRows, CompactDocs, Unlink, CleanDocs,
     Register, AdoptFails, PrepareFails, PrepareRefused, PreparationFailed, At, HotPcs, dbVars, ckVars
<1>k. /\ HotOps \subseteq Ops /\ ConfigOps \subseteq Ops /\ FullOps \subseteq Ops /\ None \notin Ops
      /\ HotOps \cap FullOps = {} /\ ConfigOps \cap FullOps = {}
  BY KindsApart
<1>2. /\ run.op \in Ops /\ run.op \in HotOps \cup ConfigOps /\ run.op \notin FullOps
      /\ Current(run.op) /\ ck[run.op] = "in_progress" /\ man[run.op].st # "active"
      /\ run.pc # "prepare" => mem.hot = ActiveEpoch + 1 /\ mem.slot # None
  BY <1>0, <1>1, <1>k DEF Launched, PointInv, AnnounceInv, RoomInv, SlotInv, Astray, Current, HotPcs
<1>3. \A o : Current(o)' <=> Current(o)
  BY <1>m, <1>1 DEF Current
<1>4. \A o \in Ops : Current(o) => o = run.op
  BY <1>0, <1>2 DEF LoneInv
<1>x. Unlink \/ Register => run.pc \in {"unlink", "register"} /\ mem'.slot # None
  BY <1>2 DEF Unlink, Register, At
<1>y. PrepareFails \/ PrepareRefused => mem'.slot = None
  BY <1>0 DEF PrepareFails, PrepareRefused, PreparationFailed, Typed, Mems
<1>z. /\ PrepareAgain \/ Adopt \/ Resolve \/ AdoptFails => run.pc = "prepare"
      /\ CompactRows => run.pc = "compact"
      /\ CompactDocs => run.pc = "compactDocs"
      /\ CleanDocs => run.pc = "clean"
      /\ Unlink => run.pc = "unlink"
      /\ Register => run.pc = "register"
  BY DEF PrepareAgain, Adopt, Resolve, CompactRows, CompactDocs, CleanDocs, Unlink,
     Register, AdoptFails, At
<1> HIDE DEF Current, Adoptable, PrepareAgain, Adopt, Resolve, CompactRows, CompactDocs, Unlink, CleanDocs,
     Register, AdoptFails, PrepareFails, PrepareRefused
<1>5. AnnounceInv'
  <2>1. run'.pc \notin {"ready", "scan", "manifest", "batch"}
    BY <1>m DEF HotPcs
  <2>2. \A o \in HotOps \cup ConfigOps \cup FullOps :
           ck[o] = "none" => work[o] = None /\ marks[o] = {} /\ man'[o].st = "none" /\ o \notin lapped
    BY <1>0, <1>m, <1>k, <1>2 DEF AnnounceInv
  <2> QED BY <1>0, <1>m, <1>1, <2>1, <2>2 DEF AnnounceInv
<1>6. StageInv'
  <2>1. run'.pc \notin {"mark", "commit", "republish", "finish", "plan", "collectDocs", "collectRows"}
    BY <1>m DEF HotPcs
  <2>2. ASSUME run'.pc = "register", NEW f \in Files PROVE data'["docs"][ActiveEpoch + 1][f] = None
    <3>1. mem.hot = ActiveEpoch + 1 /\ data' = Wiped(data, "docs", {mem.hot})
      BY <1>2, <1>m, <1>z, <2>2 DEF CleanDocs
    <3>2. mem.hot \in Epochs
      BY <1>0, <3>1, GenAssumption DEF Typed, Mems, Bounded, Epochs
    <3>3. \A s \in Stores : \A e \in Epochs :
            /\ e \notin {mem.hot} => data'[s][e] = data[s][e]
            /\ \A g \in Files : data'[s][e][g] \in {None, data[s][e][g]}
            /\ s = "docs" /\ e \in {mem.hot} => \A g \in Files : data'[s][e][g] = None
      BY <1>0, <3>1, WipedElsewhere
    <3>4. data'["docs"][mem.hot][f] = None
      BY <1>0, <3>2, <3>3
    <3> QED BY <3>1, <3>4
  <2> QED BY <1>m, <2>1, <2>2 DEF StageInv
<1>7. FillInv'
  <2>1. \A o \in Ops : man'[o].st # "none" => man'[o].data # 0
    BY <1>0, <1>m, <1>2 DEF FillInv
  <2>2. \A o \in FullOps : ~Current(o)'
    BY <1>k, <1>2, <1>3, <1>4
  <2>3. \A o \in FullOps : marks[o] \subseteq Files
    BY <1>0 DEF FillInv
  <2> QED BY <1>m, <1>1, <2>1, <2>2, <2>3 DEF FillInv
<1>8. \A x \in HotOps \cup FullOps : ck[x] = "in_progress" /\ man[x].st # "active" =>
        /\ ck'[x] = "in_progress" /\ man'[x].st # "active" /\ work'[x] = work[x]
        /\ x \in FullOps => meta'.epoch = meta.epoch
  BY <1>m, <1>k, <1>1
<1>9. KeepInv'
  BY <1>m DEF KeepInv, HotPcs
<1>h. ASSUME ~Register, ActiveEpoch + 1 \in Epochs => ov'[ActiveEpoch + 1] \subseteq ov[ActiveEpoch + 1],
             \A e \in Epochs : e > ActiveEpoch => \A s \in Stores : \A f \in Files :
               data'[s][e][f] \in {None, data[s][e][f]}
      PROVE  HideInv'
  BY <1>0, <1>m, <1>k, <1>h, <1>1, <1>3, <1>4, HideFrame
<1>10. CASE PrepareAgain \/ Adopt \/ Resolve \/ AdoptFails \/ PrepareFails \/ PrepareRefused
  <2>1. UNCHANGED <<data, ov>>
    BY <1>10 DEF PrepareAgain, Adopt, Resolve, AdoptFails, PrepareFails, PrepareRefused,
       PreparationFailed, dbVars
  <2>2. ~Unlink /\ ~Register
    BY <1>x, <1>y, <1>z, <1>10
  <2>3. run'.pc \notin {"compactDocs", "unlink"}
    <3>1. PrepareFails \/ PrepareRefused => run'.pc \in {"prepare", "abort", "process"}
      BY <1>0 DEF PrepareFails, PrepareRefused, PreparationFailed, Prepared, Typed, Runs
    <3> QED BY <1>m, <1>z, <1>10, <3>1 DEF CompactRows, CompactDocs, At, PrepareFails,
               PrepareRefused
  <2>4. Untouched
    BY <1>m, <2>1, <2>2 DEF Untouched
  <2>5. View' = View /\ CopyInv'
    BY <1>0, <2>4, UntouchedKeeps
  <2>6. HideInv'
    BY <1>h, <2>1, <2>2
  <2>7. AboveInv'
    BY <1>0, <1>1, <1>m, <1>8, <2>1, AboveFrame
  <2>8. MergeInv'
    BY <2>3 DEF MergeInv
  <2> QED BY <1>1, <1>5, <1>6, <1>7, <1>9, <2>5, <2>6, <2>7, <2>8 DEF ShownInv
<1>11. CASE CleanDocs \/ Register
  <2>1. mem.hot = ActiveEpoch + 1 /\ ~Unlink
    BY <1>2, <1>z, <1>11
  <2>2. PICK s0 \in Stores : data' = Wiped(data, s0, {mem.hot})
    BY <1>0, <1>11 DEF CleanDocs, Register
  <2>3. \A s \in Stores : \A e \in Epochs :
          /\ e # mem.hot => data'[s][e] = data[s][e]
          /\ \A f \in Files : data'[s][e][f] \in {None, data[s][e][f]}
    <3>1. \A s \in Stores : \A e \in Epochs :
            /\ e \notin {mem.hot} => data'[s][e] = data[s][e]
            /\ \A f \in Files : data'[s][e][f] \in {None, data[s][e][f]}
            /\ s = s0 /\ e \in {mem.hot} => \A f \in Files : data'[s][e][f] = None
      BY <1>0, <2>2, WipedElsewhere
    <3> QED BY <3>1
  <2>4. \A e \in Epochs : ov'[e] \subseteq ov[e] /\ (e # mem.hot => ov'[e] = ov[e])
    BY <1>0, <1>11, UnhiddenElsewhere DEF CleanDocs, Register
  <2>5. ActiveOps # {} => ActiveEpoch \in Epochs /\ ActiveEpoch # mem.hot
                         /\ (ActiveParent # 0 => ActiveParent \in Epochs /\ ActiveParent # mem.hot)
    BY <1>0, <2>1, ActiveEpochs
  <2>6. Untouched
    BY <1>m, <2>1, <2>3, <2>4, <2>5 DEF Untouched
  <2>7. View' = View /\ CopyInv'
    BY <1>0, <2>6, UntouchedKeeps
  <2>8. AboveInv'
    BY <1>0, <1>1, <1>m, <1>8, <2>3, AboveFrame
  <2>9. HideInv'
    <3>1. CASE ~Register
      BY <1>h, <2>3, <2>4, <3>1
    <3>2. CASE Register
      <4>1. ActiveEpoch + 1 \in Epochs
        <5>1. mem.hot \in 0..MaxEpoch
          BY <1>0 DEF Typed, Mems, Bounded
        <5> QED BY <1>0, <2>1, <5>1, GenAssumption DEF Epochs
      <4>2. ov'[ActiveEpoch + 1] = {}
        BY <2>1, <3>2, <4>1, UnhiddenElsewhere DEF Register
      <4>3. data' = Wiped(data, "rows", {mem.hot}) /\ run.pc = "register"
        BY <1>z, <3>2 DEF Register
      <4>w. \A s \in Stores : \A e \in Epochs :
              /\ e \notin {mem.hot} => data'[s][e] = data[s][e]
              /\ \A f \in Files : data'[s][e][f] \in {None, data[s][e][f]}
              /\ s = "rows" /\ e \in {mem.hot} => \A f \in Files : data'[s][e][f] = None
        BY <1>0, <4>3, WipedElsewhere
      <4>4. \A f \in Files : data'["rows"][ActiveEpoch + 1][f] = None
        BY <1>0, <2>1, <4>1, <4>w
      <4>5. \A f \in Files : data'["docs"][ActiveEpoch + 1][f] = None
        BY <1>0, <2>3, <4>1, <4>3 DEF StageInv
      <4>6. \A s \in Stores : \A f \in Files : data'[s][ActiveEpoch + 1][f] = None
        BY <4>4, <4>5 DEF Stores
      <4> QED BY <1>m, <4>2, <4>6 DEF HideInv
    <3> QED BY <3>1, <3>2
  <2>10. MergeInv'
    BY <1>m, <1>z, <1>11 DEF MergeInv
  <2> QED BY <1>1, <1>5, <1>6, <1>7, <1>9, <2>7, <2>8, <2>9, <2>10 DEF ShownInv
<1>12. CASE CompactRows \/ CompactDocs
  <2>1. PICK s0 \in Stores : /\ data' = Materialized(s0) /\ UNCHANGED <<man, ov>> /\ ActiveParent > 0
                             /\ s0 = (IF run.pc = "compact" THEN "rows" ELSE "docs")
    <3>1. CASE CompactRows
      BY <1>0, <3>1 DEF CompactRows, At, RoomInv
    <3>2. CASE CompactDocs
      BY <1>0, <3>2 DEF CompactDocs, At, RoomInv
    <3> QED BY <1>12, <3>1, <3>2
  <2>2. /\ View' = View /\ CopyInv' /\ Merged(s0)'
        /\ \A s \in Stores : s # s0 /\ Merged(s) => Merged(s)'
        /\ \A s \in Stores : \A e \in Epochs : e # ActiveEpoch => data'[s][e] = data[s][e]
    BY <1>0, <2>1, CompactKeeps
  <2>3. AboveInv'
    BY <1>0, <1>1, <1>m, <1>8, <2>2, AboveFrame
  <2>4. HideInv'
    BY <1>0, <1>h, <1>z, <1>12, <2>1, <2>2
  <2>5. MergeInv'
    <3>1. run'.pc = "compactDocs" => s0 = "rows"
      BY <1>m, <1>z, <2>1
    <3>2. run'.pc = "unlink" => s0 = "docs" /\ Merged("rows")
      BY <1>0, <1>m, <1>z, <2>1 DEF MergeInv
    <3> HIDE DEF Merged
    <3>r. s0 = "rows" => Merged("rows")'
      BY <2>2
    <3>d. s0 = "docs" => Merged("docs")' /\ (Merged("rows") => Merged("rows")')
      BY <1>0, <2>2
    <3>3. run'.pc = "compactDocs" => Merged("rows")'
      BY <3>r, <3>1
    <3>4. run'.pc = "unlink" => Merged("docs")' /\ Merged("rows")'
      BY <3>d, <3>2
    <3> QED BY <3>3, <3>4 DEF MergeInv
  <2> QED BY <1>1, <1>5, <1>6, <1>7, <1>9, <2>2, <2>3, <2>4, <2>5 DEF ShownInv
<1>13. CASE Unlink
  <2>1. Merged("rows") /\ Merged("docs")
    BY <1>0, <1>13, <1>z DEF MergeInv
  <2>2. View' = View /\ CopyInv'
    BY <1>m, <1>13, <2>1, UnlinkKeeps
  <2>3. UNCHANGED data /\ ov' = Unhidden({ActiveEpoch})
    BY <1>13 DEF Unlink
  <2>4. AboveInv'
    BY <1>0, <1>1, <1>m, <1>8, <2>3, AboveFrame
  <2>5. HideInv'
    BY <1>h, <1>z, <1>13, <2>3, UnhiddenElsewhere
  <2>6. MergeInv'
    BY <1>m, <1>z, <1>13 DEF MergeInv
  <2> QED BY <1>1, <1>5, <1>6, <1>7, <1>9, <2>2, <2>4, <2>5, <2>6 DEF ShownInv
<1> QED BY <1>10, <1>11, <1>12, <1>13

\* What readers see once the changes of o are applied, in every store.
Replaced(o) ==
  [s \in Stores |-> [f \in Files |-> IF f \in work[o].put THEN {o}
                                     ELSE IF f \in work[o].del THEN {} ELSE Visible(s, f)]]
\* The step Publish(o) of Publication.
Publishes(o) == work[o] # None /\ View' = Replaced(o)

\* A step that leaves table, stores, overrides and announced changes alone and starts
\* nothing keeps what the sixth layer says of them.
LEMMA ShownQuiet ==
  ASSUME TypeInv, ShownInv, UNCHANGED <<man, meta, data, ov, work>>,
         \A o \in Ops : Current(o)' => Current(o),
         \A o \in HotOps \cup FullOps : ck[o] = "in_progress" /\ man[o].st # "active" => ck'[o] = "in_progress",
         \A o \in FullOps : marks'[o] = marks[o],
         lapped \subseteq lapped'
  PROVE  FillInv' /\ AboveInv' /\ HideInv' /\ CopyInv' /\ View' = View
<1>0. Typed /\ FillInv /\ AboveInv /\ HideInv /\ CopyInv
  BY DEF TypeInv, ShownInv
<1>k. HotOps \subseteq Ops /\ ConfigOps \subseteq Ops /\ FullOps \subseteq Ops
  BY KindsApart
<1>1. ActiveEpoch' = ActiveEpoch /\ ActiveParent' = ActiveParent /\ ActiveOps' = ActiveOps
  BY SameMan
<1> HIDE DEF Current
<1>2. FillInv'
  BY <1>0, <1>k, <1>1 DEF FillInv
<1>3. AboveInv'
  BY <1>0, <1>1, AboveFrame
<1>4. \A o : Adoptable(o)' => Adoptable(o)
  BY AdoptableSame
<1> HIDE DEF Adoptable
<1>5. HideInv'
  BY <1>0, <1>k, <1>1, <1>4, HideFrame
<1>6. Untouched
  BY <1>1 DEF Untouched
<1>7. View' = View /\ CopyInv'
  BY <1>0, <1>6, UntouchedKeeps
<1> QED BY <1>2, <1>3, <1>5, <1>7

\* Activating a candidate with both modules marked shows all its changes at once: the
\* files it put are there and their inherited versions hidden, those it deleted are
\* hidden, and the others are inherited.
LEMMA HotPublishes ==
  ASSUME TypeInv, LaneInv, MarkInv, ShownInv, NEW o \in HotOps \cup ConfigOps, o = run.op, Adoptable(o),
         work[o] \in Changes, Stores \subseteq marks[o], UNCHANGED <<data, ov, work>>,
         ActiveEpoch' = ActiveEpoch + 1, ActiveParent' = ActiveEpoch, ActiveOps' # {}
  PROVE  Publishes(o) /\ CopyInv'
<1> DEFINE e == ActiveEpoch + 1
           put == work[o].put
           del == work[o].del
<1>0. /\ LoneInv /\ RowInv /\ BaseInv /\ AnnounceInv /\ FillInv /\ AboveInv /\ HideInv
      /\ Typed /\ ActiveEpoch \in Nat /\ ov \in Overrides
  BY EpochRange, GenAssumption DEF TypeInv, LaneInv, OrderlyInv, ShownInv, Bounded, Typed
<1>k. /\ HotOps \subseteq Ops /\ ConfigOps \subseteq Ops /\ FullOps \subseteq Ops /\ None \notin Ops
      /\ o \in Ops /\ o # None
  BY KindsApart
<1>1. Current(o) /\ man[o].data = e /\ man[o] \in Rows
  BY <1>0, <1>k DEF Current, Adoptable, Typed
<1>2. e \in Epochs /\ e > ActiveEpoch
  BY <1>0, <1>1, GenAssumption DEF Rows, Bounded, Epochs
<1>3. ActiveParent = 0
  BY <1>0, <1>1 DEF BaseInv
<1>4. ov[e] \subseteq put \cup del
  BY <1>0, <1>1 DEF HideInv
<1>5. /\ put \cup del \subseteq ov[e]
      /\ \A s \in Stores : (\A f \in put : data[s][e][f] = o) /\ (\A f \in del : data[s][e][f] = None)
  <2>1. CASE o \in HotOps
    <3>1. \A s \in Stores : Done(o, s)
      BY <1>0, <2>1 DEF MarkInv, AnnounceInv
    <3>2. "docs" \in Stores
      BY DEF Stores
    <3> QED BY <1>1, <3>1, <3>2 DEF Done
  <2>2. CASE o \in ConfigOps
    <3>1. put = {} /\ del = {}
      BY <1>0, <2>2 DEF AnnounceInv
    <3> QED BY <3>1
  <2> QED BY <2>1, <2>2
<1>6. ASSUME NEW s \in Stores, NEW f \in Files, f \notin put PROVE data[s][e][f] = None
  <2> SUFFICES ASSUME data[s][e][f] # None PROVE FALSE
    OBVIOUS
  <2> DEFINE x == data[s][e][f]
  <2>1. Owned(x, e, f)
    BY <1>0, <1>2 DEF AboveInv
  <2> HIDE DEF x
  <2>2. f \in work[x].put
    BY <2>1 DEF Owned
  <2>3. x = o
    BY <1>0, <1>1 DEF HideInv, x
  <2> QED BY <1>6, <2>2, <2>3
<1> HIDE DEF Current, Adoptable
<1>7. ASSUME NEW s \in Stores, NEW f \in Files
      PROVE  Visible(s, f)' = IF f \in put THEN {o} ELSE IF f \in del THEN {} ELSE Visible(s, f)
  <2>0. Visible(s, f)' = ({data[s][e][f]} \cup (IF ActiveEpoch > 0 /\ f \notin ov[e]
                                              THEN {data[s][ActiveEpoch][f]} ELSE {})) \ {None}
    BY DEF Visible
  <2> HIDE DEF e, put, del
  <2>1. CASE f \in put
    BY <1>k, <1>5, <2>0, <2>1
  <2>2. CASE f \notin put /\ f \in del
    BY <1>5, <2>0, <2>2
  <2>3. CASE f \notin put /\ f \notin del
    <3>1. data[s][e][f] = None /\ f \notin ov[e]
      BY <1>4, <1>6, <2>3
    <3>2. Visible(s, f)' = (IF ActiveEpoch > 0 THEN {data[s][ActiveEpoch][f]} ELSE {}) \ {None}
      BY <2>0, <3>1
    <3>3. CASE ActiveOps = {}
      <4>1. ActiveEpoch = 0 /\ Visible(s, f) = {}
        BY <3>3, EmptyActive DEF Visible
      <4> QED BY <2>3, <3>2, <4>1
    <3>4. CASE ActiveOps # {}
      <4>1. ActiveEpoch > 0
        BY <1>0, <3>4, ActiveEpochs
      <4>2. Visible(s, f) = {data[s][ActiveEpoch][f]} \ {None}
        BY <1>3, <3>4 DEF Visible
      <4> QED BY <2>3, <3>2, <4>1, <4>2
    <3> QED BY <3>3, <3>4
  <2> QED BY <2>1, <2>2, <2>3
<1>8. CopyInv'
  <2> SUFFICES ASSUME NEW s \in Stores, NEW f \in Files \ ov[e] PROVE data[s][e][f] = None
    BY DEF CopyInv
  <2> QED BY <1>5, <1>6
<1>9. View' = Replaced(o)
  <2>1. View' = [s \in Stores |-> [f \in Files |-> Visible(s, f)']]
    BY DEF View
  <2> QED BY <1>7, <2>1 DEF Replaced
<1>10. work[o] # None
  BY NoneAssumption DEF Changes
<1> QED BY <1>8, <1>9, <1>10 DEF Publishes

\* Writing one module into the candidate shows nothing.
LEMMA ShownWrite ==
  ASSUME TypeInv, OrderInv, LaneInv, ShownInv, Process
  PROVE  ShownInv' /\ View' = View /\ UNCHANGED work
<1> DEFINE o == run.op
           e == mem.hot
           w == work[o]
<1>0. /\ Typed /\ Launched /\ RoomInv /\ SlotInv /\ PointInv /\ LoneInv /\ RowInv
      /\ AnnounceInv /\ StageInv /\ FillInv /\ AboveInv /\ HideInv /\ CopyInv
      /\ ActiveEpoch \in Nat /\ ActiveParent \in Nat /\ data \in Datas /\ ov \in Overrides /\ run \in Runs
      /\ "mark" \in Pcs
  BY EpochRange, GenAssumption, PcNames
     DEF TypeInv, OrderInv, LaneInv, OrderlyInv, ShownInv, Bounded, Typed, HotPcs
<1>k. /\ HotOps \subseteq Ops /\ ConfigOps \subseteq Ops /\ FullOps \subseteq Ops /\ None \notin Ops
      /\ HotOps \cap FullOps = {} /\ ConfigOps \cap FullOps = {}
  BY KindsApart
<1>1. /\ run.pc = "process" /\ run' = [run EXCEPT !.pc = "mark"]
      /\ UNCHANGED <<man, meta, ck, work, marks, mem, lapped>>
      /\ ov' = [ov EXCEPT ![e] = @ \cup w.put \cup w.del]
      /\ data' = [s \in Stores |-> [data[s] EXCEPT ![e] = [f \in Files |->
                    IF f \in w.put /\ s = Module THEN o ELSE IF f \in w.del THEN None ELSE @[f]]]]
  BY DEF Process, At, ckVars
<1>2. run'.op = o /\ run'.pc = "mark" /\ run'.k = run.k /\ run'.failed = run.failed
  BY <1>0, <1>1, PcRun
<1>3. /\ o \in HotOps \cup ConfigOps /\ o \in Ops /\ o \notin FullOps /\ o # None /\ Current(o)
      /\ ck[o] = "in_progress" /\ man[o].st # "active" /\ Adoptable(o)
  BY <1>0, <1>k, <1>1 DEF PointInv, AnnounceInv, RoomInv, Current, HotPcs
<1>4. e = ActiveEpoch + 1 /\ e \in Epochs
  <2>1. e = ActiveEpoch + 1
    BY <1>0, <1>1, <1>3 DEF SlotInv, Astray, HotPcs
  <2>2. e \in 0..MaxEpoch
    BY <1>0 DEF Typed, Mems, Bounded
  <2> QED BY <1>0, <2>1, <2>2, GenAssumption DEF Epochs
<1>5. \A p \in Ops : Current(p) => p = o
  BY <1>0, <1>3 DEF LoneInv
<1>6. \A p : Current(p)' <=> Current(p)
  BY <1>1, <1>2 DEF Current
<1>7. ActiveEpoch' = ActiveEpoch /\ ActiveParent' = ActiveParent /\ ActiveOps' = ActiveOps
  BY <1>1, SameMan
<1>8. o \in ConfigOps => w.put = {}
  BY <1>0 DEF AnnounceInv
<1> HIDE DEF o, e, w, Current
<1>9. \A s \in Stores : \A d \in Epochs : d # e => data'[s][d] = data[s][d]
  BY <1>0, <1>1 DEF Datas
<1>10. \A s \in Stores : \A f \in Files : data'[s][e][f] =
          IF f \in w.put /\ s = Module THEN o ELSE IF f \in w.del THEN None ELSE data[s][e][f]
  BY <1>0, <1>1, <1>4 DEF Datas
<1>11. (\A d \in Epochs : d # e => ov'[d] = ov[d]) /\ ov'[e] = ov[e] \cup w.put \cup w.del
  BY <1>0, <1>1, <1>4 DEF Overrides
<1>12. AnnounceInv'
  BY <1>0, <1>1, <1>2 DEF AnnounceInv, o
<1>13. StageInv'
  BY <1>0, <1>1, <1>2 DEF StageInv, o
<1>14. FillInv'
  <2>1. \A p \in FullOps : ~Current(p)'
    BY <1>k, <1>3, <1>5, <1>6
  <2> QED BY <1>0, <1>1, <1>7, <2>1 DEF FillInv
<1>15. AboveInv'
  <2> SUFFICES ASSUME NEW d \in Epochs, d > ActiveEpoch, NEW s \in Stores, NEW f \in Files,
                      data'[s][d][f] # None
               PROVE  \A y : y = data'[s][d][f] => Owned(y, d, f)'
    BY <1>7 DEF AboveInv
  <2>0. \A x : Owned(x, d, f) => Owned(x, d, f)'
    BY <1>1, <1>7 DEF Owned
  <2>1. CASE data'[s][d][f] = data[s][d][f]
    <3>1. Owned(data[s][d][f], d, f)
      BY <1>0, <2>1 DEF AboveInv
    <3> DEFINE x == data[s][d][f]
    <3>2. Owned(x, d, f)
      BY <3>1
    <3>3. data'[s][d][f] = x
      BY <2>1
    <3> HIDE DEF x
    <3>4. \A y : y = x => Owned(y, d, f)'
      BY <2>0, <3>2
    <3> QED BY <3>3, <3>4
  <2>2. CASE data'[s][d][f] # data[s][d][f]
    <3>1. d = e /\ data'[s][d][f] = o /\ f \in w.put
      BY <1>9, <1>10, <2>2
    <3>2. Owned(o, d, f)
      BY <1>3, <1>4, <1>8, <3>1 DEF Owned, w
    <3>3. \A y : y = o => Owned(y, d, f)'
      BY <2>0, <3>2
    <3> QED BY <3>1, <3>3
  <2> QED BY <2>1, <2>2
<1>16. HideInv'
  <2> SUFFICES ASSUME NEW p \in HotOps \cup ConfigOps, Current(p)'
               PROVE  /\ ov'[ActiveEpoch + 1] \subseteq work'[p].put \cup work'[p].del
                      /\ \A s \in Stores : \A f \in Files : data'[s][ActiveEpoch + 1][f] \in {None, p}
    BY <1>7 DEF HideInv
  <2>1. p = o
    BY <1>k, <1>5, <1>6
  <2>2. /\ ov[ActiveEpoch + 1] \subseteq w.put \cup w.del
        /\ \A s \in Stores : \A f \in Files : data[s][ActiveEpoch + 1][f] \in {None, o}
    BY <1>0, <1>3 DEF HideInv, w
  <2>4. \A s \in Stores : \A f \in Files : data'[s][ActiveEpoch + 1][f] \in {None, o}
    BY <1>4, <1>10, <2>2
  <2>3. ov'[ActiveEpoch + 1] \subseteq w.put \cup w.del
    BY <1>4, <1>11, <2>2
  <2> QED BY <1>1, <2>1, <2>3, <2>4 DEF w
<1>17. Untouched
  <2>1. ActiveOps # {} => ActiveEpoch \in Epochs /\ ActiveEpoch # e
                         /\ (ActiveParent # 0 => ActiveParent \in Epochs /\ ActiveParent # e)
    BY <1>0, <1>4, ActiveEpochs
  <2> QED BY <1>7, <1>9, <1>11, <2>1 DEF Untouched
<1>18. View' = View /\ CopyInv'
  BY <1>0, <1>17, UntouchedKeeps
<1>19. MergeInv' /\ KeepInv'
  BY <1>2 DEF MergeInv, KeepInv
<1> QED BY <1>1, <1>12, <1>13, <1>14, <1>15, <1>16, <1>18, <1>19 DEF ShownInv

\* Neither does marking or skipping a module, or a failure before the commit.
LEMMA ShownModule ==
  ASSUME TypeInv, OrderInv, LaneInv, ShownInv,
         Mark \/ SkipModule \/ ProcessFails \/ CommitFails
  PROVE  ShownInv' /\ View' = View /\ UNCHANGED work
<1>0. /\ Typed /\ Launched /\ RoomInv /\ SlotInv /\ PointInv /\ LoneInv /\ AnnounceInv /\ StageInv
      /\ run \in Runs /\ marks \in [Ops -> SUBSET (Stores \cup Files)] /\ "abort" \in Pcs
  BY PcNames DEF TypeInv, OrderInv, LaneInv, OrderlyInv, ShownInv, Typed
<1>r. run.failed \in BOOLEAN
  BY <1>0 DEF Runs
<1>k. /\ HotOps \subseteq Ops /\ ConfigOps \subseteq Ops /\ FullOps \subseteq Ops /\ None \notin Ops
      /\ HotOps \cap FullOps = {} /\ ConfigOps \cap FullOps = {}
  BY KindsApart
<1>1. /\ run.pc \in {"process", "mark", "commit"} /\ UNCHANGED <<man, meta, data, ov, ck, work, mem, lapped>>
      /\ run.pc = "commit" => CommitFails
  BY DEF Mark, SkipModule, ProcessFails, CommitFails, At, dbVars, ckVars
<1>2. /\ run.op \in Ops /\ run.op \in HotOps \cup ConfigOps /\ run.op \notin FullOps /\ run.op # None
      /\ run.k \in 1..2 /\ ck[run.op] = "in_progress"
  BY <1>0, <1>1, <1>k DEF Launched, PointInv, AnnounceInv, HotPcs
<1>3. \A p \in Ops : p # run.op => marks'[p] = marks[p]
  BY <1>0 DEF Mark, SkipModule, ProcessFails, CommitFails, ckVars
<1>4. ActiveEpoch' = ActiveEpoch
  BY <1>1, SameMan
<1>m. Module \in Stores /\ (run.k = 1 => Module = "docs") /\ (run.k = 2 => Module = "rows")
  BY <1>2 DEF Module, Modules, Stores
<1> DEFINE t == TRUE
<1>5. /\ run'.op = run.op
      /\ \/ /\ run'.pc = "process" /\ run'.k = 2 /\ run.k = 1 /\ run.pc # "commit"
            /\ run'.failed = run.failed \/ run'.failed
         \/ /\ run'.pc = "commit" /\ run'.k = 1 /\ run.k = 2 /\ ~run'.failed /\ ~run.failed
            /\ Mark \/ SkipModule
         \/ run'.pc = "commit" /\ run'.k = 2 /\ run'.failed /\ run.pc = "commit"
         \/ run'.pc = "abort"
      /\ ~run'.failed => ~run.failed /\ (Mark \/ SkipModule)
  <2>1. CASE Mark \/ SkipModule
    <3>1. NextModule(run.failed) /\ run.pc # "commit"
      BY <2>1 DEF Mark, SkipModule, At
    <3>2. run'.op = run.op /\ run'.failed = run.failed
      BY <1>0, <1>r, <3>1, NextModuleRun
    <3>3. run.k < 2 => run'.pc = "process" /\ run'.k = 2
      BY <1>0, <1>r, <3>1, NextModuleRun
    <3>4. ~(run.k < 2) => run'.pc = (IF run.failed THEN "abort" ELSE "commit") /\ run'.k = 1
      BY <1>0, <1>r, <3>1, NextModuleRun
    <3>5. run.k = 1 \/ run.k = 2
      BY <1>2
    <3>6. CASE run.k = 1
      BY <2>1, <3>1, <3>2, <3>3, <3>6
    <3>7. CASE run.k = 2
      BY <2>1, <3>2, <3>4, <3>7
    <3> QED BY <3>5, <3>6, <3>7
  <2>2. CASE ProcessFails
    <3>1. NextModule(t) /\ run.pc # "commit" /\ t \in BOOLEAN /\ t
      BY <2>2 DEF ProcessFails, At
    <3> HIDE DEF t
    <3>2. run'.op = run.op /\ run'.failed = t
      BY <1>0, <3>1, NextModuleRun
    <3>3. run.k < 2 => run'.pc = "process" /\ run'.k = 2
      BY <1>0, <3>1, NextModuleRun
    <3>4. ~(run.k < 2) => run'.pc = (IF t THEN "abort" ELSE "commit")
      BY <1>0, <3>1, NextModuleRun
    <3>5. run.k = 1 \/ run.k = 2
      BY <1>2
    <3> QED BY <3>1, <3>2, <3>3, <3>4, <3>5
  <2>3. CASE CommitFails
    <3>0. run.pc = "commit"
      BY <2>3 DEF CommitFails, At
    <3>1. CASE run' = [run EXCEPT !.failed = TRUE, !.pc = "abort"]
      <4>1. run'.op = run.op /\ run'.pc = "abort" /\ run'.failed
        BY <1>0, <3>1 DEF Runs
      <4> QED BY <4>1
    <3>2. CASE NextCommit(t)
      <4>1. t \in BOOLEAN /\ t
        OBVIOUS
      <4> HIDE DEF t
      <4>2. run'.op = run.op /\ run'.failed = t
        BY <1>0, <3>2, <4>1, NextCommitRun
      <4>3. run.k < 2 => run'.pc = "commit" /\ run'.k = 2
        BY <1>0, <3>2, <4>1, NextCommitRun
      <4>4. ~(run.k < 2) => run'.pc = (IF t THEN "abort" ELSE "republish")
        BY <1>0, <3>2, <4>1, NextCommitRun
      <4> QED BY <3>0, <4>1, <4>2, <4>3, <4>4
    <3> QED BY <2>3, <3>1, <3>2 DEF CommitFails
  <2> QED BY <2>1, <2>2, <2>3
<1>6. /\ Mark => marks'[run.op] = marks[run.op] \cup {Module}
      /\ SkipModule => Module \in marks[run.op] /\ marks' = marks
      /\ CommitFails => marks' = marks /\ run.pc = "commit"
  BY <1>0, <1>2 DEF Mark, SkipModule, CommitFails, ckVars, At
<1>7. run.pc # "commit" => mem.hot = ActiveEpoch + 1 /\ man[run.op].st # "active"
  BY <1>0, <1>1, <1>2 DEF SlotInv, Astray, RoomInv, HotPcs
<1>8. Mark \/ SkipModule => run.pc # "commit"
  BY DEF Mark, SkipModule, At
<1>9. \A o \in Ops : Current(o)' => Current(o)
  BY <1>1, <1>5 DEF Current
<1> HIDE DEF Mark, SkipModule, ProcessFails, CommitFails, Module, Current, t
<1>10. AnnounceInv'
  BY <1>0, <1>k, <1>1, <1>2, <1>3, <1>5 DEF AnnounceInv
<1>11. StageInv'
  <2>1. CASE run'.pc = "process"
    <3>1. run'.k = 2 /\ ~run'.failed => "docs" \in marks'[run.op]
      BY <1>m, <1>5, <1>6, <2>1
    <3> QED BY <1>5, <2>1, <3>1 DEF StageInv
  <2>2. CASE run'.pc = "commit" /\ run.pc # "commit"
    <3>1. "docs" \in marks[run.op]
      BY <1>0, <1>1, <1>5, <1>6, <2>2 DEF StageInv
    <3>2. "docs" \in marks'[run.op] /\ "rows" \in marks'[run.op]
      BY <1>m, <1>5, <1>6, <2>2, <3>1
    <3>3. Stores \subseteq marks'[run.op]
      BY <3>2 DEF Stores
    <3> QED BY <1>1, <1>4, <1>5, <1>7, <2>2, <3>3 DEF StageInv
  <2>3. CASE run'.pc = "abort"
    BY <2>3 DEF StageInv
  <2>4. CASE run'.pc = "commit" /\ run.pc = "commit"
    <3>1. run'.k = 2 /\ marks' = marks
      BY <1>1, <1>5, <1>6, <1>8, <2>4
    <3> QED BY <1>0, <1>1, <1>4, <1>5, <2>4, <3>1 DEF StageInv
  <2> QED BY <1>5, <2>1, <2>2, <2>3, <2>4
<1>12. FillInv' /\ AboveInv' /\ HideInv' /\ CopyInv' /\ View' = View
  BY <1>k, <1>1, <1>2, <1>3, <1>9, ShownQuiet
<1>13. MergeInv' /\ KeepInv'
  BY <1>5 DEF MergeInv, KeepInv
<1> QED BY <1>1, <1>10, <1>11, <1>12, <1>13 DEF ShownInv

\* Neither does an abort, which clears the candidate epoch.
LEMMA ShownAbort ==
  ASSUME TypeInv, OrderInv, LaneInv, ShownInv, Abort, harm' = {}
  PROVE  ShownInv' /\ View' = View /\ UNCHANGED work
<1>0. /\ Typed /\ Launched /\ DistinctPubs(man) /\ PointInv /\ LoneInv /\ RowInv
      /\ AnnounceInv /\ StageInv /\ FillInv /\ AboveInv /\ HideInv /\ CopyInv
      /\ ActiveEpoch \in Nat /\ ActiveParent \in Nat /\ run \in Runs /\ man \in [Ops -> Rows]
      /\ "rows" \in Stores /\ mem \in Mems
  BY EpochRange, GenAssumption
     DEF TypeInv, OrderInv, LaneInv, OrderlyInv, ShownInv, Bounded, Typed, Stores
<1>k. /\ HotOps \subseteq Ops /\ ConfigOps \subseteq Ops /\ FullOps \subseteq Ops /\ None \notin Ops
      /\ HotOps \cap FullOps = {} /\ ConfigOps \cap FullOps = {} /\ HotOps \cap ConfigOps = {}
  BY KindsApart
<1>1. /\ run.pc = "abort" /\ MarkFailed(run.op) /\ data' = Wiped(data, "rows", {mem.hot})
      /\ ov' = Unhidden({mem.hot}) /\ mem' = [mem EXCEPT !.slot = None] /\ UNCHANGED <<meta, work, marks, lapped>>
  BY DEF Abort, At
<1>2. /\ run.op \in Ops /\ run.op \in HotOps \cup ConfigOps /\ run.op \notin FullOps /\ run.op # None
      /\ ck[run.op] = "in_progress" /\ Current(run.op)
  BY <1>0, <1>1, <1>k DEF Launched, PointInv, AnnounceInv, Current
<1>h. mem.hot \notin {ActiveEpoch, ActiveParent} \ {0}
  <2>1. harm' = harm \cup {h \in {"cleared"} : mem.hot \in {ActiveEpoch, ActiveParent} \ {0}}
    BY DEF Abort
  <2>2. "cleared" \notin {h \in {"cleared"} : mem.hot \in {ActiveEpoch, ActiveParent} \ {0}}
    BY <2>1
  <2> QED BY <2>2
<1>3. /\ run' = Idle \/ (run'.op = run.op /\ run'.pc = "abort" /\ ck' = ck)
      /\ \A p \in Ops : ck'[p] # ck[p] => p = run.op /\ p \in ConfigOps /\ ck'[p] = "failed" /\ run' = Idle
  <2>1. CASE run.k < 2
    <3>1. run' = [run EXCEPT !.k = 2] /\ ck' = ck
      BY <1>1, <2>1 DEF Abort
    <3>2. run'.op = run.op /\ run'.pc = "abort"
      BY <1>0, <1>1, <3>1 DEF Runs
    <3> QED BY <3>1, <3>2
  <2>2. CASE ~(run.k < 2)
    <3>1. run' = Idle /\ ck' = [ck EXCEPT ![run.op] = IF run.op \in ConfigOps THEN "failed" ELSE @]
      BY <2>2 DEF Abort
    <3> QED BY <1>0, <3>1 DEF Typed
  <2> QED BY <2>1, <2>2
<1>4. run' = Idle => run'.op = None /\ run'.pc = "idle"
  BY LaunchRun
<1>5. /\ ActOps(man') = ActOps(man) /\ man' \in [Ops -> Rows]
      /\ \A p \in Ops : /\ man'[p].data = man[p].data
                        /\ man'[p].st = IF p = run.op /\ man[p].st = "building" THEN "failed" ELSE man[p].st
      /\ ActiveEpoch' = ActiveEpoch /\ ActiveParent' = ActiveParent
  BY <1>0, <1>1, <1>2, MarkFailedType
<1>6. ActiveOps' = ActiveOps
  BY <1>5, ActiveIsTop
<1>7. mem'.hot = mem.hot
  BY <1>0, <1>1 DEF Mems
<1>8. \A p \in Ops : Current(p)' => Current(p)
  BY <1>k, <1>1, <1>3, <1>4 DEF Current
<1>9. \A p \in Ops : Current(p) => p = run.op
  BY <1>0, <1>2 DEF LoneInv
<1>10. \A p \in Ops : p = run.op => ~Adoptable(p)'
  BY <1>5 DEF Adoptable
<1> HIDE DEF Current, Adoptable, MarkFailed
<1>11. AnnounceInv'
  <2>1. \A p \in HotOps \cup ConfigOps \cup FullOps : ck'[p] = "none" => ck[p] = "none" /\ man'[p].st = man[p].st
    BY <1>k, <1>2, <1>3, <1>5
  <2>2. \A p \in FullOps : ck'[p] = ck[p]
    BY <1>k, <1>3
  <2>4. run'.op \notin lapped' /\ run'.pc \notin FullPcs /\ run'.op \notin FullOps
    BY <1>0, <1>k, <1>1, <1>2, <1>3, <1>4 DEF AnnounceInv, FullPcs
  <2>5. run'.op \in HotOps \cup ConfigOps => ck'[run'.op] = "in_progress" /\ run'.op = run.op
    BY <1>k, <1>2, <1>3, <1>4
  <2> QED BY <1>0, <1>k, <1>1, <2>1, <2>2, <2>4, <2>5 DEF AnnounceInv, FullPcs
<1>12. StageInv'
  BY <1>3, <1>4 DEF StageInv
<1>13. FillInv'
  <2>1. \A p \in FullOps : ~Current(p)' /\ (ck'[p] = "none" => ck[p] = "none")
    BY <1>k, <1>2, <1>3, <1>8, <1>9
  <2>2. \A p \in Ops : man'[p].st # "none" => man[p].st # "none"
    BY <1>5
  <2> QED BY <1>0, <1>1, <1>5, <2>1, <2>2 DEF FillInv
<1>14. \A s \in Stores : \A e \in Epochs :
         /\ e \notin {mem.hot} => data'[s][e] = data[s][e]
         /\ \A f \in Files : data'[s][e][f] \in {None, data[s][e][f]}
         /\ s = "rows" /\ e \in {mem.hot} => \A f \in Files : data'[s][e][f] = None
  BY <1>0, <1>1, WipedElsewhere
<1>15. \A e \in Epochs : ov'[e] \subseteq ov[e] /\ (e \notin {mem.hot} => ov'[e] = ov[e])
  BY <1>1, UnhiddenElsewhere
<1>16. AboveInv'
  <2>1. \A x \in HotOps \cup FullOps : ck[x] = "in_progress" /\ man[x].st # "active" =>
          /\ ck'[x] = "in_progress" /\ man'[x].st # "active" /\ work'[x] = work[x]
          /\ x \in FullOps => meta'.epoch = meta.epoch
    BY <1>k, <1>1, <1>3, <1>5
  <2> QED BY <1>0, <1>1, <1>5, <1>14, <2>1, AboveFrame
<1>17. HideInv'
  BY <1>k, <1>8, <1>9, <1>10 DEF HideInv
<1>18. Untouched
  <2>1. ActiveOps # {} => ActiveEpoch \in Epochs /\ ActiveEpoch # mem.hot
                         /\ (ActiveParent # 0 => ActiveParent \in Epochs /\ ActiveParent # mem.hot)
    BY <1>0, <1>h, ActiveEpochs
  <2> QED BY <1>5, <1>6, <1>14, <1>15, <2>1 DEF Untouched
<1>19. View' = View /\ CopyInv'
  BY <1>0, <1>18, UntouchedKeeps
<1>20. MergeInv' /\ KeepInv'
  BY <1>3, <1>4 DEF MergeInv, KeepInv
<1> QED BY <1>1, <1>11, <1>12, <1>13, <1>16, <1>17, <1>19, <1>20 DEF ShownInv

\* The commit publishes the operation, or shows nothing when the other processor has
\* published it.
LEMMA ShownCommit ==
  ASSUME TypeInv, OrderInv, LaneInv, MarkInv, ShownInv, Commit
  PROVE  ShownInv' /\ UNCHANGED work /\ (View' = View \/ \E o \in Ops : Publishes(o))
<1>0. /\ Typed /\ Launched /\ DistinctPubs(man) /\ PointInv /\ LoneInv /\ RowInv /\ NewestInv /\ BaseInv
      /\ AnnounceInv /\ StageInv /\ FillInv /\ AboveInv /\ HideInv /\ CopyInv
      /\ ActiveEpoch \in Nat /\ ActiveParent \in Nat /\ run \in Runs /\ man \in [Ops -> Rows]
      /\ mem \in Mems /\ mem.hot \in Bounded /\ "plan" \in Pcs
  BY EpochRange, GenAssumption, PcNames
     DEF TypeInv, OrderInv, LaneInv, OrderlyInv, ShownInv, Bounded, Typed, Mems
<1>k. /\ HotOps \subseteq Ops /\ ConfigOps \subseteq Ops /\ FullOps \subseteq Ops /\ None \notin Ops
      /\ HotOps \cap FullOps = {} /\ ConfigOps \cap FullOps = {} /\ HotOps \cap ConfigOps = {}
  BY KindsApart
<1>1. /\ run.pc = "commit" /\ Activate(run.op, mem.hot) /\ run' = [run EXCEPT !.pc = "plan"]
      /\ UNCHANGED <<data, ov, ck, work, marks, lapped>>
  BY DEF Commit, At, ckVars
<1>2. run'.op = run.op /\ run'.pc = "plan" /\ run'.failed = run.failed
  BY <1>0, <1>1, PcRun
<1>3. /\ run.op \in Ops /\ run.op \in HotOps \cup ConfigOps /\ run.op \notin FullOps /\ run.op # None
      /\ ck[run.op] = "in_progress" /\ Current(run.op)
  BY <1>0, <1>1, <1>k DEF Launched, PointInv, AnnounceInv, Current
<1>4. \A p : Current(p)' <=> Current(p)
  BY <1>1, <1>2 DEF Current
<1>5. \A p \in Ops : Current(p) => p = run.op
  BY <1>0, <1>3 DEF LoneInv
<1>6. StageInv'
  BY <1>2 DEF StageInv
<1>7. MergeInv' /\ KeepInv'
  BY <1>2 DEF MergeInv, KeepInv
<1>8. CASE man[run.op].st = "active"
  <2>1. Activated(run.op, mem.hot) = man[run.op]
    BY <1>0, <1>3, <1>8, ActivatedRow
  <2>2. UNCHANGED <<man, meta>>
    BY <1>0, <1>1, <1>8, <2>1 DEF Activate
  <2> HIDE DEF Current
  <2>3. FillInv' /\ AboveInv' /\ HideInv' /\ CopyInv' /\ View' = View
    BY <1>1, <1>4, <2>2, ShownQuiet
  <2>4. AnnounceInv'
    BY <1>0, <1>1, <1>2, <2>2 DEF AnnounceInv
  <2> QED BY <1>1, <1>6, <1>7, <2>3, <2>4 DEF ShownInv
<1>9. CASE man[run.op].st # "active"
  <2>1. Adoptable(run.op) /\ man[run.op].st = "building" /\ man[run.op].parent = ActiveEpoch
        /\ man[run.op].data = ActiveEpoch + 1
    BY <1>0, <1>1, <1>9 DEF PointInv, Adoptable, IsTop, ActOps
  <2>2. ActiveParent = 0 /\ mem.hot = ActiveEpoch + 1 /\ Stores \subseteq marks[run.op]
    BY <1>0, <1>1, <1>3, <1>9, <2>1 DEF BaseInv, StageInv
  <2>3. \A p \in Ops \ {run.op} : man[p].st # "none" => man[p].pub < man[run.op].pub
    BY <1>0, <1>3, <2>1 DEF NewestInv
  <2>a. PICK o \in HotOps \cup ConfigOps : o = run.op
    BY <1>3
  <2>b. /\ o \in Ops /\ Activate(o, mem.hot) /\ man[o].st # "active" /\ man[o].st # "none"
        /\ \A p \in Ops \ {o} : man[p].st # "none" => man[p].pub < man[o].pub
        /\ man[o].parent = ActiveEpoch /\ Adoptable(o) /\ Current(o)
        /\ o \notin FullOps /\ Stores \subseteq marks[o]
    BY <1>1, <1>3, <1>9, <2>a, <2>1, <2>2, <2>3
  <2> HIDE DEF Current, Adoptable
  <2>4. /\ IsTop(man', o) /\ man'[o].st = "active" /\ man'[o].data = mem.hot
        /\ \A p \in Ops \ {o} : man'[p] = man[p]
        /\ ActiveEpoch' = mem.hot /\ ActiveParent' = man'[o].parent
        /\ meta'.epoch = mem.hot /\ meta'.ready
        /\ man'[o].parent = man[o].parent
    BY <1>0, <2>b, <2>2, ActivateNewest
  <2>5. ActiveEpoch' = ActiveEpoch + 1 /\ ActiveParent' = ActiveEpoch /\ ActiveOps' # {}
    BY <2>b, <2>2, <2>4, ActiveIsTop DEF IsTop
  <2>6. work[o] \in Changes
    <3>1. CASE o \in HotOps
      BY <1>0, <1>3, <2>a, <3>1 DEF Launched
    <3>2. CASE o \in ConfigOps
      BY <1>0, <2>a, <3>2 DEF AnnounceInv, Changes
    <3> QED BY <3>1, <3>2
  <2>7. Publishes(o) /\ CopyInv'
    BY <1>1, <2>a, <2>b, <2>5, <2>6, HotPublishes
  <2>8. AnnounceInv'
    <3>1. \A p \in HotOps \cup ConfigOps \cup FullOps : ck[p] = "none" => man'[p].st = man[p].st
      BY <1>k, <1>3, <2>a, <2>4
    <3> QED BY <1>0, <1>1, <1>2, <3>1 DEF AnnounceInv
  <2>9. FillInv'
    <3>1. \A p \in FullOps : ~Current(p)'
      BY <1>k, <1>3, <1>4, <1>5
    <3>2. \A p \in Ops : man'[p].st # "none" => man'[p].data # 0
      BY <1>0, <2>2, <2>4 DEF FillInv
    <3> QED BY <1>0, <1>1, <2>4, <3>1, <3>2 DEF FillInv
  <2>10. AboveInv'
    <3> SUFFICES ASSUME NEW e \in Epochs, e > ActiveEpoch + 1, NEW s \in Stores, NEW f \in Files,
                        data[s][e][f] # None
                 PROVE  \A y : y = data[s][e][f] => Owned(y, e, f)'
      BY <1>1, <2>5 DEF AboveInv
    <3> DEFINE x == data[s][e][f]
    <3>1. e > ActiveEpoch /\ e # ActiveEpoch + 1
      BY <1>0 DEF Epochs
    <3>2. Owned(x, e, f)
      BY <1>0, <3>1 DEF AboveInv
    <3> HIDE DEF x
    <3>3. x \in FullOps /\ ck[x] = "in_progress" /\ f \in work[x].put /\ man[x].st # "active"
      BY <3>1, <3>2 DEF Owned
    <3>4. x \in lapped
      <4>1. x \notin lapped => Current(x)
        BY <3>3 DEF Current
      <4> QED BY <1>k, <1>3, <1>5, <3>3, <4>1
    <3>5. man'[x] = man[x] /\ x \notin HotOps
      BY <1>k, <1>3, <2>a, <2>4, <3>3
    <3>6. \A y : y = x => Owned(y, e, f)'
      BY <1>1, <3>3, <3>4, <3>5 DEF Owned
    <3> QED BY <3>6 DEF x
  <2>11. HideInv'
    <3>1. \A p \in Ops : p = o => ~Adoptable(p)'
      BY <2>4 DEF Adoptable
    <3> QED BY <1>k, <1>4, <1>5, <2>a, <3>1 DEF HideInv
  <2> QED BY <1>1, <1>6, <1>7, <2>b, <2>7, <2>8, <2>9, <2>10, <2>11 DEF ShownInv
<1> QED BY <1>8, <1>9

\* The plan protects the active row and what it inherits from, with any retention.
LEMMA PlanKeeps ==
  ASSUME TypeInv, FillInv, NEW t, IsTop(man, t), NEW old \in SUBSET Ops
  PROVE  /\ ActiveEpoch \in GcPlan(old).protected
         /\ ActiveParent # 0 => ActiveParent \in GcPlan(old).protected
         /\ GcPlan(old).stale \cap GcPlan(old).protected = {}
<1>0. man \in [Ops -> Rows] /\ DistinctPubs(man) /\ t \in Ops /\ man[t].st = "active" /\ ActiveOps = ActOps(man)
  BY ActiveIsTop DEF TypeInv, Typed, IsTop, ActOps
<1>1. ActiveEpoch = man[t].data /\ ActiveParent = man[t].parent
  BY <1>0, TopIs, ActiveIsTop
<1>2. {p \in ActiveOps : man[p].pub > man[t].pub} = {}
  <2> SUFFICES ASSUME NEW p \in ActOps(man), man[p].pub > man[t].pub PROVE FALSE
    BY <1>0
  <2>1. man[p].pub <= man[t].pub /\ man[p].pub \in Nat /\ man[t].pub \in Nat
    BY <1>0 DEF IsTop, ActOps, Rows
  <2> QED BY <2>1
<1>3. t \in Kept(old)
  <2>1. Cardinality({p \in ActiveOps : man[p].pub > man[t].pub}) = 0
    BY <1>2, FS_EmptySet
  <2>2. Cardinality({p \in ActiveOps : man[p].pub > man[t].pub}) < KeepActive
    BY <2>1, GenAssumption
  <2> QED BY <1>0, <2>2 DEF Kept
<1> DEFINE P == Protected(old)
           U == UNION {{man[o].data} \cup Ancestors(o) : o \in Kept(old)}
<1>4. man[t].data \in U /\ man[t].parent \in U
  BY <1>3 DEF Ancestors
<1>5. P = (U \cup {meta.active, meta.epoch}) \ {0}
  BY DEF Protected
<1> HIDE DEF U
<1>6. man[t].data # 0
  BY <1>0 DEF FillInv
<1>7. man[t].data \in P /\ (man[t].parent # 0 => man[t].parent \in P)
  BY <1>4, <1>5, <1>6
<1>8. GcPlan(old).protected = P /\ GcPlan(old).stale \cap P = {}
  BY DEF GcPlan
<1> HIDE DEF P
<1> QED BY <1>1, <1>7, <1>8

\* The collection shows nothing.
LEMMA ShownCollect ==
  ASSUME TypeInv, OrderInv, LaneInv, ShownInv, TypeInv', PlanGc \/ CollectDocs \/ CollectRows \/ GcFails
  PROVE  ShownInv' /\ View' = View /\ UNCHANGED work
<1>0. /\ Typed /\ Launched /\ DistinctPubs(man) /\ PlanInv /\ PointInv /\ LoneInv /\ RowInv
      /\ AnnounceInv /\ StageInv /\ FillInv /\ AboveInv /\ HideInv /\ CopyInv /\ KeepInv
      /\ run \in Runs /\ man \in [Ops -> Rows] /\ NoPlan \in Plans
      /\ man' \in [Ops -> Rows] /\ DistinctPubs(man')
      /\ "collectDocs" \in Pcs /\ "collectRows" \in Pcs /\ "finish" \in Pcs
      /\ "rows" \in Stores /\ "docs" \in Stores
  BY PcNames DEF TypeInv, OrderInv, LaneInv, OrderlyInv, ShownInv, Typed, GcPcs, NoPlan,
     Plans, Stores
<1>r. run.failed \in BOOLEAN
  BY <1>0 DEF Runs
<1>k. /\ HotOps \subseteq Ops /\ ConfigOps \subseteq Ops /\ FullOps \subseteq Ops /\ None \notin Ops
  BY KindsApart
<1>1. run.pc \in GcPcs /\ UNCHANGED <<meta, ck, work, marks, lapped>>
  BY DEF PlanGc, CollectDocs, CollectRows, GcFails, At, GcPcs, dbVars, ckVars
<1>2. /\ run.op \in Ops /\ run.op # None /\ run.k \in 1..2 /\ IsTop(man, run.op) /\ man[run.op].st = "active"
      /\ Current(run.op) /\ ActiveOps # {}
  BY <1>0, <1>k, <1>1, ActiveIsTop DEF PointInv, GcPcs, Launched, IsTop, ActOps, Current
<1>3. \A p \in Ops : Current(p) => p = run.op
  BY <1>0, <1>2 DEF LoneInv
<1>4. /\ ActiveEpoch \in Epochs
      /\ ActiveParent # 0 => ActiveParent \in Epochs
  BY <1>0, <1>2, ActiveEpochs
<1> HIDE DEF NoPlan, Plans
<1>c. ASSUME NextCommit(run.failed), run.op \notin FullOps
      PROVE  run'.op = run.op /\ ((run'.pc = "commit" /\ run'.k = 2) \/ run'.pc \in {"republish", "abort"})
  <2>1. run'.op = run.op
    BY <1>0, <1>c, <1>r, NextCommitRun
  <2>2. run.k < 2 => run'.pc = "commit" /\ run'.k = 2
    BY <1>0, <1>c, <1>r, NextCommitRun
  <2>3. ~(run.k < 2) => run'.pc = (IF run.failed THEN "abort" ELSE "republish")
    BY <1>0, <1>c, <1>r, NextCommitRun
  <2> QED BY <1>2, <1>c, <2>1, <2>2, <2>3
<1>n. ASSUME run'.op = run.op \/ run'.op = None, run'.op # run.op => run'.pc = "idle",
             run'.pc \notin {"idle"} \cup FullPcs \cup HotPcs \cup {"abort"} => run'.op = run.op,
             run'.pc \notin FullPcs,
             \A p \in Ops : man'[p].st # "none" => man'[p] = man[p]
      PROVE  AnnounceInv' /\ \A p \in Ops : Current(p)' => Current(p)
  <2>1. \A p \in Ops : Current(p)' => Current(p)
    BY <1>k, <1>1, <1>n DEF Current
  <2>2. \A p \in HotOps \cup ConfigOps \cup FullOps : ck[p] = "none" => man'[p].st = "none"
    BY <1>0, <1>k, <1>n DEF AnnounceInv
  <2>3. AnnounceInv'
    BY <1>0, <1>k, <1>1, <1>2, <1>n, <2>2 DEF AnnounceInv, FullPcs
  <2> QED BY <2>1, <2>3
<1> HIDE DEF Current, Adoptable, IsTop
<1>5. CASE PlanGc
  <2>1. UNCHANGED <<man, meta, data, ov>>
    BY <1>5 DEF PlanGc, dbVars
  <2>2. PICK old \in SUBSET Ops : run' = [run EXCEPT !.plan = GcPlan(old), !.pc = "collectDocs"]
    BY <1>5 DEF PlanGc
  <2> DEFINE P == GcPlan(old)
  <2>3. run' = [run EXCEPT !.plan = P, !.pc = "collectDocs"]
    BY <2>2
  <2>4. ActiveEpoch \in P.protected /\ (ActiveParent # 0 => ActiveParent \in P.protected)
        /\ P.stale \cap P.protected = {}
    BY <1>0, <1>2, PlanKeeps
  <2> HIDE DEF P
  <2>5. run'.plan = P /\ run'.pc = "collectDocs" /\ run'.op = run.op /\ run'.failed = run.failed
    BY <1>0, <2>3 DEF Runs
  <2>6. AnnounceInv' /\ \A p \in Ops : Current(p)' => Current(p)
    BY <1>n, <2>1, <2>5 DEF FullPcs
  <2>7. FillInv' /\ AboveInv' /\ HideInv' /\ CopyInv' /\ View' = View
    BY <1>1, <2>1, <2>6, ShownQuiet
  <2>8. ActiveEpoch' = ActiveEpoch /\ ActiveParent' = ActiveParent
    BY <2>1, SameMan
  <2>9. KeepInv'
    BY <2>4, <2>5, <2>8 DEF KeepInv
  <2>10. StageInv' /\ MergeInv'
    BY <1>2, <2>5 DEF StageInv, MergeInv
  <2> QED BY <1>1, <2>6, <2>7, <2>9, <2>10 DEF ShownInv
<1>6. CASE GcFails
  <2>1. UNCHANGED <<man, meta, data, ov>>
    BY <1>6 DEF GcFails, dbVars
  <2>2. \/ run'.pc = "idle" /\ run'.op = None
        \/ /\ run'.op = run.op
           /\ (run'.pc = "commit" /\ run'.k = 2) \/ run'.pc \in {"republish", "abort"}
    BY <1>6, <1>c, LaunchRun DEF GcFails
  <2>3. AnnounceInv' /\ \A p \in Ops : Current(p)' => Current(p)
    BY <1>n, <2>1, <2>2 DEF FullPcs
  <2>4. FillInv' /\ AboveInv' /\ HideInv' /\ CopyInv' /\ View' = View
    BY <1>1, <2>1, <2>3, ShownQuiet
  <2>5. StageInv' /\ MergeInv' /\ KeepInv'
    BY <1>2, <2>1, <2>2 DEF StageInv, MergeInv, KeepInv
  <2> QED BY <1>1, <2>3, <2>4, <2>5 DEF ShownInv
<1>7. CASE CollectDocs
  <2>1. /\ run.pc = "collectDocs" /\ run' = [run EXCEPT !.pc = "collectRows"] /\ UNCHANGED <<man, ov>>
        /\ data' = Wiped(data, "docs", Epochs \ run.plan.protected)
    BY <1>7 DEF CollectDocs, At
  <2>2. run'.pc = "collectRows" /\ run'.op = run.op /\ run'.failed = run.failed /\ run'.plan = run.plan
    BY <1>0, <2>1, PcRun
  <2>3. \A s \in Stores : \A e \in Epochs :
          /\ e \notin Epochs \ run.plan.protected => data'[s][e] = data[s][e]
          /\ \A f \in Files : data'[s][e][f] \in {None, data[s][e][f]}
          /\ s = "docs" /\ e \in Epochs \ run.plan.protected => \A f \in Files : data'[s][e][f] = None
    <3> DEFINE E == Epochs \ run.plan.protected
    <3>1. data' = Wiped(data, "docs", E)
      BY <2>1
    <3> HIDE DEF E
    <3>2. \A s \in Stores : \A e \in Epochs :
            /\ e \notin E => data'[s][e] = data[s][e]
            /\ \A f \in Files : data'[s][e][f] \in {None, data[s][e][f]}
            /\ s = "docs" /\ e \in E => \A f \in Files : data'[s][e][f] = None
      BY <1>0, <3>1, WipedElsewhere
    <3> QED BY <3>2 DEF E
  <2>4. ActiveEpoch' = ActiveEpoch /\ ActiveParent' = ActiveParent /\ ActiveOps' = ActiveOps
    BY <2>1, SameMan
  <2>5. KeepInv' /\ ActiveEpoch \in run.plan.protected /\ (ActiveParent # 0 => ActiveParent \in run.plan.protected)
    BY <1>0, <2>1, <2>2, <2>4 DEF KeepInv
  <2>6. Untouched
    BY <1>4, <2>1, <2>3, <2>4, <2>5 DEF Untouched
  <2>7. View' = View /\ CopyInv'
    BY <1>0, <2>6, UntouchedKeeps
  <2>8. AnnounceInv' /\ \A p \in Ops : Current(p)' => Current(p)
    BY <1>n, <2>1, <2>2 DEF FullPcs
  <2>9. AboveInv'
    <3>1. \A x \in HotOps \cup FullOps : ck[x] = "in_progress" /\ man[x].st # "active" =>
            /\ ck'[x] = "in_progress" /\ man'[x].st # "active" /\ work'[x] = work[x]
            /\ x \in FullOps \ lapped' => meta'.epoch = meta.epoch
      BY <1>1, <2>1
    <3> QED BY <1>0, <1>1, <2>3, <2>4, <3>1, AboveFrame
  <2>10. FillInv'
    <3>1. \A o \in FullOps : Current(o)' => Current(o) /\ man[o].st = "active"
      BY <1>k, <1>2, <1>3, <2>8
    <3> QED BY <1>0, <1>1, <2>1, <2>4, <3>1 DEF FillInv
  <2>11. HideInv'
    <3>1. \A p \in Ops : Current(p)' => ~Adoptable(p)'
      BY <1>2, <1>3, <2>1, <2>8 DEF Adoptable
    <3> QED BY <1>k, <3>1 DEF HideInv
  <2>12. StageInv' /\ MergeInv'
    BY <1>2, <2>2 DEF StageInv, MergeInv
  <2> QED BY <1>1, <2>5, <2>7, <2>8, <2>9, <2>10, <2>11, <2>12 DEF ShownInv
<1>8. CASE CollectRows
  <2>1. /\ run.pc = "collectRows" /\ ov' = Unhidden(run.plan.stale)
        /\ data' = Wiped(data, "rows", run.plan.stale)
        /\ man' = [o \in Ops |-> IF man[o].pub \in run.plan.pubs THEN NoRow ELSE man[o]]
    BY <1>8 DEF CollectRows, At
  <2>2. /\ run'.op = run.op
        /\ \/ run'.pc = "finish"
           \/ (run'.pc = "commit" /\ run'.k = 2) \/ run'.pc \in {"republish", "abort"}
    <3>1. CASE run.op \in FullOps
      <4>1. run' = [run EXCEPT !.pc = "finish", !.plan = NoPlan]
        BY <1>8, <3>1 DEF CollectRows
      <4> QED BY <1>0, <4>1 DEF Runs
    <3>2. CASE run.op \notin FullOps
      BY <1>8, <1>c, <3>2 DEF CollectRows
    <3> QED BY <3>1, <3>2
  <2>3. ActivePub \notin run.plan.pubs
    BY <1>0, <1>2, <2>1 DEF PlanInv
  <2>4. /\ IsTop(man', run.op) /\ man'[run.op] = man[run.op]
        /\ ActiveEpoch' = ActiveEpoch /\ ActiveParent' = ActiveParent
        /\ \A q \in Ops : man'[q].st # "none" => man'[q] = man[q]
    BY <1>0, <1>2, <2>1, <2>3, CollectKeeps
  <2>5. ActiveOps' # {}
    BY <2>4, ActiveIsTop DEF IsTop
  <2>6. \A s \in Stores : \A e \in Epochs :
          /\ e \notin run.plan.stale => data'[s][e] = data[s][e]
          /\ \A f \in Files : data'[s][e][f] \in {None, data[s][e][f]}
          /\ s = "rows" /\ e \in run.plan.stale => \A f \in Files : data'[s][e][f] = None
    BY <1>0, <2>1, WipedElsewhere
  <2>7. \A e \in Epochs : ov'[e] \subseteq ov[e] /\ (e \notin run.plan.stale => ov'[e] = ov[e])
    BY <2>1, UnhiddenElsewhere
  <2>8. ActiveEpoch \notin run.plan.stale /\ (ActiveParent # 0 => ActiveParent \notin run.plan.stale)
    BY <1>0, <2>1 DEF KeepInv
  <2>9. Untouched
    BY <1>2, <1>4, <2>4, <2>5, <2>6, <2>7, <2>8 DEF Untouched
  <2>10. View' = View /\ CopyInv'
    BY <1>0, <2>9, UntouchedKeeps
  <2>11. AnnounceInv' /\ \A p \in Ops : Current(p)' => Current(p)
    BY <1>n, <2>2, <2>4 DEF FullPcs
  <2>12. AboveInv'
    <3>1. \A x \in HotOps \cup FullOps : ck[x] = "in_progress" /\ man[x].st # "active" =>
            /\ ck'[x] = "in_progress" /\ man'[x].st # "active" /\ work'[x] = work[x]
            /\ x \in FullOps \ lapped' => meta'.epoch = meta.epoch
      BY <1>k, <1>1, <2>4
    <3> QED BY <1>0, <1>1, <2>4, <2>6, <3>1, AboveFrame
  <2>13. FillInv'
    <3>1. \A o \in FullOps : Current(o)' => Current(o) /\ o = run.op
      BY <1>k, <1>3, <2>11
    <3>2. \A o \in Ops : man'[o].st # "none" => man'[o].data # 0
      BY <1>0, <2>4 DEF FillInv
    <3> QED BY <1>0, <1>1, <1>2, <2>4, <3>1, <3>2 DEF FillInv
  <2>14. HideInv'
    <3>1. \A p \in Ops : Current(p)' => ~Adoptable(p)'
      BY <1>2, <1>3, <2>4, <2>11 DEF Adoptable
    <3> QED BY <1>k, <3>1 DEF HideInv
  <2>15. StageInv' /\ MergeInv' /\ KeepInv'
    BY <1>2, <2>2, <2>4 DEF StageInv, MergeInv, KeepInv
  <2> QED BY <1>1, <2>10, <2>11, <2>12, <2>13, <2>14, <2>15 DEF ShownInv
<1> QED BY <1>5, <1>6, <1>7, <1>8

\* The step Announce(o) of Publication.
Announces(o) ==
  work[o] = None /\ \E w \in Changes : w.put \cap w.del = {} /\ work' = [work EXCEPT ![o] = w]
\* A step of Publication, or none.
Shows ==
  \/ View' = View /\ (UNCHANGED work \/ \E o \in Ops : Announces(o))
  \/ UNCHANGED work /\ \E o \in Ops : Publishes(o)

\* Activating a full index with all its batches stored shows its files and no others.
LEMMA FullPublishes ==
  ASSUME TypeInv, LaneInv, ShownInv, NEW o \in FullOps, o = run.op, man[o].st # "active", ck[o] = "in_progress",
         work[o].put \subseteq marks[o], UNCHANGED <<data, work>>,
         ActiveEpoch' = meta.epoch, ActiveParent' = 0, ActiveOps' # {}
  PROVE  Publishes(o)
<1> DEFINE e == meta.epoch
           put == work[o].put
           del == work[o].del
<1>0. LoneInv /\ AnnounceInv /\ FillInv /\ AboveInv /\ Typed
  BY DEF TypeInv, LaneInv, OrderlyInv, ShownInv
<1>k. HotOps \subseteq Ops /\ FullOps \subseteq Ops /\ None \notin Ops /\ o \in Ops /\ o # None
  BY KindsApart
<1>1. Current(o)
  BY DEF Current
<1>2. e > ActiveEpoch /\ \A f \in marks[o] : \A s \in Stores : data[s][e][f] = o
  BY <1>0, <1>1 DEF FillInv
<1>3. e \in Epochs
  <2>1. e \in 0..MaxEpoch /\ ActiveEpoch \in 0..MaxEpoch
    BY <1>0, EpochRange DEF Typed, Metas, Bounded
  <2> QED BY <1>2, <2>1, GenAssumption DEF Epochs
<1>4. work[o] \in Changes /\ put \cup del = Files /\ put \cap del = {}
  BY <1>0 DEF AnnounceInv
<1>5. ASSUME NEW s \in Stores, NEW f \in Files, f \notin put PROVE data[s][e][f] = None
  <2> SUFFICES ASSUME data[s][e][f] # None PROVE FALSE
    OBVIOUS
  <2> DEFINE x == data[s][e][f]
  <2>1. Owned(x, e, f)
    BY <1>0, <1>2, <1>3 DEF AboveInv
  <2> HIDE DEF x
  <2>2. x \in HotOps \cup FullOps /\ ck[x] = "in_progress" /\ f \in work[x].put
    BY <2>1 DEF Owned
  <2>3. x = o
    BY <1>0, <2>2 DEF AnnounceInv
  <2> QED BY <1>5, <2>2, <2>3
<1>6. ASSUME NEW s \in Stores, NEW f \in Files
      PROVE  Visible(s, f)' = IF f \in put THEN {o} ELSE IF f \in del THEN {} ELSE Visible(s, f)
  <2>0. Visible(s, f)' = {data[s][e][f]} \ {None}
    BY DEF Visible
  <2>1. f \in put => data[s][e][f] = o
    BY <1>2
  <2> HIDE DEF e, put, del
  <2>2. CASE f \in put
    BY <1>k, <2>0, <2>1, <2>2
  <2>3. CASE f \notin put
    <3>1. f \in del /\ data[s][e][f] = None
      BY <1>4, <1>5, <2>3
    <3> QED BY <2>0, <2>3, <3>1
  <2> QED BY <2>2, <2>3
<1>7. View' = Replaced(o)
  <2>1. View' = [s \in Stores |-> [f \in Files |-> Visible(s, f)']]
    BY DEF View
  <2> QED BY <1>6, <2>1 DEF Replaced
<1>8. work[o] # None
  BY <1>4, NoneAssumption DEF Changes
<1> QED BY <1>7, <1>8 DEF Publishes

\* A full index announces its files with its checkpoint and publishes them with
\* finalize_manifest; its other steps show nothing.
LEMMA ShownFull ==
  ASSUME TypeInv, OrderInv, LaneInv, ShownInv, TypeInv',
         \/ FullNotReady \/ FullScan \/ FullManifest \/ FullActivate \/ FullFails
         \/ \E f \in Files : FullBatch(f)
  PROVE  ShownInv' /\ Shows
<1>0. /\ Typed /\ Launched /\ DistinctPubs(man) /\ EpochInv /\ PointInv /\ LoneInv /\ RowInv /\ NewestInv
      /\ AnnounceInv /\ StageInv /\ FillInv /\ AboveInv /\ HideInv /\ CopyInv
      /\ run \in Runs /\ man \in [Ops -> Rows] /\ meta \in Metas /\ mem.full \in Bounded
      /\ data \in Datas /\ work \in [Ops -> {None} \cup Changes]
      /\ marks \in [Ops -> SUBSET (Stores \cup Files)]
      /\ ck \in [Ops -> {"none", "in_progress", "completed", "failed"}]
      /\ man' \in [Ops -> Rows] /\ DistinctPubs(man') /\ ActiveEpoch \in Nat
      /\ {"scan", "manifest", "batch", "plan"} \subseteq Pcs
  BY PcNames, EpochRange, GenAssumption
     DEF TypeInv, OrderInv, LaneInv, OrderlyInv, ShownInv, Typed, FullPcs, Mems, Bounded
<1>k. /\ HotOps \subseteq Ops /\ ConfigOps \subseteq Ops /\ FullOps \subseteq Ops /\ None \notin Ops
      /\ HotOps \cap FullOps = {} /\ ConfigOps \cap FullOps = {}
  BY KindsApart
<1>1. run.pc \in FullPcs /\ UNCHANGED <<ov, lapped>>
  BY DEF FullNotReady, FullScan, FullManifest, FullActivate, FullFails, FullBatch, At,
     FullPcs, dbVars
<1>o. PICK o \in FullOps : o = run.op
  BY <1>0, <1>1 DEF EpochInv
<1>2. /\ o \in Ops /\ o # None /\ o \notin HotOps \cup ConfigOps /\ Current(o) /\ mem.full = meta.epoch
      /\ run.pc \in {"ready", "scan"} => ck[o] \in {"none", "in_progress"}
      /\ run.pc \in {"manifest", "batch"} => ck[o] = "in_progress"
  BY <1>0, <1>k, <1>1, <1>o DEF PointInv, AnnounceInv, Current
<1>3. \A p \in Ops : Current(p) => p = o
  BY <1>0, <1>2 DEF LoneInv
<1>4. \A p \in HotOps \cup ConfigOps : ~Current(p)
  BY <1>k, <1>2, <1>3
<1>5. /\ \A p \in HotOps \cup FullOps : ck[p] = "in_progress" => p = o
      /\ o \notin lapped /\ \A p \in FullOps : marks[p] \subseteq Files
  BY <1>0, <1>o DEF AnnounceInv, FillInv
<1>6. man[o].st # "active" => /\ meta.epoch > ActiveEpoch /\ (man[o].st # "none" => man[o].data = meta.epoch)
                              /\ \A f \in marks[o] : \A s \in Stores : data[s][meta.epoch][f] = o
  BY <1>0, <1>2 DEF FillInv
<1>7. man[o].st = "active" => work[o].put \subseteq marks[o]
  BY <1>0, <1>2 DEF FillInv
<1>n. ck[o] = "none" => work[o] = None /\ marks[o] = {} /\ man[o].st = "none"
  BY <1>0 DEF AnnounceInv
<1>e. meta.epoch > ActiveEpoch => meta.epoch \in Epochs
  <2>1. meta.epoch \in 0..MaxEpoch
    BY <1>0 DEF Metas, Bounded
  <2> QED BY <1>0, <2>1, GenAssumption DEF Epochs
<1>h. ASSUME \A p \in Ops : Current(p)' => Current(p) PROVE HideInv'
  <2> HIDE DEF Current, Adoptable
  <2> QED BY <1>k, <1>4, <1>h DEF HideInv
<1>f. ASSUME \A p \in Ops : Current(p)' => Current(p),
             \A p \in Ops : p # o => marks'[p] = marks[p],
             \A p \in Ops : man'[p].st # "none" => man'[p].data # 0,
             marks'[o] \subseteq Files,
             man'[o].st # "active" =>
               /\ meta'.epoch > ActiveEpoch' /\ (man'[o].st # "none" => man'[o].data = meta'.epoch)
               /\ \A f \in marks'[o] : \A s \in Stores : data'[s][meta'.epoch][f] = o,
             man'[o].st = "active" => work'[o].put \subseteq marks'[o]
      PROVE  FillInv'
  <2> HIDE DEF Current
  <2>1. \A p \in FullOps : Current(p)' => p = o
    BY <1>k, <1>3, <1>f
  <2>2. \A p \in FullOps : marks'[p] \subseteq Files
    BY <1>k, <1>5, <1>f
  <2> QED BY <1>f, <2>1, <2>2 DEF FillInv
<1>8. CASE FullNotReady
  <2>1. /\ run.pc = "ready" /\ meta' = [meta EXCEPT !.ready = FALSE] /\ run' = [run EXCEPT !.pc = "scan"]
        /\ UNCHANGED <<man, data, ov, ck, work, marks>>
    BY <1>8 DEF FullNotReady, At, ckVars
  <2>2. run'.pc = "scan" /\ run'.op = o
    BY <1>0, <1>o, <2>1, PcRun
  <2>3. meta'.epoch = meta.epoch
    BY <1>0, <2>1 DEF Metas
  <2>4. \A p \in Ops : Current(p)' <=> Current(p)
    BY <1>o, <1>1, <2>1, <2>2 DEF Current
  <2>5. ActiveEpoch' = ActiveEpoch /\ ActiveParent' = ActiveParent /\ ActiveOps' = ActiveOps
    BY <2>1, SameMan
  <2> HIDE DEF Current
  <2>6. HideInv'
    BY <1>h, <2>4
  <2>7. FillInv'
    <3>1. \A p \in Ops : man'[p].st # "none" => man'[p].data # 0
      BY <1>0, <2>1 DEF FillInv
    <3> QED BY <1>f, <1>5, <1>6, <1>7, <2>1, <2>3, <2>4, <2>5, <3>1
  <2>8. AboveInv'
    BY <1>0, <1>1, <2>1, <2>3, <2>5, AboveFrame
  <2>9. Untouched
    BY <2>1, <2>5 DEF Untouched
  <2>10. View' = View /\ CopyInv'
    BY <1>0, <2>9, UntouchedKeeps
  <2>11. AnnounceInv'
    BY <1>0, <1>1, <1>2, <1>5, <1>o, <2>1, <2>2 DEF AnnounceInv
  <2>12. StageInv' /\ MergeInv' /\ KeepInv'
    BY <2>2 DEF StageInv, MergeInv, KeepInv, GcPcs
  <2> QED BY <2>1, <2>6, <2>7, <2>8, <2>10, <2>11, <2>12 DEF ShownInv, Shows
<1>9. CASE FullScan
  <2>1. /\ run.pc = "scan" /\ run' = [run EXCEPT !.pc = "manifest"]
        /\ UNCHANGED <<man, meta, data, ov, marks>>
    BY <1>9 DEF FullScan, At, dbVars
  <2>2. run'.pc = "manifest" /\ run'.op = o
    BY <1>0, <1>o, <2>1, PcRun
  <2>3. StageInv' /\ MergeInv' /\ KeepInv'
    BY <2>2 DEF StageInv, MergeInv, KeepInv, GcPcs
  <2>4. CASE ck[o] = "in_progress"
    <3>1. UNCHANGED <<ck, work>>
      BY <1>9, <1>o, <2>4 DEF FullScan
    <3>2. \A p \in Ops : Current(p)' <=> Current(p)
      BY <1>o, <1>1, <2>2, <3>1 DEF Current
    <3> HIDE DEF Current
    <3>3. FillInv' /\ AboveInv' /\ HideInv' /\ CopyInv' /\ View' = View
      BY <1>1, <2>1, <3>1, <3>2, ShownQuiet
    <3>4. AnnounceInv'
      BY <1>0, <1>1, <1>2, <1>5, <2>1, <2>2, <2>4, <3>1 DEF AnnounceInv
    <3> QED BY <2>3, <3>1, <3>3, <3>4 DEF ShownInv, Shows
  <2>5. CASE ck[o] # "in_progress"
    <3>1. ck[o] = "none" /\ work[o] = None /\ marks[o] = {} /\ man[o].st = "none"
      BY <1>2, <1>n, <2>1, <2>5
    <3>2. PICK put \in Scans : /\ work' = [work EXCEPT ![o] = [put |-> put, del |-> Files \ put]]
                               /\ ck' = [ck EXCEPT ![o] = "in_progress"]
      BY <1>9, <1>o, <2>5 DEF FullScan
    <3> DEFINE w == [put |-> put, del |-> Files \ put]
    <3>3. /\ w \in Changes /\ w.put \cap w.del = {} /\ w.put \cup w.del = Files
          /\ work' = [work EXCEPT ![o] = w]
      BY <3>2, GenAssumption DEF Changes
    <3> HIDE DEF w
    <3>4. /\ work'[o] = w /\ ck'[o] = "in_progress"
          /\ \A p \in Ops : p # o => work'[p] = work[p] /\ ck'[p] = ck[p]
      BY <1>0, <1>2, <3>2, <3>3
    <3>5. Announces(o)
      BY <3>1, <3>3 DEF Announces
    <3>6. \A p \in Ops : Current(p)' => Current(p)
      BY <1>1, <1>2, <1>o, <2>2, <3>4 DEF Current
    <3>7. ActiveEpoch' = ActiveEpoch /\ ActiveParent' = ActiveParent /\ ActiveOps' = ActiveOps
      BY <2>1, SameMan
    <3> HIDE DEF Current
    <3>8. HideInv'
      BY <1>h, <3>6
    <3>9. FillInv'
      <4>1. \A p \in Ops : man'[p].st # "none" => man'[p].data # 0
        BY <1>0, <2>1 DEF FillInv
      <4> QED BY <1>f, <1>5, <1>6, <2>1, <3>1, <3>6, <3>7, <4>1
    <3>10. AboveInv'
      <4>1. \A x \in HotOps \cup FullOps : ck[x] = "in_progress" /\ man[x].st # "active" =>
              /\ ck'[x] = "in_progress" /\ man'[x].st # "active" /\ work'[x] = work[x]
              /\ x \in FullOps => meta'.epoch = meta.epoch
        BY <1>k, <2>1, <3>1, <3>4
      <4> QED BY <1>0, <1>1, <2>1, <3>7, <4>1, AboveFrame
    <3>11. Untouched
      BY <2>1, <3>7 DEF Untouched
    <3>12. View' = View /\ CopyInv'
      BY <1>0, <3>11, UntouchedKeeps
    <3>13. AnnounceInv'
      <4>1. \A p \in HotOps \cup ConfigOps : work'[p] = work[p] /\ ck'[p] = ck[p]
        BY <1>k, <1>2, <3>4
      <4>2. run'.op \notin HotOps \cup ConfigOps
        BY <1>2, <2>2
      <4>3. \A p \in HotOps \cup FullOps : ck'[p] = "in_progress" => p = o
        BY <1>k, <1>5, <3>4
      <4>4. \A p \in FullOps : ck'[p] = "in_progress" => work'[p] = w
        BY <3>4, <4>3
      <4>5. \A p \in HotOps \cup ConfigOps \cup FullOps : ck'[p] = "none" =>
              ck[p] = "none" /\ work'[p] = work[p]
        BY <1>k, <3>4
      <4> QED BY <1>0, <1>1, <1>5, <2>1, <2>2, <3>3, <3>4, <4>1, <4>2, <4>3, <4>4, <4>5 DEF AnnounceInv
    <3> QED BY <1>2, <2>3, <3>5, <3>8, <3>9, <3>10, <3>12, <3>13 DEF ShownInv, Shows
  <2> QED BY <2>4, <2>5
<1>10. CASE FullManifest
  <2>1. run.pc = "manifest" /\ UNCHANGED <<meta, data, ov, ck, work, marks>> /\ ck[o] = "in_progress"
    BY <1>2, <1>10 DEF FullManifest, At, ckVars
  <2>2. CASE ~CanBegin(o, mem.full) \/ man[o].st = "active"
    <3>1. UNCHANGED man
      <4>1. CASE ~CanBegin(o, mem.full)
        BY <1>10, <1>o, <4>1 DEF FullManifest
      <4>2. CASE CanBegin(o, mem.full) /\ man[o].st = "active"
        <5>1. man' = [man EXCEPT ![o] = Begun(o, mem.full)]
          BY <1>10, <1>o, <4>2 DEF FullManifest
        <5>2. Begun(o, mem.full) = man[o]
          BY <4>2 DEF Begun
        <5> QED BY <1>0, <5>1, <5>2
      <4> QED BY <2>2, <4>1, <4>2
    <3>2. (run'.pc = "idle" /\ run'.op = None) \/ (run'.pc = "batch" /\ run'.op = o)
      <4>1. CASE run' = Idle
        BY <4>1, LaunchRun
      <4>2. CASE run' = [run EXCEPT !.pc = "batch"]
        BY <1>0, <1>o, <4>2, PcRun
      <4> QED BY <1>10, <4>1, <4>2 DEF FullManifest
    <3>3. \A p \in Ops : Current(p)' => Current(p)
      BY <1>k, <1>1, <1>2, <2>1, <3>2 DEF Current
    <3> HIDE DEF Current, CanBegin
    <3>4. FillInv' /\ AboveInv' /\ HideInv' /\ CopyInv' /\ View' = View
      BY <1>1, <2>1, <3>1, <3>3, ShownQuiet
    <3>5. AnnounceInv'
      BY <1>0, <1>k, <1>1, <1>2, <1>5, <2>1, <3>1, <3>2 DEF AnnounceInv
    <3>6. StageInv' /\ MergeInv' /\ KeepInv'
      BY <3>2 DEF StageInv, MergeInv, KeepInv, GcPcs
    <3> QED BY <2>1, <3>4, <3>5, <3>6 DEF ShownInv, Shows
  <2>3. CASE CanBegin(o, mem.full) /\ man[o].st # "active"
    <3> DEFINE b == Begun(o, mem.full)
    <3>1. man' = [man EXCEPT ![o] = b] /\ run' = [run EXCEPT !.pc = "batch"]
      BY <1>10, <1>o, <2>3 DEF FullManifest
    <3>2. run'.pc = "batch" /\ run'.op = o
      BY <1>0, <1>o, <3>1, PcRun
    <3>3. b.st = "building" /\ (man[o].st = "none" => b.data = mem.full)
          /\ (man[o].st # "none" => b.data = man[o].data)
      BY <1>0, <1>2, <2>3, BegunRow
    <3> HIDE DEF b, CanBegin
    <3>4. man'[o] = b /\ \A p \in Ops : p # o => man'[p] = man[p]
      BY <1>0, <1>2, <3>1
    <3>5. ActOps(man') = ActOps(man) /\ \A p \in ActOps(man) : man'[p] = man[p]
      BY <2>3, <3>3, <3>4 DEF ActOps
    <3>6. ActiveEpoch' = ActiveEpoch /\ ActiveParent' = ActiveParent /\ ActiveOps' = ActiveOps
      BY <1>0, <3>5, SameTop, ActiveIsTop
    <3>7. b.data = meta.epoch /\ meta.epoch > ActiveEpoch
      BY <1>2, <1>6, <2>3, <3>3
    <3>8. \A p \in Ops : Current(p)' => Current(p)
      BY <1>o, <1>1, <2>1, <3>2 DEF Current
    <3> HIDE DEF Current
    <3>9. HideInv'
      BY <1>h, <3>8
    <3>10. FillInv'
      <4>1. \A p \in Ops : man'[p].st # "none" => man'[p].data # 0
        BY <1>0, <3>4, <3>7 DEF FillInv
      <4>2. man'[o].st # "active" /\ man'[o].data = meta.epoch /\ marks[o] \subseteq Files
        BY <1>0, <3>3, <3>4, <3>7 DEF FillInv
      <4> QED BY <1>f, <1>6, <2>1, <2>3, <3>6, <3>7, <3>8, <4>1, <4>2
    <3>11. AboveInv'
      <4>1. \A x \in HotOps \cup FullOps : ck[x] = "in_progress" /\ man[x].st # "active" =>
              /\ ck'[x] = "in_progress" /\ man'[x].st # "active" /\ work'[x] = work[x]
              /\ x \in FullOps => meta'.epoch = meta.epoch
        BY <1>k, <2>1, <3>3, <3>4
      <4> QED BY <1>0, <1>1, <2>1, <3>6, <4>1, AboveFrame
    <3>12. Untouched
      BY <2>1, <3>6 DEF Untouched
    <3>13. View' = View /\ CopyInv'
      BY <1>0, <3>12, UntouchedKeeps
    <3>14. AnnounceInv'
      <4>1. \A p \in HotOps \cup ConfigOps \cup FullOps : ck[p] = "none" => man'[p] = man[p]
        BY <1>k, <2>1, <3>4
      <4> QED BY <1>0, <1>1, <1>2, <1>5, <2>1, <3>2, <4>1 DEF AnnounceInv
    <3>15. StageInv' /\ MergeInv' /\ KeepInv'
      BY <3>2 DEF StageInv, MergeInv, KeepInv, GcPcs
    <3> QED BY <2>1, <3>9, <3>10, <3>11, <3>13, <3>14, <3>15 DEF ShownInv, Shows
  <2> QED BY <2>2, <2>3
<1>11. CASE \E f \in Files : FullBatch(f)
  <2>0. PICK g \in Files : FullBatch(g)
    BY <1>11
  <2> DEFINE e == meta.epoch
  <2>1. /\ run.pc = "batch" /\ g \in work[o].put /\ g \notin marks[o] /\ ck[o] = "in_progress"
        /\ data' = [s \in Stores |-> [data[s] EXCEPT ![e][g] = o]]
        /\ marks' = [marks EXCEPT ![o] = @ \cup {g}]
        /\ UNCHANGED <<man, meta, ov, ck, work, run>>
    BY <1>2, <1>o, <2>0 DEF FullBatch, At
  <2>2. man[o].st # "active" /\ e > ActiveEpoch /\ e \in Epochs
    BY <1>6, <1>7, <1>e, <2>1
  <2>3. ActiveEpoch' = ActiveEpoch /\ ActiveParent' = ActiveParent /\ ActiveOps' = ActiveOps
    BY <2>1, SameMan
  <2>4. \A p \in Ops : Current(p)' => Current(p)
    BY <1>1, <2>1 DEF Current
  <2> HIDE DEF Current
  <2>5. HideInv'
    BY <1>h, <2>4
  <2>e. meta'.epoch = e /\ e = meta.epoch
    BY <2>1
  <2> HIDE DEF e
  <2>6. /\ \A s \in Stores : \A d \in Epochs : d # e => data'[s][d] = data[s][d]
        /\ \A s \in Stores : \A f \in Files : data'[s][e][f] = IF f = g THEN o ELSE data[s][e][f]
    BY <1>0, <2>1, <2>2 DEF Datas, Epoch
  <2>7. marks'[o] = marks[o] \cup {g} /\ marks[o] \subseteq Files /\ \A p \in Ops : p # o => marks'[p] = marks[p]
    BY <1>0, <1>2, <2>1 DEF FillInv
  <2>8. FillInv'
    <3>1. \A f \in marks'[o] : \A s \in Stores : data'[s][e][f] = o
      BY <1>6, <2>2, <2>e, <2>6, <2>7
    <3>2. marks'[o] \subseteq Files
      BY <2>7
    <3>3. man'[o].st # "active" /\ (man'[o].st # "none" => man'[o].data = e) /\ ck'[o] # "none"
      BY <1>6, <2>1, <2>2, <2>e
    <3>4. \A p \in Ops : man'[p].st # "none" => man'[p].data # 0
      BY <1>0, <2>1 DEF FillInv
    <3> QED BY <1>f, <2>2, <2>3, <2>4, <2>7, <2>e, <3>1, <3>2, <3>3, <3>4
  <2>9. AboveInv'
    <3> SUFFICES ASSUME NEW d \in Epochs, d > ActiveEpoch, NEW s \in Stores, NEW f \in Files,
                        data'[s][d][f] # None
                 PROVE  \A y : y = data'[s][d][f] => Owned(y, d, f)'
      BY <2>3 DEF AboveInv
    <3>0. \A x : Owned(x, d, f) => Owned(x, d, f)'
      BY <1>1, <2>1, <2>3 DEF Owned
    <3>1. CASE data'[s][d][f] = data[s][d][f]
      <4> DEFINE x == data[s][d][f]
      <4>1. Owned(x, d, f)
        BY <1>0, <3>1 DEF AboveInv
      <4>2. data'[s][d][f] = x
        BY <3>1
      <4> HIDE DEF x
      <4>3. \A y : y = x => Owned(y, d, f)'
        BY <3>0, <4>1
      <4> QED BY <4>2, <4>3
    <3>2. CASE data'[s][d][f] # data[s][d][f]
      <4>1. d = e /\ data'[s][d][f] = o /\ f = g
        BY <2>6, <3>2
      <4>2. Owned(o, d, f)
        BY <1>2, <2>1, <2>2, <2>e, <4>1 DEF Owned
      <4>3. \A y : y = o => Owned(y, d, f)'
        BY <3>0, <4>2
      <4> QED BY <4>1, <4>3
    <3> QED BY <3>1, <3>2
  <2>10. Untouched
    <3>1. ActiveOps # {} => ActiveEpoch \in Epochs /\ ActiveEpoch # e
                           /\ (ActiveParent # 0 => ActiveParent \in Epochs /\ ActiveParent # e)
      <4>1. CASE ActiveOps # {}
        <5>1. ActiveEpoch \in Epochs /\ (ActiveParent # 0 => ActiveParent \in Epochs /\ ActiveParent < ActiveEpoch)
          BY <1>0, <4>1, ActiveEpochs
        <5> QED BY <1>0, <2>2, <5>1 DEF Epochs
      <4> QED BY <4>1
    <3> QED BY <2>1, <2>3, <2>6, <3>1 DEF Untouched
  <2>11. View' = View /\ CopyInv'
    BY <1>0, <2>10, UntouchedKeeps
  <2>12. AnnounceInv'
    <3>1. \A p \in HotOps \cup ConfigOps \cup FullOps : ck[p] = "none" => marks'[p] = marks[p]
      BY <1>k, <2>1, <2>7
    <3> QED BY <1>0, <1>1, <2>1, <3>1 DEF AnnounceInv
  <2>13. StageInv' /\ MergeInv' /\ KeepInv'
    BY <2>1 DEF StageInv, MergeInv, KeepInv, GcPcs
  <2> QED BY <2>1, <2>5, <2>8, <2>9, <2>11, <2>12, <2>13 DEF ShownInv, Shows
<1>12. CASE FullActivate
  <2>1. /\ run.pc = "batch" /\ work[o].put \subseteq marks[o] /\ ck[o] = "in_progress"
        /\ Activate(o, mem.full) /\ run' = [run EXCEPT !.pc = "plan"] /\ UNCHANGED <<data, ov, ck, work, marks>>
    BY <1>2, <1>12, <1>o DEF FullActivate, At, ckVars
  <2>2. run'.pc = "plan" /\ run'.op = o
    BY <1>0, <1>o, <2>1, PcRun
  <2>3. \A p \in Ops : Current(p)' => Current(p)
    BY <1>o, <1>1, <2>1, <2>2 DEF Current
  <2>4. StageInv' /\ MergeInv' /\ KeepInv'
    BY <1>2, <2>2 DEF StageInv, MergeInv, KeepInv, GcPcs
  <2>5. CASE man[o].st = "active"
    <3>1. Activated(o, mem.full) = man[o]
      BY <1>0, <1>2, <2>5, ActivatedRow
    <3>2. UNCHANGED <<man, meta>>
      BY <1>0, <2>1, <2>5, <3>1 DEF Activate
    <3> HIDE DEF Current
    <3>3. FillInv' /\ AboveInv' /\ HideInv' /\ CopyInv' /\ View' = View
      BY <1>1, <2>1, <2>3, <3>2, ShownQuiet
    <3>4. AnnounceInv'
      BY <1>0, <1>1, <1>2, <1>5, <2>1, <2>2, <3>2 DEF AnnounceInv
    <3> QED BY <2>1, <2>4, <3>3, <3>4 DEF ShownInv, Shows
  <2>6. CASE man[o].st # "active"
    <3>1. meta.epoch > ActiveEpoch /\ mem.full = meta.epoch
      BY <1>2, <1>6, <2>6
    <3>2. man[o].st # "none" => \A p \in Ops \ {o} : man[p].st # "none" => man[p].pub < man[o].pub
      <4>1. man[o].st \in {"none", "building", "failed"}
        BY <1>0, <1>2, <2>6 DEF Rows
      <4> QED BY <1>0, <1>2, <4>1 DEF NewestInv
    <3>a. meta.epoch \in Nat /\ ActiveEpoch # mem.full
      BY <1>0, <3>1 DEF Metas, Bounded
    <3> HIDE DEF Current
    <3>3. /\ IsTop(man', o) /\ man'[o].st = "active" /\ man'[o].data = mem.full
          /\ \A p \in Ops \ {o} : man'[p] = man[p]
          /\ ActiveEpoch' = mem.full /\ ActiveParent' = man'[o].parent
          /\ meta'.epoch = mem.full /\ meta'.ready
          /\ man'[o].parent = IF man[o].st = "none" THEN 0 ELSE man[o].parent
      BY <1>0, <1>2, <2>1, <2>6, <3>a, <3>2, ActivateNewest
    <3>4. ActiveEpoch' = meta.epoch /\ ActiveParent' = 0 /\ ActiveOps' # {}
      <4>1. man'[o].parent = 0
        BY <1>0, <1>2, <2>6, <3>3 DEF RowInv
      <4> QED BY <3>1, <3>3, <4>1, ActiveIsTop DEF IsTop
    <3>5. Publishes(o)
      BY <1>o, <2>1, <2>6, <3>4, FullPublishes
    <3>6. AnnounceInv'
      <4>1. \A p \in HotOps \cup ConfigOps \cup FullOps : ck[p] = "none" => man'[p] = man[p]
        BY <1>k, <2>1, <3>3
      <4> QED BY <1>0, <1>1, <1>2, <1>5, <2>1, <2>2, <4>1 DEF AnnounceInv
    <3>7. FillInv'
      <4>1. \A p \in Ops : man'[p].st # "none" => man'[p].data # 0
        BY <1>0, <3>1, <3>3 DEF FillInv
      <4> QED BY <1>f, <1>5, <2>1, <2>3, <3>3, <4>1
    <3>8. AboveInv'
      <4> SUFFICES ASSUME NEW e \in Epochs, e > meta.epoch, NEW s \in Stores, NEW f \in Files,
                          data[s][e][f] # None
                   PROVE  FALSE
        BY <2>1, <3>4 DEF AboveInv
      <4> DEFINE x == data[s][e][f]
      <4>1. e > ActiveEpoch /\ e # meta.epoch
        BY <1>0, <3>1, <3>a DEF Epochs
      <4>2. Owned(x, e, f)
        BY <1>0, <4>1 DEF AboveInv
      <4> HIDE DEF x
      <4>3. x \in HotOps \cup FullOps /\ ck[x] = "in_progress" /\ x \notin FullOps \ lapped
        BY <4>1, <4>2 DEF Owned
      <4> QED BY <1>2, <1>5, <4>3
    <3>9. HideInv'
      BY <1>h, <2>3
    <3>10. CopyInv'
      BY <3>4 DEF CopyInv
    <3> QED BY <1>2, <2>1, <2>4, <3>5, <3>6, <3>7, <3>8, <3>9, <3>10 DEF ShownInv, Shows
  <2> QED BY <2>5, <2>6
<1>13. CASE FullFails
  <2>1. /\ run.pc = "batch" /\ MarkFailed(o) /\ run' = Idle /\ UNCHANGED <<meta, data, ov, ck, work, marks>>
        /\ ck[o] = "in_progress"
    BY <1>2, <1>13, <1>o DEF FullFails, At, ckVars
  <2>2. run'.pc = "idle" /\ run'.op = None
    BY <2>1, LaunchRun
  <2>3. /\ ActOps(man') = ActOps(man)
        /\ \A p \in Ops : /\ man'[p].data = man[p].data
                          /\ man'[p].st = IF p = o /\ man[p].st = "building" THEN "failed" ELSE man[p].st
        /\ ActiveEpoch' = ActiveEpoch /\ ActiveParent' = ActiveParent
    BY <1>0, <1>2, <2>1, MarkFailedType
  <2>4. ActiveOps' = ActiveOps
    BY <2>3, ActiveIsTop
  <2>5. \A p \in Ops : Current(p)' => Current(p)
    BY <1>k, <1>1, <2>1, <2>2 DEF Current
  <2> HIDE DEF Current, MarkFailed
  <2>6. HideInv'
    BY <1>h, <2>5
  <2>7. FillInv'
    <3>1. \A p \in Ops : man'[p].st # "none" <=> man[p].st # "none"
      BY <2>3
    <3>2. man'[o].st = "active" <=> man[o].st = "active"
      BY <1>2, <2>3
    <3>3. \A p \in Ops : man'[p].st # "none" => man'[p].data # 0
      BY <1>0, <2>3, <3>1 DEF FillInv
    <3> QED BY <1>f, <1>2, <1>5, <1>6, <1>7, <2>1, <2>3, <2>5, <3>1, <3>2, <3>3
  <2>8. AboveInv'
    <3>1. \A x \in HotOps \cup FullOps : ck[x] = "in_progress" /\ man[x].st # "active" =>
            /\ ck'[x] = "in_progress" /\ man'[x].st # "active" /\ work'[x] = work[x]
            /\ x \in FullOps => meta'.epoch = meta.epoch
      BY <1>k, <2>1, <2>3
    <3> QED BY <1>0, <1>1, <2>1, <2>3, <3>1, AboveFrame
  <2>9. Untouched
    BY <2>1, <2>3, <2>4 DEF Untouched
  <2>10. View' = View /\ CopyInv'
    BY <1>0, <2>9, UntouchedKeeps
  <2>11. AnnounceInv'
    <3>1. \A p \in HotOps \cup ConfigOps \cup FullOps : ck[p] = "none" => man'[p].st = man[p].st
      BY <1>k, <2>1, <2>3
    <3> QED BY <1>0, <1>k, <1>1, <1>5, <2>1, <2>2, <3>1 DEF AnnounceInv
  <2>12. StageInv' /\ MergeInv' /\ KeepInv'
    BY <2>2 DEF StageInv, MergeInv, KeepInv, GcPcs
  <2> QED BY <2>1, <2>6, <2>7, <2>8, <2>10, <2>11, <2>12 DEF ShownInv, Shows
<1> QED BY <1>8, <1>9, <1>10, <1>11, <1>12, <1>13

\* Starting a hot update or a configuration change announces its changes.
LEMMA ShownLaunch ==
  ASSUME TypeInv, OrderInv, LaneInv, ShownInv,
         \/ \E o \in HotOps : StartHot(o)
         \/ \E o \in ConfigOps : StartConfig(o)
  PROVE  ShownInv' /\ Shows
<1>0. /\ Typed /\ AnnounceInv /\ FillInv /\ AboveInv /\ CopyInv
      /\ work \in [Ops -> {None} \cup Changes] /\ "prepare" \in Pcs /\ FALSE \in BOOLEAN
      /\ ck \in [Ops -> {"none", "in_progress", "completed", "failed"}]
  BY PcNames DEF TypeInv, ShownInv, Typed
<1>k. /\ HotOps \subseteq Ops /\ ConfigOps \subseteq Ops /\ FullOps \subseteq Ops /\ None \notin Ops
      /\ HotOps \cap FullOps = {} /\ ConfigOps \cap FullOps = {} /\ HotOps \cap ConfigOps = {}
  BY KindsApart
<1>1. PICK o \in HotOps \cup ConfigOps :
        /\ Fresh(o) /\ Overtake(o) /\ ck' = [ck EXCEPT ![o] = "in_progress"]
        /\ Launch(o, "prepare", FALSE) /\ UNCHANGED <<man, meta, data, ov, marks, mem>>
        /\ \E w \in Changes : /\ w.put \cap w.del = {} /\ work' = [work EXCEPT ![o] = w]
                              /\ o \in ConfigOps => w = [put |-> {}, del |-> {}]
  <2>1. CASE \E o \in HotOps : StartHot(o)
    <3>1. PICK o \in HotOps : StartHot(o)
      BY <2>1
    <3>2. o \notin ConfigOps
      BY <1>k
    <3>3. PICK w \in HotChanges : work' = [work EXCEPT ![o] = w]
      BY <3>1 DEF StartHot
    <3>4. w \in Changes /\ w.put \cap w.del = {}
      BY GenAssumption DEF Changes
    <3>6. /\ Fresh(o) /\ Overtake(o) /\ ck' = [ck EXCEPT ![o] = "in_progress"]
          /\ Launch(o, "prepare", FALSE) /\ UNCHANGED <<man, meta, data, ov, marks, mem>>
      BY <3>1 DEF StartHot, dbVars
    <3> QED BY <3>2, <3>3, <3>4, <3>6
  <2>2. CASE \E o \in ConfigOps : StartConfig(o)
    <3>1. PICK o \in ConfigOps : StartConfig(o)
      BY <2>2
    <3> DEFINE w == [put |-> {}, del |-> {}]
    <3>2. w \in Changes /\ w.put \cap w.del = {}
      BY DEF Changes
    <3>4. /\ Fresh(o) /\ Overtake(o) /\ ck' = [ck EXCEPT ![o] = "in_progress"] /\ work' = [work EXCEPT ![o] = w]
          /\ Launch(o, "prepare", FALSE) /\ UNCHANGED <<man, meta, data, ov, marks, mem>>
      BY <3>1 DEF StartConfig, dbVars
    <3> QED BY <3>2, <3>4
  <2> QED BY <2>1, <2>2
<1>2. PICK w \in Changes : /\ w.put \cap w.del = {} /\ work' = [work EXCEPT ![o] = w]
                           /\ o \in ConfigOps => w = [put |-> {}, del |-> {}]
  BY <1>1
<1>3. /\ o \in Ops /\ o \notin FullOps /\ ck[o] = "none" /\ man[o].st = "none" /\ work[o] = None /\ o \notin lapped
  BY <1>0, <1>k, <1>1 DEF AnnounceInv, Fresh
<1>4. run'.op = o /\ run'.pc = "prepare"
  BY <1>0, <1>1, <1>3, LaunchRun
<1>5. /\ work'[o] = w /\ ck'[o] = "in_progress" /\ \A p \in Ops : p # o => work'[p] = work[p] /\ ck'[p] = ck[p]
  BY <1>0, <1>1, <1>2, <1>3
<1>6. /\ \A p \in HotOps \cup FullOps : ck[p] = "in_progress" /\ p # o => p \in lapped'
      /\ lapped \subseteq lapped' /\ \A p \in lapped' : p \in lapped \/ (p # o /\ p \in Ops /\ ck[p] = "in_progress")
  BY <1>k, <1>1 DEF Overtake, Unfinished
<1>7. \A p \in Ops : Current(p)' => p = o
  BY <1>k, <1>4, <1>5, <1>6 DEF Current
<1>8. ActiveEpoch' = ActiveEpoch /\ ActiveParent' = ActiveParent /\ ActiveOps' = ActiveOps
  BY <1>1, SameMan
<1>9. \A p \in Ops : p = o => ~Adoptable(p)'
  BY <1>1, <1>3 DEF Adoptable
<1> HIDE DEF Current, Adoptable, Launch, Fresh, Overtake
<1>10. HideInv'
  BY <1>k, <1>7, <1>9 DEF HideInv
<1>11. FillInv'
  <2>1. \A p \in FullOps : ~Current(p)' /\ ck'[p] = ck[p]
    BY <1>k, <1>3, <1>5, <1>7
  <2> QED BY <1>0, <1>1, <1>8, <2>1 DEF FillInv
<1>12. AboveInv'
  <2>1. \A x \in HotOps \cup FullOps : ck[x] = "in_progress" /\ man[x].st # "active" =>
          /\ ck'[x] = "in_progress" /\ man'[x].st # "active" /\ work'[x] = work[x]
          /\ x \in FullOps => meta'.epoch = meta.epoch
    BY <1>k, <1>1, <1>3, <1>5
  <2> QED BY <1>0, <1>1, <1>6, <1>8, <2>1, AboveFrame
<1>13. Untouched
  BY <1>1, <1>8 DEF Untouched
<1>14. View' = View /\ CopyInv'
  BY <1>0, <1>13, UntouchedKeeps
<1>15. AnnounceInv'
  <2>1. \A p \in HotOps \cup ConfigOps \cup FullOps : ck'[p] = "none" => ck[p] = "none" /\ work'[p] = work[p]
    BY <1>k, <1>5
  <2>2. \A p \in FullOps : ck'[p] = ck[p] /\ work'[p] = work[p]
    BY <1>k, <1>3, <1>5
  <2>3. run'.op \in ConfigOps => work'[run'.op] = [put |-> {}, del |-> {}]
    BY <1>2, <1>4, <1>5
  <2>4. ck'[run'.op] = "in_progress" /\ run'.pc = "prepare"
    BY <1>4, <1>5
  <2>5. marks' = marks /\ man' = man
    BY <1>1
  <2>6. None \notin lapped' /\ run'.op \notin lapped' /\ run'.op \notin FullOps
    BY <1>0, <1>k, <1>3, <1>4, <1>6 DEF AnnounceInv
  <2>7. \A p \in HotOps \cup ConfigOps \cup FullOps : ck'[p] = "none" => p \notin lapped'
    BY <1>0, <1>6, <2>1 DEF AnnounceInv
  <2> QED BY <1>0, <2>1, <2>2, <2>3, <2>4, <2>5, <2>6, <2>7 DEF AnnounceInv
<1>16. StageInv' /\ MergeInv' /\ KeepInv'
  BY <1>4 DEF StageInv, MergeInv, KeepInv, GcPcs
<1>17. Announces(o)
  BY <1>2, <1>3 DEF Announces
<1> QED BY <1>3, <1>10, <1>11, <1>12, <1>14, <1>15, <1>16, <1>17 DEF ShownInv, Shows

\* Resuming a hot update shows nothing.
LEMMA ShownResume ==
  ASSUME TypeInv, OrderInv, LaneInv, ShownInv, NEW o \in HotOps, ResumeHot(o), harm' = {}
  PROVE  ShownInv' /\ Shows
<1>0. /\ Typed /\ Launched /\ AnnounceInv /\ "prepare" \in Pcs /\ TRUE \in BOOLEAN
      /\ marks \in [Ops -> SUBSET (Stores \cup Files)]
      /\ ck \in [Ops -> {"none", "in_progress", "completed", "failed"}]
  BY PcNames DEF TypeInv, ShownInv, Typed
<1>k. /\ HotOps \subseteq Ops /\ ConfigOps \subseteq Ops /\ FullOps \subseteq Ops /\ None \notin Ops
      /\ HotOps \cap FullOps = {} /\ HotOps \cap ConfigOps = {} /\ o \in Ops
  BY KindsApart
<1>1. /\ run.pc = "idle" /\ ck[o] = "in_progress" /\ UNCHANGED <<man, meta, data, ov, work, mem>>
      /\ \A p \in Ops : p # o => marks'[p] = marks[p]
  BY <1>0, <1>k DEF ResumeHot, Recoverable, At, Unfinished, dbVars
<1>2. \/ man[o].st = "active" /\ ck' = [ck EXCEPT ![o] = "completed"] /\ UNCHANGED <<run, lapped>>
      \/ /\ man[o].st # "active" /\ Launch(o, "prepare", TRUE) /\ Overtake(o) /\ UNCHANGED ck
         /\ harm' = harm \cup {h \in {"stale"} : o \in lapped}
  BY DEF ResumeHot, Resume
<1>3. run.op = None
  BY <1>0, <1>1 DEF Launched
<1>h. man[o].st # "active" => o \notin lapped
  <2> SUFFICES ASSUME man[o].st # "active", o \in lapped PROVE FALSE
    OBVIOUS
  <2>1. "stale" \in {h \in {"stale"} : o \in lapped}
    OBVIOUS
  <2> QED BY <1>2, <2>1
<1>4. \/ /\ man[o].st = "active" /\ ck'[o] = "completed" /\ run'.op = None /\ run'.pc = "idle"
         /\ \A p \in Ops : p # o => ck'[p] = ck[p]
      \/ man[o].st # "active" /\ run'.op = o /\ run'.pc = "prepare" /\ ck' = ck
  BY <1>0, <1>k, <1>1, <1>2, <1>3, LaunchRun
<1>l. /\ lapped \subseteq lapped' /\ \A p \in lapped' : p \in lapped \/ (p # o /\ p \in Ops /\ ck[p] = "in_progress")
      /\ man[o].st = "active" => lapped' = lapped
  BY <1>k, <1>2 DEF Overtake, Unfinished
<1>5. \A p \in Ops : Current(p)' => Current(p)
  BY <1>h, <1>k, <1>l, <1>1, <1>4 DEF Current
<1> HIDE DEF Current, Launch, Overtake
<1>6. FillInv' /\ AboveInv' /\ HideInv' /\ CopyInv' /\ View' = View
  <2>1. \A p \in HotOps \cup FullOps : ck[p] = "in_progress" /\ man[p].st # "active" => ck'[p] = "in_progress"
    BY <1>k, <1>4
  <2>2. \A p \in FullOps : marks'[p] = marks[p] /\ (ck'[p] = "none" => ck[p] = "none")
    BY <1>k, <1>1, <1>4
  <2> QED BY <1>l, <1>1, <1>5, <2>1, <2>2, ShownQuiet
<1>7. AnnounceInv'
  <2>1. \A p \in HotOps \cup ConfigOps \cup FullOps : ck'[p] = "none" => ck[p] = "none" /\ marks'[p] = marks[p]
    BY <1>k, <1>1, <1>4
  <2>2. \A p \in FullOps : ck'[p] = ck[p]
    BY <1>k, <1>4
  <2>3. None \notin lapped' /\ run'.op \notin lapped' /\ run'.op \notin FullOps \cup ConfigOps
    BY <1>0, <1>h, <1>k, <1>l, <1>4 DEF AnnounceInv
  <2>4. \A p \in HotOps \cup ConfigOps \cup FullOps : ck'[p] = "none" => p \notin lapped'
    BY <1>0, <1>l, <2>1 DEF AnnounceInv
  <2> QED BY <1>0, <1>k, <1>1, <1>4, <2>1, <2>2, <2>3, <2>4 DEF AnnounceInv
<1>8. StageInv' /\ MergeInv' /\ KeepInv'
  BY <1>4 DEF StageInv, MergeInv, KeepInv, GcPcs
<1> QED BY <1>1, <1>6, <1>7, <1>8 DEF ShownInv, Shows

\* Neither does starting or resuming a full index, which takes an epoch above the
\* published one unless it is published itself.
LEMMA ShownStartFull ==
  ASSUME TypeInv, OrderInv, LaneInv, ShownInv, NEW o \in FullOps, StartFull(o), harm' = {}
  PROVE  ShownInv' /\ Shows
<1> DEFINE e == IF meta.epoch > 0 /\ (~meta.ready \/ Unfinished(FullOps) # {})
                THEN meta.epoch ELSE meta.epoch + 1
<1>0. /\ Typed /\ Launched /\ EpochInv /\ AnnounceInv /\ FillInv /\ AboveInv /\ CopyInv /\ meta \in Metas
      /\ "ready" \in Pcs /\ FALSE \in BOOLEAN /\ ActiveEpoch \in Nat /\ meta.epoch \in Nat
  BY PcNames, EpochRange, GenAssumption DEF TypeInv, OrderInv, ShownInv, Typed, FullPcs,
     Metas, Bounded
<1>k. /\ HotOps \subseteq Ops /\ ConfigOps \subseteq Ops /\ FullOps \subseteq Ops /\ None \notin Ops
      /\ HotOps \cap FullOps = {} /\ ConfigOps \cap FullOps = {} /\ o \in Ops
  BY KindsApart
<1>1. /\ meta' = [meta EXCEPT !.epoch = e] /\ Launch(o, "ready", FALSE) /\ Overtake(o)
      /\ UNCHANGED <<man, data, ov, ck, work, marks>>
      /\ IF Unfinished(FullOps) = {} THEN Fresh(o) ELSE o \in Unfinished(FullOps)
  BY DEF StartFull, ckVars
<1>h. /\ o \notin lapped /\ Unfinished(HotOps) = {}
      /\ man[o].st # "active" => e # ActiveEpoch
  <2> HIDE DEF e
  <2>1. harm' = harm \cup {h \in {"stale"} : o \in lapped}
                     \cup {h \in {"mixed"} : Unfinished(HotOps) # {}}
                     \cup {h \in {"reused"} : e = ActiveEpoch /\ man[o].st # "active"}
    BY DEF StartFull, e
  <2>2. /\ "stale" \notin {h \in {"stale"} : o \in lapped}
        /\ "mixed" \notin {h \in {"mixed"} : Unfinished(HotOps) # {}}
        /\ "reused" \notin {h \in {"reused"} : e = ActiveEpoch /\ man[o].st # "active"}
    BY <2>1
  <2> QED BY <2>2
<1>l. /\ \A p \in HotOps \cup FullOps : ck[p] = "in_progress" /\ p # o => p \in lapped'
      /\ lapped \subseteq lapped' /\ \A p \in lapped' : p \in lapped \/ (p # o /\ p \in Ops /\ ck[p] = "in_progress")
  BY <1>k, <1>1 DEF Overtake, Unfinished
<1>2. run'.op = o /\ run'.pc = "ready"
  BY <1>0, <1>k, <1>1, LaunchRun
<1>3. meta'.epoch = e /\ meta'.ready = meta.ready
  BY <1>0, <1>1 DEF Metas
<1>4. \/ Unfinished(FullOps) = {} /\ ck[o] = "none" /\ man[o].st = "none" /\ marks[o] = {}
      \/ Unfinished(FullOps) # {} /\ ck[o] = "in_progress"
  BY <1>0, <1>1 DEF Fresh, Unfinished, AnnounceInv
<1>c. ck[o] = "in_progress" => Current(o)
  BY <1>h DEF Current
<1>5. man[o].st # "active" => e > ActiveEpoch
  <2>1. ActiveEpoch <= meta.epoch
    BY <1>0 DEF EpochInv
  <2>2. e \in Nat /\ meta.epoch <= e
    BY <1>0
  <2> HIDE DEF e
  <2> QED BY <1>0, <1>h, <2>1, <2>2
<1>6. ck[o] = "in_progress" /\ man[o].st # "active" => meta.epoch > ActiveEpoch /\ e = meta.epoch
  <2>1. ck[o] = "in_progress" /\ man[o].st # "active" => meta.epoch > ActiveEpoch
    BY <1>0, <1>c DEF FillInv
  <2> QED BY <1>0, <1>4, <2>1
<1>7. \A p \in HotOps \cup ConfigOps : ~Current(p)'
  <2>1. \A p \in HotOps : ck[p] # "in_progress"
    BY <1>h DEF Unfinished
  <2> QED BY <1>k, <1>1, <1>2, <2>1 DEF Current
<1>8. ActiveEpoch' = ActiveEpoch /\ ActiveParent' = ActiveParent /\ ActiveOps' = ActiveOps
  BY <1>1, SameMan
<1>9. /\ \A p \in FullOps : Current(p)' => p = o
      /\ \A p \in HotOps \cup FullOps : ck[p] = "in_progress" => p = o
  <2>1. \A p \in HotOps : ck[p] # "in_progress"
    BY <1>h DEF Unfinished
  <2>2. \A p \in FullOps : ck[p] = "in_progress" => p = o
    BY <1>0, <1>4 DEF AnnounceInv, Unfinished
  <2> QED BY <1>k, <1>1, <1>2, <2>1, <2>2 DEF Current
<1> HIDE DEF Current, Launch, Fresh, e, Adoptable, Overtake
<1>10. HideInv'
  BY <1>7 DEF HideInv
<1>11. FillInv'
  <2>1. /\ \A p \in FullOps : marks[p] \subseteq Files
        /\ \A p \in Ops : man[p].st # "none" => man[p].data # 0
    BY <1>0 DEF FillInv
  <2>2. man[o].st # "active" =>
          /\ e > ActiveEpoch /\ (man[o].st # "none" => man[o].data = e)
          /\ \A f \in marks[o] : \A s \in Stores : data[s][e][f] = o
    <3>1. CASE ck[o] = "none"
      BY <1>4, <1>5, <3>1
    <3>2. CASE ck[o] = "in_progress"
      BY <1>0, <1>c, <1>6, <3>2 DEF FillInv
    <3> QED BY <1>4, <3>1, <3>2
  <2>3. man[o].st = "active" => work[o].put \subseteq marks[o]
    BY <1>0, <1>4, <1>c DEF FillInv
  <2> QED BY <1>1, <1>3, <1>5, <1>8, <1>9, <2>1, <2>2, <2>3 DEF FillInv
<1>12. AboveInv'
  <2>1. \A x \in HotOps \cup FullOps : ck[x] = "in_progress" /\ man[x].st # "active" =>
          /\ ck'[x] = "in_progress" /\ man'[x].st # "active" /\ work'[x] = work[x]
          /\ x \in FullOps => meta'.epoch = meta.epoch
    BY <1>1, <1>3, <1>6, <1>9
  <2> QED BY <1>0, <1>l, <1>1, <1>8, <2>1, AboveFrame
<1>13. Untouched
  BY <1>1, <1>8 DEF Untouched
<1>14. View' = View /\ CopyInv'
  BY <1>0, <1>13, UntouchedKeeps
<1>15. AnnounceInv'
  <2>1. None \notin lapped' /\ run'.op \notin lapped' /\ run'.op \notin HotOps \cup ConfigOps
    BY <1>0, <1>h, <1>k, <1>l, <1>2 DEF AnnounceInv
  <2>2. \A p \in HotOps \cup ConfigOps \cup FullOps : ck[p] = "none" => p \notin lapped'
    BY <1>0, <1>l DEF AnnounceInv
  <2> QED BY <1>0, <1>k, <1>1, <1>2, <1>4, <1>9, <2>1, <2>2 DEF AnnounceInv
<1>16. StageInv' /\ MergeInv' /\ KeepInv'
  BY <1>2 DEF StageInv, MergeInv, KeepInv, GcPcs
<1> QED BY <1>1, <1>10, <1>11, <1>12, <1>14, <1>15, <1>16 DEF ShownInv, Shows

\* A republication announces no change and shows none: it carries epoch and link of
\* the active row forward.
LEMMA ShownRepublish ==
  ASSUME TypeInv, OrderInv, LaneInv, ShownInv, NEW o \in RelOps, Republish(o)
  PROVE  ShownInv' /\ Shows
<1> DEFINE w == [put |-> {}, del |-> {}]
<1>0. /\ Typed /\ Launched /\ PointInv /\ LoneInv /\ RowInv /\ AnnounceInv /\ FillInv /\ AboveInv /\ CopyInv
      /\ run \in Runs /\ man \in [Ops -> Rows] /\ meta \in Metas /\ "finish" \in Pcs
      /\ work \in [Ops -> {None} \cup Changes]
  BY PcNames DEF TypeInv, LaneInv, OrderlyInv, ShownInv, Typed
<1>k. /\ HotOps \subseteq Ops /\ ConfigOps \subseteq Ops /\ FullOps \subseteq Ops /\ None \notin Ops
      /\ o \in Ops /\ o \notin HotOps \cup ConfigOps \cup FullOps
      /\ HotOps \cap FullOps = {} /\ ConfigOps \cap FullOps = {}
  BY KindsApart
<1>1. /\ run.pc = "republish" /\ man[o].st = "none" /\ work[o] = None /\ Activate(o, ActiveEpoch)
      /\ work' = [work EXCEPT ![o] = w] /\ run' = [run EXCEPT !.pc = "finish"]
      /\ UNCHANGED <<data, ov, ck, marks, lapped>>
  BY DEF Republish, At, Fresh
<1>2. /\ run.op \in HotOps \cup ConfigOps /\ run.op \in Ops /\ run.op # None /\ run.op # o
      /\ IsTop(man, run.op) /\ man[run.op].st = "active" /\ Current(run.op) /\ ActiveOps # {}
  BY <1>0, <1>k, <1>1, ActiveIsTop DEF PointInv, IsTop, ActOps, Current
<1>3. run'.op = run.op /\ run'.pc = "finish"
  BY <1>0, <1>1, PcRun
<1>4. \A p \in Ops : Current(p)' <=> Current(p)
  BY <1>1, <1>3 DEF Current
<1>5. \A p \in Ops : Current(p) => p = run.op
  BY <1>0, <1>2 DEF LoneInv
<1>v. \A x \in FullOps \ lapped : ck[x] # "in_progress"
  <2>1. \A x \in FullOps \ lapped : ck[x] = "in_progress" => Current(x)
    BY DEF Current
  <2> QED BY <1>k, <1>2, <1>5, <2>1
<1> HIDE DEF Current, Adoptable, IsTop
<1>6. /\ man'[o].data = ActiveEpoch /\ man'[o].st = "active" /\ IsTop(man', o)
      /\ \A p \in Ops \ {o} : man'[p] = man[p]
      /\ ActiveEpoch' = ActiveEpoch /\ ActiveParent' = ActiveParent
  BY LaneRepublish
<1>7. ActiveOps' # {}
  BY <1>6, ActiveIsTop DEF IsTop
<1>8. meta'.ready
  <2>1. meta' = [epoch |-> ActiveEpoch, active |-> ActiveEpoch, ready |-> TRUE]
    BY <1>1 DEF Activate
  <2> QED BY <2>1
<1>9. ActiveEpoch # 0
  BY <1>0, <1>2, ActiveEpochs
<1>10. Untouched
  BY <1>1, <1>2, <1>6, <1>7 DEF Untouched
<1>11. View' = View /\ CopyInv'
  BY <1>0, <1>10, UntouchedKeeps
<1>12. AboveInv'
  <2>1. \A x \in HotOps \cup FullOps : ck[x] = "in_progress" /\ man[x].st # "active" =>
          /\ ck'[x] = "in_progress" /\ man'[x].st # "active" /\ work'[x] = work[x]
          /\ x \in FullOps \ lapped' => meta'.epoch = meta.epoch
    BY <1>0, <1>k, <1>1, <1>6, <1>v
  <2> QED BY <1>0, <1>1, <1>6, <2>1, AboveFrame
<1>13. HideInv'
  <2>1. \A p \in Ops : p = run.op => ~Adoptable(p)'
    BY <1>2, <1>6 DEF Adoptable
  <2> QED BY <1>k, <1>4, <1>5, <2>1 DEF HideInv
<1>14. FillInv'
  <2>1. \A p \in FullOps : ~Current(p)'
    BY <1>k, <1>2, <1>4, <1>5
  <2>2. \A p \in Ops : man'[p].st # "none" => man'[p].data # 0
    BY <1>0, <1>6, <1>9 DEF FillInv
  <2> QED BY <1>0, <1>1, <1>8, <2>1, <2>2 DEF FillInv
<1>15. AnnounceInv'
  <2>1. \A p \in HotOps \cup ConfigOps \cup FullOps : work'[p] = work[p] /\ man'[p] = man[p]
    BY <1>0, <1>k, <1>1, <1>6
  <2> QED BY <1>0, <1>1, <1>2, <1>3, <2>1 DEF AnnounceInv
<1>16. StageInv' /\ MergeInv' /\ KeepInv'
  BY <1>2, <1>3, <1>6 DEF StageInv, MergeInv, KeepInv, GcPcs
<1>17. Announces(o)
  <2>1. w \in Changes /\ w.put \cap w.del = {}
    BY DEF Changes
  <2> QED BY <1>1, <2>1 DEF Announces
<1> QED BY <1>k, <1>11, <1>12, <1>13, <1>14, <1>15, <1>16, <1>17 DEF ShownInv, Shows

\* Neither does closing an operation or a crash.
LEMMA ShownClose ==
  ASSUME TypeInv, LaneInv, ShownInv, Finish \/ Crash
  PROVE  ShownInv' /\ Shows
<1>0. /\ Typed /\ PointInv /\ AnnounceInv /\ StageInv
      /\ ck \in [Ops -> {"none", "in_progress", "completed", "failed"}]
  BY DEF TypeInv, LaneInv, ShownInv, Typed
<1>k. HotOps \subseteq Ops /\ ConfigOps \subseteq Ops /\ FullOps \subseteq Ops /\ None \notin Ops
  BY KindsApart
<1>1. UNCHANGED <<man, meta, data, ov, work, marks, lapped>> /\ run' = Idle
  BY DEF Finish, Crash, dbVars, ckVars
<1>2. run'.op = None /\ run'.pc = "idle"
  BY <1>1, LaunchRun
<1>3. \A p \in Ops : ck'[p] # ck[p] => ck'[p] = "completed" /\ man[p].st = "active"
  <2>1. CASE Crash
    BY <2>1 DEF Crash, ckVars
  <2>2. CASE Finish
    <3>1. man[run.op].st = "active"
      BY <1>0, <2>2 DEF Finish, PointInv, StageInv, IsTop, ActOps
    <3> QED BY <1>0, <2>2, <3>1 DEF Finish
  <2> QED BY <2>1, <2>2
<1>4. \A p \in Ops : Current(p)' => Current(p)
  BY <1>k, <1>1, <1>2, <1>3 DEF Current
<1> HIDE DEF Current
<1>5. FillInv' /\ AboveInv' /\ HideInv' /\ CopyInv' /\ View' = View
  <2>1. \A p \in HotOps \cup FullOps : ck[p] = "in_progress" /\ man[p].st # "active" => ck'[p] = "in_progress"
    BY <1>k, <1>3
  <2>2. \A p \in FullOps : marks'[p] = marks[p] /\ (ck'[p] = "none" => ck[p] = "none")
    BY <1>k, <1>1, <1>3
  <2> QED BY <1>1, <1>4, <2>1, <2>2, ShownQuiet
<1>6. AnnounceInv'
  <2>1. \A p \in HotOps \cup ConfigOps \cup FullOps :
          (ck'[p] = "none" => ck[p] = "none") /\ (ck'[p] = "in_progress" => ck[p] = "in_progress")
    BY <1>k, <1>3
  <2> QED BY <1>0, <1>k, <1>1, <1>2, <2>1 DEF AnnounceInv
<1>7. StageInv' /\ MergeInv' /\ KeepInv'
  BY <1>2 DEF StageInv, MergeInv, KeepInv, GcPcs
<1> QED BY <1>1, <1>5, <1>6, <1>7 DEF ShownInv, Shows

\* Nor does nothing.
LEMMA ShownStutter ==
  ASSUME TypeInv, ShownInv, UNCHANGED genVars
  PROVE  ShownInv' /\ Shows
<1>0. AnnounceInv /\ StageInv /\ MergeInv /\ KeepInv
  BY DEF ShownInv
<1>1. UNCHANGED <<man, meta, data, ov, ck, work, marks, mem, run, lapped>>
  BY DEF genVars
<1>2. ActiveEpoch' = ActiveEpoch /\ ActiveParent' = ActiveParent
  BY <1>1, SameMan
<1>3. \A p \in Ops : Current(p)' => Current(p)
  BY <1>1 DEF Current
<1> HIDE DEF Current
<1>4. FillInv' /\ AboveInv' /\ HideInv' /\ CopyInv' /\ View' = View
  BY <1>1, <1>3, ShownQuiet
<1>5. AnnounceInv'
  BY <1>0, <1>1 DEF AnnounceInv
<1>6. StageInv'
  BY <1>0, <1>1, <1>2 DEF StageInv
<1>7. MergeInv'
  BY <1>0, <1>1, <1>2 DEF MergeInv, Merged
<1>8. KeepInv'
  BY <1>0, <1>1, <1>2 DEF KeepInv
<1> QED BY <1>1, <1>4, <1>5, <1>6, <1>7, <1>8 DEF ShownInv, Shows

\* Every step keeps the sixth layer and is a step of Publication or none.
LEMMA ShownStep ==
  ASSUME TypeInv, OrderInv, LaneInv, MarkInv, ShownInv, [GenNext]_genVars, harm' = {}
  PROVE  ShownInv' /\ Shows
<1>t. TypeInv'
  BY TypeStep
<1>q. View' = View /\ UNCHANGED work => Shows
  BY DEF Shows
<1>1. CASE \/ \E o \in HotOps : StartHot(o)
           \/ \E o \in ConfigOps : StartConfig(o)
  BY <1>1, ShownLaunch
<1>2. CASE \E o \in HotOps : ResumeHot(o)
  BY <1>2, ShownResume
<1>3. CASE \E o \in FullOps : StartFull(o)
  BY <1>3, ShownStartFull
<1>4. CASE \/ PrepareAgain \/ Adopt \/ Resolve \/ CompactRows \/ CompactDocs \/ Unlink
           \/ CleanDocs \/ Register \/ AdoptFails \/ PrepareFails \/ PrepareRefused
  BY <1>4, <1>t, <1>q, ShownPrepare
<1>5. CASE Process
  BY <1>5, <1>q, ShownWrite
<1>6. CASE Mark \/ SkipModule \/ ProcessFails \/ CommitFails
  BY <1>6, <1>q, ShownModule
<1>7. CASE Abort
  BY <1>7, <1>q, ShownAbort
<1>8. CASE Commit
  BY <1>8, ShownCommit DEF Shows
<1>9. CASE PlanGc \/ CollectDocs \/ CollectRows \/ GcFails
  BY <1>9, <1>t, <1>q, ShownCollect
<1>10. CASE \/ FullNotReady \/ FullScan \/ FullManifest \/ FullActivate \/ FullFails
            \/ \E f \in Files : FullBatch(f)
  BY <1>10, <1>t, ShownFull
<1>11. CASE \E o \in RelOps : Republish(o)
  BY <1>11, ShownRepublish
<1>12. CASE Finish \/ Crash
  BY <1>12, ShownClose
<1>13. CASE UNCHANGED genVars
  BY <1>13, ShownStutter
<1> QED BY <1>1, <1>2, <1>3, <1>4, <1>5, <1>6, <1>7, <1>8, <1>9, <1>10, <1>11, <1>12, <1>13
     DEF GenNext, RunStep, HotStep, GcStep, FullStep, Fault

\* The sixth layer holds at first.
LEMMA ShownInit ==
  GenInit => ShownInv
<1> SUFFICES ASSUME GenInit PROVE ShownInv
  OBVIOUS
<1>k. /\ HotOps \subseteq Ops /\ ConfigOps \subseteq Ops /\ FullOps \subseteq Ops /\ None \notin Ops
  BY KindsApart
<1>1. run.pc = "idle" /\ run.op = None
  BY LaunchRun DEF GenInit
<1>2. \A o \in Ops : man[o].st = "none" /\ ck[o] = "none" /\ work[o] = None /\ marks[o] = {}
  BY DEF GenInit, NoRow
<1>3. \A o \in Ops : ~Current(o)
  BY <1>1, <1>2, <1>k DEF Current
<1>4. meta.ready
  BY DEF GenInit
<1>5. ActiveOps = {}
  BY <1>2 DEF ActiveOps
<1>6. ActiveEpoch = 0 /\ ActiveParent = 0
  BY <1>5, EmptyActive
<1>7. \A s \in Stores : \A e \in Epochs : \A f \in Files : data[s][e][f] = None
  BY DEF GenInit, Blank
<1> HIDE DEF Current, Adoptable
<1>l. lapped = {}
  BY DEF GenInit
<1>8. AnnounceInv
  BY <1>k, <1>l, <1>1, <1>2 DEF AnnounceInv
<1>9. FillInv
  BY <1>k, <1>2, <1>3, <1>4 DEF FillInv
<1>10. AboveInv
  BY <1>7 DEF AboveInv
<1>11. HideInv
  BY <1>k, <1>3 DEF HideInv
<1>12. CopyInv
  BY <1>6 DEF CopyInv
<1>13. StageInv /\ MergeInv /\ KeepInv
  BY <1>1 DEF StageInv, MergeInv, KeepInv, GcPcs
<1> QED BY <1>8, <1>9, <1>10, <1>11, <1>12, <1>13 DEF ShownInv

\* The sixth layer holds in every state reached without harm: no overtaken operation
\* was taken up again, no full index began beside an unfinished hot update or in the
\* published epoch, and no abort cleared an epoch that readers resolve.
THEOREM ShownInvariance ==
  GenSpec => [](harm = {} => ShownInv)
<1>1. GenInit => (harm = {} => ShownInv)
  BY ShownInit
<1>2. /\ TypeInv /\ OrderInv /\ ("stale" \notin harm => LaneInv) /\ AloneInv /\ MarkInv
      /\ (harm = {} => ShownInv) /\ [GenNext]_genVars
      => (harm = {} => ShownInv)'
  <2>1. [GenNext]_genVars /\ harm' = {} => harm = {} /\ "stale" \notin harm
    BY HistoryStep DEF HistoryGrows
  <2> QED BY <2>1, ShownStep
<1>4. GenSpec => [](AloneInv /\ MarkInv)
  BY MarksInvariance
<1>5. GenSpec => []("stale" \notin harm => LaneInv)
  BY LaneInvariance
<1> QED BY <1>1, <1>2, <1>4, <1>5, GenInvariance, OrderInvariance, PTL DEF GenSpec

\* Generations implements Publication: what readers see of the active manifest, in
\* SQLite and in the external stores, changes only by publishing one operation, with
\* all its changes and in both stores at once, until one of the four harms is done to
\* them, for any changes, any number of hot updates, configuration changes and full
\* indexes, any retention, crashes and failures. Each harm is needed: for each a
\* configuration of MCGenerations has TLC show what the code then does.
THEOREM GenerationsPublishAtomically ==
  GenSpec => PublishedAtomically
<1>1. GenInit => Snapshot!PubInit
  <2> SUFFICES ASSUME GenInit PROVE Snapshot!PubInit
    OBVIOUS
  <2>1. ActiveOps = {}
    BY DEF GenInit, ActiveOps, NoRow
  <2>2. [s \in Stores |-> [f \in Files |-> Visible(s, f)]] = [s \in Stores |-> [f \in Files |-> {}]]
    BY <2>1 DEF Visible
  <2>3. work = [o \in Ops |-> None] /\ (harm # {}) = FALSE
    BY DEF GenInit
  <2> QED BY <2>2, <2>3 DEF Snapshot!PubInit
<1>2. ASSUME Shows, harm = {}, harm' = {} PROVE [Snapshot!PubNext]_Snapshot!pubVars
  <2>s. (harm' # {}) = (harm # {})
    BY <1>2
  <2>v. View = [s \in Stores |-> [f \in Files |-> Visible(s, f)]]
    BY DEF View
  <2>1. CASE View' = View /\ UNCHANGED work
    BY <2>1, <2>s DEF View, Snapshot!pubVars
  <2>2. ASSUME View' = View, NEW o \in Ops, Announces(o) PROVE Snapshot!PubNext
    <3>1. Snapshot!Announce(o)
      BY <2>2, <2>s DEF Announces, Snapshot!Announce, View, Changes
    <3> QED BY <3>1 DEF Snapshot!PubNext
  <2>3. ASSUME UNCHANGED work, NEW o \in Ops, Publishes(o) PROVE Snapshot!PubNext
    <3>1. View' = [s \in Stores |-> [f \in Files |-> IF f \in work[o].put THEN {o}
                                     ELSE IF f \in work[o].del THEN {} ELSE View[s][f]]]
      BY <2>3 DEF Publishes, Replaced, View
    <3>2. Snapshot!Publish(o)
      BY <2>3, <2>s, <3>1 DEF Publishes, Snapshot!Publish, View
    <3> QED BY <3>2 DEF Snapshot!PubNext
  <2> QED BY <1>2, <2>1, <2>2, <2>3 DEF Shows
<1>3. ASSUME TypeInv, OrderInv, "stale" \notin harm => LaneInv, MarkInv, harm = {} => ShownInv,
             [GenNext]_genVars
      PROVE  [Snapshot!PubNext]_Snapshot!pubVars
  <2>1. CASE harm' = {}
    <3>1. harm = {} /\ "stale" \notin harm
      BY <1>3, <2>1, HistoryStep DEF HistoryGrows
    <3> QED BY <1>2, <1>3, <2>1, <3>1, ShownStep
  <2>2. CASE harm' # {}
    <3>1. (harm' # {}) = TRUE
      BY <2>2
    <3>2. Snapshot!Spoil
      BY <3>1 DEF Snapshot!Spoil
    <3> QED BY <3>2 DEF Snapshot!PubNext
  <2> QED BY <2>1, <2>2
<1>5. GenSpec => [](AloneInv /\ MarkInv)
  BY MarksInvariance
<1>6. GenSpec => []("stale" \notin harm => LaneInv)
  BY LaneInvariance
<1>7. GenSpec => [](harm = {} => ShownInv)
  BY ShownInvariance
<1> QED BY <1>1, <1>3, <1>5, <1>6, <1>7, GenInvariance, OrderInvariance, PTL
     DEF GenSpec, PublishedAtomically, Snapshot!PubSpec
=============================================================================

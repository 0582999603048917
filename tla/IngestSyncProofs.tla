-------------------------- MODULE IngestSyncProofs --------------------------
(***************************************************************************)
(* Proofs about the gateway and the ingest entries of the server, for any  *)
(* files, contents, batch size, threshold and number of edits, failures    *)
(* and crashes.                                                            *)
(*                                                                         *)
(*   IngestTyping         IngestTypeOK                                     *)
(*   PiecesAlwaysAgree    PiecesAgree                                      *)
(*   BaselineAlwaysKnown  BaselineKnown                                    *)
(*                                                                         *)
(* What the gateway knows after a pass rests on one chain: a chunk in      *)
(* flight is a chunk of the scan (BufInv), so a received piece is the      *)
(* piece of the version it was sent for (StagedInv); every chunk of a file *)
(* not yet in the mirror is asked for, in flight or received (CoverInv),   *)
(* so the last one completes it and a pass without errors leaves a mirror  *)
(* that holds the scan (MirrorInv), which the commit indexes (HeldInv).    *)
(***************************************************************************)
EXTENDS IngestSync, PositionLemmas, SequenceTheorems

\* What the chunks of a file may hold.
Pieces == UNION {ToSet(c) : c \in Contents}

\* The chunks a gateway that scanned s may send.
ScannedChunk(s) ==
  {c \in [file : Files, idx : Nat, piece : Pieces, total : Nat, hash : Contents] :
     /\ s[c.file] # None /\ c.idx \in 1..Len(s[c.file]) /\ c.piece = s[c.file][c.idx]
     /\ c.total = Len(s[c.file]) /\ c.hash = s[c.file]}

\* The pieces the server may have staged: each agrees with the version it is kept
\* under.
StagedPiece ==
  {p \in [ver : Snapshots, file : Files, idx : Nat, piece : Pieces] :
     /\ p.ver[p.file] # None /\ p.idx \in 1..Len(p.ver[p.file])
     /\ p.piece = p.ver[p.file][p.idx]}

\* The types of the variables but those of the pass in flight.
TypeInv ==
  /\ disk \in Snapshots /\ snap \in Snapshots /\ base \in Snapshots
  /\ mirror \in Snapshots /\ index \in Snapshots /\ rec \in Snapshots
  /\ pc \in {"down", "scan", "manifest", "upload", "commit", "watch", "collect", "push"}
  /\ first \in BOOLEAN /\ bad \in BOOLEAN /\ evs \subseteq Files
  /\ pend \subseteq Change /\ queue \subseteq Change /\ doubt \subseteq Files
  /\ edits \in 0..MaxEdits /\ faults \in 0..MaxFaults /\ crashes \in 0..MaxCrashes

\* The manifest asks for chunks of the scan only.
TodoInv == todo \subseteq {t \in Files \X Nat : snap[t[1]] # None /\ t[2] \in 1..Len(snap[t[1]])}
\* Chunks read and not yet sent are chunks of the scan.
BufInv == buf \in Seq(ScannedChunk(snap))
\* Staged pieces are pieces of their version.
StagedInv == staged \subseteq StagedPiece
\* Outside the upload nothing is asked for and nothing is in flight.
IdleInv == pc # "upload" => todo = {} /\ buf = <<>>

\* The server holds chunk i of f under the version of the scan.
Held(f, i) == \E p \in staged : p.ver = snap /\ p.file = f /\ p.idx = i
\* Chunk i of f is asked for, in flight or received.
Covered(f, i) == <<f, i>> \in todo \/ (\E n \in 1..Len(buf) : buf[n].file = f /\ buf[n].idx = i) \/ Held(f, i)
\* Some chunk of f is asked for or in flight.
Waiting(f) == (\E t \in todo : t[1] = f) \/ (\E n \in 1..Len(buf) : buf[n].file = f)

\* In an upload without errors a file that is not in doubt is in the mirror, or
\* every chunk of it is covered and some chunk is still to come.
CoverInv ==
  pc = "upload" /\ ~bad =>
    \A f \in Files \ doubt :
      \/ mirror[f] = snap[f]
      \/ snap[f] # None /\ Waiting(f) /\ \A i \in 1..Len(snap[f]) : Covered(f, i)
\* Before the commit the mirror holds what was scanned.
MirrorInv == pc = "commit" => \A f \in Files \ doubt : mirror[f] = snap[f]
\* In the watch loop mirror and index hold what the baseline says.
HeldInv ==
  pc \in {"watch", "collect", "push"} => \A f \in Files \ doubt : mirror[f] = base[f] /\ index[f] = base[f]
\* The inductive invariant.
IngestInv ==
  TypeInv /\ TodoInv /\ BufInv /\ StagedInv /\ IdleInv /\ CoverInv /\ MirrorInv /\ HeldInv

---------------------------------------------------------------------------
\* A file has at least one chunk (total_chunks_for_size of max(size, 1)), and is the
\* sequence of its chunks.
LEMMA ContentsFacts ==
  ASSUME NEW c \in Contents
  PROVE  /\ c # None
         /\ Len(c) \in Nat \ {0}
         /\ \A i \in 1..Len(c) : i \in Indices /\ c[i] \in Pieces
         /\ c = [i \in 1..Len(c) |-> c[i]]
<1>1. c \in Seq(ToSet(c)) /\ Len(c) > 0 /\ None \notin Contents
  BY IngestAssumption
<1>2. Len(c) \in Nat /\ c = [i \in 1..Len(c) |-> c[i]]
  <2> DEFINE S == ToSet(c)
  <2>1. c \in Seq(S)
    BY <1>1
  <2> HIDE DEF S
  <2> QED BY <2>1
<1>3. ASSUME NEW i \in 1..Len(c) PROVE c[i] \in ToSet(c)
  <2>1. DOMAIN c = 1..Len(c)
    <3> DEFINE S == ToSet(c)
    <3>1. c \in Seq(S)
      BY <1>1
    <3> HIDE DEF S
    <3> QED BY <3>1
  <2> QED BY <2>1 DEF ToSet
<1> QED BY <1>1, <1>2, <1>3 DEF Indices, Pieces

\* indices.sort_unstable keeps exactly the indices it is given.
LEMMA AscendingIn ==
  ASSUME NEW n \in Nat, NEW I \in SUBSET (1..n)
  PROVE  /\ Cardinality(I) \in Nat
         /\ Ascending(I) \in [1..Cardinality(I) -> I]
         /\ \A i \in I : \E k \in 1..Cardinality(I) : Ascending(I)[k] = i
<1>0. IsFiniteSet(I) /\ Cardinality(I) \in Nat
  BY PositionsFinite
<1> DEFINE At(k) == CHOOSE i \in I : Cardinality({j \in I : j <= i}) = k
<1>1. ASSUME NEW k \in 1..Cardinality(I)
      PROVE  At(k) \in I /\ CountUpTo(I, At(k)) = k
  <2>1. \E i \in I : Cardinality({j \in I : j <= i}) = k
    BY RankOnto DEF CountUpTo
  <2> QED BY <2>1 DEF CountUpTo
<1>2. Ascending(I) = [k \in 1..Cardinality(I) |-> At(k)]
  BY DEF Ascending
<1> HIDE DEF At
<1>3. ASSUME NEW i \in I PROVE \E k \in 1..Cardinality(I) : At(k) = i
  <2>1. i \in Int /\ 0 \in Int /\ 0 < i
    OBVIOUS
  <2>2. CountUpTo(I, i) \in Nat /\ CountUpTo(I, 0) \in Nat
    BY <2>1, RankType
  <2>3. CountUpTo(I, 0) < CountUpTo(I, i)
    BY <2>1, RankMonotone
  <2>4. CountUpTo(I, i) <= Cardinality(I)
    <3>1. {j \in I : j <= i} \in SUBSET I
      OBVIOUS
    <3> QED BY <1>0, <3>1, FS_Subset DEF CountUpTo
  <2> DEFINE k == CountUpTo(I, i)
  <2>5. k \in 1..Cardinality(I)
    BY <1>0, <2>2, <2>3, <2>4
  <2>6. PICK a \in I : At(k) = a /\ CountUpTo(I, a) = k
    BY <1>1, <2>5
  <2>7. CountUpTo(I, a) = CountUpTo(I, i) /\ a \in Int
    BY <2>6
  <2>8. ~(a < i) /\ ~(i < a)
    <3>1. a < i => CountUpTo(I, a) < CountUpTo(I, i)
      BY <2>1, <2>7, RankMonotone
    <3>2. i < a => CountUpTo(I, i) < CountUpTo(I, a)
      BY <2>1, <2>7, RankMonotone
    <3> QED BY <2>2, <2>7, <3>1, <3>2
  <2>9. a = i
    BY <2>1, <2>7, <2>8
  <2> QED BY <2>5, <2>6, <2>9
<1> QED BY <1>0, <1>1, <1>2, <1>3

\* upload_paths: a batch and the rest are the chunks read so far, none is lost.
LEMMA BatchSplits ==
  ASSUME NEW S, buf \in Seq(S), BatchChunks \in Nat \ {0}, buf # <<>>
  PROVE  /\ Batch \in Seq(S) /\ Rest \in Seq(S)
         /\ \A n \in 1..Len(buf) :
              (\E k \in 1..Len(Batch) : Batch[k] = buf[n]) \/ (\E k \in 1..Len(Rest) : Rest[k] = buf[n])
         /\ \A k \in 1..Len(Rest) : \E n \in 1..Len(buf) : buf[n] = Rest[k]
         /\ ToSet(Batch) = {Batch[k] : k \in 1..Len(Batch)}
         /\ ToSet(Batch) \subseteq S
<1> DEFINE m == IF Len(buf) < BatchChunks THEN Len(buf) ELSE BatchChunks
<1>1. Len(buf) \in Nat /\ m \in 1..Len(buf)
  BY EmptySeq
<1>2. Batch = SubSeq(buf, 1, m)
  BY DEF Batch
<1> HIDE DEF m
<1>3. /\ Batch \in Seq(S) /\ Len(Batch) = m
      /\ \A k \in 1..m : Batch[k] = buf[k]
  BY <1>1, <1>2
<1>4. Rest = SubSeq(buf, m + 1, Len(buf))
  BY <1>3 DEF Rest
<1>5. /\ Rest \in Seq(S) /\ Len(Rest) = Len(buf) - m
      /\ \A k \in 1..(Len(buf) - m) : Rest[k] = buf[m + k]
  <2>1. Rest \in Seq(S)
    BY <1>1, <1>4, SubSeqProperties
  <2> QED BY <1>1, <1>4, <2>1, SubSeqProperties
<1>6. ASSUME NEW n \in 1..Len(buf)
      PROVE  (\E k \in 1..Len(Batch) : Batch[k] = buf[n]) \/ (\E k \in 1..Len(Rest) : Rest[k] = buf[n])
  <2>1. CASE n <= m
    BY <1>1, <1>3, <2>1
  <2>2. CASE n > m
    <3>1. n - m \in 1..Len(Rest) /\ m + (n - m) = n
      BY <1>1, <1>5, <2>2
    <3>2. Rest[n - m] = buf[n]
      BY <1>5, <3>1
    <3> QED BY <3>1, <3>2
  <2> QED BY <1>1, <2>1, <2>2
<1>7. ASSUME NEW k \in 1..Len(Rest) PROVE \E n \in 1..Len(buf) : buf[n] = Rest[k]
  <2>1. m + k \in 1..Len(buf)
    BY <1>1, <1>5
  <2> QED BY <1>5, <2>1
<1>8. ToSet(Batch) = {Batch[k] : k \in 1..Len(Batch)}
  BY <1>3 DEF ToSet
<1>9. \A k \in 1..Len(Batch) : Batch[k] \in S
  BY <1>3
<1> QED BY <1>3, <1>5, <1>6, <1>7, <1>8, <1>9

---------------------------------------------------------------------------
\* An entry of the watch-change queue.
LEMMA ChangeType ==
  ASSUME NEW f \in Files, NEW v
  PROVE  [file |-> f, del |-> v = None] \in Change
<1>1. (v = None) \in BOOLEAN
  OBVIOUS
<1>2. \A b \in BOOLEAN : [file |-> f, del |-> b] \in Change
  BY DEF Change
<1> QED BY <1>1, <1>2, Zenon

\* A hot update, successful or not, keeps the types of what it writes.
LEMMA OperationTyping ==
  ASSUME TypeInv, NEW m \in Snapshots, NEW q \in SUBSET Change,
         OpSucceeds(m, q) \/ OpFails(m, q)
  PROVE  /\ index' \in Snapshots /\ rec' \in Snapshots
         /\ pend' \subseteq Change /\ queue' \subseteq Change
<1>1. Served(m, q) \subseteq Change /\ LeftQueue(q) \subseteq Change
  <2>1. ASSUME NEW f \in Files PROVE [file |-> f, del |-> m[f] = None] \in Change
    BY ChangeType
  <2> HIDE DEF Change
  <2>2. {[file |-> f, del |-> m[f] = None] : f \in {f \in Files : m[f] # index[f]}} \subseteq Change
    BY <2>1
  <2> QED BY <2>2 DEF TypeInv, Served, LeftQueue
<1>2. ASSUME NEW W PROVE Indexed(m, W) \in Snapshots
  BY DEF TypeInv, Indexed, Snapshots
<1>3. ASSUME NEW S PROVE Rowed(m, S) \in Snapshots
  BY DEF TypeInv, Rowed, Snapshots
<1>4. CASE OpSucceeds(m, q)
  BY <1>1, <1>2, <1>3, <1>4 DEF OpSucceeds
<1>5. CASE OpFails(m, q)
  BY <1>1, <1>3, <1>5 DEF OpFails, TypeInv
<1> QED BY <1>4, <1>5

\* So does the operation of a commit.
LEMMA CommitTyping ==
  ASSUME TypeInv, CommitRuns \/ CommitBreaks
  PROVE  /\ index' \in Snapshots /\ rec' \in Snapshots
         /\ pend' \subseteq Change /\ queue' \subseteq Change
<1>1. ASSUME NEW S PROVE Rowed(mirror, S) \in Snapshots
  BY DEF TypeInv, Rowed, Snapshots
<1>2. CASE FullSucceeds \/ FullFails
  BY <1>1, <1>2 DEF FullSucceeds, FullFails, TypeInv
<1>3. CASE OpSucceeds(mirror, queue) \/ OpFails(mirror, queue)
  <2>1. mirror \in Snapshots /\ queue \in SUBSET Change
    BY DEF TypeInv
  <2> QED BY <1>3, <2>1, OperationTyping
<1> QED BY <1>2, <1>3 DEF CommitRuns, CommitBreaks

\* So does the full index that replaces it.
LEMMA FullTyping ==
  ASSUME TypeInv, FullSucceeds
  PROVE  /\ index' \in Snapshots /\ rec' \in Snapshots
         /\ pend' \subseteq Change /\ queue' \subseteq Change
BY DEF FullSucceeds, TypeInv, Rowed, Snapshots

\* A batch consists of chunks of the scan, and writing it to the mirror leaves each
\* file as it was or as it was scanned.
LEMMA BatchTyping ==
  ASSUME TypeInv, BufInv, buf # <<>>
  PROVE  /\ ToSet(Batch) \subseteq ScannedChunk(snap)
         /\ Rest \in Seq(ScannedChunk(snap))
         /\ \A st, S : Mirrored(st, S) \in Snapshots
         /\ \A st, S : \A f \in Files : Mirrored(st, S)[f] = mirror[f] \/ Mirrored(st, S)[f] = snap[f]
<1>1. BatchChunks \in Nat \ {0}
  BY IngestAssumption
<1>2. /\ ToSet(Batch) \subseteq ScannedChunk(snap)
      /\ Rest \in Seq(ScannedChunk(snap))
  BY <1>1, BatchSplits DEF BufInv
<1>3. \A c \in ToSet(Batch) : c.hash \in Contents /\ c.hash = snap[c.file]
  BY <1>2 DEF ScannedChunk
<1>4. ASSUME NEW st, NEW S, NEW f \in Files
      PROVE  /\ Mirrored(st, S)[f] = mirror[f] \/ Mirrored(st, S)[f] = snap[f]
             /\ Mirrored(st, S)[f] \in Contents \cup {None}
  <2> DEFINE C == {c \in ToSet(Batch) : c.file = f /\ f \in S /\ Assembled(st, c) = c.hash}
  <2>1. Mirrored(st, S)[f] = IF C = {} THEN mirror[f] ELSE (CHOOSE c \in C : TRUE).hash
    BY DEF Mirrored
  <2>2. mirror[f] \in Contents \cup {None}
    BY DEF TypeInv, Snapshots
  <2>3. \A c \in C : c.hash = snap[f] /\ c.hash \in Contents
    BY <1>3
  <2> HIDE DEF C
  <2> QED BY <2>1, <2>2, <2>3
<1>5. ASSUME NEW st, NEW S PROVE Mirrored(st, S) \in Snapshots
  <2>1. \A f \in Files : Mirrored(st, S)[f] \in Contents \cup {None}
    BY <1>4
  <2>2. Mirrored(st, S) = [f \in Files |-> Mirrored(st, S)[f]]
    BY DEF Mirrored
  <2> QED BY <2>1, <2>2 DEF Snapshots
<1> QED BY <1>2, <1>4, <1>5

\* Every step keeps the types.
LEMMA TypeStep ==
  ASSUME IngestInv, IngestNext
  PROVE  TypeInv'
<1> USE DEF IngestInv
<1>a. /\ disk \in Snapshots /\ snap \in Snapshots /\ base \in Snapshots
      /\ mirror \in Snapshots /\ index \in Snapshots /\ rec \in Snapshots
  BY DEF TypeInv
<1>b. /\ pc \in {"down", "scan", "manifest", "upload", "commit", "watch", "collect", "push"}
      /\ first \in BOOLEAN /\ bad \in BOOLEAN /\ evs \subseteq Files
      /\ pend \subseteq Change /\ queue \subseteq Change /\ doubt \subseteq Files
  BY DEF TypeInv
<1>c. edits \in 0..MaxEdits /\ faults \in 0..MaxFaults /\ crashes \in 0..MaxCrashes
  BY DEF TypeInv
<1>d. \A D, mi, ix, ba : D \subseteq Files => Settle(D, mi, ix, ba) \subseteq Files
  BY DEF Settle
<1>e. MayFault => edits' \in 0..MaxEdits /\ faults' \in 0..MaxFaults /\ crashes' \in 0..MaxCrashes
  BY <1>c, IngestAssumption DEF MayFault
<1>f. Nothing \in Snapshots
  BY DEF Nothing, Snapshots
<1>g. PassFails => /\ pc' \in {"down", "watch"} /\ first' = first /\ doubt' \subseteq Files
                   /\ snap' = snap /\ base' = base
  BY <1>d DEF PassFails
<1>h. \A D : PassDone(D) /\ D \subseteq Files =>
        /\ pc' = "watch" /\ first' = FALSE /\ doubt' \subseteq Files
        /\ snap' = snap /\ base' = snap /\ disk' = disk /\ mirror' = mirror
        /\ bad' = bad /\ evs' = evs
  BY <1>b, <1>d DEF PassDone, passVars
<1> USE DEF gwVars, passVars, opVars, countVars
<1>1. ASSUME Start PROVE TypeInv'
  BY <1>1, <1>a, <1>b, <1>c DEF Start, TypeInv
<1>2. ASSUME Scan PROVE TypeInv'
  BY <1>2, <1>a, <1>b, <1>c DEF Scan, TypeInv
<1>3. ASSUME Manifest PROVE TypeInv'
  BY <1>3, <1>a, <1>b, <1>c DEF Manifest, TypeInv
<1>4. ASSUME NEW f \in Files, OpenFile(f) PROVE TypeInv'
  <2>1. bad' \in BOOLEAN
    BY <1>4, <1>b DEF OpenFile
  <2> QED BY <1>4, <2>1, <1>a, <1>b, <1>c DEF OpenFile, TypeInv
<1>5. ASSUME Flush PROVE TypeInv'
  <2>1. mirror' \in Snapshots
    BY <1>5, BatchTyping DEF Flush, Sendable
  <2>2. bad' \in BOOLEAN
    BY <1>5 DEF Flush
  <2> QED BY <1>5, <2>1, <2>2, <1>a, <1>b, <1>c DEF Flush, TypeInv
<1>6. ASSUME UploadFails PROVE TypeInv'
  BY <1>6, <1>a, <1>b, <1>c, <1>g DEF UploadFails, TypeInv
<1>7. ASSUME UploadDone PROVE TypeInv'
  BY <1>7, <1>a, <1>b, <1>c DEF UploadDone, TypeInv
<1>8. ASSUME Commit PROVE TypeInv'
  <2>1. /\ index' \in Snapshots /\ rec' \in Snapshots
        /\ pend' \subseteq Change /\ queue' \subseteq Change
    BY <1>8, CommitTyping DEF Commit
  <2>2. \E D \in SUBSET Files : PassDone(D)
    BY <1>8 DEF Commit
  <2>3. edits' = edits /\ faults' = faults /\ crashes' = crashes
    BY <1>8 DEF Commit
  <2> QED BY <2>1, <2>2, <2>3, <1>a, <1>b, <1>c, <1>h DEF TypeInv
<1>9. ASSUME Poll PROVE TypeInv'
  BY <1>9, <1>a, <1>b, <1>c DEF Poll, TypeInv
<1>10. ASSUME NEW E \in SUBSET Files, Collected(E),
              edits' \in 0..MaxEdits /\ faults' \in 0..MaxFaults /\ crashes' \in 0..MaxCrashes
       PROVE  TypeInv'
  <2>1. base' \in Snapshots /\ pc' \in {"watch", "scan", "push"} /\ evs' \subseteq Files
    BY <1>10, <1>a DEF Collected
  <2>2. doubt' \subseteq Files
    <3>1. Changed \subseteq Files
      BY DEF Changed
    <3> QED BY <1>10, <1>b, <1>d, <3>1 DEF Collected
  <2> QED BY <1>10, <2>1, <2>2, <1>a, <1>b DEF Collected, TypeInv
<1>11. ASSUME Collect PROVE TypeInv'
  <2>1. Readable \in SUBSET Files
    BY DEF Readable, Changed
  <2> QED BY <1>10, <1>11, <2>1, <1>c DEF Collect
<1>12. ASSUME CollectFails PROVE TypeInv'
  <2>1. \A f : Readable \ {f} \in SUBSET Files
    BY DEF Readable, Changed
  <2> QED BY <1>10, <1>12, <2>1, <1>e DEF CollectFails
<1>13. ASSUME NEW S \in SUBSET Files PROVE MirrorAfter(S) \in Snapshots /\ QueueAfter(S) \in SUBSET Change
  <2>1. {[file |-> f, del |-> snap[f] = None] : f \in S} \subseteq Change
    BY ChangeType
  <2>2. MirrorAfter(S) \in Snapshots
    BY <1>a DEF MirrorAfter, Snapshots
  <2>3. QueueAfter(S) \in SUBSET Change
    BY <2>1, <1>b DEF QueueAfter
  <2> QED BY <2>2, <2>3
<1>14. ASSUME Push PROVE TypeInv'
  <2>1. mirror' \in Snapshots /\ QueueAfter(evs) \in SUBSET Change
    BY <1>13, <1>14, <1>b DEF Push
  <2>2. /\ index' \in Snapshots /\ rec' \in Snapshots
        /\ pend' \subseteq Change /\ queue' \subseteq Change
    BY <1>14, <2>1, OperationTyping DEF Push
  <2>3. doubt' \subseteq Files
    <3> DEFINE D == doubt \cup (Changed \ evs) \cup
                     (IF pend # {} THEN evs \cup FilesOf(pend) ELSE FilesOf(queue) \ evs)
    <3>1. \A W \in SUBSET Change : FilesOf(W) \subseteq Files
      BY DEF FilesOf, Change
    <3>2. D \subseteq Files
      BY <3>1, <1>b DEF Changed
    <3>3. doubt' = Settle(D, mirror', index', snap)
      BY <1>14 DEF Push
    <3> HIDE DEF D
    <3> QED BY <3>2, <3>3, <1>d
  <2> QED BY <1>14, <2>1, <2>2, <2>3, <1>a, <1>b, <1>c DEF Push, TypeInv
<1>15. ASSUME FlushFails PROVE TypeInv'
  <2>1. mirror' \in Snapshots
    BY <1>15, BatchTyping DEF FlushFails, Sendable
  <2>2. bad' \in BOOLEAN /\ MayFault
    BY <1>15 DEF FlushFails
  <2> QED BY <1>15, <2>1, <2>2, <1>a, <1>b, <1>e DEF FlushFails, TypeInv
<1>16. ASSUME RequestFails PROVE TypeInv'
  BY <1>16, <1>a, <1>b, <1>e, <1>g DEF RequestFails, TypeInv
<1>17. ASSUME CommitFallsBack PROVE TypeInv'
  <2>1. /\ index' \in Snapshots /\ rec' \in Snapshots
        /\ pend' \subseteq Change /\ queue' \subseteq Change
    BY <1>17, FullTyping DEF CommitFallsBack
  <2>2. PassDone({}) /\ MayFault
    BY <1>17 DEF CommitFallsBack
  <2> QED BY <2>1, <2>2, <1>a, <1>b, <1>e, <1>h DEF TypeInv
<1>18. ASSUME CommitFails PROVE TypeInv'
  <2>1. /\ index' \in Snapshots /\ rec' \in Snapshots
        /\ pend' \subseteq Change /\ queue' \subseteq Change
    BY <1>18, CommitTyping DEF CommitFails
  <2> QED BY <1>18, <2>1, <1>a, <1>b, <1>e, <1>g DEF CommitFails, TypeInv
<1>19. ASSUME CommitUnsuccessful PROVE TypeInv'
  <2>1. /\ index' \in Snapshots /\ rec' \in Snapshots
        /\ pend' \subseteq Change /\ queue' \subseteq Change
    BY <1>19, CommitTyping DEF CommitUnsuccessful
  <2>2. PassDone(Files) /\ MayFault
    BY <1>19 DEF CommitUnsuccessful
  <2> QED BY <2>1, <2>2, <1>a, <1>b, <1>e, <1>h DEF TypeInv
<1>20. ASSUME PushFails PROVE TypeInv'
  <2>0. MayFault
    BY <1>20 DEF PushFails
  <2>1. PICK S \in SUBSET evs :
          /\ mirror' = MirrorAfter(S)
          /\ \/ OpSucceeds(mirror', QueueAfter(S))
             \/ OpFails(mirror', QueueAfter(S))
             \/ UNCHANGED opVars
    BY <1>20 DEF PushFails
  <2>2. mirror' \in Snapshots /\ QueueAfter(S) \in SUBSET Change
    BY <1>13, <2>1, <1>b
  <2>3. /\ index' \in Snapshots /\ rec' \in Snapshots
        /\ pend' \subseteq Change /\ queue' \subseteq Change
    <3>1. CASE UNCHANGED opVars
      BY <3>1, <1>a, <1>b
    <3>2. CASE OpSucceeds(mirror', QueueAfter(S)) \/ OpFails(mirror', QueueAfter(S))
      BY <3>2, <2>2, OperationTyping
    <3> QED BY <2>1, <3>1, <3>2
  <2>4. base' \in Snapshots /\ doubt' \subseteq Files
    BY <1>20, <1>a, <1>d DEF PushFails
  <2> QED BY <1>20, <2>0, <2>2, <2>3, <2>4, <1>a, <1>b, <1>e DEF PushFails, TypeInv
<1>21. ASSUME Crash PROVE TypeInv'
  <2>1. crashes' \in 0..MaxCrashes
    BY <1>21, <1>c, IngestAssumption DEF Crash
  <2> QED BY <1>21, <2>1, <1>a, <1>b, <1>c, <1>f DEF Crash, TypeInv
<1>22. ASSUME NEW f \in Files, Edit(f) PROVE TypeInv'
  <2>1. disk' \in Snapshots
    BY <1>22, <1>a DEF Edit, Snapshots
  <2>2. edits' \in 0..MaxEdits
    BY <1>22, <1>c, IngestAssumption DEF Edit
  <2> QED BY <1>22, <2>1, <2>2, <1>a, <1>b, <1>c DEF Edit, TypeInv
<1>23. ASSUME NEW f \in Files, CollectRow(f) PROVE TypeInv'
  <2>1. rec' \in Snapshots
    BY <1>23, <1>a DEF CollectRow, Snapshots
  <2> QED BY <1>23, <2>1, <1>a, <1>b, <1>c DEF CollectRow, TypeInv
<1> QED
  BY <1>1, <1>2, <1>3, <1>4, <1>5, <1>6, <1>7, <1>8, <1>9, <1>11, <1>12, <1>14, <1>15,
     <1>16,
     <1>17, <1>18, <1>19, <1>20, <1>21, <1>22, <1>23
  DEF IngestNext, GatewayStep, IngestFault

---------------------------------------------------------------------------
\* stage_file stores under a version only pieces of it.
LEMMA StoredPieces ==
  ASSUME TypeInv, BufInv, StagedInv, buf # <<>>, NEW S
  PROVE  Stored(S) \subseteq StagedPiece
<1> DEFINE new == {c \in ToSet(Batch) : c.file \in S}
           P(c) == [ver |-> snap, file |-> c.file, idx |-> c.idx, piece |-> c.piece]
<1>1. ASSUME NEW c \in new PROVE P(c) \in StagedPiece
  <2>1. c \in ScannedChunk(snap)
    BY BatchTyping
  <2>2. /\ c.file \in Files /\ c.idx \in Nat /\ c.piece \in Pieces
        /\ snap[c.file] # None /\ c.idx \in 1..Len(snap[c.file]) /\ c.piece = snap[c.file][c.idx]
    BY <2>1 DEF ScannedChunk
  <2>3. snap \in Snapshots
    BY DEF TypeInv
  <2> HIDE DEF new
  <2> QED BY <2>2, <2>3 DEF StagedPiece
<1>2. Stored(S) \subseteq staged \cup {P(c) : c \in new}
  BY DEF Stored, ManifestVersion
<1> HIDE DEF new, P
<1> QED BY <1>1, <1>2 DEF StagedInv

\* Every step keeps the staged pieces sound.
LEMMA StagedStep ==
  ASSUME IngestInv, IngestNext
  PROVE  StagedInv'
<1> USE DEF IngestInv
<1>1. CASE Flush \/ FlushFails
  <2>1. buf # <<>> /\ \E S : staged' = Stored(S)
    BY <1>1 DEF Flush, FlushFails, Sendable
  <2> QED BY <2>1, StoredPieces DEF StagedInv
<1>2. CASE staged' = {} \/ staged' \in Swept \/ staged' = staged
  BY <1>2 DEF StagedInv, Swept
<1>3. CASE \E E : Collected(E)
  BY <1>3, <1>2 DEF Collected
<1> USE DEF gwVars, passVars, opVars, countVars
<1>4. CASE Start \/ Scan \/ Manifest \/ (\E f \in Files : OpenFile(f)) \/ UploadFails \/ UploadDone \/ Poll
  BY <1>4, <1>2 DEF Start, Scan, Manifest, OpenFile, UploadFails, UploadDone, Poll
<1>5. CASE Commit \/ CommitFallsBack \/ CommitFails \/ CommitUnsuccessful
  BY <1>5, <1>2 DEF Commit, CommitFallsBack, CommitFails, CommitUnsuccessful
<1>6. CASE Push \/ PushFails \/ RequestFails \/ Crash
  BY <1>6, <1>2 DEF Push, PushFails, RequestFails, Crash
<1>7. CASE Collect \/ CollectFails
  BY <1>7, <1>3 DEF Collect, CollectFails
<1>8. CASE \E f \in Files : Edit(f) \/ CollectRow(f)
  BY <1>8, <1>2 DEF Edit, CollectRow
<1> QED BY <1>1, <1>4, <1>5, <1>6, <1>7, <1>8 DEF IngestNext, GatewayStep, IngestFault

\* upload_paths reads a file that is still the scanned one into chunks that include
\* all that was asked for, or notes an error.
LEMMA OpenedChunks ==
  ASSUME IngestInv, NEW f \in Files, OpenFile(f)
  PROVE  \/ bad' /\ buf' = buf
         \/ /\ bad' = bad
            /\ \E X \in Seq(ScannedChunk(snap)) :
                 /\ buf' = buf \o X
                 /\ \A i : <<f, i>> \in todo =>
                      \E n \in 1..Len(X) : X[n].file = f /\ X[n].idx = i
<1> USE DEF IngestInv
<1> DEFINE T == {t \in todo : t[1] = f}
           I == {t[2] : t \in T}
           wanted == Ascending(I)
           X == [i \in DOMAIN wanted |->
                   [file |-> f, idx |-> wanted[i], piece |-> disk[f][wanted[i]],
                    total |-> Len(disk[f]), hash |-> snap[f]]]
<1>1. CASE disk[f] # snap[f]
  BY <1>1 DEF OpenFile
<1>2. CASE disk[f] = snap[f]
  <2>1. \A t \in todo : /\ t \in Files \X Nat
                        /\ snap[t[1]] # None
                        /\ t[2] \in 1..Len(snap[t[1]])
    BY DEF TodoInv
  <2>2. snap[f] # None /\ I \in SUBSET (1..Len(snap[f]))
    <3>1. \E t \in todo : t[1] = f
      BY DEF OpenFile
    <3> QED BY <2>1, <3>1
  <2>3. snap[f] \in Contents
    BY <2>2 DEF TypeInv, Snapshots
  <2>4. /\ Len(snap[f]) \in Nat
        /\ \A i \in 1..Len(snap[f]) : snap[f][i] \in Pieces
    BY <2>3, ContentsFacts
  <2>5. buf' = buf \o X /\ bad' = bad
    BY <1>2 DEF OpenFile
  <2>6. \A i : <<f, i>> \in todo => i \in I
    OBVIOUS
  <2> HIDE DEF I
  <2>7. /\ Cardinality(I) \in Nat
        /\ wanted \in [1..Cardinality(I) -> I]
        /\ \A i \in I : \E k \in 1..Cardinality(I) : wanted[k] = i
    BY <2>2, <2>4, AscendingIn
  <2> HIDE DEF wanted
  <2>8. DOMAIN X = 1..Cardinality(I)
    BY <2>7
  <2>9. ASSUME NEW k \in 1..Cardinality(I)
        PROVE  X[k] \in ScannedChunk(snap) /\ X[k].file = f /\ X[k].idx = wanted[k]
    <3>1. X[k] = [file |-> f, idx |-> wanted[k], piece |-> snap[f][wanted[k]],
                  total |-> Len(snap[f]), hash |-> snap[f]]
      BY <1>2, <2>7
    <3> HIDE DEF X
    <3>a. wanted[k] \in I
      BY <2>7
    <3>b. ASSUME NEW j \in I PROVE j \in 1..Len(snap[f]) /\ j \in Nat
      <4>1. j \in 1..Len(snap[f])
        BY <2>2
      <4> QED BY <2>4, <4>1
    <3>2. wanted[k] \in 1..Len(snap[f]) /\ wanted[k] \in Nat
      BY <3>a, <3>b
    <3> QED BY <2>2, <2>3, <2>4, <3>1, <3>2 DEF ScannedChunk
  <2>10. X = [k \in 1..Cardinality(I) |-> X[k]]
    BY <2>8
  <2> HIDE DEF X
  <2>11. X \in Seq(ScannedChunk(snap)) /\ Len(X) = Cardinality(I)
    BY <2>7, <2>9, <2>10
  <2>12. \A i : <<f, i>> \in todo => \E n \in 1..Len(X) : X[n].file = f /\ X[n].idx = i
    BY <2>6, <2>7, <2>9, <2>11
  <2> QED BY <2>5, <2>11, <2>12
<1> QED BY <1>1, <1>2

\* Every step keeps what is known of the pass in flight.
LEMMA PassStep ==
  ASSUME IngestInv, IngestNext
  PROVE  TodoInv' /\ BufInv' /\ IdleInv'
<1> USE DEF IngestInv
<1> USE DEF gwVars, passVars, opVars, countVars
<1>a. ASSUME todo' = {}, buf' = <<>> PROVE TodoInv' /\ BufInv' /\ IdleInv'
  <2>1. buf' \in Seq(ScannedChunk(snap'))
    BY <1>a
  <2> QED BY <1>a, <2>1 DEF TodoInv, BufInv, IdleInv
<1>b. ASSUME pc # "upload", todo' = todo, buf' = buf PROVE TodoInv' /\ BufInv' /\ IdleInv'
  BY <1>a, <1>b DEF IdleInv
<1>c. ASSUME pc = "upload", pc' = pc, snap' = snap, todo' \subseteq todo,
             buf' \in Seq(ScannedChunk(snap))
      PROVE  TodoInv' /\ BufInv' /\ IdleInv'
  BY <1>c DEF TodoInv, BufInv, IdleInv
<1>d. ASSUME pc' = pc, snap' = snap, todo' = todo, buf' = buf
      PROVE  TodoInv' /\ BufInv' /\ IdleInv'
  BY <1>d DEF TodoInv, BufInv, IdleInv
<1>1. CASE Manifest
  <2>1. pc' = "upload" /\ snap' = snap /\ buf' = <<>>
    BY <1>1 DEF Manifest
  <2>2. ASSUME NEW t \in todo'
        PROVE  t \in Files \X Nat /\ snap[t[1]] # None /\ t[2] \in 1..Len(snap[t[1]])
    <3>1. PICK f \in Files : ~Unasked(f) /\ t \in {f} \X ((1..Len(snap[f])) \ Received(f))
      BY <1>1, <2>2 DEF Manifest
    <3>2. snap[f] # None
      BY <3>1 DEF Unasked
    <3>3. snap[f] \in Contents
      BY <3>2 DEF TypeInv, Snapshots
    <3>4. Len(snap[f]) \in Nat
      BY <3>3, ContentsFacts
    <3> QED BY <3>1, <3>2, <3>4
  <2>3. TodoInv'
    BY <2>1, <2>2 DEF TodoInv
  <2>4. BufInv'
    BY <2>1 DEF BufInv
  <2> QED BY <2>1, <2>3, <2>4 DEF IdleInv
<1>2. CASE \E f \in Files : OpenFile(f)
  <2>1. PICK f \in Files : OpenFile(f)
    BY <1>2
  <2>2. buf' \in Seq(ScannedChunk(snap))
    <3>1. CASE buf' = buf
      BY <3>1 DEF BufInv
    <3>2. CASE \E X \in Seq(ScannedChunk(snap)) : buf' = buf \o X
      BY <3>2, ConcatProperties DEF BufInv
    <3> QED BY <2>1, <3>1, <3>2, OpenedChunks
  <2>3. pc = "upload" /\ pc' = pc /\ snap' = snap /\ todo' \subseteq todo
    BY <2>1 DEF OpenFile
  <2> QED BY <1>c, <2>2, <2>3
<1>3. CASE Flush \/ FlushFails
  <2>1. /\ buf # <<>> /\ pc = "upload" /\ pc' = pc /\ snap' = snap /\ todo' = todo
        /\ buf' = Rest
    BY <1>3 DEF Flush, FlushFails, Sendable
  <2> QED BY <1>c, <2>1, BatchTyping
<1>4. CASE UploadFails \/ UploadDone
  BY <1>4, <1>a DEF UploadFails, UploadDone
<1>5. CASE Crash
  BY <1>5, <1>a DEF Crash
<1>6. CASE Start \/ Scan \/ Poll \/ RequestFails \/ Push \/ PushFails
  BY <1>6, <1>b DEF Start, Scan, Poll, RequestFails, Push, PushFails
<1>7. CASE Commit \/ CommitFallsBack \/ CommitUnsuccessful \/ CommitFails
  BY <1>7, <1>b DEF Commit, CommitFallsBack, CommitUnsuccessful, CommitFails, PassDone
<1>8. CASE Collect \/ CollectFails
  BY <1>8, <1>b DEF Collect, CollectFails, Collected
<1>9. CASE \E f \in Files : Edit(f) \/ CollectRow(f)
  BY <1>9, <1>d DEF Edit, CollectRow
<1> QED
  BY <1>1, <1>2, <1>3, <1>4, <1>5, <1>6, <1>7, <1>8, <1>9 DEF IngestNext, GatewayStep,
     IngestFault

---------------------------------------------------------------------------
\* received_chunk_indices: a file all chunks of which are received is not asked for.
LEMMA ReceivedAll ==
  ASSUME TypeInv, StagedInv, NEW f \in Files, snap[f] # None,
         \A i \in 1..Len(snap[f]) : Held(f, i)
  PROVE  Unasked(f)
<1>1. snap[f] \in Contents
  BY DEF TypeInv, Snapshots
<1>2. Len(snap[f]) \in Nat
  BY <1>1, ContentsFacts
<1>3. Received(f) \subseteq 1..Len(snap[f])
  BY DEF Received, StagedInv, StagedPiece, ManifestVersion
<1>4. 1..Len(snap[f]) \subseteq Received(f)
  BY DEF Received, Held, ManifestVersion
<1>5. Received(f) = 1..Len(snap[f])
  BY <1>3, <1>4
<1>6. Cardinality(Received(f)) = Len(snap[f])
  BY <1>2, <1>5, FS_Interval
<1> QED BY <1>2, <1>6 DEF Unasked

\* stage_file keeps what was received and adds the batch.
LEMMA StoredHolds ==
  ASSUME TypeInv, BufInv, buf # <<>>, staged' = Stored(Files), snap' = snap
  PROVE  /\ \A f, i : Held(f, i) => Held(f, i)'
         /\ \A c \in ToSet(Batch) : Held(c.file, c.idx)'
<1> DEFINE new == {c \in ToSet(Batch) : c.file \in Files}
           P(c) == [ver |-> snap, file |-> c.file, idx |-> c.idx, piece |-> c.piece]
<1>1. staged' = {p \in staged : <<p.ver, p.file, p.idx>> \notin {<<snap, c.file, c.idx>> : c \in new}}
                  \cup {P(c) : c \in new}
  BY DEF Stored, ManifestVersion
<1>2. \A c \in ToSet(Batch) : c \in new
  BY BatchTyping DEF ScannedChunk
<1> HIDE DEF new
<1>3. ASSUME NEW c \in new PROVE Held(c.file, c.idx)'
  <2>1. P(c) \in staged' /\ P(c).ver = snap /\ P(c).file = c.file /\ P(c).idx = c.idx
    BY <1>1
  <2> HIDE DEF P
  <2> QED BY <2>1 DEF Held
<1>4. ASSUME NEW f, NEW i, Held(f, i) PROVE Held(f, i)'
  <2>1. PICK p \in staged : p.ver = snap /\ p.file = f /\ p.idx = i
    BY <1>4 DEF Held
  <2>2. CASE <<p.ver, p.file, p.idx>> \in {<<snap, c.file, c.idx>> : c \in new}
    <3>1. PICK c \in new : <<p.ver, p.file, p.idx>> = <<snap, c.file, c.idx>>
      BY <2>2
    <3>2. c.file = f /\ c.idx = i
      BY <2>1, <3>1
    <3> QED BY <1>3, <3>2
  <2>3. CASE <<p.ver, p.file, p.idx>> \notin {<<snap, c.file, c.idx>> : c \in new}
    <3>1. p \in staged'
      BY <1>1, <2>3
    <3> QED BY <2>1, <3>1 DEF Held
  <2> QED BY <2>2, <2>3
<1> QED BY <1>2, <1>3, <1>4

\* read_assembled_pieces: once all pieces of a version are there, they are the file.
LEMMA AssembledIs ==
  ASSUME TypeInv, NEW st \in SUBSET StagedPiece, NEW c \in ScannedChunk(snap),
         \A i \in 1..Len(snap[c.file]) : \E p \in st : p.ver = snap /\ p.file = c.file /\ p.idx = i
  PROVE  Assembled(st, c) = c.hash
<1>1. /\ c.file \in Files /\ snap[c.file] # None
      /\ c.total = Len(snap[c.file]) /\ c.hash = snap[c.file]
  BY DEF ScannedChunk
<1> DEFINE s == snap[c.file]
<1>2. s \in Contents
  BY <1>1 DEF TypeInv, Snapshots
<1> DEFINE P(i) == {p \in st : p.ver = snap /\ p.file = c.file /\ p.idx = i}
           Piece(i) == IF P(i) = {} THEN None ELSE (CHOOSE p \in P(i) : TRUE).piece
<1>3. Assembled(st, c) = [i \in 1..Len(s) |-> Piece(i)]
  BY <1>1 DEF Assembled, ManifestVersion
<1>4. ASSUME NEW i \in 1..Len(s) PROVE Piece(i) = s[i]
  <2>1. P(i) # {}
    OBVIOUS
  <2>2. \A p \in P(i) : p.piece = s[i]
    BY DEF StagedPiece
  <2> HIDE DEF P
  <2> QED BY <2>1, <2>2
<1>5. s = [i \in 1..Len(s) |-> s[i]]
  BY <1>2, ContentsFacts
<1> HIDE DEF Piece
<1>6. [i \in 1..Len(s) |-> Piece(i)] = [i \in 1..Len(s) |-> s[i]]
  BY <1>4
<1> QED BY <1>1, <1>3, <1>5, <1>6

\* Every step keeps a file covered until it is in the mirror: the batch that brings
\* the last chunk of it writes it.
LEMMA CoverStep ==
  ASSUME IngestInv, IngestNext
  PROVE  CoverInv'
<1> USE DEF IngestInv
<1> USE DEF gwVars, passVars, opVars, countVars
<1> DEFINE Good(f) == snap[f] # None /\ Waiting(f) /\ \A i \in 1..Len(snap[f]) : Covered(f, i)
<1>a. ASSUME pc' = "upload", ~bad', NEW f \in Files, f \notin doubt',
             Manifest \/ (\E g \in Files : OpenFile(g)) \/ Flush
      PROVE  mirror'[f] = snap'[f] \/ Good(f)'
  <2>1. CASE Manifest
    <3>1. snap' = snap /\ mirror' = mirror /\ staged' = staged /\ buf' = <<>>
      BY <2>1 DEF Manifest
    <3>2. CASE Unasked(f)
      BY <1>a, <2>1, <3>1, <3>2 DEF Manifest
    <3>3. CASE ~Unasked(f)
      <4>1. snap[f] # None
        BY <3>3 DEF Unasked
      <4>2. \A i \in (1..Len(snap[f])) \ Received(f) : <<f, i>> \in todo'
        BY <2>1, <3>3 DEF Manifest
      <4>3. \A i \in Received(f) : Held(f, i)
        BY DEF Received, Held, ManifestVersion
      <4>4. PICK j \in 1..Len(snap[f]) : ~Held(f, j)
        BY <3>3, <4>1, ReceivedAll
      <4>5. <<f, j>> \in todo'
        BY <4>2, <4>3, <4>4
      <4>6. Waiting(f)'
        BY <4>5 DEF Waiting
      <4>7. ASSUME NEW i \in 1..Len(snap[f]) PROVE Covered(f, i)'
        <5>1. CASE i \in Received(f)
          BY <3>1, <4>3, <5>1 DEF Covered, Held
        <5>2. CASE i \notin Received(f)
          BY <4>2, <5>2 DEF Covered
        <5> QED BY <5>1, <5>2
      <4> QED BY <3>1, <4>1, <4>6, <4>7
    <3> QED BY <3>2, <3>3
  <2>2. ASSUME NEW g \in Files, OpenFile(g) PROVE mirror'[f] = snap'[f] \/ Good(f)'
    <3>1. /\ pc = "upload" /\ snap' = snap /\ mirror' = mirror /\ staged' = staged /\ doubt' = doubt
          /\ todo' = {t \in todo : t[1] # g}
      BY <2>2 DEF OpenFile
    <3>2. PICK X \in Seq(ScannedChunk(snap)) :
            /\ bad' = bad
            /\ buf' = buf \o X
            /\ \A i : <<g, i>> \in todo =>
                 \E n \in 1..Len(X) : X[n].file = g /\ X[n].idx = i
      BY <1>a, <2>2, OpenedChunks
    <3>3. CASE mirror[f] = snap[f]
      BY <3>1, <3>3
    <3>4. CASE Good(f)
      <4>1. /\ Len(buf') = Len(buf) + Len(X) /\ Len(buf) \in Nat /\ Len(X) \in Nat
            /\ \A n \in 1..Len(buf) : buf'[n] = buf[n]
            /\ \A n \in 1..Len(X) : buf'[Len(buf) + n] = X[n]
        BY <3>2, ConcatProperties DEF BufInv
      <4>2. \A n \in 1..Len(buf) : \E k \in 1..Len(buf') : buf'[k] = buf[n]
        BY <4>1
      <4>3. ASSUME NEW n \in 1..Len(X) PROVE \E k \in 1..Len(buf') : buf'[k] = X[n]
        <5>1. Len(buf) + n \in 1..Len(buf')
          BY <4>1
        <5> QED BY <4>1, <5>1
      <4>4. ASSUME NEW i, <<f, i>> \in todo
            PROVE  <<f, i>> \in todo' \/ \E n \in 1..Len(buf') : buf'[n].file = f /\ buf'[n].idx = i
        <5>1. CASE f # g
          BY <3>1, <4>4, <5>1
        <5>2. CASE f = g
          <6>1. PICK n \in 1..Len(X) : X[n].file = f /\ X[n].idx = i
            BY <3>2, <4>4, <5>2
          <6>2. PICK k \in 1..Len(buf') : buf'[k] = X[n]
            BY <4>3
          <6> QED BY <6>1, <6>2
        <5> QED BY <5>1, <5>2
      <4>5. Waiting(f)'
        <5>1. CASE \E t \in todo : t[1] = f
          <6>1. PICK t \in todo : t[1] = f
            BY <5>1
          <6>2. t = <<f, t[2]>>
            BY <6>1 DEF TodoInv
          <6>3. <<f, t[2]>> \in todo
            BY <6>2
          <6>4. <<f, t[2]>> \in todo' \/ \E n \in 1..Len(buf') : buf'[n].file = f
            BY <4>4, <6>3
          <6> QED BY <6>4 DEF Waiting
        <5>2. CASE \E n \in 1..Len(buf) : buf[n].file = f
          BY <4>2, <5>2 DEF Waiting
        <5> QED BY <3>4, <5>1, <5>2 DEF Waiting
      <4>6. ASSUME NEW i \in 1..Len(snap[f]) PROVE Covered(f, i)'
        <5>1. CASE <<f, i>> \in todo
          BY <4>4, <5>1 DEF Covered
        <5>2. CASE \E n \in 1..Len(buf) : buf[n].file = f /\ buf[n].idx = i
          BY <4>2, <5>2 DEF Covered
        <5>3. CASE Held(f, i)
          BY <3>1, <5>3 DEF Covered, Held
        <5> QED BY <3>4, <5>1, <5>2, <5>3 DEF Covered
      <4> QED BY <3>1, <3>4, <4>5, <4>6
    <3>5. f \in Files \ doubt /\ ~bad
      BY <1>a, <3>1, <3>2
    <3> QED BY <3>1, <3>3, <3>4, <3>5 DEF CoverInv
  <2>3. CASE Flush
    <3>1. /\ pc = "upload" /\ snap' = snap /\ staged' = Stored(Files) /\ doubt' = doubt
          /\ todo' = todo /\ buf' = Rest /\ buf # <<>> /\ mirror' = Mirrored(staged', Files)
          /\ ~bad
      BY <1>a, <2>3 DEF Flush, Sendable
    <3>2. /\ \A n \in 1..Len(buf) :
               (\E k \in 1..Len(Batch) : Batch[k] = buf[n]) \/ (\E k \in 1..Len(Rest) : Rest[k] = buf[n])
          /\ ToSet(Batch) = {Batch[k] : k \in 1..Len(Batch)}
          /\ ToSet(Batch) \subseteq ScannedChunk(snap)
      BY <3>1, IngestAssumption, BatchSplits DEF BufInv
    <3>3. /\ \A i : Held(f, i) => Held(f, i)'
          /\ \A c \in ToSet(Batch) : Held(c.file, c.idx)'
      BY <3>1, StoredHolds
    <3>4. staged' \in SUBSET StagedPiece
      BY <3>1, StoredPieces
    <3>5. CASE mirror[f] = snap[f]
      BY <3>1, <3>5, BatchTyping
    <3>6. CASE Good(f)
      <4>1. ASSUME NEW i \in 1..Len(snap[f]) PROVE Covered(f, i)'
        <5>1. CASE <<f, i>> \in todo
          BY <3>1, <5>1 DEF Covered
        <5>2. CASE \E n \in 1..Len(buf) : buf[n].file = f /\ buf[n].idx = i
          <6>1. PICK n \in 1..Len(buf) : buf[n].file = f /\ buf[n].idx = i
            BY <5>2
          <6>2. CASE \E k \in 1..Len(Batch) : Batch[k] = buf[n]
            <7>1. buf[n] \in ToSet(Batch)
              BY <3>2, <6>2
            <7>2. Held(f, i)'
              <8>1. PICK c \in ToSet(Batch) : c.file = f /\ c.idx = i
                BY <6>1, <7>1
              <8> QED BY <3>3, <8>1
            <7> QED BY <7>2 DEF Covered
          <6>3. CASE \E k \in 1..Len(Rest) : Rest[k] = buf[n]
            BY <3>1, <6>1, <6>3 DEF Covered
          <6> QED BY <3>2, <6>2, <6>3
        <5>3. CASE Held(f, i)
          BY <3>3, <5>3 DEF Covered
        <5> QED BY <3>6, <5>1, <5>2, <5>3 DEF Covered
      <4>2. CASE Waiting(f)'
        BY <3>1, <3>6, <4>1, <4>2
      <4>3. CASE ~Waiting(f)'
        <5>1. \A t \in todo : t[1] # f
          BY <3>1, <4>3 DEF Waiting
        <5>2. \A k \in 1..Len(Rest) : Rest[k].file # f
          BY <3>1, <4>3 DEF Waiting
        <5>3. PICK n \in 1..Len(buf) : buf[n].file = f
          BY <3>6, <5>1 DEF Waiting
        <5>4. buf[n] \in ToSet(Batch)
          BY <3>2, <5>2, <5>3
        <5>5. PICK c \in ToSet(Batch) : c.file = f
          BY <5>3, <5>4
        <5>6. \A i \in 1..Len(snap[f]) : Held(f, i)'
          <6>1. \A i : <<f, i>> \notin todo
            BY <5>1
          <6> QED BY <3>1, <4>1, <5>2, <6>1 DEF Covered
        <5>7. ASSUME NEW d \in ToSet(Batch), d.file = f PROVE Assembled(staged', d) = d.hash /\ d.hash = snap[f]
          <6>1. d \in ScannedChunk(snap) /\ d.hash = snap[f]
            BY <3>2, <5>7 DEF ScannedChunk
          <6>2. \A i \in 1..Len(snap[d.file]) : \E p \in staged' : p.ver = snap /\ p.file = d.file /\ p.idx = i
            BY <3>1, <5>6, <5>7 DEF Held
          <6> QED BY <3>4, <6>1, <6>2, AssembledIs
        <5> DEFINE C == {d \in ToSet(Batch) : d.file = f /\ f \in Files /\ Assembled(staged', d) = d.hash}
        <5>8. mirror'[f] = IF C = {} THEN mirror[f] ELSE (CHOOSE d \in C : TRUE).hash
          BY <3>1 DEF Mirrored
        <5>9. c \in C /\ \A d \in C : d.hash = snap[f]
          BY <5>5, <5>7
        <5> HIDE DEF C
        <5>10. mirror'[f] = snap[f]
          BY <5>8, <5>9
        <5> QED BY <3>1, <5>10
      <4> QED BY <4>2, <4>3
    <3>7. f \in Files \ doubt
      BY <1>a, <3>1
    <3> QED BY <3>1, <3>5, <3>6, <3>7 DEF CoverInv
  <2> QED BY <1>a, <2>1, <2>2, <2>3
<1>b. CASE Manifest \/ (\E g \in Files : OpenFile(g)) \/ Flush
  BY <1>a, <1>b DEF CoverInv
<1>c. CASE pc' # "upload" \/ bad' = TRUE
  BY <1>c DEF CoverInv
<1>d. CASE \E f \in Files : Edit(f) \/ CollectRow(f)
  <2>1. UNCHANGED <<pc, bad, doubt, mirror, snap, todo, buf, staged>>
    BY <1>d DEF Edit, CollectRow
  <2> QED BY <2>1 DEF CoverInv, Waiting, Covered, Held
<1>1. CASE Start \/ Scan \/ UploadDone \/ Poll \/ Push \/ PushFails \/ Crash
  BY <1>1, <1>c DEF Start, Scan, UploadDone, Poll, Push, PushFails, Crash
<1>2. CASE Commit \/ CommitFallsBack \/ CommitUnsuccessful
  BY <1>2, <1>c DEF Commit, CommitFallsBack, CommitUnsuccessful, PassDone
<1>3. CASE UploadFails \/ RequestFails \/ CommitFails
  BY <1>3, <1>c DEF UploadFails, RequestFails, CommitFails, PassFails
<1>4. CASE Collect \/ CollectFails
  BY <1>4, <1>c DEF Collect, CollectFails, Collected
<1>5. CASE FlushFails
  BY <1>5, <1>c DEF FlushFails
<1> QED BY <1>b, <1>d, <1>1, <1>2, <1>3, <1>4, <1>5 DEF IngestNext, GatewayStep, IngestFault

---------------------------------------------------------------------------
\* An upload that ends without errors has brought the mirror to the scan.
LEMMA MirrorStep ==
  ASSUME IngestInv, IngestNext
  PROVE  MirrorInv'
<1> USE DEF IngestInv
<1> USE DEF gwVars, passVars, opVars, countVars
<1>1. CASE UploadDone
  <2>1. \A f \in Files : ~Waiting(f)
    BY <1>1 DEF UploadDone, Waiting
  <2> QED BY <1>1, <2>1 DEF UploadDone, CoverInv, MirrorInv
<1>2. CASE pc' # "commit"
  BY <1>2 DEF MirrorInv
<1>3. CASE \E f \in Files : Edit(f) \/ CollectRow(f)
  <2>1. UNCHANGED <<pc, doubt, mirror, snap>>
    BY <1>3 DEF Edit, CollectRow
  <2> QED BY <2>1 DEF MirrorInv
<1>4. CASE Start \/ Scan \/ Manifest \/ (\E f \in Files : OpenFile(f)) \/ Poll
  BY <1>2, <1>4 DEF Start, Scan, Manifest, OpenFile, Poll
<1>5. CASE Flush \/ FlushFails \/ Push \/ PushFails \/ Crash
  BY <1>2, <1>5 DEF Flush, FlushFails, Sendable, Push, PushFails, Crash
<1>6. CASE Commit \/ CommitFallsBack \/ CommitUnsuccessful
  BY <1>6, <1>2 DEF Commit, CommitFallsBack, CommitUnsuccessful, PassDone
<1>7. CASE UploadFails \/ RequestFails \/ CommitFails
  BY <1>7, <1>2 DEF UploadFails, RequestFails, CommitFails, PassFails
<1>8. CASE Collect \/ CollectFails
  BY <1>8, <1>2 DEF Collect, CollectFails, Collected
<1> QED BY <1>1, <1>3, <1>4, <1>5, <1>6, <1>7, <1>8 DEF IngestNext, GatewayStep, IngestFault

\* run_operation indexes what it serves and leaves the rest: the whole mirror when
\* it scans, else the files of the operation resumed or of the queue.
LEMMA ServedIndex ==
  ASSUME TypeInv, NEW m \in Snapshots, NEW q \in SUBSET Change, OpSucceeds(m, q), NEW f \in Files
  PROVE  /\ pend = {} /\ q = {} => index'[f] = m[f]
         /\ pend # {} /\ f \notin FilesOf(pend) => index'[f] = index[f]
         /\ pend = {} /\ q # {} /\ f \notin FilesOf(q) => index'[f] = index[f]
         /\ pend = {} /\ f \in FilesOf(q) /\
              (\A w \in q : w.file = f => w = [file |-> f, del |-> m[f] = None]) => index'[f] = m[f]
<1> DEFINE W == Served(m, q)
           d == [file |-> f, del |-> TRUE]
<1>0. d.file = f /\ d.del = TRUE
  OBVIOUS
<1>1. index'[f] = IF d \in W THEN None ELSE IF f \in FilesOf(W) THEN m[f] ELSE index[f]
  BY DEF OpSucceeds, Indexed
<1> HIDE DEF d
<1>2. f \notin FilesOf(W) => index'[f] = index[f]
  <2>1. d \in W => f \in FilesOf(W)
    BY <1>0 DEF FilesOf
  <2> QED BY <1>1, <2>1
<1>3. ASSUME f \in FilesOf(W), \A w \in W : w.file = f => w = [file |-> f, del |-> m[f] = None]
      PROVE  index'[f] = m[f]
  <2>1. CASE d \in W
    <3>1. d = [file |-> f, del |-> m[f] = None]
      BY <1>0, <1>3, <2>1
    <3>2. m[f] = None
      <4>1. [file |-> f, del |-> m[f] = None].del = (m[f] = None)
        OBVIOUS
      <4> QED BY <1>0, <3>1, <4>1, Zenon
    <3> QED BY <1>1, <2>1, <3>2
  <2>2. CASE d \notin W
    BY <1>1, <1>3, <2>2
  <2> QED BY <2>1, <2>2
<1>4. pend # {} => W = pend
  BY DEF Served
<1>5. pend = {} /\ q # {} => W = q
  BY DEF Served
<1>6. ASSUME pend = {}, q = {} PROVE index'[f] = m[f]
  <2>1. W = {[file |-> g, del |-> m[g] = None] : g \in {g \in Files : m[g] # index[g]}}
    BY <1>6 DEF Served
  <2> HIDE DEF W
  <2>2. ASSUME NEW w \in W, w.file = f PROVE w = [file |-> f, del |-> m[f] = None]
    <3>1. PICK g \in Files : w = [file |-> g, del |-> m[g] = None]
      BY <2>1
    <3>2. g = f
      BY <2>2, <3>1
    <3> QED BY <3>1, <3>2
  <2>3. CASE m[f] # index[f]
    <3>1. f \in FilesOf(W)
      <4> DEFINE w == [file |-> f, del |-> m[f] = None]
      <4>1. w \in W /\ w.file = f
        BY <2>1, <2>3
      <4> QED BY <4>1 DEF FilesOf
    <3> QED BY <1>3, <2>2, <3>1
  <2>4. CASE m[f] = index[f]
    <3>1. f \in FilesOf(W) => index'[f] = m[f]
      BY <1>3, <2>2
    <3> QED BY <1>2, <2>4, <3>1
  <2> QED BY <2>3, <2>4
<1>7. f \in FilesOf(q) => q # {}
  BY DEF FilesOf
<1> HIDE DEF W
<1> QED BY <1>2, <1>3, <1>4, <1>5, <1>6, <1>7

\* Every step keeps the baseline known but for files in doubt.
LEMMA HeldStep ==
  ASSUME IngestInv, IngestNext
  PROVE  HeldInv'
<1> USE DEF IngestInv
<1> USE DEF gwVars, passVars, opVars, countVars
<1>a. ASSUME UNCHANGED <<mirror, index, base, doubt>>,
             pc \in {"watch", "collect", "push"} \/ pc' \notin {"watch", "collect", "push"}
      PROVE  HeldInv'
  BY <1>a DEF HeldInv
<1>b. ASSUME pc' \notin {"watch", "collect", "push"} PROVE HeldInv'
  BY <1>b DEF HeldInv
<1>c. ASSUME NEW D, doubt' = Settle(D, mirror', index', base'),
             \A f \in Files \ D : mirror'[f] = base'[f] /\ index'[f] = base'[f]
      PROVE  HeldInv'
  BY <1>c DEF HeldInv, Settle
<1>1. ASSUME PassFails, mirror' = mirror PROVE HeldInv'
  <2>1. doubt' = Settle(Files, mirror', index', base')
    BY <1>1 DEF PassFails
  <2>2. \A f \in Files \ Files : mirror'[f] = base'[f] /\ index'[f] = base'[f]
    OBVIOUS
  <2> QED BY <1>c, <2>1, <2>2
<1>2. ASSUME NEW D, PassDone(D), pc = "commit", \A f \in Files \ D : index'[f] = mirror[f]
      PROVE  HeldInv'
  <2>1. doubt' = Settle(doubt \cup D, mirror', index', base') /\ base' = snap /\ mirror' = mirror
    BY <1>2 DEF PassDone
  <2>2. \A f \in Files \ doubt : mirror[f] = snap[f]
    BY <1>2 DEF MirrorInv
  <2>3. \A f \in Files \ (doubt \cup D) : mirror'[f] = base'[f] /\ index'[f] = base'[f]
    BY <1>2, <2>1, <2>2
  <2> QED BY <1>c, <2>1, <2>3
<1>3. CASE Commit
  <2> DEFINE D == IF ~Unindexed /\ (pend # {} \/ queue # {}) THEN Files ELSE {}
  <2>1. pc = "commit" /\ PassDone(D) /\ CommitRuns
    BY <1>3 DEF Commit
  <2>2. ASSUME NEW f \in Files, f \notin D PROVE index'[f] = mirror[f]
    <3>1. CASE Unindexed
      BY <2>1, <3>1 DEF CommitRuns, FullSucceeds
    <3>2. CASE ~Unindexed
      <4>1. pend = {} /\ queue = {}
        BY <2>2, <3>2
      <4>2. OpSucceeds(mirror, queue) /\ mirror \in Snapshots /\ queue \in SUBSET Change
        BY <2>1, <3>2 DEF CommitRuns, TypeInv
      <4> QED BY <4>1, <4>2, ServedIndex
    <3> QED BY <3>1, <3>2
  <2> HIDE DEF D
  <2> QED BY <1>2, <2>1, <2>2
<1>4. CASE CommitFallsBack
  <2>1. pc = "commit" /\ PassDone({}) /\ index' = mirror
    BY <1>4 DEF CommitFallsBack, FullSucceeds
  <2> QED BY <1>2, <2>1
<1>5. CASE CommitUnsuccessful
  <2>1. pc = "commit" /\ PassDone(Files)
    BY <1>5 DEF CommitUnsuccessful
  <2>2. \A f \in Files \ Files : index'[f] = mirror[f]
    OBVIOUS
  <2> QED BY <1>2, <2>1, <2>2
<1>6. CASE UploadFails \/ RequestFails \/ CommitFails
  BY <1>1, <1>6 DEF UploadFails, RequestFails, CommitFails
<1>7. ASSUME NEW E, Collected(E), pc = "collect" PROVE HeldInv'
  <2>1. CASE E # {}
    <3>1. UNCHANGED <<mirror, index, base, doubt>>
      BY <1>7, <2>1 DEF Collected
    <3> QED BY <1>7, <1>a, <3>1
  <2>2. CASE E = {}
    <3>1. /\ doubt' = Settle(doubt \cup Changed, mirror', index', base')
          /\ mirror' = mirror /\ index' = index /\ base' = snap
      BY <1>7, <2>2 DEF Collected
    <3>2. \A f \in Files \ doubt : mirror[f] = base[f] /\ index[f] = base[f]
      BY <1>7 DEF HeldInv
    <3>3. \A f \in Files \ Changed : base[f] = snap[f]
      BY DEF Changed
    <3>4. \A f \in Files \ (doubt \cup Changed) : mirror'[f] = base'[f] /\ index'[f] = base'[f]
      BY <3>1, <3>2, <3>3
    <3> QED BY <1>c, <3>1, <3>4
  <2> QED BY <2>1, <2>2
<1>8. CASE Collect \/ CollectFails
  BY <1>7, <1>8 DEF Collect, CollectFails
<1>9. CASE Push
  <2> DEFINE D == doubt \cup (Changed \ evs) \cup
                     (IF pend # {} THEN evs \cup FilesOf(pend) ELSE FilesOf(queue) \ evs)
             q == QueueAfter(evs)
  <2>1. /\ doubt' = Settle(D, mirror', index', base') /\ base' = snap
        /\ mirror' = MirrorAfter(evs) /\ OpSucceeds(mirror', q) /\ pc = "push"
    BY <1>9 DEF Push
  <2>2. mirror' \in Snapshots /\ q \in SUBSET Change /\ evs \subseteq Files
    <3>1. TypeInv /\ snap \in Snapshots /\ mirror \in Snapshots /\ queue \subseteq Change /\ evs \subseteq Files
      BY DEF TypeInv
    <3>2. mirror' \in Snapshots
      BY <2>1, <3>1 DEF MirrorAfter, Snapshots
    <3>3. {[file |-> f, del |-> snap[f] = None] : f \in evs} \subseteq Change
      BY <3>1, ChangeType
    <3>4. q \in SUBSET Change
      BY <3>1, <3>3 DEF QueueAfter
    <3> QED BY <3>1, <3>2, <3>4
  <2>3. ASSUME NEW f \in Files, f \notin D PROVE mirror'[f] = base'[f] /\ index'[f] = base'[f]
    <3>1. f \notin doubt /\ mirror[f] = base[f] /\ index[f] = base[f]
      BY <2>1, <2>3 DEF HeldInv
    <3>2. f \notin evs => base[f] = snap[f]
      BY <2>3 DEF Changed
    <3>3. mirror'[f] = IF f \in evs THEN snap[f] ELSE mirror[f]
      BY <2>1 DEF MirrorAfter
    <3>4. mirror'[f] = snap[f]
      BY <3>1, <3>2, <3>3
    <3>5. CASE pend # {}
      <4>1. f \notin evs /\ f \notin FilesOf(pend)
        BY <2>3, <3>5
      <4>2. index'[f] = index[f]
        BY <2>1, <2>2, <3>5, <4>1, ServedIndex
      <4> QED BY <2>1, <3>1, <3>2, <3>4, <4>1, <4>2
    <3>6. CASE pend = {} /\ f \in evs
      <4> DEFINE w == [file |-> f, del |-> snap[f] = None]
      <4>1. w \in q /\ w.file = f
        BY <3>6 DEF QueueAfter
      <4>2. f \in FilesOf(q)
        BY <4>1 DEF FilesOf
      <4>3. ASSUME NEW v \in q, v.file = f PROVE v = [file |-> f, del |-> mirror'[f] = None]
        <5>1. v \in {[file |-> g, del |-> snap[g] = None] : g \in evs}
          BY <3>6, <4>3 DEF QueueAfter
        <5>2. PICK g \in evs : v = [file |-> g, del |-> snap[g] = None]
          BY <5>1
        <5>3. g = f
          BY <4>3, <5>2
        <5> QED BY <3>4, <5>2, <5>3
      <4> HIDE DEF q
      <4>4. index'[f] = mirror'[f]
        BY <2>1, <2>2, <3>6, <4>2, <4>3, ServedIndex
      <4> QED BY <2>1, <3>4, <4>4
    <3>7. CASE pend = {} /\ f \notin evs
      <4>1. f \notin FilesOf(queue)
        BY <2>3, <3>7
      <4>2. f \notin FilesOf(q)
        BY <3>7, <4>1 DEF FilesOf, QueueAfter
      <4> HIDE DEF q
      <4>3. index'[f] = mirror'[f] \/ index'[f] = index[f]
        BY <2>1, <2>2, <3>7, <4>2, ServedIndex
      <4> QED BY <2>1, <3>1, <3>2, <3>4, <3>7, <4>3
    <3> QED BY <3>5, <3>6, <3>7
  <2> HIDE DEF D
  <2> QED BY <1>c, <2>1, <2>3
<1>10. CASE PushFails
  <2>1. doubt' = Settle(Files, mirror', index', base')
    BY <1>10 DEF PushFails
  <2>2. \A f \in Files \ Files : mirror'[f] = base'[f] /\ index'[f] = base'[f]
    OBVIOUS
  <2> QED BY <1>c, <2>1, <2>2
<1>11. CASE Start \/ Scan \/ Manifest \/ (\E f \in Files : OpenFile(f)) \/ UploadDone \/ Crash
  BY <1>b, <1>11 DEF Start, Scan, Manifest, OpenFile, UploadDone, Crash
<1>12. CASE Flush \/ FlushFails
  BY <1>b, <1>12 DEF Flush, FlushFails, Sendable
<1>13. CASE Poll \/ (\E f \in Files : Edit(f) \/ CollectRow(f))
  BY <1>a, <1>13 DEF Poll, Edit, CollectRow
<1> QED
  BY <1>3, <1>4, <1>5, <1>6, <1>8, <1>9, <1>10, <1>11, <1>12, <1>13
  DEF IngestNext, GatewayStep, IngestFault

---------------------------------------------------------------------------
\* The invariant holds at first.
LEMMA IngestInitially == IngestInit => IngestInv
<1> SUFFICES ASSUME IngestInit PROVE IngestInv
  OBVIOUS
<1>1. Nothing \in Snapshots /\ FirstDisk \in Snapshots
  BY IngestAssumption DEF Nothing, Snapshots
<1>2. TypeInv
  <2>1. 0 \in 0..MaxEdits /\ 0 \in 0..MaxFaults /\ 0 \in 0..MaxCrashes
    BY IngestAssumption
  <2> QED BY <1>1, <2>1 DEF IngestInit, TypeInv
<1>3. BufInv
  BY DEF IngestInit, BufInv
<1>4. TodoInv /\ StagedInv /\ IdleInv /\ CoverInv /\ MirrorInv /\ HeldInv
  BY DEF IngestInit, TodoInv, StagedInv, IdleInv, CoverInv, MirrorInv, HeldInv
<1> QED BY <1>2, <1>3, <1>4 DEF IngestInv

\* A step that changes nothing keeps the invariant.
LEMMA IngestStutter == ASSUME IngestInv, UNCHANGED ingestVars PROVE IngestInv'
<1> USE DEF ingestVars, gwVars, opVars, countVars, passVars
<1>1. TypeInv' /\ StagedInv' /\ TodoInv' /\ BufInv' /\ IdleInv'
  BY DEF IngestInv, TypeInv, StagedInv, TodoInv, BufInv, IdleInv
<1>2. CoverInv' /\ MirrorInv' /\ HeldInv'
  BY DEF IngestInv, CoverInv, MirrorInv, HeldInv, Waiting, Covered, Held
<1> QED BY <1>1, <1>2 DEF IngestInv

\* The inductive invariant holds in every reachable state.
THEOREM IngestInvariance == IngestSpec => []IngestInv
<1>1. IngestInv /\ [IngestNext]_ingestVars => IngestInv'
  <2> SUFFICES ASSUME IngestInv, [IngestNext]_ingestVars PROVE IngestInv'
    OBVIOUS
  <2>1. CASE IngestNext
    BY <2>1, TypeStep, StagedStep, PassStep, CoverStep, MirrorStep, HeldStep DEF IngestInv
  <2>2. CASE UNCHANGED ingestVars
    BY <2>2, IngestStutter
  <2> QED BY <2>1, <2>2
<1> QED BY <1>1, IngestInitially, PTL DEF IngestSpec

\* Types: every variable of gateway and server keeps its type, and chunks asked for,
\* in flight and staged are chunks of known files.
THEOREM IngestTyping == IngestSpec => []IngestTypeOK
<1>1. IngestInv => IngestTypeOK
  <2> SUFFICES ASSUME IngestInv PROVE IngestTypeOK
    OBVIOUS
  <2>a. TypeInv /\ TodoInv /\ BufInv /\ StagedInv
    BY DEF IngestInv
  <2>1. ASSUME NEW s \in Snapshots, NEW f \in Files, s[f] # None, NEW i \in 1..Len(s[f])
        PROVE  i \in Indices
    <3>1. s[f] \in Contents
      BY <2>1 DEF Snapshots
    <3> QED BY <3>1, ContentsFacts
  <2>2. snap \in Snapshots
    BY <2>a DEF TypeInv
  <2>3. todo \subseteq Files \X Indices
    BY <2>a, <2>1, <2>2 DEF TodoInv
  <2>4. \A i \in DOMAIN buf : buf[i].file \in Files
    <3> DEFINE S == ScannedChunk(snap)
    <3>1. \A c \in S : c.file \in Files
      BY DEF ScannedChunk
    <3>2. buf \in Seq(S)
      BY <2>a DEF BufInv
    <3> HIDE DEF S
    <3> QED BY <3>1, <3>2
  <2>5. ASSUME NEW p \in staged PROVE p.file \in Files /\ p.idx \in Indices
    <3>1. /\ p.ver \in Snapshots /\ p.file \in Files
          /\ p.ver[p.file] # None /\ p.idx \in 1..Len(p.ver[p.file])
      BY <2>a DEF StagedInv, StagedPiece
    <3> QED BY <2>1, <3>1
  <2> QED BY <2>a, <2>3, <2>4, <2>5 DEF TypeInv, IngestTypeOK
<1> QED BY <1>1, IngestInvariance, PTL

\* upload_paths, stage_file: the chunks a resumed pass finds received are those of
\* the files its manifest describes, whatever was edited between scan, manifest and
\* upload and whichever passes were cut off.
THEOREM PiecesAlwaysAgree == IngestSpec => []PiecesAgree
<1>1. IngestInv => PiecesAgree
  <2> SUFFICES ASSUME IngestInv, NEW p \in staged, p.ver = ManifestVersion(snap)
               PROVE  snap[p.file] # None /\ p.idx <= Len(snap[p.file]) /\ p.piece = snap[p.file][p.idx]
    BY DEF PiecesAgree
  <2>1. /\ snap[p.file] # None /\ p.idx \in 1..Len(snap[p.file])
        /\ p.piece = snap[p.file][p.idx] /\ p.file \in Files
    BY DEF IngestInv, StagedInv, StagedPiece, ManifestVersion
  <2>2. snap[p.file] \in Contents
    BY <2>1 DEF IngestInv, TypeInv, Snapshots
  <2>3. Len(snap[p.file]) \in Nat
    BY <2>2, ContentsFacts
  <2> QED BY <2>1, <2>3
<1> QED BY <1>1, IngestInvariance, PTL

\* watch_loop: while the gateway waits, the mirror and the index hold what the
\* baseline says, of every file but those in doubt by a named cause.
THEOREM BaselineAlwaysKnown == IngestSpec => []BaselineKnown
<1>1. IngestInv => BaselineKnown
  BY DEF IngestInv, HeldInv, BaselineKnown
<1> QED BY <1>1, IngestInvariance, PTL
=============================================================================

----------------------------- MODULE Publication -----------------------------
(* What the generation store promises to its readers: whatever is built,       *)
(* adopted, compacted, retried, collected or abandoned underneath, a reader     *)
(* sees one snapshot, the same in every store, and the snapshot changes only    *)
(* when an operation is published, by exactly the changes of that operation.    *)
CONSTANTS Ops,     \* operations that may publish
          Files,
          Stores,  \* the places a reader looks up a file
          NoWork   \* the operation has not announced its changes

VARIABLES shown,   \* shown[s][f]: the operations whose version of f is visible in s
          work,    \* work[o]: what o replaces (put) and removes (del), or NoWork
          spoilt   \* nothing is promised any more

pubVars == <<shown, work, spoilt>>

PubInit ==
  /\ shown = [s \in Stores |-> [f \in Files |-> {}]]
  /\ work = [o \in Ops |-> NoWork]
  /\ spoilt = FALSE

(* An operation fixes the files it will replace and remove.                     *)
Announce(o) ==
  /\ work[o] = NoWork
  /\ UNCHANGED <<shown, spoilt>>
  /\ \E w \in [put : SUBSET Files, del : SUBSET Files] :
       /\ w.put \cap w.del = {}
       /\ work' = [work EXCEPT ![o] = w]

(* All of its changes become visible, in every store at once.                   *)
Publish(o) ==
  /\ work[o] # NoWork
  /\ UNCHANGED <<work, spoilt>>
  /\ shown' = [s \in Stores |-> [f \in Files |->
                 IF f \in work[o].put THEN {o}
                 ELSE IF f \in work[o].del THEN {} ELSE shown[s][f]]]

(* From here on readers may see anything.                                       *)
Spoil == spoilt' = TRUE

PubNext == Spoil \/ \E o \in Ops : Announce(o) \/ Publish(o)

PubSpec == PubInit /\ [][PubNext]_pubVars
=============================================================================

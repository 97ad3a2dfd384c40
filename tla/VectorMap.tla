------------------------------ MODULE VectorMap ------------------------------
(***************************************************************************)
(* What a Collection promises: a map from external ids to vectors, with    *)
(* answers and saved files that agree with the map at one moment of the    *)
(* call that produced them.  Compaction, locks, rows, tombstones and the   *)
(* graph are not visible here.                                             *)
(***************************************************************************)
CONSTANTS Threads, Ids, Vals, Missing

VARIABLES
    contents,   \* the vector stored under each id, or Missing
    got,        \* the <<id, vector>> a thread has just been answered
    saved       \* the contents of the last complete file, or Missing

vars == <<contents, got, saved>>

Init ==
    /\ contents = [id \in Ids |-> Missing]
    /\ got = [t \in Threads |-> Missing]
    /\ saved = Missing

\* An insert or an upsert of one row, or the undoing of an upsert.
Put(id, v) ==
    /\ contents' = [contents EXCEPT ![id] = v]
    /\ UNCHANGED <<got, saved>>

\* A removal, or the undoing of an insert.
Drop(id) ==
    /\ contents[id] # Missing
    /\ contents' = [contents EXCEPT ![id] = Missing]
    /\ UNCHANGED <<got, saved>>

\* An answer to get(), or one neighbour returned by a search.
Answer(t, id) ==
    /\ got' = [got EXCEPT ![t] = <<id, contents[id]>>]
    /\ UNCHANGED <<contents, saved>>

Forget(t) ==
    /\ got' = [got EXCEPT ![t] = Missing]
    /\ UNCHANGED <<contents, saved>>

Save ==
    /\ saved' = contents
    /\ UNCHANGED <<contents, got>>

\* The process ends and another one loads the file.
Load ==
    /\ saved # Missing
    /\ contents' = saved
    /\ got' = [t \in Threads |-> Missing]
    /\ UNCHANGED saved

Next ==
    \/ \E id \in Ids : Drop(id) \/ (\E v \in Vals : Put(id, v))
    \/ \E t \in Threads : Forget(t) \/ (\E id \in Ids : Answer(t, id))
    \/ Save
    \/ Load

Spec == Init /\ [][Next]_vars
=============================================================================

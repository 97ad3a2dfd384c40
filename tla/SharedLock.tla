----------------------------- MODULE SharedLock -----------------------------
(***************************************************************************)
(* What a reader/writer lock promises its users: any number of readers, or *)
(* one writer and nobody else.  It says nothing about the order in which   *)
(* waiting threads get the lock.  FairSharedMutex implements it, and       *)
(* Collection relies on no more than this of its lock `rw`.                *)
(***************************************************************************)
CONSTANT Threads

VARIABLES
    shared,     \* the threads that hold the lock shared
    exclusive   \* the threads that hold the lock exclusively (at most one)

vars == <<shared, exclusive>>

Init ==
    /\ shared = {}
    /\ exclusive = {}

AcquireShared(t) ==
    /\ exclusive = {}
    /\ t \notin shared
    /\ shared' = shared \cup {t}
    /\ UNCHANGED exclusive

ReleaseShared(t) ==
    /\ t \in shared
    /\ shared' = shared \ {t}
    /\ UNCHANGED exclusive

AcquireExclusive(t) ==
    /\ exclusive = {}
    /\ shared = {}
    /\ exclusive' = {t}
    /\ UNCHANGED shared

ReleaseExclusive(t) ==
    /\ t \in exclusive
    /\ exclusive' = {}
    /\ UNCHANGED shared

Next ==
    \E t \in Threads :
        \/ AcquireShared(t) \/ ReleaseShared(t)
        \/ AcquireExclusive(t) \/ ReleaseExclusive(t)

Spec == Init /\ [][Next]_vars
=============================================================================

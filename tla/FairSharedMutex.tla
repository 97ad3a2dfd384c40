--------------------------- MODULE FairSharedMutex ---------------------------
(***************************************************************************)
(* src/concurrency/fair_shared_mutex.hpp: a reader/writer lock made of one *)
(* std::mutex and two condition variables.                                 *)
(*                                                                         *)
(* Everything between taking and releasing `mutex_` is one step: entering  *)
(* lock_shared() or lock() up to the first evaluation of the wait          *)
(* predicate, each later evaluation of it, and each unlock.  Between them  *)
(* a thread is blocked in a condition variable.  `notified` holds the      *)
(* blocked threads that have been woken and have not yet re-taken mutex_;  *)
(* another thread may take mutex_ first.  A condition variable may also    *)
(* wake a thread that nobody notified (SpuriousWakeup).                    *)
(***************************************************************************)
EXTENDS Naturals, FiniteSets

CONSTANT Threads

ASSUME ThreadsAssumption == IsFiniteSet(Threads)

VARIABLES
    pc,                \* where each thread is
    notified,          \* threads woken in wait() that have not run yet
    active_readers_,
    waiting_readers_,
    waiting_writers_,
    reader_quota_,
    writer_active_,
    owed,              \* history: the readers that were waiting at the last
                       \* unlock() and have not been admitted since
    granted,           \* history: how many readers were waiting at that unlock()
    late,              \* history: other readers let in since on its quota
    passed             \* history: readers let in since while a writer waited

turn == <<granted, late, passed>>

vars == <<pc, notified, active_readers_, waiting_readers_, waiting_writers_,
          reader_quota_, writer_active_, owed, turn>>

counters == <<active_readers_, waiting_readers_, waiting_writers_>>

At(where) == {t \in Threads : pc[t] = where}

WaitingReaders == At("lock_shared")
WaitingWriters == At("lock")
Readers        == At("reading")
Writers        == At("writing")

Init ==
    /\ pc = [t \in Threads |-> "idle"]
    /\ notified = {}
    /\ active_readers_ = 0
    /\ waiting_readers_ = 0
    /\ waiting_writers_ = 0
    /\ reader_quota_ = 0
    /\ writer_active_ = FALSE
    /\ owed = {}
    /\ granted = 0 /\ late = 0 /\ passed = 0
-----------------------------------------------------------------------------
\* Mutant of MayRead: the predicate forgets the waiting writers.
MutMayReadIgnoresWriters(writersWaiting) == ~writer_active_

\* Mutant of MayWrite: the predicate forgets the active readers.
MutMayWriteIgnoresReaders == ~writer_active_ /\ reader_quota_ = 0

\* The two wait predicates.  A thread evaluates its predicate after counting
\* itself among the waiting ones.
MayRead(writersWaiting) ==
    ~writer_active_ /\ (writersWaiting = 0 \/ reader_quota_ > 0)

MayWrite == ~writer_active_ /\ active_readers_ = 0 /\ reader_quota_ = 0

\* The effect of std::condition_variable::notify_one on a set of waiters: one
\* that is not yet woken, if any, is woken.
NotifyOne(waiters) ==
    IF waiters \subseteq notified
    THEN UNCHANGED notified
    ELSE \E t \in waiters \ notified : notified' = notified \cup {t}

\* What the history says of a reader that is let in.
Admitted(t) ==
    /\ owed' = owed \ {t}
    /\ late' = IF reader_quota_ > 0 /\ t \notin owed THEN late + 1 ELSE late
    /\ passed' = IF waiting_writers_ > 0 THEN passed + 1 ELSE passed
    /\ UNCHANGED granted

\* Mutant of AdmitReader: the quota is not used up.
MutAdmitReaderKeepsQuota(t, waiting) ==
    /\ pc' = [pc EXCEPT ![t] = "reading"]
    /\ waiting_readers_' = waiting - 1
    /\ active_readers_' = active_readers_ + 1
    /\ notified' = notified \ {t}
    /\ Admitted(t)
    /\ UNCHANGED <<reader_quota_, waiting_writers_, writer_active_>>

\* lock_shared() after a successful wait; `waiting` is waiting_readers_ with
\* the thread itself counted.
AdmitReader(t, waiting) ==
    /\ pc' = [pc EXCEPT ![t] = "reading"]
    /\ waiting_readers_' = waiting - 1
    /\ reader_quota_' = IF reader_quota_ > 0 THEN reader_quota_ - 1 ELSE 0
    /\ active_readers_' = active_readers_ + 1
    /\ notified' = notified \ {t}
    /\ Admitted(t)
    /\ UNCHANGED <<waiting_writers_, writer_active_>>

\* lock_shared() called: count the thread, then take the lock or block.
LockShared(t) ==
    /\ pc[t] = "idle"
    /\ \/ /\ MayRead(waiting_writers_)
          /\ AdmitReader(t, waiting_readers_ + 1)
       \/ /\ ~MayRead(waiting_writers_)
          /\ pc' = [pc EXCEPT ![t] = "lock_shared"]
          /\ waiting_readers_' = waiting_readers_ + 1
          /\ UNCHANGED <<notified, active_readers_, waiting_writers_,
                         reader_quota_, writer_active_, owed, turn>>

\* A reader in wait() holds mutex_ again and re-evaluates its predicate.
ReaderRechecks(t) ==
    /\ pc[t] = "lock_shared"
    /\ \/ /\ MayRead(waiting_writers_)
          /\ AdmitReader(t, waiting_readers_)
       \/ /\ ~MayRead(waiting_writers_)
          /\ notified' = notified \ {t}
          /\ UNCHANGED <<pc, counters, reader_quota_, writer_active_, owed, turn>>

\* Mutant of UnlockShared: the count is tested before it is decremented.
MutUnlockSharedTestsTooEarly(t) ==
    /\ pc[t] = "reading"
    /\ pc' = [pc EXCEPT ![t] = "idle"]
    /\ active_readers_' = active_readers_ - 1
    /\ IF active_readers_ = 0 /\ waiting_writers_ > 0
       THEN NotifyOne(WaitingWriters)
       ELSE UNCHANGED notified
    /\ UNCHANGED <<waiting_readers_, waiting_writers_, reader_quota_,
                   writer_active_, owed, turn>>

\* unlock_shared(): the last reader wakes one writer.
UnlockShared(t) ==
    /\ pc[t] = "reading"
    /\ pc' = [pc EXCEPT ![t] = "idle"]
    /\ active_readers_' = active_readers_ - 1
    /\ IF active_readers_' = 0 /\ waiting_writers_ > 0
       THEN NotifyOne(WaitingWriters)
       ELSE UNCHANGED notified
    /\ UNCHANGED <<waiting_readers_, waiting_writers_, reader_quota_,
                   writer_active_, owed, turn>>

\* lock() after a successful wait; `waiting` counts the thread itself.
AdmitWriter(t, waiting) ==
    /\ pc' = [pc EXCEPT ![t] = "writing"]
    /\ waiting_writers_' = waiting - 1
    /\ writer_active_' = TRUE
    /\ notified' = notified \ {t}
    /\ UNCHANGED <<active_readers_, waiting_readers_, reader_quota_, owed, turn>>

Lock(t) ==
    /\ pc[t] = "idle"
    /\ \/ /\ MayWrite
          /\ AdmitWriter(t, waiting_writers_ + 1)
       \/ /\ ~MayWrite
          /\ pc' = [pc EXCEPT ![t] = "lock"]
          /\ waiting_writers_' = waiting_writers_ + 1
          /\ UNCHANGED <<notified, active_readers_, waiting_readers_,
                         reader_quota_, writer_active_, owed, turn>>

WriterRechecks(t) ==
    /\ pc[t] = "lock"
    /\ \/ /\ MayWrite
          /\ AdmitWriter(t, waiting_writers_)
       \/ /\ ~MayWrite
          /\ notified' = notified \ {t}
          /\ UNCHANGED <<pc, counters, reader_quota_, writer_active_, owed, turn>>

\* unlock() with the quota it hands out.
UnlockGranting(t, quota) ==
    /\ pc[t] = "writing"
    /\ pc' = [pc EXCEPT ![t] = "idle"]
    /\ writer_active_' = FALSE
    /\ reader_quota_' = quota
    /\ owed' = WaitingReaders
    /\ granted' = waiting_readers_ /\ late' = 0 /\ passed' = 0
    /\ IF waiting_readers_ > 0
       THEN notified' = notified \cup WaitingReaders
       ELSE IF waiting_writers_ > 0
            THEN NotifyOne(WaitingWriters)
            ELSE UNCHANGED notified
    /\ UNCHANGED counters

\* Mutant of Unlock: one admission too many.
MutUnlockGrantsOneMore(t) == UnlockGranting(t, waiting_readers_ + 1)

Unlock(t) == UnlockGranting(t, waiting_readers_)

\* A woken thread runs; a thread nobody woke runs all the same.
Wakeup(t) ==
    /\ t \in notified
    /\ ReaderRechecks(t) \/ WriterRechecks(t)

SpuriousWakeup(t) ==
    /\ t \notin notified
    /\ ReaderRechecks(t) \/ WriterRechecks(t)

Next ==
    \E t \in Threads :
        \/ LockShared(t) \/ UnlockShared(t)
        \/ Lock(t) \/ Unlock(t)
        \/ Wakeup(t) \/ SpuriousWakeup(t)

\* Woken threads get mutex_ eventually and holders leave their sections; no
\* thread is obliged to call lock() or lock_shared(), and no spurious wakeup
\* ever has to happen.
Fairness ==
    \A t \in Threads :
        /\ WF_vars(Wakeup(t))
        /\ WF_vars(UnlockShared(t))
        /\ WF_vars(Unlock(t))

Spec == Init /\ [][Next]_vars

FairSpec == Spec /\ Fairness
-----------------------------------------------------------------------------
Locations == {"idle", "lock_shared", "reading", "lock", "writing"}

\* The type of the state: every counter is a natural number, and only blocked
\* threads can have a wakeup pending.
TypeOK ==
    /\ pc \in [Threads -> Locations]
    /\ notified \subseteq WaitingReaders \cup WaitingWriters
    /\ active_readers_ \in Nat
    /\ waiting_readers_ \in Nat
    /\ waiting_writers_ \in Nat
    /\ reader_quota_ \in Nat
    /\ writer_active_ \in BOOLEAN
    /\ owed \subseteq WaitingReaders
    /\ granted \in Nat /\ late \in Nat /\ passed \in Nat

\* The counters count: each of them equals the number of threads it stands
\* for, so none of the unsigned decrements of lock_shared(), unlock_shared()
\* and lock() wraps around.
CountersAgree ==
    /\ active_readers_ = Cardinality(Readers)
    /\ waiting_readers_ = Cardinality(WaitingReaders)
    /\ waiting_writers_ = Cardinality(WaitingWriters)
    /\ writer_active_ <=> Writers # {}

\* The quota handed out by unlock() never exceeds the number of readers that
\* were waiting then and are still waiting: it can always be used up, so it
\* never blocks the writers for good.
QuotaIsOwed == reader_quota_ <= Cardinality(owed)

\* While there is quota, the readers it was given to are awake: the thread
\* whose admission the writers are waiting for cannot be asleep.
OwedReadersAreAwake == reader_quota_ > 0 => owed \subseteq notified

\* Readers and writers exclude each other, and so do writers.  No quota is left
\* when a writer gets in.
MutualExclusion ==
    /\ \A t, u \in Writers : t = u
    /\ Writers # {} => Readers = {} /\ reader_quota_ = 0

\* Who is awake when the lock is free: with no quota and writers waiting, one
\* of them; with no writer waiting, every waiting reader.
WaitersAreAwake ==
    /\ (MayWrite /\ waiting_writers_ > 0) => WaitingWriters \cap notified # {}
    /\ (~writer_active_ /\ waiting_writers_ = 0) => WaitingReaders \subseteq notified

\* The inductive invariant: what every step of the lock maintains, and what
\* mutual exclusion and the absence of lost wakeups follow from.
IndInv ==
    /\ TypeOK
    /\ CountersAgree
    /\ MutualExclusion
    /\ QuotaIsOwed
    /\ OwedReadersAreAwake
    /\ WaitersAreAwake

\* No lost wakeup: whenever threads are waiting and nobody holds the lock,
\* one of them has been woken and will find its predicate true.
NoLostWakeup ==
    (Readers \cup Writers = {} /\ WaitingReaders \cup WaitingWriters # {})
        => \/ \E t \in WaitingReaders \cap notified : MayRead(waiting_writers_)
           \/ \E t \in WaitingWriters \cap notified : MayWrite

\* What holds of the two promises of fair_shared_mutex.hpp:8-11, with quota left
\* that a new reader may take.  Since the last unlock(), waiting writers have been
\* passed by at most as many readers as were waiting then; and if a writer is in
\* before some of those, at least as many later readers have been let in for them.
BoundedBypass ==
    /\ passed <= granted
    /\ writer_active_ => Cardinality(owed) <= late

\* Neither side starves the other: while a writer waits some writer is admitted,
\* and writers that lock() again in a loop do not keep the readers out.
LockProgress ==
    /\ (waiting_writers_ > 0) ~> writer_active_
    /\ (waiting_readers_ > 0) ~> (active_readers_ > 0)

\* The lock implements SharedLock: mutual exclusion of readers and writers.
RWLock == INSTANCE SharedLock WITH shared <- Readers, exclusive <- Writers

ImplementsSharedLock == RWLock!Spec
=============================================================================

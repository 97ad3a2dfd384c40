------------------------ MODULE FairSharedMutexProofs ------------------------
(***************************************************************************)
(* Proofs about FairSharedMutex, for any finite set of threads.            *)
(***************************************************************************)
EXTENDS FairSharedMutex, FiniteSetTheorems, TLAPS

Where(f, w) == {t \in Threads : f[t] = w}

\* The threads at one place form a finite set.
LEMMA WhereFinite ==
    ASSUME NEW f, NEW w
    PROVE  IsFiniteSet(Where(f, w)) /\ Cardinality(Where(f, w)) \in Nat
<1>1. Where(f, w) \in SUBSET Threads
  BY DEF Where
<1>2. IsFiniteSet(Where(f, w))
  BY <1>1, FS_Subset, ThreadsAssumption
<1> QED
  BY <1>2, FS_CardinalityType

\* What a move of thread t from place a to place b does to the set S of the
\* threads at place w, and to its cardinality.
Moved(S, t, a, b, w) ==
    /\ t \in S <=> a = w
    /\ w = b => S' = S \cup {t} /\ Cardinality(S') = Cardinality(S) + 1
    /\ w = a => S' = S \ {t} /\ Cardinality(S') = Cardinality(S) - 1
    /\ w \notin {a, b} => S' = S

\* A step that moves one thread does that to each of the four sets that the
\* counters stand for.
LEMMA StepMoves ==
    ASSUME TypeOK, NEW t \in Threads, NEW b \in Locations, pc[t] # b,
           pc' = [pc EXCEPT ![t] = b]
    PROVE  /\ pc' \in [Threads -> Locations]
           /\ Moved(WaitingReaders, t, pc[t], b, "lock_shared")
           /\ Moved(WaitingWriters, t, pc[t], b, "lock")
           /\ Moved(Readers, t, pc[t], b, "reading")
           /\ Moved(Writers, t, pc[t], b, "writing")
<1>1. pc \in [Threads -> Locations] /\ pc' \in [Threads -> Locations]
  BY DEF TypeOK
<1>2. ASSUME NEW w
      PROVE  /\ t \in Where(pc, w) <=> pc[t] = w
             /\ w = b => /\ Where(pc', w) = Where(pc, w) \cup {t}
                         /\ Cardinality(Where(pc', w)) = Cardinality(Where(pc, w)) + 1
             /\ w = pc[t] => /\ Where(pc', w) = Where(pc, w) \ {t}
                             /\ Cardinality(Where(pc', w)) = Cardinality(Where(pc, w)) - 1
             /\ w \notin {b, pc[t]} => Where(pc', w) = Where(pc, w)
  <2>1. /\ t \in Where(pc, w) <=> pc[t] = w
        /\ w = b => Where(pc', w) = Where(pc, w) \cup {t}
        /\ w = pc[t] => Where(pc', w) = Where(pc, w) \ {t}
        /\ w \notin {b, pc[t]} => Where(pc', w) = Where(pc, w)
    BY <1>1 DEF Where
  <2>2. /\ IsFiniteSet(Where(pc, w))
        /\ t \notin Where(pc, w) =>
             Cardinality(Where(pc, w) \cup {t}) = Cardinality(Where(pc, w)) + 1
        /\ t \in Where(pc, w) =>
             Cardinality(Where(pc, w) \ {t}) = Cardinality(Where(pc, w)) - 1
    BY WhereFinite, FS_AddElement, FS_RemoveElement
  <2> QED
    BY <2>1, <2>2
<1>3. /\ WaitingReaders = Where(pc, "lock_shared")
      /\ WaitingWriters = Where(pc, "lock")
      /\ Readers = Where(pc, "reading")
      /\ Writers = Where(pc, "writing")
      /\ WaitingReaders' = Where(pc', "lock_shared")
      /\ WaitingWriters' = Where(pc', "lock")
      /\ Readers' = Where(pc', "reading")
      /\ Writers' = Where(pc', "writing")
  BY DEF WaitingReaders, WaitingWriters, Readers, Writers, At, Where
<1>4. Moved(WaitingReaders, t, pc[t], b, "lock_shared")
  BY <1>2, <1>3 DEF Moved
<1>5. Moved(WaitingWriters, t, pc[t], b, "lock")
  BY <1>2, <1>3 DEF Moved
<1>6. Moved(Readers, t, pc[t], b, "reading")
  BY <1>2, <1>3 DEF Moved
<1>7. Moved(Writers, t, pc[t], b, "writing")
  BY <1>2, <1>3 DEF Moved
<1> QED
  BY <1>1, <1>4, <1>5, <1>6, <1>7

\* The sets are finite, so their cardinalities are natural numbers.
LEMMA SetsFinite ==
    ASSUME TypeOK
    PROVE  /\ \A S \in {WaitingReaders, WaitingWriters, Readers, Writers, owed} :
                  IsFiniteSet(S) /\ Cardinality(S) \in Nat
           /\ \A t : /\ Cardinality(owed \ {t}) \in Nat
                    /\ Cardinality(owed \ {t}) >= Cardinality(owed) - 1
<1>1. \A S \in {WaitingReaders, WaitingWriters, Readers, Writers} : S \in SUBSET Threads
  BY DEF WaitingReaders, WaitingWriters, Readers, Writers, At
<1>2. owed \in SUBSET Threads
  BY <1>1 DEF TypeOK
<1>3. \A S \in {WaitingReaders, WaitingWriters, Readers, Writers, owed} : IsFiniteSet(S)
  BY <1>1, <1>2, FS_Subset, ThreadsAssumption
<1>4. \A S \in {WaitingReaders, WaitingWriters, Readers, Writers, owed} :
          Cardinality(S) \in Nat
  BY <1>3, FS_CardinalityType
<1>5. ASSUME NEW t
      PROVE  /\ Cardinality(owed \ {t}) \in Nat
             /\ Cardinality(owed \ {t}) >= Cardinality(owed) - 1
  <2>1. IsFiniteSet(owed) /\ Cardinality(owed) \in Nat
    BY <1>3, <1>4
  <2>2. /\ IsFiniteSet(owed \ {t})
        /\ Cardinality(owed \ {t}) =
              IF t \in owed THEN Cardinality(owed) - 1 ELSE Cardinality(owed)
    BY <2>1, FS_RemoveElement
  <2>3. Cardinality(owed \ {t}) \in Nat
    BY <2>2, FS_CardinalityType
  <2> QED
    BY <2>1, <2>2, <2>3
<1> QED
  BY <1>3, <1>4, <1>5
-----------------------------------------------------------------------------
\* A reader is admitted: from idle (counted on entry) or from wait().
LEMMA AdmitReaderInv ==
    ASSUME IndInv, NEW t \in Threads, NEW w,
           \/ pc[t] = "idle" /\ w = waiting_readers_ + 1
           \/ pc[t] = "lock_shared" /\ w = waiting_readers_,
           MayRead(waiting_writers_), AdmitReader(t, w)
    PROVE  IndInv'
<1> USE DEF IndInv
<1>1. /\ pc' \in [Threads -> Locations]
      /\ Moved(WaitingReaders, t, pc[t], "reading", "lock_shared")
      /\ Moved(WaitingWriters, t, pc[t], "reading", "lock")
      /\ Moved(Readers, t, pc[t], "reading", "reading")
      /\ Moved(Writers, t, pc[t], "reading", "writing")
  BY StepMoves DEF AdmitReader, Locations
<1>2. /\ Cardinality(owed) \in Nat
      /\ Cardinality(owed \ {t}) \in Nat
      /\ Cardinality(owed \ {t}) >= Cardinality(owed) - 1
      /\ Cardinality(Readers) \in Nat
      /\ Cardinality(WaitingReaders) \in Nat
      /\ WaitingReaders # {} => Cardinality(WaitingReaders) # 0
  BY SetsFinite, FS_EmptySet
<1>3. TypeOK'
  BY <1>1, <1>2 DEF TypeOK, AdmitReader, Admitted, CountersAgree, Moved
<1>4. CountersAgree'
  BY <1>1, <1>2 DEF TypeOK, AdmitReader, CountersAgree, Moved
<1>5. MutualExclusion'
  BY <1>1 DEF MutualExclusion, CountersAgree, MayRead, AdmitReader, TypeOK, Moved
<1>6. QuotaIsOwed'
  BY <1>2 DEF QuotaIsOwed, AdmitReader, Admitted, TypeOK
<1>7. OwedReadersAreAwake'
  BY DEF OwedReadersAreAwake, AdmitReader, Admitted, TypeOK
<1>8. WaitersAreAwake'
  BY <1>1 DEF WaitersAreAwake, AdmitReader, TypeOK, MayWrite, MayRead, Moved
<1> QED
  BY <1>3, <1>4, <1>5, <1>6, <1>7, <1>8

\* A writer is admitted.
LEMMA AdmitWriterInv ==
    ASSUME IndInv, NEW t \in Threads, NEW w,
           \/ pc[t] = "idle" /\ w = waiting_writers_ + 1
           \/ pc[t] = "lock" /\ w = waiting_writers_,
           MayWrite, AdmitWriter(t, w)
    PROVE  IndInv'
<1> USE DEF IndInv
<1>1. /\ pc' \in [Threads -> Locations]
      /\ Moved(WaitingReaders, t, pc[t], "writing", "lock_shared")
      /\ Moved(WaitingWriters, t, pc[t], "writing", "lock")
      /\ Moved(Readers, t, pc[t], "writing", "reading")
      /\ Moved(Writers, t, pc[t], "writing", "writing")
  BY StepMoves DEF AdmitWriter, Locations
<1>2. /\ Cardinality(WaitingWriters) \in Nat
      /\ WaitingWriters # {} => Cardinality(WaitingWriters) # 0
      /\ Readers # {} => Cardinality(Readers) # 0
  BY SetsFinite, FS_EmptySet
<1>3. TypeOK'
  BY <1>1, <1>2 DEF turn, TypeOK, AdmitWriter, CountersAgree, Moved
<1>4. CountersAgree'
  BY <1>1, <1>2 DEF TypeOK, AdmitWriter, CountersAgree, Moved
<1>5. MutualExclusion'
  BY <1>1, <1>2 DEF MutualExclusion, CountersAgree, MayWrite, AdmitWriter, TypeOK, Moved
<1>6. QuotaIsOwed' /\ OwedReadersAreAwake' /\ WaitersAreAwake'
  BY <1>1 DEF QuotaIsOwed, OwedReadersAreAwake, WaitersAreAwake, MayWrite,
              AdmitWriter, TypeOK, Moved
<1> QED
  BY <1>3, <1>4, <1>5, <1>6

\* A reader or a writer starts to wait: it does so only when its predicate is
\* false, which is when the lock owes it no wakeup.
LEMMA StartWaitingInv ==
    ASSUME IndInv, NEW t \in Threads, pc[t] = "idle",
           \/ /\ ~MayRead(waiting_writers_)
              /\ pc' = [pc EXCEPT ![t] = "lock_shared"]
              /\ waiting_readers_' = waiting_readers_ + 1
              /\ waiting_writers_' = waiting_writers_
           \/ /\ ~MayWrite
              /\ pc' = [pc EXCEPT ![t] = "lock"]
              /\ waiting_writers_' = waiting_writers_ + 1
              /\ waiting_readers_' = waiting_readers_,
           UNCHANGED <<notified, active_readers_, reader_quota_, writer_active_, owed, turn>>
    PROVE  IndInv'
<1> USE DEF IndInv
<1>1. PICK b \in {"lock_shared", "lock"} :
        /\ pc' = [pc EXCEPT ![t] = b]
        /\ b = "lock_shared" => /\ ~MayRead(waiting_writers_)
                                /\ waiting_readers_' = waiting_readers_ + 1
                                /\ waiting_writers_' = waiting_writers_
        /\ b = "lock" => /\ ~MayWrite
                         /\ waiting_writers_' = waiting_writers_ + 1
                         /\ waiting_readers_' = waiting_readers_
  OBVIOUS
<1>2. /\ pc' \in [Threads -> Locations]
      /\ Moved(WaitingReaders, t, pc[t], b, "lock_shared")
      /\ Moved(WaitingWriters, t, pc[t], b, "lock")
      /\ Moved(Readers, t, pc[t], b, "reading")
      /\ Moved(Writers, t, pc[t], b, "writing")
  BY <1>1, StepMoves DEF Locations
<1>3. TypeOK' /\ CountersAgree'
  BY <1>1, <1>2 DEF turn, TypeOK, CountersAgree, Moved
<1>4. MutualExclusion' /\ QuotaIsOwed' /\ OwedReadersAreAwake'
  BY <1>1, <1>2 DEF MutualExclusion, QuotaIsOwed, OwedReadersAreAwake, Moved
<1>5. WaitersAreAwake'
  BY <1>1, <1>2 DEF WaitersAreAwake, Moved, MayWrite, MayRead, TypeOK
<1> QED
  BY <1>3, <1>4, <1>5

\* A woken thread finds its predicate false and goes back to sleep.
LEMMA KeepWaitingInv ==
    ASSUME IndInv, NEW t \in Threads,
           \/ pc[t] = "lock_shared" /\ ~MayRead(waiting_writers_)
           \/ pc[t] = "lock" /\ ~MayWrite,
           notified' = notified \ {t},
           UNCHANGED <<pc, counters, reader_quota_, writer_active_, owed, turn>>
    PROVE  IndInv'
<1> USE DEF IndInv, counters
<1>1. /\ WaitingReaders' = WaitingReaders /\ WaitingWriters' = WaitingWriters
      /\ Readers' = Readers /\ Writers' = Writers
      /\ t \in WaitingReaders <=> pc[t] = "lock_shared"
      /\ t \in WaitingWriters <=> pc[t] = "lock"
  BY DEF WaitingReaders, WaitingWriters, Readers, Writers, At
<1>2. TypeOK' /\ CountersAgree' /\ MutualExclusion' /\ QuotaIsOwed'
  BY <1>1 DEF turn, TypeOK, CountersAgree, MutualExclusion, QuotaIsOwed
<1>3. OwedReadersAreAwake'
  BY <1>1 DEF OwedReadersAreAwake, TypeOK, MayRead, MutualExclusion, CountersAgree
<1>4. WaitersAreAwake'
  BY <1>1 DEF WaitersAreAwake, MayRead, MayWrite, TypeOK
<1> QED
  BY <1>2, <1>3, <1>4

\* What notify_one leaves behind: nothing but a further wakeup, and at least
\* one waiter awake if there is any.
LEMMA NotifyOneWakes ==
    ASSUME NEW W, NotifyOne(W)
    PROVE  /\ notified \subseteq notified'
           /\ notified' \subseteq notified \cup W
           /\ W # {} => W \cap notified' # {}
  BY DEF NotifyOne

\* unlock_shared() preserves the invariant: the last reader out leaves a waiting
\* writer awake.
LEMMA UnlockSharedInv ==
    ASSUME IndInv, NEW t \in Threads, UnlockShared(t)
    PROVE  IndInv'
<1> USE DEF IndInv
<1>1. /\ pc' \in [Threads -> Locations]
      /\ Moved(WaitingReaders, t, pc[t], "idle", "lock_shared")
      /\ Moved(WaitingWriters, t, pc[t], "idle", "lock")
      /\ Moved(Readers, t, pc[t], "idle", "reading")
      /\ Moved(Writers, t, pc[t], "idle", "writing")
      /\ pc[t] = "reading"
  BY StepMoves DEF UnlockShared, Locations
<1>2. /\ Cardinality(Readers) \in Nat /\ Cardinality(Readers') \in Nat
      /\ WaitingWriters = {} => Cardinality(WaitingWriters) = 0
  <2>1. IsFiniteSet(Readers')
    BY <1>1, SetsFinite, FS_RemoveElement DEF Moved
  <2> QED
    BY <2>1, SetsFinite, FS_EmptySet, FS_CardinalityType
<1>3. /\ notified \subseteq notified'
      /\ notified' \subseteq notified \cup WaitingWriters
      /\ (active_readers_' = 0 /\ waiting_writers_ > 0)
            => WaitingWriters \cap notified' # {}
  <2>1. CASE active_readers_' = 0 /\ waiting_writers_ > 0
    <3>1. NotifyOne(WaitingWriters)
      BY <2>1 DEF UnlockShared
    <3>2. WaitingWriters # {}
      BY <2>1, <1>2 DEF CountersAgree
    <3> QED
      BY <3>1, <3>2, NotifyOneWakes
  <2>2. CASE ~(active_readers_' = 0 /\ waiting_writers_ > 0)
    BY <2>2 DEF UnlockShared
  <2> QED
    BY <2>1, <2>2
<1>4. TypeOK' /\ CountersAgree'
  BY <1>1, <1>2, <1>3 DEF turn, TypeOK, CountersAgree, UnlockShared, Moved
<1>5. MutualExclusion' /\ QuotaIsOwed' /\ OwedReadersAreAwake'
  BY <1>1, <1>3 DEF MutualExclusion, QuotaIsOwed, OwedReadersAreAwake, UnlockShared, Moved
<1>6. WaitersAreAwake'
  BY <1>1, <1>3 DEF WaitersAreAwake, UnlockShared, Moved, MayWrite
<1> QED
  BY <1>4, <1>5, <1>6

\* unlock() preserves the invariant: the quota is handed to readers that are all
\* woken in the same section, or else one writer is woken.
LEMMA UnlockInv ==
    ASSUME IndInv, NEW t \in Threads, Unlock(t)
    PROVE  IndInv'
<1> USE DEF IndInv
<1>1. /\ pc' \in [Threads -> Locations]
      /\ Moved(WaitingReaders, t, pc[t], "idle", "lock_shared")
      /\ Moved(WaitingWriters, t, pc[t], "idle", "lock")
      /\ Moved(Readers, t, pc[t], "idle", "reading")
      /\ Moved(Writers, t, pc[t], "idle", "writing")
      /\ pc[t] = "writing"
  BY StepMoves DEF Unlock, UnlockGranting, Locations
<1>2. /\ \A S \in {WaitingReaders, WaitingWriters} :
            /\ Cardinality(S) \in Nat
            /\ Cardinality(S) = 0 <=> S = {}
  BY SetsFinite, FS_EmptySet
<1>3. /\ notified' \subseteq notified \cup WaitingReaders \cup WaitingWriters
      /\ WaitingReaders \subseteq notified'
      /\ (WaitingReaders = {} /\ WaitingWriters # {})
            => WaitingWriters \cap notified' # {}
  <2>1. CASE waiting_readers_ > 0
    BY <2>1, <1>2 DEF Unlock, UnlockGranting, CountersAgree, TypeOK
  <2>2. CASE waiting_readers_ = 0 /\ waiting_writers_ > 0
    <3>1. NotifyOne(WaitingWriters)
      BY <2>2 DEF Unlock, UnlockGranting
    <3>2. WaitingReaders = {}
      BY <2>2, <1>2 DEF CountersAgree
    <3> QED
      BY <3>1, <3>2, NotifyOneWakes
  <2>3. CASE waiting_readers_ = 0 /\ waiting_writers_ = 0
    BY <2>3, <1>2 DEF Unlock, UnlockGranting, CountersAgree
  <2> QED
    BY <2>1, <2>2, <2>3 DEF TypeOK
<1>4. Writers' = {}
  BY <1>1 DEF MutualExclusion, Moved
<1>5. TypeOK'
  BY <1>1, <1>3 DEF TypeOK, Unlock, UnlockGranting, Moved, counters
<1>6. CountersAgree' /\ MutualExclusion'
  BY <1>1, <1>4 DEF CountersAgree, MutualExclusion, Unlock, UnlockGranting, Moved, counters
<1>7. QuotaIsOwed'
  BY <1>2 DEF QuotaIsOwed, Unlock, UnlockGranting, CountersAgree
<1>8. OwedReadersAreAwake'
  BY <1>1, <1>3 DEF OwedReadersAreAwake, Unlock, UnlockGranting
<1>9. WaitersAreAwake'
  BY <1>1, <1>2, <1>3 DEF WaitersAreAwake, Unlock, UnlockGranting, Moved, MayWrite, CountersAgree,
                          counters
<1> QED
  BY <1>5, <1>6, <1>7, <1>8, <1>9
-----------------------------------------------------------------------------
\* Every step of the lock preserves the inductive invariant.
LEMMA NextInv ==
    ASSUME IndInv, [Next]_vars
    PROVE  IndInv'
<1>1. ASSUME NEW t \in Threads, LockShared(t)
      PROVE  IndInv'
  <2>1. CASE MayRead(waiting_writers_)
    BY <1>1, <2>1, AdmitReaderInv DEF LockShared
  <2>2. CASE ~MayRead(waiting_writers_)
    BY <1>1, <2>2, StartWaitingInv DEF LockShared
  <2> QED
    BY <2>1, <2>2
<1>2. ASSUME NEW t \in Threads, Lock(t)
      PROVE  IndInv'
  <2>1. CASE MayWrite
    BY <1>2, <2>1, AdmitWriterInv DEF Lock
  <2>2. CASE ~MayWrite
    BY <1>2, <2>2, StartWaitingInv DEF Lock
  <2> QED
    BY <2>1, <2>2
<1>3. ASSUME NEW t \in Threads, ReaderRechecks(t)
      PROVE  IndInv'
  <2>1. CASE MayRead(waiting_writers_)
    BY <1>3, <2>1, AdmitReaderInv DEF ReaderRechecks
  <2>2. CASE ~MayRead(waiting_writers_)
    BY <1>3, <2>2, KeepWaitingInv DEF ReaderRechecks
  <2> QED
    BY <2>1, <2>2
<1>4. ASSUME NEW t \in Threads, WriterRechecks(t)
      PROVE  IndInv'
  <2>1. CASE MayWrite
    BY <1>4, <2>1, AdmitWriterInv DEF WriterRechecks
  <2>2. CASE ~MayWrite
    BY <1>4, <2>2, KeepWaitingInv DEF WriterRechecks
  <2> QED
    BY <2>1, <2>2
<1>5. ASSUME NEW t \in Threads, UnlockShared(t)
      PROVE  IndInv'
  BY <1>5, UnlockSharedInv
<1>6. ASSUME NEW t \in Threads, Unlock(t)
      PROVE  IndInv'
  BY <1>6, UnlockInv
<1>7. CASE UNCHANGED vars
  BY <1>7 DEF turn, vars, IndInv, TypeOK, CountersAgree, MutualExclusion, QuotaIsOwed,
              OwedReadersAreAwake, WaitersAreAwake, MayWrite, WaitingReaders,
              WaitingWriters, Readers, Writers, At
<1> QED
  BY <1>1, <1>2, <1>3, <1>4, <1>5, <1>6, <1>7 DEF Next, Wakeup, SpuriousWakeup

\* A new lock satisfies the invariant.
LEMMA InitInv == Init => IndInv
<1> SUFFICES ASSUME Init PROVE IndInv
  OBVIOUS
<1>1. /\ WaitingReaders = {} /\ WaitingWriters = {} /\ Readers = {} /\ Writers = {}
  BY DEF Init, WaitingReaders, WaitingWriters, Readers, Writers, At
<1>2. Cardinality({}) = 0
  BY FS_EmptySet
<1>3. TypeOK
  BY <1>1 DEF Init, TypeOK, Locations
<1>4. CountersAgree
  BY <1>1, <1>2 DEF Init, CountersAgree
<1>5. MutualExclusion /\ QuotaIsOwed /\ OwedReadersAreAwake /\ WaitersAreAwake
  BY <1>1, <1>2 DEF Init, MutualExclusion, QuotaIsOwed, OwedReadersAreAwake,
     WaitersAreAwake
<1> QED
  BY <1>3, <1>4, <1>5 DEF IndInv

\* The inductive invariant holds in every reachable state, for any finite set
\* of threads: readers and writers exclude each other, the unsigned counters
\* never wrap, and quota is only ever held for readers that are awake.
THEOREM Invariance == Spec => []IndInv
<1>1. Init => IndInv
  BY InitInv
<1>2. IndInv /\ [Next]_vars => IndInv'
  BY NextInv
<1> QED
  BY <1>1, <1>2, PTL DEF Spec

\* The state keeps its type: no unsigned decrement of the lock goes below zero.
THEOREM TypeCorrect == Spec => []TypeOK
<1>1. IndInv => TypeOK
  BY DEF IndInv
<1> QED
  BY <1>1, Invariance, PTL

\* No wakeup is lost: with the lock free and threads waiting, a woken thread
\* finds its predicate true.
THEOREM WakeupNotLost == Spec => []NoLostWakeup
<1>1. IndInv => NoLostWakeup
  <2> SUFFICES ASSUME IndInv, Readers \cup Writers = {},
                      WaitingReaders \cup WaitingWriters # {}
               PROVE  \/ \E t \in WaitingReaders \cap notified : MayRead(waiting_writers_)
                      \/ \E t \in WaitingWriters \cap notified : MayWrite
    BY DEF NoLostWakeup
  <2>1. /\ Cardinality(Readers) = 0
        /\ Cardinality(owed) > 0 => owed # {}
        /\ WaitingWriters # {} => Cardinality(WaitingWriters) > 0
        /\ WaitingWriters = {} => Cardinality(WaitingWriters) = 0
        /\ Cardinality(owed) \in Nat
    BY SetsFinite, FS_EmptySet DEF IndInv
  <2>2. ~writer_active_ /\ active_readers_ = 0
    BY <2>1 DEF IndInv, CountersAgree
  <2>3. CASE reader_quota_ > 0
    <3>1. owed # {} /\ owed \subseteq WaitingReaders \cap notified
      BY <2>1, <2>3 DEF IndInv, QuotaIsOwed, OwedReadersAreAwake, TypeOK
    <3> QED
      BY <3>1, <2>2, <2>3 DEF MayRead
  <2>4. CASE reader_quota_ = 0 /\ WaitingWriters # {}
    BY <2>1, <2>2, <2>4 DEF IndInv, WaitersAreAwake, MayWrite, CountersAgree
  <2>5. CASE reader_quota_ = 0 /\ WaitingWriters = {}
    BY <2>1, <2>2, <2>5 DEF IndInv, WaitersAreAwake, MayRead, CountersAgree
  <2> QED
    BY <2>3, <2>4, <2>5 DEF IndInv, TypeOK
<1> QED
  BY <1>1, Invariance, PTL

\* Why neither side is passed too often: the admissions that can still pass a waiting
\* writer are those of the quota left, and an owed reader without quota has had its
\* admission taken by a later one.
BypassInv ==
    /\ passed + reader_quota_ <= granted
    /\ Cardinality(owed) <= reader_quota_ + late

\* A reader that is let in uses up quota if a writer waits, and counts as late if it
\* takes the admission of another.
LEMMA AdmitReaderBypass ==
    ASSUME IndInv, BypassInv, NEW t \in Threads, NEW w, MayRead(waiting_writers_),
           AdmitReader(t, w)
    PROVE  BypassInv'
<1> USE DEF IndInv, TypeOK
<1>1. IsFiniteSet(owed) /\ Cardinality(owed) \in Nat
  BY SetsFinite
<1>2. Cardinality(owed \ {t}) = IF t \in owed THEN Cardinality(owed) - 1 ELSE Cardinality(owed)
  BY <1>1, FS_RemoveElement
<1>3. owed' = owed \ {t}
  BY DEF AdmitReader, Admitted
<1>4. passed' + reader_quota_' <= granted'
  BY DEF BypassInv, AdmitReader, Admitted, MayRead
<1>5. Cardinality(owed') <= reader_quota_' + late'
  BY <1>1, <1>2, <1>3 DEF BypassInv, AdmitReader, Admitted
<1> QED
  BY <1>4, <1>5 DEF BypassInv

\* Every step preserves it; unlock() starts the count again.
LEMMA BypassStep ==
    ASSUME IndInv, BypassInv, [Next]_vars
    PROVE  BypassInv'
<1>1. ASSUME UNCHANGED <<reader_quota_, owed, turn>>
      PROVE  BypassInv'
  BY <1>1 DEF BypassInv, turn
<1>2. ASSUME NEW t \in Threads, LockShared(t) \/ ReaderRechecks(t)
      PROVE  BypassInv'
  BY <1>1, <1>2, AdmitReaderBypass DEF LockShared, ReaderRechecks
<1>3. ASSUME NEW t \in Threads, Lock(t) \/ WriterRechecks(t) \/ UnlockShared(t)
      PROVE  BypassInv'
  BY <1>1, <1>3 DEF Lock, WriterRechecks, AdmitWriter, UnlockShared
<1>4. ASSUME NEW t \in Threads, Unlock(t)
      PROVE  BypassInv'
  BY <1>4 DEF Unlock, UnlockGranting, BypassInv, IndInv, TypeOK, CountersAgree
<1>5. CASE UNCHANGED vars
  BY <1>1, <1>5 DEF vars
<1> QED
  BY <1>2, <1>3, <1>4, <1>5 DEF Next, Wakeup, SpuriousWakeup

\* Since the last unlock(), waiting writers have been passed by at most as many
\* readers as were waiting then, and a writer that is in before some of those has
\* been preceded by as many later readers: for any number of threads.
THEOREM BypassBounded == Spec => []BoundedBypass
<1>1. Init => BypassInv
  BY FS_EmptySet DEF Init, BypassInv
<1>2. IndInv /\ BypassInv /\ [Next]_vars => BypassInv'
  BY BypassStep
<1>3. IndInv /\ BypassInv => BoundedBypass
  <2> SUFFICES ASSUME IndInv, BypassInv PROVE BoundedBypass
    OBVIOUS
  <2>1. writer_active_ => reader_quota_ = 0
    BY DEF IndInv, CountersAgree, MutualExclusion
  <2>2. Cardinality(owed) \in Nat
    BY SetsFinite DEF IndInv
  <2> QED
    BY <2>1, <2>2 DEF IndInv, TypeOK, BypassInv, BoundedBypass
<1> QED
  BY <1>1, <1>2, <1>3, Invariance, PTL DEF Spec

\* The lock implements SharedLock: every step of it acquires or releases the
\* abstract lock for one thread, or leaves it alone.
THEOREM Refinement == Spec => ImplementsSharedLock
<1>1. Init => RWLock!Init
  BY DEF Init, RWLock!Init, Readers, Writers, At
<1>2. IndInv /\ IndInv' /\ [Next]_vars => [RWLock!Next]_RWLock!vars
  <2> SUFFICES ASSUME IndInv, IndInv', [Next]_vars
               PROVE  [RWLock!Next]_RWLock!vars
    OBVIOUS
  <2> USE DEF Locations
  <2>1. ASSUME NEW t \in Threads, NEW w, AdmitReader(t, w), MayRead(waiting_writers_),
               pc[t] # "reading"
        PROVE  RWLock!Next
    <3>1. /\ Moved(Readers, t, pc[t], "reading", "reading")
          /\ Moved(Writers, t, pc[t], "reading", "writing")
      BY <2>1, StepMoves DEF AdmitReader, IndInv
    <3>2. Writers = {} /\ pc[t] # "writing"
      BY <2>1 DEF MayRead, IndInv, CountersAgree, Writers, At
    <3>3. RWLock!AcquireShared(t)
      BY <2>1, <3>1, <3>2 DEF RWLock!AcquireShared, Moved
    <3> QED
      BY <3>3 DEF RWLock!Next
  <2>2. ASSUME NEW t \in Threads, NEW w, AdmitWriter(t, w), MayWrite, pc[t] # "writing"
        PROVE  RWLock!Next
    <3>1. /\ Moved(Readers, t, pc[t], "writing", "reading")
          /\ Moved(Writers, t, pc[t], "writing", "writing")
      BY <2>2, StepMoves DEF AdmitWriter, IndInv
    <3>2. Writers = {} /\ Readers = {} /\ pc[t] # "reading"
      <4>1. Writers = {}
        BY <2>2 DEF MayWrite, IndInv, CountersAgree
      <4>2. Readers = {}
        BY <2>2, SetsFinite, FS_EmptySet DEF MayWrite, IndInv, CountersAgree
      <4> QED
        BY <4>1, <4>2 DEF Readers, At
    <3>3. RWLock!AcquireExclusive(t)
      BY <3>1, <3>2 DEF RWLock!AcquireExclusive, Moved
    <3> QED
      BY <3>3 DEF RWLock!Next
  <2>3. ASSUME NEW t \in Threads, UnlockShared(t)
        PROVE  RWLock!Next
    <3>1. /\ Moved(Readers, t, pc[t], "idle", "reading")
          /\ Moved(Writers, t, pc[t], "idle", "writing")
          /\ pc[t] = "reading"
      BY <2>3, StepMoves DEF UnlockShared, IndInv
    <3>2. RWLock!ReleaseShared(t)
      BY <3>1 DEF RWLock!ReleaseShared, Moved
    <3> QED
      BY <3>2 DEF RWLock!Next
  <2>4. ASSUME NEW t \in Threads, Unlock(t)
        PROVE  RWLock!Next
    <3>1. /\ Moved(Readers, t, pc[t], "idle", "reading")
          /\ Moved(Writers, t, pc[t], "idle", "writing")
          /\ pc[t] = "writing"
      BY <2>4, StepMoves DEF Unlock, UnlockGranting, IndInv
    <3>2. RWLock!ReleaseExclusive(t)
      BY <3>1 DEF RWLock!ReleaseExclusive, Moved, IndInv, MutualExclusion
    <3> QED
      BY <3>2 DEF RWLock!Next
  <2>5. ASSUME NEW t \in Threads, NEW b \in {"lock_shared", "lock"}, pc[t] = "idle",
               pc' = [pc EXCEPT ![t] = b]
        PROVE  UNCHANGED RWLock!vars
    <3>1. /\ Moved(Readers, t, pc[t], b, "reading")
          /\ Moved(Writers, t, pc[t], b, "writing")
      BY <2>5, StepMoves DEF IndInv
    <3> QED
      BY <2>5, <3>1 DEF RWLock!vars, Moved
  <2>6. ASSUME pc' = pc
        PROVE  UNCHANGED RWLock!vars
    BY <2>6 DEF RWLock!vars, Readers, Writers, At
  <2>7. ASSUME NEW t \in Threads, LockShared(t) \/ ReaderRechecks(t)
        PROVE  [RWLock!Next]_RWLock!vars
    BY <2>7, <2>1, <2>5, <2>6 DEF LockShared, ReaderRechecks
  <2>8. ASSUME NEW t \in Threads, Lock(t) \/ WriterRechecks(t)
        PROVE  [RWLock!Next]_RWLock!vars
    BY <2>8, <2>2, <2>5, <2>6 DEF Lock, WriterRechecks
  <2>9. CASE UNCHANGED vars
    BY <2>6, <2>9 DEF vars
  <2> QED
    BY <2>3, <2>4, <2>7, <2>8, <2>9 DEF Next, Wakeup, SpuriousWakeup
<1> QED
  BY <1>1, <1>2, Invariance, PTL DEF Spec, ImplementsSharedLock, RWLock!Spec
=============================================================================

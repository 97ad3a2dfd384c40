-------------------------- MODULE ThreadPoolProofs --------------------------
(***************************************************************************)
(* Proofs about ThreadPool, for any finite set of workers, any threads     *)
(* that call it and any number of chunks.                                  *)
(***************************************************************************)
EXTENDS ThreadPool, FiniteSetTheorems, SequenceTheorems, TLAPS

AllThreads == Workers \cup Callers \cup Submitters \cup Stoppers

\* The domains of the functions, which TypeOK leaves open, and the ranges of
\* those that the other parts add to or compare.
Shapes ==
    /\ DOMAIN pc = AllThreads
    /\ DOMAIN task = Workers
    /\ chunk \in [Workers \cup Callers -> Nat]
    /\ next \in [Callers -> Nat]
    /\ DOMAIN failed = Callers /\ DOMAIN error = Callers
    /\ DOMAIN running = Callers
    /\ spawned \in [Callers -> Nat]
    /\ DOMAIN ran = Callers
    /\ \A c \in Callers : ran[c] \in [1..Chunks -> Nat]

\* A worker has a task exactly while it runs one.
TaskInOrder(w) ==
    /\ pc[w] \in {"chunks", "body", "leave"} => \E c \in Callers : task[w] = Helper(c)
    /\ pc[w] = "task" => \E c \in Submitters : task[w] = Submitted(c)
    /\ pc[w] \in {"loop", "wait", "exited"} => task[w] = None

\* The helpers a caller has counted, by the progress of its loop.
SpawnsInOrder(c) ==
    /\ spawned[c] <= Helpers
    /\ pc[c] \in {"count", "enqueue", "notify", "uncount"} => spawned[c] < Helpers
    /\ pc[c] \in {"enqueue", "notify", "uncount"} => running[c] <= spawned[c] + 1
    /\ pc[c] \notin {"enqueue", "notify", "uncount"} => running[c] <= spawned[c]
    /\ pc[c] \in {"idle", "returned"} => running[c] = 0
    /\ pc[c] = "idle" => spawned[c] = 0

\* A participant t of call c is running chunk k.
Runs(t, c, k) == pc[t] = "body" /\ CallOf(t) = c /\ chunk[t] = k

\* The chunks claimed are those below next, each by one participant; a claimed
\* chunk has run once unless its participant is still running it.
ChunksInOrder(c) ==
    /\ \A t \in Workers \cup Callers : pc[t] = "body" /\ CallOf(t) = c =>
          chunk[t] \in 1..Chunks /\ chunk[t] <= next[c] /\ ran[c][chunk[t]] = 0
    /\ \A t, u \in Workers \cup Callers, k \in 1..Chunks :
          Runs(t, c, k) /\ Runs(u, c, k) => t = u
    /\ \A k \in 1..Chunks :
          /\ k > next[c] => ran[c][k] = 0
          /\ k <= next[c] => \/ ran[c][k] = 1
                             \/ \E t \in Workers \cup Callers : Runs(t, c, k)
          /\ ran[c][k] <= 1

\* A caller stops claiming when something failed or nothing is left.
CallInOrder(c) ==
    /\ failed[c] => error[c]
    /\ pc[c] \in {"wait_helpers", "returned"} => error[c] \/ next[c] >= Chunks
    /\ pc[c] = "idle" => next[c] = 0 /\ \A k \in 1..Chunks : ran[c][k] = 0

\* A worker leaves only a pool that is stopping and has nothing queued, and a task
\* that was accepted is queued or being run.
ShutdownInOrder ==
    /\ \A w \in Workers : pc[w] = "exited" => stopping /\ queue = <<>>
    /\ \A s \in Stoppers : pc[s] = "stopped" => \A w \in Workers : pc[w] = "exited"
    /\ submitted \subseteq Submitters
    /\ \A c \in submitted : \/ \E i \in DOMAIN queue : queue[i] = Submitted(c)
                            \/ \E w \in Workers : task[w] = Submitted(c)

IndInv ==
    /\ HelpersCounted
    /\ Shapes
    /\ \A w \in Workers : TaskInOrder(w)
    /\ \A c \in Callers : SpawnsInOrder(c) /\ ChunksInOrder(c) /\ CallInOrder(c)
    /\ ShutdownInOrder
-----------------------------------------------------------------------------
\* The positions of x in a sequence.
At(q, x) == {i \in DOMAIN q : q[i] = x}

\* They are finitely many.
LEMMA AtFinite ==
    ASSUME NEW S, NEW q \in Seq(S), NEW x
    PROVE  IsFiniteSet(At(q, x)) /\ Cardinality(At(q, x)) \in Nat
<1>1. At(q, x) \in SUBSET (1..Len(q)) /\ Len(q) \in Nat
  BY DEF At
<1>2. IsFiniteSet(1..Len(q))
  BY <1>1, FS_Interval
<1>3. IsFiniteSet(At(q, x))
  BY <1>1, <1>2, FS_Subset
<1> QED
  BY <1>3, FS_CardinalityType

\* An element more at the end is one more of its kind.
LEMMA AppendCounts ==
    ASSUME NEW S, NEW q \in Seq(S), NEW y \in S, NEW x
    PROVE  /\ y = x => Cardinality(At(Append(q, y), x)) = Cardinality(At(q, x)) + 1
           /\ y # x => At(Append(q, y), x) = At(q, x)
<1>1. /\ DOMAIN Append(q, y) = 1..(Len(q) + 1) /\ DOMAIN q = 1..Len(q) /\ Len(q) \in Nat
      /\ \A i \in 1..Len(q) : Append(q, y)[i] = q[i]
      /\ Append(q, y)[Len(q) + 1] = y
  BY AppendProperties
<1>2. y = x => At(Append(q, y), x) = At(q, x) \cup {Len(q) + 1}
  BY <1>1 DEF At
<1>3. y # x => At(Append(q, y), x) = At(q, x)
  BY <1>1 DEF At
<1>4. Len(q) + 1 \notin At(q, x)
  BY <1>1 DEF At
<1> QED
  BY <1>2, <1>3, <1>4, AtFinite, FS_AddElement

\* The head that is taken is one less of its kind.
LEMMA TailCounts ==
    ASSUME NEW S, NEW q \in Seq(S), q # <<>>, NEW x
    PROVE  /\ Head(q) = x => Cardinality(At(Tail(q), x)) = Cardinality(At(q, x)) - 1
           /\ Head(q) # x => Cardinality(At(Tail(q), x)) = Cardinality(At(q, x))
<1>1. /\ Len(q) \in Nat \ {0} /\ DOMAIN q = 1..Len(q) /\ Head(q) = q[1]
      /\ Tail(q) \in Seq(S) /\ DOMAIN Tail(q) = 1..(Len(q) - 1)
      /\ \A i \in 1..(Len(q) - 1) : Tail(q)[i] = q[i + 1]
  BY HeadTailProperties, EmptySeq, LenProperties
<1> DEFINE A == At(Tail(q), x)
           B == At(q, x) \ {1}
           f == [i \in A |-> i + 1]
<1>2. f \in Bijection(A, B)
  <2>1. f \in [A -> B]
    BY <1>1 DEF At
  <2>2. \A i, j \in A : f[i] = f[j] => i = j
    BY <1>1 DEF At
  <2>3. ASSUME NEW j \in B PROVE \E i \in A : f[i] = j
    <3>1. j \in 2..Len(q) /\ q[j] = x
      BY <1>1 DEF At
    <3>2. j - 1 \in A
      BY <1>1, <3>1 DEF At
    <3> QED
      BY <3>1, <3>2
  <2> HIDE DEF A, B, f
  <2> QED
    BY <2>1, <2>2, <2>3 DEF Bijection, Injection, Surjection, IsInjective
<1>3. ExistsBijection(A, B)
  BY <1>2 DEF ExistsBijection
<1>4. IsFiniteSet(A)
  BY <1>1, AtFinite
<1>5. Cardinality(A) = Cardinality(B)
  BY <1>3, <1>4, FS_Bijection
<1>6. IsFiniteSet(At(q, x))
  BY AtFinite
<1>7. Head(q) = x <=> 1 \in At(q, x)
  BY <1>1 DEF At
<1> QED
  BY <1>5, <1>6, <1>7, FS_RemoveElement
-----------------------------------------------------------------------------
\* A thread is of one kind.
LEMMA Kinds ==
    /\ \A w \in Workers : w \notin Callers /\ w \notin Submitters /\ w \notin Stoppers
    /\ \A c \in Callers : c \notin Submitters /\ c \notin Stoppers
    /\ \A c \in Submitters : c \notin Stoppers
  BY ThreadPoolAssumption

\* Tasks are told apart by their kind and by who queued them.
LEMMA TaskKinds ==
    /\ \A c \in Callers : Helper(c).kind = "helper" /\ Helper(c).caller = c
    /\ \A c \in Submitters : Submitted(c).kind = "task" /\ Submitted(c).caller = c
    /\ \A c \in Callers : Helper(c) \in Tasks /\ Helper(c) # None
    /\ \A c \in Submitters : Submitted(c) \in Tasks /\ Submitted(c) # None
    /\ \A x \in Tasks : x \in {Helper(c) : c \in Callers} \/ x \in {Submitted(c) : c \in Submitters}
<1>1. \A c \in Callers : Helper(c) \in Tasks
  BY DEF Tasks
<1>2. \A c \in Submitters : Submitted(c) \in Tasks
  BY DEF Tasks
<1>3. \A x \in Tasks : x \in {Helper(c) : c \in Callers} \/ x \in {Submitted(c) : c \in Submitters}
  BY DEF Tasks
<1>4. \A c : Helper(c).kind = "helper" /\ Helper(c).caller = c
  BY DEF Helper
<1>5. \A c : Submitted(c).kind = "task" /\ Submitted(c).caller = c
  BY DEF Submitted
<1>6. /\ \A c \in Callers : Helper(c) # None
      /\ \A c \in Submitters : Submitted(c) # None
  BY <1>1, <1>2, NoneAssumption
<1> QED
  BY <1>1, <1>2, <1>3, <1>4, <1>5, <1>6

\* The helpers of a call form finite sets.
LEMMA HelpersFinite ==
    ASSUME queue \in Seq(Tasks), NEW c \in Callers
    PROVE  /\ IsFiniteSet(Working(c)) /\ Cardinality(Working(c)) \in Nat
           /\ IsFiniteSet(Queued(c)) /\ Cardinality(Queued(c)) \in Nat
           /\ Queued(c) = At(queue, Helper(c))
<1>1. Working(c) \in SUBSET Workers /\ Queued(c) = At(queue, Helper(c))
  BY DEF Working, Queued, At
<1>2. IsFiniteSet(Working(c))
  BY <1>1, FS_Subset, ThreadPoolAssumption
<1>3. Cardinality(Working(c)) \in Nat
  BY <1>2, FS_CardinalityType
<1>4. IsFiniteSet(At(queue, Helper(c))) /\ Cardinality(At(queue, Helper(c))) \in Nat
  BY AtFinite
<1> QED
  BY <1>1, <1>2, <1>3, <1>4

\* A caller that has counted no helper has none.
LEMMA NoHelpers ==
    ASSUME IndInv, NEW c \in Callers, pc[c] \in {"idle", "returned"}
    PROVE  Working(c) = {} /\ Queued(c) = {}
<1>1. /\ IsFiniteSet(Working(c)) /\ Cardinality(Working(c)) \in Nat
      /\ IsFiniteSet(Queued(c)) /\ Cardinality(Queued(c)) \in Nat
  BY HelpersFinite DEF IndInv, HelpersCounted, TypeOK
<1>2. running[c] = 0
  BY DEF IndInv, SpawnsInOrder
<1>3. running[c] = Cardinality(Working(c)) + Cardinality(Queued(c)) + 0
  BY DEF IndInv, HelpersCounted
<1>4. Cardinality(Working(c)) = 0 /\ Cardinality(Queued(c)) = 0
  BY <1>1, <1>2, <1>3
<1> QED
  BY <1>1, <1>4, FS_EmptySet

\* Where a step that moves thread t leaves everybody.
LEMMA Move ==
    ASSUME Shapes, NEW t \in AllThreads, NEW b, pc' = [pc EXCEPT ![t] = b]
    PROVE  /\ DOMAIN pc' = AllThreads
           /\ pc'[t] = b
           /\ \A u \in AllThreads \ {t} : pc'[u] = pc[u]
  BY DEF Shapes

\* A step that moves a submitter or a stopper and leaves queue and calls alone.
LEMMA OutsideStep ==
    ASSUME IndInv, NEW t \in Submitters \cup Stoppers, NEW b,
           pc' = [pc EXCEPT ![t] = b],
           t \in Submitters => b \in {"idle", "submit_notify"},
           t \in Stoppers => b \in StopperPoints,
           b = "stopped" => \A w \in Workers : pc[w] = "exited",
           notified' \subseteq Sleeping,
           stopping => stopping',
           UNCHANGED <<queue, task, chunk, call, submitted>>
    PROVE  IndInv'
<1> USE DEF IndInv
<1>1. /\ DOMAIN pc' = AllThreads /\ pc'[t] = b /\ t \in AllThreads
      /\ \A u \in AllThreads \ {t} : pc'[u] = pc[u]
  BY Move DEF AllThreads
<1>2. /\ \A u \in Workers \cup Callers : pc'[u] = pc[u]
      /\ \A u \in (Submitters \cup Stoppers) \ {t} : pc'[u] = pc[u]
  BY <1>1, Kinds DEF AllThreads
<1>3. Sleeping' = Sleeping
  BY <1>2 DEF Sleeping
<1>4. TypeOK'
  BY <1>1, <1>2, <1>3 DEF HelpersCounted, TypeOK, call
<1>5. HelpersCounted'
  BY <1>2, <1>4 DEF HelpersCounted, Working, Queued, call
<1>6. Shapes'
  BY <1>1 DEF Shapes, call
<1>7. \A w \in Workers : TaskInOrder(w)'
  BY <1>2 DEF TaskInOrder
<1>8. \A c \in Callers : SpawnsInOrder(c)' /\ CallInOrder(c)'
  BY <1>2 DEF SpawnsInOrder, CallInOrder, call
<1>9. \A c \in Callers : ChunksInOrder(c)'
  BY <1>2 DEF ChunksInOrder, Runs, CallOf, call
<1>10. ShutdownInOrder'
  BY <1>1, <1>2, Kinds DEF ShutdownInOrder
<1> QED
  BY <1>5, <1>6, <1>7, <1>8, <1>9, <1>10

\* Where a caller has counted a helper that is not queued.
Counting == {"enqueue", "uncount"}

\* A step that moves a caller between points outside the body, and may count or
\* uncount a helper.
LEMMA CallerMove ==
    ASSUME IndInv, NEW c \in Callers, NEW b \in CallerPoints \ {"body"}, pc[c] # "body",
           pc' = [pc EXCEPT ![c] = b],
           notified' \subseteq Sleeping,
           DOMAIN running' = Callers,
           \A d \in Callers \ {c} : running'[d] = running[d],
           b \in Counting /\ pc[c] \notin Counting => running'[c] = running[c] + 1,
           b \notin Counting /\ pc[c] \in Counting => running'[c] = running[c] - 1,
           (b \in Counting <=> pc[c] \in Counting) => running'[c] = running[c],
           spawned' \in [Callers -> Nat],
           \A d \in Callers \ {c} : spawned'[d] = spawned[d],
           SpawnsInOrder(c)', CallInOrder(c)',
           UNCHANGED <<queue, stopping, task, chunk, next, failed, error, ran, submitted>>
    PROVE  IndInv'
<1> USE DEF IndInv
<1>1. /\ DOMAIN pc' = AllThreads /\ pc'[c] = b
      /\ \A u \in AllThreads \ {c} : pc'[u] = pc[u]
  BY Move DEF AllThreads
<1>2. /\ \A u \in (Workers \cup Callers) \ {c} : pc'[u] = pc[u]
      /\ \A u \in Workers \cup Submitters \cup Stoppers : pc'[u] = pc[u]
  BY <1>1, Kinds DEF AllThreads
<1>3. Sleeping' = Sleeping
  BY <1>2 DEF Sleeping
<1>4. \A d \in Callers : Working(d)' = Working(d) /\ Queued(d)' = Queued(d)
  BY DEF Working, Queued
<1>5. \A d \in Callers : Cardinality(Working(d)) \in Nat /\ Cardinality(Queued(d)) \in Nat
  BY HelpersFinite DEF HelpersCounted, TypeOK
<1>6. \A d \in Callers :
         running'[d] = Cardinality(Working(d)') + Cardinality(Queued(d)')
                       + (IF pc'[d] \in {"enqueue", "uncount"} THEN 1 ELSE 0)
  BY <1>1, <1>2, <1>4, <1>5 DEF HelpersCounted, Counting
<1>7. running'[c] \in 0..Cardinality(Workers)
  <2>1. running'[c] \in Nat
    BY <1>4, <1>5, <1>6
  <2>2. Cardinality(Workers) \in Nat /\ Helpers <= Cardinality(Workers)
    BY ThreadPoolAssumption, FS_CardinalityType DEF Helpers
  <2>3. running'[c] <= Helpers
    BY <2>1, <2>2, ThreadPoolAssumption DEF SpawnsInOrder, Helpers
  <2> QED
    BY <2>1, <2>2, <2>3, ThreadPoolAssumption DEF Helpers
<1>8. TypeOK'
  BY <1>1, <1>2, <1>3, <1>7 DEF HelpersCounted, TypeOK
<1>9. HelpersCounted'
  BY <1>6, <1>8 DEF HelpersCounted
<1>10. Shapes'
  BY <1>1 DEF Shapes
<1>11. \A w \in Workers : TaskInOrder(w)'
  BY <1>2 DEF TaskInOrder
<1>12. \A d \in Callers : SpawnsInOrder(d)' /\ CallInOrder(d)'
  BY <1>2 DEF SpawnsInOrder, CallInOrder
<1>13. \A d \in Callers : ChunksInOrder(d)'
  <2>1. \A u \in Workers \cup Callers : pc'[u] = "body" <=> pc[u] = "body"
    BY <1>1, <1>2
  <2> QED
    BY <2>1 DEF ChunksInOrder, Runs, CallOf
<1>14. ShutdownInOrder'
  BY <1>2 DEF ShutdownInOrder
<1> QED
  BY <1>9, <1>10, <1>11, <1>12, <1>13, <1>14
-----------------------------------------------------------------------------
\* notify_one() wakes a sleeper or nobody.
LEMMA NotifyWakesSleepers ==
    ASSUME IndInv, NotifyOne
    PROVE  notified' \subseteq Sleeping
  BY DEF IndInv, HelpersCounted, TypeOK, NotifyOne

\* The steps of shutdown().
LEMMA StopperInv ==
    ASSUME IndInv, NEW s \in Stoppers, Shutdown(s) \/ StopperStep(s)
    PROVE  IndInv'
<1>1. notified \subseteq Sleeping
  BY DEF IndInv, HelpersCounted, TypeOK
<1>2. CASE Shutdown(s)
  BY <1>1, <1>2, OutsideStep, Kinds DEF Shutdown, Goto, StopperPoints
<1>3. CASE WakeAll(s)
  BY <1>1, <1>3, OutsideStep, Kinds DEF WakeAll, Goto, StopperPoints
<1>4. CASE Join(s)
  BY <1>1, <1>4, OutsideStep, Kinds DEF Join, Goto, StopperPoints
<1> QED
  BY <1>2, <1>3, <1>4 DEF StopperStep

\* A spurious wakeup.
LEMMA SpuriousInv ==
    ASSUME IndInv, NEW w \in Workers, SpuriousWakeup(w)
    PROVE  IndInv'
<1> USE DEF IndInv, SpuriousWakeup
<1>1. HelpersCounted'
  BY DEF HelpersCounted, TypeOK, Sleeping, Working, Queued, call
<1>2. Shapes' /\ \A v \in Workers : TaskInOrder(v)'
  BY DEF Shapes, TaskInOrder, call
<1>3. \A c \in Callers : SpawnsInOrder(c)' /\ CallInOrder(c)'
  BY DEF SpawnsInOrder, CallInOrder, call
<1>4. \A c \in Callers : ChunksInOrder(c)'
  BY DEF ChunksInOrder, Runs, CallOf, call
<1>5. ShutdownInOrder'
  BY DEF ShutdownInOrder
<1> QED
  BY <1>1, <1>2, <1>3, <1>4, <1>5

\* The steps of parallel_for outside its chunks that leave the queue alone.
LEMMA CallerInv ==
    ASSUME IndInv, NEW c \in Callers,
           \/ ParallelFor(c) \/ CountHelper(c) \/ (Enqueue(c) /\ UNCHANGED queue)
           \/ Notify(c) \/ UncountHelper(c) \/ HelpersDone(c)
    PROVE  IndInv'
<1> USE DEF IndInv
<1>1. /\ notified \subseteq Sleeping /\ Shapes /\ SpawnsInOrder(c) /\ CallInOrder(c)
      /\ running[c] \in Nat /\ spawned[c] \in Nat /\ DOMAIN running = Callers
      /\ spawned \in [Callers -> Nat] /\ c \in AllThreads
  BY DEF HelpersCounted, TypeOK, Shapes, AllThreads
<1>2. Helpers \in Nat /\ 0 < Helpers
  <2>1. Cardinality(Workers) \in Nat /\ Cardinality(Workers) # 0
    BY ThreadPoolAssumption, FS_CardinalityType, FS_EmptySet
  <2> QED
    BY <2>1, ThreadPoolAssumption DEF Helpers
<1>3. CASE ParallelFor(c)
  <2>1. pc' = [pc EXCEPT ![c] = "count"] /\ pc[c] = "idle"
        /\ UNCHANGED <<queue, stopping, notified, task, chunk, next, failed, error, running,
                       spawned, ran, submitted>>
    BY <1>3 DEF ParallelFor, Goto, call
  <2>2. pc'[c] = "count"
    BY <1>1, <2>1, Move
  <2>3. SpawnsInOrder(c)' /\ CallInOrder(c)'
    BY <1>1, <1>2, <2>1, <2>2 DEF SpawnsInOrder, CallInOrder
  <2> QED
    BY <1>1, <2>1, <2>3, CallerMove DEF CallerPoints, Counting
<1>4. CASE CountHelper(c)
  <2>1. pc' = [pc EXCEPT ![c] = "enqueue"] /\ pc[c] = "count"
        /\ running' = [running EXCEPT ![c] = @ + 1]
        /\ UNCHANGED <<queue, stopping, notified, task, chunk, next, failed, error,
                       spawned, ran, submitted>>
    BY <1>4 DEF CountHelper, Goto
  <2>2. pc'[c] = "enqueue"
    BY <1>1, <2>1, Move
  <2>3. /\ DOMAIN running' = Callers /\ running'[c] = running[c] + 1
        /\ \A d \in Callers \ {c} : running'[d] = running[d]
    BY <1>1, <2>1
  <2>4. SpawnsInOrder(c)' /\ CallInOrder(c)'
    BY <1>1, <1>2, <2>1, <2>2, <2>3 DEF SpawnsInOrder, CallInOrder
  <2> QED
    BY <1>1, <2>1, <2>3, <2>4, CallerMove DEF CallerPoints, Counting
<1>5. CASE Enqueue(c) /\ UNCHANGED queue
  <2>1. pc' = [pc EXCEPT ![c] = "uncount"] /\ pc[c] = "enqueue"
        /\ UNCHANGED <<queue, stopping, notified, task, chunk, next, failed, error, running,
                       spawned, ran, submitted>>
    <3>1. queue' # Append(queue, Helper(c))
      <4>1. queue \in Seq(Tasks) /\ Helper(c) \in Tasks
        BY TaskKinds DEF HelpersCounted, TypeOK
      <4>2. Len(Append(queue, Helper(c))) = Len(queue) + 1 /\ Len(queue) \in Nat
        BY <4>1, AppendProperties, LenProperties
      <4> QED
        BY <1>5, <4>2
    <3> QED
      BY <1>5, <3>1 DEF Enqueue, Goto, call
  <2>2. pc'[c] = "uncount"
    BY <1>1, <2>1, Move
  <2>3. SpawnsInOrder(c)' /\ CallInOrder(c)'
    BY <1>1, <1>2, <2>1, <2>2 DEF SpawnsInOrder, CallInOrder
  <2> QED
    BY <1>1, <2>1, <2>3, CallerMove DEF CallerPoints, Counting
<1>6. CASE Notify(c)
  <2>1. pc[c] = "notify"
        /\ spawned' = [spawned EXCEPT ![c] = @ + 1]
        /\ UNCHANGED <<queue, stopping, task, chunk, next, failed, error, running,
                       ran, submitted>>
    BY <1>6 DEF Notify
  <2>2. notified' \subseteq Sleeping
    BY <1>6, NotifyWakesSleepers DEF Notify
  <2>3. PICK b \in {"count", "chunks"} :
          pc' = [pc EXCEPT ![c] = b] /\ (b = "count" => spawned[c] + 1 < Helpers)
    BY <1>6 DEF Notify, Goto
  <2>4. pc'[c] = b
    BY <1>1, <2>3, Move
  <2>5. /\ spawned' \in [Callers -> Nat] /\ spawned'[c] = spawned[c] + 1
        /\ \A d \in Callers \ {c} : spawned'[d] = spawned[d]
    BY <1>1, <2>1
  <2>6. SpawnsInOrder(c)' /\ CallInOrder(c)'
    BY <1>1, <1>2, <2>1, <2>3, <2>4, <2>5 DEF SpawnsInOrder, CallInOrder
  <2> QED
    BY <1>1, <2>1, <2>2, <2>3, <2>5, <2>6, CallerMove DEF CallerPoints, Counting
<1>7. CASE UncountHelper(c)
  <2>1. pc' = [pc EXCEPT ![c] = "chunks"] /\ pc[c] = "uncount"
        /\ running' = [running EXCEPT ![c] = @ - 1]
        /\ UNCHANGED <<queue, stopping, notified, task, chunk, next, failed, error,
                       spawned, ran, submitted>>
    BY <1>7 DEF UncountHelper, Goto
  <2>2. pc'[c] = "chunks"
    BY <1>1, <2>1, Move
  <2>3. /\ DOMAIN running' = Callers /\ running'[c] = running[c] - 1
        /\ \A d \in Callers \ {c} : running'[d] = running[d]
    BY <1>1, <2>1
  <2>4. SpawnsInOrder(c)' /\ CallInOrder(c)'
    BY <1>1, <1>2, <2>1, <2>2, <2>3 DEF SpawnsInOrder, CallInOrder
  <2> QED
    BY <1>1, <2>1, <2>3, <2>4, CallerMove DEF CallerPoints, Counting
<1>8. CASE HelpersDone(c)
  <2>1. pc' = [pc EXCEPT ![c] = "returned"] /\ pc[c] = "wait_helpers" /\ running[c] = 0
        /\ UNCHANGED <<queue, stopping, notified, task, chunk, next, failed, error, running,
                       spawned, ran, submitted>>
    BY <1>8 DEF HelpersDone, Goto, call
  <2>2. pc'[c] = "returned"
    BY <1>1, <2>1, Move
  <2>3. SpawnsInOrder(c)' /\ CallInOrder(c)'
    BY <1>1, <1>2, <2>1, <2>2 DEF SpawnsInOrder, CallInOrder
  <2> QED
    BY <1>1, <2>1, <2>3, CallerMove DEF CallerPoints, Counting
<1> QED
  BY <1>3, <1>4, <1>5, <1>6, <1>7, <1>8
\* A task is accepted.
LEMMA SubmitterInv ==
    ASSUME IndInv, NEW c \in Submitters, Submit(c) \/ SubmitNotifies(c)
    PROVE  IndInv'
<1> USE DEF IndInv
<1>1. CASE SubmitNotifies(c)
  <2>1. notified' \subseteq Sleeping
    BY <1>1, NotifyWakesSleepers DEF SubmitNotifies
  <2> QED
    BY <1>1, <2>1, OutsideStep, Kinds DEF SubmitNotifies, Goto
<1>2. CASE Submit(c)
  <2>1. /\ DOMAIN pc' = AllThreads /\ pc'[c] = "submit_notify"
        /\ \A u \in AllThreads \ {c} : pc'[u] = pc[u]
    BY <1>2, Move DEF Submit, Goto, AllThreads
  <2>2. /\ \A u \in Workers \cup Callers \cup Stoppers : pc'[u] = pc[u]
        /\ \A u \in Submitters \ {c} : pc'[u] = pc[u]
    BY <2>1, Kinds DEF AllThreads
  <2>3. /\ queue \in Seq(Tasks) /\ Submitted(c) \in Tasks /\ ~stopping
        /\ queue' = Append(queue, Submitted(c))
        /\ submitted' = submitted \cup {c}
        /\ UNCHANGED <<stopping, notified, task, chunk, call>>
    BY <1>2, TaskKinds DEF Submit, HelpersCounted, TypeOK
  <2>4. /\ queue' \in Seq(Tasks) /\ Len(queue) \in Nat /\ DOMAIN queue = 1..Len(queue)
        /\ DOMAIN queue' = 1..(Len(queue) + 1)
        /\ \A i \in 1..Len(queue) : queue'[i] = queue[i]
        /\ queue'[Len(queue) + 1] = Submitted(c)
    BY <2>3, AppendProperties, LenProperties
  <2>5. ASSUME NEW d \in Callers
        PROVE  Working(d)' = Working(d) /\ Queued(d)' = Queued(d)
    <3>1. Submitted(c) # Helper(d)
      BY TaskKinds
    <3>2. At(queue', Helper(d)) = At(queue, Helper(d))
      BY <2>3, <3>1, AppendCounts
    <3> QED
      BY <2>3, <3>2 DEF Working, Queued, At
  <2>6. TypeOK'
    BY <2>1, <2>2, <2>3, <2>4 DEF HelpersCounted, TypeOK, Sleeping, call
  <2>7. HelpersCounted'
    BY <2>2, <2>3, <2>5, <2>6 DEF HelpersCounted, call
  <2>8. Shapes' /\ \A w \in Workers : TaskInOrder(w)'
    BY <2>1, <2>2, <2>3 DEF Shapes, TaskInOrder, call
  <2>9. \A d \in Callers : SpawnsInOrder(d)' /\ CallInOrder(d)'
    BY <2>2, <2>3 DEF SpawnsInOrder, CallInOrder, call
  <2>10. \A d \in Callers : ChunksInOrder(d)'
    BY <2>2, <2>3 DEF ChunksInOrder, Runs, CallOf, call
  <2>11. ShutdownInOrder'
    <3>1. \A d \in submitted' : \/ \E i \in DOMAIN queue' : queue'[i] = Submitted(d)
                                \/ \E w \in Workers : task'[w] = Submitted(d)
      BY <2>3, <2>4 DEF ShutdownInOrder
    <3> QED
      BY <2>2, <2>3, <3>1 DEF ShutdownInOrder
  <2> QED
    BY <2>7, <2>8, <2>9, <2>10, <2>11
<1> QED
  BY <1>1, <1>2

\* A helper is queued.
LEMMA EnqueueInv ==
    ASSUME IndInv, NEW c \in Callers, Enqueue(c)
    PROVE  IndInv'
<1> USE DEF IndInv
<1>1. CASE UNCHANGED queue
  BY <1>1, CallerInv
<1>2. CASE ~UNCHANGED queue
  <2>1. /\ pc' = [pc EXCEPT ![c] = "notify"] /\ pc[c] = "enqueue" /\ ~stopping
        /\ queue' = Append(queue, Helper(c))
        /\ UNCHANGED <<stopping, notified, task, chunk, call, submitted>>
    BY <1>2 DEF Enqueue, Goto
  <2>2. /\ DOMAIN pc' = AllThreads /\ pc'[c] = "notify"
        /\ \A u \in AllThreads \ {c} : pc'[u] = pc[u]
    BY <2>1, Move DEF AllThreads
  <2>3. /\ \A u \in Workers \cup Submitters \cup Stoppers : pc'[u] = pc[u]
        /\ \A u \in Callers \ {c} : pc'[u] = pc[u]
    BY <2>2, Kinds DEF AllThreads
  <2>4. queue \in Seq(Tasks) /\ Helper(c) \in Tasks
    BY TaskKinds DEF HelpersCounted, TypeOK
  <2>5. /\ queue' \in Seq(Tasks) /\ Len(queue) \in Nat /\ DOMAIN queue = 1..Len(queue)
        /\ DOMAIN queue' = 1..(Len(queue) + 1)
        /\ \A i \in 1..Len(queue) : queue'[i] = queue[i]
    BY <2>1, <2>4, AppendProperties, LenProperties
  <2>6. \A d \in Callers : Working(d)' = Working(d)
    BY <2>1 DEF Working
  <2>7. ASSUME NEW d \in Callers \ {c}
        PROVE  Queued(d)' = Queued(d)
    <3>1. Helper(c) # Helper(d)
      BY TaskKinds
    <3>2. At(queue', Helper(d)) = At(queue, Helper(d))
      BY <2>1, <2>4, <3>1, AppendCounts
    <3> QED
      BY <3>2 DEF Queued, At
  <2>8. Cardinality(Queued(c)') = Cardinality(Queued(c)) + 1
    <3>1. Cardinality(At(queue', Helper(c))) = Cardinality(At(queue, Helper(c))) + 1
      BY <2>1, <2>4, AppendCounts
    <3> QED
      BY <3>1 DEF Queued, At
  <2>9. Cardinality(Queued(c)) \in Nat /\ Cardinality(Working(c)) \in Nat
    BY <2>4, HelpersFinite
  <2>10. TypeOK'
    BY <2>1, <2>2, <2>3, <2>5 DEF HelpersCounted, TypeOK, Sleeping, call, CallerPoints
  <2>11. HelpersCounted'
    <3>1. running'[c] = Cardinality(Working(c)') + Cardinality(Queued(c)')
                        + (IF pc'[c] \in {"enqueue", "uncount"} THEN 1 ELSE 0)
      BY <2>1, <2>2, <2>6, <2>8, <2>9 DEF HelpersCounted, call
    <3>2. \A d \in Callers \ {c} :
            running'[d] = Cardinality(Working(d)') + Cardinality(Queued(d)')
                          + (IF pc'[d] \in {"enqueue", "uncount"} THEN 1 ELSE 0)
      BY <2>1, <2>3, <2>6, <2>7 DEF HelpersCounted, call
    <3> QED
      BY <2>10, <3>1, <3>2 DEF HelpersCounted
  <2>12. Shapes' /\ \A w \in Workers : TaskInOrder(w)'
    BY <2>1, <2>2, <2>3 DEF Shapes, TaskInOrder, call
  <2>13. \A d \in Callers : SpawnsInOrder(d)' /\ CallInOrder(d)'
    BY <2>1, <2>2, <2>3 DEF SpawnsInOrder, CallInOrder, call
  <2>14. \A d \in Callers : ChunksInOrder(d)'
    <3>1. \A u \in Workers \cup Callers : pc'[u] = "body" <=> pc[u] = "body"
      BY <2>1, <2>2, <2>3
    <3> QED
      BY <2>1, <3>1 DEF ChunksInOrder, Runs, CallOf, call
  <2>15. ShutdownInOrder'
    <3>1. \A d \in submitted' : \/ \E i \in DOMAIN queue' : queue'[i] = Submitted(d)
                                \/ \E w \in Workers : task'[w] = Submitted(d)
      BY <2>1, <2>5 DEF ShutdownInOrder
    <3> QED
      BY <2>1, <2>3, <3>1 DEF ShutdownInOrder
  <2> QED
    BY <2>11, <2>12, <2>13, <2>14, <2>15
<1> QED
  BY <1>1, <1>2
-----------------------------------------------------------------------------
\* Who takes part in a call, and that the call is still going on.
LEMMA Participants ==
    ASSUME IndInv, NEW t \in Workers \cup Callers, pc[t] \in {"chunks", "body", "leave"}
    PROVE  /\ CallOf(t) \in Callers
           /\ t \in Callers => CallOf(t) = t
           /\ t \in Workers => task[t] = Helper(CallOf(t))
           /\ pc[CallOf(t)] \notin {"idle", "returned"}
<1>1. CASE t \in Callers
  BY <1>1, Kinds DEF CallOf
<1>2. CASE t \in Workers
  <2>1. PICK c \in Callers : task[t] = Helper(c)
    BY <1>2 DEF IndInv, TaskInOrder
  <2>2. CallOf(t) = c
    BY <1>2, <2>1, Kinds, TaskKinds DEF CallOf
  <2>3. t \in Working(c)
    BY <1>2, <2>1 DEF Working
  <2> QED
    BY <1>2, <2>1, <2>2, <2>3, NoHelpers, Kinds
<1> QED
  BY <1>1, <1>2

\* parallel_for returns, and the next call starts from a fresh Shared.
LEMMA ReturnInv ==
    ASSUME IndInv, NEW c \in Callers, ReturnFromParallelFor(c)
    PROVE  IndInv'
<1> USE DEF IndInv
<1>1. /\ pc[c] = "returned" /\ pc' = [pc EXCEPT ![c] = "idle"]
      /\ next' = [next EXCEPT ![c] = 0]
      /\ failed' = [failed EXCEPT ![c] = FALSE]
      /\ error' = [error EXCEPT ![c] = FALSE]
      /\ spawned' = [spawned EXCEPT ![c] = 0]
      /\ ran' = [ran EXCEPT ![c] = [k \in 1..Chunks |-> 0]]
      /\ UNCHANGED <<queue, stopping, notified, task, chunk, running, submitted>>
  BY DEF ReturnFromParallelFor, Goto
<1>2. /\ DOMAIN pc' = AllThreads /\ pc'[c] = "idle"
      /\ \A u \in AllThreads \ {c} : pc'[u] = pc[u]
  BY <1>1, Move DEF AllThreads
<1>3. /\ \A u \in Workers \cup Submitters \cup Stoppers : pc'[u] = pc[u]
      /\ \A u \in Callers \ {c} : pc'[u] = pc[u]
  BY <1>2, Kinds DEF AllThreads
<1>4. /\ next' \in [Callers -> Nat] /\ next'[c] = 0
      /\ DOMAIN failed' = Callers /\ DOMAIN error' = Callers
      /\ failed'[c] = FALSE /\ error'[c] = FALSE
      /\ spawned' \in [Callers -> Nat] /\ spawned'[c] = 0
      /\ DOMAIN ran' = Callers /\ ran'[c] = [k \in 1..Chunks |-> 0]
      /\ \A d \in Callers \ {c} : /\ next'[d] = next[d] /\ failed'[d] = failed[d]
                                  /\ error'[d] = error[d] /\ spawned'[d] = spawned[d]
                                  /\ ran'[d] = ran[d]
  BY <1>1 DEF Shapes
<1>5. TypeOK'
  BY <1>1, <1>2, <1>3, <1>4 DEF HelpersCounted, TypeOK, Sleeping, CallerPoints
<1>6. HelpersCounted'
  <2>1. \A d \in Callers : Working(d)' = Working(d) /\ Queued(d)' = Queued(d)
    BY <1>1 DEF Working, Queued
  <2> QED
    BY <1>1, <1>2, <1>3, <1>5, <2>1 DEF HelpersCounted
<1>7. Shapes'
  BY <1>1, <1>2, <1>4 DEF Shapes
<1>8. \A w \in Workers : TaskInOrder(w)'
  BY <1>1, <1>3 DEF TaskInOrder
<1>9. SpawnsInOrder(c)' /\ CallInOrder(c)'
  <2>1. running'[c] = 0 /\ Helpers >= 0
    <3>1. Cardinality(Workers) \in Nat
      BY ThreadPoolAssumption, FS_CardinalityType
    <3> QED
      BY <1>1, <3>1, ThreadPoolAssumption DEF SpawnsInOrder, Helpers
  <2> QED
    BY <1>2, <1>4, <2>1 DEF SpawnsInOrder, CallInOrder
<1>10. \A d \in Callers \ {c} : SpawnsInOrder(d)' /\ CallInOrder(d)'
  BY <1>1, <1>3, <1>4 DEF SpawnsInOrder, CallInOrder
<1>11. /\ \A u \in Workers \cup Callers : pc'[u] = "body" <=> pc[u] = "body"
       /\ \A u \in Workers \cup Callers : CallOf(u)' = CallOf(u)
  BY <1>1, <1>2, <1>3 DEF CallOf
<1>12. \A u \in Workers \cup Callers : pc'[u] = "body" => CallOf(u) # c
  BY <1>1, <1>11, Participants
<1>13. ChunksInOrder(c)'
  BY <1>4, <1>11, <1>12 DEF ChunksInOrder, Runs
<1>14. \A d \in Callers \ {c} : ChunksInOrder(d)'
  BY <1>1, <1>4, <1>11 DEF ChunksInOrder, Runs
<1>15. ShutdownInOrder'
  BY <1>1, <1>3 DEF ShutdownInOrder
<1> QED
  BY <1>6, <1>7, <1>8, <1>9, <1>10, <1>13, <1>14, <1>15

\* A step of a worker outside the body of a call: it takes, ends or leaves a task.
LEMMA WorkerMove ==
    ASSUME IndInv, NEW w \in Workers, NEW b \in WorkerPoints \ {"body"},
           pc[w] \notin {"body", "exited"},
           pc' = [pc EXCEPT ![w] = b],
           notified' \subseteq Sleeping',
           DOMAIN task' = Workers, \A v \in Workers \ {w} : task'[v] = task[v],
           task'[w] \in Tasks \cup {None}, TaskInOrder(w)',
           queue' \in Seq(Tasks),
           DOMAIN running' = Callers,
           \A c \in Callers :
              /\ running'[c] = Cardinality(Working(c)') + Cardinality(Queued(c)')
                               + (IF pc[c] \in {"enqueue", "uncount"} THEN 1 ELSE 0)
              /\ running'[c] \in Nat /\ running'[c] <= running[c],
           ShutdownInOrder',
           UNCHANGED <<stopping, chunk, next, failed, error, spawned, ran>>
    PROVE  IndInv'
<1> USE DEF IndInv
<1>1. /\ DOMAIN pc' = AllThreads /\ pc'[w] = b
      /\ \A u \in AllThreads \ {w} : pc'[u] = pc[u]
  BY Move DEF AllThreads
<1>2. /\ \A u \in Callers \cup Submitters \cup Stoppers : pc'[u] = pc[u]
      /\ \A u \in Workers \ {w} : pc'[u] = pc[u]
  BY <1>1, Kinds DEF AllThreads
<1>3. \A c \in Callers : running'[c] \in 0..Cardinality(Workers)
  <2>1. Cardinality(Workers) \in Nat
    BY ThreadPoolAssumption, FS_CardinalityType
  <2> QED
    BY <2>1 DEF HelpersCounted, TypeOK
<1>4. TypeOK'
  BY <1>1, <1>2, <1>3 DEF HelpersCounted, TypeOK
<1>5. HelpersCounted'
  BY <1>2, <1>4 DEF HelpersCounted
<1>6. Shapes'
  BY <1>1 DEF Shapes
<1>7. \A v \in Workers : TaskInOrder(v)'
  BY <1>2 DEF TaskInOrder
<1>8. \A c \in Callers : SpawnsInOrder(c)'
  <2> SUFFICES ASSUME NEW c \in Callers PROVE SpawnsInOrder(c)'
    OBVIOUS
  <2>1. /\ running[c] \in Nat /\ running'[c] \in Nat /\ running'[c] <= running[c]
        /\ spawned[c] \in Nat /\ spawned'[c] = spawned[c] /\ pc'[c] = pc[c]
    BY <1>2 DEF HelpersCounted, TypeOK, Shapes
  <2> QED
    BY <2>1 DEF SpawnsInOrder
<1>9. \A c \in Callers : CallInOrder(c)'
  BY <1>2 DEF CallInOrder
<1>10. /\ \A u \in Workers \cup Callers : pc'[u] = "body" <=> pc[u] = "body"
       /\ \A u \in Workers \cup Callers : pc[u] = "body" => CallOf(u)' = CallOf(u)
  BY <1>1, <1>2 DEF CallOf
<1>11. \A c \in Callers : ChunksInOrder(c)'
  BY <1>10 DEF ChunksInOrder, Runs
<1> QED
  BY <1>5, <1>6, <1>7, <1>8, <1>9, <1>11
\* The helpers at work when only the task of worker w changes.
LEMMA TaskChange ==
    ASSUME NEW w \in Workers, \A v \in Workers \ {w} : task'[v] = task[v], NEW c \in Callers
    PROVE  /\ Cardinality(Working(c)) \in Nat
           /\ task'[w] = Helper(c) /\ task[w] # Helper(c) =>
                 Cardinality(Working(c)') = Cardinality(Working(c)) + 1
           /\ task'[w] # Helper(c) /\ task[w] = Helper(c) =>
                 Cardinality(Working(c)') = Cardinality(Working(c)) - 1
           /\ (task'[w] = Helper(c) <=> task[w] = Helper(c)) => Working(c)' = Working(c)
<1>1. Working(c) \in SUBSET Workers
  BY DEF Working
<1>2. IsFiniteSet(Working(c))
  BY <1>1, FS_Subset, ThreadPoolAssumption
<1>3. Cardinality(Working(c)) \in Nat
  BY <1>2, FS_CardinalityType
<1>4. /\ w \in Working(c) <=> task[w] = Helper(c)
      /\ task'[w] = Helper(c) => Working(c)' = Working(c) \cup {w}
      /\ task'[w] # Helper(c) => Working(c)' = Working(c) \ {w}
  BY DEF Working
<1>5. /\ w \notin Working(c) => Cardinality(Working(c) \cup {w}) = Cardinality(Working(c)) + 1
      /\ w \in Working(c) => Cardinality(Working(c) \ {w}) = Cardinality(Working(c)) - 1
  BY <1>2, FS_AddElement, FS_RemoveElement
<1>6. (task'[w] = Helper(c) <=> task[w] = Helper(c)) => Working(c)' = Working(c)
  BY DEF Working
<1> QED
  BY <1>3, <1>4, <1>5, <1>6

\* Impl::work(): a task is taken, or the worker leaves or sleeps.
LEMMA TakeTaskInv ==
    ASSUME IndInv, NEW w \in Workers, TakeTask(w)
    PROVE  IndInv'
<1> USE DEF IndInv
<1>1. /\ pc[w] \in {"loop", "wait"} /\ task[w] = None
      /\ notified' = notified \ {w}
      /\ UNCHANGED <<stopping, chunk, call, submitted>>
      /\ queue \in Seq(Tasks) /\ DOMAIN task = Workers
  BY DEF TakeTask, TaskInOrder, HelpersCounted, TypeOK, Shapes
<1>2. \A b : pc' = [pc EXCEPT ![w] = b] =>
        /\ pc'[w] = b /\ \A u \in (Workers \cup Stoppers) \ {w} : pc'[u] = pc[u]
        /\ notified' \subseteq Sleeping'
  BY <1>1, Move, Kinds DEF AllThreads, HelpersCounted, TypeOK, Sleeping
<1>3. \A c \in Callers : /\ running[c] \in Nat /\ DOMAIN running = Callers
                         /\ running' = running
  BY <1>1 DEF HelpersCounted, TypeOK, Shapes, call
<1>4. CASE queue = <<>>
  <2>1. PICK b \in {"exited", "wait"} :
          /\ pc' = [pc EXCEPT ![w] = b] /\ UNCHANGED <<task, queue>>
          /\ b = "exited" => stopping
    BY <1>4 DEF TakeTask, Goto
  <2>2. TaskInOrder(w)'
    BY <1>1, <1>2, <2>1 DEF TaskInOrder
  <2>3. ShutdownInOrder'
    BY <1>1, <1>2, <1>4, <2>1, Kinds DEF ShutdownInOrder
  <2>4. \A c \in Callers : Working(c)' = Working(c) /\ Queued(c)' = Queued(c)
    BY <2>1 DEF Working, Queued
  <2>5. \A c \in Callers :
           /\ running'[c] = Cardinality(Working(c)') + Cardinality(Queued(c)')
                            + (IF pc[c] \in {"enqueue", "uncount"} THEN 1 ELSE 0)
           /\ running'[c] \in Nat /\ running'[c] <= running[c]
    BY <1>3, <2>4 DEF HelpersCounted
  <2>6. task'[w] \in Tasks \cup {None} /\ \A v \in Workers \ {w} : task'[v] = task[v]
    BY <1>1, <2>1
  <2> QED
    BY <1>1, <1>2, <1>3, <2>1, <2>2, <2>3, <2>5, <2>6, WorkerMove DEF WorkerPoints, call, Shapes,
       HelpersCounted, TypeOK
<1>5. CASE queue # <<>>
  <2>1. PICK x \in Tasks : x = Head(queue)
    BY <1>1, <1>5, HeadTailProperties, EmptySeq
  <2>2. PICK b \in {"chunks", "task"} :
          /\ pc' = [pc EXCEPT ![w] = b] /\ b = (IF x.kind = "helper" THEN "chunks" ELSE "task")
          /\ task' = [task EXCEPT ![w] = x]
          /\ queue' = Tail(queue)
    BY <1>5, <2>1 DEF TakeTask, Goto
  <2>3. /\ queue' \in Seq(Tasks) /\ Len(queue) \in Nat \ {0} /\ DOMAIN queue = 1..Len(queue)
        /\ DOMAIN queue' = 1..(Len(queue) - 1) /\ queue[1] = x
        /\ \A i \in 1..(Len(queue) - 1) : queue'[i] = queue[i + 1]
    BY <1>1, <1>5, <2>1, <2>2, HeadTailProperties, EmptySeq, LenProperties
  <2>4. /\ DOMAIN task' = Workers /\ task'[w] = x
        /\ \A v \in Workers \ {w} : task'[v] = task[v]
    BY <1>1, <2>2
  <2>5. TaskInOrder(w)'
    <3>1. CASE x \in {Helper(c) : c \in Callers}
      <4>1. b = "chunks"
        BY <2>2, <3>1, TaskKinds
      <4> QED
        BY <1>2, <2>2, <2>4, <3>1, <4>1 DEF TaskInOrder
    <3>2. CASE x \in {Submitted(c) : c \in Submitters}
      <4>1. b = "task"
        BY <2>2, <3>2, TaskKinds
      <4> QED
        BY <1>2, <2>2, <2>4, <3>2, <4>1 DEF TaskInOrder
    <3> QED
      BY <3>1, <3>2, TaskKinds
  <2>6. ASSUME NEW c \in Callers
        PROVE  /\ running'[c] = Cardinality(Working(c)') + Cardinality(Queued(c)')
                                + (IF pc[c] \in {"enqueue", "uncount"} THEN 1 ELSE 0)
               /\ running'[c] \in Nat /\ running'[c] <= running[c]
    <3>1. task[w] # Helper(c)
      BY <1>1, TaskKinds
    <3>2. /\ x = Helper(c) => Cardinality(Queued(c)') = Cardinality(Queued(c)) - 1
          /\ x # Helper(c) => Cardinality(Queued(c)') = Cardinality(Queued(c))
      <4>1. Queued(c) = At(queue, Helper(c)) /\ Queued(c)' = At(Tail(queue), Helper(c))
        BY <2>2 DEF Queued, At
      <4> QED
        BY <1>1, <1>5, <2>1, <4>1, TailCounts
    <3>3. /\ x = Helper(c) => Cardinality(Working(c)') = Cardinality(Working(c)) + 1
          /\ x # Helper(c) => Cardinality(Working(c)') = Cardinality(Working(c))
      BY <2>4, <3>1, TaskChange
    <3>4. Cardinality(Working(c)) \in Nat /\ Cardinality(Queued(c)) \in Nat
      BY <1>1, HelpersFinite
    <3> QED
      BY <1>3, <3>2, <3>3, <3>4 DEF HelpersCounted
  <2>7. ShutdownInOrder'
    <3>1. ASSUME NEW c \in submitted'
          PROVE  \/ \E i \in DOMAIN queue' : queue'[i] = Submitted(c)
                 \/ \E v \in Workers : task'[v] = Submitted(c)
      <4>1. CASE \E v \in Workers : task[v] = Submitted(c)
        <5>1. PICK v \in Workers : task[v] = Submitted(c)
          BY <4>1
        <5>2. c \in Submitters
          BY <1>1 DEF ShutdownInOrder
        <5>3. v # w
          BY <1>1, <5>1, <5>2, TaskKinds
        <5> QED
          BY <2>4, <5>1, <5>3
      <4>2. CASE \E i \in DOMAIN queue : queue[i] = Submitted(c)
        <5>1. PICK i \in DOMAIN queue : queue[i] = Submitted(c)
          BY <4>2
        <5>2. CASE i = 1
          BY <2>3, <2>4, <5>1, <5>2
        <5>3. CASE i # 1
          <6>1. i - 1 \in DOMAIN queue' /\ queue'[i - 1] = queue[i]
            BY <2>3, <5>1, <5>3
          <6> QED
            BY <5>1, <6>1
        <5> QED
          BY <5>2, <5>3
      <4> QED
        BY <1>1, <4>1, <4>2 DEF ShutdownInOrder
    <3>2. \A v \in Workers : pc[v] # "exited"
      BY <1>5 DEF ShutdownInOrder
    <3>3. \A v \in Workers : pc'[v] # "exited"
      BY <1>2, <2>2, <3>2
    <3>4. \A s \in Stoppers : pc'[s] = pc[s]
      BY <1>2, <2>2, Kinds
    <3> QED
      BY <1>1, <3>1, <3>2, <3>3, <3>4 DEF ShutdownInOrder
  <2> QED
    BY <1>1, <1>2, <1>3, <2>2, <2>3, <2>4, <2>5, <2>6, <2>7, WorkerMove DEF WorkerPoints, call, Shapes
<1> QED
  BY <1>4, <1>5

\* A submitted task has run.
LEMMA RunSubmittedInv ==
    ASSUME IndInv, NEW w \in Workers, RunSubmitted(w)
    PROVE  IndInv'
<1> USE DEF IndInv
<1>1. /\ pc[w] = "task" /\ pc' = [pc EXCEPT ![w] = "loop"]
      /\ submitted' = submitted \ {task[w].caller}
      /\ task' = [task EXCEPT ![w] = None]
      /\ UNCHANGED <<queue, stopping, notified, joining, chunk, call>>
  BY DEF RunSubmitted, Goto
<1>2. PICK c \in Submitters : task[w] = Submitted(c) /\ task[w].caller = c
  BY <1>1, TaskKinds DEF TaskInOrder
<1>3. /\ pc'[w] = "loop" /\ \A u \in (Workers \cup Stoppers) \ {w} : pc'[u] = pc[u]
      /\ notified' \subseteq Sleeping'
  BY <1>1, Move, Kinds DEF AllThreads, HelpersCounted, TypeOK, Sleeping
<1>4. /\ DOMAIN task' = Workers /\ task'[w] = None
      /\ \A v \in Workers \ {w} : task'[v] = task[v]
  BY <1>1 DEF Shapes
<1>5. ASSUME NEW d \in Callers
      PROVE  /\ running'[d] = Cardinality(Working(d)') + Cardinality(Queued(d)')
                              + (IF pc[d] \in {"enqueue", "uncount"} THEN 1 ELSE 0)
             /\ running'[d] \in Nat /\ running'[d] <= running[d]
  <2>1. task[w] # Helper(d) /\ None # Helper(d)
    BY <1>2, TaskKinds
  <2>2. Working(d)' = Working(d)
    BY <1>4, <2>1, TaskChange
  <2>3. Queued(d)' = Queued(d) /\ running'[d] = running[d] /\ running[d] \in Nat
    BY <1>1 DEF Queued, call, HelpersCounted, TypeOK
  <2> QED
    BY <2>2, <2>3 DEF HelpersCounted
<1>6. TaskInOrder(w)'
  BY <1>3, <1>4 DEF TaskInOrder
<1>7. ShutdownInOrder'
  <2>1. ASSUME NEW d \in submitted'
        PROVE  \/ \E i \in DOMAIN queue' : queue'[i] = Submitted(d)
               \/ \E v \in Workers : task'[v] = Submitted(d)
    <3>1. d \in submitted /\ d # c
      BY <1>1, <1>2
    <3>2. Submitted(d) # Submitted(c)
      BY <3>1 DEF Submitted
    <3> QED
      BY <1>1, <1>2, <1>4, <3>1, <3>2 DEF ShutdownInOrder
  <2>2. \A s \in Stoppers : pc'[s] = pc[s]
    BY <1>3, Kinds
  <2> QED
    BY <1>1, <1>3, <2>1, <2>2 DEF ShutdownInOrder
<1> QED
  BY <1>1, <1>3, <1>4, <1>5, <1>6, <1>7, WorkerMove DEF WorkerPoints, call, Shapes, HelpersCounted,
     TypeOK
\* A helper leaves its call.
LEMMA LeaveHelperInv ==
    ASSUME IndInv, NEW w \in Workers, LeaveHelper(w)
    PROVE  IndInv'
<1> USE DEF IndInv
<1>1. /\ pc[w] = "leave" /\ pc' = [pc EXCEPT ![w] = "loop"]
      /\ running' = [running EXCEPT ![task[w].caller] = @ - 1]
      /\ task' = [task EXCEPT ![w] = None]
      /\ UNCHANGED <<queue, stopping, notified, chunk, next, failed, error, spawned, ran,
                     submitted>>
  BY DEF LeaveHelper, Goto
<1>2. PICK c \in Callers : task[w] = Helper(c) /\ task[w].caller = c
  BY <1>1, TaskKinds DEF TaskInOrder
<1>3. /\ pc'[w] = "loop" /\ \A u \in (Workers \cup Stoppers) \ {w} : pc'[u] = pc[u]
      /\ notified' \subseteq Sleeping'
  BY <1>1, Move, Kinds DEF AllThreads, HelpersCounted, TypeOK, Sleeping
<1>4. /\ DOMAIN task' = Workers /\ task'[w] = None
      /\ \A v \in Workers \ {w} : task'[v] = task[v]
  BY <1>1 DEF Shapes
<1>5. /\ DOMAIN running' = Callers /\ running'[c] = running[c] - 1
      /\ \A d \in Callers \ {c} : running'[d] = running[d]
  BY <1>1, <1>2 DEF Shapes
<1>6. ASSUME NEW d \in Callers
      PROVE  /\ running'[d] = Cardinality(Working(d)') + Cardinality(Queued(d)')
                              + (IF pc[d] \in {"enqueue", "uncount"} THEN 1 ELSE 0)
             /\ running'[d] \in Nat /\ running'[d] <= running[d]
  <2>1. /\ None # Helper(d)
        /\ task[w] = Helper(d) <=> d = c
    BY <1>2, TaskKinds
  <2>2. /\ d = c => Cardinality(Working(d)') = Cardinality(Working(d)) - 1
        /\ d # c => Working(d)' = Working(d)
    BY <1>4, <2>1, TaskChange
  <2>3. Queued(d)' = Queued(d) /\ running[d] \in Nat
    BY <1>1 DEF Queued, HelpersCounted, TypeOK
  <2>4. Cardinality(Working(d)) \in Nat /\ Cardinality(Queued(d)) \in Nat
    BY HelpersFinite DEF HelpersCounted, TypeOK
  <2>5. d = c => Cardinality(Working(d)) # 0
    <3>1. d = c => w \in Working(d)
      BY <2>1 DEF Working
    <3>2. IsFiniteSet(Working(d))
      BY HelpersFinite DEF HelpersCounted, TypeOK
    <3> QED
      BY <3>1, <3>2, FS_EmptySet
  <2>6. running[d] = Cardinality(Working(d)) + Cardinality(Queued(d))
                     + (IF pc[d] \in {"enqueue", "uncount"} THEN 1 ELSE 0)
    BY DEF HelpersCounted
  <2>7. CASE d = c
    BY <1>5, <2>2, <2>3, <2>4, <2>5, <2>6, <2>7
  <2>8. CASE d # c
    BY <1>5, <2>2, <2>3, <2>4, <2>6, <2>8
  <2> QED
    BY <2>7, <2>8
<1>7. TaskInOrder(w)'
  BY <1>3, <1>4 DEF TaskInOrder
<1>8. ShutdownInOrder'
  <2>1. ASSUME NEW d \in submitted'
        PROVE  \/ \E i \in DOMAIN queue' : queue'[i] = Submitted(d)
               \/ \E v \in Workers : task'[v] = Submitted(d)
    <3>1. d \in submitted /\ d \in Submitters
      BY <1>1 DEF ShutdownInOrder
    <3>2. task[w] # Submitted(d)
      BY <1>2, <3>1, TaskKinds
    <3> QED
      BY <1>1, <1>4, <3>1, <3>2 DEF ShutdownInOrder
  <2>2. \A s \in Stoppers : pc'[s] = pc[s]
    BY <1>3, Kinds
  <2> QED
    BY <1>1, <1>3, <2>1, <2>2 DEF ShutdownInOrder
<1> QED
  BY <1>1, <1>3, <1>4, <1>5, <1>6, <1>7, <1>8, WorkerMove DEF WorkerPoints, HelpersCounted, TypeOK
-----------------------------------------------------------------------------
\* A step of a participant t in the chunks of its call c.
LEMMA ChunkStep ==
    ASSUME IndInv, NEW t \in Workers \cup Callers, pc[t] \in {"chunks", "body"},
           NEW c, c = CallOf(t),
           NEW b \in {"chunks", "body", IF t \in Callers THEN "wait_helpers" ELSE "leave"},
           pc' = [pc EXCEPT ![t] = b],
           UNCHANGED <<queue, stopping, notified, task, running, spawned, submitted>>,
           Shapes',
           \A d \in Callers \ {c} : /\ next'[d] = next[d] /\ ran'[d] = ran[d]
                                    /\ failed'[d] = failed[d] /\ error'[d] = error[d],
           \A u \in (Workers \cup Callers) \ {t} : chunk'[u] = chunk[u],
           ChunksInOrder(c)', failed'[c] => error'[c],
           pc'[c] = "wait_helpers" => error'[c] \/ next'[c] >= Chunks
    PROVE  IndInv'
<1> USE DEF IndInv
<1>1. /\ DOMAIN pc' = AllThreads /\ pc'[t] = b
      /\ \A u \in AllThreads \ {t} : pc'[u] = pc[u]
  BY Move DEF AllThreads
<1>2. /\ \A u \in Submitters \cup Stoppers : pc'[u] = pc[u]
      /\ \A u \in (Workers \cup Callers) \ {t} : pc'[u] = pc[u]
  BY <1>1, Kinds DEF AllThreads
<1>3. /\ c \in Callers /\ pc[c] \notin {"idle", "returned"}
      /\ t \in Callers => t = c /\ t \notin Workers
  BY Participants, Kinds
<1>4. Sleeping' = Sleeping
  BY <1>1, <1>2 DEF Sleeping
<1>5. TypeOK'
  <2>1. pc'[t] \in (IF t \in Callers THEN CallerPoints ELSE WorkerPoints)
    BY <1>1 DEF CallerPoints, WorkerPoints
  <2>2. /\ \A w \in Workers : pc'[w] \in WorkerPoints
        /\ \A d \in Callers : pc'[d] \in CallerPoints
    BY <1>2, <2>1, Kinds DEF HelpersCounted, TypeOK
  <2> QED
    BY <1>2, <1>4, <2>2 DEF HelpersCounted, TypeOK, Shapes
<1>6. HelpersCounted'
  <2>1. \A d \in Callers : pc'[d] \in {"enqueue", "uncount"} <=> pc[d] \in {"enqueue", "uncount"}
    BY <1>1, <1>2
  <2>2. \A d \in Callers : Working(d)' = Working(d) /\ Queued(d)' = Queued(d)
    BY DEF Working, Queued
  <2> QED
    BY <1>5, <2>1, <2>2 DEF HelpersCounted
<1>7. \A w \in Workers : TaskInOrder(w)'
  BY <1>1, <1>2, Kinds DEF TaskInOrder
<1>8. \A d \in Callers : SpawnsInOrder(d)'
  <2>1. \A d \in Callers \ {t} : pc'[d] = pc[d]
    BY <1>2
  <2> QED
    BY <1>1, <2>1 DEF SpawnsInOrder
<1>9. \A d \in Callers : CallInOrder(d)'
  <2>1. CallInOrder(c)'
    <3>1. pc'[c] \notin {"idle", "returned"}
      BY <1>1, <1>2, <1>3
    <3> QED
      BY <3>1 DEF CallInOrder
  <2>2. \A d \in Callers \ {c} : pc'[d] = pc[d]
    BY <1>2, <1>3
  <2> QED
    BY <2>1, <2>2 DEF CallInOrder
<1>10. ASSUME NEW d \in Callers PROVE ChunksInOrder(d)'
  <2>1. CASE d = c
    BY <2>1
  <2>2. CASE d # c
    <3>1. \A u \in Workers \cup Callers : CallOf(u)' = CallOf(u)
      BY DEF CallOf
    <3>2. \A u \in (Workers \cup Callers) \ {t} : pc'[u] = pc[u] /\ chunk'[u] = chunk[u]
      BY <1>2
    <3>3. CallOf(t)' # d /\ CallOf(t) # d
      BY <2>2, <3>1
    <3>4. next'[d] = next[d] /\ ran'[d] = ran[d]
      BY <2>2
    <3> QED
      BY <3>1, <3>2, <3>3, <3>4 DEF ChunksInOrder, Runs
  <2> QED
    BY <2>1, <2>2
<1>11. ShutdownInOrder'
  <2>1. \A w \in Workers : pc'[w] = "exited" <=> pc[w] = "exited"
    BY <1>1, <1>2
  <2> QED
    BY <1>2, <2>1 DEF ShutdownInOrder
<1> QED
  BY <1>6, <1>7, <1>8, <1>9, <1>10, <1>11
\* A participant claims the next chunk, or finds that there is nothing left to do.
LEMMA ClaimChunkInv ==
    ASSUME IndInv, NEW t \in Workers \cup Callers, ClaimChunk(t)
    PROVE  IndInv'
<1> USE DEF IndInv
<1>1. PICK c : c = CallOf(t)
  OBVIOUS
<1>2. /\ pc[t] = "chunks"
      /\ UNCHANGED <<queue, stopping, notified, task, failed, error, running, spawned, ran,
                     submitted>>
  BY DEF ClaimChunk
<1>3. /\ c \in Callers /\ next[c] \in Nat /\ next \in [Callers -> Nat]
      /\ chunk \in [Workers \cup Callers -> Nat] /\ t \in AllThreads
      /\ \A d \in Callers : ran[d] \in [1..Chunks -> Nat]
      /\ ChunksInOrder(c) /\ CallInOrder(c)
  BY <1>1, <1>2, Participants DEF Shapes, AllThreads
<1>4. \A u \in Workers \cup Callers : CallOf(u)' = CallOf(u)
  BY <1>2 DEF CallOf
<1>5. \A b : pc' = [pc EXCEPT ![t] = b] =>
        /\ DOMAIN pc' = AllThreads /\ pc'[t] = b
        /\ \A u \in (Workers \cup Callers) \ {t} : pc'[u] = pc[u]
  BY <1>3, Move DEF AllThreads
<1> DEFINE Out == IF t \in Callers THEN "wait_helpers" ELSE "leave"
<1>6. CASE /\ next' = [next EXCEPT ![c] = @ + 1] /\ next[c] < Chunks
           /\ chunk' = [chunk EXCEPT ![t] = next[c] + 1]
           /\ pc' = [pc EXCEPT ![t] = "body"]
  <2>1. /\ next'[c] = next[c] + 1 /\ chunk'[t] = next[c] + 1
        /\ \A d \in Callers \ {c} : next'[d] = next[d]
        /\ \A u \in (Workers \cup Callers) \ {t} : chunk'[u] = chunk[u]
        /\ next' \in [Callers -> Nat] /\ chunk' \in [Workers \cup Callers -> Nat]
    BY <1>3, <1>6
  <2>2. /\ pc'[t] = "body" /\ DOMAIN pc' = AllThreads
        /\ \A u \in (Workers \cup Callers) \ {t} : pc'[u] = pc[u]
    BY <1>5, <1>6
  <2>3. Shapes'
    BY <1>2, <2>1, <2>2 DEF Shapes
  <2>4. ChunksInOrder(c)'
    <3>1. next[c] + 1 \in 1..Chunks
      BY <1>3, <1>6, ThreadPoolAssumption
    <3>2. ASSUME NEW u \in Workers \cup Callers, pc'[u] = "body", CallOf(u)' = c
          PROVE  chunk'[u] \in 1..Chunks /\ chunk'[u] <= next'[c] /\ ran'[c][chunk'[u]] = 0
      <4>1. CASE u = t
        BY <1>2, <1>3, <2>1, <3>1, <4>1 DEF ChunksInOrder
      <4>2. CASE u # t
        <5>1. chunk[u] \in 1..Chunks /\ chunk[u] <= next[c] /\ ran[c][chunk[u]] = 0
          BY <1>3, <1>4, <2>2, <3>2, <4>2 DEF ChunksInOrder
        <5> QED
          BY <1>2, <1>3, <2>1, <4>2, <5>1
      <4> QED
        BY <4>1, <4>2
    <3>3. ASSUME NEW u \in Workers \cup Callers, NEW v \in Workers \cup Callers,
                 NEW k \in 1..Chunks, Runs(u, c, k)', Runs(v, c, k)'
          PROVE  u = v
      <4>1. \A x \in Workers \cup Callers : x # t /\ Runs(x, c, k)' => k <= next[c]
        <5>1. ASSUME NEW x \in Workers \cup Callers, x # t, Runs(x, c, k)'
              PROVE  k <= next[c]
          <6>1. pc[x] = "body" /\ CallOf(x) = c /\ chunk[x] = k
            BY <1>4, <2>1, <2>2, <5>1 DEF Runs
          <6> QED
            BY <1>3, <6>1 DEF ChunksInOrder
        <5> QED
          BY <5>1
      <4>2. \A x \in Workers \cup Callers : x = t /\ Runs(x, c, k)' => k = next[c] + 1
        BY <2>1 DEF Runs
      <4>3. CASE u # t /\ v # t
        <5>1. Runs(u, c, k) /\ Runs(v, c, k)
          BY <1>4, <2>1, <2>2, <3>3, <4>3 DEF Runs
        <5> QED
          BY <1>3, <5>1 DEF ChunksInOrder
      <4> QED
        BY <1>3, <3>3, <4>1, <4>2, <4>3
    <3>4. ASSUME NEW k \in 1..Chunks
          PROVE  /\ k > next'[c] => ran'[c][k] = 0
                 /\ k <= next'[c] => \/ ran'[c][k] = 1
                                     \/ \E u \in Workers \cup Callers : Runs(u, c, k)'
                 /\ ran'[c][k] <= 1
      <4>1. ran'[c][k] <= 1 /\ (k > next'[c] => ran'[c][k] = 0)
        <5>1. k > next'[c] => k > next[c]
          BY <1>3, <2>1
        <5> QED
          BY <1>2, <1>3, <5>1 DEF ChunksInOrder
      <4>2. k = next[c] + 1 => Runs(t, c, k)'
        BY <1>1, <1>4, <2>1, <2>2 DEF Runs
      <4>3. \A u \in Workers \cup Callers : Runs(u, c, k) => Runs(u, c, k)'
        BY <1>2, <1>4, <2>1, <2>2 DEF Runs
      <4>4. k <= next[c] => \/ ran'[c][k] = 1
                            \/ \E u \in Workers \cup Callers : Runs(u, c, k)'
        BY <1>2, <1>3, <4>3 DEF ChunksInOrder
      <4>5. QED
        <5>1. k <= next'[c] => k = next[c] + 1 \/ k <= next[c]
          BY <1>3, <2>1
        <5> QED
          BY <4>1, <4>2, <4>4, <5>1
    <3> QED
      BY <3>2, <3>3, <3>4 DEF ChunksInOrder
  <2>5. /\ failed'[c] => error'[c]
        /\ pc'[c] = "wait_helpers" => error'[c] \/ next'[c] >= Chunks
    <3>1. pc'[c] = "wait_helpers" => pc[c] = "wait_helpers"
      BY <1>3, <2>2
    <3> QED
      BY <1>2, <1>3, <2>1, <3>1, ThreadPoolAssumption DEF CallInOrder
  <2> QED
    BY <1>1, <1>2, <1>6, <2>1, <2>3, <2>4, <2>5, ChunkStep
<1>7. CASE /\ pc' = [pc EXCEPT ![t] = Out] /\ UNCHANGED chunk
           /\ \/ next' = [next EXCEPT ![c] = @ + 1] /\ next[c] >= Chunks
              \/ UNCHANGED next /\ failed[c]
  <2>1. /\ \A d \in Callers \ {c} : next'[d] = next[d]
        /\ next' \in [Callers -> Nat] /\ next'[c] >= next[c]
        /\ next[c] >= Chunks \/ failed[c]
        /\ next[c] < Chunks => next'[c] = next[c]
    <3>1. CASE next' = [next EXCEPT ![c] = @ + 1] /\ next[c] >= Chunks
      BY <1>3, <3>1, ThreadPoolAssumption
    <3>2. CASE UNCHANGED next /\ failed[c]
      BY <1>3, <3>2
    <3> QED
      BY <1>7, <3>1, <3>2
  <2>2. /\ pc'[t] = Out /\ DOMAIN pc' = AllThreads
        /\ \A u \in (Workers \cup Callers) \ {t} : pc'[u] = pc[u]
    BY <1>5, <1>7
  <2>3. Shapes'
    BY <1>2, <1>7, <2>1, <2>2 DEF Shapes
  <2>4. \A u \in Workers \cup Callers : pc'[u] = "body" <=> pc[u] = "body"
    BY <1>2, <2>2
  <2>5. \A k : \A u \in Workers \cup Callers : Runs(u, c, k)' <=> Runs(u, c, k)
    BY <1>4, <1>7, <2>4 DEF Runs
  <2>6. ChunksInOrder(c)'
    <3>1. \A k \in 1..Chunks : k <= next'[c] => k <= next[c]
      BY <1>3, <2>1, ThreadPoolAssumption
    <3>2. \A k \in 1..Chunks : k > next'[c] => k > next[c]
      BY <1>3, <2>1, ThreadPoolAssumption
    <3>3. \A k \in Nat : k <= next[c] => k <= next'[c]
      BY <1>3, <2>1
    <3>4. \A u \in Workers \cup Callers : pc'[u] = "body" /\ CallOf(u)' = c =>
            chunk'[u] \in 1..Chunks /\ chunk'[u] <= next'[c] /\ ran'[c][chunk'[u]] = 0
      BY <1>2, <1>3, <1>4, <1>7, <2>4, <3>3 DEF ChunksInOrder
    <3> QED
      BY <1>2, <1>3, <2>5, <3>1, <3>2, <3>4 DEF ChunksInOrder
  <2>7. /\ failed'[c] => error'[c]
        /\ error'[c] \/ next'[c] >= Chunks
    <3>1. next[c] >= Chunks => next'[c] >= Chunks
      BY <1>3, <2>1, ThreadPoolAssumption
    <3> QED
      BY <1>2, <1>3, <2>1, <3>1 DEF CallInOrder
  <2> QED
    BY <1>1, <1>2, <1>7, <2>1, <2>3, <2>6, <2>7, ChunkStep
<1> QED
  BY <1>1, <1>3, <1>6, <1>7, ThreadPoolAssumption DEF ClaimChunk, Goto, LeaveChunks
\* The body of a chunk has returned or thrown.
LEMMA RunBodyInv ==
    ASSUME IndInv, NEW t \in Workers \cup Callers, RunBody(t)
    PROVE  IndInv'
<1> USE DEF IndInv
<1>1. PICK c : c = CallOf(t)
  OBVIOUS
<1>2. PICK j : j = chunk[t]
  OBVIOUS
<1>3. /\ pc[t] = "body"
      /\ ran' = [ran EXCEPT ![c][j] = @ + 1]
      /\ chunk' = [chunk EXCEPT ![t] = 0]
      /\ UNCHANGED <<queue, stopping, notified, task, next, running, spawned, submitted>>
  BY <1>1, <1>2 DEF RunBody
<1>4. /\ c \in Callers /\ next[c] \in Nat /\ DOMAIN ran = Callers /\ t \in AllThreads
      /\ DOMAIN failed = Callers /\ DOMAIN error = Callers
      /\ chunk \in [Workers \cup Callers -> Nat]
      /\ \A d \in Callers : ran[d] \in [1..Chunks -> Nat]
      /\ ChunksInOrder(c) /\ CallInOrder(c)
  BY <1>1, <1>3, Participants DEF Shapes, AllThreads
<1>5. j \in 1..Chunks /\ j <= next[c] /\ ran[c][j] = 0
  BY <1>1, <1>2, <1>3, <1>4 DEF ChunksInOrder
<1>6. /\ DOMAIN ran' = Callers /\ ran'[c] = [ran[c] EXCEPT ![j] = @ + 1]
      /\ \A d \in Callers \ {c} : ran'[d] = ran[d]
  BY <1>3, <1>4
<1>7. /\ ran'[c] \in [1..Chunks -> Nat] /\ ran'[c][j] = 1
      /\ \A k \in (1..Chunks) \ {j} : ran'[c][k] = ran[c][k]
  <2>1. PICK old \in [1..Chunks -> Nat] : old = ran[c]
    BY <1>4
  <2>2. ran'[c] = [old EXCEPT ![j] = old[j] + 1] /\ old[j] = 0
    BY <1>5, <1>6, <2>1
  <2>3. [old EXCEPT ![j] = 1] \in [1..Chunks -> Nat]
    BY <1>5, <2>1
  <2>4. ran'[c] = [old EXCEPT ![j] = 1]
    BY <2>2
  <2> QED
    BY <1>5, <2>1, <2>3, <2>4
<1>8. PICK b \in {"chunks", IF t \in Callers THEN "wait_helpers" ELSE "leave"} :
        /\ pc' = [pc EXCEPT ![t] = b]
        /\ \/ b = "chunks" /\ UNCHANGED <<failed, error>>
           \/ /\ failed' = [failed EXCEPT ![c] = TRUE]
              /\ error' = [error EXCEPT ![c] = TRUE]
  BY <1>1 DEF RunBody, Goto, LeaveChunks
<1>9. /\ DOMAIN pc' = AllThreads /\ pc'[t] = b
      /\ \A u \in (Workers \cup Callers) \ {t} : pc'[u] = pc[u]
  BY <1>4, <1>8, Move DEF AllThreads
<1>10. /\ DOMAIN failed' = Callers /\ DOMAIN error' = Callers
       /\ \A d \in Callers \ {c} : failed'[d] = failed[d] /\ error'[d] = error[d]
       /\ failed'[c] => error'[c]
       /\ error[c] => error'[c]
       /\ b = "chunks" \/ error'[c]
  <2>1. CASE b = "chunks" /\ UNCHANGED <<failed, error>>
    BY <1>4, <2>1 DEF CallInOrder
  <2>2. CASE failed' = [failed EXCEPT ![c] = TRUE] /\ error' = [error EXCEPT ![c] = TRUE]
    BY <1>4, <2>2
  <2> QED
    BY <1>8, <2>1, <2>2
<1>11. /\ chunk' \in [Workers \cup Callers -> Nat]
       /\ \A u \in (Workers \cup Callers) \ {t} : chunk'[u] = chunk[u]
  BY <1>3, <1>4
<1>12. Shapes'
  BY <1>3, <1>6, <1>7, <1>9, <1>10, <1>11 DEF Shapes
<1>13. \A u \in Workers \cup Callers, k \in Nat : Runs(u, c, k)' <=> Runs(u, c, k) /\ u # t
  <2>1. \A u \in Workers \cup Callers : CallOf(u)' = CallOf(u)
    BY <1>3 DEF CallOf
  <2>2. pc'[t] # "body"
    BY <1>9
  <2> QED
    BY <1>9, <1>11, <2>1, <2>2 DEF Runs
<1>14. ChunksInOrder(c)'
  <2>1. ASSUME NEW u \in Workers \cup Callers, pc'[u] = "body", CallOf(u)' = c
        PROVE  chunk'[u] \in 1..Chunks /\ chunk'[u] <= next'[c] /\ ran'[c][chunk'[u]] = 0
    <3>1. u # t
      BY <1>9, <2>1
    <3>2. pc[u] = "body" /\ CallOf(u) = c /\ chunk'[u] = chunk[u]
      BY <1>3, <1>9, <1>11, <2>1, <3>1 DEF CallOf
    <3>3. chunk[u] \in 1..Chunks /\ chunk[u] <= next[c] /\ ran[c][chunk[u]] = 0
      BY <1>4, <3>2 DEF ChunksInOrder
    <3>4. chunk[u] # j
      <4>1. Runs(t, c, j)
        BY <1>1, <1>2, <1>3 DEF Runs
      <4> QED
        BY <1>4, <1>5, <3>1, <3>2, <4>1 DEF ChunksInOrder, Runs
    <3> QED
      BY <1>3, <1>7, <3>2, <3>3, <3>4
  <2>2. \A u, v \in Workers \cup Callers, k \in 1..Chunks :
          Runs(u, c, k)' /\ Runs(v, c, k)' => u = v
    BY <1>4, <1>13 DEF ChunksInOrder
  <2>3. ASSUME NEW k \in 1..Chunks
        PROVE  /\ k > next'[c] => ran'[c][k] = 0
               /\ k <= next'[c] => \/ ran'[c][k] = 1
                                   \/ \E u \in Workers \cup Callers : Runs(u, c, k)'
               /\ ran'[c][k] <= 1
    <3>1. CASE k = j
      BY <1>3, <1>4, <1>5, <1>7, <3>1
    <3>2. CASE k # j
      <4>1. ran'[c][k] = ran[c][k] /\ ~Runs(t, c, k)
        BY <1>2, <1>7, <3>2 DEF Runs
      <4>2. \A u \in Workers \cup Callers : Runs(u, c, k) => Runs(u, c, k)'
        BY <1>13, <4>1
      <4> QED
        BY <1>3, <1>4, <4>1, <4>2 DEF ChunksInOrder
    <3> QED
      BY <3>1, <3>2
  <2> QED
    BY <2>1, <2>2, <2>3 DEF ChunksInOrder
<1>15. pc'[c] = "wait_helpers" => error'[c] \/ next'[c] >= Chunks
  <2>1. CASE t = c
    BY <1>9, <1>10, <2>1
  <2>2. CASE t # c
    BY <1>3, <1>4, <1>9, <1>10, <2>2 DEF CallInOrder
  <2> QED
    BY <2>1, <2>2
<1>16. b \in {"chunks", "body", IF t \in Callers THEN "wait_helpers" ELSE "leave"}
  BY <1>8
<1>17. \A d \in Callers \ {c} : /\ next'[d] = next[d] /\ ran'[d] = ran[d]
                                /\ failed'[d] = failed[d] /\ error'[d] = error[d]
  BY <1>3, <1>6, <1>10
<1>18. pc' = [pc EXCEPT ![t] = b] /\ (failed'[c] => error'[c])
  BY <1>8, <1>10
<1> HIDE DEF IndInv
<1> QED
  BY <1>1, <1>3, <1>11, <1>12, <1>14, <1>15, <1>16, <1>17, <1>18, ChunkStep
-----------------------------------------------------------------------------
\* The invariant holds at the start.
LEMMA InitInv == Init => IndInv
<1> SUFFICES ASSUME Init PROVE IndInv
  OBVIOUS
<1>1. /\ \A w \in Workers : pc[w] = "loop" /\ task[w] = None
      /\ \A t \in Callers \cup Submitters \cup Stoppers : pc[t] = "idle"
  BY Kinds DEF Init
<1>2. Cardinality(Workers) \in Nat /\ Cardinality(Workers) # 0
  BY ThreadPoolAssumption, FS_CardinalityType, FS_EmptySet
<1>3. TypeOK
  <2>1. queue \in Seq(Tasks) /\ notified \subseteq Sleeping
    BY DEF Init
  <2>2. \A c \in Callers : next[c] = 0 /\ running[c] = 0
    BY DEF Init
  <2> QED
    BY <1>1, <1>2, <2>1, <2>2 DEF TypeOK, WorkerPoints, CallerPoints, StopperPoints
<1>4. \A c \in Callers : Working(c) = {} /\ Queued(c) = {}
  BY <1>1, TaskKinds DEF Init, Working, Queued
<1>5. HelpersCounted
  <2>1. \A c \in Callers : running[c] = 0
    BY DEF Init
  <2> QED
    BY <1>1, <1>3, <1>4, <2>1, FS_EmptySet DEF HelpersCounted
<1>6. Shapes
  BY ThreadPoolAssumption DEF Init, Shapes, AllThreads
<1>7. \A w \in Workers : TaskInOrder(w)
  BY <1>1 DEF TaskInOrder
<1>8. \A c \in Callers : SpawnsInOrder(c) /\ CallInOrder(c)
  BY <1>1, <1>2, ThreadPoolAssumption DEF Init, SpawnsInOrder, CallInOrder, Helpers
<1>9. \A c \in Callers : ChunksInOrder(c)
  BY <1>1 DEF Init, ChunksInOrder, Runs
<1>10. ShutdownInOrder
  BY <1>1 DEF Init, ShutdownInOrder
<1> QED
  BY <1>5, <1>6, <1>7, <1>8, <1>9, <1>10 DEF IndInv

\* Every step preserves the invariant.
LEMMA Inductive == IndInv /\ [Next]_vars => IndInv'
<1> SUFFICES ASSUME IndInv, [Next]_vars PROVE IndInv'
  OBVIOUS
<1>1. CASE UNCHANGED vars
  <2> USE <1>1 DEF IndInv, vars, call
  <2>1. HelpersCounted' /\ Shapes' /\ ShutdownInOrder'
    BY DEF HelpersCounted, TypeOK, Sleeping, Working, Queued, Shapes, ShutdownInOrder
  <2>2. \A w \in Workers : TaskInOrder(w)'
    BY DEF TaskInOrder
  <2>3. \A c \in Callers : SpawnsInOrder(c)' /\ CallInOrder(c)'
    BY DEF SpawnsInOrder, CallInOrder
  <2>4. \A c \in Callers : ChunksInOrder(c)'
    BY DEF ChunksInOrder, Runs, CallOf
  <2> QED
    BY <2>1, <2>2, <2>3, <2>4
<1>2. ASSUME NEW w \in Workers, WorkerStep(w) \/ SpuriousWakeup(w) PROVE IndInv'
  BY <1>2, TakeTaskInv, RunSubmittedInv, ClaimChunkInv, RunBodyInv, LeaveHelperInv, SpuriousInv
     DEF WorkerStep
<1>3. ASSUME NEW c \in Callers, ParallelFor(c) \/ CallerStep(c) PROVE IndInv'
  BY <1>3, CallerInv, EnqueueInv, ClaimChunkInv, RunBodyInv, ReturnInv DEF CallerStep
<1>4. CASE Next
  BY <1>2, <1>3, <1>4, SubmitterInv, StopperInv DEF Next
<1> QED
  BY <1>1, <1>4

\* The invariant holds in every reachable state.
LEMMA Invariant == Spec => []IndInv
  BY InitInv, Inductive, PTL DEF Spec

\* running_helpers is the number of helpers queued, running or about to be queued,
\* through refused enqueues, failing bodies and shutdown.
THEOREM HelpersSafe == Spec => []HelpersCounted
<1>1. IndInv => HelpersCounted
  BY DEF IndInv
<1> QED
  BY <1>1, Invariant, PTL

\* When parallel_for returns, no worker can still reach the caller's stack through
\* a helper, queued or running.
THEOREM CallsSafe == Spec => []NoHelperOutlivesCall
<1>1. IndInv => NoHelperOutlivesCall
  BY NoHelpers DEF NoHelperOutlivesCall
<1> QED
  BY <1>1, Invariant, PTL

\* parallel_for runs no chunk twice, and every chunk when it returns without an
\* error, whoever claims them and however many helpers it got.
THEOREM ChunksSafe == Spec => []ChunksCovered
<1>1. IndInv => ChunksCovered
  <2> SUFFICES ASSUME IndInv, NEW c \in Callers
               PROVE  /\ \A k \in 1..Chunks : ran[c][k] <= 1
                      /\ pc[c] = "returned" /\ ~error[c] => \A k \in 1..Chunks : ran[c][k] = 1
    BY DEF ChunksCovered
  <2>1. \A k \in 1..Chunks : ran[c][k] <= 1
    BY DEF IndInv, ChunksInOrder
  <2>2. ASSUME pc[c] = "returned", ~error[c], NEW k \in 1..Chunks
        PROVE  ran[c][k] = 1
    <3>1. next[c] \in Nat /\ k <= next[c]
      BY <2>2, ThreadPoolAssumption DEF IndInv, CallInOrder, Shapes
    <3>2. \A t \in Workers \cup Callers : ~Runs(t, c, k)
      BY <2>2, Participants DEF Runs
    <3> QED
      BY <3>1, <3>2 DEF IndInv, ChunksInOrder
  <2> QED
    BY <2>1, <2>2
<1> QED
  BY <1>1, Invariant, PTL

\* When shutdown() has returned, every task that was accepted has run and no worker
\* is left.
THEOREM ShutdownSafe == Spec => []DrainedWhenStopped
<1>1. IndInv => DrainedWhenStopped
  <2> SUFFICES ASSUME IndInv, NEW s \in Stoppers, pc[s] = "stopped"
               PROVE  queue = <<>> /\ submitted = {} /\ \A w \in Workers : pc[w] = "exited"
    BY DEF DrainedWhenStopped
  <2>1. \A w \in Workers : pc[w] = "exited" /\ task[w] = None
    BY DEF IndInv, ShutdownInOrder, TaskInOrder
  <2>2. queue = <<>>
    BY <2>1, ThreadPoolAssumption DEF IndInv, ShutdownInOrder
  <2>3. \A c \in Submitters : Submitted(c) # None
    BY TaskKinds
  <2>4. submitted = {}
    BY <2>1, <2>2, <2>3 DEF IndInv, ShutdownInOrder
  <2> QED
    BY <2>1, <2>2, <2>4
<1> QED
  BY <1>1, Invariant, PTL
=============================================================================

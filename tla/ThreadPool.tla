----------------------------- MODULE ThreadPool -----------------------------
(***************************************************************************)
(* src/concurrency/thread_pool.cpp: the worker loop, enqueue(), shutdown() *)
(* and run_ranges() (parallel_for) of the ThreadPool, called by threads    *)
(* outside the pool.  A parallel_for of one chunk, or one called from a    *)
(* worker, runs its body inline and touches nothing modelled here.         *)
(*                                                                         *)
(* A section under `mutex` or under a call's Shared::mutex is one step.    *)
(* The relaxed load of Shared::failed may return an old value, so a        *)
(* participant may still claim a chunk after another one has failed.       *)
(***************************************************************************)
EXTENDS Naturals, Sequences, FiniteSets

CONSTANTS
    Workers,    \* the threads of the pool
    Callers,    \* threads that call parallel_for
    Submitters, \* threads that call submit
    Stoppers,   \* threads that call shutdown
    Chunks,     \* chunks of every parallel_for, at least 2
    None

ASSUME ThreadPoolAssumption ==
    /\ IsFiniteSet(Workers) /\ Workers # {}
    /\ Chunks \in Nat /\ Chunks >= 2
    /\ Workers \cap (Callers \cup Submitters \cup Stoppers) = {}
    /\ Callers \cap (Submitters \cup Stoppers) = {} /\ Submitters \cap Stoppers = {}
    /\ None \notin Workers \cup Callers \cup Submitters \cup Stoppers

VARIABLES
    pc,          \* where each thread is
    queue,       \* queued tasks: helpers of a parallel_for, submitted tasks
    stopping,
    notified,    \* workers woken in wake.wait() that have not run yet
    joining,     \* the stopper that holds join_mutex, or None
    task,        \* the task a worker is running
    chunk,       \* the chunk a participant has claimed
    next,        \* Shared::next of each caller's call
    failed,      \* Shared::failed
    error,       \* Shared::error is set
    running,     \* Shared::running_helpers
    spawned,     \* the h of the loop that queues the helpers
    ran,         \* history: how often the body ran for each chunk
    submitted    \* history: threads whose submitted task has not run yet

call == <<next, failed, error, running, spawned, ran>>
vars == <<pc, queue, stopping, notified, joining, task, chunk, call, submitted>>

Helper(c) == [kind |-> "helper", caller |-> c]
Submitted(c) == [kind |-> "task", caller |-> c]
Tasks == {Helper(c) : c \in Callers} \cup {Submitted(c) : c \in Submitters}

ASSUME NoneAssumption == None \notin Tasks

\* helpers = min(chunks - 1, size())
Helpers == IF Chunks - 1 < Cardinality(Workers) THEN Chunks - 1 ELSE Cardinality(Workers)

Goto(t, where) == pc' = [pc EXCEPT ![t] = where]

Init ==
    /\ pc = [t \in Workers \cup Callers \cup Submitters \cup Stoppers |->
               IF t \in Workers THEN "loop" ELSE "idle"]
    /\ queue = <<>>
    /\ stopping = FALSE
    /\ notified = {}
    /\ joining = None
    /\ task = [w \in Workers |-> None]
    /\ chunk = [t \in Workers \cup Callers |-> 0]
    /\ next = [c \in Callers |-> 0]
    /\ failed = [c \in Callers |-> FALSE]
    /\ error = [c \in Callers |-> FALSE]
    /\ running = [c \in Callers |-> 0]
    /\ spawned = [c \in Callers |-> 0]
    /\ ran = [c \in Callers |-> [k \in 1..Chunks |-> 0]]
    /\ submitted = {}
-----------------------------------------------------------------------------
Sleeping == {w \in Workers : pc[w] = "wait"}

\* Mutant of TakeTask: a worker exits as soon as the pool is stopping.
MutTakeTaskExitsEarly(w) ==
    /\ pc[w] = "loop" \/ (pc[w] = "wait" /\ w \in notified)
    /\ notified' = notified \ {w}
    /\ \/ /\ queue # <<>> /\ ~stopping
          /\ task' = [task EXCEPT ![w] = Head(queue)]
          /\ queue' = Tail(queue)
          /\ Goto(w, IF Head(queue).kind = "helper" THEN "chunks" ELSE "task")
       \/ /\ stopping
          /\ Goto(w, "exited")
          /\ UNCHANGED <<task, queue>>
       \/ /\ queue = <<>> /\ ~stopping
          /\ Goto(w, "wait")
          /\ UNCHANGED <<task, queue>>
    /\ UNCHANGED <<stopping, joining, chunk, call, submitted>>

\* Impl::work(): with `mutex` held, evaluate the wait predicate; take a task,
\* leave when stopping with nothing queued, or sleep.
TakeTask(w) ==
    /\ pc[w] = "loop" \/ (pc[w] = "wait" /\ w \in notified)
    /\ notified' = notified \ {w}
    /\ \/ /\ queue # <<>>
          /\ task' = [task EXCEPT ![w] = Head(queue)]
          /\ queue' = Tail(queue)
          /\ Goto(w, IF Head(queue).kind = "helper" THEN "chunks" ELSE "task")
       \/ /\ queue = <<>> /\ stopping
          /\ Goto(w, "exited")
          /\ UNCHANGED <<task, queue>>
       \/ /\ queue = <<>> /\ ~stopping
          /\ Goto(w, "wait")
          /\ UNCHANGED <<task, queue>>
    /\ UNCHANGED <<stopping, joining, chunk, call, submitted>>

RunSubmitted(w) ==
    /\ pc[w] = "task"
    /\ submitted' = submitted \ {task[w].caller}
    /\ task' = [task EXCEPT ![w] = None]
    /\ Goto(w, "loop")
    /\ UNCHANGED <<queue, stopping, notified, joining, chunk, call>>

\* Mutant of NotifyOne: nobody is woken.
MutNotifyNobody == UNCHANGED notified

\* wake.notify_one(): one worker that is asleep, if any.
NotifyOne ==
    IF Sleeping \subseteq notified
    THEN UNCHANGED notified
    ELSE \E w \in Sleeping \ notified : notified' = notified \cup {w}
-----------------------------------------------------------------------------
\* try_submit(): refused after shutdown().  A thread has one task at a time in
\* the pool (bound).
Submit(c) ==
    /\ pc[c] = "idle"
    /\ c \notin submitted
    /\ ~stopping
    /\ queue' = Append(queue, Submitted(c))
    /\ submitted' = submitted \cup {c}
    /\ Goto(c, "submit_notify")
    /\ UNCHANGED <<stopping, notified, joining, task, chunk, call>>

SubmitNotifies(c) ==
    /\ pc[c] = "submit_notify"
    /\ NotifyOne
    /\ Goto(c, "idle")
    /\ UNCHANGED <<queue, stopping, joining, task, chunk, call, submitted>>

\* run_ranges() from outside the pool, over at least two chunks.
ParallelFor(c) ==
    /\ pc[c] = "idle"
    /\ Goto(c, "count")
    /\ UNCHANGED <<queue, stopping, notified, joining, task, chunk, call, submitted>>

\* ++running_helpers comes before the helper can be seen by a worker.
CountHelper(c) ==
    /\ pc[c] = "count"
    /\ running' = [running EXCEPT ![c] = @ + 1]
    /\ Goto(c, "enqueue")
    /\ UNCHANGED <<queue, stopping, notified, joining, task, chunk, next, failed,
                   error, spawned, ran, submitted>>

\* enqueue(): refused while stopping, or out of memory; then the helper is
\* uncounted again and the caller goes on with the helpers it has.
Enqueue(c) ==
    /\ pc[c] = "enqueue"
    /\ \/ /\ ~stopping
          /\ queue' = Append(queue, Helper(c))
          /\ Goto(c, "notify")
       \/ /\ Goto(c, "uncount")
          /\ UNCHANGED queue
    /\ UNCHANGED <<stopping, notified, joining, task, chunk, call, submitted>>

Notify(c) ==
    /\ pc[c] = "notify"
    /\ NotifyOne
    /\ spawned' = [spawned EXCEPT ![c] = @ + 1]
    /\ Goto(c, IF spawned[c] + 1 < Helpers THEN "count" ELSE "chunks")
    /\ UNCHANGED <<queue, stopping, joining, task, chunk, next, failed, error,
                   running, ran, submitted>>

\* Mutant of UncountHelper: the refused helper stays counted.
MutUncountHelperForgets(c) ==
    /\ pc[c] = "uncount"
    /\ Goto(c, "chunks")
    /\ UNCHANGED <<queue, stopping, notified, joining, task, chunk, call, submitted>>

\* The helper could not be queued.
UncountHelper(c) ==
    /\ pc[c] = "uncount"
    /\ running' = [running EXCEPT ![c] = @ - 1]
    /\ Goto(c, "chunks")
    /\ UNCHANGED <<queue, stopping, notified, joining, task, chunk, next, failed,
                   error, spawned, ran, submitted>>

\* run_chunks, by the caller or by a worker on its behalf.
CallOf(t) == IF t \in Callers THEN t ELSE task[t].caller

LeaveChunks(t) == Goto(t, IF t \in Callers THEN "wait_helpers" ELSE "leave")

\* Mutant of ClaimChunk: next is read but not advanced.
MutClaimChunkNotAtomic(t) ==
    LET c == CallOf(t) IN
    /\ pc[t] = "chunks"
    /\ IF next[c] < Chunks
       THEN chunk' = [chunk EXCEPT ![t] = next[c] + 1] /\ Goto(t, "body")
       ELSE UNCHANGED chunk /\ LeaveChunks(t)
    /\ UNCHANGED <<queue, stopping, notified, joining, task, call, submitted>>

\* One turn of the loop of run_chunks: fetch_add on next, or leave after a
\* failure.
ClaimChunk(t) ==
    LET c == CallOf(t) IN
    /\ pc[t] = "chunks"
    /\ \/ /\ next' = [next EXCEPT ![c] = @ + 1]
          /\ IF next[c] < Chunks
             THEN chunk' = [chunk EXCEPT ![t] = next[c] + 1] /\ Goto(t, "body")
             ELSE UNCHANGED chunk /\ LeaveChunks(t)
       \/ /\ failed[c]
          /\ LeaveChunks(t)
          /\ UNCHANGED <<next, chunk>>
    /\ UNCHANGED <<queue, stopping, notified, joining, task, failed, error, running,
                   spawned, ran, submitted>>

\* body(lo, hi) returns or throws; the first exception is kept.
RunBody(t) ==
    LET c == CallOf(t) IN
    /\ pc[t] = "body"
    /\ ran' = [ran EXCEPT ![c][chunk[t]] = @ + 1]
    /\ chunk' = [chunk EXCEPT ![t] = 0]
    /\ \/ /\ Goto(t, "chunks")
          /\ UNCHANGED <<failed, error>>
       \/ /\ failed' = [failed EXCEPT ![c] = TRUE]
          /\ error' = [error EXCEPT ![c] = TRUE]
          /\ LeaveChunks(t)
    /\ UNCHANGED <<queue, stopping, notified, joining, task, next, running, spawned,
                   submitted>>

\* The end of a helper: --running_helpers and done.notify_all() in one section.
LeaveHelper(w) ==
    /\ pc[w] = "leave"
    /\ running' = [running EXCEPT ![task[w].caller] = @ - 1]
    /\ task' = [task EXCEPT ![w] = None]
    /\ Goto(w, "loop")
    /\ UNCHANGED <<queue, stopping, notified, joining, chunk, next, failed, error,
                   spawned, ran, submitted>>

\* Mutant of HelpersDone: the caller leaves when its own chunks are done.
MutHelpersDoneAtOnce(c) ==
    /\ pc[c] = "wait_helpers"
    /\ Goto(c, "returned")
    /\ UNCHANGED <<queue, stopping, notified, joining, task, chunk, call, submitted>>

\* done.wait(): notified inside the section that makes the predicate true.
HelpersDone(c) ==
    /\ pc[c] = "wait_helpers"
    /\ running[c] = 0
    /\ Goto(c, "returned")
    /\ UNCHANGED <<queue, stopping, notified, joining, task, chunk, call, submitted>>

\* The call returns or rethrows; the next call makes a fresh Shared.
ReturnFromParallelFor(c) ==
    /\ pc[c] = "returned"
    /\ Goto(c, "idle")
    /\ next' = [next EXCEPT ![c] = 0]
    /\ failed' = [failed EXCEPT ![c] = FALSE]
    /\ error' = [error EXCEPT ![c] = FALSE]
    /\ spawned' = [spawned EXCEPT ![c] = 0]
    /\ ran' = [ran EXCEPT ![c] = [k \in 1..Chunks |-> 0]]
    /\ UNCHANGED <<queue, stopping, notified, joining, task, chunk, running, submitted>>
-----------------------------------------------------------------------------
\* shutdown(): join_mutex, stop, wake everybody, join.
Shutdown(s) ==
    /\ pc[s] = "idle"
    /\ joining = None
    /\ joining' = s
    /\ stopping' = TRUE
    /\ Goto(s, "wake_all")
    /\ UNCHANGED <<queue, notified, task, chunk, call, submitted>>

\* wake.notify_all(), after the mutex has been released.
WakeAll(s) ==
    /\ pc[s] = "wake_all"
    /\ notified' = notified \cup Sleeping
    /\ Goto(s, "join")
    /\ UNCHANGED <<queue, stopping, joining, task, chunk, call, submitted>>

\* Every worker has returned from work(); join_mutex is released.
Join(s) ==
    /\ pc[s] = "join"
    /\ \A w \in Workers : pc[w] = "exited"
    /\ joining' = None
    /\ Goto(s, "stopped")
    /\ UNCHANGED <<queue, stopping, notified, task, chunk, call, submitted>>
-----------------------------------------------------------------------------
WorkerStep(w) == TakeTask(w) \/ RunSubmitted(w) \/ ClaimChunk(w) \/ RunBody(w) \/ LeaveHelper(w)

\* A spurious wakeup evaluates the predicate once more.
SpuriousWakeup(w) ==
    /\ pc[w] = "wait" /\ w \notin notified
    /\ notified' = notified \cup {w}
    /\ UNCHANGED <<pc, queue, stopping, joining, task, chunk, call, submitted>>

CallerStep(c) ==
    \/ CountHelper(c) \/ Enqueue(c) \/ Notify(c) \/ UncountHelper(c)
    \/ ClaimChunk(c) \/ RunBody(c) \/ HelpersDone(c) \/ ReturnFromParallelFor(c)

StopperStep(s) == WakeAll(s) \/ Join(s)

Next ==
    \/ \E w \in Workers : WorkerStep(w) \/ SpuriousWakeup(w)
    \/ \E c \in Callers : ParallelFor(c) \/ CallerStep(c)
    \/ \E c \in Submitters : Submit(c) \/ SubmitNotifies(c)
    \/ \E s \in Stoppers : Shutdown(s) \/ StopperStep(s)

Spec == Init /\ [][Next]_vars

\* Threads that can run do run, and bodies return; nobody has to start a call
\* or to wake without a reason.
Fairness ==
    /\ \A w \in Workers : WF_vars(WorkerStep(w))
    /\ \A c \in Callers : WF_vars(CallerStep(c))
    /\ \A c \in Submitters : WF_vars(SubmitNotifies(c))
    /\ \A s \in Stoppers : WF_vars(StopperStep(s))

FairSpec == Spec /\ Fairness
-----------------------------------------------------------------------------
WorkerPoints == {"loop", "wait", "chunks", "body", "leave", "task", "exited"}
CallerPoints == {"idle", "count", "enqueue", "notify", "uncount",
                 "chunks", "body", "wait_helpers", "returned"}
StopperPoints == {"idle", "wake_all", "join", "stopped"}

\* The type of the state.
TypeOK ==
    /\ \A w \in Workers : pc[w] \in WorkerPoints /\ task[w] \in Tasks \cup {None}
    /\ \A c \in Callers : pc[c] \in CallerPoints
    /\ \A c \in Submitters : pc[c] \in {"idle", "submit_notify"}
    /\ \A s \in Stoppers : pc[s] \in StopperPoints
    /\ queue \in Seq(Tasks)
    /\ notified \subseteq Sleeping
    /\ \A c \in Callers : next[c] \in Nat /\ running[c] \in 0..Cardinality(Workers)

Working(c) == {w \in Workers : task[w] = Helper(c)}
Queued(c) == {i \in DOMAIN queue : queue[i] = Helper(c)}

\* The body and run_chunks live on the caller's stack: once parallel_for has
\* decided to return, no helper of the call is queued or running.
NoHelperOutlivesCall ==
    \A c \in Callers : pc[c] \in {"returned", "idle"} =>
        Working(c) = {} /\ Queued(c) = {}

\* running_helpers counts the helpers queued, running, or about to be queued.
HelpersCounted ==
    /\ TypeOK
    /\ \A c \in Callers :
          running[c] = Cardinality(Working(c)) + Cardinality(Queued(c))
                       + (IF pc[c] \in {"enqueue", "uncount"} THEN 1 ELSE 0)

\* parallel_for covers the range: no chunk runs twice, and when it returns
\* normally every chunk has run.
ChunksCovered ==
    \A c \in Callers :
        /\ \A k \in 1..Chunks : ran[c][k] <= 1
        /\ pc[c] = "returned" /\ ~error[c] => \A k \in 1..Chunks : ran[c][k] = 1

\* shutdown() returns only when every queued task has run.
DrainedWhenStopped ==
    (\E s \in Stoppers : pc[s] = "stopped") =>
        queue = <<>> /\ submitted = {} /\ \A w \in Workers : pc[w] = "exited"

\* Nothing waits for ever: every parallel_for returns, whatever becomes of its
\* helpers and whenever shutdown() is called; every task that submit() accepted
\* runs, also when shutdown() follows; and shutdown() returns, also to the second
\* of two threads that call it.
PoolProgress ==
    /\ \A c \in Callers : pc[c] # "idle" ~> pc[c] = "idle"
    /\ \A c \in Submitters : c \in submitted ~> c \notin submitted
    /\ \A s \in Stoppers : pc[s] = "wake_all" ~> pc[s] = "stopped"
=============================================================================

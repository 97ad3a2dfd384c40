----------------------------- MODULE Collection -----------------------------
(***************************************************************************)
(* src/collection/collection.cpp: the operations of a Collection, called   *)
(* from several threads, over the rows, the id map (storage/id_map.cpp),   *)
(* the tombstones (storage/tombstones.hpp) and the index backend.          *)
(*                                                                         *)
(* A row is a row of the vector store, and the graph node of the same      *)
(* number.  Vals stands for rows that passed validation and normalisation, *)
(* which happen before any lock is taken.  The index is abstracted to the  *)
(* set `linked` of rows a search can reach (module HnswLink is about the   *)
(* lists themselves); the lock `rw` is a SharedLock (implemented by        *)
(* FairSharedMutex), `writers` and `link` are mutexes.                     *)
(***************************************************************************)
EXTENDS Naturals, Sequences, FiniteSets

CONSTANTS
    Threads, Ids, Vals,
    None,                \* no thread, no file, no answer
    MaxRows,             \* VectorStore::max_rows()
    MaxBatch,            \* bound: the longest batch given to add_batch()
    Modes,               \* the values of `concurrent` a collection may have
    Operations           \* bound: the operations the threads call

ASSUME CollectionAssumption ==
    /\ MaxRows \in Nat
    /\ MaxBatch \in Nat
    /\ Modes \subseteq BOOLEAN
    /\ None \notin Threads \cup Ids \cup Vals

Rows == 1..MaxRows
NoRow == 0               \* kInvalidInternalId

\* What save() leaves on the disk.
Files ==
    [rows : 0..MaxRows, label : [Rows -> Ids \cup {None}],
     vec : [Rows -> Vals \cup {None}], deleted : SUBSET Rows,
     linked : SUBSET Rows, stranded : SUBSET Rows]

\* None is neither a file nor what a file holds.
ASSUME NoneAssumption ==
    None \notin Files /\ None \notin [Ids -> Vals \cup {None}]

VARIABLES
    pc,        \* where each thread is
    writers,   \* the thread that holds the mutex `writers`, or None
    link,      \* the thread that holds the mutex `link`, or None
    shared,    \* the threads that hold `rw` shared
    exclusive, \* the threads that hold `rw` exclusively
    state,     \* impl_->state, the CollectionState
    job,       \* arguments of the call that holds `writers`
    done,      \* rows of its batch dealt with in earlier sections
    grown,     \* Level B: IdMap::Reservation::previous of the rows grown
    unlinked,  \* Level B: positions in `grown` still to be linked
    failed,    \* Level B: positions whose link() ran out of memory
    outcome,   \* how the call is going to end
    rebuilt,   \* compact(): the new state under construction
    cursor,    \* compact(): the next row of the old state to copy
    local,     \* what a reading thread has read so far
    got,       \* the answer a thread's reading call has just returned
    file,      \* the last complete file written by save(), or None
    concurrent \* config: an HNSW index in Concurrent mode (Level B)

locks == <<writers, link, shared, exclusive>>
batch == <<job, done, grown, unlinked, failed, outcome>>
compaction == <<rebuilt, cursor>>
reading == <<local, got>>
vars == <<pc, locks, state, batch, compaction, reading, file, concurrent>>
-----------------------------------------------------------------------------
\* CollectionState, with IdMap's entries as two functions: map[id] is
\* Entry::current (NoRow also for an absent key) and pending[id].  stranded is
\* a history: the rows that ParallelForThrows left committed and unlinked.
EmptyState ==
    [rows    |-> 0,
     label   |-> [r \in Rows |-> None],
     vec     |-> [r \in Rows |-> None],
     deleted |-> {},
     count   |-> 0,
     map     |-> [id \in Ids |-> NoRow],
     pending |-> {},
     live    |-> 0,
     linked  |-> {},
     stranded |-> {}]

\* IdMap::reserve of a key that may be inserted; the previous row is map[id].
Reserve(s, id) == [s EXCEPT !.pending = @ \cup {id}]

CanReserve(s, id, upsert) ==
    id \notin s.pending /\ (upsert \/ s.map[id] = NoRow)

\* IdMap::rollback: an absent key is erased again, so only the mark is undone.
Rollback(s, id) == [s EXCEPT !.pending = @ \ {id}]

\* VectorStore::append and pop_back.
AppendRow(s, v) == [s EXCEPT !.rows = @ + 1, !.vec[s.rows + 1] = v]

PopBack(s) == [s EXCEPT !.rows = @ - 1, !.vec[s.rows] = None]

\* TombstoneSet::set and clear: the count moves only if the bit does.
SetDeleted(s, r) ==
    [s EXCEPT !.deleted = @ \cup {r},
              !.count = IF r \in s.deleted THEN @ ELSE @ + 1]

ClearDeleted(s, r) ==
    [s EXCEPT !.deleted = @ \ {r},
              !.count = IF r \in s.deleted THEN @ - 1 ELSE @]

\* Mutants of Commit: a replacement counts as a new id; the replaced row stays.
MutCommitMiscounts(s, id, r) ==
    LET committed == [s EXCEPT !.map[id] = r, !.pending = @ \ {id},
                               !.live = @ + 1, !.label[r] = id]
    IN  IF s.map[id] = NoRow THEN committed ELSE SetDeleted(committed, s.map[id])

MutCommitKeepsReplaced(s, id, r) ==
    [s EXCEPT !.map[id] = r, !.pending = @ \ {id},
              !.live = IF s.map[id] = NoRow THEN @ + 1 ELSE @, !.label[r] = id]

\* IdMap::commit, then the tombstone of the replaced row.
Commit(s, id, r) ==
    LET replaced  == s.map[id]
        committed == [s EXCEPT !.map[id] = r,
                               !.pending = @ \ {id},
                               !.live = IF replaced = NoRow THEN @ + 1 ELSE @,
                               !.label[r] = id]
    IN  IF replaced = NoRow THEN committed ELSE SetDeleted(committed, replaced)

\* IdMap::erase, then the tombstone of the row.
Erase(s, id) ==
    SetDeleted([s EXCEPT !.map[id] = NoRow, !.live = @ - 1], s.map[id])

\* Mutant of Abandon: the replaced row is not put back.
MutAbandonDropsPrevious(s, id, r, previous) ==
    SetDeleted([s EXCEPT !.map[id] = NoRow, !.live = @ - 1], r)

\* abandon_row: IdMap::revert, tombstone the row, revive the replaced one.
Abandon(s, id, r, previous) ==
    LET reverted == [s EXCEPT !.map[id] = previous,
                              !.live = IF previous = NoRow THEN @ - 1 ELSE @]
        dead     == SetDeleted(reverted, r)
    IN  IF previous = NoRow THEN dead ELSE ClearDeleted(dead, previous)

\* One row of insert_reserved that succeeds, on a state nobody else sees.
InsertRow(s, id, v) ==
    LET r == s.rows + 1
    IN  Commit([AppendRow(Reserve(s, id), v) EXCEPT !.linked = @ \cup {r}], id, r)
-----------------------------------------------------------------------------
\* What a collection holds, as get() sees it.
Contents(s) ==
    [id \in Ids |-> IF s.map[id] = NoRow THEN None ELSE s.vec[s.map[id]]]

LiveRows(s) == (1..s.rows) \ s.deleted

\* Mutant of Loaded: the id map is rebuilt from every row, deleted or not.
MutLoadedIgnoresTombstones(f) ==
    [rows    |-> f.rows,
     label   |-> f.label,
     vec     |-> f.vec,
     deleted |-> f.deleted,
     count   |-> Cardinality(f.deleted),
     map     |-> [id \in Ids |->
                    IF \E r \in 1..f.rows : f.label[r] = id
                    THEN CHOOSE r \in 1..f.rows : f.label[r] = id
                    ELSE NoRow],
     pending |-> {},
     live    |-> Cardinality(LiveRows(f)),
     linked  |-> f.linked,
     stranded |-> f.stranded]

\* Collection::load of a saved file: IdMap::restore rebuilds the map from the
\* labels of the rows that are not tombstoned; TombstoneSet::restore counts.
Loaded(f) ==
    [rows    |-> f.rows,
     label   |-> f.label,
     vec     |-> f.vec,
     deleted |-> f.deleted,
     count   |-> Cardinality(f.deleted),
     map     |-> [id \in Ids |->
                    IF \E r \in LiveRows(f) : f.label[r] = id
                    THEN CHOOSE r \in LiveRows(f) : f.label[r] = id
                    ELSE NoRow],
     pending |-> {},
     live    |-> Cardinality(LiveRows(f)),
     linked  |-> f.linked,
     stranded |-> f.stranded]
-----------------------------------------------------------------------------
\* The locks.
RwFree == shared = {} /\ exclusive = {}

LockWriters(t) == writers = None /\ writers' = t
LockExclusive(t) == RwFree /\ exclusive' = {t} /\ UNCHANGED shared
LockShared(t) == exclusive = {} /\ shared' = shared \cup {t} /\ UNCHANGED exclusive

Goto(t, where) == pc' = [pc EXCEPT ![t] = where]

NoJob == [op |-> None, ids |-> <<>>, vals |-> <<>>, upsert |-> FALSE,
          before |-> [id \in Ids |-> None]]

Init ==
    /\ pc = [t \in Threads |-> "idle"]
    /\ writers = None
    /\ link = None
    /\ shared = {}
    /\ exclusive = {}
    /\ state = EmptyState
    /\ job = NoJob
    /\ done = 0
    /\ grown = <<>>
    /\ unlinked = {}
    /\ failed = {}
    /\ outcome = "ok"
    /\ rebuilt = EmptyState
    /\ cursor = 1
    /\ local = [t \in Threads |-> None]
    /\ got = [t \in Threads |-> None]
    /\ file = None
    /\ concurrent \in Modes
-----------------------------------------------------------------------------
\* A call starts and takes `writers`.  The batches add_batch accepts have no
\* duplicate id; add() is a batch of one with its own path.
Batches ==
    UNION {{[ids |-> ids, vals |-> vals] :
              ids \in {s \in [1..n -> Ids] : \A i, j \in 1..n : i # j => s[i] # s[j]},
              vals \in [1..n -> Vals]} : n \in 1..MaxBatch}

Begin(t, op, b, upsert, where) ==
    /\ pc[t] = "idle"
    /\ op \in Operations
    /\ LockWriters(t)
    /\ job' = [op |-> op, ids |-> b.ids, vals |-> b.vals, upsert |-> upsert,
               before |-> Contents(state)]
    /\ Goto(t, where)
    /\ UNCHANGED <<link, shared, exclusive, state, done, grown, unlinked, failed,
                   outcome, compaction, reading, file, concurrent>>

Add(t) ==
    \E b \in Batches, upsert \in BOOLEAN :
        Len(b.ids) = 1 /\ Begin(t, "add", b, upsert, "slice")

AddBatch(t) ==
    \E b \in Batches, upsert \in BOOLEAN : Begin(t, "add_batch", b, upsert, "check")

Remove(t) ==
    \E id \in Ids :
        Begin(t, "remove", [ids |-> <<id>>, vals |-> <<>>], FALSE, "remove")

Compact(t) ==
    Begin(t, "compact", [ids |-> <<>>, vals |-> <<>>], FALSE, "compact")

\* Whatever ends a mutating call releases everything it holds.
Finish(t, how) ==
    /\ Goto(t, "return")
    /\ outcome' = how
    /\ exclusive' = exclusive \ {t}
    /\ shared' = shared \ {t}
    /\ link' = IF link = t THEN None ELSE link

\* `writers` is released last (it is locked first); the locals go with it.
NoLocals ==
    /\ job' = NoJob
    /\ done' = 0
    /\ grown' = <<>>
    /\ unlinked' = {}
    /\ failed' = {}
    /\ outcome' = "ok"
    /\ rebuilt' = EmptyState
    /\ cursor' = 1

Return(t) ==
    /\ pc[t] = "return"
    /\ writers' = None
    /\ Goto(t, "idle")
    /\ NoLocals
    /\ UNCHANGED <<link, shared, exclusive, state, reading, file, concurrent>>
-----------------------------------------------------------------------------
\* remove(): the whole exclusive section.
RemoveBody(t) ==
    /\ pc[t] = "remove"
    /\ RwFree
    /\ LET id == job.ids[1] IN
       IF state.map[id] = NoRow
       THEN state' = state /\ Finish(t, "error")
       ELSE state' = Erase(state, id) /\ Finish(t, "ok")
    /\ UNCHANGED <<writers, job, done, grown, unlinked, failed, compaction,
                   reading, file, concurrent>>

\* add_batch(): the checks under the exclusive lock.  "throws" is an
\* allocation failure while the capacity for the batch is reserved.
CheckBatch(t) ==
    LET n == Len(job.ids) IN
    /\ pc[t] = "check"
    /\ RwFree
    /\ \/ /\ \/ ~job.upsert /\ \E i \in 1..n : state.map[job.ids[i]] # NoRow
             \/ state.rows + n > MaxRows
          /\ Finish(t, "error")
       \/ Finish(t, "throws")
       \/ /\ job.upsert \/ \A i \in 1..n : state.map[job.ids[i]] = NoRow
          /\ state.rows + n <= MaxRows
          /\ Goto(t, IF concurrent THEN "section" ELSE "slice")
          /\ UNCHANGED <<link, shared, exclusive, outcome>>
    /\ UNCHANGED <<writers, state, job, done, grown, unlinked, failed, compaction,
                   reading, file, concurrent>>
-----------------------------------------------------------------------------
\* Level B, add_batch_concurrent().
IsLevelB == job.op = "add_batch" /\ concurrent

\* The position in the batch of the row being inserted.
Position == done + Len(grown) + 1

\* A Level A slice, or add(), takes the exclusive lock.
BeginSlice(t) ==
    /\ pc[t] = "slice"
    /\ LockExclusive(t)
    /\ Goto(t, "reserve")
    /\ UNCHANGED <<writers, link, state, batch, compaction, reading, file, concurrent>>

\* A Level B section takes `link` and keeps it until its rows are linked.
BeginSection(t) ==
    /\ pc[t] = "section"
    /\ link = None
    /\ link' = t
    /\ grown' = <<>>
    /\ Goto(t, "grow")
    /\ UNCHANGED <<writers, shared, exclusive, state, job, done, unlinked, failed,
                   outcome, compaction, reading, file, concurrent>>

\* prepare_insert may throw: nothing changed yet.
BeginGrow(t) ==
    /\ pc[t] = "grow"
    /\ \/ /\ LockExclusive(t)
          /\ Goto(t, "reserve")
          /\ UNCHANGED <<link, outcome>>
       \/ /\ RwFree
          /\ Finish(t, "throws")
    /\ UNCHANGED <<writers, state, job, done, grown, unlinked, failed, compaction,
                   reading, file, concurrent>>

\* The rows of the section are in place: release `rw` and link them, or end
\* the section if there is none.
EndGrow(t, rows) ==
    /\ exclusive' = exclusive \ {t}
    /\ unlinked' = 1..rows
    /\ failed' = {}
    /\ Goto(t, IF rows > 0 THEN "begin_link" ELSE "end_section")
    /\ UNCHANGED <<shared, link>>

\* An insertion that fails ends the call, except in a Level B section, whose
\* earlier rows are linked first.
InsertFails(t, how) ==
    \/ /\ ~IsLevelB
       /\ Finish(t, how)
       /\ UNCHANGED <<unlinked, failed>>
    \/ /\ IsLevelB
       /\ outcome' = how
       /\ EndGrow(t, Len(grown))

\* insert_reserved() and the reservation before it, under the exclusive lock.
\* The map entry of a new key may fail to be allocated.
ReserveId(t) ==
    /\ pc[t] = "reserve"
    /\ LET id == job.ids[Position] IN
       \/ /\ CanReserve(state, id, job.upsert)
          /\ state' = Reserve(state, id)
          /\ Goto(t, "append")
          /\ UNCHANGED <<shared, exclusive, link, unlinked, failed, outcome>>
       \/ /\ InsertFails(t, IF CanReserve(state, id, job.upsert) THEN "throws" ELSE "error")
          /\ UNCHANGED state
    /\ UNCHANGED <<writers, job, done, grown, compaction, reading, file, concurrent>>

\* Reserving capacity or appending may throw; a full store is an error.
AppendVector(t) ==
    /\ pc[t] = "append"
    /\ \/ /\ state.rows < MaxRows
          /\ state' = AppendRow(state, job.vals[Position])
          /\ Goto(t, "index")
          /\ UNCHANGED <<shared, exclusive, link, unlinked, failed, outcome>>
       \/ /\ state' = Rollback(state, job.ids[Position])
          /\ InsertFails(t, IF state.rows < MaxRows THEN "throws" ELSE "error")
    /\ UNCHANGED <<writers, job, done, grown, compaction, reading, file, concurrent>>

\* backend->add links the row at once; Level B's reserve_node leaves that to
\* the link section.
IndexRow(t) ==
    /\ pc[t] = "index"
    /\ \/ /\ state' = IF IsLevelB THEN state
                      ELSE [state EXCEPT !.linked = @ \cup {state.rows}]
          /\ Goto(t, "commit")
          /\ UNCHANGED <<shared, exclusive, link, unlinked, failed, outcome>>
       \/ /\ state' = Rollback(PopBack(state), job.ids[Position])
          /\ InsertFails(t, "throws")
    /\ UNCHANGED <<writers, job, done, grown, compaction, reading, file, concurrent>>

\* commit cannot fail.  The clock decides whether the slice goes on.
CommitRow(t) ==
    LET id   == job.ids[Position]
        last == Position = Len(job.ids)
    IN
    /\ pc[t] = "commit"
    /\ state' = Commit(state, id, state.rows)
    /\ \/ /\ ~IsLevelB
          /\ done' = done + 1
          /\ \/ last /\ Finish(t, "ok")
             \/ ~last /\ Goto(t, "reserve") /\ UNCHANGED <<shared, exclusive, link,
                                                           outcome>>
             \/ /\ ~last
                /\ exclusive' = exclusive \ {t}
                /\ Goto(t, "slice")
                /\ UNCHANGED <<shared, link, outcome>>
          /\ UNCHANGED <<grown, unlinked, failed>>
       \/ /\ IsLevelB
          /\ grown' = Append(grown, state.map[id])
          /\ \/ EndGrow(t, Len(grown) + 1)
             \/ ~last /\ Goto(t, "reserve") /\ UNCHANGED <<shared, exclusive, link,
                                                           unlinked, failed>>
          /\ UNCHANGED <<done, outcome>>
    /\ UNCHANGED <<writers, job, compaction, reading, file, concurrent>>
-----------------------------------------------------------------------------
\* The internal id of the i-th row of the section.
GrownRow(i) == state.rows - Len(grown) + i

\* The link section: `rw` is taken shared, and parallel_for starts.
BeginLink(t) ==
    /\ pc[t] = "begin_link"
    /\ LockShared(t)
    /\ Goto(t, "link")
    /\ UNCHANGED <<writers, link, state, batch, compaction, reading, file, concurrent>>

\* parallel_for itself runs out of memory before any row is linked; the
\* exception leaves add_batch_concurrent(), and the rows stay as they are.
ParallelForThrows(t) ==
    /\ pc[t] = "link"
    /\ unlinked = 1..Len(grown)
    /\ Len(grown) > 1
    /\ state' = [state EXCEPT !.stranded = @ \cup {GrownRow(i) : i \in unlinked}]
    /\ Finish(t, "throws")
    /\ UNCHANGED <<writers, job, done, grown, unlinked, failed, compaction,
                   reading, file, concurrent>>

\* link(first + i) on some thread of the pool, in any order: it links the row
\* or runs out of memory before it has published anything.
LinkRow(t) ==
    /\ pc[t] = "link"
    /\ \E i \in unlinked :
        /\ unlinked' = unlinked \ {i}
        /\ \/ /\ state' = [state EXCEPT !.linked = @ \cup {GrownRow(i)}]
              /\ UNCHANGED failed
           \/ /\ failed' = failed \cup {i}
              /\ UNCHANGED state
    /\ UNCHANGED <<pc, locks, job, done, grown, outcome, compaction, reading, file,
                   concurrent>>

\* Mutant of EndLink: the failures are not looked at.
MutEndLinkForgetsFailures(t) ==
    /\ pc[t] = "link"
    /\ unlinked = {}
    /\ shared' = shared \ {t}
    /\ Goto(t, "end_section")
    /\ UNCHANGED <<writers, link, exclusive, state, batch, compaction, reading, file,
                   concurrent>>

\* parallel_for returns when every row has been tried.
EndLink(t) ==
    /\ pc[t] = "link"
    /\ unlinked = {}
    /\ shared' = shared \ {t}
    /\ Goto(t, IF failed = {} THEN "end_section" ELSE "begin_abandon")
    /\ UNCHANGED <<writers, link, exclusive, state, batch, compaction, reading, file,
                   concurrent>>

BeginAbandon(t) ==
    /\ pc[t] = "begin_abandon"
    /\ LockExclusive(t)
    /\ Goto(t, "abandon")
    /\ UNCHANGED <<writers, link, state, batch, compaction, reading, file, concurrent>>

\* abandon_row for the failed rows, first one first.
AbandonRow(t) ==
    /\ pc[t] = "abandon"
    /\ \E i \in failed :
        /\ \A j \in failed : i <= j
        /\ state' = Abandon(state, job.ids[done + i], GrownRow(i), grown[i])
        /\ failed' = failed \ {i}
        /\ IF failed' = {}
           THEN exclusive' = exclusive \ {t} /\ Goto(t, "end_section")
           ELSE UNCHANGED <<exclusive, pc>>
    \* a throw of the grow section is rethrown first; either way the call throws
    /\ outcome' = "throws"
    /\ UNCHANGED <<writers, link, shared, job, done, grown, unlinked, compaction,
                   reading, file, concurrent>>

\* Mutant of EndSection: `link` is still held when the next section starts.
MutEndSectionKeepsLink(t) ==
    /\ pc[t] = "end_section"
    /\ done' = done + Len(grown)
    /\ grown' = <<>>
    /\ \/ /\ outcome = "ok" /\ done' < Len(job.ids)
          /\ Goto(t, "section")
          /\ UNCHANGED <<link, shared, exclusive, outcome>>
       \/ /\ outcome # "ok" \/ done' = Len(job.ids)
          /\ Finish(t, outcome)
    /\ UNCHANGED <<writers, state, job, unlinked, failed, compaction, reading, file,
                   concurrent>>

\* The section ends: `link` is released, and the loop goes on or the call ends.
EndSection(t) ==
    /\ pc[t] = "end_section"
    /\ done' = done + Len(grown)
    /\ grown' = <<>>
    /\ \/ /\ outcome = "ok" /\ done' < Len(job.ids)
          /\ link' = None
          /\ Goto(t, "section")
          /\ UNCHANGED <<shared, exclusive, outcome>>
       \/ /\ outcome # "ok" \/ done' = Len(job.ids)
          /\ Finish(t, outcome)
    /\ UNCHANGED <<writers, state, job, unlinked, failed, compaction, reading, file,
                   concurrent>>
-----------------------------------------------------------------------------
\* compact(): nothing to do, or start to rebuild under the shared lock.
BeginCompact(t) ==
    /\ pc[t] = "compact"
    /\ exclusive = {}
    /\ \/ /\ state.count = 0
          /\ Finish(t, "ok")
          /\ UNCHANGED compaction
       \/ /\ state.count # 0
          /\ LockShared(t)
          /\ rebuilt' = EmptyState
          /\ cursor' = 1
          /\ Goto(t, "rebuild")
          /\ UNCHANGED <<link, outcome>>
    /\ UNCHANGED <<writers, state, job, done, grown, unlinked, failed, reading, file,
                   concurrent>>

\* The next row of the old state: skipped if tombstoned, else re-inserted.
RebuildRow(t) ==
    /\ pc[t] = "rebuild"
    /\ cursor <= state.rows
    /\ cursor \in state.deleted \/ CanReserve(rebuilt, state.label[cursor], FALSE)
    /\ rebuilt' = IF cursor \in state.deleted THEN rebuilt
                  ELSE InsertRow(rebuilt, state.label[cursor], state.vec[cursor])
    /\ cursor' = cursor + 1
    /\ UNCHANGED <<pc, locks, state, batch, reading, file, concurrent>>

\* A step of the rebuild fails or runs out of memory: the old state was never touched.
RebuildThrows(t) ==
    /\ pc[t] = "rebuild"
    /\ Finish(t, "throws")
    /\ UNCHANGED <<writers, state, job, done, grown, unlinked, failed, compaction,
                   reading, file, concurrent>>

EndRebuild(t) ==
    /\ pc[t] = "rebuild"
    /\ cursor > state.rows
    /\ shared' = shared \ {t}
    /\ Goto(t, "swap")
    /\ UNCHANGED <<writers, link, exclusive, state, batch, compaction, reading, file,
                   concurrent>>

\* The exclusive section that exchanges the states.
Swap(t) ==
    /\ pc[t] = "swap"
    /\ RwFree
    /\ state' = rebuilt
    /\ Finish(t, "ok")
    /\ UNCHANGED <<writers, job, done, grown, unlinked, failed, compaction, reading,
                   file, concurrent>>
-----------------------------------------------------------------------------
\* Mutant of Get: the row is looked up without the shared lock.
MutGetUnlocked(t) ==
    /\ pc[t] = "idle"
    /\ "get" \in Operations
    /\ \E id \in Ids : local' = [local EXCEPT ![t] = <<id, state.map[id]>>]
    /\ Goto(t, "get")
    /\ UNCHANGED <<locks, state, batch, compaction, got, file, concurrent>>

\* get(): find the row under the shared lock, then copy its vector.
Get(t) ==
    /\ pc[t] = "idle"
    /\ "get" \in Operations
    /\ LockShared(t)
    /\ \E id \in Ids : local' = [local EXCEPT ![t] = <<id, state.map[id]>>]
    /\ Goto(t, "get")
    /\ UNCHANGED <<writers, link, state, batch, compaction, got, file, concurrent>>

ReturnGet(t) ==
    /\ pc[t] = "get"
    /\ LET id  == local[t][1]
           row == local[t][2]
       IN  got' = [got EXCEPT ![t] = <<id, IF row = NoRow THEN None ELSE state.vec[row]>>]
    /\ shared' = shared \ {t}
    /\ local' = [local EXCEPT ![t] = None]
    /\ Goto(t, "answered")
    /\ UNCHANGED <<writers, link, exclusive, state, batch, compaction, file, concurrent>>

\* search(), followed for one of the neighbours it returns: the traversal
\* reaches a linked row, passes the tombstone filter and scores its vector;
\* run_query then rewrites the row to its label.
Search(t) ==
    /\ pc[t] = "idle"
    /\ "search" \in Operations
    /\ LockShared(t)
    /\ Goto(t, "search")
    /\ UNCHANGED <<writers, link, state, batch, compaction, reading, file, concurrent>>

SearchVisits(t) ==
    /\ pc[t] = "search"
    /\ \E r \in state.linked \ state.deleted :
          local' = [local EXCEPT ![t] = <<r, state.vec[r]>>]
    /\ Goto(t, "found")
    /\ UNCHANGED <<locks, state, batch, compaction, got, file, concurrent>>

SearchFindsNothing(t) ==
    /\ pc[t] = "search"
    /\ shared' = shared \ {t}
    /\ Goto(t, "idle")
    /\ UNCHANGED <<writers, link, exclusive, state, batch, compaction, reading, file,
                   concurrent>>

ReturnSearch(t) ==
    /\ pc[t] = "found"
    /\ got' = [got EXCEPT ![t] = <<state.label[local[t][1]], local[t][2]>>]
    /\ local' = [local EXCEPT ![t] = None]
    /\ shared' = shared \ {t}
    /\ Goto(t, "answered")
    /\ UNCHANGED <<writers, link, exclusive, state, batch, compaction, file, concurrent>>

\* The caller has looked at the answer.
UseAnswer(t) ==
    /\ pc[t] = "answered"
    /\ got' = [got EXCEPT ![t] = None]
    /\ Goto(t, "idle")
    /\ UNCHANGED <<locks, state, batch, compaction, local, file, concurrent>>
-----------------------------------------------------------------------------
\* Mutant of Save: `link` is not taken.
MutSaveSkipsLink(t) ==
    /\ pc[t] = "idle"
    /\ "save" \in Operations
    /\ Goto(t, "save")
    /\ UNCHANGED <<locks, state, batch, compaction, reading, file, concurrent>>

\* save(): `link`, then `rw` shared, then the sections of the file in turn;
\* the graph is the last one.  write_atomic publishes a complete file or none.
Save(t) ==
    /\ pc[t] = "idle"
    /\ "save" \in Operations
    /\ link = None
    /\ link' = t
    /\ Goto(t, "save")
    /\ UNCHANGED <<writers, shared, exclusive, state, batch, compaction, reading, file,
                   concurrent>>

WriteRows(t) ==
    /\ pc[t] = "save"
    /\ LockShared(t)
    /\ local' = [local EXCEPT ![t] =
                    [rows |-> state.rows, label |-> state.label,
                     vec |-> state.vec, deleted |-> state.deleted]]
    /\ Goto(t, "save_graph")
    /\ UNCHANGED <<writers, link, state, batch, compaction, got, file, concurrent>>

WriteGraph(t) ==
    /\ pc[t] = "save_graph"
    /\ \/ file' = [rows |-> local[t].rows, label |-> local[t].label,
                   vec |-> local[t].vec, deleted |-> local[t].deleted,
                   linked |-> state.linked, stranded |-> state.stranded]
       \/ UNCHANGED file        \* an I/O error: the old file stays
    /\ local' = [local EXCEPT ![t] = None]
    /\ shared' = shared \ {t}
    /\ link' = None
    /\ Goto(t, "idle")
    /\ UNCHANGED <<writers, exclusive, state, batch, compaction, got, concurrent>>

\* The process stops at any point and a new one loads the file.
Load ==
    /\ "load" \in Operations
    /\ file # None
    /\ pc' = [t \in Threads |-> "idle"]
    /\ writers' = None
    /\ link' = None
    /\ shared' = {}
    /\ exclusive' = {}
    /\ state' = Loaded(file)
    /\ NoLocals
    /\ local' = [t \in Threads |-> None]
    /\ got' = [t \in Threads |-> None]
    /\ concurrent' \in Modes       \* LoadOptions::concurrency, not the file
    /\ UNCHANGED file
-----------------------------------------------------------------------------
\* The steps of a mutating call that has begun.
WriterStep(t) ==
    \/ RemoveBody(t) \/ CheckBatch(t) \/ BeginSlice(t)
    \/ BeginSection(t) \/ BeginGrow(t)
    \/ ReserveId(t) \/ AppendVector(t) \/ IndexRow(t) \/ CommitRow(t)
    \/ BeginLink(t) \/ ParallelForThrows(t) \/ LinkRow(t) \/ EndLink(t)
    \/ BeginAbandon(t) \/ AbandonRow(t) \/ EndSection(t)
    \/ BeginCompact(t) \/ RebuildRow(t) \/ RebuildThrows(t) \/ EndRebuild(t) \/ Swap(t)
    \/ Return(t)

ReaderStep(t) ==
    \/ ReturnGet(t)
    \/ SearchVisits(t) \/ SearchFindsNothing(t) \/ ReturnSearch(t)
    \/ UseAnswer(t)
    \/ WriteRows(t) \/ WriteGraph(t)

Call(t) ==
    \/ Add(t) \/ AddBatch(t) \/ Remove(t) \/ Compact(t)
    \/ Get(t) \/ Search(t) \/ Save(t)

Next ==
    \/ \E t \in Threads : Call(t) \/ WriterStep(t) \/ ReaderStep(t)
    \/ Load

Spec == Init /\ [][Next]_vars

\* A call that has begun goes on: locks are released after finitely many steps,
\* and a thread that asks for one again and again gets it.  For `rw` this is
\* what FairSharedMutex's LockProgress gives two threads.
Fairness ==
    \A t \in Threads : SF_vars(WriterStep(t)) /\ SF_vars(ReaderStep(t))

FairSpec == Spec /\ Fairness
-----------------------------------------------------------------------------
InsertPoints == {"append", "index", "commit"}

SectionPoints == {"begin_link", "link", "begin_abandon", "abandon", "end_section"}

Locations ==
    InsertPoints \cup SectionPoints \cup
    {"idle", "return", "remove", "check", "slice", "section", "grow", "reserve",
     "compact", "rebuild", "swap", "get", "search", "found", "answered", "save",
     "save_graph"}

StateOK(s) ==
    /\ DOMAIN s = {"rows", "label", "vec", "deleted", "count", "map", "pending",
                   "live", "linked", "stranded"}
    /\ s.rows \in 0..MaxRows
    /\ s.label \in [Rows -> Ids \cup {None}]
    /\ s.vec \in [Rows -> Vals \cup {None}]
    /\ s.deleted \subseteq Rows
    /\ s.count \in Nat
    /\ s.map \in [Ids -> Rows \cup {NoRow}]
    /\ s.pending \subseteq Ids
    /\ s.live \in Nat
    /\ s.linked \subseteq Rows
    /\ s.stranded \subseteq Rows

\* The type of the state; counters stay natural numbers and row numbers stay
\* within the store.
TypeOK ==
    /\ pc \in [Threads -> Locations]
    /\ writers \in Threads \cup {None}
    /\ link \in Threads \cup {None}
    /\ shared \subseteq Threads
    /\ exclusive \subseteq Threads
    /\ StateOK(state)
    /\ StateOK(rebuilt)
    /\ cursor \in 1..(MaxRows + 1)
    /\ done \in 0..MaxBatch
    /\ grown \in Seq(Rows \cup {NoRow})
    /\ unlinked \subseteq 1..MaxBatch
    /\ failed \subseteq 1..MaxBatch
    /\ outcome \in {"ok", "error", "throws"}

\* Some thread is between reserving an id and committing its row.
Inserting == \E t \in Threads : pc[t] \in InsertPoints

\* The rows whose insertion is complete: all but one appended and not yet
\* committed.
CommittedRows(s) ==
    IF \E t \in Threads : pc[t] \in {"index", "commit"} THEN s.rows - 1 ELSE s.rows

\* The id map, the labels and the tombstones describe the same collection:
\* every mapped id names a live row that carries its label, and every live row
\* is the row its label maps to.  Upserts, failed links, removals and
\* compaction each update the three separately.  No failure leaves a
\* reservation behind, which would refuse its id for good.
IdMapConsistent ==
    /\ TypeOK
    /\ ~Inserting => state.pending = {}
    /\ \A id \in Ids : state.map[id] # NoRow =>
          /\ state.map[id] \in (1..CommittedRows(state)) \ state.deleted
          /\ state.label[state.map[id]] = id
    /\ \A r \in (1..CommittedRows(state)) \ state.deleted :
          state.label[r] \in Ids /\ state.map[state.label[r]] = r

\* stats(): live_count and deleted_count are what they say, and add up to the
\* rows, whatever failed on the way.
CountsAgree ==
    /\ state.live = Cardinality({id \in Ids : state.map[id] # NoRow})
    /\ state.count = Cardinality(state.deleted)
    /\ state.live + state.count = CommittedRows(state)

\* Outside an insert and a Level B section, searches can reach every live row,
\* but for those of a batch whose parallel_for threw.
LiveRowsAreLinked ==
    (exclusive = {} /\ \A t \in Threads : pc[t] \notin SectionPoints)
        => LiveRows(state) \subseteq state.linked \cup state.stranded

\* docs/concurrency.md:42: a snapshot never contains rows that are allocated
\* but not yet linked, again but for those of a batch whose parallel_for threw.
SavedRowsAreLinked ==
    file # None => LiveRows(file) \subseteq file.linked \cup file.stranded

\* What a mutating call leaves behind when it returns, compared with what the
\* collection held when it got `writers`: a successful call did all it was
\* asked to; a failed add() or remove() did nothing; after a failed batch every
\* id has its new or its old vector and no other id changed; compaction never
\* changes the contents.
CallOutcome ==
    \A t \in Threads : pc[t] = "return" =>
        LET now   == Contents(state)
            asked == [id \in Ids |->
                        IF job.op = "remove" /\ id = job.ids[1] THEN None
                        ELSE IF \E i \in DOMAIN job.vals : job.ids[i] = id
                             THEN job.vals[CHOOSE i \in DOMAIN job.vals : job.ids[i] = id]
                             ELSE job.before[id]]
        IN  /\ outcome = "ok" => now = asked
            /\ outcome # "ok" =>
                 IF job.op = "add_batch"
                 THEN \A id \in Ids : now[id] \in {asked[id], job.before[id]}
                 ELSE now = job.before

\* Every call returns.
EveryCallReturns == \A t \in Threads : pc[t] # "idle" ~> pc[t] = "idle"

\* A Collection implements a map from ids to vectors: answers and files agree
\* with the contents at one moment, and compaction is invisible.
Map == INSTANCE VectorMap WITH
          Missing  <- None,
          contents <- Contents(state),
          saved    <- IF file = None THEN None ELSE Contents(Loaded(file))

ImplementsVectorMap == Map!Spec
=============================================================================

-------------------------- MODULE CollectionProofs --------------------------
(***************************************************************************)
(* Proofs about Collection, for any sets of threads, ids and vectors, any  *)
(* number of rows, any length of batches and both modes.                   *)
(***************************************************************************)
EXTENDS Collection, FiniteSetTheorems, SequenceTheorems, TLAPS

\* The ids a state maps to a row, and the vector it holds for one.
Mapped(s) == {id \in Ids : s.map[id] # NoRow}
Vector(s, id) == IF s.map[id] = NoRow THEN None ELSE s.vec[s.map[id]]

\* Where the thread that holds `writers` is.
Here == IF writers = None THEN "idle" ELSE pc[writers]

\* The locations of a mutating call, and those with each lock.
BatchPoints == {"slice", "check", "section", "grow", "reserve"} \cup InsertPoints \cup SectionPoints
WriterPoints == BatchPoints \cup {"remove", "compact", "rebuild", "swap", "return"}
ExclusivePoints == InsertPoints \cup {"reserve", "abandon"}
SharedPoints == {"link", "rebuild", "get", "search", "found", "save_graph"}
LinkPoints == SectionPoints \cup {"grow", "save", "save_graph"}

\* A state whose first n rows are committed: the id map, the labels, the
\* tombstones and the two counters describe the same rows.
Sound(s, n) ==
    /\ StateOK(s)
    /\ n \in 0..s.rows
    /\ \A r \in 1..s.rows : s.vec[r] \in Vals
    /\ s.deleted \subseteq 1..n
    /\ \A id \in Ids : s.map[id] # NoRow =>
          s.map[id] \in (1..n) \ s.deleted /\ s.label[s.map[id]] = id
    /\ \A r \in (1..n) \ s.deleted : s.label[r] \in Ids /\ s.map[s.label[r]] = r
    /\ IsFiniteSet(Mapped(s)) /\ s.live = Cardinality(Mapped(s))
    /\ s.count = Cardinality(s.deleted)
    /\ s.live + s.count = n

\* Who holds which lock.
LocksInOrder ==
    /\ \A t \in Threads :
          /\ pc[t] \in WriterPoints <=> writers = t
          /\ t \in exclusive <=> pc[t] \in ExclusivePoints
          /\ t \in shared <=> pc[t] \in SharedPoints
          /\ link = t <=> \/ pc[t] \in LinkPoints
                          \/ IsLevelB /\ pc[t] \in InsertPoints \cup {"reserve"}
    /\ exclusive # {} => shared = {}

\* The rows of the batch that have been dealt with, and those committed.
Dealt == done + Len(grown)
Committed(at) == IF at \in {"index", "commit"} THEN state.rows - 1 ELSE state.rows

\* The batch of a call to add() or add_batch().
IsBatch ==
    /\ Len(job.ids) \in 1..MaxBatch
    /\ job.ids \in [1..Len(job.ids) -> Ids]
    /\ job.vals \in [1..Len(job.ids) -> Vals]
    /\ \A i, j \in 1..Len(job.ids) : job.ids[i] = job.ids[j] => i = j
    /\ job.op = "add" => Len(job.ids) = 1

Inserts == {"add", "add_batch"}

JobInOrder(at) ==
    /\ at # "idle" => job.op \in Inserts \cup {"remove", "compact"}
    /\ at \in BatchPoints => job.op \in Inserts
    /\ at = "remove" => job.op = "remove"
    /\ at \in {"compact", "rebuild", "swap"} => job.op = "compact"
    /\ at \in SectionPoints \cup {"section", "grow"} => IsLevelB
    /\ at = "slice" => ~IsLevelB
    /\ at = "check" => job.op = "add_batch"
    /\ at # "idle" =>
          /\ job.op \in Inserts => IsBatch
          /\ job.op = "remove" => job.ids \in Seq(Ids) /\ Len(job.ids) = 1 /\ job.vals = <<>>
          /\ job.op = "compact" => job.vals = <<>>

\* How far the call has got.
BatchInOrder(at) ==
    /\ done \in 0..MaxBatch
    /\ grown \in Seq(Rows \cup {NoRow})
    /\ unlinked \subseteq 1..MaxBatch /\ failed \subseteq 1..MaxBatch
    /\ ~IsLevelB => grown = <<>>
    /\ job.op \in Inserts => Dealt <= Len(job.ids)
    /\ at \in {"idle", "check", "remove", "compact", "rebuild", "swap"} => done = 0
    /\ at \in {"idle", "slice", "check", "section", "grow"} => grown = <<>>
    /\ at \in {"slice", "section", "grow", "reserve"} \cup InsertPoints => Dealt < Len(job.ids)
    /\ at \notin SectionPoints \cup {"return"} => outcome = "ok"
    /\ at \in {"begin_link", "link", "begin_abandon", "abandon"} =>
          unlinked \cup failed \subseteq 1..Len(grown)
    /\ at \in {"begin_abandon", "abandon"} => unlinked = {} /\ failed # {}
    /\ at = "begin_link" => failed = {}
    /\ at = "link" => unlinked \cap failed = {}
    /\ outcome \in {"ok", "error", "throws"}

\* The rows of the section that still need a link, or have to be abandoned.
Waiting(at) ==
    IF at \in InsertPoints \cup {"reserve"} THEN 1..Len(grown)
    ELSE IF at \in {"begin_link", "link", "begin_abandon", "abandon"} THEN unlinked \cup failed
    ELSE {}

\* The row of the i-th id of the section.
Row(at, i) == Committed(at) - Len(grown) + i

\* A waiting row can be abandoned: it is what its id maps to, and the row it
\* replaced is intact.
GrownInOrder(at) ==
    \A i \in Waiting(at) :
        LET id == job.ids[done + i] IN
        /\ Row(at, i) >= 1
        /\ state.map[id] = Row(at, i)
        /\ job.before[id] = IF grown[i] = NoRow THEN None ELSE state.vec[grown[i]]
        /\ grown[i] # NoRow =>
              /\ grown[i] \in state.deleted
              /\ grown[i] \in state.linked \cup state.stranded
              /\ state.label[grown[i]] = id

\* The id that is reserved, and the row that is appended and not yet committed.
InsertInOrder(at) ==
    /\ state.pending = IF at \in InsertPoints THEN {job.ids[Position]} ELSE {}
    /\ at \in {"index", "commit"} =>
          state.rows >= 1 /\ state.vec[state.rows] = job.vals[Position]

\* Searches reach every live row but the waiting ones.
LinkedInOrder(at) ==
    /\ state.linked \subseteq 1..(IF at = "index" THEN state.rows - 1 ELSE state.rows)
    /\ at = "commit" /\ ~IsLevelB => state.rows \in state.linked
    /\ \A r \in (1..Committed(at)) \ state.deleted :
          r \in state.linked \cup state.stranded \/ \E i \in Waiting(at) : r = Row(at, i)

\* What the call has changed so far.
ContentsInOrder(at) ==
    LET now(id) == Vector(state, id)
        removed == job.op = "remove" /\ at = "return" /\ outcome = "ok"
    IN  at # "idle" =>
        /\ job.op \notin Inserts => \A id \in Ids :
              now(id) = IF removed /\ id = job.ids[1] THEN None ELSE job.before[id]
        /\ job.op \in Inserts =>
              /\ \A id \in Ids : (\A k \in 1..Dealt : job.ids[k] # id) => now(id) = job.before[id]
              /\ \A k \in 1..Dealt :
                    /\ now(job.ids[k]) \in {job.vals[k], job.before[job.ids[k]]}
                    /\ outcome = "ok" => now(job.ids[k]) = job.vals[k]
              /\ at = "return" /\ outcome = "ok" => Dealt = Len(job.ids)
              /\ job.op = "add" /\ outcome # "ok" => Dealt = 0

\* The new state of a compaction holds the old one's rows before the cursor.
RebuiltInOrder(at) ==
    /\ StateOK(rebuilt)
    /\ cursor \in 1..(MaxRows + 1)
    /\ at \in {"rebuild", "swap"} =>
          /\ Sound(rebuilt, rebuilt.rows)
          /\ rebuilt.pending = {}
          /\ rebuilt.linked = 1..rebuilt.rows
          /\ rebuilt.rows < cursor
          /\ \A id \in Ids :
                IF state.map[id] \in 1..(cursor - 1)
                THEN rebuilt.map[id] # NoRow /\ Vector(rebuilt, id) = Vector(state, id)
                ELSE rebuilt.map[id] = NoRow
    /\ at = "swap" => cursor > state.rows

\* What a reading thread has read is still so.
ReadInOrder(at, read) ==
    /\ at = "get" => \E id \in Ids : read = <<id, state.map[id]>>
    /\ at = "found" => \E r \in (1..state.rows) \ state.deleted : read = <<r, state.vec[r]>>
    /\ at = "save_graph" =>
          /\ read.rows = state.rows /\ read.label = state.label
          /\ read.vec = state.vec /\ read.deleted = state.deleted

ReadersInOrder ==
    /\ local = [t \in Threads |-> local[t]]
    /\ \A t \in Threads : ReadInOrder(pc[t], local[t])

\* A saved file can be loaded.
FileInOrder ==
    file # None =>
        /\ Sound(Loaded(file), file.rows)
        /\ file.linked \subseteq 1..file.rows
        /\ LiveRows(file) \subseteq file.linked \cup file.stranded

\* The part that only the thread with `writers` can change: the collection, and
\* how far its call has got.
StoreInOrder(at) ==
    Sound(state, Committed(at)) /\ GrownInOrder(at) /\ InsertInOrder(at) /\ LinkedInOrder(at)

CallInOrder(at) ==
    JobInOrder(at) /\ BatchInOrder(at) /\ ContentsInOrder(at) /\ RebuiltInOrder(at)

WriterInOrder(at) == StoreInOrder(at) /\ CallInOrder(at)

LocksOK ==
    /\ pc \in [Threads -> Locations]
    /\ writers \in Threads \cup {None} /\ link \in Threads \cup {None}
    /\ shared \subseteq Threads /\ exclusive \subseteq Threads
    /\ LocksInOrder

\* What the call is compared with is a map of all ids.
BeforeInOrder == job.before = [id \in Ids |-> job.before[id]]

\* The inductive invariant.
IndInv ==
    /\ LocksOK
    /\ BeforeInOrder
    /\ WriterInOrder(Here)
    /\ ReadersInOrder
    /\ FileInOrder
-----------------------------------------------------------------------------
\* What the operators on a CollectionState change.

\* Two states with the same rows, id map and counters.
Alike(s, x) ==
    /\ x.rows = s.rows /\ x.label = s.label /\ x.vec = s.vec
    /\ x.deleted = s.deleted /\ x.count = s.count
    /\ x.map = s.map /\ x.live = s.live

\* IdMap::reserve only marks the id.
LEMMA ReserveFields ==
    ASSUME NEW s, StateOK(s), NEW id \in Ids
    PROVE  /\ StateOK(Reserve(s, id)) /\ Alike(s, Reserve(s, id))
           /\ Reserve(s, id).pending = s.pending \cup {id}
           /\ Reserve(s, id).linked = s.linked /\ Reserve(s, id).stranded = s.stranded
  BY DEF StateOK, Alike, Reserve

\* IdMap::rollback only undoes the mark.
LEMMA RollbackFields ==
    ASSUME NEW s, StateOK(s), NEW id \in Ids
    PROVE  /\ StateOK(Rollback(s, id)) /\ Alike(s, Rollback(s, id))
           /\ Rollback(s, id).pending = s.pending \ {id}
           /\ Rollback(s, id).linked = s.linked /\ Rollback(s, id).stranded = s.stranded
  BY DEF StateOK, Alike, Rollback

\* Linking rows touches nothing else.
LEMMA LinkedFields ==
    ASSUME NEW s, StateOK(s), NEW R \in SUBSET Rows, NEW x,
           x = [s EXCEPT !.linked = @ \cup R]
    PROVE  /\ StateOK(x) /\ Alike(s, x)
           /\ x.linked = s.linked \cup R
           /\ x.pending = s.pending /\ x.stranded = s.stranded
  BY DEF StateOK, Alike

\* Nor does leaving rows behind unlinked.
LEMMA StrandedFields ==
    ASSUME NEW s, StateOK(s), NEW R \in SUBSET Rows, NEW x,
           x = [s EXCEPT !.stranded = @ \cup R]
    PROVE  /\ StateOK(x) /\ Alike(s, x)
           /\ x.stranded = s.stranded \cup R
           /\ x.pending = s.pending /\ x.linked = s.linked
  BY DEF StateOK, Alike

\* VectorStore::append writes the row after the last one.
AppendEffect(s, v, x) ==
    /\ StateOK(x)
    /\ x.rows = s.rows + 1
    /\ x.vec = [s.vec EXCEPT ![s.rows + 1] = v]
    /\ x.label = s.label /\ x.deleted = s.deleted /\ x.count = s.count
    /\ x.map = s.map /\ x.live = s.live
    /\ x.pending = s.pending /\ x.linked = s.linked /\ x.stranded = s.stranded

\* VectorStore::append() keeps the state well typed and does what AppendEffect says.
LEMMA AppendFields ==
    ASSUME NEW s, StateOK(s), s.rows < MaxRows, NEW v \in Vals, NEW x, x = AppendRow(s, v)
    PROVE  AppendEffect(s, v, x)
<1>1. s.rows + 1 \in Rows /\ s.rows + 1 \in 0..MaxRows
  BY CollectionAssumption DEF StateOK, Rows
<1>2. [s.vec EXCEPT ![s.rows + 1] = v] \in [Rows -> Vals \cup {None}]
  BY <1>1 DEF StateOK
<1> QED
  BY <1>1, <1>2 DEF StateOK, AppendRow, AppendEffect

\* VectorStore::pop_back clears the last row.
LEMMA PopFields ==
    ASSUME NEW s, StateOK(s), s.rows >= 1, NEW x, x = PopBack(s)
    PROVE  /\ StateOK(x)
           /\ x.rows = s.rows - 1
           /\ x.vec = [s.vec EXCEPT ![s.rows] = None]
           /\ x.label = s.label /\ x.deleted = s.deleted /\ x.count = s.count
           /\ x.map = s.map /\ x.live = s.live
           /\ x.pending = s.pending /\ x.linked = s.linked /\ x.stranded = s.stranded
<1>1. s.rows \in Rows /\ s.rows - 1 \in 0..MaxRows
  BY CollectionAssumption DEF StateOK, Rows
<1>2. [s.vec EXCEPT ![s.rows] = None] \in [Rows -> Vals \cup {None}]
  BY <1>1 DEF StateOK
<1> QED
  BY <1>1, <1>2 DEF StateOK, PopBack

\* TombstoneSet::set: the bit, and the count if the bit was not set.
LEMMA SetDeletedFields ==
    ASSUME NEW s, StateOK(s), NEW r \in Rows, NEW x, x = SetDeleted(s, r)
    PROVE  /\ StateOK(x)
           /\ x.deleted = s.deleted \cup {r}
           /\ x.count = IF r \in s.deleted THEN s.count ELSE s.count + 1
           /\ x.rows = s.rows /\ x.label = s.label /\ x.vec = s.vec
           /\ x.map = s.map /\ x.live = s.live
           /\ x.pending = s.pending /\ x.linked = s.linked /\ x.stranded = s.stranded
  BY DEF StateOK, SetDeleted

\* TombstoneSet::clear: the bit, and the count if the bit was set.
LEMMA ClearDeletedFields ==
    ASSUME NEW s, StateOK(s), NEW r \in Rows, r \in s.deleted => s.count >= 1,
           NEW x, x = ClearDeleted(s, r)
    PROVE  /\ StateOK(x)
           /\ x.deleted = s.deleted \ {r}
           /\ x.count = IF r \in s.deleted THEN s.count - 1 ELSE s.count
           /\ x.rows = s.rows /\ x.label = s.label /\ x.vec = s.vec
           /\ x.map = s.map /\ x.live = s.live
           /\ x.pending = s.pending /\ x.linked = s.linked /\ x.stranded = s.stranded
  BY DEF StateOK, ClearDeleted

\* IdMap::commit: the id maps to the row, which carries its label; a replaced
\* row is tombstoned.
CommitEffect(s, id, r, x) ==
    /\ StateOK(x)
    /\ x.map = [s.map EXCEPT ![id] = r]
    /\ x.label = [s.label EXCEPT ![r] = id]
    /\ x.pending = s.pending \ {id}
    /\ s.map[id] = NoRow => /\ x.live = s.live + 1
                            /\ x.deleted = s.deleted /\ x.count = s.count
    /\ s.map[id] # NoRow => /\ x.live = s.live
                            /\ x.deleted = s.deleted \cup {s.map[id]}
                            /\ x.count = s.count + 1
    /\ x.rows = s.rows /\ x.vec = s.vec
    /\ x.linked = s.linked /\ x.stranded = s.stranded

\* IdMap::commit() keeps the state well typed and does what CommitEffect says.
LEMMA CommitFields ==
    ASSUME NEW s, StateOK(s), NEW id \in Ids, NEW r \in Rows,
           s.map[id] # NoRow => s.map[id] \notin s.deleted,
           NEW x, x = Commit(s, id, r)
    PROVE  CommitEffect(s, id, r, x)
<1> USE DEF CommitEffect
<1> DEFINE c == [s EXCEPT !.map[id] = r, !.pending = @ \ {id},
                          !.live = IF s.map[id] = NoRow THEN @ + 1 ELSE @,
                          !.label[r] = id]
<1>1. /\ [s.map EXCEPT ![id] = r] \in [Ids -> Rows \cup {NoRow}]
      /\ [s.label EXCEPT ![r] = id] \in [Rows -> Ids \cup {None}]
  BY DEF StateOK
<1>2. /\ DOMAIN c = DOMAIN s
      /\ c.map = [s.map EXCEPT ![id] = r]
      /\ c.label = [s.label EXCEPT ![r] = id]
      /\ c.pending = s.pending \ {id}
      /\ c.live = IF s.map[id] = NoRow THEN s.live + 1 ELSE s.live
      /\ c.deleted = s.deleted /\ c.count = s.count
      /\ c.rows = s.rows /\ c.vec = s.vec
      /\ c.linked = s.linked /\ c.stranded = s.stranded
  BY DEF StateOK
<1>3. PICK y : y = c
  OBVIOUS
<1>4. StateOK(y)
  BY <1>1, <1>2, <1>3 DEF StateOK
<1>5. x = IF s.map[id] = NoRow THEN y ELSE SetDeleted(y, s.map[id])
  BY <1>3 DEF Commit
<1>6. CASE s.map[id] = NoRow
  BY <1>2, <1>3, <1>4, <1>5, <1>6
<1>7. CASE s.map[id] # NoRow
  <2>1. s.map[id] \in Rows
    BY <1>7 DEF StateOK
  <2>2. x = SetDeleted(y, s.map[id])
    BY <1>5, <1>7
  <2>3. /\ StateOK(x)
        /\ x.deleted = y.deleted \cup {s.map[id]}
        /\ x.count = IF s.map[id] \in y.deleted THEN y.count ELSE y.count + 1
        /\ x.rows = y.rows /\ x.label = y.label /\ x.vec = y.vec
        /\ x.map = y.map /\ x.live = y.live
        /\ x.pending = y.pending /\ x.linked = y.linked /\ x.stranded = y.stranded
    BY <1>4, <2>1, <2>2, SetDeletedFields
  <2> QED
    BY <1>2, <1>3, <1>7, <2>3
<1> QED
  BY <1>6, <1>7

\* IdMap::erase: the id maps to nothing and its row is tombstoned.
LEMMA EraseFields ==
    ASSUME NEW s, StateOK(s), NEW id \in Ids, s.map[id] # NoRow, s.live >= 1,
           s.map[id] \notin s.deleted, NEW x, x = Erase(s, id)
    PROVE  /\ StateOK(x)
           /\ x.map = [s.map EXCEPT ![id] = NoRow]
           /\ x.live = s.live - 1
           /\ x.deleted = s.deleted \cup {s.map[id]}
           /\ x.count = s.count + 1
           /\ x.rows = s.rows /\ x.vec = s.vec /\ x.label = s.label
           /\ x.pending = s.pending
           /\ x.linked = s.linked /\ x.stranded = s.stranded
<1> DEFINE c == [s EXCEPT !.map[id] = NoRow, !.live = @ - 1]
<1>1. [s.map EXCEPT ![id] = NoRow] \in [Ids -> Rows \cup {NoRow}]
  BY DEF StateOK
<1>2. /\ DOMAIN c = DOMAIN s
      /\ c.map = [s.map EXCEPT ![id] = NoRow]
      /\ c.live = s.live - 1
      /\ c.deleted = s.deleted /\ c.count = s.count
      /\ c.rows = s.rows /\ c.vec = s.vec /\ c.label = s.label /\ c.pending = s.pending
      /\ c.linked = s.linked /\ c.stranded = s.stranded
  BY DEF StateOK
<1>3. PICK y : y = c
  OBVIOUS
<1>4. StateOK(y)
  BY <1>1, <1>2, <1>3 DEF StateOK
<1>5. s.map[id] \in Rows /\ x = SetDeleted(y, s.map[id])
  BY <1>3 DEF Erase, StateOK
<1>6. /\ StateOK(x)
      /\ x.deleted = y.deleted \cup {s.map[id]}
      /\ x.count = IF s.map[id] \in y.deleted THEN y.count ELSE y.count + 1
      /\ x.rows = y.rows /\ x.label = y.label /\ x.vec = y.vec
      /\ x.map = y.map /\ x.live = y.live
      /\ x.pending = y.pending /\ x.linked = y.linked /\ x.stranded = y.stranded
  BY <1>4, <1>5, SetDeletedFields
<1> QED
  BY <1>2, <1>3, <1>6

\* abandon_row: the id maps to the replaced row again, or to nothing; the row
\* is tombstoned and the replaced one is not.
LEMMA AbandonFields ==
    ASSUME NEW s, StateOK(s), NEW id \in Ids, NEW r \in Rows, r \notin s.deleted,
           NEW p \in Rows \cup {NoRow}, s.live >= 1,
           p # NoRow => p \in s.deleted, NEW x, x = Abandon(s, id, r, p)
    PROVE  /\ StateOK(x)
           /\ x.map = [s.map EXCEPT ![id] = p]
           /\ p = NoRow => /\ x.live = s.live - 1
                           /\ x.deleted = s.deleted \cup {r}
                           /\ x.count = s.count + 1
           /\ p # NoRow => /\ x.live = s.live
                           /\ x.deleted = (s.deleted \cup {r}) \ {p}
                           /\ x.count = s.count
           /\ x.rows = s.rows /\ x.vec = s.vec /\ x.label = s.label
           /\ x.pending = s.pending
           /\ x.linked = s.linked /\ x.stranded = s.stranded
<1> DEFINE c == [s EXCEPT !.map[id] = p, !.live = IF p = NoRow THEN @ - 1 ELSE @]
<1>1. [s.map EXCEPT ![id] = p] \in [Ids -> Rows \cup {NoRow}]
  BY DEF StateOK
<1>2. /\ DOMAIN c = DOMAIN s
      /\ c.map = [s.map EXCEPT ![id] = p]
      /\ c.live = IF p = NoRow THEN s.live - 1 ELSE s.live
      /\ c.deleted = s.deleted /\ c.count = s.count
      /\ c.rows = s.rows /\ c.vec = s.vec /\ c.label = s.label /\ c.pending = s.pending
      /\ c.linked = s.linked /\ c.stranded = s.stranded
  BY DEF StateOK
<1>3. PICK y : y = c
  OBVIOUS
<1>4. StateOK(y)
  BY <1>1, <1>2, <1>3 DEF StateOK
<1>5. PICK z : z = SetDeleted(y, r)
  OBVIOUS
<1>6. /\ StateOK(z)
      /\ z.deleted = s.deleted \cup {r} /\ z.count = s.count + 1
      /\ z.map = y.map /\ z.live = y.live
      /\ z.rows = s.rows /\ z.vec = s.vec /\ z.label = s.label /\ z.pending = s.pending
      /\ z.linked = s.linked /\ z.stranded = s.stranded
  <2>1. /\ StateOK(z)
        /\ z.deleted = y.deleted \cup {r}
        /\ z.count = IF r \in y.deleted THEN y.count ELSE y.count + 1
        /\ z.rows = y.rows /\ z.label = y.label /\ z.vec = y.vec
        /\ z.map = y.map /\ z.live = y.live
        /\ z.pending = y.pending /\ z.linked = y.linked /\ z.stranded = y.stranded
    BY <1>4, <1>5, SetDeletedFields
  <2> QED
    BY <1>2, <1>3, <2>1
<1>7. x = IF p = NoRow THEN z ELSE ClearDeleted(z, p)
  BY <1>3, <1>5 DEF Abandon
<1>8. CASE p = NoRow
  BY <1>2, <1>3, <1>6, <1>7, <1>8
<1>9. CASE p # NoRow
  <2>1. p \in Rows /\ p \in z.deleted /\ z.count >= 1 /\ x = ClearDeleted(z, p)
    BY <1>6, <1>7, <1>9 DEF StateOK
  <2>2. /\ StateOK(x)
        /\ x.deleted = z.deleted \ {p} /\ x.count = z.count - 1
        /\ x.map = z.map /\ x.live = z.live
        /\ x.rows = z.rows /\ x.vec = z.vec /\ x.label = z.label /\ x.pending = z.pending
        /\ x.linked = z.linked /\ x.stranded = z.stranded
    BY <1>6, <2>1, ClearDeletedFields
  <2>3. x.count = s.count
    BY <1>6, <2>2 DEF StateOK
  <2> QED
    BY <1>2, <1>3, <1>6, <1>9, <2>2, <2>3
<1> QED
  BY <1>8, <1>9
-----------------------------------------------------------------------------
\* The operators keep a sound state sound.

\* The ids in use, when one is added or taken away.
LEMMA MappedChanges ==
    ASSUME NEW s, StateOK(s), NEW x, NEW id \in Ids, NEW r \in Rows \cup {NoRow},
           x.map = [s.map EXCEPT ![id] = r], IsFiniteSet(Mapped(s))
    PROVE  /\ IsFiniteSet(Mapped(x))
           /\ r = NoRow /\ s.map[id] # NoRow => Cardinality(Mapped(x)) = Cardinality(Mapped(s)) - 1
           /\ r # NoRow /\ s.map[id] = NoRow => Cardinality(Mapped(x)) = Cardinality(Mapped(s)) + 1
           /\ r # NoRow /\ s.map[id] # NoRow => Cardinality(Mapped(x)) = Cardinality(Mapped(s))
<1>1. /\ x.map[id] = r
      /\ \A i \in Ids \ {id} : x.map[i] = s.map[i]
  BY DEF StateOK
<1>2. CASE r = NoRow
  <2>1. Mapped(x) = Mapped(s) \ {id}
    BY <1>1, <1>2 DEF Mapped
  <2>2. s.map[id] # NoRow <=> id \in Mapped(s)
    BY DEF Mapped
  <2> QED
    BY <1>2, <2>1, <2>2, FS_RemoveElement
<1>3. CASE r # NoRow
  <2>1. Mapped(x) = Mapped(s) \cup {id}
    BY <1>1, <1>3 DEF Mapped
  <2>2. s.map[id] # NoRow <=> id \in Mapped(s)
    BY DEF Mapped
  <2> QED
    BY <1>3, <2>1, <2>2, FS_AddElement
<1> QED
  BY <1>2, <1>3

\* The deleted rows are finitely many, and there is one more or one fewer.
LEMMA DeletedChanges ==
    ASSUME NEW n \in Nat, NEW D \in SUBSET (1..n), NEW r
    PROVE  /\ IsFiniteSet(D) /\ Cardinality(D) \in Nat
           /\ r \notin D => Cardinality(D \cup {r}) = Cardinality(D) + 1
           /\ r \in D => Cardinality(D \ {r}) = Cardinality(D) - 1
<1>1. IsFiniteSet(D)
  <2>1. IsFiniteSet(1..n)
    BY FS_Interval
  <2> QED
    BY <2>1, FS_Subset
<1> QED
  BY <1>1, FS_AddElement, FS_RemoveElement, FS_CardinalityType

\* Soundness depends on the rows, the map and the counters only.
LEMMA AlikeSound ==
    ASSUME NEW s, NEW n, Sound(s, n), NEW x, StateOK(x), Alike(s, x)
    PROVE  Sound(x, n)
<1>1. Mapped(x) = Mapped(s)
  BY DEF Mapped, Alike
<1> QED
  BY <1>1 DEF Sound, Alike

\* An appended row is not committed.
LEMMA AppendSound ==
    ASSUME NEW s, Sound(s, s.rows), s.rows < MaxRows, NEW v \in Vals, NEW x, x = AppendRow(s, v)
    PROVE  Sound(x, x.rows - 1)
<1>1. StateOK(s)
  BY DEF Sound
<1>2. /\ StateOK(x)
      /\ x.rows = s.rows + 1
      /\ x.vec = [s.vec EXCEPT ![s.rows + 1] = v]
      /\ x.label = s.label /\ x.deleted = s.deleted /\ x.count = s.count
      /\ x.map = s.map /\ x.live = s.live
  <2>1. AppendEffect(s, v, x)
    BY <1>1, AppendFields
  <2> QED
    BY <2>1 DEF AppendEffect
<1>3. s.rows \in Nat /\ x.rows - 1 = s.rows /\ s.rows + 1 \in Rows
  BY <1>1, <1>2, CollectionAssumption DEF StateOK, Rows
<1>4. Mapped(x) = Mapped(s)
  BY <1>2 DEF Mapped
<1>5. \A r \in 1..x.rows : x.vec[r] \in Vals
  <2> SUFFICES ASSUME NEW r \in 1..x.rows PROVE x.vec[r] \in Vals
    OBVIOUS
  <2>1. CASE r = s.rows + 1
    BY <1>1, <1>2, <1>3, <2>1 DEF StateOK
  <2>2. CASE r # s.rows + 1
    <3>1. r \in 1..s.rows
      BY <1>2, <1>3, <2>2
    <3>2. s.vec[r] \in Vals
      BY <3>1 DEF Sound
    <3> QED
      BY <1>1, <1>2, <2>2, <3>2, <3>1, <1>3 DEF StateOK, Rows
  <2> QED
    BY <2>1, <2>2
<1> QED
  BY <1>2, <1>3, <1>4, <1>5 DEF Sound

\* Taking back the row that is not committed.
LEMMA PopSound ==
    ASSUME NEW s, Sound(s, s.rows - 1), s.rows >= 1, NEW x, x = PopBack(s)
    PROVE  Sound(x, x.rows)
<1>1. StateOK(s)
  BY DEF Sound
<1>2. /\ StateOK(x)
      /\ x.rows = s.rows - 1
      /\ x.vec = [s.vec EXCEPT ![s.rows] = None]
      /\ x.label = s.label /\ x.deleted = s.deleted /\ x.count = s.count
      /\ x.map = s.map /\ x.live = s.live
  BY <1>1, PopFields
<1>3. s.rows \in Nat /\ s.rows \in Rows
  BY <1>1, CollectionAssumption DEF StateOK, Rows
<1>4. Mapped(x) = Mapped(s)
  BY <1>2 DEF Mapped
<1>5. \A r \in 1..x.rows : x.vec[r] \in Vals
  <2> SUFFICES ASSUME NEW r \in 1..x.rows PROVE x.vec[r] \in Vals
    OBVIOUS
  <2>1. r \in 1..s.rows /\ r # s.rows /\ r \in Rows
    BY <1>1, <1>2, <1>3, CollectionAssumption DEF StateOK, Rows
  <2>2. s.vec[r] \in Vals
    BY <2>1 DEF Sound
  <2> QED
    BY <1>1, <1>2, <2>1, <2>2 DEF StateOK
<1> QED
  BY <1>2, <1>3, <1>4, <1>5 DEF Sound

\* Committing the last row.
LEMMA CommitSound ==
    ASSUME NEW s, NEW r \in Rows, r = s.rows, Sound(s, r - 1), NEW id \in Ids,
           NEW x, x = Commit(s, id, r)
    PROVE  Sound(x, x.rows)
<1>1. StateOK(s) /\ r \in Nat \ {0}
  BY CollectionAssumption DEF Sound, Rows
<1>2. s.map[id] # NoRow =>
          /\ s.map[id] \in 1..(r - 1) /\ s.map[id] \notin s.deleted
          /\ s.label[s.map[id]] = id
  BY DEF Sound
<1>3. /\ StateOK(x)
      /\ x.map = [s.map EXCEPT ![id] = r]
      /\ x.label = [s.label EXCEPT ![r] = id]
      /\ s.map[id] = NoRow => /\ x.live = s.live + 1
                              /\ x.deleted = s.deleted /\ x.count = s.count
      /\ s.map[id] # NoRow => /\ x.live = s.live
                              /\ x.deleted = s.deleted \cup {s.map[id]}
                              /\ x.count = s.count + 1
      /\ x.rows = s.rows /\ x.vec = s.vec
  <2>1. StateOK(s) /\ (s.map[id] # NoRow => s.map[id] \notin s.deleted)
    BY <1>1, <1>2
  <2>2. CommitEffect(s, id, r, x)
    BY <2>1, CommitFields
  <2> QED
    BY <2>2 DEF CommitEffect
<1>4. /\ x.map[id] = r /\ \A i \in Ids \ {id} : x.map[i] = s.map[i]
      /\ x.label[r] = id /\ \A q \in Rows \ {r} : x.label[q] = s.label[q]
  BY <1>1, <1>3 DEF StateOK
<1>5. /\ IsFiniteSet(Mapped(x))
      /\ s.map[id] = NoRow => Cardinality(Mapped(x)) = Cardinality(Mapped(s)) + 1
      /\ s.map[id] # NoRow => Cardinality(Mapped(x)) = Cardinality(Mapped(s))
  <2>1. r # NoRow /\ r \in Rows \cup {NoRow} /\ IsFiniteSet(Mapped(s))
    BY <1>1 DEF NoRow, Sound
  <2> QED
    BY <1>1, <1>3, <2>1, MappedChanges
<1>6. s.map[id] # NoRow =>
          Cardinality(s.deleted \cup {s.map[id]}) = Cardinality(s.deleted) + 1
  <2>1. s.deleted \in SUBSET (1..(r - 1)) /\ r - 1 \in Nat
    BY <1>1 DEF Sound
  <2> QED
    BY <1>2, <2>1, DeletedChanges
<1>7. \A i \in Ids : s.map[i] # NoRow =>
          s.map[i] \in 1..(r - 1) /\ s.map[i] \notin s.deleted /\ s.label[s.map[i]] = i
  BY DEF Sound
<1>8. x.deleted \subseteq 1..(r - 1)
  BY <1>2, <1>3 DEF Sound
<1>9. \A i \in Ids : x.map[i] # NoRow =>
          x.map[i] \in (1..x.rows) \ x.deleted /\ x.label[x.map[i]] = i
  <2> SUFFICES ASSUME NEW i \in Ids, x.map[i] # NoRow
               PROVE  x.map[i] \in (1..r) \ x.deleted /\ x.label[x.map[i]] = i
    BY <1>3
  <2>1. CASE i = id
    BY <1>1, <1>4, <1>8, <2>1
  <2>2. CASE i # id
    <3>1. /\ x.map[i] = s.map[i] /\ s.map[i] \in 1..(r - 1)
          /\ s.map[i] \notin s.deleted /\ s.label[s.map[i]] = i
      BY <1>4, <1>7, <2>2
    <3>2. x.label[s.map[i]] = i
      <4>1. s.map[i] \in Rows \ {r}
        BY <1>1, <3>1, CollectionAssumption DEF Rows
      <4> QED
        BY <1>4, <3>1, <4>1
    <3>3. s.map[i] # s.map[id]
      BY <1>2, <2>2, <3>1
    <3> QED
      BY <1>1, <1>3, <3>1, <3>2, <3>3
  <2> QED
    BY <2>1, <2>2
<1>10. \A q \in (1..x.rows) \ x.deleted : x.label[q] \in Ids /\ x.map[x.label[q]] = q
  <2> SUFFICES ASSUME NEW q \in 1..r, q \notin x.deleted
               PROVE  x.label[q] \in Ids /\ x.map[x.label[q]] = q
    BY <1>3
  <2>1. CASE q = r
    BY <1>4, <2>1
  <2>2. CASE q # r
    <3>1. q \in 1..(r - 1) /\ q \in Rows
      BY <1>1, <2>2, CollectionAssumption DEF Rows
    <3>0. q \notin s.deleted
      BY <1>3
    <3>2. s.label[q] \in Ids /\ s.map[s.label[q]] = q /\ x.label[q] = s.label[q]
      BY <1>4, <2>2, <3>0, <3>1 DEF Sound
    <3>3. s.label[q] # id
      <4>1. q # NoRow
        BY <3>1 DEF NoRow
      <4> QED
        BY <1>3, <3>2, <4>1
    <3> QED
      BY <1>4, <3>2, <3>3
  <2> QED
    BY <2>1, <2>2
<1>11. /\ x.live = Cardinality(Mapped(x)) /\ x.count = Cardinality(x.deleted)
       /\ x.live + x.count = x.rows
  <2>1. /\ s.live = Cardinality(Mapped(s)) /\ s.count = Cardinality(s.deleted)
        /\ s.live + s.count = r - 1 /\ s.live \in Nat /\ s.count \in Nat
    BY DEF Sound, StateOK
  <2>2. CASE s.map[id] = NoRow
    <3>1. x.live = s.live + 1 /\ x.deleted = s.deleted /\ x.count = s.count
      BY <1>3, <2>2
    <3> QED
      BY <1>1, <1>3, <1>5, <2>1, <2>2, <3>1
  <2>3. CASE s.map[id] # NoRow
    <3>1. x.live = s.live /\ x.deleted = s.deleted \cup {s.map[id]} /\ x.count = s.count + 1
      BY <1>3, <2>3
    <3> QED
      BY <1>1, <1>3, <1>5, <1>6, <2>1, <2>3, <3>1
  <2> QED
    BY <2>2, <2>3
<1>12. /\ x.rows \in 0..x.rows /\ x.deleted \subseteq 1..x.rows
       /\ \A q \in 1..x.rows : x.vec[q] \in Vals
  BY <1>1, <1>3, <1>8 DEF Sound
<1> QED
  BY <1>3, <1>5, <1>9, <1>10, <1>11, <1>12 DEF Sound

\* Erasing an id.
LEMMA EraseSound ==
    ASSUME NEW s, Sound(s, s.rows), NEW id \in Ids, s.map[id] # NoRow, NEW x, x = Erase(s, id)
    PROVE  /\ Sound(x, x.rows)
           /\ x.map = [s.map EXCEPT ![id] = NoRow]
           /\ x.deleted = s.deleted \cup {s.map[id]}
           /\ x.rows = s.rows /\ x.vec = s.vec /\ x.label = s.label
           /\ x.pending = s.pending
           /\ x.linked = s.linked /\ x.stranded = s.stranded
<1>1. /\ StateOK(s) /\ s.rows \in Nat
      /\ s.map[id] \in 1..s.rows /\ s.map[id] \notin s.deleted /\ s.label[s.map[id]] = id
      /\ s.live = Cardinality(Mapped(s)) /\ s.count = Cardinality(s.deleted)
      /\ s.live + s.count = s.rows /\ s.live \in Nat /\ s.count \in Nat
      /\ IsFiniteSet(Mapped(s))
  BY DEF Sound, StateOK
<1>2. s.live >= 1
  <2>1. id \in Mapped(s)
    BY DEF Mapped
  <2>2. Cardinality(Mapped(s)) # 0
    BY <1>1, <2>1, FS_EmptySet
  <2> QED
    BY <1>1, <2>2
<1>3. /\ StateOK(x)
      /\ x.map = [s.map EXCEPT ![id] = NoRow]
      /\ x.live = s.live - 1
      /\ x.deleted = s.deleted \cup {s.map[id]}
      /\ x.count = s.count + 1
      /\ x.rows = s.rows /\ x.vec = s.vec /\ x.label = s.label
      /\ x.pending = s.pending
      /\ x.linked = s.linked /\ x.stranded = s.stranded
  <2>1. StateOK(s) /\ s.live >= 1 /\ s.map[id] \notin s.deleted
    BY <1>1, <1>2
  <2> QED
    BY <2>1, EraseFields
<1>4. x.map[id] = NoRow /\ \A i \in Ids \ {id} : x.map[i] = s.map[i]
  BY <1>1, <1>3 DEF StateOK
<1>5. IsFiniteSet(Mapped(x)) /\ Cardinality(Mapped(x)) = Cardinality(Mapped(s)) - 1
  <2>1. NoRow \in Rows \cup {NoRow}
    OBVIOUS
  <2> QED
    BY <1>1, <1>3, <2>1, MappedChanges
<1>6. s.deleted \subseteq 1..s.rows
  BY DEF Sound
<1>7. Cardinality(x.deleted) = Cardinality(s.deleted) + 1 /\ x.deleted \subseteq 1..x.rows
  <2>1. x.deleted = s.deleted \cup {s.map[id]} /\ x.rows = s.rows
    BY <1>3
  <2>2. s.rows \in Nat /\ s.deleted \in SUBSET (1..s.rows) /\ s.map[id] \notin s.deleted
    BY <1>1, <1>6
  <2>3. Cardinality(s.deleted \cup {s.map[id]}) = Cardinality(s.deleted) + 1
    BY <2>2, DeletedChanges
  <2> QED
    BY <1>1, <1>6, <2>1, <2>3
<1>8. \A i \in Ids : x.map[i] # NoRow =>
          x.map[i] \in (1..x.rows) \ x.deleted /\ x.label[x.map[i]] = i
  <2> SUFFICES ASSUME NEW i \in Ids, x.map[i] # NoRow
               PROVE  x.map[i] \in (1..s.rows) \ x.deleted /\ s.label[x.map[i]] = i
    BY <1>3
  <2>1. i # id /\ x.map[i] = s.map[i]
    BY <1>4
  <2>2. s.map[i] \in (1..s.rows) \ s.deleted /\ s.label[s.map[i]] = i
    BY <2>1 DEF Sound
  <2> QED
    BY <1>1, <1>3, <2>1, <2>2
<1>9. \A q \in (1..x.rows) \ x.deleted : x.label[q] \in Ids /\ x.map[x.label[q]] = q
  <2> SUFFICES ASSUME NEW q \in 1..s.rows, q \notin x.deleted
               PROVE  s.label[q] \in Ids /\ x.map[s.label[q]] = q
    BY <1>3
  <2>1. s.label[q] \in Ids /\ s.map[s.label[q]] = q
    BY <1>3 DEF Sound
  <2> QED
    BY <1>3, <1>4, <2>1
<1>10. /\ x.rows \in 0..x.rows /\ \A q \in 1..x.rows : x.vec[q] \in Vals
  BY <1>1, <1>3 DEF Sound
<1>11. /\ x.live = Cardinality(Mapped(x)) /\ x.count = Cardinality(x.deleted)
       /\ x.live + x.count = x.rows
  BY <1>1, <1>3, <1>5, <1>7
<1> QED
  BY <1>3, <1>5, <1>7, <1>8, <1>9, <1>10, <1>11 DEF Sound

\* Abandoning the row of an id, for the one it replaced or for none.
LEMMA AbandonSound ==
    ASSUME NEW s, Sound(s, s.rows), NEW id \in Ids, NEW r, r = s.map[id], r # NoRow,
           NEW p \in Rows \cup {NoRow},
           p # NoRow => p \in s.deleted /\ s.label[p] = id,
           NEW x, x = Abandon(s, id, r, p)
    PROVE  /\ Sound(x, x.rows)
           /\ x.map = [s.map EXCEPT ![id] = p]
           /\ x.deleted = (s.deleted \cup {r}) \ {p}
           /\ x.rows = s.rows /\ x.vec = s.vec /\ x.label = s.label
           /\ x.pending = s.pending
           /\ x.linked = s.linked /\ x.stranded = s.stranded
<1>1. /\ StateOK(s) /\ s.rows \in Nat
      /\ r \in 1..s.rows /\ r \in Rows /\ r \notin s.deleted /\ s.label[r] = id
      /\ s.live = Cardinality(Mapped(s)) /\ s.count = Cardinality(s.deleted)
      /\ s.live + s.count = s.rows /\ s.live \in Nat /\ s.count \in Nat
      /\ IsFiniteSet(Mapped(s)) /\ s.deleted \subseteq 1..s.rows
  BY DEF Sound, StateOK
<1>2. s.live >= 1
  <2>1. id \in Mapped(s)
    BY DEF Mapped
  <2>2. Cardinality(Mapped(s)) # 0
    BY <1>1, <2>1, FS_EmptySet
  <2> QED
    BY <1>1, <2>2
<1>3. /\ StateOK(x)
      /\ x.map = [s.map EXCEPT ![id] = p]
      /\ p = NoRow => /\ x.live = s.live - 1
                      /\ x.deleted = s.deleted \cup {r}
                      /\ x.count = s.count + 1
      /\ p # NoRow => /\ x.live = s.live
                      /\ x.deleted = (s.deleted \cup {r}) \ {p}
                      /\ x.count = s.count
      /\ x.rows = s.rows /\ x.vec = s.vec /\ x.label = s.label
      /\ x.pending = s.pending
      /\ x.linked = s.linked /\ x.stranded = s.stranded
  BY <1>1, <1>2, AbandonFields
<1>4. x.map[id] = p /\ \A i \in Ids \ {id} : x.map[i] = s.map[i]
  BY <1>1, <1>3 DEF StateOK
<1>5. NoRow \notin 1..s.rows
  BY <1>1 DEF NoRow
<1>6. x.deleted = (s.deleted \cup {r}) \ {p}
  BY <1>1, <1>3, <1>5
<1>7. /\ IsFiniteSet(Mapped(x))
      /\ p = NoRow => Cardinality(Mapped(x)) = Cardinality(Mapped(s)) - 1
      /\ p # NoRow => Cardinality(Mapped(x)) = Cardinality(Mapped(s))
  BY <1>1, <1>3, MappedChanges
<1>8. /\ p = NoRow => Cardinality(x.deleted) = Cardinality(s.deleted) + 1
      /\ p # NoRow => Cardinality(x.deleted) = Cardinality(s.deleted)
  <2> DEFINE D == s.deleted \cup {r}
  <2>1. Cardinality(D) = Cardinality(s.deleted) + 1 /\ D \subseteq 1..s.rows
    BY <1>1, DeletedChanges
  <2>2. p \in D => Cardinality(D \ {p}) = Cardinality(D) - 1
    BY <1>1, <2>1, DeletedChanges
  <2>3. p # NoRow => p \in D
    OBVIOUS
  <2>4. Cardinality(s.deleted) \in Nat
    BY <1>1
  <2> HIDE DEF D
  <2>5. CASE p = NoRow
    <3>1. x.deleted = D
      BY <1>3, <2>5 DEF D
    <3> QED
      BY <2>1, <2>5, <3>1
  <2>6. CASE p # NoRow
    <3>1. x.deleted = D \ {p}
      BY <1>3, <2>6 DEF D
    <3> QED
      BY <2>1, <2>2, <2>3, <2>4, <2>6, <3>1
  <2> QED
    BY <2>5, <2>6
<1>9. \A i \in Ids : x.map[i] # NoRow =>
          x.map[i] \in (1..x.rows) \ x.deleted /\ x.label[x.map[i]] = i
  <2> SUFFICES ASSUME NEW i \in Ids, x.map[i] # NoRow
               PROVE  x.map[i] \in (1..s.rows) \ x.deleted /\ s.label[x.map[i]] = i
    BY <1>3
  <2>1. CASE i = id
    BY <1>1, <1>4, <1>6, <2>1
  <2>2. CASE i # id
    <3>1. x.map[i] = s.map[i]
      BY <1>4, <2>2
    <3>2. s.map[i] \in (1..s.rows) \ s.deleted /\ s.label[s.map[i]] = i
      BY <3>1 DEF Sound
    <3> QED
      BY <1>1, <1>6, <2>2, <3>1, <3>2
  <2> QED
    BY <2>1, <2>2
<1>10. \A q \in (1..x.rows) \ x.deleted : x.label[q] \in Ids /\ x.map[x.label[q]] = q
  <2> SUFFICES ASSUME NEW q \in 1..s.rows, q \notin x.deleted
               PROVE  s.label[q] \in Ids /\ x.map[s.label[q]] = q
    BY <1>3
  <2>1. CASE q = p
    <3>1. s.label[q] = id
      BY <1>5, <2>1
    <3> QED
      BY <1>4, <2>1, <3>1
  <2>2. CASE q # p
    <3>1. q \notin s.deleted /\ q # r
      BY <1>6, <2>2
    <3>2. s.label[q] \in Ids /\ s.map[s.label[q]] = q
      BY <3>1 DEF Sound
    <3> QED
      BY <1>4, <3>1, <3>2
  <2> QED
    BY <2>1, <2>2
<1>11. /\ x.rows \in 0..x.rows /\ \A q \in 1..x.rows : x.vec[q] \in Vals
       /\ x.deleted \subseteq 1..x.rows
  BY <1>1, <1>3, <1>6 DEF Sound
<1>12. /\ x.live = Cardinality(Mapped(x)) /\ x.count = Cardinality(x.deleted)
       /\ x.live + x.count = x.rows
  BY <1>1, <1>3, <1>7, <1>8
<1> QED
  BY <1>3, <1>6, <1>7, <1>9, <1>10, <1>11, <1>12 DEF Sound

\* A new collection is sound.
LEMMA EmptySound ==
    /\ Sound(EmptyState, 0) /\ EmptyState.rows = 0 /\ EmptyState.pending = {}
    /\ EmptyState.linked = {} /\ EmptyState.deleted = {}
    /\ \A id \in Ids : EmptyState.map[id] = NoRow
<1>1. StateOK(EmptyState)
  BY CollectionAssumption DEF EmptyState, StateOK
<1>2. /\ EmptyState.rows = 0 /\ EmptyState.deleted = {} /\ EmptyState.count = 0
      /\ EmptyState.live = 0 /\ EmptyState.pending = {} /\ EmptyState.linked = {}
      /\ \A id \in Ids : EmptyState.map[id] = NoRow
  BY DEF EmptyState
<1>3. Mapped(EmptyState) = {}
  BY <1>2 DEF Mapped
<1>4. IsFiniteSet({}) /\ Cardinality({}) = 0
  BY FS_EmptySet
<1> QED
  BY <1>1, <1>2, <1>3, <1>4 DEF Sound

\* One row of a rebuild: appended, linked and committed.
InsertEffect(s, id, v, x) ==
    /\ Sound(x, x.rows)
    /\ x.rows = s.rows + 1
    /\ x.map = [s.map EXCEPT ![id] = s.rows + 1]
    /\ x.vec = [s.vec EXCEPT ![s.rows + 1] = v]
    /\ x.pending = s.pending \ {id}
    /\ x.linked = s.linked \cup {s.rows + 1}

\* A row that compact() inserts into the new state leaves it sound.
LEMMA InsertSound ==
    ASSUME NEW s, Sound(s, s.rows), s.rows < MaxRows, NEW id \in Ids, s.map[id] = NoRow,
           NEW v \in Vals, NEW x, x = InsertRow(s, id, v)
    PROVE  InsertEffect(s, id, v, x)
<1>1. PICK a : a = Reserve(s, id)
  OBVIOUS
<1>2. PICK b : b = AppendRow(a, v)
  OBVIOUS
<1>3. PICK r : r = s.rows + 1
  OBVIOUS
<1>4. PICK c : c = [b EXCEPT !.linked = @ \cup {r}]
  OBVIOUS
<1>5. StateOK(s) /\ s.rows \in Nat /\ r \in Rows /\ r \in Nat
  BY <1>3, CollectionAssumption DEF Sound, StateOK, Rows
<1>6. /\ StateOK(a) /\ Alike(s, a) /\ a.linked = s.linked /\ a.pending = s.pending \cup {id}
  BY <1>1, <1>5, ReserveFields
<1>7. Sound(a, s.rows) /\ a.rows = s.rows /\ a.vec = s.vec /\ a.map = s.map
  <2>1. Sound(a, s.rows)
    BY <1>6, AlikeSound
  <2> QED
    BY <1>6, <2>1 DEF Alike
<1>8. /\ StateOK(b) /\ b.rows = r /\ b.vec = [s.vec EXCEPT ![r] = v]
      /\ b.map = s.map /\ b.linked = s.linked /\ b.pending = a.pending
  <2>1. a.rows < MaxRows
    BY <1>7
  <2>2. /\ StateOK(b)
        /\ b.rows = a.rows + 1
        /\ b.vec = [a.vec EXCEPT ![a.rows + 1] = v]
        /\ b.map = a.map /\ b.linked = a.linked /\ b.pending = a.pending
    <3>1. AppendEffect(a, v, b)
      BY <1>2, <1>6, <2>1, AppendFields
    <3> QED
      BY <3>1 DEF AppendEffect
  <2> QED
    BY <1>3, <1>6, <1>7, <2>2
<1>9. Sound(b, r - 1)
  <2>1. Sound(a, a.rows) /\ a.rows < MaxRows
    BY <1>7
  <2>2. Sound(b, b.rows - 1)
    BY <1>2, <2>1, AppendSound
  <2> QED
    BY <1>8, <2>2
<1>10. /\ StateOK(c) /\ Alike(b, c)
       /\ c.linked = s.linked \cup {r} /\ c.pending = a.pending
  <2>1. PICK R : R = {r}
    OBVIOUS
  <2>2. R \in SUBSET Rows /\ StateOK(b) /\ c = [b EXCEPT !.linked = @ \cup R]
    BY <1>4, <1>5, <1>8, <2>1
  <2>3. /\ StateOK(c) /\ Alike(b, c)
        /\ c.linked = b.linked \cup R /\ c.pending = b.pending
    BY <2>2, LinkedFields
  <2> QED
    BY <1>8, <2>1, <2>3
<1>11. /\ Sound(c, r - 1) /\ c.rows = r /\ c.vec = [s.vec EXCEPT ![r] = v] /\ c.map = s.map
  <2>1. Sound(c, r - 1)
    BY <1>9, <1>10, AlikeSound
  <2> QED
    BY <1>8, <1>10, <2>1 DEF Alike
<1>12. x = Commit(c, id, r)
  BY <1>1, <1>2, <1>3, <1>4 DEF InsertRow
<1>13. Sound(x, x.rows)
  BY <1>5, <1>11, <1>12, CommitSound
<1>14. CommitEffect(c, id, r, x)
  <2>1. c.map[id] = NoRow
    BY <1>11
  <2> QED
    BY <1>5, <1>10, <1>12, <2>1, CommitFields
<1>15. x.rows = r /\ x.map = [s.map EXCEPT ![id] = r] /\ x.vec = [s.vec EXCEPT ![r] = v]
  BY <1>11, <1>14 DEF CommitEffect
<1>16. x.pending = s.pending \ {id} /\ x.linked = s.linked \cup {r}
  BY <1>6, <1>10, <1>14 DEF CommitEffect
<1> QED
  BY <1>3, <1>13, <1>15, <1>16 DEF InsertEffect

\* The rows that are left when some are deleted.
LEMMA RowsLeft ==
    ASSUME NEW n \in Nat, NEW D \in SUBSET (1..n)
    PROVE  Cardinality((1..n) \ D) = n - Cardinality(D)
<1>1. IsFiniteSet(1..n) /\ Cardinality(1..n) = IF 1 > n THEN 0 ELSE n - 1 + 1
  BY FS_Interval
<1>2. Cardinality(1..n) = n
  BY <1>1
<1>3. PICK S : S = 1..n
  OBVIOUS
<1>4. IsFiniteSet(S) /\ Cardinality(S) = n /\ S \cap D = D
  BY <1>1, <1>2, <1>3
<1>5. Cardinality(S \ D) = Cardinality(S) - Cardinality(S \cap D)
  BY <1>4, FS_Difference
<1> QED
  BY <1>3, <1>4, <1>5

\* Collection::load rebuilds the id map of the state that was saved.
Saves(f, s) ==
    /\ f.rows = s.rows /\ f.label = s.label /\ f.vec = s.vec /\ f.deleted = s.deleted
    /\ f.linked = s.linked /\ f.stranded = s.stranded

\* load() of a saved sound state rebuilds that state's id map.
LEMMA LoadedSound ==
    ASSUME NEW s, Sound(s, s.rows), NEW f, Saves(f, s)
    PROVE  /\ Sound(Loaded(f), f.rows)
           /\ Loaded(f).map = s.map /\ Loaded(f).vec = s.vec /\ Loaded(f).rows = s.rows
<1>1. PICK x : x = Loaded(f)
  OBVIOUS
<1>2. /\ StateOK(s) /\ s.rows \in Nat /\ s.rows \in 0..MaxRows
      /\ s.deleted \subseteq 1..s.rows
      /\ s.live = Cardinality(Mapped(s)) /\ s.count = Cardinality(s.deleted)
      /\ s.live + s.count = s.rows /\ s.live \in Nat /\ s.count \in Nat
      /\ IsFiniteSet(Mapped(s))
  BY DEF Sound, StateOK
<1>3. LiveRows(f) = (1..s.rows) \ s.deleted
  BY DEF LiveRows, Saves
<1>4. x = [rows    |-> s.rows,
           label   |-> s.label,
           vec     |-> s.vec,
           deleted |-> s.deleted,
           count   |-> Cardinality(s.deleted),
           map     |-> [id \in Ids |->
                          IF \E r \in LiveRows(f) : s.label[r] = id
                          THEN CHOOSE r \in LiveRows(f) : s.label[r] = id
                          ELSE NoRow],
           pending |-> {},
           live    |-> Cardinality(LiveRows(f)),
           linked  |-> s.linked,
           stranded |-> s.stranded]
  BY <1>1 DEF Loaded, Saves
<1>5. \A id \in Ids : x.map[id] = s.map[id]
  <2> SUFFICES ASSUME NEW id \in Ids PROVE x.map[id] = s.map[id]
    OBVIOUS
  <2>1. x.map[id] = IF \E r \in LiveRows(f) : s.label[r] = id
                    THEN CHOOSE r \in LiveRows(f) : s.label[r] = id
                    ELSE NoRow
    BY <1>4
  <2>2. \A r \in LiveRows(f) : s.label[r] = id => s.map[id] = r
    BY <1>3 DEF Sound
  <2>3. CASE \E r \in LiveRows(f) : s.label[r] = id
    <3>1. PICK r : r = CHOOSE q \in LiveRows(f) : s.label[q] = id
      OBVIOUS
    <3>2. r \in LiveRows(f) /\ s.label[r] = id
      BY <2>3, <3>1
    <3> QED
      BY <2>1, <2>2, <2>3, <3>1, <3>2
  <2>4. CASE ~ \E r \in LiveRows(f) : s.label[r] = id
    <3>1. s.map[id] = NoRow
      BY <1>3, <2>4 DEF Sound
    <3> QED
      BY <2>1, <2>4, <3>1
  <2> QED
    BY <2>3, <2>4
<1>6. x.map = s.map
  <2>0. x.map = [id \in Ids |->
                    IF \E r \in LiveRows(f) : s.label[r] = id
                    THEN CHOOSE r \in LiveRows(f) : s.label[r] = id
                    ELSE NoRow]
    BY <1>4
  <2>1. x.map = [id \in Ids |-> x.map[id]]
    BY <2>0
  <2>2. s.map = [id \in Ids |-> s.map[id]]
    BY <1>2 DEF StateOK
  <2> QED
    BY <1>5, <2>1, <2>2
<1>7. Cardinality(LiveRows(f)) = s.live
  <2>1. Cardinality((1..s.rows) \ s.deleted) = s.rows - Cardinality(s.deleted)
    BY <1>2, RowsLeft
  <2> QED
    BY <1>2, <1>3, <2>1
<1>8. /\ x.rows = s.rows /\ x.label = s.label /\ x.vec = s.vec /\ x.deleted = s.deleted
      /\ x.count = s.count /\ x.live = s.live /\ x.pending = {}
      /\ x.linked = s.linked /\ x.stranded = s.stranded
  BY <1>2, <1>4, <1>7
<1>9. DOMAIN x = DOMAIN s
  BY <1>2, <1>4 DEF StateOK
<1>10. StateOK(x)
  BY <1>2, <1>6, <1>8, <1>9 DEF StateOK
<1>11. Alike(s, x)
  BY <1>6, <1>8 DEF Alike
<1>12. Sound(x, s.rows)
  BY <1>10, <1>11, AlikeSound
<1> QED
  BY <1>1, <1>6, <1>8, <1>12 DEF Saves
-----------------------------------------------------------------------------
\* What the operators do to the vectors the collection holds.

\* States that agree on map and vectors hold the same contents.
LEMMA AlikeVectors ==
    ASSUME NEW s, NEW x, Alike(s, x)
    PROVE  \A id \in Ids : Vector(x, id) = Vector(s, id)
  BY DEF Alike, Vector

\* An appended row is in no id's name yet: the contents stay.
LEMMA AppendVectors ==
    ASSUME NEW s, Sound(s, s.rows), s.rows < MaxRows, NEW v \in Vals, NEW x, x = AppendRow(s, v)
    PROVE  /\ \A id \in Ids : Vector(x, id) = Vector(s, id)
           /\ x.vec[x.rows] = v
           /\ \A r \in 1..s.rows : x.vec[r] = s.vec[r]
<1>1. StateOK(s)
  BY DEF Sound
<1>2. /\ x.rows = s.rows + 1 /\ x.map = s.map
      /\ x.vec = [s.vec EXCEPT ![s.rows + 1] = v]
  <2>1. AppendEffect(s, v, x)
    BY <1>1, AppendFields
  <2> QED
    BY <2>1 DEF AppendEffect
<1>3. s.rows \in Nat /\ s.rows + 1 \in Rows /\ s.vec \in [Rows -> Vals \cup {None}]
  BY <1>1, CollectionAssumption DEF StateOK, Rows
<1>4. \A r \in 1..s.rows : x.vec[r] = s.vec[r]
  BY <1>2, <1>3, CollectionAssumption DEF Rows
<1>5. \A id \in Ids : s.map[id] # NoRow => s.map[id] \in 1..s.rows
  BY DEF Sound
<1> QED
  BY <1>2, <1>3, <1>4, <1>5 DEF Vector

\* Taking the uncommitted last row back leaves the contents.
LEMMA PopVectors ==
    ASSUME NEW s, Sound(s, s.rows - 1), s.rows >= 1, NEW x, x = PopBack(s)
    PROVE  /\ \A id \in Ids : Vector(x, id) = Vector(s, id)
           /\ \A r \in 1..(s.rows - 1) : x.vec[r] = s.vec[r]
<1>1. StateOK(s)
  BY DEF Sound
<1>2. x.map = s.map /\ x.vec = [s.vec EXCEPT ![s.rows] = None]
  BY <1>1, PopFields
<1>3. s.rows \in Rows /\ s.rows \in Nat /\ s.vec \in [Rows -> Vals \cup {None}]
  BY <1>1, CollectionAssumption DEF StateOK, Rows
<1>4. \A r \in 1..(s.rows - 1) : x.vec[r] = s.vec[r]
  BY <1>2, <1>3, CollectionAssumption DEF Rows
<1>5. \A id \in Ids : s.map[id] # NoRow => s.map[id] \in 1..(s.rows - 1)
  BY DEF Sound
<1> QED
  BY <1>2, <1>4, <1>5 DEF Vector

\* A change of one entry of the id map changes one vector.
LEMMA MapVectors ==
    ASSUME NEW s, StateOK(s), NEW id \in Ids, NEW r \in Rows \cup {NoRow}, NEW x,
           x.map = [s.map EXCEPT ![id] = r], x.vec = s.vec
    PROVE  /\ Vector(x, id) = IF r = NoRow THEN None ELSE s.vec[r]
           /\ \A i \in Ids \ {id} : Vector(x, i) = Vector(s, i)
  BY DEF Vector, StateOK

\* A sound state holds a vector for every mapped id.
LEMMA SoundVectors ==
    ASSUME NEW s, NEW n, Sound(s, n)
    PROVE  \A id \in Ids : /\ Vector(s, id) \in Vals \cup {None}
                           /\ Vector(s, id) = None <=> s.map[id] = NoRow
<1> SUFFICES ASSUME NEW id \in Ids
             PROVE  /\ Vector(s, id) \in Vals \cup {None}
                    /\ Vector(s, id) = None <=> s.map[id] = NoRow
  OBVIOUS
<1>1. CASE s.map[id] = NoRow
  BY <1>1 DEF Vector
<1>2. CASE s.map[id] # NoRow
  <2>1. s.rows \in Nat /\ n \in 0..s.rows /\ s.map[id] \in 1..n
    BY <1>2 DEF Sound, StateOK
  <2>2. s.map[id] \in 1..s.rows
    BY <2>1
  <2>3. s.vec[s.map[id]] \in Vals
    BY <2>2 DEF Sound
  <2> QED
    BY <1>2, <2>3, CollectionAssumption DEF Vector
<1> QED
  BY <1>1, <1>2
-----------------------------------------------------------------------------
\* The steps of a mutating call.

Points == WriterPoints \cup {"idle"}

\* Thread t goes somewhere and finds the collection and its call in order there.
Arrives(t) == \E b \in Points : Goto(t, b) /\ WriterInOrder(b)'

CallSame ==
    UNCHANGED <<state, job, done, grown, unlinked, failed, outcome, rebuilt, cursor, concurrent>>

\* A step that only takes or releases locks.
LEMMA Moves ==
    ASSUME NEW a \in Points, NEW b \in Points, WriterInOrder(a), CallSame,
           Waiting(b) = Waiting(a), a \notin InsertPoints, b \notin InsertPoints,
           a \notin {"idle", "return"}, b \notin {"idle", "return"},
           JobInOrder(b), BatchInOrder(b), RebuiltInOrder(b)
    PROVE  WriterInOrder(b)'
<1>1. Committed(a) = state.rows /\ Committed(b) = state.rows
  BY DEF Committed, InsertPoints
<1>2. \A i \in Waiting(b) : Row(b, i) = Row(a, i)
  BY <1>1 DEF Row
<1>3. StoreInOrder(b)
  <2>1. Sound(state, Committed(b))
    BY <1>1 DEF WriterInOrder, StoreInOrder
  <2>2. GrownInOrder(b)
    BY <1>2 DEF WriterInOrder, StoreInOrder, GrownInOrder
  <2>3. InsertInOrder(b)
    BY DEF WriterInOrder, StoreInOrder, InsertInOrder, InsertPoints
  <2>4. LinkedInOrder(b)
    BY <1>1, <1>2 DEF WriterInOrder, StoreInOrder, LinkedInOrder, InsertPoints
  <2> QED
    BY <2>1, <2>2, <2>3, <2>4 DEF StoreInOrder
<1>4. ContentsInOrder(b)
  BY DEF WriterInOrder, CallInOrder, ContentsInOrder
<1>5. WriterInOrder(b)
  BY <1>3, <1>4 DEF WriterInOrder, CallInOrder
<1>6. StoreInOrder(b)'
  BY <1>3 DEF CallSame, StoreInOrder, Committed, GrownInOrder, InsertInOrder, LinkedInOrder,
              Waiting, Row, Position, IsLevelB
<1>7. CallInOrder(b)'
  BY <1>5 DEF CallSame, WriterInOrder, CallInOrder, JobInOrder, IsBatch, IsLevelB, BatchInOrder,
              ContentsInOrder, RebuiltInOrder, Dealt
<1> QED
  BY <1>6, <1>7 DEF WriterInOrder

\* An empty batch position set.
LEMMA NoneGrown ==
    ASSUME grown = <<>>
    PROVE  Len(grown) = 0 /\ 1..Len(grown) = {}
<1>1. Len(grown) = 0
  OBVIOUS
<1> QED
  BY <1>1

\* A single insert, or a level-A slice, takes the lock for its first row.
LEMMA BeginSliceSafe ==
    ASSUME NEW t \in Threads, WriterInOrder("slice"), BeginSlice(t)
    PROVE  Arrives(t)
<1>1. CallSame /\ Goto(t, "reserve")
  BY DEF BeginSlice, CallSame, batch, compaction
<1>2. Waiting("reserve") = Waiting("slice")
  <2>1. grown = <<>>
    BY DEF WriterInOrder, CallInOrder, BatchInOrder
  <2> QED
    BY <2>1, NoneGrown DEF Waiting, InsertPoints
<1>3. JobInOrder("reserve") /\ BatchInOrder("reserve") /\ RebuiltInOrder("reserve")
  BY DEF WriterInOrder, CallInOrder, JobInOrder, BatchInOrder, RebuiltInOrder, BatchPoints,
         InsertPoints, SectionPoints
<1>4. WriterInOrder("reserve")'
  BY <1>1, <1>2, <1>3, Moves DEF Points, WriterPoints, BatchPoints, InsertPoints
<1> QED
  BY <1>1, <1>4 DEF Arrives, Points, WriterPoints, BatchPoints

\* A level-B section takes the link lock.
LEMMA BeginSectionSafe ==
    ASSUME NEW t \in Threads, WriterInOrder("section"), BeginSection(t)
    PROVE  Arrives(t)
<1>1. grown = <<>>
  BY DEF WriterInOrder, CallInOrder, BatchInOrder
<1>2. CallSame /\ Goto(t, "grow")
  BY <1>1 DEF BeginSection, CallSame, compaction
<1>3. Waiting("grow") = Waiting("section")
  BY DEF Waiting, InsertPoints
<1>4. JobInOrder("grow") /\ BatchInOrder("grow") /\ RebuiltInOrder("grow")
  BY DEF WriterInOrder, CallInOrder, JobInOrder, BatchInOrder, RebuiltInOrder, BatchPoints,
         InsertPoints, SectionPoints
<1>5. WriterInOrder("grow")'
  BY <1>2, <1>3, <1>4, Moves DEF Points, WriterPoints, BatchPoints, InsertPoints
<1> QED
  BY <1>2, <1>5 DEF Arrives, Points, WriterPoints, BatchPoints

\* A level-B section gives the exclusive lock back and links under the shared one.
LEMMA BeginLinkSafe ==
    ASSUME NEW t \in Threads, WriterInOrder("begin_link"), BeginLink(t)
    PROVE  Arrives(t)
<1>1. CallSame /\ Goto(t, "link")
  BY DEF BeginLink, CallSame, batch, compaction
<1>2. Waiting("link") = Waiting("begin_link")
  BY DEF Waiting, InsertPoints
<1>3. JobInOrder("link") /\ BatchInOrder("link") /\ RebuiltInOrder("link")
  BY DEF WriterInOrder, CallInOrder, JobInOrder, BatchInOrder, RebuiltInOrder, BatchPoints,
         InsertPoints, SectionPoints
<1>4. WriterInOrder("link")'
  BY <1>1, <1>2, <1>3, Moves DEF Points, WriterPoints, BatchPoints, InsertPoints, SectionPoints
<1> QED
  BY <1>1, <1>4 DEF Arrives, Points, WriterPoints, BatchPoints, SectionPoints

\* Linking is over: the rows whose links failed are still to be given up.
LEMMA EndLinkSafe ==
    ASSUME NEW t \in Threads, WriterInOrder("link"), EndLink(t)
    PROVE  Arrives(t)
<1>1. CallSame /\ unlinked = {}
  BY DEF EndLink, CallSame, batch, compaction
<1>2. CASE failed = {}
  <2>1. Goto(t, "end_section")
    BY <1>2 DEF EndLink
  <2>2. Waiting("end_section") = Waiting("link")
    BY <1>1, <1>2 DEF Waiting, InsertPoints
  <2>3. JobInOrder("end_section") /\ BatchInOrder("end_section") /\ RebuiltInOrder("end_section")
    BY DEF WriterInOrder, CallInOrder, JobInOrder, BatchInOrder, RebuiltInOrder, BatchPoints,
           InsertPoints, SectionPoints
  <2>4. WriterInOrder("end_section")'
    BY <1>1, <2>2, <2>3, Moves DEF Points, WriterPoints, BatchPoints, InsertPoints, SectionPoints
  <2> QED
    BY <2>1, <2>4 DEF Arrives, Points, WriterPoints, BatchPoints, SectionPoints
<1>3. CASE failed # {}
  <2>1. Goto(t, "begin_abandon")
    BY <1>3 DEF EndLink
  <2>2. Waiting("begin_abandon") = Waiting("link")
    BY DEF Waiting, InsertPoints
  <2>3. JobInOrder("begin_abandon") /\ BatchInOrder("begin_abandon")
        /\ RebuiltInOrder("begin_abandon")
    BY <1>1, <1>3 DEF WriterInOrder, CallInOrder, JobInOrder, BatchInOrder, RebuiltInOrder,
           BatchPoints, InsertPoints, SectionPoints
  <2>4. WriterInOrder("begin_abandon")'
    BY <1>1, <2>2, <2>3, Moves DEF Points, WriterPoints, BatchPoints, InsertPoints, SectionPoints
  <2> QED
    BY <2>1, <2>4 DEF Arrives, Points, WriterPoints, BatchPoints, SectionPoints
<1> QED
  BY <1>2, <1>3

\* A level-B section takes the lock to give up the rows it could not link.
LEMMA BeginAbandonSafe ==
    ASSUME NEW t \in Threads, WriterInOrder("begin_abandon"), BeginAbandon(t)
    PROVE  Arrives(t)
<1>1. CallSame /\ Goto(t, "abandon")
  BY DEF BeginAbandon, CallSame, batch, compaction
<1>2. Waiting("abandon") = Waiting("begin_abandon")
  BY DEF Waiting, InsertPoints
<1>3. JobInOrder("abandon") /\ BatchInOrder("abandon") /\ RebuiltInOrder("abandon")
  BY DEF WriterInOrder, CallInOrder, JobInOrder, BatchInOrder, RebuiltInOrder, BatchPoints,
         InsertPoints, SectionPoints
<1>4. WriterInOrder("abandon")'
  BY <1>1, <1>2, <1>3, Moves DEF Points, WriterPoints, BatchPoints, InsertPoints, SectionPoints
<1> QED
  BY <1>1, <1>4 DEF Arrives, Points, WriterPoints, BatchPoints, SectionPoints

\* compact() has copied every row and takes the lock for its swap.
LEMMA EndRebuildSafe ==
    ASSUME NEW t \in Threads, WriterInOrder("rebuild"), EndRebuild(t)
    PROVE  Arrives(t)
<1>1. CallSame /\ Goto(t, "swap") /\ cursor > state.rows
  BY DEF EndRebuild, CallSame, batch, compaction
<1>2. Waiting("swap") = Waiting("rebuild")
  BY DEF Waiting, InsertPoints
<1>3. JobInOrder("swap") /\ BatchInOrder("swap") /\ RebuiltInOrder("swap")
  BY <1>1 DEF WriterInOrder, CallInOrder, JobInOrder, BatchInOrder, RebuiltInOrder, BatchPoints,
         InsertPoints, SectionPoints
<1>4. WriterInOrder("swap")'
  BY <1>1, <1>2, <1>3, Moves DEF Points, WriterPoints, BatchPoints, InsertPoints
<1> QED
  BY <1>1, <1>4 DEF Arrives, Points, WriterPoints, BatchPoints
-----------------------------------------------------------------------------
\* Nobody is inserting, and no row is waiting for its links.
Settled ==
    /\ Sound(state, state.rows)
    /\ state.pending = {}
    /\ state.linked \subseteq 1..state.rows
    /\ LiveRows(state) \subseteq state.linked \cup state.stranded

\* Outside an insert and with no row waiting, the store is settled.
LEMMA StoreSettled ==
    ASSUME NEW a, StoreInOrder(a), a \notin InsertPoints, Waiting(a) = {}
    PROVE  Settled
  BY DEF StoreInOrder, Settled, Committed, InsertPoints, InsertInOrder, LinkedInOrder, LiveRows

\* A settled store is in order wherever no insert is under way.
LEMMA SettledStore ==
    ASSUME NEW b, b \notin InsertPoints, Waiting(b)' = {}, Settled'
    PROVE  StoreInOrder(b)'
<1>1. Committed(b)' = state'.rows
  BY DEF Committed, InsertPoints
<1>2. GrownInOrder(b)'
  BY DEF GrownInOrder
<1>3. InsertInOrder(b)'
  BY DEF InsertInOrder, Settled, InsertPoints
<1>4. LinkedInOrder(b)'
  BY <1>1 DEF LinkedInOrder, Settled, InsertPoints, LiveRows
<1> QED
  BY <1>1, <1>2, <1>3, <1>4 DEF StoreInOrder, Settled

\* A call that ends.
LEMMA Ends ==
    ASSUME NEW a \in Points \ {"idle"}, JobInOrder(a), RebuiltInOrder(a),
           UNCHANGED <<job, concurrent, rebuilt, cursor>>,
           Settled', BatchInOrder("return")', ContentsInOrder("return")'
    PROVE  WriterInOrder("return")'
<1>1. StoreInOrder("return")'
  <2>1. Waiting("return")' = {}
    BY DEF Waiting, InsertPoints
  <2> QED
    BY <2>1, SettledStore DEF InsertPoints
<1>2. JobInOrder("return")'
  BY DEF JobInOrder, IsBatch, IsLevelB, BatchPoints, InsertPoints, SectionPoints
<1>3. RebuiltInOrder("return")'
  BY DEF RebuiltInOrder
<1> QED
  BY <1>1, <1>2, <1>3 DEF WriterInOrder, CallInOrder

\* A call that fails has changed nothing more.
LEMMA EndsFailing ==
    ASSUME NEW a \in Points \ {"idle", "return"}, CallInOrder(a),
           UNCHANGED <<job, concurrent, rebuilt, cursor, done, grown, unlinked, failed>>,
           outcome' \in {"error", "throws"}, job.op = "add" => Dealt = 0,
           \A id \in Ids : Vector(state', id) = Vector(state, id), Settled'
    PROVE  WriterInOrder("return")'
<1>1. BatchInOrder("return")'
  BY DEF CallInOrder, BatchInOrder, IsLevelB, Dealt, SectionPoints, InsertPoints
<1>2. ContentsInOrder("return")'
  <2>1. Dealt' = Dealt
    BY DEF Dealt
  <2>2. CASE job.op \notin Inserts
    <3>1. \A id \in Ids : Vector(state, id) = job.before[id]
      BY <2>2 DEF CallInOrder, ContentsInOrder
    <3> QED
      BY <2>2, <3>1 DEF ContentsInOrder
  <2>3. CASE job.op \in Inserts
    <3>1. /\ \A id \in Ids : (\A k \in 1..Dealt : job.ids[k] # id) =>
                Vector(state, id) = job.before[id]
          /\ \A k \in 1..Dealt :
                Vector(state, job.ids[k]) \in {job.vals[k], job.before[job.ids[k]]}
      BY <2>3 DEF CallInOrder, ContentsInOrder
    <3>2. \A k \in 1..Dealt : job.ids[k] \in Ids
      <4>1. IsBatch /\ Dealt <= Len(job.ids) /\ Dealt \in Nat
        BY <2>3 DEF CallInOrder, JobInOrder, BatchInOrder, Dealt
      <4> QED
        BY <4>1 DEF IsBatch
    <3>3. \A k \in 1..Dealt :
             Vector(state', job.ids[k]) \in {job.vals[k], job.before[job.ids[k]]}
      BY <3>1, <3>2
    <3> QED
      BY <2>1, <2>3, <3>1, <3>3 DEF ContentsInOrder
  <2> QED
    BY <2>2, <2>3
<1> QED
  BY <1>1, <1>2, Ends DEF CallInOrder

\* A level-B section takes the exclusive lock and makes room for its rows.
LEMMA BeginGrowSafe ==
    ASSUME NEW t \in Threads, WriterInOrder("grow"), BeginGrow(t)
    PROVE  Arrives(t)
<1>1. grown = <<>> /\ 1..Len(grown) = {}
  <2>1. grown = <<>>
    BY DEF WriterInOrder, CallInOrder, BatchInOrder
  <2> QED
    BY <2>1, NoneGrown
<1>2. CASE CallSame /\ Goto(t, "reserve")
  <2>1. Waiting("reserve") = Waiting("grow")
    BY <1>1 DEF Waiting, InsertPoints
  <2>2. JobInOrder("reserve") /\ BatchInOrder("reserve") /\ RebuiltInOrder("reserve")
    BY DEF WriterInOrder, CallInOrder, JobInOrder, BatchInOrder, RebuiltInOrder, BatchPoints,
           InsertPoints, SectionPoints
  <2>3. WriterInOrder("reserve")'
    BY <1>2, <2>1, <2>2, Moves DEF Points, WriterPoints, BatchPoints, InsertPoints
  <2> QED
    BY <1>2, <2>3 DEF Arrives, Points, WriterPoints, BatchPoints
<1>3. CASE /\ Finish(t, "throws")
           /\ UNCHANGED <<state, job, concurrent, rebuilt, cursor, done, grown, unlinked, failed>>
  <2>1. Settled
    <3>1. Waiting("grow") = {}
      BY DEF Waiting, InsertPoints
    <3> QED
      BY <3>1, StoreSettled DEF WriterInOrder, InsertPoints
  <2>2. Settled'
    BY <1>3, <2>1 DEF Settled
  <2>3. job.op # "add"
    BY DEF WriterInOrder, CallInOrder, JobInOrder, IsLevelB, SectionPoints
  <2>4. outcome' \in {"error", "throws"} /\ Goto(t, "return")
    BY <1>3 DEF Finish
  <2>5. WriterInOrder("return")'
    BY <1>3, <2>2, <2>3, <2>4, EndsFailing DEF WriterInOrder, Points, WriterPoints, BatchPoints
  <2> QED
    BY <2>4, <2>5 DEF Arrives, Points, WriterPoints
<1> QED
  BY <1>2, <1>3 DEF BeginGrow, CallSame, compaction

\* compact() gives its copy up: the collection is as it was.
LEMMA RebuildThrowsSafe ==
    ASSUME NEW t \in Threads, WriterInOrder("rebuild"), RebuildThrows(t)
    PROVE  Arrives(t)
<1>1. /\ Finish(t, "throws")
      /\ UNCHANGED <<state, job, concurrent, rebuilt, cursor, done, grown, unlinked, failed>>
  BY DEF RebuildThrows, compaction
<1>2. Settled
  <2>1. Waiting("rebuild") = {}
    BY DEF Waiting, InsertPoints
  <2> QED
    BY <2>1, StoreSettled DEF WriterInOrder, InsertPoints
<1>3. Settled'
  BY <1>1, <1>2 DEF Settled
<1>4. job.op # "add"
  BY DEF WriterInOrder, CallInOrder, JobInOrder
<1>5. outcome' \in {"error", "throws"} /\ Goto(t, "return")
  BY <1>1 DEF Finish
<1>6. WriterInOrder("return")'
  BY <1>1, <1>3, <1>4, <1>5, EndsFailing DEF WriterInOrder, Points, WriterPoints
<1> QED
  BY <1>5, <1>6 DEF Arrives, Points, WriterPoints

\* add_batch() refuses a batch before it inserts any row of it.
LEMMA CheckBatchSafe ==
    ASSUME NEW t \in Threads, WriterInOrder("check"), CheckBatch(t)
    PROVE  Arrives(t)
<1>1. UNCHANGED <<state, job, concurrent, rebuilt, cursor, done, grown, unlinked, failed>>
  BY DEF CheckBatch, compaction
<1>2. job.op = "add_batch" /\ IsBatch /\ done = 0 /\ grown = <<>> /\ Len(grown) = 0
  <2>1. job.op = "add_batch" /\ IsBatch /\ done = 0 /\ grown = <<>>
    BY DEF WriterInOrder, CallInOrder, JobInOrder, BatchInOrder, BatchPoints, Inserts
  <2> QED
    BY <2>1, NoneGrown
<1>3. ASSUME NEW how \in {"error", "throws"}, Finish(t, how)
      PROVE  Arrives(t)
  <2>1. Settled
    <3>1. Waiting("check") = {}
      BY DEF Waiting, InsertPoints
    <3> QED
      BY <3>1, StoreSettled DEF WriterInOrder, InsertPoints
  <2>2. Settled'
    BY <1>1, <2>1 DEF Settled
  <2>3. outcome' \in {"error", "throws"} /\ Goto(t, "return")
    BY <1>3 DEF Finish
  <2>4. WriterInOrder("return")'
    BY <1>1, <1>2, <2>2, <2>3, EndsFailing DEF WriterInOrder, Points, WriterPoints, BatchPoints
  <2> QED
    BY <2>3, <2>4 DEF Arrives, Points, WriterPoints
<1>4. ASSUME NEW b, b = IF concurrent THEN "section" ELSE "slice", Goto(t, b), UNCHANGED outcome
      PROVE  Arrives(t)
  <2>1. CallSame
    BY <1>1, <1>4 DEF CallSame
  <2>2. Waiting(b) = Waiting("check") /\ b \notin InsertPoints /\ b \notin {"idle", "return"}
    BY <1>4 DEF Waiting, InsertPoints
  <2>3. JobInOrder(b) /\ RebuiltInOrder(b)
    BY <1>2, <1>4 DEF WriterInOrder, CallInOrder, JobInOrder, RebuiltInOrder, BatchPoints,
           InsertPoints, SectionPoints, IsLevelB, Inserts
  <2>4. BatchInOrder(b)
    <3>1. Dealt = 0 /\ 0 < Len(job.ids)
      BY <1>2 DEF Dealt, IsBatch
    <3> QED
      BY <1>2, <1>4, <3>1 DEF WriterInOrder, CallInOrder, BatchInOrder, SectionPoints, InsertPoints
  <2>5. b \in Points /\ "check" \in Points
    BY <1>4 DEF Points, WriterPoints, BatchPoints
  <2>6. WriterInOrder(b)'
    BY <2>1, <2>2, <2>3, <2>4, <2>5, Moves DEF InsertPoints
  <2> QED
    BY <1>4, <2>5, <2>6 DEF Arrives
<1> QED
  BY <1>3, <1>4 DEF CheckBatch

\* remove() takes its id out of the map and hides the row.
LEMMA RemoveBodySafe ==
    ASSUME NEW t \in Threads, WriterInOrder("remove"), RemoveBody(t)
    PROVE  Arrives(t)
<1>1. UNCHANGED <<job, concurrent, rebuilt, cursor, done, grown, unlinked, failed>>
  BY DEF RemoveBody, compaction
<1>2. job.op = "remove" /\ job.ids \in Seq(Ids) /\ Len(job.ids) = 1
  BY DEF WriterInOrder, CallInOrder, JobInOrder
<1>3. PICK id \in Ids : id = job.ids[1]
  BY <1>2
<1>4. Settled
  <2>1. Waiting("remove") = {}
    BY DEF Waiting, InsertPoints
  <2> QED
    BY <2>1, StoreSettled DEF WriterInOrder, InsertPoints
<1>5. CASE state' = state /\ Finish(t, "error")
  <2>1. Settled'
    BY <1>4, <1>5 DEF Settled
  <2>2. outcome' \in {"error", "throws"} /\ Goto(t, "return")
    BY <1>5 DEF Finish
  <2>3. WriterInOrder("return")'
    BY <1>1, <1>2, <1>5, <2>1, <2>2, EndsFailing DEF WriterInOrder, Points, WriterPoints
  <2> QED
    BY <2>2, <2>3 DEF Arrives, Points, WriterPoints
<1>6. CASE state.map[id] # NoRow /\ state' = Erase(state, id) /\ Finish(t, "ok")
  <2>1. Sound(state, state.rows)
    BY <1>4 DEF Settled
  <2>2. /\ Sound(state', state'.rows)
        /\ state'.map = [state.map EXCEPT ![id] = NoRow]
        /\ state'.deleted = state.deleted \cup {state.map[id]}
        /\ state'.rows = state.rows /\ state'.vec = state.vec /\ state'.label = state.label
        /\ state'.pending = state.pending
        /\ state'.linked = state.linked /\ state'.stranded = state.stranded
    BY <1>6, <2>1, EraseSound
  <2>3. Settled'
    BY <1>4, <2>2 DEF Settled, LiveRows
  <2>4. /\ Vector(state', id) = None
        /\ \A i \in Ids \ {id} : Vector(state', i) = Vector(state, i)
    <3>1. StateOK(state) /\ NoRow \in Rows \cup {NoRow}
      BY <2>1 DEF Sound
    <3>2. /\ Vector(state', id) = IF NoRow = NoRow THEN None ELSE state.vec[NoRow]
          /\ \A i \in Ids \ {id} : Vector(state', i) = Vector(state, i)
      BY <2>2, <3>1, MapVectors
    <3> QED
      BY <3>2
  <2>5. outcome' = "ok" /\ Goto(t, "return")
    BY <1>6 DEF Finish
  <2>6. ContentsInOrder("return")'
    <3>1. \A i \in Ids : Vector(state, i) = job.before[i]
      BY <1>2 DEF WriterInOrder, CallInOrder, ContentsInOrder, Inserts
    <3> QED
      BY <1>1, <1>2, <1>3, <2>4, <2>5, <3>1 DEF ContentsInOrder, Inserts
  <2>7. BatchInOrder("return")'
    BY <1>1, <2>5 DEF WriterInOrder, CallInOrder, BatchInOrder, IsLevelB, Dealt, SectionPoints,
                      InsertPoints
  <2>8. WriterInOrder("return")'
    BY <1>1, <2>3, <2>6, <2>7, Ends DEF WriterInOrder, CallInOrder, Points, WriterPoints
  <2> QED
    BY <2>5, <2>8 DEF Arrives, Points, WriterPoints
<1> QED
  BY <1>3, <1>5, <1>6 DEF RemoveBody
-----------------------------------------------------------------------------
\* compact().

\* compact() starts an empty copy, or has nothing to do.
LEMMA BeginCompactSafe ==
    ASSUME NEW t \in Threads, WriterInOrder("compact"), BeginCompact(t)
    PROVE  Arrives(t)
<1>1. UNCHANGED <<state, job, concurrent, done, grown, unlinked, failed>>
  BY DEF BeginCompact
<1>2. job.op = "compact" /\ outcome = "ok"
  BY DEF WriterInOrder, CallInOrder, JobInOrder, BatchInOrder, SectionPoints, InsertPoints
<1>3. Settled'
  <2>1. Waiting("compact") = {}
    BY DEF Waiting, InsertPoints
  <2>2. Settled
    BY <2>1, StoreSettled DEF WriterInOrder, InsertPoints
  <2> QED
    BY <1>1, <2>2 DEF Settled
<1>4. \A id \in Ids : Vector(state, id) = job.before[id]
  BY <1>2 DEF WriterInOrder, CallInOrder, ContentsInOrder, Inserts
<1>5. CASE Finish(t, "ok") /\ UNCHANGED <<rebuilt, cursor>>
  <2>1. outcome' = "ok" /\ Goto(t, "return")
    BY <1>5 DEF Finish
  <2>2. ContentsInOrder("return")'
    BY <1>1, <1>2, <1>4 DEF ContentsInOrder, Inserts
  <2>3. BatchInOrder("return")'
    BY <1>1, <2>1 DEF WriterInOrder, CallInOrder, BatchInOrder, IsLevelB, Dealt, SectionPoints,
                      InsertPoints
  <2>4. WriterInOrder("return")'
    BY <1>1, <1>3, <1>5, <2>2, <2>3, Ends DEF WriterInOrder, CallInOrder, Points, WriterPoints
  <2> QED
    BY <2>1, <2>4 DEF Arrives, Points, WriterPoints
<1>6. CASE /\ rebuilt' = EmptyState /\ cursor' = 1 /\ outcome' = outcome
           /\ Goto(t, "rebuild")
  <2>1. Waiting("rebuild")' = {}
    BY DEF Waiting, InsertPoints
  <2>2. StoreInOrder("rebuild")'
    BY <1>3, <2>1, SettledStore DEF InsertPoints
  <2>3. JobInOrder("rebuild")'
    BY <1>1, <1>2 DEF WriterInOrder, CallInOrder, JobInOrder, IsBatch, IsLevelB, Inserts,
                      BatchPoints, InsertPoints, SectionPoints
  <2>4. BatchInOrder("rebuild")'
    BY <1>1, <1>2, <1>6 DEF WriterInOrder, CallInOrder, BatchInOrder, IsLevelB, Dealt,
                      SectionPoints, InsertPoints
  <2>5. ContentsInOrder("rebuild")'
    BY <1>1, <1>2, <1>4 DEF ContentsInOrder, Inserts
  <2>6. RebuiltInOrder("rebuild")'
    <3>1. /\ Sound(rebuilt', 0) /\ rebuilt'.rows = 0 /\ rebuilt'.pending = {}
          /\ rebuilt'.linked = {}
          /\ \A id \in Ids : rebuilt'.map[id] = NoRow
      BY <1>6, EmptySound
    <3>2. 1..rebuilt'.rows = {} /\ 1..(cursor' - 1) = {} /\ cursor' \in 1..(MaxRows + 1)
      BY <1>6, <3>1, CollectionAssumption
    <3>3. rebuilt'.rows < cursor'
      BY <1>6, <3>1
    <3> QED
      BY <3>1, <3>2, <3>3 DEF RebuiltInOrder, Sound
  <2> QED
    BY <1>6, <2>2, <2>3, <2>4, <2>5, <2>6 DEF Arrives, WriterInOrder, CallInOrder, Points, WriterPoints
<1> QED
  BY <1>5, <1>6 DEF BeginCompact, compaction

\* compact() copies a live row or passes a deleted one.
LEMMA RebuildRowSafe ==
    ASSUME NEW t \in Threads, pc \in [Threads -> Locations], WriterInOrder("rebuild"),
           RebuildRow(t)
    PROVE  Arrives(t)
<1>1. /\ UNCHANGED <<state, job, concurrent, done, grown, unlinked, failed, outcome>>
      /\ cursor <= state.rows /\ cursor' = cursor + 1
      /\ Goto(t, "rebuild")
  BY DEF RebuildRow, batch, Goto
<1>2. /\ Sound(state, state.rows) /\ state.rows \in 0..MaxRows
      /\ Sound(rebuilt, rebuilt.rows) /\ rebuilt.rows \in Nat
      /\ rebuilt.pending = {} /\ rebuilt.linked = 1..rebuilt.rows
      /\ rebuilt.rows < cursor
      /\ cursor \in 1..(MaxRows + 1)
  BY DEF WriterInOrder, StoreInOrder, CallInOrder, RebuiltInOrder, Committed, Sound, StateOK
<1>3. \A id \in Ids :
        IF state.map[id] \in 1..(cursor - 1)
        THEN rebuilt.map[id] # NoRow /\ Vector(rebuilt, id) = Vector(state, id)
        ELSE rebuilt.map[id] = NoRow
  BY DEF WriterInOrder, CallInOrder, RebuiltInOrder
<1>4. cursor \in 1..state.rows /\ cursor' \in 1..(MaxRows + 1) /\ cursor' - 1 = cursor
  BY <1>1, <1>2, CollectionAssumption
<1>5. \A n : n # cursor => (n \in 1..(cursor' - 1) <=> n \in 1..(cursor - 1))
  BY <1>1, <1>2
<1>6. RebuiltInOrder("rebuild")'
  <2>1. CASE cursor \in state.deleted
    <3>1. rebuilt' = rebuilt
      BY <2>1 DEF RebuildRow
    <3>2. \A id \in Ids : state.map[id] # cursor
      <4>1. \A id \in Ids : state.map[id] # NoRow => state.map[id] \notin state.deleted
        BY <1>2 DEF Sound
      <4>2. cursor # NoRow
        BY <1>2 DEF NoRow
      <4> QED
        BY <2>1, <4>1, <4>2
    <3>3. rebuilt'.rows < cursor'
      BY <1>1, <1>2, <3>1
    <3>4. StateOK(rebuilt')
      BY <1>2, <3>1 DEF Sound
    <3> QED
      BY <1>1, <1>2, <1>3, <1>4, <1>5, <3>1, <3>2, <3>3, <3>4 DEF RebuiltInOrder
  <2>2. CASE cursor \notin state.deleted
    <3>1. PICK id, v : id = state.label[cursor] /\ v = state.vec[cursor]
      OBVIOUS
    <3>2. id \in Ids /\ state.map[id] = cursor /\ v \in Vals
      BY <1>2, <1>4, <2>2, <3>1 DEF Sound
    <3>3. rebuilt.map[id] = NoRow
      <4>1. cursor \notin 1..(cursor - 1)
        BY <1>2
      <4> QED
        BY <1>3, <3>2, <4>1
    <3>4. rebuilt.rows < MaxRows
      BY <1>2, <1>4, CollectionAssumption
    <3>5. rebuilt' = InsertRow(rebuilt, id, v)
      BY <2>2, <3>1 DEF RebuildRow
    <3>6. InsertEffect(rebuilt, id, v, rebuilt')
      BY <1>2, <3>2, <3>3, <3>4, <3>5, InsertSound
    <3>7. /\ Sound(rebuilt', rebuilt'.rows)
          /\ rebuilt'.rows = rebuilt.rows + 1
          /\ rebuilt'.map = [rebuilt.map EXCEPT ![id] = rebuilt.rows + 1]
          /\ rebuilt'.vec = [rebuilt.vec EXCEPT ![rebuilt.rows + 1] = v]
          /\ rebuilt'.pending = rebuilt.pending \ {id}
          /\ rebuilt'.linked = rebuilt.linked \cup {rebuilt.rows + 1}
      BY <3>6 DEF InsertEffect
    <3>8. /\ rebuilt.map \in [Ids -> Rows \cup {NoRow}]
          /\ rebuilt.vec \in [Rows -> Vals \cup {None}]
          /\ rebuilt.rows + 1 \in Rows
      BY <1>2, <3>4, CollectionAssumption DEF Sound, StateOK, Rows
    <3>9. /\ rebuilt'.map[id] = rebuilt.rows + 1
          /\ \A i \in Ids \ {id} : rebuilt'.map[i] = rebuilt.map[i]
          /\ rebuilt'.vec[rebuilt.rows + 1] = v
          /\ \A r \in 1..rebuilt.rows : rebuilt'.vec[r] = rebuilt.vec[r]
      <4>1. \A r \in 1..rebuilt.rows : r \in Rows /\ r # rebuilt.rows + 1
        BY <1>2, <3>4, CollectionAssumption DEF Rows
      <4> QED
        BY <3>2, <3>7, <3>8, <4>1
    <3>10. rebuilt'.map[id] # NoRow /\ Vector(rebuilt', id) = Vector(state, id)
      <4>1. rebuilt.rows + 1 # NoRow /\ cursor # NoRow
        BY <1>2 DEF NoRow
      <4> QED
        BY <3>1, <3>2, <3>9, <4>1 DEF Vector
    <3>11. \A i \in Ids \ {id} : Vector(rebuilt', i) = Vector(rebuilt, i)
      <4>1. \A i \in Ids : rebuilt.map[i] # NoRow => rebuilt.map[i] \in 1..rebuilt.rows
        BY <1>2 DEF Sound
      <4> QED
        BY <3>9, <4>1 DEF Vector
    <3>12. \A i \in Ids \ {id} : state.map[i] # cursor
      <4>1. \A i \in Ids : state.map[i] # NoRow => state.label[state.map[i]] = i
        BY <1>2 DEF Sound
      <4>2. cursor # NoRow
        BY <1>2 DEF NoRow
      <4> QED
        BY <3>1, <4>1, <4>2
    <3>13. \A i \in Ids :
             IF state.map[i] \in 1..(cursor' - 1)
             THEN rebuilt'.map[i] # NoRow /\ Vector(rebuilt', i) = Vector(state, i)
             ELSE rebuilt'.map[i] = NoRow
      <4> SUFFICES ASSUME NEW i \in Ids
                   PROVE  IF state.map[i] \in 1..(cursor' - 1)
                          THEN rebuilt'.map[i] # NoRow /\ Vector(rebuilt', i) = Vector(state, i)
                          ELSE rebuilt'.map[i] = NoRow
        OBVIOUS
      <4>1. CASE i = id
        <5>1. state.map[i] \in 1..(cursor' - 1)
          BY <1>2, <1>4, <3>2, <4>1
        <5> QED
          BY <3>10, <4>1, <5>1
      <4>2. CASE i # id
        <5>1. state.map[i] \in 1..(cursor' - 1) <=> state.map[i] \in 1..(cursor - 1)
          BY <1>5, <3>12, <4>2
        <5> QED
          BY <1>3, <3>9, <3>11, <4>2, <5>1
      <4> QED
        BY <4>1, <4>2
    <3>14. rebuilt'.linked = 1..rebuilt'.rows /\ rebuilt'.rows < cursor' /\ rebuilt'.pending = {}
      <4>1. rebuilt'.linked = (1..rebuilt.rows) \cup {rebuilt.rows + 1}
        BY <1>2, <3>7
      <4>2. (1..rebuilt.rows) \cup {rebuilt.rows + 1} = 1..(rebuilt.rows + 1)
        BY <1>2
      <4> QED
        BY <1>1, <1>2, <3>7, <4>1, <4>2
    <3>15. StateOK(rebuilt')
      BY <3>7 DEF Sound
    <3> QED
      BY <1>1, <1>4, <3>7, <3>13, <3>14, <3>15 DEF RebuiltInOrder
  <2> QED
    BY <2>1, <2>2
<1>7. StoreInOrder("rebuild")'
  BY <1>1 DEF WriterInOrder, StoreInOrder, Committed, GrownInOrder, InsertInOrder,
              LinkedInOrder, Waiting, Row, Position, IsLevelB
<1>8. JobInOrder("rebuild")' /\ BatchInOrder("rebuild")' /\ ContentsInOrder("rebuild")'
  BY <1>1 DEF WriterInOrder, CallInOrder, JobInOrder, IsBatch, IsLevelB, BatchInOrder,
              ContentsInOrder, Dealt
<1> QED
  BY <1>1, <1>6, <1>7, <1>8 DEF Arrives, WriterInOrder, CallInOrder, Points, WriterPoints

\* The new state holds the same vectors.
LEMMA SwapVectors ==
    ASSUME WriterInOrder("swap"), state' = rebuilt
    PROVE  \A id \in Ids : Vector(state', id) = Vector(state, id)
<1>1. /\ Sound(state, state.rows) /\ state.rows \in Nat /\ cursor \in Nat
      /\ cursor > state.rows
  BY DEF WriterInOrder, StoreInOrder, CallInOrder, RebuiltInOrder, Committed, Sound, StateOK
<1> SUFFICES ASSUME NEW id \in Ids PROVE Vector(rebuilt, id) = Vector(state, id)
  OBVIOUS
<1>2. IF state.map[id] \in 1..(cursor - 1)
      THEN rebuilt.map[id] # NoRow /\ Vector(rebuilt, id) = Vector(state, id)
      ELSE rebuilt.map[id] = NoRow
  BY DEF WriterInOrder, CallInOrder, RebuiltInOrder
<1>3. CASE state.map[id] = NoRow
  <2>1. NoRow \notin 1..(cursor - 1)
    BY <1>1 DEF NoRow
  <2> QED
    BY <1>2, <1>3, <2>1 DEF Vector
<1>4. CASE state.map[id] # NoRow
  <2>1. state.map[id] \in 1..state.rows
    BY <1>1, <1>4 DEF Sound
  <2>2. state.map[id] \in 1..(cursor - 1)
    BY <1>1, <2>1
  <2> QED
    BY <1>2, <2>2
<1> QED
  BY <1>3, <1>4

\* The copy that compact() swaps in holds what the collection held.
LEMMA SwapSafe ==
    ASSUME NEW t \in Threads, WriterInOrder("swap"), Swap(t)
    PROVE  Arrives(t)
<1>1. /\ UNCHANGED <<job, concurrent, rebuilt, cursor, done, grown, unlinked, failed>>
      /\ state' = rebuilt /\ Finish(t, "ok")
  BY DEF Swap, compaction
<1>2. job.op = "compact"
  BY DEF WriterInOrder, CallInOrder, JobInOrder
<1>3. outcome' = "ok" /\ Goto(t, "return")
  BY <1>1 DEF Finish
<1>4. Settled'
  BY <1>1 DEF WriterInOrder, CallInOrder, RebuiltInOrder, Settled, LiveRows
<1>5. ContentsInOrder("return")'
  <2>1. \A id \in Ids : Vector(state, id) = job.before[id]
    BY <1>2 DEF WriterInOrder, CallInOrder, ContentsInOrder, Inserts
  <2>2. \A id \in Ids : Vector(state', id) = job.before[id]
    BY <1>1, <2>1, SwapVectors
  <2> QED
    BY <1>1, <1>2, <2>2 DEF ContentsInOrder, Inserts
<1>6. BatchInOrder("return")'
  BY <1>1, <1>3 DEF WriterInOrder, CallInOrder, BatchInOrder, IsLevelB, Dealt, SectionPoints,
                    InsertPoints
<1>7. WriterInOrder("return")'
  BY <1>1, <1>4, <1>5, <1>6, Ends DEF WriterInOrder, CallInOrder, Points, WriterPoints
<1> QED
  BY <1>3, <1>7 DEF Arrives, Points, WriterPoints
-----------------------------------------------------------------------------
\* The beginning and the end of a call.

\* Nobody holds `writers`, and the locals of the last call are gone.
LEMMA IdleSafe ==
    ASSUME Settled', NoLocals
    PROVE  WriterInOrder("idle")'
<1>1. /\ job' = NoJob /\ done' = 0 /\ grown' = <<>> /\ unlinked' = {} /\ failed' = {}
      /\ outcome' = "ok" /\ rebuilt' = EmptyState /\ cursor' = 1
  BY DEF NoLocals
<1>2. StoreInOrder("idle")'
  <2>1. Waiting("idle")' = {}
    BY DEF Waiting, InsertPoints
  <2> QED
    BY <2>1, SettledStore DEF InsertPoints
<1>3. JobInOrder("idle")'
  BY DEF JobInOrder, BatchPoints, InsertPoints, SectionPoints
<1>4. BatchInOrder("idle")'
  <2>1. Len(grown') = 0 /\ Len(NoJob.ids) = 0
    BY <1>1 DEF NoJob
  <2>2. Dealt' = 0 /\ Len(job'.ids) = 0
    BY <1>1, <2>1 DEF Dealt
  <2>3. grown' \in Seq(Rows \cup {NoRow}) /\ 0 \in 0..MaxBatch
    BY <1>1, CollectionAssumption
  <2> QED
    BY <1>1, <2>2, <2>3 DEF BatchInOrder, InsertPoints, SectionPoints
<1>5. ContentsInOrder("idle")'
  BY DEF ContentsInOrder
<1>6. RebuiltInOrder("idle")'
  BY <1>1, EmptySound, CollectionAssumption DEF RebuiltInOrder, Sound
<1> QED
  BY <1>2, <1>3, <1>4, <1>5, <1>6 DEF WriterInOrder, CallInOrder

\* A call that returns leaves a settled collection.
LEMMA ReturnSafe ==
    ASSUME NEW t \in Threads, WriterInOrder("return"), Return(t)
    PROVE  Arrives(t)
<1>1. state' = state /\ NoLocals /\ Goto(t, "idle")
  BY DEF Return
<1>2. Settled
  <2>1. Waiting("return") = {}
    BY DEF Waiting, InsertPoints
  <2> QED
    BY <2>1, StoreSettled DEF WriterInOrder, InsertPoints
<1>3. Settled'
  BY <1>1, <1>2 DEF Settled
<1> QED
  BY <1>1, <1>3, IdleSafe DEF Arrives, Points

\* The batches add_batch accepts.
LEMMA BatchFacts ==
    ASSUME NEW b \in Batches
    PROVE  /\ Len(b.ids) \in 1..MaxBatch
           /\ b.ids \in [1..Len(b.ids) -> Ids]
           /\ b.vals \in [1..Len(b.ids) -> Vals]
           /\ \A i, j \in 1..Len(b.ids) : b.ids[i] = b.ids[j] => i = j
<1>1. PICK n \in 1..MaxBatch :
        \E ids \in {s \in [1..n -> Ids] : \A i, j \in 1..n : i # j => s[i] # s[j]},
           vals \in [1..n -> Vals] : b = [ids |-> ids, vals |-> vals]
  BY DEF Batches
<1>2. PICK ids \in [1..n -> Ids], vals \in [1..n -> Vals] :
        b = [ids |-> ids, vals |-> vals] /\ \A i, j \in 1..n : i # j => ids[i] # ids[j]
  BY <1>1
<1>3. n \in Nat /\ b.ids = ids /\ b.vals = vals
  BY <1>2, CollectionAssumption
<1>4. Len(ids) = n
  BY <1>3
<1> QED
  BY <1>2, <1>3, <1>4

\* A call begins: what it is compared with is what the collection holds.
LEMMA BeginSafe ==
    ASSUME NEW t \in Threads, WriterInOrder("idle"),
           NEW op, NEW b, NEW upsert, NEW where \in {"slice", "check", "remove", "compact"},
           Begin(t, op, b, upsert, where), JobInOrder(where)'
    PROVE  Arrives(t)
<1>1. /\ UNCHANGED <<state, done, grown, unlinked, failed, outcome, rebuilt, cursor, concurrent>>
      /\ Goto(t, where)
      /\ job' = [op |-> op, ids |-> b.ids, vals |-> b.vals, upsert |-> upsert,
                 before |-> Contents(state)]
  BY DEF Begin, compaction
<1>2. where # "idle" /\ where \notin InsertPoints \cup SectionPoints \cup {"return", "rebuild", "swap"}
  BY DEF InsertPoints, SectionPoints
<1>3. /\ done = 0 /\ grown = <<>> /\ Len(grown) = 0 /\ outcome = "ok"
      /\ unlinked \subseteq 1..MaxBatch /\ failed \subseteq 1..MaxBatch /\ 0 \in 0..MaxBatch
  <2>1. /\ done = 0 /\ grown = <<>> /\ outcome = "ok"
        /\ unlinked \subseteq 1..MaxBatch /\ failed \subseteq 1..MaxBatch
    BY DEF WriterInOrder, CallInOrder, BatchInOrder, SectionPoints
  <2> QED
    BY <2>1, NoneGrown, CollectionAssumption
<1>4. StoreInOrder(where)'
  <2>1. Waiting("idle") = {} /\ Waiting(where)' = {}
    BY <1>2 DEF Waiting, InsertPoints
  <2>2. Settled
    BY <2>1, StoreSettled DEF WriterInOrder, InsertPoints
  <2>3. Settled'
    BY <1>1, <2>2 DEF Settled
  <2> QED
    BY <1>2, <2>1, <2>3, SettledStore
<1>5. Dealt' = 0 /\ 1..0 = {}
  BY <1>1, <1>3 DEF Dealt
<1>6. BatchInOrder(where)'
  <2>1. where = "slice" => 0 < Len(job'.ids)
    <3> SUFFICES ASSUME where = "slice" PROVE 0 < Len(job'.ids)
      OBVIOUS
    <3>1. job'.op \in Inserts /\ IsBatch'
      BY DEF JobInOrder, BatchPoints
    <3> QED
      BY <3>1, CollectionAssumption DEF IsBatch
  <2>2. job'.op \in Inserts => 0 <= Len(job'.ids)
    <3> SUFFICES ASSUME job'.op \in Inserts PROVE 0 <= Len(job'.ids)
      OBVIOUS
    <3>1. IsBatch'
      BY <1>2 DEF JobInOrder
    <3> QED
      BY <3>1, CollectionAssumption DEF IsBatch
  <2>3. grown' \in Seq(Rows \cup {NoRow})
    BY <1>1, <1>3
  <2> QED
    BY <1>1, <1>2, <1>3, <1>5, <2>1, <2>2, <2>3 DEF BatchInOrder, InsertPoints, SectionPoints
<1>7. ContentsInOrder(where)'
  <2>1. \A id \in Ids : Vector(state', id) = job'.before[id]
    BY <1>1 DEF Vector, Contents
  <2> QED
    BY <1>1, <1>2, <1>3, <1>5, <2>1 DEF ContentsInOrder
<1>8. RebuiltInOrder(where)'
  BY <1>1, <1>2 DEF WriterInOrder, CallInOrder, RebuiltInOrder
<1> QED
  BY <1>1, <1>4, <1>6, <1>7, <1>8 DEF Arrives, WriterInOrder, CallInOrder, Points, WriterPoints,
                                     BatchPoints
-----------------------------------------------------------------------------
\* The insertion of one row.

InsertingPoints == InsertPoints \cup {"reserve"}

\* The row to insert is a row of the batch, and its id is not dealt with yet.
RowToInsert ==
    /\ job.op \in Inserts /\ IsBatch
    /\ done \in Nat /\ Len(grown) \in Nat /\ Dealt \in Nat /\ Len(job.ids) \in Nat
    /\ Position = Dealt + 1 /\ Position \in 1..Len(job.ids)
    /\ job.ids[Position] \in Ids /\ job.vals[Position] \in Vals
    /\ \A k \in 1..Dealt : job.ids[k] \in Ids /\ job.ids[k] # job.ids[Position]
    /\ \A i \in 1..Len(grown) : done + i \in 1..Dealt
    /\ job.op = "add" => Dealt = 0
    /\ outcome = "ok"

\* An insert under way has a row of its batch in hand.
LEMMA InsertFacts ==
    ASSUME NEW a \in InsertingPoints, CallInOrder(a)
    PROVE  RowToInsert
<1>1. job.op \in Inserts /\ IsBatch
  BY DEF CallInOrder, JobInOrder, BatchPoints, InsertingPoints, InsertPoints
<1>2. /\ done \in Nat /\ grown \in Seq(Rows \cup {NoRow}) /\ Dealt < Len(job.ids) /\ outcome = "ok"
  BY DEF CallInOrder, BatchInOrder, InsertingPoints, InsertPoints, SectionPoints
<1>3. Len(grown) \in Nat /\ Len(job.ids) \in Nat
  BY <1>1, <1>2, CollectionAssumption DEF IsBatch
<1>4. Dealt \in Nat /\ Position = Dealt + 1 /\ Position \in 1..Len(job.ids)
  BY <1>2, <1>3 DEF Dealt, Position
<1>5. \A k \in 1..Dealt : k \in 1..Len(job.ids) /\ k # Position
  BY <1>3, <1>4
<1>6. /\ job.ids[Position] \in Ids /\ job.vals[Position] \in Vals
      /\ \A k \in 1..Dealt : job.ids[k] \in Ids /\ job.ids[k] # job.ids[Position]
  BY <1>1, <1>4, <1>5 DEF IsBatch
<1>7. \A i \in 1..Len(grown) : done + i \in 1..Dealt
  BY <1>2, <1>3 DEF Dealt
<1>8. job.op = "add" => Dealt = 0
  BY <1>1, <1>2, <1>4 DEF IsBatch
<1> QED
  BY <1>1, <1>2, <1>3, <1>4, <1>6, <1>7, <1>8 DEF RowToInsert

\* The collection is in order at two points at once.
LEMMA StoreSame ==
    ASSUME NEW a, NEW b, a \notin InsertPoints, b \notin InsertPoints,
           Waiting(a)' = Waiting(b)', StoreInOrder(a)'
    PROVE  StoreInOrder(b)'
<1>1. Committed(a)' = state'.rows /\ Committed(b)' = state'.rows
  BY DEF Committed, InsertPoints
<1>2. \A i \in Waiting(b)' : Row(b, i)' = Row(a, i)'
  BY <1>1 DEF Row
<1>3. Sound(state, Committed(b))'
  BY <1>1 DEF StoreInOrder
<1>4. GrownInOrder(b)'
  BY <1>2 DEF StoreInOrder, GrownInOrder
<1>5. InsertInOrder(b)'
  BY DEF StoreInOrder, InsertInOrder, InsertPoints
<1>6. LinkedInOrder(b)'
  BY <1>1, <1>2 DEF StoreInOrder, LinkedInOrder, InsertPoints
<1> QED
  BY <1>3, <1>4, <1>5, <1>6 DEF StoreInOrder

\* The grow section of Level B ends.
LEMMA EndGrowSafe ==
    ASSUME NEW t \in Threads, NEW a \in InsertingPoints, NEW n, n = Len(grown'),
           CallInOrder(a), IsLevelB, UNCHANGED <<job, done, rebuilt, cursor, concurrent>>,
           EndGrow(t, n), StoreInOrder("reserve")',
           grown' \in Seq(Rows \cup {NoRow}), Dealt' <= Len(job.ids),
           outcome' \in {"ok", "error", "throws"}, ContentsInOrder("reserve")'
    PROVE  Arrives(t)
<1>1. /\ unlinked' = 1..n /\ failed' = {}
      /\ Goto(t, IF n > 0 THEN "begin_link" ELSE "end_section")
  BY DEF EndGrow
<1>2. RowToInsert /\ n \in Nat
  BY InsertFacts
<1>3. 1..n \subseteq 1..MaxBatch
  <2>1. done \in Nat /\ Len(job.ids) \in 1..MaxBatch
    BY <1>2 DEF RowToInsert, IsBatch
  <2>2. done + n <= Len(job.ids)
    BY DEF Dealt
  <2> QED
    BY <1>2, <2>1, <2>2, CollectionAssumption
<1>4. ASSUME NEW b \in {"begin_link", "end_section"}, Goto(t, b), Waiting(b)' = Waiting("reserve")'
      PROVE  Arrives(t)
  <2>1. StoreInOrder(b)'
    BY <1>4, StoreSame DEF InsertPoints
  <2>2. JobInOrder(b)'
    BY DEF CallInOrder, JobInOrder, IsBatch, IsLevelB, Inserts, BatchPoints, InsertPoints, SectionPoints,
           InsertingPoints
  <2>3. BatchInOrder(b)'
    <3>1. done' \in 0..MaxBatch /\ IsLevelB' /\ Len(job'.ids) = Len(job.ids)
      BY DEF CallInOrder, BatchInOrder, IsLevelB
    <3> QED
      BY <1>1, <1>3, <3>1 DEF BatchInOrder, InsertPoints, SectionPoints
  <2>4. ContentsInOrder(b)'
    BY DEF ContentsInOrder
  <2>5. RebuiltInOrder(b)'
    BY DEF CallInOrder, RebuiltInOrder
  <2> QED
    BY <1>4, <2>1, <2>2, <2>3, <2>4, <2>5 DEF Arrives, WriterInOrder, CallInOrder, Points,
                                             WriterPoints, BatchPoints, SectionPoints
<1>5. Waiting("reserve")' = 1..n
  BY DEF Waiting
<1>6. CASE n > 0
  <2>1. Waiting("begin_link")' = 1..n
    BY <1>1 DEF Waiting, InsertPoints
  <2> QED
    BY <1>1, <1>4, <1>5, <1>6, <2>1
<1>7. CASE ~(n > 0)
  <2>1. Waiting("end_section")' = {}
    BY DEF Waiting, InsertPoints
  <2>2. 1..n = {}
    BY <1>2, <1>7
  <2> QED
    BY <1>1, <1>4, <1>5, <1>7, <2>1, <2>2
<1> QED
  BY <1>6, <1>7

\* An insertion that fails and has been undone.
LEMMA FailsSafe ==
    ASSUME NEW t \in Threads, NEW a \in InsertingPoints, NEW how \in {"error", "throws"},
           CallInOrder(a), UNCHANGED <<job, done, grown, rebuilt, cursor, concurrent>>,
           InsertFails(t, how), StoreInOrder("reserve")',
           \A id \in Ids : Vector(state', id) = Vector(state, id)
    PROVE  Arrives(t)
<1>1. RowToInsert
  BY InsertFacts
<1>2. CASE ~IsLevelB
  <2>1. Finish(t, how) /\ UNCHANGED <<unlinked, failed>>
    BY <1>2 DEF InsertFails
  <2>2. Goto(t, "return") /\ outcome' \in {"error", "throws"}
    BY <2>1 DEF Finish
  <2>3. Settled'
    <3>1. grown' = <<>>
      BY <1>2 DEF CallInOrder, BatchInOrder
    <3>2. Len(grown') = 0
      BY <3>1
    <3>3. Waiting("reserve")' = {}
      BY <3>2 DEF Waiting
    <3> QED
      BY <3>3 DEF StoreInOrder, Settled, Committed, InsertPoints, InsertInOrder, LinkedInOrder, LiveRows
  <2>4. a \in Points \ {"idle", "return"}
    BY DEF InsertingPoints, InsertPoints, Points, WriterPoints, BatchPoints
  <2>5. WriterInOrder("return")'
    BY <1>1, <2>1, <2>2, <2>3, <2>4, EndsFailing DEF RowToInsert
  <2> QED
    BY <2>2, <2>5 DEF Arrives, Points, WriterPoints
<1>3. CASE IsLevelB
  <2>1. outcome' = how /\ EndGrow(t, Len(grown))
    BY <1>3 DEF InsertFails
  <2>2. grown' \in Seq(Rows \cup {NoRow}) /\ Dealt' <= Len(job.ids) /\ Dealt' = Dealt
    BY <1>1 DEF CallInOrder, BatchInOrder, RowToInsert, Dealt
  <2>3. ContentsInOrder("reserve")'
    <3>1. /\ \A id \in Ids : (\A k \in 1..Dealt : job.ids[k] # id) =>
                Vector(state, id) = job.before[id]
          /\ \A k \in 1..Dealt :
                Vector(state, job.ids[k]) \in {job.vals[k], job.before[job.ids[k]]}
      BY <1>1 DEF CallInOrder, ContentsInOrder, RowToInsert, InsertingPoints, InsertPoints
    <3>2. \A k \in 1..Dealt : job.ids[k] \in Ids
      BY <1>1 DEF RowToInsert
    <3>3. \A k \in 1..Dealt :
             Vector(state', job.ids[k]) \in {job.vals[k], job.before[job.ids[k]]}
      BY <3>1, <3>2
    <3> QED
      BY <1>1, <1>3, <2>1, <2>2, <3>1, <3>3 DEF ContentsInOrder, RowToInsert, IsLevelB
  <2> QED
    BY <1>3, <2>1, <2>2, <2>3, EndGrowSafe
<1> QED
  BY <1>2, <1>3

\* A step within an insertion leaves the call where it is.
LEMMA InsertCall ==
    ASSUME NEW a \in InsertingPoints, NEW b \in InsertingPoints, CallInOrder(a),
           UNCHANGED <<job, done, grown, unlinked, failed, outcome, rebuilt, cursor, concurrent>>,
           \A id \in Ids : Vector(state', id) = Vector(state, id)
    PROVE  CallInOrder(b)'
<1> USE DEF InsertingPoints, InsertPoints
<1>1. JobInOrder(b)'
  BY DEF CallInOrder, JobInOrder, IsBatch, IsLevelB, BatchPoints, SectionPoints
<1>2. BatchInOrder(b)'
  BY DEF CallInOrder, BatchInOrder, IsLevelB, Dealt, SectionPoints
<1>3. RebuiltInOrder(b)'
  BY DEF CallInOrder, RebuiltInOrder
<1>4. ContentsInOrder(b)'
  <2>1. RowToInsert
    BY InsertFacts
  <2>2. /\ \A id \in Ids : (\A k \in 1..Dealt : job.ids[k] # id) =>
              Vector(state, id) = job.before[id]
        /\ \A k \in 1..Dealt : Vector(state, job.ids[k]) = job.vals[k]
    BY <2>1 DEF CallInOrder, ContentsInOrder, RowToInsert
  <2>3. \A k \in 1..Dealt : Vector(state', job.ids[k]) = job.vals[k]
    BY <2>1, <2>2 DEF RowToInsert
  <2>4. Dealt' = Dealt
    BY DEF Dealt
  <2> QED
    BY <2>1, <2>2, <2>3, <2>4 DEF ContentsInOrder, RowToInsert
<1> QED
  BY <1>1, <1>2, <1>3, <1>4 DEF CallInOrder

\* Nor does it change the committed rows.
CommittedSame(n) ==
    /\ state'.map = state.map /\ state'.label = state.label /\ state'.deleted = state.deleted
    /\ state.linked \subseteq state'.linked /\ state'.stranded = state.stranded
    /\ \A r \in 1..n : state'.vec[r] = state.vec[r]

\* An insert step that leaves the committed rows alone keeps the store in order.
LEMMA InsertStore ==
    ASSUME NEW a \in InsertingPoints, NEW b \in InsertingPoints, StoreInOrder(a),
           UNCHANGED <<job, done, grown, concurrent>>, Committed(b)' = Committed(a),
           CommittedSame(Committed(a)), Sound(state', Committed(a)), InsertInOrder(b)',
           state'.linked \subseteq 1..(IF b = "index" THEN state'.rows - 1 ELSE state'.rows),
           b = "commit" /\ ~IsLevelB => state'.rows \in state'.linked
    PROVE  StoreInOrder(b)'
<1>1. Waiting(a) = 1..Len(grown) /\ Waiting(b)' = 1..Len(grown)
  BY DEF Waiting, InsertingPoints
<1>2. \A i : Row(b, i)' = Row(a, i)
  BY DEF Row
<1>3. GrownInOrder(b)'
  <2> SUFFICES ASSUME NEW i \in Waiting(b)', NEW id, id = job.ids[done + i]
               PROVE  /\ Row(b, i)' >= 1
                      /\ state'.map[id] = Row(b, i)'
                      /\ job.before[id] = IF grown[i] = NoRow THEN None ELSE state'.vec[grown[i]]
                      /\ grown[i] # NoRow =>
                            /\ grown[i] \in state'.deleted
                            /\ grown[i] \in state'.linked \cup state'.stranded
                            /\ state'.label[grown[i]] = id
    BY DEF GrownInOrder
  <2>1. /\ Row(a, i) >= 1
        /\ state.map[id] = Row(a, i)
        /\ job.before[id] = IF grown[i] = NoRow THEN None ELSE state.vec[grown[i]]
        /\ grown[i] # NoRow =>
              /\ grown[i] \in state.deleted
              /\ grown[i] \in state.linked \cup state.stranded
              /\ state.label[grown[i]] = id
    BY <1>1 DEF StoreInOrder, GrownInOrder
  <2>2. state.deleted \subseteq 1..Committed(a)
    BY DEF StoreInOrder, Sound
  <2> QED
    BY <1>2, <2>1, <2>2 DEF CommittedSame
<1>4. LinkedInOrder(b)'
  <2>1. \A r \in (1..Committed(a)) \ state.deleted :
          r \in state.linked \cup state.stranded \/ \E i \in Waiting(a) : r = Row(a, i)
    BY DEF StoreInOrder, LinkedInOrder
  <2>2. \A r \in (1..Committed(b)') \ state'.deleted :
          r \in state'.linked \cup state'.stranded \/ \E i \in Waiting(b)' : r = Row(b, i)'
    BY <1>1, <1>2, <2>1 DEF CommittedSame
  <2> QED
    BY <2>2 DEF LinkedInOrder, IsLevelB
<1> QED
  BY <1>3, <1>4 DEF StoreInOrder

\* The part of the state that an insertion starts from.
LEMMA InsertState ==
    ASSUME NEW a \in InsertingPoints, WriterInOrder(a)
    PROVE  /\ Sound(state, Committed(a)) /\ StateOK(state) /\ state.rows \in Nat
           /\ Committed(a) = IF a \in {"index", "commit"} THEN state.rows - 1 ELSE state.rows
           /\ state.pending = IF a \in InsertPoints THEN {job.ids[Position]} ELSE {}
           /\ state.linked \subseteq 1..(IF a = "index" THEN state.rows - 1 ELSE state.rows)
           /\ a \in {"index", "commit"} =>
                 state.rows \in Rows /\ state.rows >= 1 /\ state.vec[state.rows] = job.vals[Position]
<1>1. Sound(state, Committed(a)) /\ StateOK(state) /\ state.rows \in Nat
  BY DEF WriterInOrder, StoreInOrder, Sound, StateOK
<1>2. a \in {"index", "commit"} =>
         state.rows >= 1 /\ state.vec[state.rows] = job.vals[Position]
  BY DEF WriterInOrder, StoreInOrder, InsertInOrder
<1>3. a \in {"index", "commit"} => state.rows \in Rows
  BY <1>1, <1>2, CollectionAssumption DEF StateOK, Rows
<1> QED
  BY <1>1, <1>2, <1>3 DEF WriterInOrder, StoreInOrder, InsertInOrder, LinkedInOrder, Committed

\* The id of the row is checked and reserved.
LEMMA ReserveIdSafe ==
    ASSUME NEW t \in Threads, WriterInOrder("reserve"), ReserveId(t)
    PROVE  Arrives(t)
<1>0. "reserve" \in InsertingPoints /\ "append" \in InsertingPoints /\ CallInOrder("reserve")
      /\ StoreInOrder("reserve")
  BY DEF InsertingPoints, InsertPoints, WriterInOrder
<1>1. UNCHANGED <<job, done, grown, rebuilt, cursor, concurrent>>
  BY DEF ReserveId, compaction
<1>2. RowToInsert
  BY <1>0, InsertFacts
<1>3. /\ Sound(state, state.rows) /\ StateOK(state)
      /\ state.pending = {} /\ state.linked \subseteq 1..state.rows
      /\ Committed("reserve") = state.rows
  BY <1>0, InsertState DEF InsertPoints
<1>4. PICK id : id = job.ids[Position]
  OBVIOUS
<1>5. id \in Ids
  BY <1>2, <1>4 DEF RowToInsert
<1>6. CASE /\ state' = Reserve(state, id) /\ Goto(t, "append")
           /\ UNCHANGED <<unlinked, failed, outcome>>
  <2>1. /\ StateOK(state') /\ Alike(state, state')
        /\ state'.pending = state.pending \cup {id}
        /\ state'.linked = state.linked /\ state'.stranded = state.stranded
    BY <1>3, <1>5, <1>6, ReserveFields
  <2>2. Sound(state', state.rows) /\ \A i \in Ids : Vector(state', i) = Vector(state, i)
    <3>1. Sound(state', state.rows)
      BY <1>3, <2>1, AlikeSound
    <3> QED
      BY <2>1, <3>1, AlikeVectors
  <2>3. CallInOrder("append")'
    BY <1>0, <1>1, <1>6, <2>2, InsertCall
  <2>4. Committed("append")' = Committed("reserve") /\ state'.rows = state.rows
    BY <1>3, <2>1 DEF Committed, Alike
  <2>5. CommittedSame(Committed("reserve"))
    BY <2>1 DEF CommittedSame, Alike
  <2>6. InsertInOrder("append")'
    BY <1>1, <1>3, <1>4, <2>1 DEF InsertInOrder, InsertPoints, Position
  <2>7. StoreInOrder("append")'
    BY <1>0, <1>1, <1>3, <2>1, <2>2, <2>4, <2>5, <2>6, InsertStore
  <2> QED
    BY <1>6, <2>3, <2>7 DEF Arrives, WriterInOrder, Points, WriterPoints, BatchPoints, InsertPoints
<1>7. ASSUME NEW how \in {"error", "throws"}, InsertFails(t, how), UNCHANGED state
      PROVE  Arrives(t)
  <2>1. StoreInOrder("reserve")'
    BY <1>0, <1>1, <1>7 DEF StoreInOrder, Committed, GrownInOrder, InsertInOrder, LinkedInOrder,
              Waiting, Row, Position, IsLevelB, InsertPoints
  <2> QED
    BY <1>0, <1>1, <1>7, <2>1, FailsSafe
<1> QED
  BY <1>4, <1>6, <1>7 DEF ReserveId

\* IdMap::rollback ends an insertion whose row, if any, is gone again.
LEMMA RollbackSafe ==
    ASSUME NEW t \in Threads, NEW a \in {"append", "index"}, WriterInOrder(a),
           NEW s, NEW id, id = job.ids[Position], state' = Rollback(s, id),
           Sound(s, s.rows), s.rows = Committed(a), s.pending = {id},
           s.map = state.map, s.label = state.label, s.deleted = state.deleted,
           s.linked = state.linked, s.stranded = state.stranded,
           \A r \in 1..s.rows : s.vec[r] = state.vec[r],
           \A i \in Ids : Vector(s, i) = Vector(state, i),
           NEW how \in {"error", "throws"}, InsertFails(t, how),
           UNCHANGED <<job, done, grown, rebuilt, cursor, concurrent>>
    PROVE  Arrives(t)
<1>1. a \in InsertingPoints /\ "reserve" \in InsertingPoints /\ CallInOrder(a) /\ StoreInOrder(a)
  BY DEF InsertingPoints, InsertPoints, WriterInOrder
<1>2. RowToInsert /\ StateOK(s)
  BY <1>1, InsertFacts DEF Sound
<1>3. id \in Ids
  BY <1>2 DEF RowToInsert
<1>4. /\ StateOK(state') /\ Alike(s, state')
      /\ state'.pending = s.pending \ {id}
      /\ state'.linked = s.linked /\ state'.stranded = s.stranded
  BY <1>2, <1>3, RollbackFields
<1>5. Sound(state', s.rows)
  BY <1>4, AlikeSound
<1>6. \A i \in Ids : Vector(state', i) = Vector(state, i)
  <2>1. \A i \in Ids : Vector(state', i) = Vector(s, i)
    BY <1>4, AlikeVectors
  <2> QED
    BY <2>1
<1>7. Committed("reserve")' = Committed(a) /\ state'.rows = Committed(a)
  BY <1>4 DEF Committed, Alike
<1>8. CommittedSame(Committed(a))
  BY <1>4 DEF CommittedSame, Alike
<1>9. InsertInOrder("reserve")'
  BY <1>4 DEF InsertInOrder, InsertPoints
<1>10. state'.linked \subseteq 1..state'.rows
  <2>1. state.linked \subseteq 1..(IF a = "index" THEN state.rows - 1 ELSE state.rows)
    BY <1>1, InsertState
  <2>2. Committed(a) = IF a = "index" THEN state.rows - 1 ELSE state.rows
    BY DEF Committed
  <2> QED
    BY <1>4, <1>7, <2>1, <2>2
<1>11. StoreInOrder("reserve")'
  <2>1. Sound(state', Committed(a))
    BY <1>5
  <2> QED
    BY <1>1, <1>7, <1>8, <1>9, <1>10, <2>1, InsertStore
<1> QED
  BY <1>1, <1>6, <1>11, FailsSafe

\* The vector is appended, or append() fails and the reservation is released.
LEMMA AppendVectorSafe ==
    ASSUME NEW t \in Threads, WriterInOrder("append"), AppendVector(t)
    PROVE  Arrives(t)
<1>0. "append" \in InsertingPoints /\ "index" \in InsertingPoints /\ CallInOrder("append")
      /\ StoreInOrder("append")
  BY DEF InsertingPoints, InsertPoints, WriterInOrder
<1>1. UNCHANGED <<job, done, grown, rebuilt, cursor, concurrent>>
  BY DEF AppendVector, compaction
<1>2. RowToInsert
  BY <1>0, InsertFacts
<1>3. /\ Sound(state, state.rows) /\ StateOK(state) /\ state.rows \in Nat
      /\ state.pending = {job.ids[Position]} /\ state.linked \subseteq 1..state.rows
      /\ Committed("append") = state.rows
  BY <1>0, InsertState DEF InsertPoints
<1>4. CASE /\ state.rows < MaxRows /\ state' = AppendRow(state, job.vals[Position])
           /\ Goto(t, "index") /\ UNCHANGED <<unlinked, failed, outcome>>
  <2>1. PICK v : v = job.vals[Position]
    OBVIOUS
  <2>2. /\ v \in Vals /\ state' = AppendRow(state, v) /\ state.rows < MaxRows
        /\ StateOK(state) /\ Sound(state, state.rows)
    BY <1>2, <1>3, <1>4, <2>1 DEF RowToInsert
  <2>3. /\ StateOK(state')
        /\ state'.rows = state.rows + 1
        /\ state'.label = state.label /\ state'.deleted = state.deleted
        /\ state'.map = state.map
        /\ state'.pending = state.pending /\ state'.linked = state.linked
        /\ state'.stranded = state.stranded
    <3>1. AppendEffect(state, v, state')
      BY <2>2, AppendFields
    <3> QED
      BY <3>1 DEF AppendEffect
  <2>4. Sound(state', state'.rows - 1)
    BY <2>2, AppendSound
  <2>5. /\ \A id \in Ids : Vector(state', id) = Vector(state, id)
        /\ state'.vec[state'.rows] = v
        /\ \A r \in 1..state.rows : state'.vec[r] = state.vec[r]
    BY <2>2, AppendVectors
  <2>6. state'.rows - 1 = state.rows /\ Committed("index")' = state.rows /\ state'.rows >= 1
    BY <1>3, <2>3 DEF Committed
  <2>7. CallInOrder("index")'
    BY <1>0, <1>1, <1>4, <2>5, InsertCall
  <2>8. CommittedSame(Committed("append"))
    BY <1>3, <2>3, <2>5 DEF CommittedSame
  <2>9. InsertInOrder("index")'
    BY <1>1, <1>3, <2>1, <2>3, <2>5, <2>6 DEF InsertInOrder, InsertPoints, Position
  <2>10. StoreInOrder("index")'
    <3>1. Sound(state', Committed("append")) /\ Committed("index")' = Committed("append")
      BY <1>3, <2>4, <2>6
    <3>2. state'.linked \subseteq 1..(state'.rows - 1)
      BY <1>3, <2>3, <2>6
    <3> QED
      BY <1>0, <1>1, <2>8, <2>9, <3>1, <3>2, InsertStore
  <2> QED
    BY <1>4, <2>7, <2>10 DEF Arrives, WriterInOrder, Points, WriterPoints, BatchPoints, InsertPoints
<1>5. ASSUME NEW how \in {"error", "throws"}, InsertFails(t, how),
             state' = Rollback(state, job.ids[Position])
      PROVE  Arrives(t)
  <2>1. PICK id, s : id = job.ids[Position] /\ s = state
    OBVIOUS
  <2>2. /\ s.rows = Committed("append") /\ s.pending = {id} /\ state' = Rollback(s, id)
        /\ s.label = state.label /\ s.deleted = state.deleted /\ s.map = state.map
        /\ s.linked = state.linked /\ s.stranded = state.stranded
        /\ \A r \in 1..s.rows : s.vec[r] = state.vec[r]
        /\ \A i \in Ids : Vector(s, i) = Vector(state, i)
        /\ Sound(s, s.rows)
    BY <1>3, <1>5, <2>1
  <2>3. id = job.ids[Position]
    BY <2>1
  <2> QED
    BY <1>1, <1>5, <2>2, <2>3, RollbackSafe
<1> QED
  BY <1>4, <1>5 DEF AppendVector

\* The row is indexed, or the backend fails and row and reservation are taken back.
LEMMA IndexRowSafe ==
    ASSUME NEW t \in Threads, WriterInOrder("index"), IndexRow(t)
    PROVE  Arrives(t)
<1>0. "index" \in InsertingPoints /\ "commit" \in InsertingPoints /\ CallInOrder("index")
      /\ StoreInOrder("index")
  BY DEF InsertingPoints, InsertPoints, WriterInOrder
<1>1. UNCHANGED <<job, done, grown, rebuilt, cursor, concurrent>>
  BY DEF IndexRow, compaction
<1>2. RowToInsert
  BY <1>0, InsertFacts
<1>3. /\ Sound(state, state.rows - 1) /\ StateOK(state) /\ state.rows \in Nat
      /\ state.pending = {job.ids[Position]} /\ state.linked \subseteq 1..(state.rows - 1)
      /\ Committed("index") = state.rows - 1
      /\ state.rows \in Rows /\ state.rows >= 1 /\ state.vec[state.rows] = job.vals[Position]
  BY <1>0, InsertState DEF InsertPoints
<1>4. CASE /\ state' = IF IsLevelB THEN state ELSE [state EXCEPT !.linked = @ \cup {state.rows}]
           /\ Goto(t, "commit") /\ UNCHANGED <<unlinked, failed, outcome>>
  <2>1. PICK R : R = IF IsLevelB THEN {} ELSE {state.rows}
    OBVIOUS
  <2>2. R \in SUBSET Rows /\ R \subseteq 1..state.rows /\ (~IsLevelB => state.rows \in R)
    BY <1>3, <2>1
  <2>3. /\ StateOK(state') /\ Alike(state, state')
        /\ state'.linked = state.linked \cup R
        /\ state'.pending = state.pending /\ state'.stranded = state.stranded
    <3>1. CASE IsLevelB
      BY <1>3, <1>4, <2>1, <3>1 DEF Alike
    <3>2. CASE ~IsLevelB
      <4>1. state' = [state EXCEPT !.linked = @ \cup R]
        BY <1>4, <2>1, <3>2
      <4> QED
        BY <1>3, <2>2, <4>1, LinkedFields
    <3> QED
      BY <3>1, <3>2
  <2>4. Sound(state', Committed("index")) /\ \A i \in Ids : Vector(state', i) = Vector(state, i)
    <3>1. Sound(state', state.rows - 1)
      BY <1>3, <2>3, AlikeSound
    <3> QED
      BY <1>3, <2>3, <3>1, AlikeVectors
  <2>5. CallInOrder("commit")'
    BY <1>0, <1>1, <1>4, <2>4, InsertCall
  <2>6. Committed("commit")' = Committed("index") /\ state'.rows = state.rows
    BY <1>3, <2>3 DEF Committed, Alike
  <2>7. CommittedSame(Committed("index"))
    BY <2>3 DEF CommittedSame, Alike
  <2>8. InsertInOrder("commit")'
    BY <1>1, <1>3, <2>3 DEF InsertInOrder, InsertPoints, Position, Alike
  <2>9. state'.linked \subseteq 1..state'.rows /\ (~IsLevelB => state'.rows \in state'.linked)
    <3>1. 1..(state.rows - 1) \subseteq 1..state.rows
      BY <1>3
    <3> QED
      BY <1>3, <2>2, <2>3, <2>6, <3>1
  <2>10. StoreInOrder("commit")'
    BY <1>0, <1>1, <2>4, <2>6, <2>7, <2>8, <2>9, InsertStore
  <2> QED
    BY <1>4, <2>5, <2>10 DEF Arrives, WriterInOrder, Points, WriterPoints, BatchPoints, InsertPoints
<1>5. ASSUME InsertFails(t, "throws"), state' = Rollback(PopBack(state), job.ids[Position])
      PROVE  Arrives(t)
  <2>1. PICK id, s : id = job.ids[Position] /\ s = PopBack(state)
    OBVIOUS
  <2>2. /\ s.rows = state.rows - 1
        /\ s.label = state.label /\ s.deleted = state.deleted /\ s.map = state.map
        /\ s.pending = state.pending /\ s.linked = state.linked /\ s.stranded = state.stranded
    BY <1>3, <2>1, PopFields
  <2>3. Sound(s, s.rows)
    BY <1>3, <2>1, PopSound
  <2>4. /\ \A i \in Ids : Vector(s, i) = Vector(state, i)
        /\ \A r \in 1..(state.rows - 1) : s.vec[r] = state.vec[r]
    BY <1>3, <2>1, PopVectors
  <2>5. /\ s.rows = Committed("index") /\ s.pending = {id} /\ state' = Rollback(s, id)
        /\ \A r \in 1..s.rows : s.vec[r] = state.vec[r]
    BY <1>3, <1>5, <2>1, <2>2, <2>4
  <2> QED
    BY <1>1, <1>5, <2>1, <2>2, <2>3, <2>4, <2>5, RollbackSafe
<1> QED
  BY <1>4, <1>5 DEF IndexRow

\* What CommitRow does to the state, whatever comes next.
LEMMA CommitState ==
    ASSUME WriterInOrder("commit"), NEW id, id = job.ids[Position],
           NEW r, r = state.rows, state' = Commit(state, id, r)
    PROVE  /\ id \in Ids /\ r \in Rows /\ r \in Nat \ {0} /\ Committed("commit") = r - 1
           /\ Sound(state, r - 1) /\ Sound(state', r) /\ state'.rows = r
           /\ CommitEffect(state, id, r, state') /\ state'.pending = {}
           /\ Vector(state', id) = job.vals[Position]
           /\ \A i \in Ids \ {id} : Vector(state', i) = Vector(state, i)
<1>0. "commit" \in InsertingPoints /\ CallInOrder("commit")
  BY DEF InsertingPoints, InsertPoints, WriterInOrder
<1>1. RowToInsert
  BY <1>0, InsertFacts
<1>2. /\ Sound(state, r - 1) /\ StateOK(state) /\ r \in Nat
      /\ state.pending = {id} /\ Committed("commit") = r - 1
      /\ r \in Rows /\ r >= 1 /\ state.vec[r] = job.vals[Position]
  BY <1>0, InsertState DEF InsertPoints
<1>3. id \in Ids
  BY <1>1 DEF RowToInsert
<1>4. CommitEffect(state, id, r, state')
  <2>1. state.map[id] # NoRow => state.map[id] \notin state.deleted
    BY <1>2, <1>3 DEF Sound
  <2> QED
    BY <1>2, <1>3, <2>1, CommitFields
<1>5. Sound(state', state'.rows)
  BY <1>2, <1>3, CommitSound
<1>6. /\ state'.rows = r /\ state'.pending = {} /\ state'.vec = state.vec
      /\ state'.map = [state.map EXCEPT ![id] = r]
  BY <1>2, <1>4 DEF CommitEffect
<1>7. /\ Vector(state', id) = IF r = NoRow THEN None ELSE state.vec[r]
      /\ \A i \in Ids \ {id} : Vector(state', i) = Vector(state, i)
  <2>1. r \in Rows \cup {NoRow}
    BY <1>2
  <2> QED
    BY <1>2, <1>3, <1>6, <2>1, MapVectors
<1>8. r # NoRow
  BY <1>2 DEF NoRow
<1> QED
  BY <1>2, <1>3, <1>4, <1>5, <1>6, <1>7, <1>8

\* One more row of the batch has its new vector.
LEMMA CommitContents ==
    ASSUME NEW b \in Points, b # "idle", WriterInOrder("commit"), NEW id, id = job.ids[Position],
           NEW r, r = state.rows, state' = Commit(state, id, r),
           UNCHANGED job, Dealt' = Dealt + 1, outcome' = "ok",
           b = "return" => Dealt' = Len(job.ids)
    PROVE  ContentsInOrder(b)'
<1>1. RowToInsert
  BY InsertFacts DEF WriterInOrder, InsertingPoints, InsertPoints
<1>2. /\ id \in Ids
      /\ Vector(state', id) = job.vals[Position]
      /\ \A i \in Ids \ {id} : Vector(state', i) = Vector(state, i)
  BY CommitState
<1>3. Dealt \in Nat /\ Position = Dealt + 1
  BY <1>1 DEF RowToInsert
<1>4. /\ \A i \in Ids : (\A k \in 1..Dealt : job.ids[k] # i) => Vector(state, i) = job.before[i]
      /\ \A k \in 1..Dealt : Vector(state, job.ids[k]) = job.vals[k]
  BY <1>1 DEF WriterInOrder, CallInOrder, ContentsInOrder, RowToInsert
<1>5. 1..Dealt' = (1..Dealt) \cup {Position}
  BY <1>3
<1>6. \A k \in 1..Dealt' : Vector(state', job.ids[k]) = job.vals[k]
  BY <1>1, <1>2, <1>4, <1>5 DEF RowToInsert
<1>7. \A i \in Ids : (\A k \in 1..Dealt' : job.ids[k] # i) => Vector(state', i) = job.before[i]
  BY <1>2, <1>4, <1>5
<1> QED
  BY <1>1, <1>6, <1>7 DEF ContentsInOrder, RowToInsert

\* Level A: the committed row is linked.
LEMMA CommitSettled ==
    ASSUME WriterInOrder("commit"), NEW id, id = job.ids[Position],
           NEW r, r = state.rows, state' = Commit(state, id, r), ~IsLevelB
    PROVE  Settled'
<1>1. /\ r \in Nat \ {0} /\ Committed("commit") = r - 1
      /\ Sound(state', r) /\ state'.rows = r /\ state'.pending = {}
      /\ CommitEffect(state, id, r, state')
  BY CommitState
<1>2. Waiting("commit") = {}
  <2>1. grown = <<>>
    BY DEF WriterInOrder, CallInOrder, BatchInOrder
  <2> QED
    BY <2>1, NoneGrown DEF Waiting, InsertPoints
<1>3. /\ state.linked \subseteq 1..r /\ r \in state.linked
      /\ \A q \in (1..(r - 1)) \ state.deleted : q \in state.linked \cup state.stranded
  BY <1>1, <1>2 DEF WriterInOrder, StoreInOrder, LinkedInOrder
<1>4. /\ state'.linked = state.linked /\ state'.stranded = state.stranded
      /\ state.deleted \subseteq state'.deleted
  BY <1>1 DEF CommitEffect
<1>5. \A q \in (1..r) \ state'.deleted : q \in state.linked \cup state.stranded
  <2> SUFFICES ASSUME NEW q \in 1..r, q \notin state'.deleted, q # r
               PROVE  q \in state.linked \cup state.stranded
    BY <1>3
  <2>1. q \in 1..(r - 1)
    BY <1>1
  <2> QED
    BY <1>3, <1>4, <2>1
<1> QED
  BY <1>1, <1>3, <1>4, <1>5 DEF Settled, LiveRows

\* A waiting row can be abandoned after a step that keeps the batch.
CanAbandon(at, i, id) ==
    /\ Row(at, i) >= 1
    /\ state.map[id] = Row(at, i)
    /\ job.before[id] = IF grown[i] = NoRow THEN None ELSE state.vec[grown[i]]
    /\ grown[i] # NoRow =>
          /\ grown[i] \in state.deleted
          /\ grown[i] \in state.linked \cup state.stranded
          /\ state.label[grown[i]] = id

\* The rows of a section are in order when each of them can still be given up.
LEMMA WaitingRows ==
    ASSUME NEW at, UNCHANGED <<job, done>>,
           ASSUME NEW i, i \in Waiting(at)', NEW id, id = job.ids[done + i]
           PROVE  CanAbandon(at, i, id)'
    PROVE  GrownInOrder(at)'
  BY DEF GrownInOrder, CanAbandon

\* Level B: the committed row waits for its links with the others.
LEMMA CommitGrows ==
    ASSUME WriterInOrder("commit"), NEW id, id = job.ids[Position],
           NEW r, r = state.rows, state' = Commit(state, id, r),
           UNCHANGED <<job, done, concurrent>>, grown' = Append(grown, state.map[id])
    PROVE  /\ StoreInOrder("reserve")'
           /\ grown' \in Seq(Rows \cup {NoRow}) /\ Len(grown') = Len(grown) + 1
           /\ Dealt' = Dealt + 1
<1>1. RowToInsert
  BY InsertFacts DEF WriterInOrder, InsertingPoints, InsertPoints
<1>2. /\ id \in Ids /\ r \in Rows /\ r \in Nat \ {0} /\ Committed("commit") = r - 1
      /\ Sound(state, r - 1) /\ Sound(state', r) /\ state'.rows = r /\ state'.pending = {}
      /\ CommitEffect(state, id, r, state')
  BY CommitState
<1>3. PICK n \in Nat : n = Len(grown)
  BY <1>1 DEF RowToInsert
<1>4. /\ grown \in Seq(Rows \cup {NoRow}) /\ state.map[id] \in Rows \cup {NoRow}
  BY <1>2 DEF WriterInOrder, CallInOrder, BatchInOrder, Sound, StateOK
<1>5. /\ grown' \in Seq(Rows \cup {NoRow}) /\ Len(grown') = n + 1
      /\ grown'[n + 1] = state.map[id]
      /\ \A i \in 1..n : grown'[i] = grown[i]
  BY <1>3, <1>4
<1>6. Dealt' = Dealt + 1
  BY <1>1, <1>3, <1>5 DEF Dealt, RowToInsert
<1>7. /\ Waiting("commit") = 1..n /\ Waiting("reserve")' = 1..(n + 1)
      /\ Committed("reserve")' = r
  BY <1>2, <1>3, <1>5 DEF Waiting, InsertPoints, Committed
<1>8. /\ \A i \in 1..n : Row("reserve", i)' = Row("commit", i)
      /\ Row("reserve", n + 1)' = r
  BY <1>2, <1>3, <1>5, <1>7 DEF Row
<1>9. /\ state'.map[id] = r /\ \A i \in Ids \ {id} : state'.map[i] = state.map[i]
      /\ \A q \in Rows \ {r} : state'.label[q] = state.label[q]
      /\ state.deleted \subseteq state'.deleted
      /\ state.map[id] # NoRow => state.map[id] \in state'.deleted
      /\ state'.linked = state.linked /\ state'.stranded = state.stranded
      /\ state'.vec = state.vec
  <2>1. state.map \in [Ids -> Rows \cup {NoRow}] /\ state.label \in [Rows -> Ids \cup {None}]
    BY <1>2 DEF Sound, StateOK
  <2> QED
    BY <1>2, <2>1 DEF CommitEffect
<1>10. \A q \in 1..(r - 1) : q \in Rows \ {r}
  BY <1>2, CollectionAssumption DEF Rows
<1>11. state.deleted \subseteq 1..(r - 1)
  BY <1>2 DEF Sound
<1>12. \A i \in 1..n :
         /\ job.ids[done + i] \in Ids \ {id}
         /\ Row("commit", i) >= 1
         /\ state.map[job.ids[done + i]] = Row("commit", i)
         /\ job.before[job.ids[done + i]] = IF grown[i] = NoRow THEN None ELSE state.vec[grown[i]]
         /\ grown[i] # NoRow =>
               /\ grown[i] \in state.deleted
               /\ grown[i] \in state.linked \cup state.stranded
               /\ state.label[grown[i]] = job.ids[done + i]
  <2>1. \A i \in 1..n : job.ids[done + i] \in Ids \ {id}
    BY <1>1, <1>3 DEF RowToInsert
  <2> QED
    BY <1>7, <2>1 DEF WriterInOrder, StoreInOrder, GrownInOrder
<1>13. \A q \in (1..(r - 1)) \ state.deleted :
          q \in state.linked \cup state.stranded \/ \E i \in 1..n : q = Row("commit", i)
  BY <1>2, <1>7 DEF WriterInOrder, StoreInOrder, LinkedInOrder
<1>14. state.map[id] # NoRow =>
          /\ state.map[id] \in 1..(r - 1) /\ state.map[id] \notin state.deleted
          /\ state.label[state.map[id]] = id
          /\ state.map[id] \in state.linked \cup state.stranded
  <2> SUFFICES ASSUME state.map[id] # NoRow
               PROVE  /\ state.map[id] \in 1..(r - 1) /\ state.map[id] \notin state.deleted
                      /\ state.label[state.map[id]] = id
                      /\ state.map[id] \in state.linked \cup state.stranded
    OBVIOUS
  <2>1. /\ state.map[id] \in 1..(r - 1) /\ state.map[id] \notin state.deleted
        /\ state.label[state.map[id]] = id
    BY <1>2 DEF Sound
  <2>2. \A i \in 1..n : state.map[id] # Row("commit", i)
    <3> SUFFICES ASSUME NEW i \in 1..n, state.map[id] = Row("commit", i) PROVE FALSE
      OBVIOUS
    <3>1. PICK j : j = job.ids[done + i]
      OBVIOUS
    <3>2. j \in Ids \ {id} /\ state.map[j] = state.map[id]
      BY <1>12, <3>1
    <3>3. state.label[state.map[j]] = j
      BY <1>2, <3>2 DEF Sound
    <3> QED
      BY <2>1, <3>2, <3>3
  <2> QED
    BY <1>13, <2>1, <2>2
<1>15. job.before[id] = Vector(state, id)
  <2>1. \A k \in 1..Dealt : job.ids[k] # id
    BY <1>1 DEF RowToInsert
  <2> QED
    BY <1>1, <1>2, <2>1 DEF WriterInOrder, CallInOrder, ContentsInOrder, RowToInsert
<1>16. GrownInOrder("reserve")'
  <2> SUFFICES ASSUME NEW i, i \in Waiting("reserve")', NEW j, j = job.ids[done + i]
               PROVE  CanAbandon("reserve", i, j)'
    BY WaitingRows
  <2>0. i \in 1..(n + 1)
    BY <1>7
  <2>1. CASE i = n + 1
    <3>1. j = id
      <4>1. done + (n + 1) = Position
        BY <1>1, <1>3 DEF Position, RowToInsert
      <4> QED
        BY <2>1, <4>1
    <3>2. grown'[i] = state.map[id] /\ Row("reserve", i)' = r
      BY <1>5, <1>8, <2>1
    <3>3. job.before[id] = IF state.map[id] = NoRow THEN None ELSE state.vec[state.map[id]]
      BY <1>15 DEF Vector
    <3>4. state.map[id] # NoRow => state'.label[state.map[id]] = id
      BY <1>9, <1>10, <1>14
    <3> QED
      BY <1>2, <1>9, <1>14, <3>1, <3>2, <3>3, <3>4 DEF CanAbandon
  <2>2. CASE i # n + 1
    <3>1. i \in 1..n
      BY <2>0, <2>2
    <3>2. grown'[i] = grown[i] /\ Row("reserve", i)' = Row("commit", i)
      BY <1>5, <1>8, <3>1
    <3>3. /\ j \in Ids \ {id}
          /\ Row("commit", i) >= 1
          /\ state.map[j] = Row("commit", i)
          /\ job.before[j] = IF grown[i] = NoRow THEN None ELSE state.vec[grown[i]]
          /\ grown[i] # NoRow =>
                /\ grown[i] \in state.deleted
                /\ grown[i] \in state.linked \cup state.stranded
                /\ state.label[grown[i]] = j
      BY <1>12, <3>1
    <3>4. grown[i] # NoRow => state'.label[grown[i]] = j
      BY <1>9, <1>10, <1>11, <3>3
    <3> QED
      BY <1>9, <3>2, <3>3, <3>4 DEF CanAbandon
  <2> QED
    BY <2>1, <2>2
<1>17. InsertInOrder("reserve")'
  BY <1>2 DEF InsertInOrder, InsertPoints
<1>18. LinkedInOrder("reserve")'
  <2>1. state'.linked \subseteq 1..state'.rows
    BY <1>2, <1>9 DEF WriterInOrder, StoreInOrder, LinkedInOrder
  <2>2. \A q \in (1..r) \ state'.deleted :
          q \in state'.linked \cup state'.stranded \/ \E i \in 1..(n + 1) : q = Row("reserve", i)'
    <3> SUFFICES ASSUME NEW q \in 1..r, q \notin state'.deleted
                 PROVE  \/ q \in state'.linked \cup state'.stranded
                        \/ \E i \in 1..(n + 1) : q = Row("reserve", i)'
      OBVIOUS
    <3>1. CASE q = r
      <4>1. n + 1 \in 1..(n + 1)
        OBVIOUS
      <4> QED
        BY <1>8, <3>1, <4>1
    <3>2. CASE q # r
      <4>1. q \in 1..(r - 1) /\ q \notin state.deleted
        BY <1>2, <1>9, <3>2
      <4>2. \A i \in 1..n : i \in 1..(n + 1)
        OBVIOUS
      <4> QED
        BY <1>8, <1>9, <1>13, <4>1, <4>2
    <3> QED
      BY <3>1, <3>2
  <2> QED
    BY <1>7, <2>1, <2>2 DEF LinkedInOrder
<1> QED
  BY <1>2, <1>3, <1>5, <1>6, <1>7, <1>16, <1>17, <1>18 DEF StoreInOrder

\* The row is committed: it has its id, and the row it replaces is hidden.
LEMMA CommitRowSafe ==
    ASSUME NEW t \in Threads, WriterInOrder("commit"), CommitRow(t)
    PROVE  Arrives(t)
<1>0. "commit" \in InsertingPoints /\ CallInOrder("commit")
  BY DEF InsertingPoints, InsertPoints, WriterInOrder
<1>1. PICK id, r : /\ id = job.ids[Position] /\ r = state.rows
                   /\ state' = Commit(state, id, r)
  BY DEF CommitRow
<1>2. UNCHANGED <<job, rebuilt, cursor, concurrent>>
  BY DEF CommitRow, compaction
<1>3. RowToInsert
  BY <1>0, InsertFacts
<1>4. /\ Dealt + 1 <= Len(job.ids) /\ Dealt \in Nat /\ Len(job.ids) \in Nat
      /\ (Position = Len(job.ids) <=> Dealt + 1 = Len(job.ids)) /\ outcome = "ok"
  BY <1>3 DEF RowToInsert
<1>5. CASE ~IsLevelB
  <2>1. done' = done + 1 /\ UNCHANGED <<grown, unlinked, failed>>
    BY <1>5 DEF CommitRow
  <2>2. Settled'
    BY <1>1, <1>5, CommitSettled
  <2>3. grown = <<>> /\ Len(grown) = 0 /\ 1..Len(grown) = {}
    <3>1. grown = <<>>
      BY <1>0, <1>5 DEF CallInOrder, BatchInOrder
    <3> QED
      BY <3>1, NoneGrown
  <2>4. Dealt' = Dealt + 1 /\ done' = Dealt + 1 /\ done' \in 0..MaxBatch
    <3>1. done \in Nat /\ Len(job.ids) \in 1..MaxBatch
      BY <1>3 DEF RowToInsert, IsBatch
    <3> QED
      BY <1>4, <2>1, <2>3, <3>1, CollectionAssumption DEF Dealt
  <2>5. ~IsLevelB' /\ job.op \in Inserts
    BY <1>2, <1>3, <1>5 DEF IsLevelB, RowToInsert
  <2>6. /\ grown' \in Seq(Rows \cup {NoRow}) /\ grown' = <<>>
        /\ unlinked' \subseteq 1..MaxBatch /\ failed' \subseteq 1..MaxBatch
    BY <1>0, <2>1, <2>3 DEF CallInOrder, BatchInOrder
  <2>7. CASE Position = Len(job.ids) /\ Finish(t, "ok")
    <3>1. outcome' = "ok" /\ Goto(t, "return")
      BY <2>7 DEF Finish
    <3>2. BatchInOrder("return")'
      BY <1>2, <1>4, <2>4, <2>5, <2>6, <3>1 DEF BatchInOrder, InsertPoints, SectionPoints
    <3>3. ContentsInOrder("return")'
      <4>1. Dealt' = Len(job.ids) /\ "return" \in Points
        BY <1>4, <2>4, <2>7 DEF Points, WriterPoints
      <4> QED
        BY <1>1, <1>2, <2>4, <3>1, <4>1, CommitContents
    <3>4. WriterInOrder("return")'
      <4>1. "commit" \in Points \ {"idle"}
        BY DEF Points, WriterPoints, BatchPoints, InsertPoints
      <4> QED
        BY <1>0, <1>2, <2>2, <3>2, <3>3, <4>1, Ends DEF CallInOrder
    <3> QED
      BY <3>1, <3>4 DEF Arrives, Points, WriterPoints
  <2>8. ASSUME NEW b \in {"reserve", "slice"}, Position # Len(job.ids), Goto(t, b), outcome' = outcome
        PROVE  Arrives(t)
    <3>1. b \in Points /\ b \notin InsertPoints
      BY DEF Points, WriterPoints, BatchPoints, InsertPoints
    <3>2. StoreInOrder(b)'
      <4>1. Waiting(b)' = {}
        BY <2>1, <2>3 DEF Waiting, InsertPoints
      <4> QED
        BY <2>2, <3>1, <4>1, SettledStore
    <3>3. Dealt' < Len(job.ids)
      BY <1>4, <2>4, <2>8
    <3>4. BatchInOrder(b)'
      BY <1>2, <1>4, <2>4, <2>5, <2>6, <2>8, <3>3 DEF BatchInOrder, InsertPoints, SectionPoints
    <3>5. ContentsInOrder(b)'
      BY <1>1, <1>2, <1>4, <2>4, <2>8, <3>1, CommitContents
    <3>6. JobInOrder(b)'
      BY <1>0, <1>2, <2>5 DEF CallInOrder, JobInOrder, IsBatch, BatchPoints, InsertPoints, SectionPoints
    <3>7. RebuiltInOrder(b)'
      BY <1>0, <1>2 DEF CallInOrder, RebuiltInOrder
    <3> QED
      BY <2>8, <3>1, <3>2, <3>4, <3>5, <3>6, <3>7 DEF Arrives, WriterInOrder, CallInOrder
  <2> QED
    BY <1>5, <2>7, <2>8 DEF CommitRow
<1>6. CASE IsLevelB
  <2>1. grown' = Append(grown, state.map[id]) /\ UNCHANGED <<done, outcome>>
    BY <1>1, <1>6 DEF CommitRow
  <2>2. /\ StoreInOrder("reserve")'
        /\ grown' \in Seq(Rows \cup {NoRow}) /\ Len(grown') = Len(grown) + 1
        /\ Dealt' = Dealt + 1
    BY <1>1, <1>2, <2>1, CommitGrows
  <2>3. "reserve" \in Points /\ "reserve" \notin InsertPoints
    BY DEF Points, WriterPoints, BatchPoints, InsertPoints
  <2>4. ContentsInOrder("reserve")'
    BY <1>1, <1>2, <1>4, <2>1, <2>2, <2>3, CommitContents
  <2>5. CASE EndGrow(t, Len(grown) + 1)
    <3>1. PICK n : n = Len(grown')
      OBVIOUS
    <3>2. EndGrow(t, n) /\ n = Len(grown')
      BY <2>2, <2>5, <3>1
    <3>3. Dealt' <= Len(job.ids) /\ outcome' \in {"ok", "error", "throws"}
      BY <1>4, <2>1, <2>2
    <3> QED
      BY <1>0, <1>2, <1>6, <2>1, <2>2, <2>4, <3>2, <3>3, EndGrowSafe
  <2>6. CASE /\ Position # Len(job.ids) /\ Goto(t, "reserve") /\ UNCHANGED <<unlinked, failed>>
    <3>1. Dealt' < Len(job.ids) /\ IsLevelB'
      BY <1>2, <1>4, <1>6, <2>2, <2>6 DEF IsLevelB
    <3>2. BatchInOrder("reserve")'
      <4>1. done' \in 0..MaxBatch /\ unlinked' \subseteq 1..MaxBatch /\ failed' \subseteq 1..MaxBatch
        BY <1>0, <2>1, <2>6 DEF CallInOrder, BatchInOrder
      <4>2. Dealt' \in Nat /\ Len(job'.ids) = Len(job.ids) /\ outcome' = "ok"
        BY <1>2, <1>4, <2>1, <2>2
      <4> QED
        BY <1>4, <2>2, <3>1, <4>1, <4>2 DEF BatchInOrder, InsertPoints, SectionPoints
    <3>3. JobInOrder("reserve")'
      BY <1>0, <1>2, <3>1 DEF CallInOrder, JobInOrder, IsBatch, BatchPoints, InsertPoints, SectionPoints
    <3>4. RebuiltInOrder("reserve")'
      BY <1>0, <1>2 DEF CallInOrder, RebuiltInOrder
    <3> QED
      BY <2>2, <2>3, <2>4, <2>6, <3>2, <3>3, <3>4 DEF Arrives, WriterInOrder, CallInOrder
  <2> QED
    BY <1>6, <2>5, <2>6 DEF CommitRow
<1> QED
  BY <1>5, <1>6
-----------------------------------------------------------------------------
\* The link section of Level B.

\* The rows grown by the section, each with its id.
SectionFacts(a) ==
    /\ Sound(state, state.rows) /\ StateOK(state) /\ state.rows \in Nat
    /\ state.pending = {} /\ state.linked \subseteq 1..state.rows
    /\ Committed(a) = state.rows
    /\ IsLevelB /\ IsBatch /\ job.op = "add_batch"
    /\ done \in Nat /\ Len(grown) \in Nat /\ Dealt \in Nat
    /\ \A i \in 1..Len(grown) :
          /\ done + i \in 1..Dealt /\ done + i \in 1..Len(job.ids) /\ job.ids[done + i] \in Ids
          /\ GrownRow(i) = Row(a, i) /\ grown[i] \in Rows \cup {NoRow}
    /\ Waiting(a) = unlinked \cup failed /\ Waiting(a) \subseteq 1..Len(grown)
    /\ \A i \in Waiting(a) :
          /\ GrownRow(i) \in 1..state.rows /\ GrownRow(i) \in Rows
          /\ CanAbandon(a, i, job.ids[done + i])
    /\ \A r \in (1..state.rows) \ state.deleted :
          r \in state.linked \cup state.stranded \/ \E i \in Waiting(a) : r = Row(a, i)

\* What a section that links or gives up its rows knows of the store.
LEMMA SectionState ==
    ASSUME NEW a \in {"link", "abandon"}, WriterInOrder(a)
    PROVE  SectionFacts(a)
<1>1. Committed(a) = state.rows
  BY DEF Committed
<1>2. /\ Sound(state, state.rows) /\ StateOK(state) /\ state.rows \in Nat
      /\ state.pending = {} /\ state.linked \subseteq 1..state.rows
  <2>1. Sound(state, state.rows) /\ state.pending = {} /\ state.linked \subseteq 1..state.rows
    BY <1>1 DEF WriterInOrder, StoreInOrder, InsertInOrder, LinkedInOrder, InsertPoints
  <2> QED
    BY <2>1 DEF Sound, StateOK
<1>3. IsLevelB /\ IsBatch /\ job.op = "add_batch"
  BY DEF WriterInOrder, CallInOrder, JobInOrder, SectionPoints, BatchPoints, InsertPoints, IsLevelB
<1>4. /\ done \in Nat /\ grown \in Seq(Rows \cup {NoRow}) /\ Dealt <= Len(job.ids)
      /\ unlinked \cup failed \subseteq 1..Len(grown)
  BY <1>3 DEF WriterInOrder, CallInOrder, BatchInOrder, Inserts
<1>5. Len(grown) \in Nat /\ Dealt \in Nat /\ Len(job.ids) \in Nat
  BY <1>3, <1>4, CollectionAssumption DEF Dealt, IsBatch
<1>6. \A i \in 1..Len(grown) :
        /\ done + i \in 1..Dealt /\ done + i \in 1..Len(job.ids) /\ job.ids[done + i] \in Ids
        /\ GrownRow(i) = Row(a, i) /\ grown[i] \in Rows \cup {NoRow}
  <2> SUFFICES ASSUME NEW i \in 1..Len(grown)
               PROVE  /\ done + i \in 1..Dealt /\ done + i \in 1..Len(job.ids)
                      /\ job.ids[done + i] \in Ids
                      /\ GrownRow(i) = Row(a, i) /\ grown[i] \in Rows \cup {NoRow}
    OBVIOUS
  <2>1. done + i \in 1..Dealt /\ done + i \in 1..Len(job.ids)
    BY <1>4, <1>5 DEF Dealt
  <2>2. job.ids[done + i] \in Ids
    BY <1>3, <2>1 DEF IsBatch
  <2>3. GrownRow(i) = Row(a, i)
    BY <1>1 DEF GrownRow, Row
  <2> QED
    BY <1>4, <2>1, <2>2, <2>3
<1>7. Waiting(a) = unlinked \cup failed /\ Waiting(a) \subseteq 1..Len(grown)
  BY <1>4 DEF Waiting, InsertPoints
<1>8. \A i \in Waiting(a) :
        /\ GrownRow(i) \in 1..state.rows /\ GrownRow(i) \in Rows
        /\ CanAbandon(a, i, job.ids[done + i])
  <2> SUFFICES ASSUME NEW i \in Waiting(a)
               PROVE  /\ GrownRow(i) \in 1..state.rows /\ GrownRow(i) \in Rows
                      /\ CanAbandon(a, i, job.ids[done + i])
    OBVIOUS
  <2>1. CanAbandon(a, i, job.ids[done + i])
    BY DEF WriterInOrder, StoreInOrder, GrownInOrder, CanAbandon
  <2>2. PICK id : id = job.ids[done + i]
    OBVIOUS
  <2>3. id \in Ids /\ GrownRow(i) = Row(a, i)
    BY <1>6, <1>7, <2>2
  <2>4. state.map[id] = GrownRow(i) /\ GrownRow(i) >= 1
    BY <2>1, <2>2, <2>3 DEF CanAbandon
  <2>5. state.map[id] # NoRow
    BY <2>4 DEF NoRow
  <2>6. GrownRow(i) \in 1..state.rows
    BY <1>2, <2>3, <2>4, <2>5 DEF Sound
  <2>7. GrownRow(i) \in Rows
    BY <1>2, <2>6, CollectionAssumption DEF StateOK, Rows
  <2> QED
    BY <2>1, <2>6, <2>7
<1>9. \A r \in (1..state.rows) \ state.deleted :
        r \in state.linked \cup state.stranded \/ \E i \in Waiting(a) : r = Row(a, i)
  BY <1>1 DEF WriterInOrder, StoreInOrder, LinkedInOrder
<1> QED
  BY <1>1, <1>2, <1>3, <1>4, <1>5, <1>6, <1>7, <1>8, <1>9 DEF SectionFacts

\* parallel_for throws: the rows stay in the collection, without links.
LEMMA ParallelForThrowsSafe ==
    ASSUME NEW t \in Threads, WriterInOrder("link"), ParallelForThrows(t)
    PROVE  Arrives(t)
<1>1. SectionFacts("link")
  BY SectionState
<1>2. PICK R : R = {GrownRow(i) : i \in unlinked}
  OBVIOUS
<1>3. /\ state' = [state EXCEPT !.stranded = @ \cup R] /\ unlinked = 1..Len(grown)
      /\ Finish(t, "throws")
      /\ UNCHANGED <<job, done, grown, unlinked, failed, rebuilt, cursor, concurrent>>
  BY <1>2 DEF ParallelForThrows, compaction
<1>4. R \in SUBSET Rows
  BY <1>1, <1>2 DEF SectionFacts
<1>5. /\ StateOK(state') /\ Alike(state, state')
      /\ state'.stranded = state.stranded \cup R
      /\ state'.pending = state.pending /\ state'.linked = state.linked
  <2>1. StateOK(state)
    BY <1>1 DEF SectionFacts
  <2> QED
    BY <1>3, <1>4, <2>1, StrandedFields
<1>6. Sound(state', state.rows) /\ state'.rows = state.rows /\ state'.deleted = state.deleted
  <2>1. Sound(state, state.rows)
    BY <1>1 DEF SectionFacts
  <2>2. Sound(state', state.rows)
    BY <1>5, <2>1, AlikeSound
  <2> QED
    BY <1>5, <2>2 DEF Alike
<1>7. \A r \in (1..state.rows) \ state.deleted : r \in state.linked \cup (state.stranded \cup R)
  <2>1. \A i \in Waiting("link") : i \in unlinked /\ Row("link", i) = GrownRow(i)
    BY <1>1, <1>3 DEF SectionFacts
  <2>2. \A i \in Waiting("link") : Row("link", i) \in R
    BY <1>2, <2>1
  <2>3. \A r \in (1..state.rows) \ state.deleted :
          r \in state.linked \cup state.stranded \/ \E i \in Waiting("link") : r = Row("link", i)
    BY <1>1 DEF SectionFacts
  <2> QED
    BY <2>2, <2>3
<1>8. Settled'
  <2>1. state.pending = {} /\ state.linked \subseteq 1..state.rows
    BY <1>1 DEF SectionFacts
  <2> QED
    BY <1>5, <1>6, <1>7, <2>1 DEF Settled, LiveRows
<1>9. \A id \in Ids : Vector(state', id) = Vector(state, id)
  BY <1>5, AlikeVectors
<1>10. outcome' \in {"error", "throws"} /\ Goto(t, "return") /\ job.op # "add"
  BY <1>1, <1>3 DEF Finish, SectionFacts
<1>11. "link" \in Points \ {"idle", "return"} /\ CallInOrder("link")
  BY DEF WriterInOrder, Points, WriterPoints, BatchPoints, SectionPoints
<1>12. WriterInOrder("return")'
  BY <1>3, <1>8, <1>9, <1>10, <1>11, EndsFailing
<1> QED
  BY <1>10, <1>12 DEF Arrives, Points, WriterPoints

\* One row is linked, or fails to be.
LEMMA LinkRowSafe ==
    ASSUME NEW t \in Threads, pc \in [Threads -> Locations], WriterInOrder("link"), LinkRow(t)
    PROVE  Arrives(t)
<1>1. SectionFacts("link")
  BY SectionState
<1>2. Goto(t, "link") /\ UNCHANGED <<job, done, grown, outcome, rebuilt, cursor, concurrent>>
  BY DEF LinkRow, Goto, compaction
<1>3. PICK i \in unlinked :
        /\ unlinked' = unlinked \ {i}
        /\ \/ state' = [state EXCEPT !.linked = @ \cup {GrownRow(i)}] /\ failed' = failed
           \/ failed' = failed \cup {i} /\ state' = state
  BY DEF LinkRow
<1>4. PICK R : R = IF failed' = failed THEN {GrownRow(i)} ELSE {}
  OBVIOUS
<1>5. i \in Waiting("link") /\ i \notin failed /\ GrownRow(i) = Row("link", i)
  <2>1. unlinked \cap failed = {}
    BY DEF WriterInOrder, CallInOrder, BatchInOrder
  <2> QED
    BY <1>1, <2>1 DEF SectionFacts
<1>6. R \in SUBSET Rows /\ R \subseteq 1..state.rows
  BY <1>1, <1>4, <1>5 DEF SectionFacts
<1>7. /\ StateOK(state') /\ Alike(state, state')
      /\ state'.linked = state.linked \cup R
      /\ state'.pending = state.pending /\ state'.stranded = state.stranded
  <2>1. StateOK(state)
    BY <1>1 DEF SectionFacts
  <2>2. CASE failed' = failed
    <3>1. state' = [state EXCEPT !.linked = @ \cup R]
      BY <1>3, <1>4, <1>5, <2>2
    <3> QED
      BY <1>6, <2>1, <3>1, LinkedFields
  <2>3. CASE failed' # failed
    BY <1>3, <1>4, <2>1, <2>3 DEF Alike
  <2> QED
    BY <2>2, <2>3
<1>8. /\ Sound(state', state.rows) /\ state'.rows = state.rows /\ state'.deleted = state.deleted
      /\ state'.map = state.map /\ state'.vec = state.vec /\ state'.label = state.label
  <2>1. Sound(state, state.rows)
    BY <1>1 DEF SectionFacts
  <2>2. Sound(state', state.rows)
    BY <1>7, <2>1, AlikeSound
  <2> QED
    BY <1>7, <2>2 DEF Alike
<1>9. /\ Waiting("link")' \subseteq Waiting("link")
      /\ \A j \in Waiting("link") \ Waiting("link")' : Row("link", j) \in R
  <2>1. Waiting("link")' = unlinked' \cup failed'
    BY DEF Waiting, InsertPoints
  <2>2. Waiting("link") = unlinked \cup failed
    BY DEF Waiting, InsertPoints
  <2>3. CASE failed' = failed
    BY <1>3, <1>4, <1>5, <2>1, <2>2, <2>3
  <2>4. CASE failed' # failed
    BY <1>3, <2>1, <2>2, <2>4
  <2> QED
    BY <2>3, <2>4
<1>10. Committed("link")' = state.rows /\ \A j : Row("link", j)' = Row("link", j)
  <2>1. Committed("link")' = state.rows /\ Committed("link") = state.rows
    BY <1>8 DEF Committed
  <2> QED
    BY <1>2, <2>1 DEF Row
<1>11. GrownInOrder("link")'
  <2> SUFFICES ASSUME NEW j, j \in Waiting("link")', NEW id, id = job.ids[done + j]
               PROVE  CanAbandon("link", j, id)'
    BY <1>2, WaitingRows
  <2>1. CanAbandon("link", j, id)
    BY <1>1, <1>9 DEF SectionFacts
  <2> QED
    BY <1>2, <1>7, <1>8, <1>10, <2>1 DEF CanAbandon
<1>12. InsertInOrder("link")'
  BY <1>1, <1>7 DEF InsertInOrder, InsertPoints, SectionFacts
<1>13. LinkedInOrder("link")'
  <2>1. state'.linked \subseteq 1..state'.rows
    BY <1>1, <1>6, <1>7, <1>8 DEF SectionFacts
  <2>2. \A r \in (1..state.rows) \ state.deleted :
          r \in state.linked \cup state.stranded \/ \E j \in Waiting("link") : r = Row("link", j)
    BY <1>1 DEF SectionFacts
  <2>3. \A r \in (1..state.rows) \ state.deleted :
          \/ r \in state'.linked \cup state'.stranded
          \/ \E j \in Waiting("link")' : r = Row("link", j)'
    BY <1>7, <1>9, <1>10, <2>2
  <2> QED
    BY <1>8, <1>10, <2>1, <2>3 DEF LinkedInOrder
<1>14. StoreInOrder("link")'
  BY <1>8, <1>10, <1>11, <1>12, <1>13 DEF StoreInOrder
<1>15. JobInOrder("link")' /\ RebuiltInOrder("link")'
  BY <1>2 DEF WriterInOrder, CallInOrder, JobInOrder, IsBatch, IsLevelB, RebuiltInOrder
<1>16. BatchInOrder("link")'
  <2>1. /\ unlinked' \cup failed' \subseteq unlinked \cup failed
        /\ unlinked' \cap failed' = {}
    <3>1. unlinked \cap failed = {}
      BY DEF WriterInOrder, CallInOrder, BatchInOrder
    <3> QED
      BY <1>3, <3>1
  <2> QED
    BY <1>2, <2>1 DEF WriterInOrder, CallInOrder, BatchInOrder, IsLevelB, Dealt, InsertPoints,
                      SectionPoints
<1>17. ContentsInOrder("link")'
  <2>1. \A id \in Ids : Vector(state', id) = Vector(state, id)
    BY <1>7, AlikeVectors
  <2>2. Dealt' = Dealt /\ job.op = "add_batch"
    BY <1>1, <1>2 DEF Dealt, SectionFacts
  <2>3. \A k \in 1..Dealt : job.ids[k] \in Ids
    <3>1. IsBatch /\ Dealt <= Len(job.ids) /\ Dealt \in Nat
      BY <1>1, <2>2 DEF WriterInOrder, CallInOrder, BatchInOrder, SectionFacts, Inserts
    <3> QED
      BY <3>1 DEF IsBatch
  <2>4. /\ \A id \in Ids : (\A k \in 1..Dealt : job.ids[k] # id) => Vector(state, id) = job.before[id]
        /\ \A k \in 1..Dealt :
              /\ Vector(state, job.ids[k]) \in {job.vals[k], job.before[job.ids[k]]}
              /\ outcome = "ok" => Vector(state, job.ids[k]) = job.vals[k]
    BY <2>2 DEF WriterInOrder, CallInOrder, ContentsInOrder, Inserts
  <2>5. \A k \in 1..Dealt :
              /\ Vector(state', job.ids[k]) \in {job.vals[k], job.before[job.ids[k]]}
              /\ outcome = "ok" => Vector(state', job.ids[k]) = job.vals[k]
    BY <2>1, <2>3, <2>4
  <2> QED
    BY <1>2, <2>1, <2>2, <2>4, <2>5 DEF ContentsInOrder, Inserts
<1> QED
  BY <1>2, <1>14, <1>15, <1>16, <1>17 DEF Arrives, WriterInOrder, CallInOrder, Points, WriterPoints,
                                         BatchPoints, SectionPoints

\* What abandoning a row does to the collection.
AbandonEffect(i, id, p) ==
    /\ Sound(state', state.rows) /\ state'.rows = state.rows
    /\ state'.map = [state.map EXCEPT ![id] = p]
    /\ state'.deleted = (state.deleted \cup {GrownRow(i)}) \ {p}
    /\ state'.vec = state.vec /\ state'.label = state.label /\ state'.pending = {}
    /\ state'.linked = state.linked /\ state'.stranded = state.stranded
    /\ Vector(state', id) = job.before[id]
    /\ \A x \in Ids \ {id} : Vector(state', x) = Vector(state, x)

\* Giving a row up brings back what its id named before the section.
LEMMA AbandonState ==
    ASSUME WriterInOrder("abandon"), NEW i \in Waiting("abandon"), NEW id, id = job.ids[done + i],
           NEW p, p = grown[i], state' = Abandon(state, id, GrownRow(i), p)
    PROVE  /\ AbandonEffect(i, id, p)
           /\ p # NoRow => state.label[p] = id /\ p \in state.linked \cup state.stranded
<1>1. SectionFacts("abandon")
  BY SectionState
<1>2. PICK r : r = GrownRow(i)
  OBVIOUS
<1>3. /\ Sound(state, state.rows) /\ StateOK(state) /\ state.pending = {}
      /\ id \in Ids /\ r \in Rows /\ p \in Rows \cup {NoRow} /\ r = Row("abandon", i)
      /\ CanAbandon("abandon", i, id)
  BY <1>1, <1>2 DEF SectionFacts
<1>4. /\ r = state.map[id] /\ r >= 1
      /\ job.before[id] = IF p = NoRow THEN None ELSE state.vec[p]
      /\ p # NoRow => /\ p \in state.deleted /\ state.label[p] = id
                      /\ p \in state.linked \cup state.stranded
  BY <1>3 DEF CanAbandon
<1>5. r # NoRow
  BY <1>4 DEF NoRow
<1>6. /\ Sound(state', state'.rows)
      /\ state'.map = [state.map EXCEPT ![id] = p]
      /\ state'.deleted = (state.deleted \cup {r}) \ {p}
      /\ state'.rows = state.rows /\ state'.vec = state.vec /\ state'.label = state.label
      /\ state'.pending = state.pending
      /\ state'.linked = state.linked /\ state'.stranded = state.stranded
  <2>1. state' = Abandon(state, id, r, p)
    BY <1>2
  <2> QED
    BY <1>3, <1>4, <1>5, <2>1, AbandonSound
<1>7. /\ Vector(state', id) = IF p = NoRow THEN None ELSE state.vec[p]
      /\ \A x \in Ids \ {id} : Vector(state', x) = Vector(state, x)
  BY <1>3, <1>6, MapVectors
<1> QED
  BY <1>2, <1>3, <1>4, <1>6, <1>7 DEF AbandonEffect

\* One failed row is taken back; the rows that still wait are not touched.
LEMMA AbandonRowSafe ==
    ASSUME NEW t \in Threads, pc \in [Threads -> Locations], WriterInOrder("abandon"), AbandonRow(t)
    PROVE  Arrives(t)
<1>1. SectionFacts("abandon")
  BY SectionState
<1>2. PICK i \in failed :
        /\ state' = Abandon(state, job.ids[done + i], GrownRow(i), grown[i])
        /\ failed' = failed \ {i}
        /\ IF failed' = {} THEN Goto(t, "end_section") ELSE pc' = pc
  BY DEF AbandonRow
<1>3. UNCHANGED <<job, done, grown, unlinked, rebuilt, cursor, concurrent>> /\ outcome' = "throws"
      /\ pc[t] = "abandon"
  BY DEF AbandonRow, compaction
<1>4. PICK b : b = IF failed' = {} THEN "end_section" ELSE "abandon"
  OBVIOUS
<1>5. Goto(t, b) /\ b \in {"end_section", "abandon"} /\ (b = "abandon" => failed' # {})
  BY <1>2, <1>3, <1>4 DEF Goto
<1>6. PICK id, p : id = job.ids[done + i] /\ p = grown[i]
  OBVIOUS
<1>7. unlinked = {} /\ Waiting("abandon") = failed /\ i \in Waiting("abandon")
  <2>1. unlinked = {}
    BY DEF WriterInOrder, CallInOrder, BatchInOrder
  <2> QED
    BY <1>1, <2>1 DEF SectionFacts
<1>8. Waiting(b)' = failed \ {i}
  <2>1. CASE b = "abandon"
    BY <1>2, <1>3, <1>7, <2>1 DEF Waiting, InsertPoints
  <2>2. CASE b = "end_section"
    BY <1>2, <1>4, <2>2 DEF Waiting, InsertPoints
  <2> QED
    BY <1>5, <2>1, <2>2
<1>9. /\ AbandonEffect(i, id, p)
      /\ p # NoRow => state.label[p] = id /\ p \in state.linked \cup state.stranded
  BY <1>2, <1>6, <1>7, AbandonState
<1>10. Committed(b)' = state.rows /\ \A j : Row(b, j)' = Row("abandon", j)
  <2>1. Committed(b)' = state.rows /\ Committed("abandon") = state.rows
    BY <1>5, <1>9 DEF Committed, AbandonEffect
  <2> QED
    BY <1>3, <2>1 DEF Row
<1>11. id \in Ids /\ i \in 1..Len(grown) /\ p \in Rows \cup {NoRow} /\ GrownRow(i) = Row("abandon", i)
  BY <1>1, <1>6, <1>7 DEF SectionFacts
<1>12. \A j \in failed \ {i} :
         /\ job.ids[done + j] \in Ids \ {id} /\ CanAbandon("abandon", j, job.ids[done + j])
  <2> SUFFICES ASSUME NEW j \in failed \ {i}
               PROVE  /\ job.ids[done + j] \in Ids \ {id}
                      /\ CanAbandon("abandon", j, job.ids[done + j])
    OBVIOUS
  <2>1. /\ j \in Waiting("abandon") /\ j \in 1..Len(grown) /\ done \in Nat /\ Len(grown) \in Nat
        /\ done + j \in 1..Len(job.ids) /\ done + i \in 1..Len(job.ids)
        /\ job.ids[done + j] \in Ids /\ CanAbandon("abandon", j, job.ids[done + j]) /\ IsBatch
    BY <1>1, <1>7, <1>11 DEF SectionFacts
  <2>2. done + j # done + i
    BY <1>11, <2>1
  <2> QED
    BY <1>6, <2>1, <2>2 DEF IsBatch
<1>13. GrownInOrder(b)'
  <2> SUFFICES ASSUME NEW j, j \in Waiting(b)', NEW x, x = job.ids[done + j]
               PROVE  CanAbandon(b, j, x)'
    BY <1>3, WaitingRows
  <2>1. x \in Ids \ {id} /\ CanAbandon("abandon", j, x)
    BY <1>8, <1>12
  <2>2. state'.map[x] = state.map[x]
    <3>1. state.map \in [Ids -> Rows \cup {NoRow}]
      BY <1>1 DEF SectionFacts, StateOK
    <3> QED
      BY <1>9, <2>1, <3>1 DEF AbandonEffect
  <2>3. grown[j] # NoRow => grown[j] \in state'.deleted
    <3> SUFFICES ASSUME grown[j] # NoRow PROVE grown[j] \in state'.deleted
      OBVIOUS
    <3>1. grown[j] \in state.deleted /\ state.label[grown[j]] = x
      BY <2>1 DEF CanAbandon
    <3>2. grown[j] # p
      BY <1>9, <2>1, <3>1
    <3> QED
      BY <1>9, <3>1, <3>2 DEF AbandonEffect
  <2> QED
    BY <1>3, <1>9, <1>10, <2>1, <2>2, <2>3 DEF CanAbandon, AbandonEffect
<1>14. InsertInOrder(b)'
  BY <1>5, <1>9 DEF InsertInOrder, InsertPoints, AbandonEffect
<1>15. LinkedInOrder(b)'
  <2>1. \A r \in (1..state.rows) \ state.deleted :
          r \in state.linked \cup state.stranded \/ \E j \in Waiting("abandon") : r = Row("abandon", j)
    BY <1>1 DEF SectionFacts
  <2>2. \A r \in (1..state.rows) \ state'.deleted :
          r \in state'.linked \cup state'.stranded \/ \E j \in Waiting(b)' : r = Row(b, j)'
    <3> SUFFICES ASSUME NEW r \in 1..state.rows, r \notin state'.deleted
                 PROVE  r \in state'.linked \cup state'.stranded \/ \E j \in Waiting(b)' : r = Row(b, j)'
      OBVIOUS
    <3>1. CASE r = p
      <4>1. p # NoRow
        BY <1>1, <3>1 DEF NoRow, SectionFacts
      <4> QED
        BY <1>9, <3>1, <4>1 DEF AbandonEffect
    <3>2. CASE r # p
      <4>1. r \notin state.deleted /\ r # GrownRow(i)
        BY <1>9, <3>2 DEF AbandonEffect
      <4>2. CASE r \in state.linked \cup state.stranded
        BY <1>9, <4>2 DEF AbandonEffect
      <4>3. CASE \E j \in Waiting("abandon") : r = Row("abandon", j)
        <5>1. PICK j \in Waiting("abandon") : r = Row("abandon", j)
          BY <4>3
        <5>2. j \in Waiting(b)'
          BY <1>7, <1>8, <1>11, <4>1, <5>1
        <5> QED
          BY <1>10, <5>1, <5>2
      <4> QED
        BY <2>1, <4>1, <4>2, <4>3
    <3> QED
      BY <3>1, <3>2
  <2>3. state'.linked \subseteq 1..state'.rows
    BY <1>1, <1>9 DEF AbandonEffect, SectionFacts
  <2> QED
    BY <1>5, <1>9, <1>10, <2>2, <2>3 DEF LinkedInOrder, AbandonEffect
<1>16. StoreInOrder(b)'
  BY <1>9, <1>10, <1>13, <1>14, <1>15 DEF StoreInOrder, AbandonEffect
<1>17. JobInOrder(b)' /\ RebuiltInOrder(b)'
  BY <1>3, <1>5 DEF WriterInOrder, CallInOrder, JobInOrder, IsBatch, IsLevelB, RebuiltInOrder,
                    BatchPoints, InsertPoints, SectionPoints
<1>18. BatchInOrder(b)'
  <2>1. /\ done' \in 0..MaxBatch /\ grown' \in Seq(Rows \cup {NoRow})
        /\ unlinked' \subseteq 1..MaxBatch /\ failed' \subseteq 1..MaxBatch
        /\ ~IsLevelB' => grown' = <<>>
        /\ job'.op \in Inserts => Dealt' <= Len(job'.ids)
    BY <1>2, <1>3 DEF WriterInOrder, CallInOrder, BatchInOrder, IsLevelB, Dealt
  <2>2. unlinked' \cup failed' \subseteq 1..Len(grown') /\ unlinked' = {}
    <3>1. unlinked \cup failed \subseteq 1..Len(grown)
      BY <1>1 DEF SectionFacts
    <3> QED
      BY <1>2, <1>3, <1>7, <3>1
  <2> QED
    BY <1>3, <1>5, <2>1, <2>2 DEF BatchInOrder, InsertPoints, SectionPoints
<1>19. ContentsInOrder(b)'
  <2>1. /\ Vector(state', id) = job.before[id]
        /\ \A x \in Ids \ {id} : Vector(state', x) = Vector(state, x)
    BY <1>9 DEF AbandonEffect
  <2>2. Dealt' = Dealt /\ job.op = "add_batch" /\ Dealt \in Nat /\ done + i \in 1..Dealt
    BY <1>1, <1>3, <1>11 DEF Dealt, SectionFacts
  <2>3. \A k \in 1..Dealt : job.ids[k] \in Ids
    <3>1. IsBatch /\ Dealt <= Len(job.ids)
      BY <1>1, <2>2 DEF WriterInOrder, CallInOrder, BatchInOrder, SectionFacts, Inserts
    <3> QED
      BY <2>2, <3>1 DEF IsBatch
  <2>4. /\ \A x \in Ids : (\A k \in 1..Dealt : job.ids[k] # x) => Vector(state, x) = job.before[x]
        /\ \A k \in 1..Dealt :
              Vector(state, job.ids[k]) \in {job.vals[k], job.before[job.ids[k]]}
    BY <2>2 DEF WriterInOrder, CallInOrder, ContentsInOrder, Inserts
  <2>5. \A k \in 1..Dealt : Vector(state', job.ids[k]) \in {job.vals[k], job.before[job.ids[k]]}
    BY <2>1, <2>3, <2>4
  <2>6. \A x \in Ids : (\A k \in 1..Dealt : job.ids[k] # x) => Vector(state', x) = job.before[x]
    BY <1>6, <2>1, <2>2, <2>4
  <2> QED
    BY <1>3, <1>5, <2>2, <2>5, <2>6 DEF ContentsInOrder, Inserts
<1> QED
  BY <1>5, <1>16, <1>17, <1>18, <1>19 DEF Arrives, WriterInOrder, CallInOrder, Points, WriterPoints,
                                         BatchPoints, SectionPoints

\* A section ends with every row linked, stranded or abandoned.
LEMMA EndSectionSafe ==
    ASSUME NEW t \in Threads, WriterInOrder("end_section"), EndSection(t)
    PROVE  Arrives(t)
<1>1. /\ done' = done + Len(grown) /\ grown' = <<>>
      /\ UNCHANGED <<state, job, unlinked, failed, rebuilt, cursor, concurrent>>
  BY DEF EndSection, compaction
<1>2. IsLevelB /\ IsBatch /\ job.op = "add_batch" /\ CallInOrder("end_section")
  BY DEF WriterInOrder, CallInOrder, JobInOrder, SectionPoints, BatchPoints, InsertPoints, IsLevelB
<1>3. /\ done \in Nat /\ grown \in Seq(Rows \cup {NoRow}) /\ Dealt <= Len(job.ids)
      /\ unlinked \subseteq 1..MaxBatch /\ failed \subseteq 1..MaxBatch
      /\ outcome \in {"ok", "error", "throws"}
  BY <1>2 DEF CallInOrder, BatchInOrder, Inserts
<1>4. Len(grown') = 0 /\ grown' \in Seq(Rows \cup {NoRow})
  BY <1>1
<1>5. Dealt' = Dealt /\ done' = Dealt /\ Dealt \in Nat /\ done' \in 0..MaxBatch
  <2>1. Len(grown) \in Nat /\ Len(job.ids) \in 1..MaxBatch
    BY <1>2, <1>3 DEF IsBatch
  <2> QED
    BY <1>1, <1>3, <1>4, <2>1, CollectionAssumption DEF Dealt
<1>6. Settled'
  <2>1. Waiting("end_section") = {}
    BY DEF Waiting, InsertPoints
  <2>2. Settled
    BY <2>1, StoreSettled DEF WriterInOrder, InsertPoints
  <2> QED
    BY <1>1, <2>2 DEF Settled
<1>7. /\ \A x \in Ids : (\A k \in 1..Dealt : job.ids[k] # x) => Vector(state, x) = job.before[x]
      /\ \A k \in 1..Dealt :
            /\ Vector(state, job.ids[k]) \in {job.vals[k], job.before[job.ids[k]]}
            /\ outcome = "ok" => Vector(state, job.ids[k]) = job.vals[k]
  BY <1>2 DEF CallInOrder, ContentsInOrder, Inserts
<1>8. CASE outcome = "ok" /\ done' < Len(job.ids) /\ Goto(t, "section") /\ outcome' = outcome
  <2>1. StoreInOrder("section")'
    <3>1. Waiting("section")' = {}
      BY DEF Waiting, InsertPoints
    <3> QED
      BY <1>6, <3>1, SettledStore DEF InsertPoints
  <2>2. JobInOrder("section")' /\ RebuiltInOrder("section")'
    BY <1>1, <1>2 DEF CallInOrder, JobInOrder, IsBatch, IsLevelB, RebuiltInOrder,
                      BatchPoints, InsertPoints, SectionPoints
  <2>3. BatchInOrder("section")'
    BY <1>1, <1>2, <1>3, <1>4, <1>5, <1>8 DEF BatchInOrder, InsertPoints, SectionPoints
  <2>4. ContentsInOrder("section")'
    BY <1>1, <1>2, <1>5, <1>7, <1>8 DEF ContentsInOrder, Inserts
  <2> QED
    BY <1>8, <2>1, <2>2, <2>3, <2>4 DEF Arrives, WriterInOrder, CallInOrder, Points, WriterPoints,
                                       BatchPoints
<1>9. CASE (outcome # "ok" \/ done' = Len(job.ids)) /\ Finish(t, outcome)
  <2>1. Goto(t, "return") /\ outcome' = outcome
    BY <1>9 DEF Finish
  <2>2. BatchInOrder("return")'
    BY <1>1, <1>2, <1>3, <1>4, <1>5, <2>1 DEF BatchInOrder, InsertPoints, SectionPoints
  <2>3. ContentsInOrder("return")'
    BY <1>1, <1>2, <1>5, <1>7, <1>9, <2>1 DEF ContentsInOrder, Inserts
  <2>4. WriterInOrder("return")'
    <3>1. "end_section" \in Points \ {"idle"}
      BY DEF Points, WriterPoints, BatchPoints, SectionPoints
    <3> QED
      BY <1>1, <1>2, <1>6, <2>2, <2>3, <3>1, Ends DEF CallInOrder
  <2> QED
    BY <2>1, <2>4 DEF Arrives, Points, WriterPoints
<1> QED
  BY <1>8, <1>9 DEF EndSection
-----------------------------------------------------------------------------
\* The locks.

\* Thread t goes to b with the locks it needs there, and touches nobody else's.
LockStep(t, b) ==
    /\ Goto(t, b) /\ b \in Locations
    /\ writers' \in Threads \cup {None} /\ link' \in Threads \cup {None}
    /\ shared' \subseteq Threads /\ exclusive' \subseteq Threads
    /\ b \in WriterPoints <=> writers' = t
    /\ t \in exclusive' <=> b \in ExclusivePoints
    /\ t \in shared' <=> b \in SharedPoints
    /\ link' = t <=> b \in LinkPoints \/ (IsLevelB' /\ b \in InsertPoints \cup {"reserve"})
    /\ \A u \in Threads \ {t} :
          /\ writers' = u <=> writers = u
          /\ link' = u <=> link = u
          /\ u \in exclusive' <=> u \in exclusive
          /\ u \in shared' <=> u \in shared
    /\ exclusive' # {} => shared' = {}
    /\ writers \in {t, None} \/ UNCHANGED <<job, concurrent>>

\* A thread that takes and releases only its own locks keeps the locks in order.
LEMMA LockStepSafe ==
    ASSUME LocksOK, NEW t \in Threads, NEW b, LockStep(t, b)
    PROVE  LocksOK' /\ pc'[t] = b /\ \A u \in Threads \ {t} : pc'[u] = pc[u]
<1>1. /\ pc' \in [Threads -> Locations] /\ pc'[t] = b
      /\ \A u \in Threads \ {t} : pc'[u] = pc[u]
  BY DEF LocksOK, LockStep, Goto
<1>2. LocksInOrder'
  <2> SUFFICES ASSUME NEW u \in Threads
               PROVE  /\ pc'[u] \in WriterPoints <=> writers' = u
                      /\ u \in exclusive' <=> pc'[u] \in ExclusivePoints
                      /\ u \in shared' <=> pc'[u] \in SharedPoints
                      /\ link' = u <=> \/ pc'[u] \in LinkPoints
                                       \/ IsLevelB' /\ pc'[u] \in InsertPoints \cup {"reserve"}
    BY DEF LocksInOrder, LockStep
  <2>1. CASE u = t
    BY <1>1, <2>1 DEF LockStep
  <2>2. CASE u # t
    <3>1. pc[u] \in InsertPoints \cup {"reserve"} => IsLevelB' = IsLevelB
      <4> SUFFICES ASSUME pc[u] \in InsertPoints \cup {"reserve"} PROVE IsLevelB' = IsLevelB
        OBVIOUS
      <4>1. pc[u] \in WriterPoints
        BY DEF WriterPoints, BatchPoints
      <4>2. writers = u
        BY <4>1 DEF LocksOK, LocksInOrder
      <4>3. UNCHANGED <<job, concurrent>>
        BY <2>2, <4>2, CollectionAssumption DEF LockStep
      <4> QED
        BY <4>3 DEF IsLevelB
    <3> QED
      BY <1>1, <2>2, <3>1 DEF LocksOK, LocksInOrder, LockStep
  <2> QED
    BY <2>1, <2>2
<1> QED
  BY <1>1, <1>2 DEF LocksOK, LockStep

\* The thread that takes a step of a mutating call holds `writers`.
LEMMA WriterHere ==
    ASSUME LocksOK, NEW t \in Threads, pc[t] \in WriterPoints
    PROVE  writers = t /\ Here = pc[t]
  BY CollectionAssumption DEF LocksOK, LocksInOrder, Here

\* What a thread holds at its location.
Held(t, a) ==
    /\ pc[t] = a /\ writers \in Threads \cup {None} /\ link \in Threads \cup {None}
    /\ shared \subseteq Threads /\ exclusive \subseteq Threads
    /\ a \in WriterPoints <=> writers = t
    /\ t \in exclusive <=> a \in ExclusivePoints
    /\ t \in shared <=> a \in SharedPoints
    /\ link = t <=> a \in LinkPoints \/ (IsLevelB /\ a \in InsertPoints \cup {"reserve"})
    /\ exclusive # {} => shared = {}
    /\ None # t

\* A thread holds the locks of the place it is at.
LEMMA HeldHere ==
    ASSUME LocksOK, NEW t \in Threads, NEW a, pc[t] = a
    PROVE  Held(t, a)
  BY CollectionAssumption DEF LocksOK, LocksInOrder, Held

\* A call that ends keeps the writer lock until it returns and no other.
LEMMA FinishLocks ==
    ASSUME LocksOK, NEW t \in Threads, NEW a \in WriterPoints, pc[t] = a, NEW how, Finish(t, how),
           UNCHANGED <<writers, job, concurrent>>
    PROVE  LockStep(t, "return")
<1>1. Held(t, a)
  BY HeldHere
<1>2. /\ "return" \in Locations /\ "return" \in WriterPoints /\ "return" \notin ExclusivePoints
      /\ "return" \notin SharedPoints /\ "return" \notin LinkPoints
      /\ "return" \notin InsertPoints \cup {"reserve"}
  BY DEF Locations, WriterPoints, ExclusivePoints, SharedPoints, LinkPoints, InsertPoints, SectionPoints
<1>3. /\ exclusive' = exclusive \ {t} /\ shared' = shared \ {t}
      /\ link' = IF link = t THEN None ELSE link
      /\ writers' = t /\ writers = t /\ Goto(t, "return")
  BY <1>1 DEF Finish, Held
<1>4. exclusive' # {} => shared' = {}
  BY <1>1, <1>3 DEF Held
<1>5. \A u \in Threads \ {t} : link' = u <=> link = u
  BY <1>3, CollectionAssumption
<1>6. link' # t /\ link' \in Threads \cup {None} /\ shared' \subseteq Threads /\ exclusive' \subseteq Threads
  BY <1>1, <1>3 DEF Held
<1> QED
  BY <1>2, <1>3, <1>4, <1>5, <1>6 DEF LockStep

\* A step between two locations of a mutating call.
LEMMA WriterLocks ==
    ASSUME LocksOK, NEW t \in Threads, WriterInOrder(Here), WriterStep(t)
    PROVE  writers = t /\ \E b \in WriterPoints \cup {"idle"} : LockStep(t, b)
<1> DEFINE Result == writers = t /\ \E b \in WriterPoints \cup {"idle"} : LockStep(t, b)
<1> USE DEF InsertPoints, SectionPoints, BatchPoints, WriterPoints, ExclusivePoints, SharedPoints,
            LinkPoints, Locations
<1>0. "return" \in WriterPoints
  OBVIOUS
<1>1. ASSUME NEW a \in WriterPoints, pc[t] = a, \E how : Finish(t, how),
             UNCHANGED <<writers, job, concurrent>>
      PROVE  Result
  <2>1. PICK how : Finish(t, how)
    BY <1>1
  <2>2. LockStep(t, "return")
    BY <1>1, <2>1, FinishLocks
  <2> QED
    BY <1>0, <1>1, <2>2, WriterHere
<1>2. ASSUME NEW a \in WriterPoints, pc[t] = a
      PROVE  Held(t, a) /\ writers = t /\ JobInOrder(a) /\ t # None
  <2>1. writers = t /\ Here = a
    BY <1>2, WriterHere
  <2>2. Held(t, a)
    BY <1>2, HeldHere
  <2> QED
    BY <2>1, <2>2 DEF WriterInOrder, CallInOrder, Held
<1>3. ASSUME RemoveBody(t) PROVE Result
  <2>1. pc[t] = "remove" /\ (\E how : Finish(t, how)) /\ UNCHANGED <<writers, job, concurrent>>
    BY <1>3 DEF RemoveBody
  <2> QED
    BY <1>1, <2>1
<1>4. ASSUME CheckBatch(t) PROVE Result
  <2>1. pc[t] = "check" /\ UNCHANGED <<writers, job, concurrent>>
    BY <1>4 DEF CheckBatch
  <2>2. CASE \E how : Finish(t, how)
    BY <1>1, <2>1, <2>2
  <2>3. CASE \E b \in {"section", "slice"} : Goto(t, b) /\ UNCHANGED <<link, shared, exclusive>>
    <3>1. PICK b \in {"section", "slice"} : Goto(t, b) /\ UNCHANGED <<link, shared, exclusive>>
      BY <2>3
    <3>2. Held(t, "check") /\ writers = t
      BY <1>2, <2>1
    <3>3. LockStep(t, b)
      BY <2>1, <3>1, <3>2 DEF LockStep, Held
    <3> QED
      BY <3>2, <3>3
  <2> QED
    BY <1>4, <2>2, <2>3 DEF CheckBatch
<1>5. ASSUME BeginSlice(t) PROVE Result
  <2>1. pc[t] = "slice"
    BY <1>5 DEF BeginSlice
  <2>2. Held(t, "slice") /\ writers = t /\ ~IsLevelB
    BY <1>2, <2>1 DEF JobInOrder
  <2>3. LockStep(t, "reserve")
    BY <1>5, <2>2 DEF BeginSlice, LockStep, Held, LockExclusive, RwFree, batch, IsLevelB
  <2> QED
    BY <2>2, <2>3
<1>6. ASSUME BeginSection(t) PROVE Result
  <2>1. pc[t] = "section"
    BY <1>6 DEF BeginSection
  <2>2. Held(t, "section") /\ writers = t /\ t # None
    BY <1>2, <2>1
  <2>3. LockStep(t, "grow")
    BY <1>6, <2>2, CollectionAssumption DEF BeginSection, LockStep, Held
  <2> QED
    BY <2>2, <2>3
<1>7. ASSUME BeginGrow(t) PROVE Result
  <2>1. pc[t] = "grow" /\ UNCHANGED <<writers, job, concurrent>>
    BY <1>7 DEF BeginGrow
  <2>2. Held(t, "grow") /\ writers = t /\ IsLevelB
    BY <1>2, <2>1 DEF JobInOrder
  <2>3. CASE \E how : Finish(t, how)
    BY <1>1, <2>1, <2>3
  <2>4. CASE LockExclusive(t) /\ Goto(t, "reserve") /\ UNCHANGED link
    <3>1. LockStep(t, "reserve")
      BY <2>1, <2>2, <2>4 DEF LockStep, Held, LockExclusive, RwFree, IsLevelB
    <3> QED
      BY <2>2, <3>1
  <2> QED
    BY <1>7, <2>3, <2>4 DEF BeginGrow
<1>8. ASSUME NEW a \in {"reserve", "append", "index", "commit"}, pc[t] = a,
             UNCHANGED <<writers, job, concurrent, shared, link>>,
             NEW b \in {"reserve", "append", "index", "commit"}, Goto(t, b), UNCHANGED exclusive
      PROVE  Result
  <2>1. Held(t, a) /\ writers = t
    BY <1>2, <1>8
  <2>2. LockStep(t, b)
    BY <1>8, <2>1 DEF LockStep, Held, IsLevelB
  <2> QED
    BY <2>1, <2>2
<1>9. ASSUME NEW a \in {"reserve", "append", "index", "commit"}, pc[t] = a, IsLevelB,
             UNCHANGED <<writers, job, concurrent>>, NEW n, EndGrow(t, n)
      PROVE  Result
  <2>1. Held(t, a) /\ writers = t
    BY <1>2, <1>9
  <2>2. PICK b \in {"begin_link", "end_section"} : Goto(t, b)
    BY <1>9 DEF EndGrow
  <2>3. exclusive' = exclusive \ {t} /\ UNCHANGED <<shared, link>>
    BY <1>9 DEF EndGrow
  <2>4. LockStep(t, b)
    BY <1>9, <2>1, <2>2, <2>3 DEF LockStep, Held
  <2> QED
    BY <2>1, <2>2, <2>4
<1>10. ASSUME NEW a \in {"reserve", "append", "index"}, pc[t] = a,
              UNCHANGED <<writers, job, concurrent>>, \E how : InsertFails(t, how)
       PROVE  Result
  <2>1. CASE \E how : Finish(t, how)
    BY <1>1, <1>10, <2>1
  <2>2. CASE IsLevelB /\ EndGrow(t, Len(grown))
    BY <1>9, <1>10, <2>2
  <2> QED
    BY <1>10, <2>1, <2>2 DEF InsertFails
<1>11. ASSUME ReserveId(t) PROVE Result
  <2>1. pc[t] = "reserve" /\ UNCHANGED <<writers, job, concurrent>>
    BY <1>11 DEF ReserveId
  <2>2. \/ Goto(t, "append") /\ UNCHANGED <<shared, exclusive, link>>
        \/ \E how : InsertFails(t, how)
    BY <1>11 DEF ReserveId
  <2> QED
    BY <1>8, <1>10, <2>1, <2>2
<1>12. ASSUME AppendVector(t) PROVE Result
  <2>1. pc[t] = "append" /\ UNCHANGED <<writers, job, concurrent>>
    BY <1>12 DEF AppendVector
  <2>2. \/ Goto(t, "index") /\ UNCHANGED <<shared, exclusive, link>>
        \/ \E how : InsertFails(t, how)
    BY <1>12 DEF AppendVector
  <2> QED
    BY <1>8, <1>10, <2>1, <2>2
<1>13. ASSUME IndexRow(t) PROVE Result
  <2>1. pc[t] = "index" /\ UNCHANGED <<writers, job, concurrent>>
    BY <1>13 DEF IndexRow
  <2>2. \/ Goto(t, "commit") /\ UNCHANGED <<shared, exclusive, link>>
        \/ \E how : InsertFails(t, how)
    BY <1>13 DEF IndexRow
  <2> QED
    BY <1>8, <1>10, <2>1, <2>2
<1>14. ASSUME CommitRow(t) PROVE Result
  <2>1. pc[t] = "commit" /\ UNCHANGED <<writers, job, concurrent>>
    BY <1>14 DEF CommitRow
  <2>2. \/ \E how : Finish(t, how)
        \/ Goto(t, "reserve") /\ UNCHANGED <<shared, exclusive, link>>
        \/ ~IsLevelB /\ exclusive' = exclusive \ {t} /\ Goto(t, "slice") /\ UNCHANGED <<shared, link>>
        \/ IsLevelB /\ EndGrow(t, Len(grown) + 1)
    BY <1>14 DEF CommitRow
  <2>3. CASE ~IsLevelB /\ exclusive' = exclusive \ {t} /\ Goto(t, "slice") /\ UNCHANGED <<shared, link>>
    <3>1. Held(t, "commit") /\ writers = t
      BY <1>2, <2>1
    <3>2. LockStep(t, "slice")
      BY <2>1, <2>3, <3>1 DEF LockStep, Held
    <3> QED
      BY <3>1, <3>2
  <2> QED
    BY <1>1, <1>8, <1>9, <2>1, <2>2, <2>3
<1>15. ASSUME BeginLink(t) PROVE Result
  <2>1. pc[t] = "begin_link"
    BY <1>15 DEF BeginLink
  <2>2. Held(t, "begin_link") /\ writers = t
    BY <1>2, <2>1
  <2>3. LockStep(t, "link")
    BY <1>15, <2>2 DEF BeginLink, LockStep, Held, LockShared, batch
  <2> QED
    BY <2>2, <2>3
<1>16. ASSUME ParallelForThrows(t) PROVE Result
  <2>1. pc[t] = "link" /\ (\E how : Finish(t, how)) /\ UNCHANGED <<writers, job, concurrent>>
    BY <1>16 DEF ParallelForThrows
  <2> QED
    BY <1>1, <2>1
<1>17. ASSUME NEW a \in {"link", "abandon", "rebuild"}, pc[t] = a, pc' = pc,
              UNCHANGED <<writers, link, shared, exclusive, job, concurrent>>
       PROVE  Result
  <2>1. Held(t, a) /\ writers = t
    BY <1>2, <1>17
  <2>2. Goto(t, a)
    BY <1>17 DEF Goto, LocksOK
  <2>3. LockStep(t, a)
    BY <1>17, <2>1, <2>2 DEF LockStep, Held, IsLevelB
  <2> QED
    BY <2>1, <2>3
<1>18. ASSUME LinkRow(t) PROVE Result
  BY <1>17, <1>18 DEF LinkRow, locks
<1>19. ASSUME EndLink(t) PROVE Result
  <2>1. /\ pc[t] = "link" /\ shared' = shared \ {t}
        /\ UNCHANGED <<writers, link, exclusive, job, concurrent>>
    BY <1>19 DEF EndLink, batch
  <2>2. Held(t, "link") /\ writers = t
    BY <1>2, <2>1
  <2>3. PICK b \in {"end_section", "begin_abandon"} : Goto(t, b)
    BY <1>19 DEF EndLink
  <2>4. LockStep(t, b)
    BY <2>1, <2>2, <2>3 DEF LockStep, Held
  <2> QED
    BY <2>2, <2>4
<1>20. ASSUME BeginAbandon(t) PROVE Result
  <2>1. pc[t] = "begin_abandon"
    BY <1>20 DEF BeginAbandon
  <2>2. Held(t, "begin_abandon") /\ writers = t
    BY <1>2, <2>1
  <2>3. LockStep(t, "abandon")
    BY <1>20, <2>2 DEF BeginAbandon, LockStep, Held, LockExclusive, RwFree, batch
  <2> QED
    BY <2>2, <2>3
<1>21. ASSUME AbandonRow(t) PROVE Result
  <2>1. pc[t] = "abandon" /\ UNCHANGED <<writers, link, shared, job, concurrent>>
    BY <1>21 DEF AbandonRow
  <2>2. CASE exclusive' = exclusive \ {t} /\ Goto(t, "end_section")
    <3>1. Held(t, "abandon") /\ writers = t
      BY <1>2, <2>1
    <3>2. LockStep(t, "end_section")
      BY <2>1, <2>2, <3>1 DEF LockStep, Held
    <3> QED
      BY <3>1, <3>2
  <2>3. CASE UNCHANGED <<exclusive, pc>>
    BY <1>17, <2>1, <2>3
  <2> QED
    BY <1>21, <2>2, <2>3 DEF AbandonRow
<1>22. ASSUME EndSection(t) PROVE Result
  <2>1. pc[t] = "end_section" /\ UNCHANGED <<writers, job, concurrent>>
    BY <1>22 DEF EndSection
  <2>2. CASE \E how : Finish(t, how)
    BY <1>1, <2>1, <2>2
  <2>3. CASE link' = None /\ Goto(t, "section") /\ UNCHANGED <<shared, exclusive>>
    <3>1. Held(t, "end_section") /\ writers = t
      BY <1>2, <2>1
    <3>2. LockStep(t, "section")
      BY <2>1, <2>3, <3>1, CollectionAssumption DEF LockStep, Held
    <3> QED
      BY <3>1, <3>2
  <2> QED
    BY <1>22, <2>2, <2>3 DEF EndSection
<1>23. ASSUME BeginCompact(t) PROVE Result
  <2>1. pc[t] = "compact" /\ UNCHANGED <<writers, job, concurrent>>
    BY <1>23 DEF BeginCompact
  <2>2. CASE \E how : Finish(t, how)
    BY <1>1, <2>1, <2>2
  <2>3. CASE LockShared(t) /\ Goto(t, "rebuild") /\ UNCHANGED link
    <3>1. Held(t, "compact") /\ writers = t
      BY <1>2, <2>1
    <3>2. LockStep(t, "rebuild")
      BY <2>1, <2>3, <3>1 DEF LockStep, Held, LockShared
    <3> QED
      BY <3>1, <3>2
  <2> QED
    BY <1>23, <2>2, <2>3 DEF BeginCompact
<1>24. ASSUME RebuildRow(t) PROVE Result
  BY <1>17, <1>24 DEF RebuildRow, locks, batch
<1>25. ASSUME RebuildThrows(t) PROVE Result
  <2>1. pc[t] = "rebuild" /\ (\E how : Finish(t, how)) /\ UNCHANGED <<writers, job, concurrent>>
    BY <1>25 DEF RebuildThrows
  <2> QED
    BY <1>1, <2>1
<1>26. ASSUME EndRebuild(t) PROVE Result
  <2>1. pc[t] = "rebuild"
    BY <1>26 DEF EndRebuild
  <2>2. Held(t, "rebuild") /\ writers = t
    BY <1>2, <2>1
  <2>3. LockStep(t, "swap")
    BY <1>26, <2>2 DEF EndRebuild, LockStep, Held, batch
  <2> QED
    BY <2>2, <2>3
<1>27. ASSUME Swap(t) PROVE Result
  <2>1. pc[t] = "swap" /\ (\E how : Finish(t, how)) /\ UNCHANGED <<writers, job, concurrent>>
    BY <1>27 DEF Swap
  <2> QED
    BY <1>1, <2>1
<1>28. ASSUME Return(t) PROVE Result
  <2>1. pc[t] = "return"
    BY <1>28 DEF Return
  <2>2. Held(t, "return") /\ writers = t /\ t # None
    BY <1>2, <2>1
  <2>3. LockStep(t, "idle")
    BY <1>28, <2>2, CollectionAssumption DEF Return, LockStep, Held
  <2> QED
    BY <2>2, <2>3
<1> QED
  BY <1>3, <1>4, <1>5, <1>6, <1>7, <1>11, <1>12, <1>13, <1>14, <1>15, <1>16, <1>18, <1>19, <1>20,
     <1>21, <1>22, <1>23, <1>24, <1>25, <1>26, <1>27, <1>28 DEF WriterStep

\* Every step of a mutating call leaves the collection and the call in order.
LEMMA WriterSafe ==
    ASSUME LocksOK, NEW t \in Threads, WriterInOrder(Here), WriterStep(t)
    PROVE  Arrives(t)
<1>1. ASSUME NEW a \in WriterPoints, pc[t] = a
      PROVE  WriterInOrder(a)
  <2>1. Here = a
    BY <1>1, WriterHere
  <2> QED
    BY <2>1
<1>2. pc \in [Threads -> Locations]
  BY DEF LocksOK
<1>3. /\ {"remove", "check", "slice", "section", "grow", "reserve", "append", "index", "commit"}
            \subseteq WriterPoints
      /\ {"begin_link", "link", "begin_abandon", "abandon", "end_section"} \subseteq WriterPoints
      /\ {"compact", "rebuild", "swap", "return"} \subseteq WriterPoints
  BY DEF WriterPoints, BatchPoints, InsertPoints, SectionPoints
<1>4. CASE RemoveBody(t)
  BY <1>1, <1>3, <1>4, RemoveBodySafe DEF RemoveBody
<1>5. CASE CheckBatch(t)
  BY <1>1, <1>3, <1>5, CheckBatchSafe DEF CheckBatch
<1>6. CASE BeginSlice(t)
  BY <1>1, <1>3, <1>6, BeginSliceSafe DEF BeginSlice
<1>7. CASE BeginSection(t)
  BY <1>1, <1>3, <1>7, BeginSectionSafe DEF BeginSection
<1>8. CASE BeginGrow(t)
  BY <1>1, <1>3, <1>8, BeginGrowSafe DEF BeginGrow
<1>9. CASE ReserveId(t)
  BY <1>1, <1>3, <1>9, ReserveIdSafe DEF ReserveId
<1>10. CASE AppendVector(t)
  BY <1>1, <1>3, <1>10, AppendVectorSafe DEF AppendVector
<1>11. CASE IndexRow(t)
  BY <1>1, <1>3, <1>11, IndexRowSafe DEF IndexRow
<1>12. CASE CommitRow(t)
  BY <1>1, <1>3, <1>12, CommitRowSafe DEF CommitRow
<1>13. CASE BeginLink(t)
  BY <1>1, <1>3, <1>13, BeginLinkSafe DEF BeginLink
<1>14. CASE ParallelForThrows(t)
  BY <1>1, <1>3, <1>14, ParallelForThrowsSafe DEF ParallelForThrows
<1>15. CASE LinkRow(t)
  BY <1>1, <1>2, <1>3, <1>15, LinkRowSafe DEF LinkRow
<1>16. CASE EndLink(t)
  BY <1>1, <1>3, <1>16, EndLinkSafe DEF EndLink
<1>17. CASE BeginAbandon(t)
  BY <1>1, <1>3, <1>17, BeginAbandonSafe DEF BeginAbandon
<1>18. CASE AbandonRow(t)
  BY <1>1, <1>2, <1>3, <1>18, AbandonRowSafe DEF AbandonRow
<1>19. CASE EndSection(t)
  BY <1>1, <1>3, <1>19, EndSectionSafe DEF EndSection
<1>20. CASE BeginCompact(t)
  BY <1>1, <1>3, <1>20, BeginCompactSafe DEF BeginCompact
<1>21. CASE RebuildRow(t)
  BY <1>1, <1>2, <1>3, <1>21, RebuildRowSafe DEF RebuildRow
<1>22. CASE RebuildThrows(t)
  BY <1>1, <1>3, <1>22, RebuildThrowsSafe DEF RebuildThrows
<1>23. CASE EndRebuild(t)
  BY <1>1, <1>3, <1>23, EndRebuildSafe DEF EndRebuild
<1>24. CASE Swap(t)
  BY <1>1, <1>3, <1>24, SwapSafe DEF Swap
<1>25. CASE Return(t)
  BY <1>1, <1>3, <1>25, ReturnSafe DEF Return
<1> QED
  BY <1>4, <1>5, <1>6, <1>7, <1>8, <1>9, <1>10, <1>11, <1>12, <1>13, <1>14, <1>15, <1>16, <1>17,
     <1>18, <1>19, <1>20, <1>21, <1>22, <1>23, <1>24, <1>25 DEF WriterStep

\* The writer's step arrives where the invariant speaks of the writer next.
LEMMA ArrivesHere ==
    ASSUME LocksOK, NEW t \in Threads, Arrives(t), writers \in {t, None},
           NEW b \in Points, LockStep(t, b)
    PROVE  WriterInOrder(Here)' /\ Here' \in Points
<1>1. pc'[t] = b
  BY LockStepSafe
<1>2. PICK c \in Points : Goto(t, c) /\ WriterInOrder(c)'
  BY DEF Arrives
<1>3. c = b
  BY <1>1, <1>2 DEF Goto, LocksOK
<1>4. Here' = b
  <2>1. CASE b = "idle"
    <3>1. writers' # t
      BY <2>1 DEF LockStep, WriterPoints, BatchPoints, InsertPoints, SectionPoints
    <3>2. \A u \in Threads \ {t} : writers' # u
      BY CollectionAssumption DEF LockStep
    <3>3. writers' = None
      BY <3>1, <3>2 DEF LockStep
    <3> QED
      BY <2>1, <3>3 DEF Here
  <2>2. CASE b # "idle"
    <3>1. writers' = t
      BY <2>2 DEF LockStep, Points
    <3> QED
      BY <1>1, <3>1, CollectionAssumption DEF Here
  <2> QED
    BY <2>1, <2>2
<1> QED
  BY <1>2, <1>3, <1>4

\* A step that changes nothing of the collection or of a mutating call.
LEMMA CallKept ==
    ASSUME NEW a, WriterInOrder(a), CallSame
    PROVE  WriterInOrder(a)'
<1>1. StoreInOrder(a)'
  BY DEF CallSame, WriterInOrder, StoreInOrder, Committed, GrownInOrder, InsertInOrder, LinkedInOrder,
         Waiting, Row, Position, IsLevelB
<1>2. CallInOrder(a)'
  BY DEF CallSame, WriterInOrder, CallInOrder, JobInOrder, IsBatch, IsLevelB, BatchInOrder,
         ContentsInOrder, RebuiltInOrder, Dealt
<1> QED
  BY <1>1, <1>2 DEF WriterInOrder
-----------------------------------------------------------------------------
\* The calls.

\* A mutating call begins once no other is under way.
LEMMA CallSafe ==
    ASSUME LocksOK, NEW t \in Threads, WriterInOrder(Here), Add(t) \/ AddBatch(t) \/ Remove(t) \/ Compact(t)
    PROVE  /\ writers = None /\ Arrives(t) /\ \E b \in WriterPoints : LockStep(t, b)
           /\ UNCHANGED <<state, local, file>>
<1>1. PICK op, b, upsert, where :
        /\ Begin(t, op, b, upsert, where)
        /\ \/ /\ op = "add" /\ where = "slice" /\ b \in Batches /\ Len(b.ids) = 1
           \/ op = "add_batch" /\ where = "check" /\ b \in Batches
           \/ op = "remove" /\ where = "remove" /\ \E id \in Ids : b = [ids |-> <<id>>, vals |-> <<>>]
           \/ op = "compact" /\ where = "compact" /\ b = [ids |-> <<>>, vals |-> <<>>]
  BY DEF Add, AddBatch, Remove, Compact
<1>2. /\ pc[t] = "idle" /\ writers = None /\ writers' = t /\ Goto(t, where)
      /\ job' = [op |-> op, ids |-> b.ids, vals |-> b.vals, upsert |-> upsert,
                 before |-> Contents(state)]
      /\ UNCHANGED <<link, shared, exclusive, state, local, file, concurrent>>
  BY <1>1 DEF Begin, LockWriters, reading
<1>3. where \in {"slice", "check", "remove", "compact"}
  BY <1>1
<1>4. WriterInOrder("idle")
  <2>1. Here = "idle"
    BY <1>2 DEF Here
  <2> QED
    BY <2>1
<1>5. job'.op = op /\ job'.ids = b.ids /\ job'.vals = b.vals
  BY <1>2
<1>6. JobInOrder(where)'
  <2>1. CASE op \in Inserts
    <3>1. b \in Batches /\ (op = "add" => Len(b.ids) = 1)
      BY <1>1, <2>1 DEF Inserts
    <3>2. IsBatch'
      BY <1>5, <3>1, BatchFacts DEF IsBatch
    <3> QED
      BY <1>1, <1>5, <2>1, <3>2 DEF JobInOrder, Inserts, IsLevelB, BatchPoints, InsertPoints, SectionPoints
  <2>2. CASE op = "remove"
    <3>1. PICK id \in Ids : b = [ids |-> <<id>>, vals |-> <<>>]
      BY <1>1, <2>2
    <3>2. b.ids \in Seq(Ids) /\ Len(b.ids) = 1 /\ b.vals = <<>>
      BY <3>1
    <3> QED
      BY <1>1, <1>5, <2>2, <3>2 DEF JobInOrder, Inserts, BatchPoints, InsertPoints, SectionPoints
  <2>3. CASE op = "compact"
    BY <1>1, <1>5, <2>3 DEF JobInOrder, Inserts, BatchPoints, InsertPoints, SectionPoints
  <2> QED
    BY <1>1, <2>1, <2>2, <2>3 DEF Inserts
<1>7. Arrives(t)
  BY <1>1, <1>3, <1>4, <1>6, BeginSafe
<1>8. LockStep(t, where) /\ where \in WriterPoints
  <2>1. Held(t, "idle")
    BY <1>2, HeldHere
  <2> QED
    BY <1>2, <1>3, <2>1, CollectionAssumption DEF LockStep, Held, Locations, WriterPoints, BatchPoints,
       ExclusivePoints, SharedPoints, LinkPoints, InsertPoints, SectionPoints
<1> QED
  BY <1>2, <1>7, <1>8
-----------------------------------------------------------------------------
\* The reading calls.

ReadingStep(t) == Get(t) \/ Search(t) \/ Save(t) \/ ReaderStep(t)

\* What readers see of the state.
ReadSame ==
    /\ state'.rows = state.rows /\ state'.label = state.label /\ state'.vec = state.vec
    /\ state'.deleted = state.deleted /\ state'.map = state.map

\* A reading call takes and releases its own locks and changes no collection.
LEMMA ReadingLocks ==
    ASSUME LocksOK, NEW t \in Threads, ReadingStep(t)
    PROVE  /\ writers # t /\ UNCHANGED writers /\ CallSame
           /\ \E b \in Locations \ WriterPoints : LockStep(t, b)
<1> USE DEF InsertPoints, SectionPoints, BatchPoints, WriterPoints, ExclusivePoints, SharedPoints,
            LinkPoints, Locations
<1>1. UNCHANGED writers /\ CallSame
  BY DEF ReadingStep, ReaderStep, Get, Search, Save, ReturnGet, SearchVisits, SearchFindsNothing,
         ReturnSearch, UseAnswer, WriteRows, WriteGraph, CallSame, batch, compaction, locks
<1>2. UNCHANGED <<job, concurrent, writers>>
  BY <1>1 DEF CallSame
<1>3. ASSUME NEW a \in {"idle", "get", "search", "found", "answered", "save", "save_graph"}, pc[t] = a
      PROVE  Held(t, a) /\ writers # t
  BY <1>3, HeldHere DEF Held
<1>4. CASE Get(t)
  <2>1. Held(t, "idle") /\ writers # t
    BY <1>3, <1>4 DEF Get
  <2>2. LockStep(t, "get")
    BY <1>2, <1>4, <2>1 DEF Get, LockStep, Held, LockShared
  <2> QED
    BY <1>1, <2>1, <2>2
<1>5. CASE Search(t)
  <2>1. Held(t, "idle") /\ writers # t
    BY <1>3, <1>5 DEF Search
  <2>2. LockStep(t, "search")
    BY <1>2, <1>5, <2>1 DEF Search, LockStep, Held, LockShared
  <2> QED
    BY <1>1, <2>1, <2>2
<1>6. CASE Save(t)
  <2>1. Held(t, "idle") /\ writers # t
    BY <1>3, <1>6 DEF Save
  <2>2. LockStep(t, "save")
    BY <1>2, <1>6, <2>1, CollectionAssumption DEF Save, LockStep, Held
  <2> QED
    BY <1>1, <2>1, <2>2
<1>7. CASE ReturnGet(t)
  <2>1. Held(t, "get") /\ writers # t
    BY <1>3, <1>7 DEF ReturnGet
  <2>2. LockStep(t, "answered")
    BY <1>2, <1>7, <2>1 DEF ReturnGet, LockStep, Held
  <2> QED
    BY <1>1, <2>1, <2>2
<1>8. CASE SearchVisits(t)
  <2>1. Held(t, "search") /\ writers # t
    BY <1>3, <1>8 DEF SearchVisits
  <2>2. LockStep(t, "found")
    BY <1>2, <1>8, <2>1 DEF SearchVisits, LockStep, Held, locks
  <2> QED
    BY <1>1, <2>1, <2>2
<1>9. CASE SearchFindsNothing(t)
  <2>1. Held(t, "search") /\ writers # t
    BY <1>3, <1>9 DEF SearchFindsNothing
  <2>2. LockStep(t, "idle")
    BY <1>2, <1>9, <2>1 DEF SearchFindsNothing, LockStep, Held
  <2> QED
    BY <1>1, <2>1, <2>2
<1>10. CASE ReturnSearch(t)
  <2>1. Held(t, "found") /\ writers # t
    BY <1>3, <1>10 DEF ReturnSearch
  <2>2. LockStep(t, "answered")
    BY <1>2, <1>10, <2>1 DEF ReturnSearch, LockStep, Held
  <2> QED
    BY <1>1, <2>1, <2>2
<1>11. CASE UseAnswer(t)
  <2>1. Held(t, "answered") /\ writers # t
    BY <1>3, <1>11 DEF UseAnswer
  <2>2. LockStep(t, "idle")
    BY <1>2, <1>11, <2>1 DEF UseAnswer, LockStep, Held, locks
  <2> QED
    BY <1>1, <2>1, <2>2
<1>12. CASE WriteRows(t)
  <2>1. Held(t, "save") /\ writers # t
    BY <1>3, <1>12 DEF WriteRows
  <2>2. LockStep(t, "save_graph")
    BY <1>2, <1>12, <2>1 DEF WriteRows, LockStep, Held, LockShared
  <2> QED
    BY <1>1, <2>1, <2>2
<1>13. CASE WriteGraph(t)
  <2>1. Held(t, "save_graph") /\ writers # t
    BY <1>3, <1>13 DEF WriteGraph
  <2>2. LockStep(t, "idle")
    BY <1>2, <1>13, <2>1, CollectionAssumption DEF WriteGraph, LockStep, Held
  <2> QED
    BY <1>1, <2>1, <2>2
<1> QED
  BY <1>4, <1>5, <1>6, <1>7, <1>8, <1>9, <1>10, <1>11, <1>12, <1>13 DEF ReadingStep, ReaderStep

\* A reading step leaves the writer where it was, and its call in order.
LEMMA ReadingHere ==
    ASSUME LocksOK, NEW t \in Threads, ReadingStep(t), WriterInOrder(Here)
    PROVE  WriterInOrder(Here)' /\ Here' = Here
<1>1. /\ writers # t /\ UNCHANGED writers /\ CallSame
      /\ \E b \in Locations \ WriterPoints : LockStep(t, b)
  BY ReadingLocks
<1>2. \A u \in Threads \ {t} : pc'[u] = pc[u]
  BY <1>1, LockStepSafe
<1>3. Here' = Here
  BY <1>1, <1>2 DEF Here, LocksOK
<1>4. PICK a : a = Here
  OBVIOUS
<1>5. WriterInOrder(a)'
  BY <1>1, <1>4, CallKept
<1> QED
  BY <1>3, <1>4, <1>5

\* Nothing changes under a reader.
LEMMA ReadersKept ==
    ASSUME LocksOK, ReadersInOrder, NEW t \in Threads, NEW b \in Points, LockStep(t, b),
           UNCHANGED local, ReadSame \/ shared = {}
    PROVE  ReadersInOrder'
<1>1. pc'[t] = b /\ \A u \in Threads \ {t} : pc'[u] = pc[u]
  BY LockStepSafe
<1>2. b \notin {"get", "found", "save_graph"}
  BY DEF Points, WriterPoints, BatchPoints, InsertPoints, SectionPoints
<1>3. ASSUME NEW u \in Threads PROVE ReadInOrder(pc[u], local[u])'
  <2>1. CASE u = t
    BY <1>1, <1>2, <2>1 DEF ReadInOrder
  <2>2. CASE u # t /\ pc[u] \notin {"get", "found", "save_graph"}
    BY <1>1, <2>2 DEF ReadInOrder
  <2>3. CASE u # t /\ pc[u] \in {"get", "found", "save_graph"}
    <3>1. ReadSame
      BY <2>3 DEF LocksOK, LocksInOrder, SharedPoints
    <3>2. ReadInOrder(pc[u], local[u])
      BY DEF ReadersInOrder
    <3> QED
      BY <1>1, <2>3, <3>1, <3>2 DEF ReadInOrder, ReadSame
  <2> QED
    BY <2>1, <2>2, <2>3
<1> QED
  BY <1>3 DEF ReadersInOrder

\* A step of a mutating call changes what readers see only when there are none.
LEMMA WriterReads ==
    ASSUME LocksOK, NEW t \in Threads, WriterInOrder(Here), WriterStep(t)
    PROVE  (ReadSame \/ shared = {}) /\ UNCHANGED <<local, got, file>>
<1>1. UNCHANGED <<local, got, file>>
  BY DEF WriterStep, RemoveBody, CheckBatch, BeginSlice, BeginSection, BeginGrow, ReserveId, AppendVector,
         IndexRow, CommitRow, BeginLink, ParallelForThrows, LinkRow, EndLink, BeginAbandon, AbandonRow,
         EndSection, BeginCompact, RebuildRow, RebuildThrows, EndRebuild, Swap, Return, reading
<1>2. CASE state' = state
  BY <1>1, <1>2 DEF ReadSame
<1>3. CASE RemoveBody(t) \/ Swap(t)
  BY <1>1, <1>3 DEF RemoveBody, Swap, RwFree
<1>4. CASE ReserveId(t) \/ AppendVector(t) \/ IndexRow(t) \/ CommitRow(t) \/ AbandonRow(t)
  <2>1. pc[t] \in ExclusivePoints
    BY <1>4 DEF ReserveId, AppendVector, IndexRow, CommitRow, AbandonRow, ExclusivePoints, InsertPoints
  <2> QED
    BY <1>1, <2>1 DEF LocksOK, LocksInOrder
<1>5. CASE LinkRow(t) \/ ParallelForThrows(t)
  <2>1. pc[t] = "link" /\ "link" \in WriterPoints
    BY <1>5 DEF LinkRow, ParallelForThrows, WriterPoints, BatchPoints, SectionPoints
  <2>2. Here = "link"
    BY <2>1, WriterHere
  <2>3. DOMAIN state = {"rows", "label", "vec", "deleted", "count", "map", "pending",
                        "live", "linked", "stranded"}
    BY DEF WriterInOrder, StoreInOrder, Sound, StateOK
  <2>4. \/ state' = state
        \/ \E R : state' = [state EXCEPT !.linked = @ \cup R]
        \/ \E R : state' = [state EXCEPT !.stranded = @ \cup R]
    BY <1>5 DEF LinkRow, ParallelForThrows
  <2>5. ReadSame
    BY <2>3, <2>4 DEF ReadSame
  <2> QED
    BY <1>1, <2>5
<1> QED
  BY <1>2, <1>3, <1>4, <1>5 DEF WriterStep, CheckBatch, BeginSlice, BeginSection, BeginGrow, BeginLink,
     EndLink, BeginAbandon, EndSection, BeginCompact, RebuildRow, RebuildThrows, EndRebuild, Return

\* Where no thread has an exclusive lock and t has `link`, everything is settled.
LEMMA SaverSettled ==
    ASSUME LocksOK, NEW t \in Threads, pc[t] = "save_graph", WriterInOrder(Here)
    PROVE  Settled
<1>1. link = t /\ t \in shared /\ exclusive = {} /\ writers # t
  BY DEF LocksOK, LocksInOrder, LinkPoints, SharedPoints, WriterPoints, BatchPoints, InsertPoints,
         SectionPoints
<1>2. Here \notin InsertPoints \cup {"reserve"} \cup SectionPoints
  <2>1. CASE writers = None
    BY <2>1 DEF Here, InsertPoints, SectionPoints
  <2>2. CASE writers # None
    <3>1. writers \in Threads /\ writers # t /\ Here = pc[writers]
      BY <1>1, <2>2 DEF LocksOK, Here
    <3>2. writers \notin exclusive /\ link # writers
      BY <1>1, <3>1
    <3> QED
      BY <3>1, <3>2 DEF LocksOK, LocksInOrder, ExclusivePoints, LinkPoints
  <2> QED
    BY <2>1, <2>2
<1>3. PICK a : a = Here
  OBVIOUS
<1>4. Waiting(a) = {} /\ a \notin InsertPoints
  BY <1>2, <1>3 DEF Waiting, SectionPoints
<1> QED
  BY <1>3, <1>4, StoreSettled DEF WriterInOrder

\* Readers see committed rows only.
LEMMA ReaderCommitted ==
    ASSUME LocksOK, NEW t \in Threads, t \in shared, WriterInOrder(Here)
    PROVE  Sound(state, state.rows) /\ state.linked \subseteq 1..state.rows
<1>1. exclusive = {}
  BY DEF LocksOK, LocksInOrder
<1>2. Here \notin InsertPoints
  <2>1. CASE writers = None
    BY <2>1 DEF Here, InsertPoints
  <2>2. CASE writers # None
    BY <1>1, <2>2 DEF LocksOK, LocksInOrder, Here, ExclusivePoints
  <2> QED
    BY <2>1, <2>2
<1>3. PICK a : a = Here
  OBVIOUS
<1>4. StoreInOrder(a) /\ a \notin InsertPoints
  BY <1>2, <1>3 DEF WriterInOrder
<1> QED
  BY <1>4 DEF StoreInOrder, Committed, LinkedInOrder, InsertPoints

\* A reading step keeps what readers rely on.
LEMMA ReadersMove ==
    ASSUME LocksOK, ReadersInOrder, NEW t \in Threads, ReadingStep(t), WriterInOrder(Here)
    PROVE  ReadersInOrder'
<1>1. state' = state
  BY ReadingLocks DEF CallSame
<1>2. PICK b \in Locations \ WriterPoints : LockStep(t, b)
  BY ReadingLocks
<1>3. pc'[t] = b /\ \A u \in Threads \ {t} : pc'[u] = pc[u]
  BY <1>2, LockStepSafe
<1>4. local = [u \in Threads |-> local[u]]
  BY DEF ReadersInOrder
<1>5. local' = local \/ \E x : local' = [local EXCEPT ![t] = x]
  BY DEF ReadingStep, ReaderStep, Get, Search, Save, ReturnGet, SearchVisits, SearchFindsNothing,
         ReturnSearch, UseAnswer, WriteRows, WriteGraph, reading
<1>6. local' = [u \in Threads |-> local'[u]] /\ \A u \in Threads \ {t} : local'[u] = local[u]
  BY <1>4, <1>5
<1>7. ReadInOrder(pc[t], local[t])'
  <2>1. CASE Get(t)
    <3>1. PICK id \in Ids : local' = [local EXCEPT ![t] = <<id, state.map[id]>>]
      BY <2>1 DEF Get
    <3>2. local'[t] = <<id, state'.map[id]>>
      BY <1>1, <1>4, <3>1
    <3>3. pc'[t] = "get"
      BY <2>1 DEF Get, Goto, LocksOK
    <3> QED
      BY <3>2, <3>3 DEF ReadInOrder
  <2>2. CASE SearchVisits(t)
    <3>1. PICK r \in state.linked \ state.deleted : local' = [local EXCEPT ![t] = <<r, state.vec[r]>>]
      BY <2>2 DEF SearchVisits
    <3>2. t \in shared /\ pc'[t] = "found"
      BY <2>2 DEF SearchVisits, Goto, LocksOK, LocksInOrder, SharedPoints
    <3>3. r \in (1..state.rows) \ state.deleted
      BY <3>1, <3>2, ReaderCommitted
    <3>4. local'[t] = <<r, state'.vec[r]>>
      BY <1>1, <1>4, <3>1
    <3> QED
      BY <1>1, <3>2, <3>3, <3>4 DEF ReadInOrder
  <2>3. CASE WriteRows(t)
    <3>1. local'[t] = [rows |-> state.rows, label |-> state.label,
                       vec |-> state.vec, deleted |-> state.deleted]
      BY <1>4, <2>3 DEF WriteRows
    <3>2. pc'[t] = "save_graph"
      BY <2>3 DEF WriteRows, Goto, LocksOK
    <3> QED
      BY <1>1, <3>1, <3>2 DEF ReadInOrder
  <2>4. CASE pc'[t] \notin {"get", "found", "save_graph"}
    BY <2>4 DEF ReadInOrder
  <2>5. \/ Get(t) \/ SearchVisits(t) \/ WriteRows(t)
        \/ \E c \in {"search", "save", "answered", "idle"} : Goto(t, c)
    BY DEF ReadingStep, ReaderStep, Search, Save, ReturnGet, SearchFindsNothing, ReturnSearch, UseAnswer,
           WriteGraph
  <2>6. (\E c \in {"search", "save", "answered", "idle"} : Goto(t, c)) =>
            pc'[t] \notin {"get", "found", "save_graph"}
    BY DEF Goto, LocksOK
  <2> QED
    BY <2>1, <2>2, <2>3, <2>4, <2>5, <2>6
<1>8. ASSUME NEW u \in Threads \ {t} PROVE ReadInOrder(pc[u], local[u])'
  <2>1. ReadInOrder(pc[u], local[u])
    BY DEF ReadersInOrder
  <2> QED
    BY <1>1, <1>3, <1>6, <2>1 DEF ReadInOrder
<1> QED
  BY <1>6, <1>7, <1>8 DEF ReadersInOrder

\* save() writes the collection as it is.
FileEffect ==
    /\ file' # None /\ Saves(file', state)
    /\ Loaded(file').map = state.map /\ Loaded(file').vec = state.vec
    /\ Sound(Loaded(file'), file'.rows)
    /\ file'.linked \subseteq 1..file'.rows
    /\ LiveRows(file') \subseteq file'.linked \cup file'.stranded

\* A file that save() has written holds the committed state it read.
LEMMA FileWritten ==
    ASSUME LocksOK, ReadersInOrder, NEW t \in Threads, ReadingStep(t), WriterInOrder(Here), file' # file
    PROVE  FileEffect
<1>1. WriteGraph(t)
  BY DEF ReadingStep, ReaderStep, Get, Search, Save, ReturnGet, SearchVisits, SearchFindsNothing,
         ReturnSearch, UseAnswer, WriteRows
<1>2. pc[t] = "save_graph"
  BY <1>1 DEF WriteGraph
<1>3. file' = [rows |-> local[t].rows, label |-> local[t].label,
               vec |-> local[t].vec, deleted |-> local[t].deleted,
               linked |-> state.linked, stranded |-> state.stranded]
  BY <1>1 DEF WriteGraph
<1>4. /\ local[t].rows = state.rows /\ local[t].label = state.label
      /\ local[t].vec = state.vec /\ local[t].deleted = state.deleted
  BY <1>2 DEF ReadersInOrder, ReadInOrder
<1>5. PICK f : f = file'
  OBVIOUS
<1>6. f = [rows |-> state.rows, label |-> state.label, vec |-> state.vec, deleted |-> state.deleted,
           linked |-> state.linked, stranded |-> state.stranded]
  BY <1>3, <1>4, <1>5
<1>7. Saves(f, state)
  BY <1>6 DEF Saves
<1>8. Settled
  BY <1>2, SaverSettled
<1>9. /\ Sound(Loaded(f), f.rows) /\ Loaded(f).map = state.map /\ Loaded(f).vec = state.vec
  BY <1>7, <1>8, LoadedSound DEF Settled
<1>10. f # None
  <2>1. f \in Files
    <3>1. StateOK(state)
      BY <1>8 DEF Settled, Sound
    <3> QED
      BY <1>6, <3>1 DEF Files, StateOK
  <2> QED
    BY <2>1, NoneAssumption
<1>11. f.linked \subseteq 1..f.rows /\ LiveRows(f) \subseteq f.linked \cup f.stranded
  BY <1>7, <1>8 DEF Settled, Saves, LiveRows
<1> QED
  BY <1>5, <1>7, <1>9, <1>10, <1>11 DEF FileEffect

\* load() starts from the file alone.
LEMMA LoadSafe ==
    ASSUME IndInv, Load
    PROVE  IndInv'
<1>1. /\ pc' = [t \in Threads |-> "idle"] /\ writers' = None /\ link' = None
      /\ shared' = {} /\ exclusive' = {} /\ NoLocals /\ local' = [t \in Threads |-> None]
      /\ file' = file
  BY DEF Load
<1>2. PICK x : x = Loaded(file)
  OBVIOUS
<1>3. /\ Sound(x, file.rows) /\ file.linked \subseteq 1..file.rows
      /\ LiveRows(file) \subseteq file.linked \cup file.stranded /\ state' = x
  BY <1>2 DEF IndInv, FileInOrder, Load
<1>4. /\ x.rows = file.rows /\ x.deleted = file.deleted /\ x.pending = {}
      /\ x.linked = file.linked /\ x.stranded = file.stranded
  BY <1>2 DEF Loaded
<1>5. Settled'
  BY <1>3, <1>4 DEF Settled, LiveRows
<1>6. WriterInOrder(Here)'
  <2>1. WriterInOrder("idle")'
    BY <1>1, <1>5, IdleSafe
  <2>2. Here' = "idle"
    BY <1>1 DEF Here
  <2> QED
    BY <2>1, <2>2
<1>7. LocksOK'
  <2>1. \A t \in Threads : pc'[t] = "idle" /\ t # None
    BY <1>1, CollectionAssumption
  <2>2. pc' \in [Threads -> Locations]
    BY <1>1 DEF Locations
  <2>3. LocksInOrder'
    BY <1>1, <2>1 DEF LocksInOrder, WriterPoints, BatchPoints, ExclusivePoints, SharedPoints, LinkPoints,
                      InsertPoints, SectionPoints
  <2> QED
    BY <1>1, <2>2, <2>3 DEF LocksOK
<1>8. ReadersInOrder'
  BY <1>1 DEF ReadersInOrder, ReadInOrder
<1>9. FileInOrder'
  BY <1>1 DEF IndInv, FileInOrder
<1>10. BeforeInOrder'
  BY <1>1 DEF NoLocals, NoJob, BeforeInOrder
<1> QED
  BY <1>6, <1>7, <1>8, <1>9, <1>10 DEF IndInv
-----------------------------------------------------------------------------
\* The inductive invariant.

\* An empty collection and idle threads.
LEMMA InitInv == Init => IndInv
<1> SUFFICES ASSUME Init PROVE IndInv
  OBVIOUS
<1>1. LocksOK
  <2>1. \A t \in Threads : pc[t] = "idle" /\ t # None
    BY CollectionAssumption DEF Init
  <2>2. pc \in [Threads -> Locations]
    BY DEF Init, Locations
  <2>3. LocksInOrder
    BY <2>1 DEF Init, LocksInOrder, WriterPoints, BatchPoints, ExclusivePoints, SharedPoints, LinkPoints,
                InsertPoints, SectionPoints
  <2> QED
    BY <2>2, <2>3 DEF LocksOK, Init
<1>2. Here = "idle"
  BY DEF Here, Init
<1>3. /\ Sound(EmptyState, 0) /\ EmptyState.rows = 0 /\ EmptyState.pending = {} /\ EmptyState.linked = {}
  BY EmptySound DEF EmptyState
<1>4. StoreInOrder("idle")
  <2>1. Waiting("idle") = {} /\ Committed("idle") = 0
    BY <1>3 DEF Waiting, Committed, InsertPoints, Init
  <2>2. 1..0 = {}
    OBVIOUS
  <2> QED
    BY <1>3, <2>1, <2>2 DEF Init, StoreInOrder, GrownInOrder, InsertInOrder, LinkedInOrder, InsertPoints
<1>5. CallInOrder("idle")
  <2>1. Len(grown) = 0 /\ Len(job.ids) = 0
    BY DEF Init, NoJob
  <2>2. Dealt = 0
    BY <2>1 DEF Dealt, Init
  <2>3. grown \in Seq(Rows \cup {NoRow}) /\ 0 \in 0..MaxBatch
    BY CollectionAssumption DEF Init
  <2>4. BatchInOrder("idle")
    BY <2>1, <2>2, <2>3 DEF BatchInOrder, InsertPoints, SectionPoints, Init
  <2>5. JobInOrder("idle") /\ ContentsInOrder("idle")
    BY DEF JobInOrder, ContentsInOrder, BatchPoints, InsertPoints, SectionPoints
  <2>6. RebuiltInOrder("idle")
    BY <1>3, CollectionAssumption DEF RebuiltInOrder, Sound, Init
  <2> QED
    BY <2>4, <2>5, <2>6 DEF CallInOrder
<1>6. ReadersInOrder /\ FileInOrder
  BY DEF Init, ReadersInOrder, ReadInOrder, FileInOrder
<1>7. BeforeInOrder
  BY DEF Init, NoJob, BeforeInOrder
<1> QED
  BY <1>1, <1>2, <1>4, <1>5, <1>6, <1>7 DEF IndInv, WriterInOrder

\* The contents that a call compares with are those it started from.
LEMMA BeforeKept ==
    ASSUME BeforeInOrder, Next
    PROVE  BeforeInOrder'
<1>1. job' = job \/ job' = NoJob \/ job'.before = Contents(state)
  <2>1. ASSUME NEW t \in Threads, WriterStep(t) PROVE job' = job \/ job' = NoJob
    BY <2>1 DEF WriterStep, RemoveBody, CheckBatch, BeginSlice, BeginSection, BeginGrow, ReserveId,
           AppendVector, IndexRow, CommitRow, BeginLink, ParallelForThrows, LinkRow, EndLink,
           BeginAbandon, AbandonRow, EndSection, BeginCompact, RebuildRow, RebuildThrows, EndRebuild,
           Swap, Return, NoLocals, batch
  <2>2. ASSUME NEW t \in Threads, ReaderStep(t) \/ Get(t) \/ Search(t) \/ Save(t) PROVE job' = job
    BY <2>2 DEF ReaderStep, Get, Search, Save, ReturnGet, SearchVisits, SearchFindsNothing,
           ReturnSearch, UseAnswer, WriteRows, WriteGraph, batch
  <2>3. ASSUME NEW t \in Threads, Add(t) \/ AddBatch(t) \/ Remove(t) \/ Compact(t)
        PROVE  job'.before = Contents(state)
    BY <2>3 DEF Add, AddBatch, Remove, Compact, Begin
  <2>4. ASSUME Load PROVE job' = NoJob
    BY <2>4 DEF Load, NoLocals
  <2> QED
    BY <2>1, <2>2, <2>3, <2>4 DEF Next, Call
<1> QED
  BY <1>1 DEF BeforeInOrder, NoJob, Contents

\* Every step keeps the inductive invariant.
LEMMA NextInv == IndInv /\ [Next]_vars => IndInv'
<1> SUFFICES ASSUME IndInv, [Next]_vars PROVE IndInv'
  OBVIOUS
<1>1. LocksOK /\ WriterInOrder(Here) /\ ReadersInOrder /\ FileInOrder
  BY DEF IndInv
<1>0. BeforeInOrder'
  BY BeforeKept DEF IndInv, BeforeInOrder, vars, batch
<1>2. ASSUME NEW t \in Threads, WriterStep(t) PROVE IndInv'
  <2>1. writers = t /\ Arrives(t) /\ (ReadSame \/ shared = {}) /\ UNCHANGED <<local, file>>
    BY <1>1, <1>2, WriterLocks, WriterSafe, WriterReads
  <2>2. PICK b \in Points : LockStep(t, b)
    BY <1>1, <1>2, WriterLocks DEF Points
  <2>3. LocksOK' /\ WriterInOrder(Here)' /\ ReadersInOrder'
    BY <1>1, <2>1, <2>2, LockStepSafe, ArrivesHere, ReadersKept
  <2>4. FileInOrder'
    BY <1>1, <2>1 DEF FileInOrder
  <2> QED
    BY <1>0, <2>3, <2>4 DEF IndInv
<1>3. ASSUME NEW t \in Threads, Add(t) \/ AddBatch(t) \/ Remove(t) \/ Compact(t) PROVE IndInv'
  <2>1. writers = None /\ Arrives(t) /\ UNCHANGED <<state, local, file>>
    BY <1>1, <1>3, CallSafe
  <2>2. PICK b \in Points : LockStep(t, b)
    BY <1>1, <1>3, CallSafe DEF Points
  <2>3. ReadSame
    BY <2>1 DEF ReadSame
  <2>4. LocksOK' /\ WriterInOrder(Here)' /\ ReadersInOrder'
    BY <1>1, <2>1, <2>2, <2>3, LockStepSafe, ArrivesHere, ReadersKept
  <2>5. FileInOrder'
    BY <1>1, <2>1 DEF FileInOrder
  <2> QED
    BY <1>0, <2>4, <2>5 DEF IndInv
<1>4. ASSUME NEW t \in Threads, ReadingStep(t) PROVE IndInv'
  <2>1. LocksOK'
    BY <1>1, <1>4, ReadingLocks, LockStepSafe
  <2>2. WriterInOrder(Here)' /\ ReadersInOrder'
    BY <1>1, <1>4, ReadingHere, ReadersMove
  <2>3. FileInOrder'
    <3>1. CASE file' = file
      BY <1>1, <3>1 DEF FileInOrder
    <3>2. CASE file' # file
      BY <1>1, <1>4, <3>2, FileWritten DEF FileEffect, FileInOrder
    <3> QED
      BY <3>1, <3>2
  <2> QED
    BY <1>0, <2>1, <2>2, <2>3 DEF IndInv
<1>5. CASE Load
  BY <1>5, LoadSafe
<1>6. CASE UNCHANGED vars
  <2>1. UNCHANGED <<pc, writers, link, shared, exclusive, local, file, job, concurrent, state>> /\ CallSame
    BY <1>6 DEF vars, locks, batch, compaction, reading, CallSame
  <2>2. LocksOK'
    BY <1>1, <2>1 DEF LocksOK, LocksInOrder, IsLevelB
  <2>3. Here' = Here
    BY <2>1 DEF Here
  <2>4. PICK a : a = Here
    OBVIOUS
  <2>5. WriterInOrder(a)'
    BY <1>1, <2>1, <2>4, CallKept
  <2>6. ReadersInOrder' /\ FileInOrder'
    BY <1>1, <2>1 DEF ReadersInOrder, ReadInOrder, FileInOrder
  <2> QED
    BY <1>0, <2>2, <2>3, <2>4, <2>5, <2>6 DEF IndInv
<1> QED
  BY <1>2, <1>3, <1>4, <1>5, <1>6 DEF Next, Call, ReadingStep

\* The inductive invariant holds of every reachable state.
LEMMA Invariance == Spec => []IndInv
  BY InitInv, NextInv, PTL DEF Spec
-----------------------------------------------------------------------------
\* What the invariant says of the collection.

\* How many rows are committed, whichever thread is asked.
LEMMA CommittedHere ==
    ASSUME IndInv
    PROVE  /\ CommittedRows(state) = Committed(Here)
           /\ Sound(state, CommittedRows(state))
           /\ ~Inserting => state.pending = {}
<1>1. LocksOK /\ WriterInOrder(Here)
  BY DEF IndInv
<1>2. \A t \in Threads : pc[t] \in InsertPoints => Here = pc[t]
  BY <1>1, WriterHere DEF WriterPoints, BatchPoints
<1>3. Here \in InsertPoints => \E t \in Threads : pc[t] = Here
  BY <1>1 DEF Here, InsertPoints, LocksOK
<1>4. PICK a : a = Here
  OBVIOUS
<1>5. CommittedRows(state) = Committed(a)
  BY <1>2, <1>3, <1>4 DEF CommittedRows, Committed, InsertPoints
<1>6. StoreInOrder(a)
  BY <1>1, <1>4 DEF WriterInOrder
<1>7. ~Inserting => state.pending = {}
  BY <1>3, <1>4, <1>6 DEF Inserting, StoreInOrder, InsertInOrder
<1> QED
  BY <1>4, <1>5, <1>6, <1>7 DEF StoreInOrder

\* The inductive invariant implies the type invariant.
LEMMA InvTypeOK ==
    ASSUME IndInv
    PROVE  TypeOK
<1>1. PICK a : a = Here
  OBVIOUS
<1>2. LocksOK /\ WriterInOrder(a)
  BY <1>1 DEF IndInv
<1>3. StateOK(state)
  BY <1>2 DEF WriterInOrder, StoreInOrder, Sound
<1>4. StateOK(rebuilt) /\ cursor \in 1..(MaxRows + 1)
  BY <1>2 DEF WriterInOrder, CallInOrder, RebuiltInOrder
<1>5. /\ done \in 0..MaxBatch /\ grown \in Seq(Rows \cup {NoRow})
      /\ unlinked \subseteq 1..MaxBatch /\ failed \subseteq 1..MaxBatch
      /\ outcome \in {"ok", "error", "throws"}
  BY <1>2 DEF WriterInOrder, CallInOrder, BatchInOrder
<1> QED
  BY <1>2, <1>3, <1>4, <1>5 DEF TypeOK, LocksOK

\* The id map, the labels and the tombstones describe the same collection, and
\* no failed call leaves a reservation behind: add(), add_batch() at both
\* levels, remove(), compact() and load(), in any interleaving.
THEOREM IdMapConsistency == Spec => []IdMapConsistent
<1>1. IndInv => IdMapConsistent
  <2> SUFFICES ASSUME IndInv PROVE IdMapConsistent
    OBVIOUS
  <2>1. TypeOK
    BY InvTypeOK
  <2>2. PICK n : n = CommittedRows(state)
    OBVIOUS
  <2>3. Sound(state, n) /\ (~Inserting => state.pending = {})
    BY <2>2, CommittedHere
  <2>4. /\ \A id \in Ids : state.map[id] # NoRow =>
             state.map[id] \in (1..n) \ state.deleted /\ state.label[state.map[id]] = id
        /\ \A r \in (1..n) \ state.deleted : state.label[r] \in Ids /\ state.map[state.label[r]] = r
    BY <2>3 DEF Sound
  <2> QED
    BY <2>1, <2>2, <2>3, <2>4 DEF IdMapConsistent
<1> QED
  BY <1>1, Invariance, PTL

\* stats(): the live and the deleted rows are counted right and add up to the
\* rows, whatever was replaced, removed, abandoned or compacted.
THEOREM CountsAgreement == Spec => []CountsAgree
<1>1. IndInv => CountsAgree
  BY CommittedHere DEF CountsAgree, Sound, Mapped
<1> QED
  BY <1>1, Invariance, PTL

\* Outside an insert and a Level B section a search can reach every live row,
\* but for those whose parallel_for threw.
THEOREM LiveRowsLinked == Spec => []LiveRowsAreLinked
<1>1. IndInv => LiveRowsAreLinked
  <2> SUFFICES ASSUME IndInv, exclusive = {}, \A t \in Threads : pc[t] \notin SectionPoints
               PROVE  LiveRows(state) \subseteq state.linked \cup state.stranded
    BY DEF LiveRowsAreLinked
  <2>1. PICK a : a = Here
    OBVIOUS
  <2>2. LocksOK /\ StoreInOrder(a)
    BY <2>1 DEF IndInv, WriterInOrder
  <2>3. a \notin InsertPoints \cup {"reserve"} \cup SectionPoints
    <3>1. CASE writers = None
      BY <2>1, <3>1 DEF Here, InsertPoints, SectionPoints
    <3>2. CASE writers # None
      BY <2>1, <2>2, <3>2 DEF LocksOK, LocksInOrder, Here, ExclusivePoints
    <3> QED
      BY <3>1, <3>2
  <2>4. Waiting(a) = {}
    BY <2>3 DEF Waiting, SectionPoints
  <2> QED
    BY <2>2, <2>3, <2>4, StoreSettled DEF Settled
<1> QED
  BY <1>1, Invariance, PTL

\* A snapshot never contains rows that are allocated but not yet linked.
THEOREM SavedRowsLinked == Spec => []SavedRowsAreLinked
<1>1. IndInv => SavedRowsAreLinked
  BY DEF IndInv, FileInOrder, SavedRowsAreLinked
<1> QED
  BY <1>1, Invariance, PTL

\* What a mutating call leaves behind when it returns: all it was asked to do,
\* or nothing, or for a failed batch the new or the old vector of each id.
THEOREM CallOutcomes == Spec => []CallOutcome
<1>1. IndInv => CallOutcome
  <2>0. SUFFICES ASSUME IndInv, NEW t \in Threads, pc[t] = "return",
                      NEW asked, asked = [id \in Ids |->
                        IF job.op = "remove" /\ id = job.ids[1] THEN None
                        ELSE IF \E i \in DOMAIN job.vals : job.ids[i] = id
                             THEN job.vals[CHOOSE i \in DOMAIN job.vals : job.ids[i] = id]
                             ELSE job.before[id]],
                      NEW now, now = Contents(state)
               PROVE  /\ outcome = "ok" => now = asked
                      /\ outcome # "ok" =>
                           IF job.op = "add_batch"
                           THEN \A id \in Ids : now[id] \in {asked[id], job.before[id]}
                           ELSE now = job.before
    BY DEF CallOutcome
  <2>1. /\ JobInOrder("return") /\ ContentsInOrder("return") /\ BatchInOrder("return")
        /\ BeforeInOrder
    <3>1. Here = "return"
      BY <2>0, WriterHere DEF IndInv, WriterPoints
    <3> QED
      BY <2>0, <3>1 DEF IndInv, WriterInOrder, CallInOrder
  <2>2. now = [id \in Ids |-> Vector(state, id)]
    BY <2>0 DEF Contents, Vector
  <2>a. asked = [id \in Ids |-> asked[id]]
    BY <2>0
  <2>3. CASE job.op = "remove"
    <3>1. \A id \in Ids : Vector(state, id) =
            IF outcome = "ok" /\ id = job.ids[1] THEN None ELSE job.before[id]
      BY <2>1, <2>3 DEF ContentsInOrder, Inserts
    <3>2. \A id \in Ids : asked[id] = IF id = job.ids[1] THEN None ELSE job.before[id]
      <4>1. DOMAIN job.vals = {}
        BY <2>1, <2>3 DEF JobInOrder
      <4> QED
        BY <2>0, <2>3, <4>1
    <3>3. outcome = "ok" => now = asked
      BY <2>2, <2>a, <3>1, <3>2
    <3>4. outcome # "ok" => now = job.before
      BY <2>1, <2>2, <3>1 DEF BeforeInOrder
    <3> QED
      BY <2>3, <3>3, <3>4
  <2>4. CASE job.op = "compact"
    <3>1. \A id \in Ids : Vector(state, id) = job.before[id]
      BY <2>1, <2>4 DEF ContentsInOrder, Inserts
    <3>2. \A id \in Ids : asked[id] = job.before[id]
      <4>1. DOMAIN job.vals = {}
        BY <2>1, <2>4 DEF JobInOrder
      <4> QED
        BY <2>0, <2>4, <4>1
    <3>3. now = asked
      BY <2>2, <2>a, <3>1, <3>2
    <3>4. now = job.before
      BY <2>1, <2>2, <3>1 DEF BeforeInOrder
    <3> QED
      BY <2>4, <3>3, <3>4
  <2>5. CASE job.op \in Inserts
    <3>1. IsBatch /\ Dealt <= Len(job.ids) /\ Dealt \in Nat /\ DOMAIN job.vals = 1..Len(job.ids)
      <4>1. IsBatch /\ Dealt <= Len(job.ids) /\ done \in Nat /\ grown \in Seq(Rows \cup {NoRow})
        BY <2>1, <2>5 DEF JobInOrder, BatchInOrder
      <4> QED
        BY <4>1 DEF IsBatch, Dealt
    <3>2. PICK n \in Nat : n = Len(job.ids)
      BY <3>1, CollectionAssumption DEF IsBatch
    <3>3. \A k \in 1..n : job.ids[k] \in Ids /\ asked[job.ids[k]] = job.vals[k]
      <4> SUFFICES ASSUME NEW k \in 1..n PROVE job.ids[k] \in Ids /\ asked[job.ids[k]] = job.vals[k]
        OBVIOUS
      <4>1. job.ids[k] \in Ids /\ \A i \in 1..n : job.ids[i] = job.ids[k] => i = k
        BY <3>1, <3>2 DEF IsBatch
      <4>2. (CHOOSE i \in 1..n : job.ids[i] = job.ids[k]) = k
        BY <4>1
      <4> QED
        BY <2>0, <2>5, <3>1, <3>2, <4>1, <4>2 DEF Inserts
    <3>4. \A id \in Ids : (\A k \in 1..n : job.ids[k] # id) => asked[id] = job.before[id]
      BY <2>0, <2>5, <3>1, <3>2 DEF Inserts
    <3>5. /\ \A id \in Ids : (\A k \in 1..Dealt : job.ids[k] # id) => Vector(state, id) = job.before[id]
          /\ \A k \in 1..Dealt :
                /\ Vector(state, job.ids[k]) \in {job.vals[k], job.before[job.ids[k]]}
                /\ outcome = "ok" => Vector(state, job.ids[k]) = job.vals[k]
          /\ outcome = "ok" => Dealt = Len(job.ids)
          /\ job.op = "add" /\ outcome # "ok" => Dealt = 0
      BY <2>1, <2>5 DEF ContentsInOrder
    <3>6. ASSUME outcome = "ok" PROVE now = asked
      <4>1. Dealt = n
        BY <3>2, <3>5, <3>6
      <4>2. \A id \in Ids : Vector(state, id) = asked[id]
        <5> SUFFICES ASSUME NEW id \in Ids PROVE Vector(state, id) = asked[id]
          OBVIOUS
        <5>1. CASE \A k \in 1..n : job.ids[k] # id
          BY <3>4, <3>5, <4>1, <5>1
        <5>2. CASE \E k \in 1..n : job.ids[k] = id
          BY <3>3, <3>5, <3>6, <4>1, <5>2
        <5> QED
          BY <5>1, <5>2
      <4> QED
        BY <2>2, <2>a, <4>2
    <3>7. ASSUME outcome # "ok", job.op = "add_batch", NEW id \in Ids
          PROVE  now[id] \in {asked[id], job.before[id]}
      <4>1. \A k \in 1..Dealt : k \in 1..n
        BY <3>1, <3>2
      <4>2. Vector(state, id) \in {asked[id], job.before[id]}
        <5>1. CASE \A k \in 1..Dealt : job.ids[k] # id
          BY <3>5, <5>1
        <5>2. CASE \E k \in 1..Dealt : job.ids[k] = id
          BY <3>3, <3>5, <4>1, <5>2
        <5> QED
          BY <5>1, <5>2
      <4> QED
        BY <2>2, <4>2
    <3>8. ASSUME outcome # "ok", job.op = "add" PROVE now = job.before
      <4>1. 1..Dealt = {}
        BY <3>5, <3>8
      <4>2. \A id \in Ids : Vector(state, id) = job.before[id]
        BY <3>5, <4>1
      <4> QED
        BY <2>1, <2>2, <4>2 DEF BeforeInOrder
    <3> QED
      BY <2>5, <3>6, <3>7, <3>8 DEF Inserts
  <2> QED
    BY <2>1, <2>3, <2>4, <2>5 DEF JobInOrder
<1> QED
  BY <1>1, Invariance, PTL
-----------------------------------------------------------------------------
\* The refinement of VectorMap.

VectorsSame == \A id \in Ids : Vector(state', id) = Vector(state, id)

\* One id gets another vector, or loses the one it had.
VectorChanges ==
    \E id \in Ids, v \in Vals \cup {None} :
        /\ Vector(state', id) = v
        /\ v = None => Vector(state, id) # None
        /\ \A i \in Ids \ {id} : Vector(state', i) = Vector(state, i)

\* A step of an insertion that does not commit, a failed one included, leaves
\* every vector as it was.
LEMMA InsertingVectors ==
    ASSUME NEW t \in Threads, NEW a \in InsertingPoints, WriterInOrder(a),
           \/ a = "reserve" /\ ReserveId(t)
           \/ a = "append" /\ AppendVector(t)
           \/ a = "index" /\ IndexRow(t)
    PROVE  VectorsSame
<1>1. RowToInsert
  BY InsertFacts DEF WriterInOrder
<1>2. PICK id, v : id = job.ids[Position] /\ v = job.vals[Position]
  OBVIOUS
<1>3. id \in Ids /\ v \in Vals
  BY <1>1, <1>2 DEF RowToInsert
<1>4. Sound(state, Committed(a)) /\ StateOK(state) /\ state.rows \in Nat
  BY InsertState
<1>5. CASE a = "reserve" /\ ReserveId(t)
  <2>1. state' = state \/ state' = Reserve(state, id)
    BY <1>2, <1>5 DEF ReserveId
  <2>2. CASE state' = Reserve(state, id)
    <3>1. Alike(state, state')
      BY <1>3, <1>4, <2>2, ReserveFields
    <3> QED
      BY <3>1, AlikeVectors DEF VectorsSame
  <2> QED
    BY <2>1, <2>2 DEF VectorsSame
<1>6. CASE a = "append" /\ AppendVector(t)
  <2>1. \/ state.rows < MaxRows /\ state' = AppendRow(state, v)
        \/ state' = Rollback(state, id)
    BY <1>2, <1>6 DEF AppendVector
  <2>2. CASE state.rows < MaxRows /\ state' = AppendRow(state, v)
    <3>1. Sound(state, state.rows)
      BY <1>4, <1>6 DEF Committed
    <3> QED
      BY <1>3, <2>2, <3>1, AppendVectors DEF VectorsSame
  <2>3. CASE state' = Rollback(state, id)
    <3>1. Alike(state, state')
      BY <1>3, <1>4, <2>3, RollbackFields
    <3> QED
      BY <3>1, AlikeVectors DEF VectorsSame
  <2> QED
    BY <2>1, <2>2, <2>3
<1>7. CASE a = "index" /\ IndexRow(t)
  <2>1. \/ state' = state
        \/ state' = [state EXCEPT !.linked = @ \cup {state.rows}]
        \/ state' = Rollback(PopBack(state), id)
    BY <1>2, <1>7 DEF IndexRow
  <2>2. state.rows \in Rows /\ state.rows >= 1 /\ Sound(state, state.rows - 1)
    BY <1>7, InsertState DEF Committed
  <2>3. CASE state' = [state EXCEPT !.linked = @ \cup {state.rows}]
    <3>1. PICK R : R = {state.rows}
      OBVIOUS
    <3>2. R \in SUBSET Rows /\ state' = [state EXCEPT !.linked = @ \cup R]
      BY <2>2, <2>3, <3>1
    <3>3. Alike(state, state')
      BY <1>4, <3>2, LinkedFields
    <3> QED
      BY <3>3, AlikeVectors DEF VectorsSame
  <2>4. CASE state' = Rollback(PopBack(state), id)
    <3>1. PICK s : s = PopBack(state)
      OBVIOUS
    <3>2. StateOK(s)
      BY <1>4, <2>2, <3>1, PopFields
    <3>3. \A i \in Ids : Vector(s, i) = Vector(state, i)
      BY <2>2, <3>1, PopVectors
    <3>4. Alike(s, state')
      BY <1>3, <2>4, <3>1, <3>2, RollbackFields
    <3>5. \A i \in Ids : Vector(state', i) = Vector(s, i)
      BY <3>4, AlikeVectors
    <3> QED
      BY <3>3, <3>5 DEF VectorsSame
  <2> QED
    BY <2>1, <2>3, <2>4 DEF VectorsSame
<1> QED
  BY <1>5, <1>6, <1>7

\* remove() takes one vector away, a commit puts one, and abandon_row puts the
\* replaced vector back or takes the new one away; compaction changes none.
LEMMA WriterVectors ==
    ASSUME LocksOK, NEW t \in Threads, WriterInOrder(Here), WriterStep(t)
    PROVE  VectorsSame \/ VectorChanges
<1>1. ASSUME NEW a \in WriterPoints, pc[t] = a
      PROVE  WriterInOrder(a)
  <2>1. Here = a
    BY <1>1, WriterHere
  <2> QED
    BY <2>1
<1>2. /\ {"remove", "reserve", "append", "index", "commit", "link", "abandon", "swap"}
            \subseteq WriterPoints
      /\ {"reserve", "append", "index"} \subseteq InsertingPoints
  BY DEF WriterPoints, BatchPoints, InsertPoints, SectionPoints, InsertingPoints
<1>3. CASE state' = state
  BY <1>3 DEF VectorsSame
<1>4. CASE RemoveBody(t) /\ state' # state
  <2>1. WriterInOrder("remove")
    BY <1>1, <1>2, <1>4 DEF RemoveBody
  <2>2. job.ids \in Seq(Ids) /\ Len(job.ids) = 1
    BY <2>1 DEF WriterInOrder, CallInOrder, JobInOrder
  <2>3. PICK id \in Ids : id = job.ids[1]
    BY <2>2
  <2>4. state.map[id] # NoRow /\ state' = Erase(state, id)
    BY <1>4, <2>3 DEF RemoveBody
  <2>5. Sound(state, state.rows)
    BY <2>1 DEF WriterInOrder, StoreInOrder, Committed
  <2>6. /\ Sound(state', state'.rows)
        /\ state'.map = [state.map EXCEPT ![id] = NoRow]
        /\ state'.deleted = state.deleted \cup {state.map[id]}
        /\ state'.rows = state.rows /\ state'.vec = state.vec /\ state'.label = state.label
        /\ state'.pending = state.pending
        /\ state'.linked = state.linked /\ state'.stranded = state.stranded
    BY <2>4, <2>5, EraseSound
  <2>7. /\ Vector(state', id) = IF NoRow = NoRow THEN None ELSE state.vec[NoRow]
        /\ \A i \in Ids \ {id} : Vector(state', i) = Vector(state, i)
    <3>1. StateOK(state) /\ NoRow \in Rows \cup {NoRow}
      BY <2>5 DEF Sound
    <3> QED
      BY <2>6, <3>1, MapVectors
  <2>8. Vector(state, id) # None
    BY <2>4, <2>5, SoundVectors
  <2> QED
    BY <2>7, <2>8 DEF VectorChanges
<1>5. CASE ReserveId(t) \/ AppendVector(t) \/ IndexRow(t)
  <2>1. PICK a \in {"reserve", "append", "index"} :
           /\ pc[t] = a
           /\ \/ a = "reserve" /\ ReserveId(t)
              \/ a = "append" /\ AppendVector(t)
              \/ a = "index" /\ IndexRow(t)
    BY <1>5 DEF ReserveId, AppendVector, IndexRow
  <2>2. WriterInOrder(a) /\ a \in InsertingPoints
    BY <1>1, <1>2, <2>1
  <2> QED
    BY <2>1, <2>2, InsertingVectors
<1>6. CASE CommitRow(t)
  <2>1. WriterInOrder("commit")
    BY <1>1, <1>2, <1>6 DEF CommitRow
  <2>2. PICK id, r : id = job.ids[Position] /\ r = state.rows /\ state' = Commit(state, id, r)
    BY <1>6 DEF CommitRow
  <2>3. /\ id \in Ids /\ Vector(state', id) = job.vals[Position]
        /\ \A i \in Ids \ {id} : Vector(state', i) = Vector(state, i)
    BY <2>1, <2>2, CommitState
  <2>4. job.vals[Position] \in Vals
    BY <2>1, InsertFacts DEF WriterInOrder, InsertingPoints, InsertPoints, RowToInsert
  <2> QED
    BY <2>3, <2>4, CollectionAssumption DEF VectorChanges
<1>7. CASE LinkRow(t) \/ ParallelForThrows(t)
  <2>1. pc[t] = "link"
    BY <1>7 DEF LinkRow, ParallelForThrows
  <2>2. Here = "link"
    BY <1>2, <2>1, WriterHere
  <2>3. DOMAIN state = {"rows", "label", "vec", "deleted", "count", "map", "pending",
                        "live", "linked", "stranded"}
    BY DEF WriterInOrder, StoreInOrder, Sound, StateOK
  <2>4. \/ state' = state
        \/ \E R : state' = [state EXCEPT !.linked = @ \cup R]
        \/ \E R : state' = [state EXCEPT !.stranded = @ \cup R]
    BY <1>7 DEF LinkRow, ParallelForThrows
  <2>5. state'.map = state.map /\ state'.vec = state.vec
    BY <2>3, <2>4
  <2> QED
    BY <2>5 DEF VectorsSame, Vector
<1>8. CASE AbandonRow(t)
  <2>1. WriterInOrder("abandon")
    BY <1>1, <1>2, <1>8 DEF AbandonRow
  <2>2. PICK i \in failed : state' = Abandon(state, job.ids[done + i], GrownRow(i), grown[i])
    BY <1>8 DEF AbandonRow
  <2>3. PICK id, p : id = job.ids[done + i] /\ p = grown[i]
    OBVIOUS
  <2>4. SectionFacts("abandon")
    BY <2>1, SectionState
  <2>5. i \in Waiting("abandon") /\ id \in Ids /\ CanAbandon("abandon", i, id)
    BY <2>3, <2>4 DEF SectionFacts
  <2>6. AbandonEffect(i, id, p)
    BY <2>1, <2>2, <2>3, <2>5, AbandonState
  <2>7. Sound(state, state.rows) /\ state.map[id] # NoRow
    <3>1. state.map[id] = Row("abandon", i) /\ Row("abandon", i) >= 1
      BY <2>5 DEF CanAbandon
    <3>2. Row("abandon", i) \in Nat
      BY <2>4, <2>5 DEF SectionFacts
    <3> QED
      BY <2>4, <3>1, <3>2 DEF SectionFacts, NoRow
  <2>8. Vector(state, id) # None
    BY <2>5, <2>7, SoundVectors
  <2>9. Sound(state', state.rows) /\ \A x \in Ids \ {id} : Vector(state', x) = Vector(state, x)
    BY <2>6 DEF AbandonEffect
  <2>10. Vector(state', id) \in Vals \cup {None}
    BY <2>5, <2>9, SoundVectors
  <2> QED
    BY <2>5, <2>8, <2>9, <2>10 DEF VectorChanges
<1>9. CASE Swap(t)
  <2>1. WriterInOrder("swap") /\ state' = rebuilt
    BY <1>1, <1>2, <1>9 DEF Swap
  <2> QED
    BY <2>1, SwapVectors DEF VectorsSame
<1> QED
  BY <1>3, <1>4, <1>5, <1>6, <1>7, <1>8, <1>9 DEF WriterStep, CheckBatch, BeginSlice, BeginSection,
     BeginGrow, BeginLink, EndLink, BeginAbandon, EndSection, BeginCompact, RebuildRow, RebuildThrows,
     EndRebuild, Return

\* get() and search() answer what the collection holds for an id: they read
\* under the shared lock, where neither the id map nor the rows can move.
LEMMA AnswersAgree ==
    ASSUME IndInv, NEW t \in Threads, ReadingStep(t)
    PROVE  \/ got' = got
           \/ got' = [got EXCEPT ![t] = None] /\ file' = file
           \/ \E id \in Ids : got' = [got EXCEPT ![t] = <<id, Contents(state)[id]>>] /\ file' = file
<1>1. LocksOK /\ WriterInOrder(Here) /\ ReadInOrder(pc[t], local[t])
  BY DEF IndInv, ReadersInOrder
<1>2. CASE ReturnGet(t)
  <2>1. pc[t] = "get"
    BY <1>2 DEF ReturnGet
  <2>2. PICK id \in Ids : local[t] = <<id, state.map[id]>>
    BY <1>1, <2>1 DEF ReadInOrder
  <2>3. local[t][1] = id /\ local[t][2] = state.map[id]
    BY <2>2
  <2>4. got' = [got EXCEPT ![t] = <<id, IF state.map[id] = NoRow THEN None ELSE state.vec[state.map[id]]>>]
    BY <1>2, <2>3 DEF ReturnGet
  <2>5. Contents(state)[id] = IF state.map[id] = NoRow THEN None ELSE state.vec[state.map[id]]
    BY DEF Contents
  <2> QED
    BY <1>2, <2>4, <2>5 DEF ReturnGet
<1>3. CASE ReturnSearch(t)
  <2>1. pc[t] = "found" /\ t \in shared
    BY <1>1, <1>3 DEF ReturnSearch, LocksOK, LocksInOrder, SharedPoints
  <2>2. PICK r \in (1..state.rows) \ state.deleted : local[t] = <<r, state.vec[r]>>
    BY <1>1, <2>1 DEF ReadInOrder
  <2>3. local[t][1] = r /\ local[t][2] = state.vec[r]
    BY <2>2
  <2>4. Sound(state, state.rows)
    BY <1>1, <2>1, ReaderCommitted
  <2>5. state.label[r] \in Ids /\ state.map[state.label[r]] = r /\ r # NoRow
    BY <2>2, <2>4 DEF Sound, NoRow, StateOK
  <2>6. Contents(state)[state.label[r]] = state.vec[r]
    BY <2>5 DEF Contents
  <2>7. got' = [got EXCEPT ![t] = <<state.label[r], state.vec[r]>>]
    BY <1>3, <2>3 DEF ReturnSearch
  <2> QED
    BY <1>3, <2>5, <2>6, <2>7 DEF ReturnSearch
<1>4. CASE UseAnswer(t)
  BY <1>4 DEF UseAnswer
<1> QED
  BY <1>2, <1>3, <1>4 DEF ReadingStep, ReaderStep, Get, Search, Save, SearchVisits, SearchFindsNothing,
     WriteRows, WriteGraph, reading

\* A Collection implements a map from ids to vectors: every answer of get() and
\* search() and every file of save() agrees with the contents at one moment,
\* mutations take effect row by row, load() brings back what was saved, and
\* compaction, abandoned rows and failed calls are not visible otherwise.
THEOREM Refinement == Spec => ImplementsVectorMap
<1>1. Init => Map!Init
  <2> SUFFICES ASSUME Init PROVE Map!Init
    OBVIOUS
  <2>1. Contents(state) = [id \in Ids |-> None]
    BY DEF Init, EmptyState, Contents
  <2> QED
    BY <2>1 DEF Init, Map!Init
<1>2. IndInv /\ [Next]_vars => [Map!Next]_Map!vars
  <2> SUFFICES ASSUME IndInv, [Next]_vars PROVE [Map!Next]_Map!vars
    OBVIOUS
  <2>0. LocksOK /\ WriterInOrder(Here) /\ ReadersInOrder /\ FileInOrder
    BY DEF IndInv
  <2>1. VectorsSame => Contents(state') = Contents(state)
    BY DEF VectorsSame, Contents, Vector
  <2>2. ASSUME UNCHANGED <<got, file>>, Contents(state') = Contents(state) PROVE UNCHANGED Map!vars
    BY <2>2 DEF Map!vars
  <2>3. ASSUME NEW t \in Threads, WriterStep(t) PROVE [Map!Next]_Map!vars
    <3>1. UNCHANGED <<got, file>> /\ (VectorsSame \/ VectorChanges)
      BY <2>0, <2>3, WriterReads, WriterVectors
    <3>2. CASE VectorChanges
      <4>1. PICK id \in Ids, v \in Vals \cup {None} :
              /\ Vector(state', id) = v
              /\ v = None => Vector(state, id) # None
              /\ \A i \in Ids \ {id} : Vector(state', i) = Vector(state, i)
        BY <3>2 DEF VectorChanges
      <4>2. Contents(state') = [Contents(state) EXCEPT ![id] = v]
        <5>1. /\ Contents(state') = [i \in Ids |-> Vector(state', i)]
              /\ Contents(state) = [i \in Ids |-> Vector(state, i)]
          BY DEF Contents, Vector
        <5> QED
          BY <4>1, <5>1
      <4>3. Contents(state)[id] = Vector(state, id)
        BY DEF Contents, Vector
      <4>4. CASE v = None
        <5>1. Map!Drop(id)
          BY <3>1, <4>1, <4>2, <4>3, <4>4 DEF Map!Drop
        <5> QED
          BY <5>1 DEF Map!Next
      <4>5. CASE v # None
        <5>1. v \in Vals /\ Map!Put(id, v)
          BY <3>1, <4>2, <4>5 DEF Map!Put
        <5> QED
          BY <5>1 DEF Map!Next
      <4> QED
        BY <4>4, <4>5
    <3> QED
      BY <2>1, <2>2, <3>1, <3>2
  <2>4. ASSUME NEW t \in Threads, Add(t) \/ AddBatch(t) \/ Remove(t) \/ Compact(t)
        PROVE  UNCHANGED Map!vars
    <3>1. UNCHANGED <<state, got, file>>
      BY <2>4 DEF Add, AddBatch, Remove, Compact, Begin, reading
    <3> QED
      BY <2>2, <3>1
  <2>5. ASSUME NEW t \in Threads, ReadingStep(t) PROVE [Map!Next]_Map!vars
    <3>1. state' = state
      BY <2>0, <2>5, ReadingLocks DEF CallSame
    <3>2. CASE file' = file
      <4>1. \/ got' = got
            \/ got' = [got EXCEPT ![t] = None]
            \/ \E id \in Ids : got' = [got EXCEPT ![t] = <<id, Contents(state)[id]>>]
        BY <2>5, AnswersAgree
      <4>2. CASE got' = got
        BY <2>2, <3>1, <3>2, <4>2
      <4>3. CASE got' = [got EXCEPT ![t] = None]
        <5>1. Map!Forget(t)
          BY <3>1, <3>2, <4>3 DEF Map!Forget
        <5> QED
          BY <5>1 DEF Map!Next
      <4>4. CASE \E id \in Ids : got' = [got EXCEPT ![t] = <<id, Contents(state)[id]>>]
        <5>1. PICK id \in Ids : got' = [got EXCEPT ![t] = <<id, Contents(state)[id]>>]
          BY <4>4
        <5>2. Map!Answer(t, id)
          BY <3>1, <3>2, <5>1 DEF Map!Answer
        <5> QED
          BY <5>2 DEF Map!Next
      <4> QED
        BY <4>1, <4>2, <4>3, <4>4
    <3>3. CASE file' # file
      <4>1. file' # None /\ Loaded(file').map = state.map /\ Loaded(file').vec = state.vec
        BY <2>0, <2>5, <3>3, FileWritten DEF FileEffect
      <4>2. Contents(Loaded(file')) = Contents(state)
        BY <4>1 DEF Contents
      <4>3. got' = got
        BY <2>5, <3>3, AnswersAgree
      <4>4. Map!Save
        BY <3>1, <4>1, <4>2, <4>3 DEF Map!Save
      <4> QED
        BY <4>4 DEF Map!Next
    <3> QED
      BY <3>2, <3>3
  <2>6. CASE Load
    <3>1. /\ file # None /\ file' = file /\ state' = Loaded(file)
          /\ got' = [t \in Threads |-> None]
      BY <2>6 DEF Load
    <3>2. Contents(Loaded(file)) # None
      <4>1. PICK x : x = Loaded(file)
        OBVIOUS
      <4>2. Sound(x, file.rows)
        BY <2>0, <3>1, <4>1 DEF FileInOrder
      <4>3. \A id \in Ids : Vector(x, id) \in Vals \cup {None}
        BY <4>2, SoundVectors
      <4>4. Contents(x) \in [Ids -> Vals \cup {None}]
        BY <4>3 DEF Contents, Vector
      <4> QED
        BY <4>1, <4>4, NoneAssumption
    <3>3. Map!Load
      BY <3>1, <3>2 DEF Map!Load
    <3> QED
      BY <3>3 DEF Map!Next
  <2>7. CASE UNCHANGED vars
    <3>1. UNCHANGED <<state, got, file>>
      BY <2>7 DEF vars, reading
    <3> QED
      BY <2>2, <3>1
  <2> QED
    BY <2>3, <2>4, <2>5, <2>6, <2>7 DEF Next, Call, ReadingStep
<1> QED
  BY <1>1, <1>2, Invariance, PTL DEF Spec, ImplementsVectorMap, Map!Spec
=============================================================================

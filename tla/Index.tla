------------------------------- MODULE Index -------------------------------
(***************************************************************************)
(* The data of one collection, used by one caller at a time: rows in a     *)
(* VectorStore, labels and tombstones, the graph or the flat scan over     *)
(* them, and the index file that save() leaves and load() reads.  Module   *)
(* Collection is about the locks around these operations and about         *)
(* concurrent callers; here an operation is one step.                      *)
(*                                                                         *)
(* LevelGenerator computes a row's level from the seed and the row number: *)
(* any level may come out, and it comes out again when compact() uses the  *)
(* number again, so levels remembers those drawn so far.                   *)
(***************************************************************************)
EXTENDS VectorStore, Search, IndexFile

CONSTANTS
    Ids, Vals,      \* external ids and vectors (of one component)
    Configs,        \* the [metric, normalize, index] a collection may have
    MaxLevel,       \* HnswParams::max_level
    Queries, Ks, Efs,  \* the searches the properties look at
    MaxFailures,    \* bound: inserts that run out of memory
    MaxRestarts,    \* bound: times the file is loaded
    DamageRows      \* bound: changes to a file are looked at up to this many rows

ASSUME IndexAssumption ==
    /\ 0 \notin Vals \cup Queries \cup Ids
    /\ kMinM <= M

VARIABLES
    config,    \* CollectionConfig, and the seed and creator
    levels,    \* LevelGenerator::level_for, of the row numbers used so far
    col,       \* CollectionState: store, labels, the id map, tombstones, graph
    disk,      \* the file save() left and nobody has loaded yet, or NoFile
    session,   \* "live", or "saved" between save() and load()
    failures, restarts,
    raw,       \* ghost: the vector every row was inserted with
    unjoined,  \* ghost: rows whose link() did not happen
    image      \* ghost: the contents disk was written from

ghosts == <<raw, unjoined, image>>
vars == <<config, levels, col, disk, session, failures, restarts, raw, unjoined, image>>

NoFile == [size |-> 0]
NoRow == 0

\* normalize_inplace of the vectors of a normalised collection.
Prepared(v) == IF IsNormalized(config) THEN Unit(v) ELSE v

Mode == ScoreMode(config.metric, IsNormalized(config))

\* node_distance between stored rows: inv_norm is 1 and rows are unit vectors.
RowDistances(store) ==
    [p \in (1..store.size) \X (1..store.size) |->
        QueryDistance(Mode, StoreRow(store, p[1]), StoreRow(store, p[2]))]

EmptyCollection ==
    [store |-> NewStore, labels |-> <<>>, ids |-> [id \in Ids |-> NoRow],
     dead |-> {}, graph |-> EmptyGraph]

Init ==
    /\ \E c \in Configs :
          config = [metric |-> c.metric, normalize |-> c.normalize, index |-> c.index,
                    m |-> M, ef_construction |-> EfConstruction, ef_search |-> EfSearch,
                    max_level |-> MaxLevel, seed |-> "seed", creator |-> 17]
    /\ levels = <<>>
    /\ col = EmptyCollection
    /\ disk = NoFile
    /\ session = "live"
    /\ failures = 0 /\ restarts = 0
    /\ raw = <<>> /\ unjoined = {} /\ image = NoFile
-----------------------------------------------------------------------------
\* What level_for may answer for rows up to n.
Draws(n) ==
    {lv \in [1..LargerOf(n, Len(levels)) -> IF config.index = "Hnsw" THEN 0..MaxLevel ELSE {0}] :
        \A r \in DOMAIN levels : lv[r] = levels[r]}

\* insert_reserved with reserve_node: the row, its node, its id and the
\* tombstone of the row it replaces.
Grown(c, lv, id, v) ==
    LET row == c.store.size + 1 IN
    [c EXCEPT !.store = StoreAppend(@, v),
              !.labels = Append(@, id),
              !.ids[id] = row,
              !.dead = IF c.ids[id] = NoRow THEN @ ELSE @ \cup {c.ids[id]},
              !.graph = IF config.index = "Hnsw" THEN AddNode(@, lv[row]) ELSE @]

Linked(c, row) ==
    IF config.index = "Hnsw"
    THEN [c EXCEPT !.graph = LinkNode(@, RowDistances(c.store), row)]
    ELSE c

Inserted(c, lv, id, v) == Linked(Grown(c, lv, id, v), c.store.size + 1)

\* abandon_row: the row dies, the replaced one lives again.
Abandoned(c, id, previous) ==
    [c EXCEPT !.ids[id] = previous,
              !.dead = (@ \cup {c.store.size}) \ {previous}]

\* add() with upsert, and add_batch() of one row.
Add(id, v) ==
    /\ session = "live"
    /\ MayAppend(col.store)
    /\ levels' \in Draws(col.store.size + 1)
    /\ col' = Inserted(col, levels', id, Prepared(v))
    /\ raw' = Append(raw, v)
    /\ UNCHANGED <<config, disk, session, failures, restarts, unjoined, image>>

\* insert_reserved whose backend->add() or reserve_node() fails before the graph has
\* changed: the appended row is popped, its chunk and what was written stay.  One
\* vector stands for all (bound).
AddUndone(v) ==
    /\ session = "live"
    /\ failures < MaxFailures
    /\ config.index = "Hnsw"
    /\ MayAppend(col.store)
    /\ col' = [col EXCEPT !.store = StorePopBack(StoreAppend(@, Prepared(v)))]
    /\ failures' = failures + 1
    /\ UNCHANGED <<config, levels, disk, session, restarts, ghosts>>

\* add_batch_concurrent of one row whose link() throws std::bad_alloc in
\* find_neighbors, which a node that becomes the first entry never calls.  No
\* search sees the row, so one vector stands for all (bound).
LinkFails(id, v) ==
    /\ session = "live"
    /\ failures < MaxFailures
    /\ config.index = "Hnsw"
    /\ MayAppend(col.store)
    /\ col.graph.entry # NoNode
    /\ levels' \in Draws(col.store.size + 1)
    /\ col' = Abandoned(Grown(col, levels', id, Prepared(v)), id, col.ids[id])
    /\ raw' = Append(raw, v)
    /\ unjoined' = unjoined \cup {col.store.size + 1}
    /\ failures' = failures + 1
    /\ UNCHANGED <<config, disk, session, restarts, image>>

\* The same of two rows, with a pool whose parallel_for throws before it starts
\* a chunk: the rows stay, unlinked.  Their vectors are the same (bound).
BatchStranded(id, id2, v) ==
    /\ session = "live"
    /\ failures < MaxFailures
    /\ config.index = "Hnsw"
    /\ id # id2
    /\ col.store.size + 2 <= MaxRows
    /\ levels' \in Draws(col.store.size + 2)
    /\ col' = Grown(Grown(col, levels', id, Prepared(v)), levels', id2, Prepared(v))
    /\ raw' = raw \o <<v, v>>
    /\ unjoined' = unjoined \cup {col.store.size + 1, col.store.size + 2}
    /\ failures' = failures + 1
    /\ UNCHANGED <<config, disk, session, restarts, image>>

Remove(id) ==
    /\ session = "live"
    /\ col.ids[id] # NoRow
    /\ col' = [col EXCEPT !.ids[id] = NoRow, !.dead = @ \cup {col.ids[id]}]
    /\ UNCHANGED <<config, levels, disk, session, failures, restarts, ghosts>>

\* compact(): the live rows are inserted again, in order, into an empty state.
RECURSIVE Rebuilt(_, _)
Rebuilt(c, row) ==
    IF row > col.store.size THEN c
    ELSE Rebuilt(IF row \in col.dead THEN c
                 ELSE Inserted(c, levels, col.labels[row], StoreRow(col.store, row)),
                 row + 1)

Live == (1..col.store.size) \ col.dead

RECURSIVE Kept(_)
Kept(row) ==
    IF row > col.store.size THEN <<>>
    ELSE (IF row \in col.dead THEN <<>> ELSE <<raw[row]>>) \o Kept(row + 1)

Compact ==
    /\ session = "live"
    /\ col.dead # {}
    /\ LET reserved == [EmptyCollection EXCEPT
                          !.store = StoreReserve(NewStore, Cardinality(Live))]
       IN  col' = Rebuilt(reserved, 1)
    /\ raw' = Kept(1)
    /\ unjoined' = {}
    /\ UNCHANGED <<config, levels, disk, session, failures, restarts, image>>

\* What save() writes: the store scanned chunk by chunk, IdMap's labels and size.
Snapshot(c) ==
    [config |-> config, rows |-> StoreScan(c.store), labels |-> c.labels,
     dead |-> c.dead, live |-> Cardinality({id \in Ids : c.ids[id] # NoRow}),
     graph |-> c.graph]

\* What the caller means to have saved.
Meant == [config |-> config, rows |-> [r \in DOMAIN raw |-> Prepared(raw[r])],
          labels |-> col.labels, dead |-> col.dead, graph |-> col.graph,
          raw |-> raw, unjoined |-> unjoined]

\* save() through write_atomic: the file is complete before it is renamed; an
\* error may come before the rename, or after it from the directory's sync.  The
\* caller then closes the collection (bound).
Save(renamed) ==
    /\ session = "live"
    /\ restarts < MaxRestarts
    /\ LET written == WriteIndex(Snapshot(col)) IN
       IF renamed /\ written.ok
       THEN /\ disk' = written.file /\ image' = Meant /\ session' = "saved"
            /\ col' = EmptyCollection /\ raw' = <<>> /\ unjoined' = {}
       ELSE UNCHANGED <<disk, image, session, col, raw, unjoined>>
    /\ UNCHANGED <<config, levels, failures, restarts>>

\* load(): the rows stay in the mapping, or are copied into a reserved store.
\* What is saved afterwards goes to another file.
Load(verify, useMmap) ==
    /\ session = "saved"
    /\ restarts < MaxRestarts
    /\ LET r == ReadIndex(disk, Resolved(verify, useMmap), useMmap) IN
       /\ r.status = "Ok"
       /\ config' = r.config
       /\ col' = [store  |-> IF useMmap THEN StoreMapped(r.rows)
                             ELSE StoreAppendAll(StoreReserve(NewStore, Len(r.rows)), r.rows),
                  labels |-> r.labels,
                  ids    |-> [id \in Ids |->
                                LET rows == {x \in DOMAIN r.labels \ r.dead : r.labels[x] = id}
                                IN  IF rows = {} THEN NoRow ELSE CHOOSE x \in rows : TRUE],
                  dead   |-> r.dead,
                  graph  |-> r.graph]
    /\ session' = "live"
    /\ restarts' = restarts + 1
    /\ raw' = image.raw
    /\ unjoined' = image.unjoined
    /\ disk' = NoFile /\ image' = NoFile
    /\ UNCHANGED <<levels, failures>>

Next ==
    \/ \E id \in Ids, v \in Vals : Add(id, v)
    \/ AddUndone(CHOOSE v \in Vals : TRUE)
    \/ \E id \in Ids : LinkFails(id, CHOOSE v \in Vals : TRUE)
    \/ \E id, id2 \in Ids, v \in Vals : BatchStranded(id, id2, v)
    \/ \E id \in Ids : Remove(id)
    \/ Compact
    \/ \E renamed \in BOOLEAN : Save(renamed)
    \/ \E useMmap \in BOOLEAN : Load("Auto", useMmap)

Spec == Init /\ [][Next]_vars
-----------------------------------------------------------------------------
\* Every row reads back as it was inserted, by number and in a scan, also when
\* the first chunks are in a mapped file and later ones on the heap.
RowsAreKept ==
    session = "live" =>
        /\ col.store.size = Len(raw) /\ Len(col.labels) = Len(raw)
        /\ \A r \in 1..Len(raw) : StoreRow(col.store, r) = Prepared(raw[r])
        /\ StoreScan(col.store) = [r \in DOMAIN raw |-> Prepared(raw[r])]

\* The graph that adding vector v next would leave, with the levels lv.
GraphAfter(lv, v) == Inserted(col, lv, CHOOSE id \in Ids : TRUE, Prepared(v)).graph

HasFullList(g) ==
    \E n \in 1..NodeCount(g) : \E l \in 0..g.level[n] : ~HasFreeSlot(g, n, l)

\* A row that was never linked lies above the level of the entry point, or there is no
\* entry point: a row LinkFails abandoned, or one of a BatchStranded.
Overtopped(g, rows) == \E r \in rows : g.entry = NoNode \/ g.level[r] > g.top

\* HnswValidator::check_invariants holds after every operation, unless an unlinked row
\* lies above the entry point, and also after one row more than MaxRows where a list
\* is full, so that linking it calls shrink_with.
GraphIsValid ==
    ~Overtopped(col.graph, unjoined) =>
        /\ CheckInvariants(col.graph, MaxLevel)
        /\ HasFullList(col.graph) =>
              \A lv \in Draws(col.store.size + 1), v \in Vals :
                  CheckInvariants(GraphAfter(lv, v), MaxLevel)

\* The distance between the vectors as they were given.
TrueDistance(q, v) ==
    LET a == IF IsNormalized(config) THEN Unit(q) ELSE q
        b == IF IsNormalized(config) THEN Unit(v) ELSE v
    IN  CASE config.metric = "L2" -> (a - b) * (a - b)
          [] config.metric = "InnerProduct" -> -(a * b)
          [] config.metric = "Cosine" -> 1 - a * b

\* The rows connected on level 0 to a node, along links.
RECURSIVE Reach(_)
Reach(rows) ==
    LET next == rows \cup UNION {{col.graph.links[r][0][i] :
                                     i \in 1..Len(col.graph.links[r][0])} : r \in rows}
    IN  IF next = rows THEN rows ELSE Reach(next)

\* The rows a search that starts at node n can see.
InSight(n) == IF config.index = "Flat" THEN 1..col.store.size ELSE Reach({n})

Better(q, a, b) ==
    LET da == TrueDistance(q, raw[a])
        db == TrueDistance(q, raw[b])
    IN  da < db \/ (da = db /\ a < b)

\* search(): knobs_for clamps k; the results are in order, without repetition,
\* live and with their distances, and as many as there are live rows in sight;
\* with a beam of all rows they are the k nearest.
AnswerIsRight(q, k, ef, n, answer) ==
    LET sight == InSight(n)
        live  == sight \ col.dead
        ids   == IdsOf(answer)
        exact == config.index = "Flat" \/ ef >= Cardinality(sight)
    IN  /\ \A i \in DOMAIN answer :
              /\ answer[i].id \in live
              /\ answer[i].distance = TrueDistance(q, raw[answer[i].id])
              /\ \A j \in DOMAIN answer : i < j => Better(q, ids[i], ids[j])
        /\ Len(answer) = SmallerOf(k, Cardinality(live))
        /\ exact => \A i \in DOMAIN ids, r \in live \ {ids[j] : j \in DOMAIN ids} :
                        Better(q, ids[i], r)

\* A search with the given parameters, as run_query runs it.
Answer(q, k, ef) ==
    LET rows == StoreScan(col.store)
        dist == [r \in DOMAIN rows |-> QueryDistance(Mode, q, rows[r])]
    IN  IF config.index = "Flat" THEN FlatSearch(dist, k, col.dead)
        ELSE HnswSearch(col.graph, dist, k, ef, col.dead)

\* Every search of a joined graph or a flat index answers correctly: tombstoned
\* rows neither appear in the results nor crowd live rows out of them.
SearchesAreExact ==
    session = "live" /\ col.store.size > 0 =>
        \A q \in Queries, k \in Ks, ef \in Efs :
            LET clamped == SmallerOf(k, LargerOf(col.store.size, 1))
                answer  == Answer(q, clamped, ef)
            IN  IF config.index = "Hnsw" /\ col.graph.entry = NoNode THEN answer = <<>>
                ELSE \E n \in 1..col.store.size : AnswerIsRight(q, clamped, ef, n, answer)

Reads == {"None", "Metadata", "Full"} \X BOOLEAN

\* What a load rebuilds is what was in memory, by every way to read it.
Same(r, i) ==
    /\ r.status = "Ok"
    /\ r.config = i.config /\ r.rows = i.rows /\ r.labels = i.labels
    /\ r.dead = i.dead /\ r.graph = i.graph

\* A saved file loads, with any verification, mapped or copied, and gives back
\* the collection, rows whose link() failed included, unless such a row lies above
\* the entry point (hnsw_io.cpp:140-143 refuses that file).
SavesRoundTrip ==
    session = "saved" /\ ~Overtopped(image.graph, image.unjoined) =>
        \A read \in Reads : Same(ReadIndex(disk, read[1], read[2]), image)

\* The same without the exception (collection.hpp: load() "Opens an index file
\* written by save()").
SavedFilesLoad ==
    session = "saved" => ReadIndex(disk, "Full", FALSE).status = "Ok"
=============================================================================

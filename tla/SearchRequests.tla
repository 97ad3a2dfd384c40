--------------------------- MODULE SearchRequests ---------------------------
(***************************************************************************)
(* Requests as the server's threads serve them: a body is decoded          *)
(* (RequestCodec) and an accepted search runs on a context leased from the *)
(* backend's ContextPool (search/context_pool.hpp).  A context keeps the   *)
(* VisitedSet (search/visited_set.hpp), whose marks are told apart by an   *)
(* epoch that wraps, and the storage of the result heap                    *)
(* (search/search_context.hpp).                                            *)
(*                                                                         *)
(* A search holds the collection's lock shared, so rows are added only     *)
(* while none runs.  Allocation can fail wherever the code allocates.      *)
(***************************************************************************)
EXTENDS ConfigFile

CONSTANTS
    Threads,
    None,
    Contexts,     \* addresses a SearchContext can have
    EpochMax,     \* the largest epoch: 2^16 - 1
    DefaultEf,    \* HnswParams::ef_search
    MaxRows,      \* bound: rows of the collection
    Dim,          \* its dimension
    Json,         \* bound: the JSON values a client sends, and those inside them
    Bodies,       \* bound: the request bodies, [route, text, doc]
    SearchBodies  \* those that come again and again, from any thread

ASSUME RequestsAssumption ==
    /\ EpochMax \in Nat \ {0} /\ DefaultEf \in Nat \ {0} /\ MaxRows \in Nat
    /\ None \notin Threads \cup Contexts

\* What nlohmann::json makes of texts: values of these kinds, and those inside them.
IsJson(values) == \A v \in values :
    CASE v[1] = "null" -> TRUE
      [] v[1] = "bool" -> v[2] \in BOOLEAN
      [] v[1] = "uint" -> v[2] \in Nat
      [] v[1] \in {"negative", "float"} -> v[2] \in Int
      [] v[1] = "string" -> v[2] \in STRING
      [] v[1] = "array" -> v[2] \in Seq(values)
      [] v[1] = "object" -> \A key \in DOMAIN v[2] : v[2][key] \in values
      [] OTHER -> FALSE

\* A bulk body is bytes: [magic, dim, count, size, ids].
IsBulk(doc) ==
    /\ doc.magic \in BOOLEAN /\ {doc.dim, doc.count, doc.size} \subseteq Nat
    /\ doc.ids \in Seq(Nat) /\ Len(doc.ids) = doc.count

AreBodies(bodies, values) == \A body \in bodies :
    \/ body.route = "bulk" /\ IsBulk(body.doc)
    \/ body.route \in {"create", "insert", "search", "batch"} /\ body.doc \in values

ASSUME BodiesAssumption ==
    /\ Dim \in Nat
    /\ IsJson(Json)
    /\ AreBodies(Bodies \cup SearchBodies, Json)
    /\ \A body \in SearchBodies : body.route \in {"search", "batch"}

VARIABLES
    pc,         \* where each thread is in its search
    beam,       \* max(ef, min(k, rows)) of its search
    lease,      \* the context it holds, or None
    free,       \* ContextPool::free_
    capacity,   \* free_.capacity()
    created,    \* ContextPool::created_
    context,    \* per address: [marks, epoch, results]
    rows,       \* rows of the collection
    seen,       \* ghost: the rows a search has visited
    answered    \* the last request decoded and its answer

pool == <<free, capacity, created>>
vars == <<pc, beam, lease, pool, context, rows, seen, answered>>

NoRequest == [route |-> "none", answer |-> Refused(0)]
NewContext == [marks |-> <<>>, epoch |-> 1, results |-> 0]

Init ==
    /\ pc = [t \in Threads |-> "idle"]
    /\ beam = [t \in Threads |-> 0]
    /\ lease = [t \in Threads |-> None]
    /\ free = <<>> /\ capacity = 0 /\ created = 0
    /\ context = [c \in Contexts |-> NewContext]
    /\ rows = 0
    /\ seen = [t \in Threads |-> {}]
    /\ answered = NoRequest

Decode(body) ==
    CASE body.route = "create" -> DecodeCreate(body.text, body.doc)
      [] body.route = "insert" -> DecodeInsert(body.text, body.doc, Dim)
      [] body.route = "bulk" -> DecodeBulk(body.doc, Dim)
      [] body.route = "search" -> DecodeSearch(body.text, body.doc, Dim, FALSE)
      [] body.route = "batch" -> DecodeSearch(body.text, body.doc, Dim, TRUE)

\* A decoder keeps no state, so every body is decoded once, in a fresh server
\* (bound): what comes out is in `answered`.
Receive(body) ==
    /\ answered = NoRequest /\ created = 0 /\ rows = 0
    /\ \A t \in Threads : pc[t] = "idle"
    /\ answered' = [route |-> body.route, body |-> body, answer |-> Decode(body)]
    /\ UNCHANGED <<pc, beam, lease, pool, context, rows, seen>>

\* An accepted search: knobs_for, then search_with's beam.
Start(t, body) ==
    /\ answered = NoRequest
    /\ pc[t] = "idle"
    /\ rows > 0
    /\ LET answer == Decode(body)
           k      == IF answer.value.k < rows THEN answer.value.k ELSE rows
           ef     == IF answer.value.ef_search # 0 THEN answer.value.ef_search ELSE DefaultEf
       IN  /\ answer.status = 200
           /\ beam' = [beam EXCEPT ![t] = IF ef < k THEN k ELSE ef]
    /\ pc' = [pc EXCEPT ![t] = "acquire"]
    /\ UNCHANGED <<lease, pool, context, rows, seen, answered>>

\* acquire(): an idle context, under the pool's mutex.
AcquireFree(t) ==
    /\ pc[t] = "acquire"
    /\ free # <<>>
    /\ lease' = [lease EXCEPT ![t] = free[Len(free)]]
    /\ free' = SubSeq(free, 1, Len(free) - 1)
    /\ pc' = [pc EXCEPT ![t] = "prepare"]
    /\ UNCHANGED <<beam, capacity, created, context, rows, seen, answered>>

\* Otherwise a new one is made with the mutex released, so another thread may
\* give a context back meanwhile.
InUse == {lease[t] : t \in Threads} \cup {free[i] : i \in DOMAIN free}

AcquireNew(t) ==
    /\ pc[t] = "acquire"
    /\ free = <<>>
    /\ \E c \in Contexts \ InUse :
          /\ lease' = [lease EXCEPT ![t] = c]
          /\ context' = [context EXCEPT ![c] = NewContext]
    /\ pc' = [pc EXCEPT ![t] = "register"]
    /\ UNCHANGED <<beam, pool, rows, seen, answered>>

\* Mutant of Register: the capacity is made for the contexts that were there.
MutRegisterShort(t) ==
    /\ pc[t] = "register"
    /\ capacity' = IF created > capacity THEN created ELSE capacity
    /\ created' = created + 1
    /\ pc' = [pc EXCEPT ![t] = "prepare"]
    /\ UNCHANGED <<beam, lease, free, context, rows, seen, answered>>

\* reserve(created_ + 1), then the count.
Register(t) ==
    /\ pc[t] = "register"
    /\ capacity' = IF created + 1 > capacity THEN created + 1 ELSE capacity
    /\ created' = created + 1
    /\ pc' = [pc EXCEPT ![t] = "prepare"]
    /\ UNCHANGED <<beam, lease, free, context, rows, seen, answered>>

\* make_unique or reserve throws: the context, if any, is destroyed.
AcquireFails(t) ==
    /\ \/ pc[t] = "acquire" /\ free = <<>>
       \/ pc[t] = "register"
    /\ lease' = [lease EXCEPT ![t] = None]
    /\ pc' = [pc EXCEPT ![t] = "idle"]
    /\ UNCHANGED <<beam, pool, context, rows, seen, answered>>

\* ensure_capacity and reset.
Grown(marks, n) == [i \in 1..(IF n > Len(marks) THEN n ELSE Len(marks)) |->
                       IF i <= Len(marks) THEN marks[i] ELSE 0]

\* Mutant of Reset: the epoch wraps and the old marks stay.
MutResetKeepsMarks(c) ==
    IF c.epoch = EpochMax THEN [c EXCEPT !.epoch = 1] ELSE [c EXCEPT !.epoch = @ + 1]

Reset(c) ==
    IF c.epoch = EpochMax
    THEN [c EXCEPT !.marks = [i \in DOMAIN c.marks |-> 0], !.epoch = 1]
    ELSE [c EXCEPT !.epoch = @ + 1]

\* prepare(nodes, ef), and the reset at the start of search_layer.
Prepare(t) ==
    /\ pc[t] = "prepare"
    /\ LET c == context[lease[t]]
           p == [marks |-> Grown(c.marks, rows), epoch |-> c.epoch,
                 results |-> IF c.results < beam[t] THEN beam[t] ELSE c.results]
       IN  context' = [context EXCEPT ![lease[t]] = Reset(p)]
    /\ pc' = [pc EXCEPT ![t] = "search"]
    /\ UNCHANGED <<beam, lease, pool, rows, seen, answered>>

\* Either allocation of prepare throws; the lease's destructor still runs.
PrepareFails(t) ==
    /\ pc[t] = "prepare"
    /\ \E visitedGrew \in BOOLEAN :
          context' = IF visitedGrew
                     THEN [context EXCEPT ![lease[t]].marks = Grown(@, rows)] ELSE context
    /\ pc' = [pc EXCEPT ![t] = "release"]
    /\ UNCHANGED <<beam, lease, pool, rows, seen, answered>>

\* visit(id) of a row that the search meets; a row may be met again.
Visit(t, id) ==
    /\ pc[t] = "search"
    /\ context' = [context EXCEPT ![lease[t]].marks[id] = context[lease[t]].epoch]
    /\ seen' = [seen EXCEPT ![t] = @ \cup {id}]
    /\ UNCHANGED <<pc, beam, lease, pool, rows, answered>>

\* The candidate heap cannot grow, or the search is done.
Finish(t) ==
    /\ pc[t] = "search"
    /\ pc' = [pc EXCEPT ![t] = "release"]
    /\ UNCHANGED <<beam, lease, pool, context, rows, seen, answered>>

\* release(), from the lease's destructor: push_back must not allocate.
Release(t) ==
    /\ pc[t] = "release"
    /\ free' = Append(free, lease[t])
    /\ lease' = [lease EXCEPT ![t] = None]
    /\ seen' = [seen EXCEPT ![t] = {}]
    /\ pc' = [pc EXCEPT ![t] = "idle"]
    /\ beam' = [beam EXCEPT ![t] = 0]
    /\ UNCHANGED <<capacity, created, context, rows, answered>>

\* A writer adds a row, with the lock held exclusively.
AddRow ==
    /\ \A t \in Threads : pc[t] = "idle"
    /\ answered = NoRequest
    /\ rows < MaxRows
    /\ rows' = rows + 1
    /\ UNCHANGED <<pc, beam, lease, pool, context, seen, answered>>

\* The client has its answer.
Done ==
    /\ answered # NoRequest
    /\ answered' = NoRequest
    /\ UNCHANGED <<pc, beam, lease, pool, context, rows, seen>>

Next ==
    \/ \E body \in Bodies : Receive(body)
    \/ Done
    \/ AddRow
    \/ \E t \in Threads :
          \/ \E body \in SearchBodies : Start(t, body)
          \/ AcquireFree(t) \/ AcquireNew(t) \/ Register(t) \/ AcquireFails(t)
          \/ Prepare(t) \/ PrepareFails(t)
          \/ \E id \in 1..rows : Visit(t, id)
          \/ Finish(t)
          \/ Release(t)

Spec == Init /\ [][Next]_vars
-----------------------------------------------------------------------------
\* A context has one holder, and release() finds room in the vector whatever the
\* order in which threads found the pool empty and gave contexts back: it is
\* noexcept, so an allocation that failed there would end the process.
LeasesAreSafe ==
    /\ \A t, u \in Threads : t # u /\ lease[t] # None => lease[t] # lease[u]
    /\ \A i, j \in DOMAIN free : i # j => free[i] # free[j]
    /\ \A t \in Threads, i \in DOMAIN free : lease[t] # free[i]
    /\ \A t \in Threads : pc[t] = "release" => Len(free) < capacity

\* During a search exactly the rows it has met count as visited, whatever earlier
\* searches marked on this context before the epoch wrapped; every row has a mark
\* and the result heap has the storage of the beam.
VisitsAreFresh ==
    \A t \in Threads : pc[t] = "search" =>
        LET c == context[lease[t]] IN
        /\ rows <= Len(c.marks)
        /\ \A id \in 1..Len(c.marks) : c.marks[id] = c.epoch <=> id \in seen[t]
        /\ beam[t] <= c.results

\* The values that lie n levels inside a JSON value, and whether some array or
\* object lies max levels inside it.
Containers(S) == {v \in S : v[1] \in {"array", "object"}}
Inside(doc, max) ==
    LET level[n \in 0..max] ==
          IF n = 0 THEN {doc}
          ELSE UNION {{v[2][i] : i \in DOMAIN v[2]} : v \in Containers(level[n - 1])}
    IN  level
DeeperThan(doc, max) == Containers(Inside(doc, max)[max]) # {}

\* within_depth finds the depth of the value from its characters alone, brackets,
\* quotes and backslashes inside strings included: the parser never recurses
\* deeper than kMaxJsonDepth, and nothing shallower is refused for its depth.
DepthIsBounded ==
    answered.route \notin {"none", "bulk"} =>
        (WithinDepth(answered.body.text, kMaxJsonDepth)
            <=> ~DeeperThan(answered.body.doc, kMaxJsonDepth))

\* The number a body gives for a key, of an object that has it.
Says(object, key, n) == key \in DOMAIN object => object[key][2] = n

\* What a restart without a snapshot makes of an accepted configuration.
Reopens(config) ==
    LET read == DecodeConfig(EncodeConfig(config)) IN
    /\ read.status = 200
    /\ \A key \in DOMAIN read.value : read.value[key] = config[key]

CreateFaithful(doc, config) ==
    LET index == IF "index" \in DOMAIN doc THEN doc["index"][2] ELSE <<>> IN
    /\ Says(doc, "dim", config.dim) /\ config.dim <= Limits.max_dim
    /\ ConfigValid(config)
    /\ \A key \in {"M", "ef_construction", "ef_search", "max_level", "seed"} :
          Says(index, key, config[key])
    /\ config.index = "Hnsw" => Reopens(config)

InsertFaithful(doc, v) ==
    /\ Len(v.ids) = Len(v.rows) /\ Len(v.ids) <= Limits.max_batch
    /\ \A i \in DOMAIN v.ids :
          /\ v.ids[i] = doc["vectors"][2][i][2]["id"][2]
          /\ v.ids[i] # kInvalidExternalId
          /\ Len(v.rows[i]) = Dim

BulkFaithful(v) ==
    /\ v.rows = Len(v.ids) * Dim /\ Len(v.ids) <= Limits.max_batch
    /\ \A i \in DOMAIN v.ids : v.ids[i] # kInvalidExternalId

SearchFaithful(doc, v) ==
    /\ Says(doc, "k", v.k) /\ v.k > 0
    /\ Says(doc, "ef_search", v.ef_search)
    /\ "k" \in DOMAIN doc => v.k <= Limits.max_k
    /\ v.ef_search <= Limits.max_ef
    /\ \A i \in DOMAIN v.rows : Len(v.rows[i]) = Dim

Over(object, key, limit) == key \in DOMAIN object /\ object[key][2] > limit
LongerThan(object, key, limit) ==
    key \in DOMAIN object /\ Is(object[key], "array") /\ Len(object[key][2]) > limit

\* The body asks for more than the server grants.
ExceedsLimits(route, body) ==
    IF route = "bulk" THEN body.count > Limits.max_batch
    ELSE \/ Over(body[2], "dim", Limits.max_dim)
         \/ Over(body[2], "k", Limits.max_k)
         \/ Over(body[2], "ef_search", Limits.max_ef)
         \/ LongerThan(body[2], "vectors", Limits.max_batch)

\* An accepted body means what it says: every number arrives unchanged although
\* it passes through narrower types, is within the server's limits and meets the
\* library's preconditions; a collection with a graph comes back from config.json
\* as it was created; rows have the collection's dimension; no row gets the
\* reserved id.  422 is answered only for a body that exceeds a limit.
AcceptedRequestsAreFaithful ==
    answered.route # "none" =>
        LET a   == answered.answer
            v   == a.value
            doc == answered.body.doc[2]
        IN  /\ a.status = 422 => ExceedsLimits(answered.route, answered.body.doc)
            /\ a.status = 200 =>
              CASE answered.route = "create" -> CreateFaithful(doc, v)
                [] answered.route = "insert" -> InsertFaithful(doc, v)
                [] answered.route = "bulk" -> BulkFaithful(v)
                [] answered.route \in {"search", "batch"} -> SearchFaithful(doc, v)

\* catalog.hpp:10: open() restores every collection, "empty from config.json if it
\* was never snapshotted".
CreatedCollectionsReopen ==
    answered.route = "create" /\ answered.answer.status = 200 =>
        Reopens(answered.answer.value)
=============================================================================

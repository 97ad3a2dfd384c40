# VectorForge in TLA+

VectorForge is a C++ library and server for nearest-neighbour search: named
collections of vectors, an HNSW graph (or a flat scan) for each, snapshots in a
data directory, and an HTTP front end. This directory holds a TLA+ description
of the parts of it where threads, failures and crashes meet, TLC runs that check
it on small instances, and TLAPS proofs for most of its parts.

Paths below are relative to the repository (`src/concurrency/...`); the
`PROJECT.json` entries carry one more `src/` in front.

## 1. Inventory

| Component | State | Operations | Talks to |
|---|---|---|---|
| `FairSharedMutex` (`src/concurrency/fair_shared_mutex.hpp`) | four counters, `writer_active_`, two condition variables under `mutex_` | `lock`, `unlock`, `lock_shared`, `unlock_shared` | the `rw` lock of every collection |
| `ThreadPool` (`src/concurrency/thread_pool.cpp`) | queue, `stopping`, one `Shared` block for each `parallel_for` | worker loop, `submit`, `parallel_for`, `shutdown` | Level B linking, batch search |
| `Collection` (`src/collection/collection.cpp`) | `CollectionState`: rows, labels, id map, tombstones, index; mutexes `writers` and `link`, lock `rw` | `add`, `add_batch`, `remove`, `compact`, `get`, `search`, `save`, `load` | store, id map, tombstones, backend, pool |
| `IdMap`, `TombstoneSet`, `VectorStore` (`src/storage/`) | entries with `current` and `pending`; bits and a count; chunks of rows | `reserve`, `commit`, `rollback`, `revert`, `erase`, `restore`; `set`, `clear`; `append`, `pop_back` | `Collection` |
| HNSW graph and linking (`src/index/hnsw/`) | lists as words (a count, then ids), levels, the entry point; `top_mutex_`, striped list mutexes | `link`, `publish`, `shrink_with`, `try_append_link`, `set_links` | concurrent searches, without a lock |
| HNSW search (`src/index/hnsw/hnsw_search.cpp`, `src/search/`) | heaps, visited set, pooled contexts | `search_layer`, `select_neighbors` | reads the lists while they change |
| `Catalog` and snapshots (`src/collection/catalog.cpp`, `snapshot.cpp`) | `slots`, `dropping`, reference-counted collections, a directory for each name | `create`, `get`, `drop`, `snapshot`, `open`, the deleter | files, `Collection::save` |
| Atomic files (`src/storage/atomic_file*.cpp`) | temporary file, rename, directory sync | `write_atomic` | snapshots, markers, `config.json` |
| Index file (`src/collection/index_writer.cpp`, `index_reader.cpp`, `src/storage/format.cpp`, `src/index/hnsw/hnsw_io.cpp`) | header, section table, sections, checksums | `write_index`, `read_index` | `save`, `load` |
| Flat backend (`src/index/flat_backend.cpp`) | none of its own | a scan of all rows | store, tombstones |
| Context pool (`src/search/context_pool.hpp`) | idle contexts, a count of all | `acquire`, `release` | every search |
| Server (`src/server/server.cpp`, `apps/cli/cmd_serve.cpp`) | `accepting`, in-flight count, bulk slots, listener, metrics | routes, `start`, `stop`, drain, snapshots on exit | `Catalog`, `Collection` |
| Codecs (`src/server/json_codec.cpp`, `config.json` in `catalog.cpp`) | none | decode a request, a configuration | server, catalog |
| SIMD kernels, datasets, other commands, Python | none of interest | | |

What is hard here, and what makes each part right:

- **FairSharedMutex.** Writer preference and a reader quota share two condition
  variables. Right: exclusion, no lost wakeup, no unsigned wrap, a writer cannot
  be passed by readers for ever, nor readers by writers.
- **Collection.** A batch (Level B) is grown under the exclusive lock, linked
  under the *shared* lock by many threads, and its failures undone under the
  exclusive lock again; meanwhile searches, gets and saves go on. Every
  allocation can fail. Right: id map, labels, tombstones and counters agree
  after any failure, a file on disk is one moment of the collection, compaction
  cannot be seen, no lock cycle.
- **ThreadPool.** `run_ranges` keeps its body on the caller's stack and queues
  helpers that refer to it. Right: no helper outlives the call; each chunk runs
  once; shutdown drains and returns.
- **HNSW linking.** Lists are rewritten word by word while searches read them.
  Right: whatever mixture a search reads names finished nodes of sufficient
  level; no back-link is lost; a new top level does not split the graph.
- **Catalog.** A snapshot, a drop, a reuse of the name and a crash may come in
  any order. Right: `open()` succeeds and finds what callers were told.
- **Index data.** Rows live in chunks, the first of which may be a mapping; the
  graph is walked through tombstoned nodes; a file is untrusted. Right: a row
  reads back as it was inserted, searches rank the live rows, a file loads as it
  was saved, and a damaged one is refused or harmless.
- **Server.** Requests race with `stop()`, its drain timeout and the snapshots on
  exit; exceptions leave handlers anywhere. Right: nothing is leaked, no request
  outlives the server, what was acknowledged is saved.
- **Requests and contexts.** Numbers narrow, a scan of characters guards a
  recursive parser; contexts with wrapping epochs are reused by many threads.
  Right: an accepted body means what it says, no context has two holders, no old
  mark counts.

`PROJECT.json` lists each hazard at its line, with the properties that would
catch it going wrong.

## 2. Modules

| Module | Models |
|---|---|
| `SharedLock` | abstract: a reader/writer lock is two sets of threads |
| `FairSharedMutex` | the lock, a step for each section under `mutex_`, wakeups explicit |
| `VectorMap` | abstract: a collection is a map from ids to vectors, and a saved copy |
| `Collection` | all operations of a collection with its locks and failure paths |
| `ThreadPool` | worker loop, `submit`, `parallel_for`, `shutdown` |
| `HnswLink` | concurrent `link()` on the words of the lists, and walkers |
| `Catalog` | the data directory, crashes and power losses |
| `VectorStore` | chunks of rows, a mapped prefix and heap chunks after it |
| `Search` | distances, heaps, the graph, search, selection, linking by one writer, the validator, the flat scan |
| `IndexFile` | the file: layout, writer with its buffer, reader with every check |
| `Index` | a collection's data used by one caller: composes the three above |
| `IndexDamage` | changed files, and what a load of one may do |
| `Server` | the server from `start()` to the exit of `serve`, its requests and the catalog they change |
| `RequestCodec` | what the server makes of a request body |
| `ConfigFile` | `config.json`, written by `create()` and read by `open()` |
| `SearchRequests` | requests, the context pool and the visited sets |
| `FairSharedMutexProofs`, `CollectionProofs`, `ThreadPoolProofs`, `HnswLinkProofs`, `CatalogProofs`, `ServerProofs`, `SearchRequestsProofs` | the theorems about these modules |
| `RequestCodecProofs` | lemmas about the decoders and `config.json`, for `SearchRequestsProofs` |
| `MC*` | model values, symmetry and the request bodies for TLC |

The pieces fit at these places. `FairSharedMutex` implements `SharedLock`, and
`Collection` uses `rw` as `SharedLock` describes it. `Collection` keeps of the
index only the set of rows a search can reach; `HnswLink` is about how link()
makes a row reachable while others link, and `Search` about which neighbours it
chooses. `Collection` takes an operation apart at its locks, with opaque vectors;
`Index` takes it as one step, with rows, labels, tombstones, graph and file.
`Catalog` keeps of a collection a version number; what a file says about one
moment of a collection is `Collection`'s `ImplementsVectorMap`, and that its bytes
load again is `Index`'s `SavesRoundTrip`. `Server` keeps of the catalog one name
and the inserts in memory and in its last snapshot.

### How state and actions correspond to the code

**FairSharedMutex.** The variables with a trailing underscore are the members of
the class. `pc[t]` says whether a thread waits in `lock()` or `lock_shared()` or
holds the lock. `notified` is the set of waiters that have been woken and have
not run yet. `Wakeup` evaluates the predicate of `wait()` once more and either
enters or sleeps again; a spurious wakeup is a step of its own. The rest is history
since the last `unlock()`: `owed` are the readers that waited then and still do,
`granted` how many those were, `late` how many others were let in on their quota, and
`passed` how many readers got in while a writer waited.

**Collection.** `state` is the `CollectionState`; the operators above `Init` are
the operations of `IdMap`, `TombstoneSet` and `VectorStore`. `pc`, `job` and the
variables after it are the local variables of the calls. A step is what happens
between two places where another thread may see a difference: taking a lock, one
row inside an exclusive section (so that each allocation of it can fail on its
own), one row's `link()`, the release. Level A (`add`, and batches of a
collection that is not in Concurrent mode) goes `slice`, `reserve`, `append`,
`index`, `commit`; Level B goes `section`, `grow`, then the same without the
index, `begin_link`, `link`, and after a failure `abandon`. `save()` reads rows
and graph in two steps under `link` and shared `rw`. `Load` is a restart of the
process from the last complete file.

**ThreadPool.** One action for each section under the pool's mutex or under a
call's `Shared::mutex`. The relaxed load of `Shared::failed` may return an old
value.

**HnswLink.** `count[n][l]` and `slots[n][l][i]` are the words of a list; every
store is a step. Which nodes a neighbour search returns, and which of them
`select_neighbors` keeps, is a free choice (at least one, at most the permitted
number), so that what is checked does not depend on distances. On the first level the
search starts where a greedy descent from the entry point may have ended
(`DescentEnds`), on the others from what the level above returned. `links` and
`complete` are history: what the appends and rewrites meant to put in a list, and
the nodes whose own lists have been stored.

**Catalog.** `disk` is a directory as the process sees it, `synced` as it was
when last synced. `promised` is history: what callers were told.
`exposed` marks names whose removal has begun and may not have finished, or whose
`drop()` failed: the windows of finding 1 and of the second observation below.

**Index.** `col` is the `CollectionState`; `config` is what the file keeps of the
configuration. An operation is one step, since `Collection` is about what others
see in between. Vectors have one component, so that every distance is an exact
integer and normalisation leaves a sign; what a kernel computes is not the
question here, but which rows it is given and in which order results come out.
`AddUndone` is an insert whose index step fails: the row is appended and popped, and
the chunk it made stays. `LinkFails` is a row whose `link()` ran out of memory,
`BatchStranded` the batch of finding 2. `LevelGenerator` hashes the seed and the row number: any level may come out, and
`levels` makes it come out again when `compact()` reuses a number. `raw`,
`unjoined` and `image` are history. Searches change nothing and are therefore not
actions: `SearchesAreExact` evaluates `HnswSearch` and `FlatSearch`, translated
from the code with their heaps, in every reachable state, for every query, k and
ef, against a definition by ranking. In the same way `DamagedFilesAreSafe` reads
every changed form of every file a run of the program can leave.

**IndexFile.** A file is its header, table, sections and places with stray bytes.
A checksum is the content it was computed from; whether a change is *sealed* (its
checksums recomputed) is a choice of `IndexDamage`. Offsets and sizes are numbers
with the code's alignments.

**Server.** `pc[w]` is the point a worker of httplib has reached in `wrap()` and
in the route; `req[w]` holds the route, the status, whether there is a body, the classes
it has been recorded under, and what the handler holds. The collection is released when
the inner handler returns, before the request is counted out. Each section under `flight_mutex` is a step; so are
the check of `accepting`, the catalog call and the answer. An exception may leave
any step that allocates: after the catalog or collection call has succeeded, when its
answer cannot be built (`Thrown`), and in a catch clause (`Escape`). The allocations of
the error and exception handlers themselves are taken to succeed. `life` is
where `run_serve()` is. httplib is external: threads that take requests until
`stop()`, an error handler called for every status of 400 and more, a check of the
`Range` header that may turn a success into a 416 without a body (`AfterRangeCheck`),
a listener that ends when its threads have.

**RequestCodec, ConfigFile.** Operators, one for each decoder. A JSON value is
`<<kind, payload>>`; the text that `within_depth` scans is a sequence of character
classes (bracket, quote, backslash, other). `Json` is the set of values clients
send, closed under taking a value out of an array or object: what the JSON library
makes of a text.

**SearchRequests.** `free`, `capacity` and `created` are the members of
`ContextPool`; `acquire()` is three steps, as the code unlocks while it
constructs. `context` keeps of each context the marks, the epoch and the storage
of the result heap.

## 3. Runs

| Run | Bounds | Shows |
|---|---|---|
| `mutex` | 4 threads, no symmetry (liveness) | `IndInv` (the invariant of the proofs), `NoLostWakeup`, `BoundedBypass`, `LockProgress`, `ImplementsSharedLock` |
| `collection` | 2 threads, 2 ids, 2 vectors, 3 rows, batches of 2, both modes | `IdMapConsistent`, `CountsAgree`, `LiveRowsAreLinked`, `CallOutcome`, `ImplementsVectorMap` |
| `collection_save` | 2 threads, 2 ids, 1 vector, 2 rows, Concurrent mode; batches, compaction, search, save, restart; fairness | `SavedRowsAreLinked`, `ImplementsVectorMap`, `EveryCallReturns` |
| `pool` | 2 workers, a `parallel_for` of 3 chunks, a submitter, 2 threads that shut down | `NoHelperOutlivesCall`, `HelpersCounted`, `ChunksCovered`, `DrainedWhenStopped`, `PoolProgress` |
| `link` | 3 rows, 2 levels, M = 1, M0 = 2, 2 stripes, 1 row may run out of memory, 2 linkers, 1 walker | `SlotsAreSafe`, `ListsAreIntact`, `LevelsAreJoined`, `LinkersNeverStuck` |
| `catalog` | 1 name, 2 threads, 2 incarnations, 2 generations, 1 write | `OpenSucceeds`, `RestartKeepsPromises`, `LiveDirectoriesAreSafe`, `DroppedNamesAreFreed` |
| `catalog_drop` | the same | **violation**, finding 1 |
| `server` | 2 workers, 2 requests of 7 routes, 1 bulk slot, 2 incarnations of one name | `ResourcesAccounted`, `NoRequestOutlivesStop`, `AcknowledgedInsertsAreSaved`, `ResponsesRecorded`, `ShutdownCompletes` |
| `index` | 3 rows in chunks of 2, 2 ids, 2 vectors, 5 configurations, levels 0 and 1, M = 2, one failed insert, one restart; files of up to 2 rows are damaged | `RowsAreKept`, `GraphIsValid`, `SearchesAreExact`, `SavesRoundTrip`, `DamagedFilesAreSafe` |
| `index_unloadable` | the same | **violation**, finding 2 |
| `requests` | the bodies of `MCSearchRequests`; 2 threads, 2 contexts, 2 rows, epochs 1 and 2 | `LeasesAreSafe`, `VisitsAreFresh`, `DepthIsBounded`, `AcceptedRequestsAreFaithful` |
| `requests_reopen` | the same | **violation**, finding 3 |

Each property has a mutant in `PROJECT.json`: a plausible slip in one definition
that makes TLC find the property violated. Threads, ids and vectors are symmetric
in the runs that check no liveness; no definition tells one from another.

Why the bounds are enough for what is asked:

- *mutex*: a writer inside, a writer and a reader that wait, and a reader that
  arrives late need four threads; the proofs remove the bound.
- *collection*: two ids let a batch hold a new id and a replacement (a batch
  that repeats an id is refused before any lock is taken); three rows let a
  replaced row, its replacement and a failed one exist together, and let a batch
  meet `max_rows()`. Only one
  thread at a time holds `writers`, so a second thread suffices to read, search
  or save against it, or to compete for the lock. The proofs remove the bounds
  for all but `EveryCallReturns`.
- *pool*: two workers make one helper run while another is queued; three chunks
  leave one for the caller or for a late helper; two stoppers meet at
  `join_mutex`. The proofs remove the bounds for all but `PoolProgress`.
- *link*: M = 1 makes every second back-link shrink a list; two stripes for three
  nodes make two lists share a mutex; two levels make entry points compete.
  `CHECK_DEADLOCK FALSE`: linkers stop when all rows are linked. The proofs remove
  the bounds for all but `LinkersNeverStuck`.
- *catalog*: two incarnations are a name reused after a drop; two generations are
  a snapshot that replaces one. Directories of different names do not interact
  except through the catalog's mutex, so one name is checked. The proofs remove
  the bounds.
- *server*: two requests are one that is handled while another arrives, or one
  that outlives the drain while another is not yet counted; one slot makes the
  second be turned away. The routes called stand for the kinds: without a check,
  of the catalog, with a slot, with a collection held; the other routes take the
  same actions. The proofs remove the bounds for all but `ShutdownCompletes`.
- *index*: three rows in chunks of two put rows before and after a mapped chunk
  and into a chunk that is half full; two levels make the entry point rise; 2-bit
  tombstone words and a buffer of 400 bytes put boundaries inside the files. HNSW
  is checked with L2, the other metrics with the flat scan. Three rows fill a list
  of level 1 (M = 2) and overflow none, so `GraphIsValid` also looks one row ahead
  where a list is full: that row's back-links call `shrink_with`. The rows of a
  failing insert carry one vector, since no search sees them. Damaged files are
  read in three ways, the two that `Verify::Auto` resolves to and `None` mapped.
  `CHECK_DEADLOCK FALSE`: the session ends when rows, failures and restarts are
  used up.
- *requests*: every field absent, of the wrong kind, at, below and above its
  limit, and above the width it is narrowed to, at a smaller scale (widths 256,
  2000, 3000); epochs of two values wrap at every other search. The proofs remove
  the bounds for all but `DepthIsBounded`.

### Findings

1. **A drop may be undone by a crash during removal** (`catalog.cpp:185`).
   `remove_all` removes entries in directory order and may take the `DROPPED`
   marker before `config.json` or `MANIFEST`.
2. **A saved file may not load** (`collection.cpp:257`). If `parallel_for` cannot
   allocate its shared state, the exception leaves the rows of a Level B section
   committed and never linked, with the levels their nodes were given. A later
   save succeeds. In the trace of the run the collection was empty, so the graph has
   nodes and no entry point, and `load()` refuses the file: "entry point is not a node
   of the top level" (`hnsw_io.cpp:140-143`). If there was an entry point, the file
   is refused when a stranded row lies above it. The same check has a second way to
   fail: a row whose own `link()` ran out of memory (`LinkFails`) is abandoned as
   `docs/concurrency.md:43-46` says, but its node keeps its level; if that is above
   the top level, the file cannot be loaded either, until `compact()`.
   `SavesRoundTrip` and `GraphIsValid` leave out exactly these files and graphs
   (`Overtopped`) and are checked with every other failed row; `collection_save`
   leaves out the stranded batch.
3. **A flat collection may make the catalog unopenable** (`catalog.cpp:91`).
   `CollectionConfig::validate` looks at the graph parameters only for HNSW;
   `decode_config` bounds them for every index type. `create()` accepts a flat
   collection with M = 513, and without a snapshot the next `open()` fails.

Findings 1 and 2 need an allocation to fail or a crash in a particular place;
finding 3 needs neither.

### Observations

Disagreements met while modelling for which no run is kept:

- *A late reader can take the place of one the quota was counted for*
  (`fair_shared_mutex.hpp:62`). `unlock()` sets `reader_quota_` to the *number* of
  waiting readers. A reader that arrives afterwards may use an admission, and one
  that was waiting then waits behind the next writer. The header comment (line 10)
  says every reader waiting at that moment is admitted before the next writer, and
  line 8 that new readers wait while a writer does, which they do not while quota
  is left. What does hold is `BoundedBypass`: waiting writers are passed by at most
  as many readers as the last `unlock()` found waiting, and a writer gets in before
  one of those only if a later reader took its place. Besides, readers as a group
  and writers make progress (`LockProgress`).
- *A failed drop leaves its marker* (`catalog.cpp:334`). If the directory sync
  after the rename fails, the collection stays in use and its snapshots succeed,
  but the next `open()` deletes it. `RestartKeepsPromises` does not look at such a
  name any more (`exposed`).
- *The default k may exceed `--max-k`* (`json_codec.cpp:120`). `decode_search` compares
  a `k` that is given with `max_k`; one that is absent is 10 (`config.hpp:61`) also on
  a server started with `--max-k` below 10. `tests/fuzz/fuzz_json_request.cpp:77` asserts
  `k <= limits.max_k` of every accepted request; it runs with the default limit of 1000.
  `AcceptedRequestsAreFaithful` speaks of a `k` that is given. It does not
  compare the components of vectors either: they are opaque numbers.

Three more are in the properties themselves: an exception in a catch clause of
`wrap()` leaves `in_flight` one too high for good, so that every later `stop()`
waits for the whole `drain_timeout` (`leaked` in `ResourcesAccounted`), and the
response of such a handler may be recorded under another status than is sent, or not at
all (`escaped` in `ResponsesRecorded`). And a success that httplib turns into a 416,
because the request asks for a range of it that does not exist, has lost its body when
the error handler looks for one (`server.cpp:576`): it is recorded a second time, as
`unmatched`. The last of these rests on httplib, which the repository does not contain.

## 4. Fairness

- `FairSharedMutex`: weak fairness of a woken thread running and of a holder
  releasing. No thread has to call anything and no spurious wakeup is needed.
- `ThreadPool`: weak fairness of each worker, each caller inside a call, each
  notifier and each stopper. Bodies return; they do not block.
- `Collection`: strong fairness of a thread that is inside a call. A step that
  takes a mutex is enabled and disabled again as others hold it; that a thread
  which tries again and again gets it is what an operating system's mutex gives
  in practice. For `rw` it is what `LockProgress` says in the run, where at most
  one writer and one reader wait at a time.
- `Server`: weak fairness of each handler's steps (routes return) and of the main
  thread once it has been told to stop. Nobody has to send a request or a signal,
  and requests may arrive until the listener stops.

`HnswLink`, `Catalog`, `Index` and `SearchRequests` are checked for safety only; `LinkersNeverStuck` and
`DroppedNamesAreFreed` say as invariants that nothing waits for what nobody will do.

## 5. Proofs

Every safety invariant of the runs `mutex`, `pool`, `server`, `collection`,
`collection_save`, `catalog` and, but for `LinkersNeverStuck` and
`DepthIsBounded`, of `link` and `requests` is a theorem for all
values of the constants, and so are both refinements. Each proof module states
its inductive invariant `IndInv`, the lemmas about the model's operators, one lemma
for each action (with a step for each conjunct the action can disturb), and the
theorems. TLC has checked each `IndInv` on instances of the size of its run before
it was proved; the largest had 1.4 million states.

| Module | Theorem | Says |
|---|---|---|
| `FairSharedMutexProofs` | `Invariance` | `Spec => []IndInv` |
| | `TypeCorrect` | `Spec => []TypeOK`: no counter wraps |
| | `WakeupNotLost` | `Spec => []NoLostWakeup` |
| | `BypassBounded` | `Spec => []BoundedBypass` |
| | `Refinement` | `Spec => ImplementsSharedLock` |
| `CollectionProofs` | `IdMapConsistency` | `Spec => []IdMapConsistent`, which includes `TypeOK` |
| | `CountsAgreement` | `Spec => []CountsAgree` |
| | `LiveRowsLinked` | `Spec => []LiveRowsAreLinked` |
| | `SavedRowsLinked` | `Spec => []SavedRowsAreLinked` |
| | `CallOutcomes` | `Spec => []CallOutcome` |
| | `Refinement` | `Spec => ImplementsVectorMap` |
| `ThreadPoolProofs` | `HelpersSafe` | `Spec => []HelpersCounted`, which includes `TypeOK` |
| | `CallsSafe` | `Spec => []NoHelperOutlivesCall` |
| | `ChunksSafe` | `Spec => []ChunksCovered` |
| | `ShutdownSafe` | `Spec => []DrainedWhenStopped` |
| `HnswLinkProofs` | `SearchesSafe` | `Spec => []SlotsAreSafe` |
| | `BacklinksKept` | `Spec => []ListsAreIntact` |
| | `LevelsSafe` | `Spec => []LevelsAreJoined` |
| `CatalogProofs` | `Invariance` | `Spec => []IndInv` |
| | `LiveDirectoriesSafe` | `Spec => []LiveDirectoriesAreSafe`, which includes `TypeOK` |
| | `DroppedNamesFreed` | `Spec => []DroppedNamesAreFreed` |
| | `OpensSucceed` | `Spec => []OpenSucceeds` |
| | `PromisesKept` | `Spec => []RestartKeepsPromises` |
| `ServerProofs` | `ResourcesSafe` | `Spec => []ResourcesAccounted` |
| | `StopWaitsForRequests` | `Spec => []NoRequestOutlivesStop` |
| | `ShutdownSaves` | `Spec => []AcknowledgedInsertsAreSaved` |
| | `ResponsesSafe` | `Spec => []ResponsesRecorded` |
| `SearchRequestsProofs` | `LeasesSafe` | `Spec => []LeasesAreSafe` |
| | `VisitsFresh` | `Spec => []VisitsAreFresh` |
| | `RequestsFaithful` | `Spec => []AcceptedRequestsAreFaithful` |

### Assumptions

All are ASSUMEs of the modules and evaluated by TLC in the runs.

- `FairSharedMutex`: the set of threads is finite.
- `Collection`: `MaxRows` (the code's `max_rows()`) and `MaxBatch` are natural
  numbers; `None` is none of the threads, ids, vectors, files and maps. Threads,
  ids and vectors are any sets, finite or not.
- `ThreadPool`: finitely many workers, at least one; at least two chunks (with
  fewer, `parallel_for` runs in line); a thread is of one kind (worker, caller,
  submitter or stopper); `None` is no thread and no task.
- `HnswLink`: `M >= 1`, `M <= M0`, at least one stripe, as `HnswParams` and the
  stripe table have it; finitely many rows and levels, any threads.
- `Server`: finitely many workers; any number of slots, requests and incarnations;
  the routes are among the code's.
- `Catalog`: the bounds on incarnations, versions and generations are natural numbers;
  `None` is no name, thread, incarnation or contents, and the catalog's own reference
  (`"catalog"`) no thread. Names and threads are any sets.
- `RequestCodec`: the widths are positive and grow, the library's limits fit the types
  that hold them (`std::uint32_t`, and `std::uint8_t` for `kMaxLevelCap`), the default
  seed fits 64 bits, and the server's limits are natural numbers.
- `SearchRequests`: the epoch has at least one value; a JSON value holds what its kind
  says and arrays and objects hold JSON values; a bulk body is read as fields and as many
  ids as it announces. Nothing is assumed of which keys an object has, how large its
  numbers are, or how the text of a body and its value are related. Threads, contexts and bodies are any sets.

### Why the invariants are what they are

**The lock.** None of the interesting facts is inductive alone. Exclusion is read
off the counters, so they have to be the number of threads they stand for
(`CountersAgree`); then the predicates of the two `wait()` calls say something
about threads. That nobody sleeps for ever needs to know who is awake in each of the
states in which the lock is free (`WaitersAreAwake`). With quota left, the writers
stay out, so there must still be readers to use it up: the quota is at most the
number of readers it was counted for that still wait (`QuotaIsOwed`), and those
have been woken (`OwedReadersAreAwake`). A late reader that takes an admission
lowers the quota and not the set, which is why this is an inequality, and why
the first observation above is not a lost wakeup. `BoundedBypass` needs the same
accounts from the other side (`BypassInv`): a reader that passes a writer has used
up quota, and a reader still owed its turn has quota left or somebody who took it.

**The collection.** The invariant has five parts. `LocksOK` says who holds which
mutex at each point of each call; from it follows that one writer at most is inside
a mutating call, that nobody writes while somebody reads, and that `save()` and a
Level B section exclude each other. So the rest can be stated from the writer's
side: `WriterInOrder(Here)` says at each point of the writer's call what is true of
the collection (`StoreInOrder`) and of the call (`CallInOrder`). The store is *sound*
up to the rows that are committed: map, labels, tombstones and counters agree. A
row that is appended and not committed is the only one beyond, and only its id is
reserved. The rows of a Level B section are live and not yet linked; for each of them
`GrownInOrder` says that it can still be given up: it is what its id maps to,
and the row it replaced is intact, deleted and linked. Without that, `abandon_row`
might bring a dead row back. `ContentsInOrder` relates what the collection holds to what it
held when the call began, id by id, by how many rows have been dealt with; that
gives `CallOutcome`. `RebuiltInOrder` says that the copy `compact()` makes holds what the
rows up to its cursor hold, so the swap is invisible. `ReadersInOrder` says that what
a reader holds between two of its steps is still true, because no writer can be
inside. `FileInOrder` says that a file can be loaded; a load starts the argument again.
For the refinement each step is a step of `VectorMap` or none: a commit is a
`Put`, giving a row up a `Put` or a `Drop`, `remove()` a `Drop`; the swap of
`compact()` changes nothing.

**The pool.** `HelpersCounted` is about the number of queued and running helpers of
one call, so a worker must have a task exactly while it runs one (`TaskInOrder`),
and a caller must not have counted more helpers than it may (`SpawnsInOrder`).
`ChunksInOrder` says that the claimed chunks are those below the shared counter and that each
has run once or has one participant that still runs it. A worker leaves
only when the pool stops and the queue is empty, and an accepted task is queued or
running (`ShutdownInOrder`): that is why nothing is left when `shutdown()` returns.

**Linking.** Readers take no lock, so the invariant is about every word: a slot
that was ever set names a complete node of the list's level, other than the list's own
(`SlotsInOrder`), and the slots below any count that a walker may still use are
set (`WalkInOrder`). A list agrees with its history unless the holder of its
stripe is rewriting it (`ListsInOrder`), and then `ChangeInOrder` says which words it has
written. That no back-link is doubled needs `BacklinksInOrder`: a thread puts
its node only into lists of the levels it has been on. That the levels stay joined
needs the entry point: a node above it is linked by the holder of `top_mutex`, for whom
the entry point stays as it was read (`EntryInOrder`), and on each level at most one node has
an empty list (`OneTop`). For `OneTop` a rewritten list must not become empty and a
thread must have found a neighbour on every level it shares with its entry
point (`FoundInOrder`).

**The catalog.** What a restart finds is a directory as it was at a step, or as it was
when last synced, so everything is said of both (`DirsInOrder`): a directory belongs to one
incarnation, its files too, and unless its removal has begun `MANIFEST` names a file that
is there with the checksum it should have. `SlotInOrder` and `DropInOrder` relate that to
the catalog's map: a name in the map is not being dropped and its directory is that of its
collection; a name that is being dropped has its marker on the disk, synced, and somebody who holds
the dropped collection. That the last holder is the one that deletes needs the
references to be exactly the calls that hold one, and the map's own (`HoldersInOrder`).
`CallInOrder` says what each step of a call may rely on; most of it is what the code
gets from its mutex (a name that is created or marked is touched by nobody else) or from
`dropping` (a reference keeps the directory, also when the name has left the map).
`SnapshotInOrder` follows a snapshot: before MANIFEST is renamed its generation is one
beyond the one on disk, after that the very one, and once it is synced the old files may go.
`PromiseInOrder` adds the versions: a file that is being saved is at least as
new as what was promised, since snapshots of one collection exclude each other. A step
of a call touches one name and one incarnation, so `StepAt` proves once that all the others keep
their part, and each action's lemma is about its own name. Crash and power loss leave one of the
two directories, and `Restart` starts again from it.

**The server.** `in_flight` counts the workers at the points between counting in and out,
and every slot is free or held by a request at its call (`RequestInOrder`); the listener ends
before the last phase of the shutdown, and once it is joined every worker is idle (`LifeInOrder`).
The last snapshot is taken after that, so nothing can be acknowledged later. For
`ResponsesRecorded` a request that has reached `~Finish` must not have been recorded yet and must have a
body, unless its handler threw: every refusal, answer and catch clause on the way there gives it one.

**Requests.** `release()` has room because `created_` counts the idle contexts and those that are
registered and leased (`Counted`), and `capacity` is never below it; a context that is made and not
yet registered is not counted, and its thread cannot give it back before it is. No mark is of
an epoch to come (`MarksArePast`), so the next epoch finds none of its own, and when the epoch wraps the
marks are cleared. A thread changes only the context it holds, and contexts have one holder
(`OneHolder`), so one search does not disturb another (`ContextStep`). That accepted bodies are faithful
is no matter of interleaving: `RequestCodecProofs` shows for each decoder that what it
lets through fits the type it is narrowed to, and that `encode_config` and `decode_config` are
inverse to each other on the valid configurations of a graph (`GraphConfigsReopen`). For a flat
index the same lemma is false: finding 3.

### Only model-checked

- Liveness (`LockProgress`, `EveryCallReturns`, `PoolProgress`, `ShutdownCompletes`):
  fairness is out of the prover's reach. `LinkersNeverStuck` uses `ENABLED`, and so is it.
- `DepthIsBounded`: that the scan of a text finds the depth of its value is an
  induction over data, which the prover cannot do.
- `Search`, `VectorStore`, `IndexFile` and what builds on them (`Index`, `IndexDamage`)
  use `RECURSIVE` operators for the code's loops, which the prover cannot take; what
  they compute would again need induction over data.
- That a drop survives a crash in the middle of its removal is not proved because it is
  false (finding 1); the theorems about `Catalog` stop at the moment the removal begins (`exposed`).

## 6. What is left out

- **Weak memory.** `HnswLink` is sequentially consistent. The code's relaxed and
  acquire/release accesses to list words allow older values to be read; what the
  model shows of the argument is that a slot once set never names a worse node.
- **Floating point.** Rounding, SIMD kernels, recall. `Index` uses vectors of one
  component with integer values; other modules opaque ones.
- **File systems.** A torn write is a file that was never renamed into place. A
  power loss keeps or loses the unsynced changes of one directory together; a
  file system that reorders them is outside the model.
- **open()** removes the directories it finds marked or unfinished in one step.
  It runs before any other thread exists.
- **Allocation failures** are modelled where the code handles them; that
  `std::bad_alloc` is thrown by a lock is not.
- **The insert scratch pool.** It is sized for the threads of one `parallel_for`;
  that no thread of an earlier one still holds scratch is `NoHelperOutlivesCall`. That
  the size is enough for those of the same call (`take()`'s `VF_CHECK`) is not modelled.
- **Reachability of levels.** `GraphIsValid` is what the validator checks, and
  `SearchesAreExact` asks that a search from some start node sees what can be
  reached from there; neither says that every live row can be reached from the
  entry point, which HNSW does not promise.
- **httplib**: sockets, timeouts and keep-alive are external.
- **Not modelled**: SIMD kernels and dispatch, mapped files, CRC arithmetic,
  datasets, recall, log, synthetic data, the other commands, the Python bindings,
  JSON encoding and the rendering of metrics. They are sequential, keep no state
  that several steps share, or compute with floating point.

## 7. Plan

Done: lock, collection, pool, linking, catalog, server, requests and contexts with proofs;
the index data and its file. What could come next:

1. `HnswLink` under weak memory: each word with the values a relaxed load may still
   return. `SlotsInOrder` is already about every value a slot ever had.
2. A file system that reorders the unsynced changes of one directory, for `Catalog`.
3. `Index`: its loops as folds with loop invariants, one step of a loop as one step of the model,
   would bring `GraphIsValid` within the prover's reach.

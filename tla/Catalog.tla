------------------------------ MODULE Catalog ------------------------------
(***************************************************************************)
(* src/collection/catalog.cpp and snapshot.cpp: named collections under a  *)
(* data directory, created, used, snapshotted and dropped by several       *)
(* threads of a process that may crash and start again.                    *)
(*                                                                         *)
(* A create() makes a new incarnation of its name.  Its contents are a     *)
(* version number, raised by writes.  A directory is its entries; names    *)
(* that end in .tmp and `.<name>.creating` are never read and left out, so *)
(* write_atomic is a rename followed by sync_directory, each of which may  *)
(* fail.  A power loss may undo what was changed since the last sync.      *)
(***************************************************************************)
EXTENDS Naturals, FiniteSets

CONSTANTS
    Names, Threads,
    MaxIncs,   \* bound: incarnations created, over all names
    MaxVer,    \* bound: versions of one incarnation
    MaxGen,    \* bound: snapshot generations of one incarnation
    None

ASSUME CatalogAssumption ==
    /\ MaxIncs \in Nat /\ MaxVer \in Nat /\ MaxGen \in Nat
    /\ None \notin Names \cup Threads
    /\ "catalog" \notin Threads

Incs == 1..MaxIncs
Gens == 1..MaxGen

\* What a generation file says: the contents of one incarnation at one time.
Contents == [inc : Incs, ver : 0..MaxVer]

\* None is no incarnation and no contents.
ASSUME NoneAssumption == None \notin Incs \cup Contents

VARIABLES
    pc, job,    \* where each thread is; its [op, name, inc, gen]
    mutex,      \* the thread that holds Impl::mutex exclusively, or None
    slots,      \* Impl::slots: the incarnation under each name, or None
    objs,       \* the Collection objects, by incarnation
    dropping,   \* CatalogShared::dropping
    disk,       \* the directory of each name, as the process sees it
    synced,     \* the directory of each name, as it was last synced
    created,    \* incarnations created so far
    promised,   \* history: what callers were told about each name
    exposed     \* history: names whose removal began and may be unfinished, or
                \* whose drop() failed, since they were last created

memory == <<mutex, slots, objs, dropping>>
store == <<disk, synced>>
history == <<created, promised, exposed>>
vars == <<pc, job, memory, store, history>>

NoJob == [op |-> None, name |-> None, inc |-> 0, gen |-> 0]

\* A directory as create() leaves it.  manifest is the generation MANIFEST
\* names (0: no MANIFEST) and crc the file it was written for.
FreshDir(i) ==
    [inc |-> i, config |-> TRUE, marker |-> FALSE, manifest |-> 0, crc |-> None,
     files |-> [g \in Gens |-> None]]

NoDir == [FreshDir(0) EXCEPT !.config = FALSE]

\* CatalogSlot and the object it owns; `holders` are the shared_ptrs.
NewObject(ver, generation, holders) ==
    [ver |-> ver, generation |-> generation, dropped |-> FALSE, holders |-> holders,
     saving |-> None]

Init ==
    /\ pc = [t \in Threads |-> "idle"]
    /\ job = [t \in Threads |-> NoJob]
    /\ mutex = None
    /\ slots = [n \in Names |-> None]
    /\ objs = [i \in Incs |-> NewObject(0, 0, {})]
    /\ dropping = {}
    /\ disk = [n \in Names |-> NoDir]
    /\ synced = [n \in Names |-> NoDir]
    /\ created = 0
    /\ promised = [n \in Names |-> [present |-> "no", inc |-> 0, ver |-> 0]]
    /\ exposed = {}
-----------------------------------------------------------------------------
Goto(t, where) == pc' = [pc EXCEPT ![t] = where]

\* A call ends; its locals are gone.
Return(t) == Goto(t, "idle") /\ job' = [job EXCEPT ![t] = NoJob]

\* One change of a directory, not yet synced; and sync_directory.
Change(n, d) == disk' = [disk EXCEPT ![n] = d] /\ UNCHANGED synced

Sync(n) == synced' = [synced EXCEPT ![n] = disk[n]] /\ UNCHANGED disk

Promise(n, present, inc, ver) ==
    promised' = [promised EXCEPT ![n] = [present |-> present, inc |-> inc, ver |-> ver]]

\* The directory with one entry less: config.json, DROPPED, MANIFEST or a
\* generation file.
OneEntryLess(d) ==
    ({[d EXCEPT !.config = FALSE], [d EXCEPT !.marker = FALSE],
      [d EXCEPT !.manifest = 0, !.crc = None]}
     \cup {[d EXCEPT !.files[g] = None] : g \in Gens}) \ {d}

\* std::filesystem::remove_all: the entries in an order of its own, then the
\* directory.  Errors are ignored by every caller.
RemoveEntry(n) ==
    /\ disk[n] # NoDir
    /\ \/ \E d \in OneEntryLess(disk[n]) : Change(n, d)
       \/ OneEntryLess(disk[n]) = {} /\ Change(n, NoDir)
    /\ exposed' = exposed \cup {n}
-----------------------------------------------------------------------------
\* Mutant of Create: the names being dropped are not looked at.
MutCreateIgnoresDropping(t, n) ==
    /\ pc[t] = "idle"
    /\ created < MaxIncs
    /\ mutex = None
    /\ slots[n] = None
    /\ mutex' = t
    /\ created' = created + 1
    /\ job' = [job EXCEPT ![t] = [op |-> "create", name |-> n, inc |-> created + 1, gen |-> 0]]
    /\ Promise(n, "maybe", 0, 0)
    /\ Goto(t, "clear")
    /\ UNCHANGED <<slots, objs, dropping, store, exposed>>

\* create(): under the exclusive mutex to the end.  A name in use or still
\* being dropped is refused.
Create(t, n) ==
    /\ pc[t] = "idle"
    /\ created < MaxIncs
    /\ mutex = None
    /\ slots[n] = None
    /\ n \notin dropping
    /\ mutex' = t
    /\ created' = created + 1
    /\ job' = [job EXCEPT ![t] = [op |-> "create", name |-> n, inc |-> created + 1, gen |-> 0]]
    /\ Promise(n, "maybe", 0, 0)
    /\ Goto(t, "clear")
    /\ UNCHANGED <<slots, objs, dropping, store, exposed>>

\* The leftovers of an earlier crash or failure are removed.
ClearLeftovers(t) ==
    LET n == job[t].name IN
    /\ pc[t] = "clear"
    /\ \/ RemoveEntry(n) /\ UNCHANGED pc
       \/ Goto(t, "rename") /\ UNCHANGED <<store, exposed>>
    /\ UNCHANGED <<job, memory, created, promised>>

\* The new directory, config.json in it, is renamed into place; that fails if
\* leftovers are in the way.
RenameDirectory(t) ==
    LET n == job[t].name IN
    /\ pc[t] = "rename"
    /\ \/ /\ OneEntryLess(disk[n]) = {}
          /\ Change(n, FreshDir(job[t].inc))
          /\ Goto(t, "sync_create")
          /\ UNCHANGED <<job, mutex>>
       \/ Return(t) /\ mutex' = None /\ UNCHANGED store
    /\ UNCHANGED <<slots, objs, dropping, history>>

\* sync_directory(collections), then the slot.
SyncCreate(t) ==
    LET n == job[t].name
        i == job[t].inc
    IN
    /\ pc[t] = "sync_create"
    /\ mutex' = None
    /\ \/ /\ Sync(n)
          /\ slots' = [slots EXCEPT ![n] = i]
          /\ objs' = [objs EXCEPT ![i] = NewObject(0, 0, {"catalog", t})]
          /\ Promise(n, "yes", i, 0)
          /\ exposed' = exposed \ {n}
          /\ Goto(t, "using")
          /\ UNCHANGED job
       \/ Return(t) /\ UNCHANGED <<slots, objs, store, promised, exposed>>
    /\ UNCHANGED <<dropping, created>>
-----------------------------------------------------------------------------
\* get(): the caller holds a reference until it is done with it.
Get(t, n) ==
    /\ pc[t] = "idle"
    /\ mutex = None
    /\ slots[n] # None
    /\ objs' = [objs EXCEPT ![slots[n]].holders = @ \cup {t}]
    /\ job' = [job EXCEPT ![t] = [op |-> "use", name |-> n, inc |-> slots[n], gen |-> 0]]
    /\ Goto(t, "using")
    /\ UNCHANGED <<mutex, slots, dropping, store, history>>

\* The user changes the collection (an external caller's choice).
Write(t) ==
    /\ pc[t] = "using"
    /\ objs[job[t].inc].ver < MaxVer
    /\ objs' = [objs EXCEPT ![job[t].inc].ver = @ + 1]
    /\ UNCHANGED <<pc, job, mutex, slots, dropping, store, history>>

\* drop() is done with: from here on its caller counts on it.
ReturnOf(t) ==
    /\ Return(t)
    /\ IF job[t].op = "drop" THEN Promise(job[t].name, "no", 0, 0) ELSE UNCHANGED promised

\* A shared_ptr goes.  The last one of a dropped collection runs the deleter.
Release(t) ==
    LET i == job[t].inc
        left == objs[i].holders \ {t}
    IN
    /\ pc[t] \in {"using", "release"}
    /\ objs' = [objs EXCEPT ![i].holders = left]
    /\ IF left = {} /\ objs[i].dropped
       THEN Goto(t, "delete") /\ UNCHANGED <<job, promised>>
       ELSE ReturnOf(t)
    /\ UNCHANGED <<mutex, slots, dropping, store, created, exposed>>

\* Mutant of Deleter: the name is not taken out of `dropping`.
MutDeleterKeepsName(t) ==
    /\ pc[t] = "delete"
    /\ \/ RemoveEntry(job[t].name) /\ UNCHANGED <<pc, job, dropping, promised>>
       \/ ReturnOf(t) /\ UNCHANGED <<store, exposed, dropping>>
    /\ UNCHANGED <<mutex, slots, objs, created>>

\* The deleter of make_slot: the files, then the name.
Deleter(t) ==
    /\ pc[t] = "delete"
    /\ \/ RemoveEntry(job[t].name) /\ UNCHANGED <<pc, job, dropping, promised>>
       \/ /\ dropping' = dropping \ {job[t].name}
          /\ ReturnOf(t)
          /\ UNCHANGED <<store, exposed>>
    /\ UNCHANGED <<mutex, slots, objs, created>>
-----------------------------------------------------------------------------
\* drop(): the marker is written under the exclusive mutex.
Drop(t, n) ==
    /\ pc[t] = "idle"
    /\ mutex = None
    /\ slots[n] # None
    /\ mutex' = t
    /\ job' = [job EXCEPT ![t] = [op |-> "drop", name |-> n, inc |-> slots[n], gen |-> 0]]
    /\ promised' = [promised EXCEPT ![n].present = "maybe"]
    /\ Goto(t, "mark")
    /\ UNCHANGED <<slots, objs, dropping, store, created, exposed>>

\* write_text(DROPPED): the rename of write_atomic, or a failure before it.
WriteMarker(t) ==
    LET n == job[t].name IN
    /\ pc[t] = "mark"
    /\ \/ /\ Change(n, [disk[n] EXCEPT !.marker = TRUE])
          /\ Goto(t, "sync_mark")
          /\ UNCHANGED <<job, mutex>>
       \/ Return(t) /\ mutex' = None /\ UNCHANGED store
    /\ UNCHANGED <<slots, objs, dropping, history>>

\* The marker is durable: the slot is moved out of the catalog.  If the sync
\* fails, drop() fails, and the marker is there all the same.
SyncMarker(t) ==
    LET n == job[t].name
        i == job[t].inc
    IN
    /\ pc[t] = "sync_mark"
    /\ mutex' = None
    /\ \/ /\ Sync(n)
          /\ dropping' = dropping \cup {n}
          /\ objs' = [objs EXCEPT ![i].dropped = TRUE,
                                  ![i].holders = (@ \ {"catalog"}) \cup {t}]
          /\ slots' = [slots EXCEPT ![n] = None]
          /\ Goto(t, "await_snapshot")
          /\ UNCHANGED <<job, exposed>>
       \/ /\ Return(t)
          /\ exposed' = exposed \cup {n}
          /\ UNCHANGED <<slots, objs, dropping, store>>
    /\ UNCHANGED <<created, promised>>

\* A snapshot in progress is waited for.
AwaitSnapshot(t) ==
    /\ pc[t] = "await_snapshot"
    /\ objs[job[t].inc].saving = None
    /\ Goto(t, "release")
    /\ UNCHANGED <<job, memory, store, history>>
-----------------------------------------------------------------------------
\* snapshot(): the collection and its snapshot mutex under the shared mutex.
Snapshot(t, n) ==
    /\ pc[t] = "idle"
    /\ mutex = None
    /\ slots[n] # None
    /\ objs' = [objs EXCEPT ![slots[n]].holders = @ \cup {t}]
    /\ job' = [job EXCEPT ![t] = [op |-> "snapshot", name |-> n, inc |-> slots[n], gen |-> 0]]
    /\ Goto(t, "snapshot")
    /\ UNCHANGED <<mutex, slots, dropping, store, history>>

\* save_snapshot: the generation after the one in MANIFEST.
NextGeneration(d) == d.manifest + 1

\* Mutant of LockSnapshot: the snapshot mutex is not taken.
MutLockSnapshotUnserialised(t) ==
    LET d == disk[job[t].name] IN
    /\ pc[t] = "snapshot"
    /\ IF d.manifest = MaxGen
       THEN Goto(t, "release") /\ UNCHANGED job
       ELSE Goto(t, "save") /\ job' = [job EXCEPT ![t].gen = NextGeneration(d)]
    /\ UNCHANGED <<memory, store, history>>

\* One snapshot of a collection at a time.  At the bound on generations the call
\* returns without saving.
LockSnapshot(t) ==
    LET d == disk[job[t].name]
        i == job[t].inc
    IN
    /\ pc[t] = "snapshot"
    /\ objs[i].saving = None
    /\ IF d.manifest = MaxGen
       THEN Goto(t, "release") /\ UNCHANGED <<job, objs>>
       ELSE /\ objs' = [objs EXCEPT ![i].saving = t]
            /\ job' = [job EXCEPT ![t].gen = NextGeneration(d)]
            /\ Goto(t, "save")
    /\ UNCHANGED <<mutex, slots, dropping, store, history>>

\* A step that fails ends the snapshot.
SnapshotFails(t) ==
    /\ pc[t] \in {"save", "sync_save", "manifest", "sync_manifest"}
    /\ objs' = [objs EXCEPT ![job[t].inc].saving = None]
    /\ Goto(t, "release")
    /\ UNCHANGED <<job, mutex, slots, dropping, store, history>>

\* Collection::save of the generation file, then its directory.
SaveIndex(t) ==
    LET n == job[t].name
        i == job[t].inc
    IN
    /\ pc[t] = "save"
    /\ Change(n, [disk[n] EXCEPT !.files[job[t].gen] = [inc |-> i, ver |-> objs[i].ver]])
    /\ Goto(t, "sync_save")
    /\ UNCHANGED <<job, memory, history>>

SyncIndex(t) ==
    /\ pc[t] = "sync_save"
    /\ Sync(job[t].name)
    /\ Goto(t, "manifest")
    /\ UNCHANGED <<job, memory, history>>

\* read_header_crc of the new file, then write_manifest.
WriteManifest(t) ==
    LET n == job[t].name
        g == job[t].gen
    IN
    /\ pc[t] = "manifest"
    /\ Change(n, [disk[n] EXCEPT !.manifest = g, !.crc = disk[n].files[g]])
    /\ Goto(t, "sync_manifest")
    /\ UNCHANGED <<job, memory, history>>

\* Mutant of SyncManifest: the directory is not synced.
MutSyncManifestSkipped(t) ==
    /\ pc[t] = "sync_manifest"
    /\ Goto(t, "garbage")
    /\ UNCHANGED <<job, memory, store, history>>

\* The directory with the new MANIFEST is synced.
SyncManifest(t) ==
    /\ pc[t] = "sync_manifest"
    /\ Sync(job[t].name)
    /\ Goto(t, "garbage")
    /\ UNCHANGED <<job, memory, history>>

\* collect_garbage: of the other generations, those that can be removed.
Garbage(d) == {g \in Gens : g # d.manifest /\ d.files[g] # None}

Collected(d, gs) ==
    [d EXCEPT !.files = [g \in Gens |-> IF g \in gs THEN None ELSE @[g]]]

CollectGarbage(t) ==
    LET n == job[t].name IN
    /\ pc[t] = "garbage"
    /\ \E gs \in SUBSET Garbage(disk[n]) : Change(n, Collected(disk[n], gs))
    /\ Goto(t, "report")
    /\ UNCHANGED <<job, memory, history>>

\* The slot, if it still holds this collection, gets the generation; then the
\* snapshot mutex is released and the caller told.
ReportSnapshot(t) ==
    LET n == job[t].name
        i == job[t].inc
        g == job[t].gen
    IN
    /\ pc[t] = "report"
    /\ mutex = None
    /\ IF slots[n] = i
       THEN /\ objs' = [objs EXCEPT ![i].saving = None, ![i].generation = g]
            /\ Promise(n, "yes", i, disk[n].files[g].ver)
       ELSE /\ objs' = [objs EXCEPT ![i].saving = None]
            /\ UNCHANGED promised
    /\ Goto(t, "release")
    /\ UNCHANGED <<job, mutex, slots, dropping, store, created, exposed>>
-----------------------------------------------------------------------------
\* read_manifest() answers NotFound.
NoManifest(d) == d.manifest = 0

\* read_header_crc() of the generation MANIFEST names: the checksum covers the
\* whole header, so it tells the versions of a file apart.
HeaderCrc(d) == d.files[d.manifest]

\* What open() makes of a directory.  It removes a marked one, fails on one it
\* cannot load, and collects garbage after loading a generation.
Loadable(d) ==
    \/ d = NoDir
    \/ d.marker
    \/ NoManifest(d) /\ d.config
    \/ ~NoManifest(d) /\ d.crc # None /\ HeaderCrc(d) = d.crc

Restored(d) ==
    IF d = NoDir \/ d.marker THEN None
    ELSE IF NoManifest(d) THEN [inc |-> d.inc, ver |-> 0] ELSE d.files[d.manifest]

Opened(d) ==
    IF Restored(d) = None THEN NoDir
    ELSE IF NoManifest(d) THEN d ELSE Collected(d, Garbage(d))

\* The process ends and the catalog is opened again on the directories found
\* (its removals and its garbage collection taken as one step).
Restart(found) ==
    /\ \A n \in Names : Loadable(found[n])
    /\ disk' = [n \in Names |-> Opened(found[n])]
    /\ slots' = [n \in Names |->
                   IF Restored(found[n]) = None THEN None ELSE found[n].inc]
    /\ objs' = [i \in Incs |->
                  IF \E n \in Names : slots'[n] = i
                  THEN LET d == found[CHOOSE n \in Names : slots'[n] = i]
                       IN  NewObject(Restored(d).ver, d.manifest, {"catalog"})
                  ELSE NewObject(0, 0, {})]
    /\ pc' = [t \in Threads |-> "idle"]
    /\ job' = [t \in Threads |-> NoJob]
    /\ mutex' = None
    /\ dropping' = {}
    /\ UNCHANGED history

ProcessCrash == Restart(disk) /\ UNCHANGED synced

\* The unsynced changes of a directory are kept or lost.
PowerLoss ==
    \E lost \in SUBSET Names :
        LET found == [n \in Names |-> IF n \in lost THEN synced[n] ELSE disk[n]]
        IN  Restart(found) /\ synced' = found
-----------------------------------------------------------------------------
Step(t) ==
    \/ ClearLeftovers(t) \/ RenameDirectory(t) \/ SyncCreate(t)
    \/ Release(t) \/ Deleter(t)
    \/ WriteMarker(t) \/ SyncMarker(t) \/ AwaitSnapshot(t)
    \/ LockSnapshot(t) \/ SnapshotFails(t) \/ SaveIndex(t) \/ SyncIndex(t)
    \/ WriteManifest(t) \/ SyncManifest(t) \/ CollectGarbage(t) \/ ReportSnapshot(t)

Call(t) == \E n \in Names : Create(t, n) \/ Get(t, n) \/ Drop(t, n) \/ Snapshot(t, n)

Next ==
    \/ \E t \in Threads : Call(t) \/ Write(t) \/ Step(t)
    \/ ProcessCrash
    \/ PowerLoss

Spec == Init /\ [][Next]_vars
-----------------------------------------------------------------------------
Points ==
    {"idle", "clear", "rename", "sync_create", "using", "release", "delete", "mark",
     "sync_mark", "await_snapshot", "snapshot", "save", "sync_save", "manifest",
     "sync_manifest", "garbage", "report"}

Directories ==
    [inc : 0..MaxIncs, config : BOOLEAN, marker : BOOLEAN, manifest : 0..MaxGen,
     crc : Contents \cup {None}, files : [Gens -> Contents \cup {None}]]

\* The type of the state.
TypeOK ==
    /\ pc \in [Threads -> Points]
    /\ job \in [Threads -> [op : {None, "create", "use", "drop", "snapshot"},
                            name : Names \cup {None}, inc : 0..MaxIncs, gen : 0..MaxGen]]
    /\ mutex \in Threads \cup {None}
    /\ slots \in [Names -> Incs \cup {None}]
    /\ dropping \subseteq Names
    /\ \A n \in Names : disk[n] \in Directories /\ synced[n] \in Directories

\* snapshot.hpp:11: whenever the process or the machine stops, MANIFEST names a
\* complete generation, and open() does not fail on the directory.
OpenSucceeds == \A n \in Names \ exposed : \A d \in {disk[n], synced[n]} : Loadable(d)

\* What a caller was told holds after a restart.
DropSurvives(n) == promised[n].present = "no" => \A d \in {disk[n], synced[n]} : Restored(d) = None

SnapshotSurvives(n) ==
    promised[n].present = "yes" =>
        \A d \in {disk[n], synced[n]} :
            /\ Restored(d) # None
            /\ Restored(d).inc = promised[n].inc
            /\ Restored(d).ver >= promised[n].ver

\* Up to the moment remove_all begins, a restart keeps every promise: a created
\* collection is there, with at least the contents of the last snapshot() that
\* succeeded, and one whose drop() succeeded is not.
RestartKeepsPromises == \A n \in Names \ exposed : DropSurvives(n) /\ SnapshotSurvives(n)

\* docs/http-api.md:106: the DROPPED marker makes the drop survive a crash.
DropsSurviveCrashes == \A n \in Names : DropSurvives(n)

\* The files of a collection in the catalog are its own, and nobody is deleting
\* them on behalf of an earlier collection of that name.  A generation the
\* catalog reports is the one on disk or an older one.
LiveDirectoriesAreSafe ==
    /\ TypeOK
    /\ \A n \in Names : slots[n] # None =>
          /\ disk[n] # NoDir /\ disk[n].inc = slots[n]
          /\ objs[slots[n]].generation <= disk[n].manifest
          /\ \A t \in Threads : pc[t] = "delete" => job[t].name # n

\* catalog.hpp:15: a dropped name is refused only while somebody still holds the
\* dropped collection or is deleting its files; nothing else keeps it back.
DroppedNamesAreFreed ==
    \A n \in dropping : \E t \in Threads :
        /\ job[t].name = n
        /\ pc[t] = "delete" \/ t \in objs[job[t].inc].holders
=============================================================================

--------------------------- MODULE CatalogProofs ---------------------------
(***************************************************************************)
(* Proofs about Catalog, for any names and threads and any number of       *)
(* incarnations, versions and generations.                                 *)
(*                                                                         *)
(* IndInv says what the disk, the last synced disk, the slots, the         *)
(* references and the calls in progress have to do with each other.  A     *)
(* step of a thread touches one name and the collection whose files are    *)
(* there: StepAt shows that all the others keep their part of IndInv, and  *)
(* the lemma of each action shows it for that name.                        *)
(***************************************************************************)
EXTENDS Catalog, TLAPS

\* Inside create(), inside drop() up to the marker, between the two ends of a
\* snapshot, and wherever a call holds a reference to its collection.
Creating == {"clear", "rename", "sync_create"}
Marking == {"mark", "sync_mark"}
Saving == {"save", "sync_save", "manifest", "sync_manifest", "garbage", "report"}
Holding == {"using", "release", "await_snapshot", "snapshot"} \cup Saving

\* The type of the objects and of the history, which TypeOK leaves open.
Shapes ==
    /\ TypeOK
    /\ DOMAIN objs = Incs /\ DOMAIN disk = Names /\ DOMAIN synced = Names
    /\ \A i \in Incs :
          /\ DOMAIN objs[i] = {"ver", "generation", "dropped", "holders", "saving"}
          /\ objs[i].ver \in 0..MaxVer /\ objs[i].generation \in 0..MaxGen
          /\ objs[i].saving \in Threads \cup {None}
    /\ created \in 0..MaxIncs
    /\ DOMAIN promised = Names
    /\ \A n \in Names :
          DOMAIN promised[n] = {"present", "inc", "ver"} /\ promised[n].ver \in Nat
    /\ exposed \subseteq Names

\* A directory has an incarnation unless it is not there, and its files are that
\* incarnation's.
DirInOrder(d) ==
    /\ d.inc = 0 <=> d = NoDir
    /\ d.inc <= created
    /\ \A g \in Gens : d.files[g] # None => d.files[g].inc = d.inc

\* open() finds what it needs, marked or not.
Complete(d) ==
    d = NoDir \/ (d.config /\ (d.manifest # 0 => d.crc # None /\ d.files[d.manifest] = d.crc))

DirsInOrder ==
    /\ \A n \in Names : DirInOrder(disk[n]) /\ DirInOrder(synced[n])
    /\ \A m, n \in Names : \A d \in {disk[m], synced[m]}, e \in {disk[n], synced[n]} :
          d.inc = e.inc => m = n \/ d.inc = 0
    /\ \A n \in Names \ exposed : Complete(disk[n]) /\ Complete(synced[n])

\* The incarnation in the catalog is the one on the disk.
SlotInOrder(n) ==
    slots[n] # None =>
        /\ n \notin dropping
        /\ slots[n] = disk[n].inc
        /\ ~objs[slots[n]].dropped
        /\ objs[slots[n]].generation <= disk[n].manifest
        /\ disk[n].marker => n \in exposed \/ \E t \in Threads : pc[t] = "sync_mark" /\ job[t].name = n

\* Who holds a collection, and who is saving it.
Users(i) == {t \in Threads : pc[t] \in Holding /\ job[t].inc = i}

HoldersInOrder(i) ==
    /\ objs[i].holders = Users(i) \cup (IF \E n \in Names : slots[n] = i THEN {"catalog"} ELSE {})
    /\ objs[i].saving # None => pc[objs[i].saving] \in Saving /\ job[objs[i].saving].inc = i

\* A call by where it is.
CallInOrder(t) ==
    LET n == job[t].name
        i == job[t].inc
    IN
    /\ mutex = t <=> pc[t] \in Creating \cup Marking
    /\ pc[t] = "idle" <=> n = None
    /\ pc[t] # "idle" => i # 0
    /\ pc[t] \in Creating =>
          /\ slots[n] = None /\ n \notin dropping /\ promised[n].present = "maybe"
          /\ i = created /\ job[t].op = "create"
    /\ pc[t] \in {"clear", "rename"} =>
          \A m \in Names : disk[m].inc # i /\ synced[m].inc # i
    /\ pc[t] = "sync_create" => disk[n] = FreshDir(i)
    /\ pc[t] \in Marking => slots[n] = i /\ promised[n].present = "maybe"
    /\ pc[t] = "sync_mark" => disk[n].marker
    /\ pc[t] \in Holding =>
          /\ i = disk[n].inc
          /\ slots[n] = i \/ n \in dropping
          /\ objs[i].dropped <=> n \in dropping
    /\ pc[t] = "delete" => n \in dropping /\ \A u \in Threads : job[u].name = n => u = t
    /\ job[t].op = "drop" /\ pc[t] \in Holding => n \in dropping

\* A snapshot by how far it is.
SnapshotInOrder(t) ==
    LET d == disk[job[t].name]
        s == synced[job[t].name]
        g == job[t].gen
    IN
    /\ pc[t] \in Saving => objs[job[t].inc].saving = t /\ g # 0
    /\ pc[t] \in {"save", "sync_save", "manifest"} => g = d.manifest + 1
    /\ pc[t] \in {"sync_manifest", "garbage", "report"} => g = d.manifest
    /\ pc[t] \in {"sync_save", "manifest", "sync_manifest", "garbage", "report"} =>
          d.files[g] # None /\ d.files[g].ver <= objs[job[t].inc].ver
    /\ pc[t] \in {"garbage", "report"} =>
          /\ s.inc = d.inc /\ s.manifest = g /\ s.files[g] = d.files[g]
          /\ s.marker => d.marker

\* A dropped name is held back by somebody, and its marker is on the disk.
DropInOrder(n) ==
    n \in dropping =>
        /\ \E t \in Threads : job[t].name = n /\ pc[t] \in Holding \cup {"delete"}
        /\ n \in exposed \/ (disk[n].marker /\ synced[n].marker)

\* What the promises rest on.
PromiseInOrder(n) ==
    /\ promised[n].present = "no" => Restored(disk[n]) = None /\ Restored(synced[n]) = None
    /\ promised[n].present = "yes" =>
          /\ promised[n].inc \in Incs
          /\ \A d \in {disk[n], synced[n]} :
                /\ Restored(d) # None
                /\ d.inc = promised[n].inc
                /\ Restored(d).ver >= promised[n].ver
          /\ objs[promised[n].inc].ver >= promised[n].ver
          /\ \A t \in Threads :
                job[t].name = n /\ pc[t] \in {"sync_save", "manifest"} =>
                    disk[n].files[job[t].gen].ver >= promised[n].ver

IndInv ==
    /\ Shapes
    /\ DirsInOrder
    /\ \A n \in Names : SlotInOrder(n) /\ DropInOrder(n)
    /\ \A n \in Names \ exposed : PromiseInOrder(n)
    /\ \A i \in Incs : HoldersInOrder(i)
    /\ \A t \in Threads : CallInOrder(t) /\ SnapshotInOrder(t)
-----------------------------------------------------------------------------
\* The operators on directories.

\* What create() renames into place.
LEMMA FreshDirFields ==
    ASSUME NEW i \in 0..MaxIncs, NEW d, d = FreshDir(i)
    PROVE  /\ d \in Directories /\ d.inc = i /\ d.config /\ ~d.marker
           /\ d.manifest = 0 /\ \A g \in Gens : d.files[g] = None
<1>1. 0 \in 0..MaxGen
  BY CatalogAssumption
<1>2. [g \in Gens |-> None] \in [Gens -> Contents \cup {None}]
  OBVIOUS
<1> QED
  BY <1>1, <1>2 DEF FreshDir, Directories

\* No directory.
LEMMA NoDirFields ==
    /\ NoDir \in Directories /\ NoDir.inc = 0 /\ ~NoDir.config /\ ~NoDir.marker
    /\ NoDir.manifest = 0 /\ \A g \in Gens : NoDir.files[g] = None
<1>1. PICK d : d = FreshDir(0)
  OBVIOUS
<1>2. 0 \in 0..MaxIncs
  BY CatalogAssumption
<1>3. /\ d \in Directories /\ d.inc = 0 /\ d.config /\ ~d.marker
      /\ d.manifest = 0 /\ \A g \in Gens : d.files[g] = None
  BY <1>1, <1>2, FreshDirFields
<1>4. NoDir = [d EXCEPT !.config = FALSE]
  BY <1>1 DEF NoDir
<1> HIDE DEF NoDir
<1> QED
  BY <1>3, <1>4 DEF Directories

\* The fields of a directory.
LEMMA DirFields ==
    ASSUME NEW d \in Directories
    PROVE  /\ d.inc \in 0..MaxIncs /\ d.config \in BOOLEAN /\ d.marker \in BOOLEAN
           /\ d.manifest \in 0..MaxGen /\ d.crc \in Contents \cup {None}
           /\ d.files \in [Gens -> Contents \cup {None}]
  BY DEF Directories

\* An entry goes, its incarnation stays.
LEMMA LessFields ==
    ASSUME NEW d \in Directories, NEW e \in OneEntryLess(d)
    PROVE  /\ e \in Directories /\ e.inc = d.inc
           /\ \A g \in Gens : e.files[g] \in {d.files[g], None}
<1>1. CASE e = [d EXCEPT !.config = FALSE]
  BY <1>1 DEF Directories
<1>2. CASE e = [d EXCEPT !.marker = FALSE]
  BY <1>2 DEF Directories
<1>3. CASE e = [d EXCEPT !.manifest = 0, !.crc = None]
  <2>1. 0 \in 0..MaxGen
    BY CatalogAssumption
  <2> QED
    BY <1>3, <2>1 DEF Directories
<1>4. ASSUME NEW h \in Gens, e = [d EXCEPT !.files[h] = None]
      PROVE  /\ e \in Directories /\ e.inc = d.inc
             /\ \A g \in Gens : e.files[g] \in {d.files[g], None}
  <2>1. d.files \in [Gens -> Contents \cup {None}]
    BY DirFields
  <2>2. PICK f : f = [d.files EXCEPT ![h] = None]
    OBVIOUS
  <2>3. f \in [Gens -> Contents \cup {None}] /\ \A g \in Gens : f[g] \in {d.files[g], None}
    BY <2>1, <2>2
  <2>4. e = [d EXCEPT !.files = f]
    BY <1>4, <2>2
  <2> QED
    BY <2>3, <2>4 DEF Directories
<1> QED
  BY <1>1, <1>2, <1>3, <1>4 DEF OneEntryLess

\* The marker.
LEMMA MarkedFields ==
    ASSUME NEW d \in Directories, NEW e, e = [d EXCEPT !.marker = TRUE]
    PROVE  /\ e \in Directories /\ e.inc = d.inc /\ e.config = d.config /\ e.marker
           /\ e.manifest = d.manifest /\ e.crc = d.crc /\ e.files = d.files
  BY DEF Directories

\* A generation file.
Saved(d, g, c) == [d EXCEPT !.files[g] = c]

\* It is there, and nothing else of the directory changes.
LEMMA SavedFields ==
    ASSUME NEW d \in Directories, NEW h \in Gens, NEW c \in Contents, NEW e, e = Saved(d, h, c)
    PROVE  /\ e \in Directories /\ e.inc = d.inc /\ e.config = d.config
           /\ e.marker = d.marker /\ e.manifest = d.manifest /\ e.crc = d.crc
           /\ e.files[h] = c /\ \A g \in Gens \ {h} : e.files[g] = d.files[g]
<1>1. d.files \in [Gens -> Contents \cup {None}]
  BY DirFields
<1>2. PICK f : f = [d.files EXCEPT ![h] = c]
  OBVIOUS
<1>3. f \in [Gens -> Contents \cup {None}] /\ f[h] = c /\ \A g \in Gens \ {h} : f[g] = d.files[g]
  BY <1>1, <1>2
<1>4. e = [d EXCEPT !.files = f]
  BY <1>2 DEF Saved
<1> QED
  BY <1>3, <1>4 DEF Directories

\* MANIFEST.
Pointed(d, g) == [d EXCEPT !.manifest = g, !.crc = d.files[g]]

\* MANIFEST names it, with its checksum.
LEMMA ManifestFields ==
    ASSUME NEW d \in Directories, NEW h \in Gens, NEW e, e = Pointed(d, h)
    PROVE  /\ e \in Directories /\ e.inc = d.inc /\ e.config = d.config
           /\ e.marker = d.marker /\ e.manifest = h /\ e.crc = d.files[h]
           /\ e.files = d.files
<1>1. h \in 0..MaxGen /\ d.files[h] \in Contents \cup {None}
  BY DirFields, CatalogAssumption DEF Gens
<1> QED
  BY <1>1 DEF Directories, Pointed

\* collect_garbage().
LEMMA CollectedFields ==
    ASSUME NEW d \in Directories, NEW gs \in SUBSET Garbage(d), NEW e, e = Collected(d, gs)
    PROVE  /\ e \in Directories /\ e.inc = d.inc /\ e.config = d.config
           /\ e.marker = d.marker /\ e.manifest = d.manifest /\ e.crc = d.crc
           /\ \A g \in Gens : e.files[g] \in {d.files[g], None}
           /\ d.manifest # 0 => e.files[d.manifest] = d.files[d.manifest]
<1>1. d.files \in [Gens -> Contents \cup {None}] /\ d.manifest \in 0..MaxGen
  BY DirFields
<1>2. PICK f : f = [g \in Gens |-> IF g \in gs THEN None ELSE d.files[g]]
  OBVIOUS
<1>3. f \in [Gens -> Contents \cup {None}] /\ \A g \in Gens : f[g] \in {d.files[g], None}
  BY <1>1, <1>2
<1>4. d.manifest \notin gs
  BY DEF Garbage
<1>5. d.manifest # 0 => f[d.manifest] = d.files[d.manifest]
  BY <1>1, <1>2, <1>4, CatalogAssumption DEF Gens
<1>6. e = [d EXCEPT !.files = f]
  BY <1>2 DEF Collected
<1> QED
  BY <1>3, <1>5, <1>6 DEF Directories

-----------------------------------------------------------------------------
\* The types, in the form the steps use them.
LEMMA Types ==
    ASSUME IndInv
    PROVE  /\ \A t \in Threads : pc[t] # "idle" =>
                 job[t].name \in Names /\ job[t].inc \in Incs /\ job[t].gen \in 0..MaxGen
           /\ \A t \in Threads : pc[t] \in Saving => job[t].gen \in Gens
           /\ \A n \in Names : slots[n] # None => slots[n] \in Incs
           /\ \A n \in Names : disk[n] \in Directories /\ synced[n] \in Directories
<1>1. Shapes /\ \A t \in Threads : CallInOrder(t) /\ SnapshotInOrder(t)
  BY DEF IndInv
<1>2. ASSUME NEW t \in Threads, pc[t] # "idle"
      PROVE  job[t].name \in Names /\ job[t].inc \in Incs /\ job[t].gen \in 0..MaxGen
  <2>1. /\ job[t].name \in Names \cup {None} /\ job[t].inc \in 0..MaxIncs
        /\ job[t].gen \in 0..MaxGen
    BY <1>1 DEF Shapes, TypeOK
  <2>2. job[t].name # None /\ job[t].inc # 0
    BY <1>1, <1>2 DEF CallInOrder
  <2> QED
    BY <2>1, <2>2, CatalogAssumption DEF Incs
<1>3. ASSUME NEW t \in Threads, pc[t] \in Saving
      PROVE  job[t].gen \in Gens
  <2>1. job[t].gen \in 0..MaxGen
    BY <1>2, <1>3 DEF Saving
  <2> QED
    BY <1>1, <1>3, <2>1, CatalogAssumption DEF SnapshotInOrder, Gens
<1> QED
  BY <1>1, <1>2, <1>3 DEF Shapes, TypeOK

\* A thread moves, the others stay where they are.  The mutex is passed between
\* the thread and nobody, a new incarnation is counted only by who takes it, and
\* only its holder brings an incarnation to the disk.
Moves(t) ==
    /\ \A u \in Threads \ {t} : pc'[u] = pc[u] /\ job'[u] = job[u]
    /\ mutex' = mutex \/ (mutex \in {t, None} /\ mutex' \in {t, None})
    /\ created' = created \/ mutex = None
    /\ job'[t].name \in {job[t].name, None} \/ job'[t].name \notin dropping
    /\ mutex = t \/ \A n \in Names :
          disk'[n].inc \in {disk[n].inc, 0} /\ synced'[n].inc \in {synced[n].inc, disk[n].inc}

\* What another thread's call looks at.
CallKept(u) ==
    LET n == job[u].name IN
    /\ slots'[n] = slots[n]
    /\ n \in dropping' <=> n \in dropping
    /\ disk'[n].inc = disk[n].inc
    /\ disk[n].marker => disk'[n].marker
    /\ pc[u] = "sync_create" => disk'[n] = disk[n]
    /\ pc[u] \in Creating \cup Marking => promised'[n].present = promised[n].present
    /\ pc[u] \in Holding => objs'[job[u].inc].dropped = objs[job[u].inc].dropped

\* A call whose surroundings are kept stays in order.
LEMMA CallFrame ==
    ASSUME IndInv, NEW t \in Threads, Moves(t), NEW u \in Threads \ {t},
           pc[u] # "idle" => CallKept(u)
    PROVE  CallInOrder(u)'
<1>1. CallInOrder(u)
  BY DEF IndInv
<1>2. pc'[u] = pc[u] /\ job'[u] = job[u] /\ (mutex' = u <=> mutex = u)
  BY CatalogAssumption DEF Moves
<1>3. ASSUME pc[u] = "idle" PROVE CallInOrder(u)'
  BY <1>1, <1>2, <1>3 DEF CallInOrder, Creating, Marking, Holding, Saving
<1>4. ASSUME pc[u] \in Creating PROVE CallInOrder(u)'
  <2>1. mutex = u /\ created' = created
    BY <1>1, <1>4, CatalogAssumption DEF CallInOrder, Moves
  <2>2. job[u].inc # 0 /\ CallKept(u)
    BY <1>1, <1>4 DEF CallInOrder, Creating
  <2>3. pc[u] \in {"clear", "rename"} =>
          \A m \in Names : disk'[m].inc # job[u].inc /\ synced'[m].inc # job[u].inc
    BY <1>1, <2>1, <2>2 DEF CallInOrder, Moves
  <2> QED
    BY <1>1, <1>2, <1>4, <2>1, <2>2, <2>3
    DEF CallInOrder, CallKept, Creating, Marking, Holding, Saving
<1>5. ASSUME pc[u] \in Marking PROVE CallInOrder(u)'
  BY <1>1, <1>2, <1>5 DEF CallInOrder, CallKept, Creating, Marking, Holding, Saving
<1>6. ASSUME pc[u] \in Holding PROVE CallInOrder(u)'
  BY <1>1, <1>2, <1>6 DEF CallInOrder, CallKept, Creating, Marking, Holding, Saving
<1>7. ASSUME pc[u] = "delete" PROVE CallInOrder(u)'
  <2>1. \A v \in Threads : job'[v].name = job[u].name => v = u
    <3>1. ASSUME job'[t].name = job[u].name PROVE FALSE
      BY <1>1, <1>7, <3>1 DEF CallInOrder, Moves
    <3> QED
      BY <1>1, <1>7, <3>1 DEF CallInOrder, Moves
  <2> QED
    BY <1>1, <1>2, <1>7, <2>1 DEF CallInOrder, CallKept, Creating, Marking, Holding, Saving
<1>8. pc[u] \in Points
  BY DEF IndInv, Shapes, TypeOK
<1> QED
  BY <1>3, <1>4, <1>5, <1>6, <1>7, <1>8 DEF Points, Creating, Marking, Holding, Saving

\* Another thread's snapshot.
SnapshotKept(u) ==
    LET n == job[u].name IN
    /\ disk'[n].inc = disk[n].inc /\ disk'[n].manifest = disk[n].manifest
    /\ disk'[n].files = disk[n].files /\ (disk[n].marker => disk'[n].marker)
    /\ synced'[n] = synced[n] \/ synced'[n] = disk'[n]
    /\ objs'[job[u].inc].saving = objs[job[u].inc].saving
    /\ objs'[job[u].inc].ver \in Nat /\ objs'[job[u].inc].ver >= objs[job[u].inc].ver

\* The contents of a file.
LEMMA FileVersion ==
    ASSUME NEW d \in Directories, NEW g \in Gens, d.files[g] # None
    PROVE  d.files[g] \in Contents /\ d.files[g].ver \in Nat
<1>1. d.files[g] \in Contents
  BY DirFields
<1> QED
  BY <1>1, CatalogAssumption DEF Contents

\* A snapshot whose surroundings are kept stays in order.
LEMMA SnapshotFrame ==
    ASSUME IndInv, NEW t \in Threads, Moves(t), NEW u \in Threads \ {t},
           pc[u] \in Saving => SnapshotKept(u)
    PROVE  SnapshotInOrder(u)'
<1>1. SnapshotInOrder(u)
  BY DEF IndInv
<1>2. pc'[u] = pc[u] /\ job'[u] = job[u]
  BY DEF Moves
<1>3. CASE pc[u] \in Saving
  <2>1. PICK n, i, g, f : n = job[u].name /\ i = job[u].inc /\ g = job[u].gen /\ f = disk[n].files[g]
    OBVIOUS
  <2>2. n \in Names /\ i \in Incs /\ g \in Gens /\ disk[n] \in Directories
    BY <1>3, <2>1, Types DEF Saving
  <2>3. objs[i].ver \in Nat
    <3>1. objs[i].ver \in 0..MaxVer
      BY <2>2 DEF IndInv, Shapes
    <3> QED
      BY <3>1, CatalogAssumption
  <2>4. f # None /\ f.ver <= objs[i].ver => f.ver <= objs'[i].ver
    BY <1>3, <2>1, <2>2, <2>3, FileVersion DEF SnapshotKept
  <2>5. disk'[n].files[g] = f
    BY <1>3, <2>1 DEF SnapshotKept
  <2> QED
    BY <1>1, <1>2, <1>3, <2>1, <2>4, <2>5 DEF SnapshotInOrder, SnapshotKept, Saving
<1> QED
  BY <1>2, <1>3 DEF SnapshotInOrder, Saving

\* A name whose slot and directory stay.
SlotKept(n) ==
    /\ slots'[n] = slots[n]
    /\ n \in dropping' => n \in dropping
    /\ disk'[n] \in Directories
    /\ disk'[n].inc = disk[n].inc /\ disk'[n].manifest >= disk[n].manifest
    /\ disk'[n].marker = disk[n].marker
    /\ n \in exposed => n \in exposed'
    /\ slots[n] # None =>
          /\ objs'[slots[n]].dropped = objs[slots[n]].dropped
          /\ objs'[slots[n]].generation = objs[slots[n]].generation

\* Its slot stays in order.
LEMMA SlotFrame ==
    ASSUME IndInv, NEW t \in Threads, Moves(t), NEW n \in Names, SlotKept(n),
           pc[t] = "sync_mark" => job[t].name # n
    PROVE  SlotInOrder(n)'
<1>1. SlotInOrder(n)
  BY DEF IndInv
<1>2. SUFFICES ASSUME slots'[n] # None
               PROVE  SlotInOrder(n)'
  BY DEF SlotInOrder
<1>3. slots[n] = slots'[n] /\ slots[n] \in Incs /\ disk[n] \in Directories /\ disk'[n] \in Directories
  BY <1>2, Types DEF SlotKept
<1>4. objs'[slots'[n]].generation <= disk'[n].manifest
  <2>1. objs[slots[n]].generation \in Nat /\ disk[n].manifest \in Nat /\ disk'[n].manifest \in Nat
    <3>1. objs[slots[n]].generation \in 0..MaxGen
      BY <1>3 DEF IndInv, Shapes
    <3> QED
      BY <1>3, <3>1, DirFields, CatalogAssumption
  <2> QED
    BY <1>1, <1>2, <1>3, <2>1 DEF SlotInOrder, SlotKept
<1>5. disk'[n].marker => n \in exposed' \/ \E u \in Threads : pc'[u] = "sync_mark" /\ job'[u].name = n
  BY <1>1, <1>2, <1>3 DEF SlotInOrder, SlotKept, Moves
<1> QED
  BY <1>1, <1>2, <1>3, <1>4, <1>5 DEF SlotInOrder, SlotKept

\* A dropped name that stays one.
LEMMA DropFrame ==
    ASSUME IndInv, NEW t \in Threads, Moves(t), NEW n \in Names,
           n \in dropping' => n \in dropping,
           n \in exposed \/ (disk[n].marker => disk'[n].marker) \/ n \in exposed',
           n \in exposed \/ (disk[n].marker /\ synced[n].marker => synced'[n].marker) \/ n \in exposed',
           n \in exposed => n \in exposed',
           job[t].name = n /\ pc[t] \in Holding \cup {"delete"} =>
              \/ n \notin dropping'
              \/ \E u \in Threads : job'[u].name = n /\ pc'[u] \in Holding \cup {"delete"}
    PROVE  DropInOrder(n)'
<1>1. DropInOrder(n)
  BY DEF IndInv
<1> QED
  BY <1>1 DEF DropInOrder, Moves

\* A name whose directory and promise stay.
LEMMA PromiseFrame ==
    ASSUME IndInv, NEW t \in Threads, Moves(t), NEW n \in Names \ exposed,
           promised'[n] = promised[n], disk'[n] = disk[n], synced'[n] = synced[n],
           \A i \in Incs : i = disk[n].inc => objs'[i].ver \in Nat /\ objs'[i].ver >= objs[i].ver,
           job'[t].name = n /\ pc'[t] \in {"sync_save", "manifest"} =>
               job'[t] = job[t] /\ pc[t] \in {"sync_save", "manifest"}
    PROVE  PromiseInOrder(n)'
<1>1. PromiseInOrder(n)
  BY DEF IndInv
<1>2. promised[n].ver \in Nat /\ \A i \in Incs : objs[i].ver \in Nat
  <2>1. \A i \in Incs : objs[i].ver \in 0..MaxVer
    BY DEF IndInv, Shapes
  <2> QED
    BY <2>1, CatalogAssumption DEF IndInv, Shapes
<1>3. promised[n].present = "yes" => objs'[promised'[n].inc].ver >= promised'[n].ver
  BY <1>1, <1>2 DEF PromiseInOrder
<1>4. \A u \in Threads : job'[u].name = n /\ pc'[u] \in {"sync_save", "manifest"} =>
          job[u].name = n /\ pc[u] \in {"sync_save", "manifest"} /\ job'[u].gen = job[u].gen
  BY DEF Moves
<1> QED
  BY <1>1, <1>3, <1>4 DEF PromiseInOrder

\* An object that the thread's move does not touch.
LEMMA HoldersFrame ==
    ASSUME IndInv, NEW t \in Threads, Moves(t), NEW i \in Incs,
           objs'[i].holders = objs[i].holders, objs'[i].saving = objs[i].saving,
           \A n \in Names : slots'[n] = i <=> slots[n] = i,
           pc[t] \in Holding /\ job[t].inc = i <=> pc'[t] \in Holding /\ job'[t].inc = i,
           objs[i].saving = t => pc'[t] \in Saving /\ job'[t].inc = i
    PROVE  HoldersInOrder(i)'
<1>1. HoldersInOrder(i)
  BY DEF IndInv
<1>2. Users(i)' = Users(i)
  BY DEF Users, Moves
<1>3. objs[i].saving \in Threads \cup {None}
  BY DEF IndInv, Shapes
<1> QED
  BY <1>1, <1>2, <1>3 DEF HoldersInOrder, Moves

\* No directory changes.
LEMMA DirsFrame ==
    ASSUME IndInv, UNCHANGED <<disk, synced>>, exposed \subseteq exposed',
           created' \in Nat, created' >= created
    PROVE  DirsInOrder'
<1>1. DirsInOrder /\ created \in Nat
  BY CatalogAssumption DEF IndInv, Shapes
<1>2. \A n \in Names : disk[n].inc \in Nat /\ synced[n].inc \in Nat
  BY Types, DirFields, CatalogAssumption
<1>3. \A n \in Names : DirInOrder(disk[n])' /\ DirInOrder(synced[n])'
  BY <1>1, <1>2 DEF DirsInOrder, DirInOrder
<1> QED
  BY <1>1, <1>3 DEF DirsInOrder, Complete
-----------------------------------------------------------------------------
\* The fields of an object.
ObjectFields == {"ver", "generation", "dropped", "holders", "saving"}

\* One object changes.
ObjectTo(i, o) ==
    /\ objs'[i].ver = o.ver /\ objs'[i].generation = o.generation
    /\ objs'[i].dropped = o.dropped /\ objs'[i].holders = o.holders
    /\ objs'[i].saving = o.saving
    /\ \A j \in Incs \ {i} : objs'[j] = objs[j]
    /\ DOMAIN objs' = Incs /\ \A j \in Incs : DOMAIN objs'[j] = ObjectFields

\* One object is replaced, field by field.
LEMMA ObjectChange ==
    ASSUME IndInv, NEW i \in Incs, NEW o, DOMAIN o = ObjectFields,
           objs' = [objs EXCEPT ![i] = o]
    PROVE  ObjectTo(i, o)
  BY DEF IndInv, Shapes, ObjectTo, ObjectFields

\* The fields of an object have their types.
LEMMA ObjectIs ==
    ASSUME IndInv, NEW i \in Incs
    PROVE  /\ DOMAIN objs[i] = ObjectFields
           /\ objs[i].ver \in 0..MaxVer /\ objs[i].generation \in 0..MaxGen
           /\ objs[i].saving \in Threads \cup {None}
           /\ objs[i].ver \in Nat /\ objs[i].generation \in Nat
  BY CatalogAssumption DEF IndInv, Shapes, ObjectFields

\* Only the holders of an object change.
LEMMA HoldersChange ==
    ASSUME IndInv, NEW i \in Incs, NEW h, objs' = [objs EXCEPT ![i].holders = h]
    PROVE  /\ objs'[i].holders = h /\ objs'[i].saving = objs[i].saving
           /\ \A j \in Incs \ {i} : objs'[j] = objs[j]
           /\ \A j \in Incs : /\ objs'[j].ver = objs[j].ver
                              /\ objs'[j].generation = objs[j].generation
                              /\ objs'[j].dropped = objs[j].dropped
                              /\ DOMAIN objs'[j] = ObjectFields
           /\ DOMAIN objs' = Incs
<1>1. DOMAIN objs[i] = ObjectFields
  BY ObjectIs
<1>2. PICK o : o = [objs[i] EXCEPT !.holders = h]
  OBVIOUS
<1>3. /\ DOMAIN o = ObjectFields /\ o.holders = h /\ o.saving = objs[i].saving
      /\ o.ver = objs[i].ver /\ o.generation = objs[i].generation /\ o.dropped = objs[i].dropped
  BY <1>1, <1>2 DEF ObjectFields
<1>4. objs' = [objs EXCEPT ![i] = o]
  BY <1>2
<1>5. ObjectTo(i, o)
  BY <1>3, <1>4, ObjectChange
<1> QED
  BY <1>3, <1>5 DEF ObjectTo

\* Only who saves an object changes.
LEMMA SavingChange ==
    ASSUME IndInv, NEW i \in Incs, NEW s, objs' = [objs EXCEPT ![i].saving = s]
    PROVE  /\ objs'[i].saving = s /\ objs'[i].holders = objs[i].holders
           /\ \A j \in Incs \ {i} : objs'[j] = objs[j]
           /\ \A j \in Incs : /\ objs'[j].ver = objs[j].ver
                              /\ objs'[j].generation = objs[j].generation
                              /\ objs'[j].dropped = objs[j].dropped
                              /\ objs'[j].holders = objs[j].holders
                              /\ DOMAIN objs'[j] = ObjectFields
           /\ DOMAIN objs' = Incs
<1>1. DOMAIN objs[i] = ObjectFields
  BY ObjectIs
<1>2. PICK o : o = [objs[i] EXCEPT !.saving = s]
  OBVIOUS
<1>3. /\ DOMAIN o = ObjectFields /\ o.holders = objs[i].holders /\ o.saving = s
      /\ o.ver = objs[i].ver /\ o.generation = objs[i].generation /\ o.dropped = objs[i].dropped
  BY <1>1, <1>2 DEF ObjectFields
<1>4. objs' = [objs EXCEPT ![i] = o]
  BY <1>2
<1>5. ObjectTo(i, o)
  BY <1>3, <1>4, ObjectChange
<1> QED
  BY <1>3, <1>5 DEF ObjectTo

\* The type of the state after a step.
Jobs == [op : {None, "create", "use", "drop", "snapshot"},
         name : Names \cup {None}, inc : 0..MaxIncs, gen : 0..MaxGen]

\* A job, field by field.
LEMMA JobFields ==
    ASSUME NEW op \in {None, "create", "use", "drop", "snapshot"}, NEW n \in Names \cup {None},
           NEW i \in 0..MaxIncs, NEW g \in 0..MaxGen,
           NEW j, j = [op |-> op, name |-> n, inc |-> i, gen |-> g]
    PROVE  j \in Jobs /\ j.op = op /\ j.name = n /\ j.inc = i /\ j.gen = g
  BY DEF Jobs

\* The job of an idle thread.
LEMMA NoJobFields ==
    NoJob \in Jobs /\ NoJob.op = None /\ NoJob.name = None /\ NoJob.inc = 0 /\ NoJob.gen = 0
<1>1. 0 \in 0..MaxIncs /\ 0 \in 0..MaxGen
  BY CatalogAssumption
<1> QED
  BY <1>1, JobFields DEF NoJob

\* The step of a thread, as far as its place and its job go.
LEMMA PlaceChange ==
    ASSUME IndInv, NEW t \in Threads, NEW w \in Points, Goto(t, w)
    PROVE  /\ pc' \in [Threads -> Points] /\ pc'[t] = w
           /\ \A u \in Threads \ {t} : pc'[u] = pc[u]
  BY DEF IndInv, Shapes, TypeOK, Goto

\* The job of one thread is replaced.
LEMMA JobChange ==
    ASSUME IndInv, NEW t \in Threads, NEW j \in Jobs, job' = [job EXCEPT ![t] = j]
    PROVE  /\ job' \in [Threads -> Jobs] /\ job'[t] = j
           /\ \A u \in Threads \ {t} : job'[u] = job[u]
  BY DEF IndInv, Shapes, TypeOK, Jobs

\* Two threads with one collection are at one name; at most one of them saves it.
LEMMA OneName ==
    ASSUME IndInv
    PROVE  /\ \A m, n \in Names : slots[m] # None /\ slots[m] = slots[n] => m = n
           /\ \A t, u \in Threads : pc[t] \in Holding /\ pc[u] \in Holding /\
                 job[t].inc = job[u].inc => job[t].name = job[u].name
           /\ \A t \in Threads, n \in Names : pc[t] \in Holding /\ slots[n] = job[t].inc =>
                 job[t].name = n
           /\ \A t, u \in Threads : pc[t] \in Saving /\ pc[u] \in Saving /\
                 job[t].name = job[u].name => t = u
           /\ \A n \in Names : slots[n] # None => slots[n] \in Incs /\ slots[n] = disk[n].inc
           /\ \A t \in Threads : pc[t] \in Holding =>
                 job[t].name \in Names /\ job[t].inc \in Incs /\ job[t].inc = disk[job[t].name].inc
<1>1. \A m, n \in Names : disk[m].inc = disk[n].inc => m = n \/ disk[m].inc = 0
  BY DEF IndInv, DirsInOrder
<1>2. \A n \in Names : slots[n] # None => slots[n] \in Incs /\ slots[n] = disk[n].inc
  BY Types DEF IndInv, SlotInOrder
<1>3. \A t \in Threads : pc[t] \in Holding =>
          job[t].name \in Names /\ job[t].inc \in Incs /\ job[t].inc = disk[job[t].name].inc
  BY Types DEF IndInv, CallInOrder, Holding, Saving
<1>4. 0 \notin Incs
  BY CatalogAssumption DEF Incs
<1>5. \A t, u \in Threads : pc[t] \in Saving /\ pc[u] \in Saving /\ job[t].name = job[u].name => t = u
  BY <1>3 DEF IndInv, SnapshotInOrder, Holding
<1>6. None \notin Incs
  BY NoneAssumption
<1> QED
  BY <1>1, <1>2, <1>3, <1>4, <1>5, <1>6

-----------------------------------------------------------------------------
\* A step that changes no directory, slot or dropped name.
Still == UNCHANGED <<slots, dropping, disk, synced, exposed>>

\* Such a step keeps the types if what it does change has its type.
LEMMA StillTypes ==
    ASSUME IndInv, Still, pc' \in [Threads -> Points], job' \in [Threads -> Jobs],
           mutex' \in Threads \cup {None}, created' \in 0..MaxIncs,
           DOMAIN objs' = Incs,
           \A i \in Incs : /\ DOMAIN objs'[i] = ObjectFields
                           /\ objs'[i].ver \in 0..MaxVer /\ objs'[i].generation \in 0..MaxGen
                           /\ objs'[i].saving \in Threads \cup {None},
           DOMAIN promised' = Names,
           \A n \in Names : /\ DOMAIN promised'[n] = {"present", "inc", "ver"}
                            /\ promised'[n].ver \in Nat
    PROVE  Shapes'
<1>1. TypeOK'
  BY DEF IndInv, Shapes, TypeOK, Still, Jobs
<1> QED
  BY <1>1 DEF IndInv, Shapes, Still, ObjectFields

\* The name that a call refers to is held back by another thread if not by it.
HeldBack(t) ==
    job[t].name \in dropping /\ pc[t] \in Holding \cup {"delete"} =>
        \E u \in Threads : job'[u].name = job[t].name /\ pc'[u] \in Holding \cup {"delete"}

\* Such a step keeps what is said of names and of the other threads.
LEMMA StillFrame ==
    ASSUME IndInv, NEW t \in Threads, Moves(t), Shapes', Still, created' >= created,
           \A i \in Incs : objs'[i].dropped = objs[i].dropped /\ objs'[i].ver >= objs[i].ver,
           \A n \in Names : slots[n] # None =>
               objs'[slots[n]].generation \in {objs[slots[n]].generation, disk[n].manifest},
           \A n \in Names : promised'[n] = promised[n] \/ mutex \in {t, None} \/ n \in dropping,
           \A u \in Threads \ {t} : pc[u] \in Saving =>
               objs'[job[u].inc].saving = objs[job[u].inc].saving,
           pc[t] # "sync_mark", pc'[t] \notin {"sync_save", "manifest"}, HeldBack(t)
    PROVE  /\ DirsInOrder'
           /\ \A n \in Names : SlotInOrder(n)' /\ DropInOrder(n)'
           /\ \A n \in Names \ exposed : promised'[n] = promised[n] => PromiseInOrder(n)'
           /\ \A u \in Threads \ {t} : CallInOrder(u)' /\ SnapshotInOrder(u)'
<1>1. DirsInOrder'
  <2>1. created' \in Nat
    BY CatalogAssumption DEF Shapes
  <2> QED
    BY <2>1, DirsFrame DEF Still
<1>2. ASSUME NEW n \in Names PROVE SlotInOrder(n)' /\ DropInOrder(n)'
  <2>1. SlotInOrder(n)
    BY DEF IndInv
  <2>2. slots[n] # None => slots[n] \in Incs /\ disk[n].manifest \in Nat
    BY Types, DirFields, CatalogAssumption
  <2>3. disk[n].marker /\ slots[n] # None => n \in exposed \/
          \E u \in Threads : pc'[u] = "sync_mark" /\ job'[u].name = n
    BY <2>1 DEF SlotInOrder, Moves
  <2>4. SlotInOrder(n)'
    BY <2>1, <2>2, <2>3 DEF SlotInOrder, Still
  <2>5. DropInOrder(n)'
    BY DropFrame DEF Still, HeldBack
  <2> QED
    BY <2>4, <2>5
<1>3. ASSUME NEW n \in Names \ exposed, promised'[n] = promised[n] PROVE PromiseInOrder(n)'
  <2>1. \A i \in Incs : objs'[i].ver \in Nat
    BY CatalogAssumption DEF Shapes
  <2> QED
    BY <1>3, <2>1, PromiseFrame DEF Still
<1>4. ASSUME NEW u \in Threads \ {t} PROVE CallInOrder(u)' /\ SnapshotInOrder(u)'
  <2>1. pc[u] # "idle" => job[u].inc \in Incs /\ job[u].name \in Names
    BY Types
  <2>2. pc[u] \in Creating \cup Marking => mutex = u /\ job[u].name \notin dropping
    <3>1. CallInOrder(u) /\ (pc[u] # "idle" => SlotInOrder(job[u].name))
      BY <2>1 DEF IndInv
    <3>2. pc[u] \in Marking => job[u].inc # None
      BY <2>1, NoneAssumption DEF Marking
    <3> QED
      BY <3>1, <3>2 DEF CallInOrder, SlotInOrder, Creating, Marking
  <2>3. pc[u] # "idle" => CallKept(u)
    BY <2>1, <2>2, CatalogAssumption DEF CallKept, Still, Holding, Saving
  <2>4. pc[u] \in Saving => SnapshotKept(u)
    <3>1. \A i \in Incs : objs'[i].ver \in Nat
      BY CatalogAssumption DEF Shapes
    <3> QED
      BY <2>1, <3>1 DEF SnapshotKept, Still, Saving
  <2> QED
    BY <2>3, <2>4, CallFrame, SnapshotFrame
<1> QED
  BY <1>1, <1>2, <1>3, <1>4

\* Every conjunct.
LEMMA Together ==
    ASSUME Shapes', DirsInOrder', NEW t \in Threads,
           \A n \in Names : SlotInOrder(n)' /\ DropInOrder(n)',
           \A n \in Names \ exposed' : PromiseInOrder(n)',
           \A i \in Incs : HoldersInOrder(i)',
           \A u \in Threads \ {t} : CallInOrder(u)' /\ SnapshotInOrder(u)',
           CallInOrder(t)', SnapshotInOrder(t)'
    PROVE  IndInv'
  BY DEF IndInv

\* get() and snapshot() take a reference.
LEMMA ReferenceStep ==
    ASSUME IndInv, NEW t \in Threads, NEW n \in Names, NEW op \in {"use", "snapshot"},
           NEW w \in {"using", "snapshot"}, pc[t] = "idle", slots[n] # None,
           objs' = [objs EXCEPT ![slots[n]].holders = @ \cup {t}],
           job' = [job EXCEPT ![t] = [op |-> op, name |-> n, inc |-> slots[n], gen |-> 0]],
           Goto(t, w), Still, UNCHANGED <<mutex, created, promised>>
    PROVE  IndInv'
<1>1. PICK i : i = slots[n]
  OBVIOUS
<1>2. i \in Incs /\ i = disk[n].inc /\ i \in 0..MaxIncs /\ 0 \in 0..MaxGen /\ i # 0
  BY <1>1, OneName, CatalogAssumption DEF Incs
<1>3. n \notin dropping /\ ~objs[i].dropped
  BY <1>1 DEF IndInv, SlotInOrder
<1>4. PICK h : h = objs[i].holders \cup {t}
  OBVIOUS
<1>5. objs' = [objs EXCEPT ![i].holders = h]
  BY <1>1, <1>4
<1>6. /\ objs'[i].holders = h /\ objs'[i].saving = objs[i].saving
      /\ \A j \in Incs \ {i} : objs'[j] = objs[j]
      /\ \A j \in Incs : /\ objs'[j].ver = objs[j].ver
                         /\ objs'[j].generation = objs[j].generation
                         /\ objs'[j].dropped = objs[j].dropped
                         /\ DOMAIN objs'[j] = ObjectFields
      /\ DOMAIN objs' = Incs
  BY <1>2, <1>5, HoldersChange
<1>7. PICK k : k = [op |-> op, name |-> n, inc |-> i, gen |-> 0]
  OBVIOUS
<1>8. k \in Jobs /\ k.op = op /\ k.name = n /\ k.inc = i
  BY <1>2, <1>7, JobFields
<1>9. /\ job' \in [Threads -> Jobs] /\ job'[t] = k /\ \A u \in Threads \ {t} : job'[u] = job[u]
  BY <1>1, <1>7, <1>8, JobChange
<1>10. /\ pc' \in [Threads -> Points] /\ pc'[t] = w /\ \A u \in Threads \ {t} : pc'[u] = pc[u]
  BY PlaceChange DEF Points
<1>11. Moves(t)
  BY <1>3, <1>8, <1>9, <1>10 DEF Moves, Still
<1>12. Shapes'
  BY <1>6, <1>9, <1>10, ObjectIs, StillTypes DEF IndInv, Shapes, TypeOK
<1>13. mutex # t
  BY DEF IndInv, CallInOrder, Creating, Marking
<1>14. /\ DirsInOrder'
       /\ \A m \in Names : SlotInOrder(m)' /\ DropInOrder(m)'
       /\ \A m \in Names \ exposed : PromiseInOrder(m)'
       /\ \A u \in Threads \ {t} : CallInOrder(u)' /\ SnapshotInOrder(u)'
  <2>1. \A j \in Incs : objs'[j].saving = objs[j].saving /\ objs'[j].ver >= objs[j].ver
    BY <1>6, ObjectIs
  <2>2. \A u \in Threads : pc[u] \in Saving => job[u].inc \in Incs
    BY Types DEF Saving
  <2>3. \A m \in Names : slots[m] # None => slots[m] \in Incs
    BY OneName
  <2>4. HeldBack(t)
    BY DEF HeldBack, Holding, Saving
  <2>5. created' >= created
    BY CatalogAssumption DEF IndInv, Shapes
  <2> QED
    BY <1>6, <1>10, <1>11, <1>12, <2>1, <2>2, <2>3, <2>4, <2>5, StillFrame
<1>15. ASSUME NEW j \in Incs PROVE HoldersInOrder(j)'
  <2>1. CASE j # i
    <3>1. objs[j].saving # t
      BY CatalogAssumption DEF IndInv, HoldersInOrder, Saving
    <3>2. pc[t] \notin Holding
      BY DEF Holding, Saving
    <3> QED
      BY <1>6, <1>8, <1>9, <1>11, <2>1, <3>1, <3>2, HoldersFrame DEF Still
  <2>2. CASE j = i
    <3>1. Users(i)' = Users(i) \cup {t}
      BY <1>8, <1>9, <1>10 DEF Users, Holding
    <3>2. HoldersInOrder(i) /\ objs[i].saving \in Threads \cup {None}
      BY <1>2, ObjectIs DEF IndInv
    <3>3. objs[i].saving # None => objs[i].saving # t
      BY <3>2 DEF HoldersInOrder, Saving
    <3> QED
      BY <1>4, <1>6, <1>9, <1>10, <2>2, <3>1, <3>2, <3>3 DEF HoldersInOrder, Still
  <2> QED
    BY <2>1, <2>2
<1>16. CallInOrder(t)' /\ SnapshotInOrder(t)'
  BY <1>1, <1>2, <1>3, <1>6, <1>8, <1>9, <1>10, <1>13, CatalogAssumption, ZenonT(60)
  DEF CallInOrder, SnapshotInOrder, Still, Creating, Marking, Holding, Saving
<1> QED
  BY <1>12, <1>14, <1>15, <1>16, Together DEF Still

\* Both are that step.
LEMMA GetStep ==
    ASSUME IndInv, NEW t \in Threads, NEW n \in Names, Get(t, n) \/ Snapshot(t, n)
    PROVE  IndInv'
<1>1. CASE Get(t, n)
  BY <1>1, ReferenceStep DEF Get, Still, store, history
<1>2. CASE Snapshot(t, n)
  BY <1>2, ReferenceStep DEF Snapshot, Still, store, history
<1> QED
  BY <1>1, <1>2

\* A thread that is idle.
LEMMA IdleCall ==
    ASSUME NEW t \in Threads, pc'[t] = "idle", job'[t] = NoJob, mutex' # t
    PROVE  CallInOrder(t)' /\ SnapshotInOrder(t)'
  BY NoJobFields DEF CallInOrder, SnapshotInOrder, Creating, Marking, Holding, Saving

\* A call returns.
LEMMA ReturnPlace ==
    ASSUME IndInv, NEW t \in Threads, Return(t)
    PROVE  /\ pc' \in [Threads -> Points] /\ pc'[t] = "idle"
           /\ job' \in [Threads -> Jobs] /\ job'[t] = NoJob
           /\ \A u \in Threads \ {t} : pc'[u] = pc[u] /\ job'[u] = job[u]
  BY NoJobFields, PlaceChange, JobChange, ZenonT(60) DEF Return, Points

\* A promise.
LEMMA PromiseChange ==
    ASSUME IndInv, NEW n \in Names, NEW present, NEW inc, NEW ver \in Nat,
           Promise(n, present, inc, ver)
    PROVE  /\ DOMAIN promised' = Names
           /\ \A m \in Names : /\ DOMAIN promised'[m] = {"present", "inc", "ver"}
                               /\ promised'[m].ver \in Nat
           /\ promised'[n].present = present /\ promised'[n].inc = inc /\ promised'[n].ver = ver
           /\ \A m \in Names \ {n} : promised'[m] = promised[m]
  BY DEF Promise, IndInv, Shapes

\* No thread with the mutex is elsewhere.
LEMMA MutexHolder ==
    ASSUME IndInv, NEW t \in Threads
    PROVE  /\ mutex \in Threads \cup {None}
           /\ mutex = t <=> pc[t] \in Creating \cup Marking
           /\ mutex = None => mutex # t
  BY CatalogAssumption DEF IndInv, CallInOrder, Shapes, TypeOK

\* The promises of names that are being created or dropped.
LEMMA PromiseMaybe ==
    ASSUME NEW n \in Names, promised'[n].present = "maybe"
    PROVE  PromiseInOrder(n)'
  BY DEF PromiseInOrder

\* A user changes the collection.
LEMMA WriteStep ==
    ASSUME IndInv, NEW t \in Threads, Write(t)
    PROVE  IndInv'
<1>1. PICK i : i = job[t].inc
  OBVIOUS
<1>2. i \in Incs /\ objs[i].ver < MaxVer /\ pc[t] = "using"
  BY <1>1, Types DEF Write
<1>3. PICK o : o = [objs[i] EXCEPT !.ver = @ + 1]
  OBVIOUS
<1>4. /\ DOMAIN o = ObjectFields /\ o.holders = objs[i].holders /\ o.saving = objs[i].saving
      /\ o.ver = objs[i].ver + 1 /\ o.generation = objs[i].generation
      /\ o.dropped = objs[i].dropped
  BY <1>2, <1>3, ObjectIs DEF ObjectFields
<1>5. ObjectTo(i, o)
  BY <1>1, <1>2, <1>3, <1>4, ObjectChange DEF Write
<1>6. /\ UNCHANGED <<pc, job, mutex, created, promised>> /\ Still
  BY DEF Write, Still, store, history
<1>7. \A j \in Incs : /\ objs'[j].holders = objs[j].holders /\ objs'[j].saving = objs[j].saving
                      /\ objs'[j].generation = objs[j].generation
                      /\ objs'[j].dropped = objs[j].dropped
                      /\ objs'[j].ver \in 0..MaxVer /\ objs'[j].ver >= objs[j].ver
                      /\ DOMAIN objs'[j] = ObjectFields
  <2>1. objs[i].ver + 1 \in 0..MaxVer
    BY <1>2, ObjectIs, CatalogAssumption
  <2> QED
    BY <1>2, <1>4, <1>5, <2>1, ObjectIs DEF ObjectTo
<1>8. Moves(t)
  BY <1>6 DEF Moves, Still
<1>9. Shapes'
  BY <1>5, <1>6, <1>7, ObjectIs, StillTypes DEF IndInv, Shapes, TypeOK, Jobs, ObjectTo
<1>10. /\ DirsInOrder'
       /\ \A m \in Names : SlotInOrder(m)' /\ DropInOrder(m)'
       /\ \A m \in Names \ exposed : PromiseInOrder(m)'
       /\ \A u \in Threads \ {t} : CallInOrder(u)' /\ SnapshotInOrder(u)'
  <2>1. \A u \in Threads : pc[u] \in Saving => job[u].inc \in Incs
    BY Types DEF Saving
  <2>2. \A m \in Names : slots[m] # None => slots[m] \in Incs
    BY OneName
  <2>3. HeldBack(t)
    BY <1>6 DEF HeldBack
  <2>4. created' >= created
    BY <1>6, CatalogAssumption DEF IndInv, Shapes
  <2> QED
    BY <1>2, <1>6, <1>7, <1>8, <1>9, <2>1, <2>2, <2>3, <2>4, StillFrame
<1>11. ASSUME NEW j \in Incs PROVE HoldersInOrder(j)'
  <2>1. objs[j].saving # t
    BY <1>2, CatalogAssumption DEF IndInv, HoldersInOrder, Saving
  <2> QED
    BY <1>6, <1>7, <1>8, <2>1, HoldersFrame DEF Still
<1>12. CallInOrder(t)' /\ SnapshotInOrder(t)'
  <2>1. CallInOrder(t)
    BY DEF IndInv
  <2> QED
    BY <1>1, <1>2, <1>6, <1>7, <2>1
    DEF CallInOrder, SnapshotInOrder, Still, Creating, Marking, Holding, Saving
<1> QED
  BY <1>6, <1>9, <1>10, <1>11, <1>12, Together DEF Still

\* A reference goes; the last one of a dropped collection stays to delete it.
LEMMA ReleaseStep ==
    ASSUME IndInv, NEW t \in Threads, Release(t)
    PROVE  IndInv'
<1>1. PICK i, n : i = job[t].inc /\ n = job[t].name
  OBVIOUS
<1>2. /\ i \in Incs /\ n \in Names /\ pc[t] \in {"using", "release"} /\ pc[t] \in Holding
      /\ pc[t] \notin Saving /\ i = disk[n].inc
  BY <1>1, OneName DEF Release, Holding, Saving
<1>3. PICK left : left = objs[i].holders \ {t}
  OBVIOUS
<1>4. objs' = [objs EXCEPT ![i].holders = left]
  BY <1>1, <1>3 DEF Release
<1>5. /\ objs'[i].holders = left /\ objs'[i].saving = objs[i].saving
      /\ \A j \in Incs \ {i} : objs'[j] = objs[j]
      /\ \A j \in Incs : /\ objs'[j].ver = objs[j].ver
                         /\ objs'[j].generation = objs[j].generation
                         /\ objs'[j].dropped = objs[j].dropped
                         /\ DOMAIN objs'[j] = ObjectFields
      /\ DOMAIN objs' = Incs
  BY <1>2, <1>4, HoldersChange
<1>6. objs[i].dropped <=> n \in dropping
  BY <1>1, <1>2 DEF IndInv, CallInOrder
<1>7. \/ left = {} /\ n \in dropping /\ Goto(t, "delete") /\ UNCHANGED <<job, promised>>
      \/ ~(left = {} /\ n \in dropping) /\ ReturnOf(t)
  BY <1>1, <1>3, <1>6 DEF Release
<1>8. /\ pc' \in [Threads -> Points] /\ job' \in [Threads -> Jobs]
      /\ (pc'[t] = "delete" /\ job'[t] = job[t]) \/ (pc'[t] = "idle" /\ job'[t] = NoJob)
      /\ \A u \in Threads \ {t} : pc'[u] = pc[u] /\ job'[u] = job[u]
  <2>1. CASE Goto(t, "delete") /\ job' = job
    <3>1. job \in [Threads -> Jobs]
      BY DEF IndInv, Shapes, TypeOK, Jobs
    <3>2. "delete" \in Points
      BY DEF Points
    <3>3. pc' \in [Threads -> Points] /\ pc'[t] = "delete" /\ \A u \in Threads \ {t} : pc'[u] = pc[u]
      BY <2>1, <3>2, PlaceChange
    <3> QED
      BY <2>1, <3>1, <3>3
  <2>2. CASE Return(t)
    BY <2>2, ReturnPlace
  <2> QED
    BY <1>7, <2>1, <2>2 DEF ReturnOf
<1>9. Still /\ UNCHANGED <<mutex, created>>
  BY DEF Release, Still, store
<1>10. Moves(t)
  BY <1>8, <1>9, NoJobFields DEF Moves, Still
<1>11. /\ DOMAIN promised' = Names
       /\ \A m \in Names : /\ DOMAIN promised'[m] = {"present", "inc", "ver"}
                           /\ promised'[m].ver \in Nat
       /\ promised' = promised \/ (n \in dropping /\ promised'[n].present = "no")
       /\ \A m \in Names \ {n} : promised'[m] = promised[m]
  <2>1. CASE promised' = promised
    BY <2>1 DEF IndInv, Shapes
  <2>2. CASE job[t].op = "drop" /\ Promise(n, "no", 0, 0)
    <3>1. n \in dropping
      BY <1>1, <1>2, <2>2 DEF IndInv, CallInOrder
    <3> QED
      BY <1>2, <2>2, <3>1, PromiseChange
  <2> QED
    BY <1>1, <1>7, <2>1, <2>2 DEF ReturnOf
<1>12. Shapes'
  BY <1>5, <1>8, <1>9, <1>11, ObjectIs, StillTypes DEF IndInv, Shapes, TypeOK
<1>13. /\ HoldersInOrder(i) /\ HoldersInOrder(i)' /\ Users(i)' = Users(i) \ {t}
  <2>1. Users(i)' = Users(i) \ {t}
    BY <1>8 DEF Users, Holding, Saving
  <2>2. HoldersInOrder(i) /\ objs[i].saving \in Threads \cup {None}
    BY <1>2, ObjectIs DEF IndInv
  <2>3. objs[i].saving # None => objs[i].saving \in Threads \ {t}
    BY <1>2, <2>2 DEF HoldersInOrder
  <2>4. "catalog" # t
    BY CatalogAssumption
  <2> QED
    BY <1>3, <1>5, <1>8, <1>9, <2>1, <2>2, <2>3, <2>4 DEF HoldersInOrder, Still
<1>14. n \in dropping /\ left # {} => \E u \in Threads \ {t} : job[u].name = n /\ pc[u] \in Holding
  <2>1. SUFFICES ASSUME n \in dropping, NEW u \in left
                 PROVE  u \in Threads \ {t} /\ job[u].name = n /\ pc[u] \in Holding
    OBVIOUS
  <2>2. slots[n] = None
    BY <1>2, <2>1 DEF IndInv, SlotInOrder
  <2>3. ~ \E m \in Names : slots[m] = i
    BY <1>1, <1>2, <2>2, OneName, NoneAssumption
  <2>4. u \in Users(i) \ {t}
    BY <1>3, <1>13, <2>1, <2>3 DEF HoldersInOrder
  <2> QED
    BY <1>1, <1>2, <2>4, OneName DEF Users
<1>15. HeldBack(t)
  <2>1. SUFFICES ASSUME n \in dropping
                 PROVE  \E u \in Threads : job'[u].name = n /\ pc'[u] \in Holding \cup {"delete"}
    BY <1>1 DEF HeldBack
  <2>2. CASE left # {}
    BY <1>8, <1>14, <2>1, <2>2
  <2>3. CASE left = {}
    BY <1>1, <1>7, <1>8, <2>1, <2>3, PlaceChange DEF Points
  <2> QED
    BY <2>2, <2>3
<1>16. /\ DirsInOrder'
       /\ \A m \in Names : SlotInOrder(m)' /\ DropInOrder(m)'
       /\ \A m \in Names \ exposed : promised'[m] = promised[m] => PromiseInOrder(m)'
       /\ \A u \in Threads \ {t} : CallInOrder(u)' /\ SnapshotInOrder(u)'
  <2>1. \A j \in Incs : objs'[j].saving = objs[j].saving /\ objs'[j].ver >= objs[j].ver
    BY <1>5, ObjectIs
  <2>2. \A u \in Threads : pc[u] \in Saving => job[u].inc \in Incs
    BY Types DEF Saving
  <2>3. \A m \in Names : slots[m] # None => slots[m] \in Incs
    BY OneName
  <2>4. created' >= created
    BY <1>9, CatalogAssumption DEF IndInv, Shapes
  <2>5. \A m \in Names : promised'[m] = promised[m] \/ m \in dropping
    BY <1>11
  <2> QED
    BY <1>2, <1>5, <1>8, <1>9, <1>10, <1>12, <1>15, <2>1, <2>2, <2>3, <2>4, <2>5, StillFrame
<1>17. ASSUME NEW m \in Names \ exposed PROVE PromiseInOrder(m)'
  <2>1. CASE promised'[m] = promised[m]
    BY <1>16, <2>1
  <2>2. CASE m = n /\ n \in dropping /\ promised'[n].present = "no"
    <3>1. disk[n].marker /\ synced[n].marker
      BY <2>2 DEF IndInv, DropInOrder
    <3>2. Restored(disk[n])' = None /\ Restored(synced[n])' = None
      BY <1>9, <3>1 DEF Restored, Still
    <3> QED
      BY <2>2, <3>2 DEF PromiseInOrder
  <2> QED
    BY <1>11, <2>1, <2>2
<1>18. ASSUME NEW j \in Incs PROVE HoldersInOrder(j)'
  <2>1. CASE j # i
    <3>1. objs[j].saving # t
      BY <1>2, CatalogAssumption DEF IndInv, HoldersInOrder
    <3>2. pc'[t] \notin Holding
      BY <1>8 DEF Holding, Saving
    <3> QED
      BY <1>1, <1>5, <1>9, <1>10, <2>1, <3>1, <3>2, HoldersFrame DEF Still
  <2> QED
    BY <1>13, <2>1
<1>19. CallInOrder(t)' /\ SnapshotInOrder(t)'
  <2>1. mutex' # t
    BY <1>2, <1>9, MutexHolder DEF Creating, Marking
  <2>2. CASE left = {} /\ n \in dropping /\ pc'[t] = "delete" /\ job' = job
    <3>1. ASSUME NEW u \in Threads \ {t}, job[u].name = n PROVE FALSE
      <4>1. pc[u] # "idle" /\ CallInOrder(u) /\ SlotInOrder(n)
        BY <1>2, <3>1, CatalogAssumption DEF IndInv, CallInOrder
      <4>2. job[u].inc \in Incs /\ pc[u] \in Points
        BY <4>1, Types DEF IndInv, Shapes, TypeOK
      <4>3. pc[u] \notin Holding
        BY <1>2, <1>3, <1>13, <2>2, <3>1, <4>1 DEF HoldersInOrder, Users, CallInOrder
      <4>4. pc[u] \notin Creating \cup Marking
        BY <2>2, <3>1, <4>1, <4>2, NoneAssumption DEF CallInOrder, SlotInOrder
      <4>5. pc[u] # "delete"
        BY <1>1, <3>1, <4>1 DEF CallInOrder
      <4> QED
        BY <4>1, <4>2, <4>3, <4>4, <4>5 DEF Points, Creating, Marking, Holding, Saving
    <3>2. job[t].inc # 0 /\ n # None
      BY <1>1, <1>2, CatalogAssumption DEF Incs
    <3> QED
      BY <1>1, <1>9, <2>1, <2>2, <3>1, <3>2
      DEF CallInOrder, SnapshotInOrder, Still, Creating, Marking, Holding, Saving
  <2>3. CASE pc'[t] = "idle" /\ job'[t] = NoJob
    BY <2>1, <2>3, IdleCall
  <2> QED
    BY <1>7, <1>8, <2>2, <2>3 DEF ReturnOf, Return, Goto
<1> QED
  BY <1>9, <1>12, <1>16, <1>17, <1>18, <1>19, Together DEF Still

-----------------------------------------------------------------------------
\* A step of a thread that changes no object: it moves, and takes or gives up
\* the mutex.
LEMMA PlainFrame ==
    ASSUME IndInv, NEW t \in Threads, Moves(t), Still, UNCHANGED objs,
           pc' \in [Threads -> Points], job' \in [Threads -> Jobs],
           mutex' \in Threads \cup {None}, created' \in 0..MaxIncs, created' >= created,
           DOMAIN promised' = Names,
           \A n \in Names : /\ DOMAIN promised'[n] = {"present", "inc", "ver"}
                            /\ promised'[n].ver \in Nat,
           \A n \in Names : promised'[n] = promised[n] \/
               (mutex \in {t, None} /\ promised'[n].present = "maybe"),
           pc[t] # "sync_mark", pc[t] \notin Saving, pc'[t] \notin {"sync_save", "manifest"},
           HeldBack(t),
           pc[t] \in Holding <=> pc'[t] \in Holding, pc'[t] \in Holding => job'[t].inc = job[t].inc,
           CallInOrder(t)', SnapshotInOrder(t)'
    PROVE  IndInv'
<1>1. Shapes'
  BY StillTypes, ObjectIs DEF IndInv, Shapes
<1>2. /\ DirsInOrder'
      /\ \A m \in Names : SlotInOrder(m)' /\ DropInOrder(m)'
      /\ \A m \in Names \ exposed : promised'[m] = promised[m] => PromiseInOrder(m)'
      /\ \A u \in Threads \ {t} : CallInOrder(u)' /\ SnapshotInOrder(u)'
  <2>1. \A j \in Incs : objs'[j].ver >= objs[j].ver
    BY ObjectIs
  <2> QED
    BY <1>1, <2>1, StillFrame
<1>3. ASSUME NEW m \in Names \ exposed PROVE PromiseInOrder(m)'
  BY <1>2, PromiseMaybe
<1>4. ASSUME NEW j \in Incs PROVE HoldersInOrder(j)'
  <2>1. objs[j].saving # t
    BY CatalogAssumption DEF IndInv, HoldersInOrder
  <2> QED
    BY <2>1, HoldersFrame DEF Still
<1> QED
  BY <1>1, <1>2, <1>3, <1>4, Together DEF Still

\* A thread with the mutex moves on, or gives up and returns.
LEMMA GiveUp ==
    ASSUME IndInv, NEW t \in Threads, pc[t] \in {"rename", "sync_create", "mark"},
           Return(t), mutex' = None, Still, UNCHANGED <<objs, created, promised>>
    PROVE  IndInv'
<1>1. /\ pc' \in [Threads -> Points] /\ pc'[t] = "idle"
      /\ job' \in [Threads -> Jobs] /\ job'[t] = NoJob
      /\ \A u \in Threads \ {t} : pc'[u] = pc[u] /\ job'[u] = job[u]
  BY ReturnPlace
<1>2. mutex = t
  BY MutexHolder DEF Creating, Marking
<1>3. Moves(t)
  BY <1>1, <1>2, NoJobFields DEF Moves
<1>4. CallInOrder(t)' /\ SnapshotInOrder(t)'
  BY <1>1, IdleCall, CatalogAssumption
<1>5. created \in 0..MaxIncs /\ created' >= created
  BY CatalogAssumption DEF IndInv, Shapes
<1>6. HeldBack(t)
  BY DEF HeldBack, Holding, Saving
<1>7. pc[t] \notin Holding /\ pc'[t] \notin Holding /\ pc[t] \notin Saving
  BY <1>1 DEF Holding, Saving
<1>8. /\ DOMAIN promised' = Names
      /\ \A n \in Names : /\ DOMAIN promised'[n] = {"present", "inc", "ver"}
                          /\ promised'[n].ver \in Nat
  BY DEF IndInv, Shapes
<1> QED
  BY <1>1, <1>3, <1>4, <1>5, <1>6, <1>7, <1>8, PlainFrame

\* create() begins.
LEMMA CreateStep ==
    ASSUME IndInv, NEW t \in Threads, NEW n \in Names, Create(t, n)
    PROVE  IndInv'
<1>1. /\ pc[t] = "idle" /\ created < MaxIncs /\ mutex = None /\ slots[n] = None
      /\ n \notin dropping /\ mutex' = t /\ created' = created + 1 /\ Still /\ UNCHANGED objs
  BY DEF Create, Still, store
<1>2. /\ created \in Nat /\ created' \in 0..MaxIncs /\ created' # 0 /\ created' >= created
      /\ 0 \in 0..MaxGen
  BY <1>1, CatalogAssumption DEF IndInv, Shapes
<1>3. PICK k : k = [op |-> "create", name |-> n, inc |-> created + 1, gen |-> 0]
  OBVIOUS
<1>4. k \in Jobs /\ k.op = "create" /\ k.name = n /\ k.inc = created'
  BY <1>1, <1>2, <1>3, JobFields
<1>5. job' \in [Threads -> Jobs] /\ job'[t] = k /\ \A u \in Threads \ {t} : job'[u] = job[u]
  BY <1>3, <1>4, JobChange DEF Create
<1>6. pc' \in [Threads -> Points] /\ pc'[t] = "clear" /\ \A u \in Threads \ {t} : pc'[u] = pc[u]
  BY PlaceChange DEF Create, Points
<1>7. Moves(t)
  BY <1>1, <1>4, <1>5, <1>6 DEF Moves, Still
<1>8. /\ DOMAIN promised' = Names
      /\ \A m \in Names : /\ DOMAIN promised'[m] = {"present", "inc", "ver"}
                          /\ promised'[m].ver \in Nat
      /\ promised'[n].present = "maybe" /\ \A m \in Names \ {n} : promised'[m] = promised[m]
  BY PromiseChange DEF Create
<1>9. \A m \in Names : disk'[m].inc # created' /\ synced'[m].inc # created'
  <2>1. SUFFICES ASSUME NEW m \in Names
                 PROVE  disk[m].inc # created' /\ synced[m].inc # created'
    BY <1>1 DEF Still
  <2>2. disk[m].inc <= created /\ synced[m].inc <= created
    BY DEF IndInv, DirsInOrder, DirInOrder
  <2>3. disk[m].inc \in Nat /\ synced[m].inc \in Nat
    BY Types, DirFields, CatalogAssumption
  <2> QED
    BY <1>1, <1>2, <2>2, <2>3
<1>10. CallInOrder(t)' /\ SnapshotInOrder(t)'
  <2>1. n # None
    BY CatalogAssumption
  <2> QED
    BY <1>1, <1>2, <1>4, <1>5, <1>6, <1>8, <1>9, <2>1
    DEF CallInOrder, SnapshotInOrder, Still, Creating, Marking, Holding, Saving
<1>11. HeldBack(t) /\ pc[t] \notin Holding /\ pc'[t] \notin Holding /\ pc[t] \notin Saving
  BY <1>1, <1>6 DEF HeldBack, Holding, Saving
<1> QED
  BY <1>1, <1>2, <1>5, <1>6, <1>7, <1>8, <1>10, <1>11, PlainFrame

\* drop() begins.
LEMMA DropStep ==
    ASSUME IndInv, NEW t \in Threads, NEW n \in Names, Drop(t, n)
    PROVE  IndInv'
<1>1. /\ pc[t] = "idle" /\ mutex = None /\ slots[n] # None
      /\ mutex' = t /\ UNCHANGED created /\ Still /\ UNCHANGED objs
  BY DEF Drop, Still, store
<1>2. /\ slots[n] \in Incs /\ slots[n] \in 0..MaxIncs /\ slots[n] # 0 /\ 0 \in 0..MaxGen
      /\ n \notin dropping /\ created \in 0..MaxIncs /\ created' >= created
  BY <1>1, OneName, CatalogAssumption DEF IndInv, Shapes, SlotInOrder, Incs
<1>3. PICK k : k = [op |-> "drop", name |-> n, inc |-> slots[n], gen |-> 0]
  OBVIOUS
<1>4. k \in Jobs /\ k.op = "drop" /\ k.name = n /\ k.inc = slots[n]
  BY <1>2, <1>3, JobFields
<1>5. job' \in [Threads -> Jobs] /\ job'[t] = k /\ \A u \in Threads \ {t} : job'[u] = job[u]
  BY <1>3, <1>4, JobChange DEF Drop
<1>6. pc' \in [Threads -> Points] /\ pc'[t] = "mark" /\ \A u \in Threads \ {t} : pc'[u] = pc[u]
  BY PlaceChange DEF Drop, Points
<1>7. Moves(t)
  BY <1>1, <1>2, <1>4, <1>5, <1>6 DEF Moves, Still
<1>8. /\ DOMAIN promised' = Names
      /\ \A m \in Names : /\ DOMAIN promised'[m] = {"present", "inc", "ver"}
                          /\ promised'[m].ver \in Nat
      /\ promised'[n].present = "maybe" /\ \A m \in Names \ {n} : promised'[m] = promised[m]
  BY DEF Drop, IndInv, Shapes
<1>9. CallInOrder(t)' /\ SnapshotInOrder(t)'
  <2>1. n # None
    BY CatalogAssumption
  <2> QED
    BY <1>1, <1>2, <1>4, <1>5, <1>6, <1>8, <2>1
    DEF CallInOrder, SnapshotInOrder, Still, Creating, Marking, Holding, Saving
<1>10. HeldBack(t) /\ pc[t] \notin Holding /\ pc'[t] \notin Holding /\ pc[t] \notin Saving
  BY <1>1, <1>6 DEF HeldBack, Holding, Saving
<1> QED
  BY <1>1, <1>2, <1>5, <1>6, <1>7, <1>8, <1>9, <1>10, PlainFrame

\* drop() waits for a snapshot in progress.
LEMMA AwaitSnapshotStep ==
    ASSUME IndInv, NEW t \in Threads, AwaitSnapshot(t)
    PROVE  IndInv'
<1>1. /\ pc[t] = "await_snapshot" /\ Still /\ UNCHANGED <<job, mutex, objs, created, promised>>
  BY DEF AwaitSnapshot, Still, memory, store, history
<1>2. pc' \in [Threads -> Points] /\ pc'[t] = "release" /\ \A u \in Threads \ {t} : pc'[u] = pc[u]
  BY PlaceChange DEF AwaitSnapshot, Points
<1>3. Moves(t)
  BY <1>1, <1>2 DEF Moves, Still
<1>4. CallInOrder(t)' /\ SnapshotInOrder(t)'
  <2>1. CallInOrder(t)
    BY DEF IndInv
  <2> QED
    BY <1>1, <1>2, <2>1
    DEF CallInOrder, SnapshotInOrder, Still, Creating, Marking, Holding, Saving
<1>5. HeldBack(t) /\ pc[t] \in Holding /\ pc'[t] \in Holding /\ pc[t] \notin Saving
  BY <1>1, <1>2 DEF HeldBack, Holding, Saving
<1>6. /\ DOMAIN promised' = Names
      /\ \A m \in Names : /\ DOMAIN promised'[m] = {"present", "inc", "ver"}
                          /\ promised'[m].ver \in Nat
      /\ created' \in 0..MaxIncs /\ created' >= created
      /\ job' \in [Threads -> Jobs] /\ mutex' \in Threads \cup {None}
  BY <1>1, CatalogAssumption DEF IndInv, Shapes, TypeOK, Jobs
<1> QED
  BY <1>1, <1>2, <1>3, <1>4, <1>5, <1>6, PlainFrame

-----------------------------------------------------------------------------
\* A step of a thread at one name, and on the collection whose files are there.
Touches(t, n) ==
    /\ job[t].name = n /\ job'[t].name \in {n, None}
    /\ pc'[t] \in Holding => job'[t].inc = disk[n].inc
    /\ \A m \in Names \ {n} :
          /\ slots'[m] = slots[m] /\ (m \in dropping' <=> m \in dropping)
          /\ disk'[m] = disk[m] /\ synced'[m] = synced[m]
          /\ (m \in exposed' <=> m \in exposed) /\ promised'[m] = promised[m]
    /\ slots'[n] \in {slots[n], None, disk[n].inc}
    /\ \A i \in Incs \ {disk[n].inc} : objs'[i] = objs[i]
    /\ created' = created

\* The other names do not notice.
LEMMA OtherNames ==
    ASSUME IndInv, NEW t \in Threads, NEW n \in Names, Moves(t), Touches(t, n), Shapes',
           NEW m \in Names \ {n}
    PROVE  SlotInOrder(m)' /\ DropInOrder(m)' /\ (m \notin exposed' => PromiseInOrder(m)')
<1>1. disk[m].inc # disk[n].inc \/ disk[m].inc = 0
  BY DEF IndInv, DirsInOrder
<1>2. slots[m] # None => slots[m] \in Incs /\ slots[m] # disk[n].inc
  BY <1>1, OneName, CatalogAssumption DEF Incs
<1>3. SlotKept(m)
  <2>1. disk[m] \in Directories /\ disk[m].manifest \in Nat
    BY Types, DirFields, CatalogAssumption
  <2> QED
    BY <1>2, <2>1 DEF SlotKept, Touches
<1>4. SlotInOrder(m)'
  BY <1>3, SlotFrame DEF Touches
<1>5. DropInOrder(m)'
  BY DropFrame DEF Touches
<1>6. ASSUME m \notin exposed' PROVE PromiseInOrder(m)'
  <2>1. \A i \in Incs : i = disk[m].inc => objs'[i].ver \in Nat /\ objs'[i].ver >= objs[i].ver
    BY <1>1, ObjectIs, CatalogAssumption DEF Touches, Incs
  <2>2. job'[t].name # m
    BY CatalogAssumption DEF Touches
  <2> QED
    BY <1>6, <2>1, <2>2, PromiseFrame DEF Touches
<1> QED
  BY <1>4, <1>5, <1>6

\* Nor do the threads at other names.
LEMMA OtherThreads ==
    ASSUME IndInv, NEW t \in Threads, NEW n \in Names, Moves(t), Touches(t, n),
           NEW u \in Threads \ {t}, job[u].name # n
    PROVE  CallInOrder(u)' /\ SnapshotInOrder(u)'
<1>1. pc[u] # "idle" => job[u].name \in Names /\ job[u].inc \in Incs
  BY Types
<1>2. pc[u] \in Holding => job[u].inc # disk[n].inc
  BY <1>1, OneName, CatalogAssumption DEF IndInv, DirsInOrder, Incs
<1>3. pc[u] # "idle" => CallKept(u)
  BY <1>1, <1>2 DEF CallKept, Touches, Holding, Saving
<1>4. pc[u] \in Saving => SnapshotKept(u)
  <2>1. pc[u] # "idle" => objs[job[u].inc].ver \in Nat
    BY <1>1, ObjectIs
  <2> QED
    BY <1>1, <1>2, <2>1 DEF SnapshotKept, Touches, Holding, Saving
<1> QED
  BY <1>3, <1>4, CallFrame, SnapshotFrame

\* Nor do the other collections.
LEMMA OtherObjects ==
    ASSUME IndInv, NEW t \in Threads, NEW n \in Names, Moves(t), Touches(t, n),
           NEW i \in Incs, i # disk[n].inc
    PROVE  HoldersInOrder(i)'
<1>1. slots[n] # i /\ slots'[n] # i
  BY OneName, NoneAssumption DEF Touches
<1>2. ~(pc[t] \in Holding /\ job[t].inc = i) /\ ~(pc'[t] \in Holding /\ job'[t].inc = i)
  BY OneName DEF Touches
<1>3. objs[i].saving # t
  BY <1>2, CatalogAssumption DEF IndInv, HoldersInOrder, Holding
<1>4. \A m \in Names : slots'[m] = i <=> slots[m] = i
  BY <1>1 DEF Touches
<1> QED
  BY <1>2, <1>3, <1>4, HoldersFrame DEF Touches

\* What is left to show of a step at one name.
LEMMA StepAt ==
    ASSUME IndInv, NEW t \in Threads, NEW n \in Names, Moves(t), Touches(t, n),
           Shapes', DirsInOrder', SlotInOrder(n)', DropInOrder(n)',
           n \notin exposed' => PromiseInOrder(n)',
           \A i \in Incs : i = disk[n].inc => HoldersInOrder(i)',
           \A u \in Threads \ {t} : job[u].name = n => CallInOrder(u)' /\ SnapshotInOrder(u)',
           CallInOrder(t)', SnapshotInOrder(t)'
    PROVE  IndInv'
<1>1. \A m \in Names : SlotInOrder(m)' /\ DropInOrder(m)'
  BY OtherNames
<1>2. \A m \in Names \ exposed' : PromiseInOrder(m)'
  BY OtherNames
<1>3. \A i \in Incs : HoldersInOrder(i)'
  BY OtherObjects
<1>4. \A u \in Threads \ {t} : CallInOrder(u)' /\ SnapshotInOrder(u)'
  BY OtherThreads
<1> QED
  BY <1>1, <1>2, <1>3, <1>4, Together

\* The directories, when those of one name change.
LEMMA DirsAt ==
    ASSUME IndInv, NEW n \in Names, created' = created,
           \A m \in Names \ {n} : /\ disk'[m] = disk[m] /\ synced'[m] = synced[m]
                                  /\ (m \in exposed => m \in exposed'),
           DirInOrder(disk[n])', DirInOrder(synced[n])',
           \A d \in {disk'[n], synced'[n]} :
              \/ d.inc \in {disk[n].inc, synced[n].inc, 0}
              \/ \A m \in Names \ {n} : disk[m].inc # d.inc /\ synced[m].inc # d.inc,
           n \notin exposed' => Complete(disk'[n]) /\ Complete(synced'[n])
    PROVE  DirsInOrder'
<1>1. DirsInOrder
  BY DEF IndInv
<1>2. \A m \in Names : DirInOrder(disk[m])' /\ DirInOrder(synced[m])'
  BY <1>1 DEF DirsInOrder, DirInOrder
<1>3. \A m \in Names \ {n} : \A d \in {disk'[m], synced'[m]}, e \in {disk'[n], synced'[n]} :
          d.inc = e.inc => d.inc = 0
  BY <1>1 DEF DirsInOrder
<1>4. ASSUME NEW m \in Names, NEW k \in Names, NEW d \in {disk'[m], synced'[m]},
             NEW e \in {disk'[k], synced'[k]}, d.inc = e.inc
      PROVE  m = k \/ d.inc = 0
  <2>1. CASE m # n /\ k # n
    BY <1>1, <1>4, <2>1 DEF DirsInOrder
  <2> QED
    BY <1>3, <1>4, <2>1
<1>5. ASSUME NEW m \in Names \ exposed' PROVE Complete(disk'[m]) /\ Complete(synced'[m])
  <2>1. CASE m # n
    <3>1. Complete(disk[m]) /\ Complete(synced[m])
      BY <1>1, <2>1 DEF DirsInOrder
    <3> QED
      BY <2>1, <3>1
  <2> QED
    BY <2>1
<1> QED
  BY <1>2, <1>4, <1>5 DEF DirsInOrder, Complete

\* A change of a directory, and its sync.
LEMMA DirectoryChange ==
    ASSUME IndInv, NEW n \in Names, NEW d \in Directories, Change(n, d) \/ (d = disk[n] /\ Sync(n))
    PROVE  /\ DOMAIN disk' = Names /\ DOMAIN synced' = Names
           /\ disk'[n] = d
           /\ \/ Change(n, d) /\ synced'[n] = synced[n]
              \/ Sync(n) /\ d = disk[n] /\ synced'[n] = disk[n]
           /\ \A m \in Names \ {n} : disk'[m] = disk[m] /\ synced'[m] = synced[m]
           /\ \A m \in Names : disk'[m] \in Directories /\ synced'[m] \in Directories
  BY DEF IndInv, Shapes, TypeOK, Change, Sync

-----------------------------------------------------------------------------
\* What open() makes of a directory that is there.
LEMMA RestoredIs ==
    ASSUME NEW d \in Directories, d.inc # 0
    PROVE  /\ d.marker => Restored(d) = None
           /\ ~d.marker => Restored(d) =
                 IF d.manifest = 0 THEN [inc |-> d.inc, ver |-> 0] ELSE d.files[d.manifest]
           /\ [inc |-> d.inc, ver |-> 0] # None
<1>1. d # NoDir
  BY NoDirFields
<1>2. d.inc \in Incs /\ 0 \in 0..MaxVer
  BY DirFields, CatalogAssumption DEF Incs
<1>3. [inc |-> d.inc, ver |-> 0] # None
  <2>1. [inc |-> d.inc, ver |-> 0] \in Contents
    BY <1>2 DEF Contents
  <2> QED
    BY <2>1, NoneAssumption
<1> QED
  BY <1>1, <1>3 DEF Restored, NoManifest

\* A directory that is there and complete restores something unless it is marked.
LEMMA RestoredComplete ==
    ASSUME NEW d \in Directories, d.inc # 0, Complete(d)
    PROVE  Restored(d) = None <=> d.marker
<1>1. d # NoDir
  BY NoDirFields
<1> QED
  BY <1>1, RestoredIs DEF Complete

\* The snapshot of t between its ends: nobody creates, deletes or saves there.
LEMMA SaverAt ==
    ASSUME IndInv, NEW t \in Threads, pc[t] \in Saving
    PROVE  LET n == job[t].name IN
           /\ n \in Names /\ job[t].inc \in Incs /\ job[t].gen \in Gens
           /\ disk[n].inc = job[t].inc /\ disk[n].inc # 0
           /\ disk[n] \in Directories /\ synced[n] \in Directories
           /\ \A u \in Threads \ {t} : job[u].name = n =>
                 pc[u] \in (Holding \ Saving) \cup Marking
<1>1. pc[t] # "idle" /\ pc[t] \in Holding
  BY DEF Saving, Holding
<1>2. PICK n : n = job[t].name
  OBVIOUS
<1>3. /\ n \in Names /\ job[t].inc \in Incs /\ job[t].gen \in Gens
      /\ disk[n].inc = job[t].inc /\ disk[n].inc # 0
  BY <1>1, <1>2, OneName, Types, CatalogAssumption DEF Incs
<1>4. ASSUME NEW u \in Threads \ {t}, job[u].name = n
      PROVE  pc[u] \in (Holding \ Saving) \cup Marking
  <2>1. CallInOrder(u) /\ CallInOrder(t) /\ pc[u] \in Points /\ pc[u] # "idle"
    BY <1>3, <1>4, CatalogAssumption DEF IndInv, CallInOrder, Shapes, TypeOK
  <2>2. pc[u] \notin Saving
    BY <1>2, <1>4, OneName
  <2>3. pc[u] \notin Creating
    BY <1>1, <1>2, <1>3, <1>4, <2>1, NoneAssumption DEF CallInOrder
  <2>4. pc[u] # "delete"
    BY <1>2, <1>4, <2>1 DEF CallInOrder
  <2> QED
    BY <2>1, <2>2, <2>3, <2>4 DEF Points, Holding, Saving, Creating, Marking
<1> QED
  BY <1>2, <1>3, <1>4, Types

\* A step of a snapshot that changes or syncs the directory.
LEMMA SaverStep ==
    ASSUME IndInv, NEW t \in Threads, pc[t] \in Saving, NEW n \in Names, n = job[t].name,
           NEW w \in Saving, Goto(t, w), UNCHANGED <<job, memory, history>>,
           NEW d \in Directories, Change(n, d) \/ (d = disk[n] /\ Sync(n)),
           d.inc = disk[n].inc, d.marker = disk[n].marker, d.config = disk[n].config,
           d.manifest >= disk[n].manifest,
           \A g \in Gens : d.files[g] # None => d.files[g].inc = d.inc,
           n \notin exposed => Complete(d) /\ PromiseInOrder(n)',
           SnapshotInOrder(t)'
    PROVE  IndInv'
<1>1. /\ DOMAIN disk' = Names /\ DOMAIN synced' = Names /\ disk'[n] = d
      /\ synced'[n] \in {synced[n], disk[n]} /\ (synced'[n] = synced[n] \/ synced'[n] = disk'[n])
      /\ \A m \in Names \ {n} : disk'[m] = disk[m] /\ synced'[m] = synced[m]
      /\ \A m \in Names : disk'[m] \in Directories /\ synced'[m] \in Directories
  BY DirectoryChange
<1>2. /\ n \in Names /\ job[t].inc \in Incs /\ disk[n].inc = job[t].inc /\ disk[n].inc # 0
      /\ disk[n] \in Directories /\ synced[n] \in Directories
      /\ \A u \in Threads \ {t} : job[u].name = n => pc[u] \in (Holding \ Saving) \cup Marking
  BY SaverAt
<1>3. UNCHANGED <<slots, objs, dropping, mutex, job, created, promised, exposed>>
  BY DEF memory, history
<1>4. pc' \in [Threads -> Points] /\ pc'[t] = w /\ \A u \in Threads \ {t} : pc'[u] = pc[u]
  <2>1. w \in Points
    BY DEF Saving, Points
  <2> QED
    BY <2>1, PlaceChange
<1>5. Moves(t)
  <2>1. \A m \in Names : disk'[m].inc = disk[m].inc /\ synced'[m].inc \in {synced[m].inc, disk[m].inc}
    BY <1>1
  <2> QED
    BY <1>3, <1>4, <2>1 DEF Moves
<1>6. Touches(t, n)
  BY <1>1, <1>2, <1>3 DEF Touches
<1>7. Shapes'
  BY <1>1, <1>3, <1>4 DEF IndInv, Shapes, TypeOK
<1>8. DirsInOrder'
  <2>1. DirInOrder(disk[n]) /\ DirInOrder(synced[n])
    BY DEF IndInv, DirsInOrder
  <2>2. d # NoDir
    BY <1>2, NoDirFields
  <2>3. DirInOrder(disk[n])' /\ DirInOrder(synced[n])'
    BY <1>1, <1>2, <1>3, <2>1, <2>2 DEF DirInOrder
  <2>4. n \notin exposed' => Complete(disk'[n]) /\ Complete(synced'[n])
    BY <1>1, <1>3 DEF IndInv, DirsInOrder
  <2> QED
    BY <1>1, <1>3, <2>3, <2>4, DirsAt
<1>9. SlotInOrder(n)'
  <2>1. SlotKept(n)
    BY <1>1, <1>3 DEF SlotKept
  <2> QED
    BY <1>5, <2>1, SlotFrame DEF Saving
<1>10. DropInOrder(n)'
  <2>1. pc'[t] \in Holding
    BY <1>4 DEF Holding
  <2> QED
    BY <1>1, <1>3, <1>5, <2>1, DropFrame
<1>11. ASSUME NEW i \in Incs PROVE HoldersInOrder(i)'
  <2>1. objs[i].saving = t => job[t].inc = i
    BY CatalogAssumption DEF IndInv, HoldersInOrder
  <2> QED
    BY <1>3, <1>4, <1>5, <2>1, HoldersFrame DEF Holding
<1>12. ASSUME NEW u \in Threads \ {t}, job[u].name = n PROVE CallInOrder(u)' /\ SnapshotInOrder(u)'
  <2>1. pc[u] # "sync_create" /\ pc[u] \notin Saving
    BY <1>2, <1>12 DEF Holding, Saving, Marking
  <2>2. CallKept(u)
    BY <1>1, <1>3, <1>12, <2>1 DEF CallKept
  <2> QED
    BY <1>5, <2>1, <2>2, CallFrame, SnapshotFrame
<1>13. CallInOrder(t)'
  <2>1. CallInOrder(t)
    BY DEF IndInv
  <2> QED
    BY <1>1, <1>3, <1>4, <2>1 DEF CallInOrder, Holding, Saving, Creating, Marking
<1> QED
  BY <1>3, <1>5, <1>6, <1>7, <1>8, <1>9, <1>10, <1>11, <1>12, <1>13, StepAt

\* The promises about the name of a snapshot in progress.
LEMMA SaverPromise ==
    ASSUME IndInv, NEW t \in Threads, pc[t] \in Saving, NEW n \in Names \ exposed, n = job[t].name,
           NEW w \in Saving, Goto(t, w), UNCHANGED <<job, objs, promised>>,
           NEW d \in Directories, disk'[n] = d, synced'[n] \in {synced[n], disk[n]},
           d.inc = disk[n].inc, d.marker = disk[n].marker,
           promised[n].present = "yes" =>
              /\ Restored(d) # None /\ Restored(d).ver >= promised[n].ver
              /\ w \in {"sync_save", "manifest"} => d.files[job[t].gen].ver >= promised[n].ver
    PROVE  PromiseInOrder(n)'
<1>1. PromiseInOrder(n) /\ Complete(disk[n])
  BY DEF IndInv, DirsInOrder
<1>2. disk[n].inc # 0 /\ disk[n] \in Directories
  BY SaverAt
<1>3. pc'[t] = w /\ \A u \in Threads \ {t} : pc'[u] = pc[u]
  <2>1. w \in Points
    BY DEF Saving, Points
  <2> QED
    BY <2>1, PlaceChange
<1>4. \A u \in Threads \ {t} : job[u].name = n => pc[u] \notin {"sync_save", "manifest"}
  BY SaverAt DEF Saving, Holding, Marking
<1>5. promised[n].present = "no" => Restored(d) = None
  <2>1. promised[n].present = "no" => disk[n].marker
    BY <1>1, <1>2, RestoredComplete DEF PromiseInOrder
  <2> QED
    BY <1>2, <2>1, RestoredIs
<1>6. promised[n].present = "no" => Restored(disk'[n]) = None /\ Restored(synced'[n]) = None
  BY <1>1, <1>5, SMTT(30) DEF PromiseInOrder
<1>7. promised[n].present = "yes" =>
          /\ promised[n].inc \in Incs
          /\ \A e \in {disk'[n], synced'[n]} :
                Restored(e) # None /\ e.inc = promised[n].inc /\ Restored(e).ver >= promised[n].ver
          /\ objs[promised[n].inc].ver >= promised[n].ver
  BY <1>1 DEF PromiseInOrder
<1>8. ASSUME promised[n].present = "yes", NEW u \in Threads,
             job[u].name = n, pc'[u] \in {"sync_save", "manifest"}
      PROVE  disk'[n].files[job[u].gen].ver >= promised[n].ver
  BY <1>3, <1>4, <1>8
<1> QED
  BY <1>6, <1>7, <1>8 DEF PromiseInOrder

\* What open() would restore depends on these.
LEMMA RestoredSame ==
    ASSUME NEW d \in Directories, NEW e \in Directories, d.inc # 0, e.inc = d.inc,
           e.marker = d.marker, e.manifest = d.manifest,
           d.manifest # 0 => e.files[d.manifest] = d.files[d.manifest]
    PROVE  Restored(e) = Restored(d)
<1>1. CASE d.marker
  BY <1>1, RestoredIs
<1>2. CASE ~d.marker
  BY <1>2, RestoredIs
<1> QED
  BY <1>1, <1>2

\* And whether it is complete on these.
LEMMA CompleteSame ==
    ASSUME NEW d \in Directories, NEW e \in Directories, d.inc # 0, Complete(d),
           e.config = d.config, e.manifest = d.manifest, e.crc = d.crc,
           d.manifest # 0 => e.files[d.manifest] = d.files[d.manifest]
    PROVE  Complete(e)
<1>1. d # NoDir
  BY NoDirFields
<1> QED
  BY <1>1 DEF Complete

\* What holds in the middle of a snapshot.
LEMMA SaverFacts ==
    ASSUME IndInv, NEW t \in Threads, pc[t] \in Saving, NEW n, n = job[t].name
    PROVE  /\ n \in Names /\ disk[n] \in Directories /\ synced[n] \in Directories
           /\ job[t].inc \in Incs /\ job[t].gen \in Gens /\ disk[n].inc = job[t].inc
           /\ disk[n].inc # 0 /\ disk[n].manifest \in 0..MaxGen
           /\ \A g \in Gens : disk[n].files[g] # None => disk[n].files[g].inc = disk[n].inc
           /\ n \notin exposed => Complete(disk[n])
           /\ n \notin exposed /\ promised[n].present = "yes" =>
                 /\ Restored(disk[n]) # None /\ Restored(disk[n]).ver >= promised[n].ver
                 /\ promised[n].inc = disk[n].inc /\ ~disk[n].marker
                 /\ objs[job[t].inc].ver >= promised[n].ver
                 /\ pc[t] \in {"sync_save", "manifest"} =>
                       disk[n].files[job[t].gen].ver >= promised[n].ver
           /\ SnapshotInOrder(t)
<1>1. /\ n \in Names /\ disk[n] \in Directories /\ synced[n] \in Directories
      /\ job[t].inc \in Incs /\ job[t].gen \in Gens /\ disk[n].inc = job[t].inc /\ disk[n].inc # 0
  BY SaverAt
<1>2. disk[n].manifest \in 0..MaxGen
  BY <1>1, DirFields
<1>3. \A g \in Gens : disk[n].files[g] # None => disk[n].files[g].inc = disk[n].inc
  BY <1>1 DEF IndInv, DirsInOrder, DirInOrder
<1>4. n \notin exposed => Complete(disk[n]) /\ PromiseInOrder(n)
  BY <1>1 DEF IndInv, DirsInOrder
<1>5. ASSUME n \notin exposed, promised[n].present = "yes"
      PROVE  /\ Restored(disk[n]) # None /\ Restored(disk[n]).ver >= promised[n].ver
             /\ promised[n].inc = disk[n].inc /\ ~disk[n].marker
             /\ objs[job[t].inc].ver >= promised[n].ver
             /\ pc[t] \in {"sync_save", "manifest"} =>
                   disk[n].files[job[t].gen].ver >= promised[n].ver
  <2>1. Restored(disk[n]) # None /\ promised[n].inc = disk[n].inc
    BY <1>4, <1>5 DEF PromiseInOrder
  <2>2. ~disk[n].marker
    BY <1>1, <2>1, RestoredIs
  <2> QED
    BY <1>1, <1>4, <1>5, <2>1, <2>2 DEF PromiseInOrder
<1> QED
  BY <1>1, <1>2, <1>3, <1>4, <1>5 DEF IndInv

\* The generation file is written.
LEMMA SaveIndexStep ==
    ASSUME IndInv, NEW t \in Threads, SaveIndex(t)
    PROVE  IndInv'
<1>1. PICK n, i, g : n = job[t].name /\ i = job[t].inc /\ g = job[t].gen
  OBVIOUS
<1>2. PICK c, d : c = [inc |-> i, ver |-> objs[i].ver] /\ d = [disk[n] EXCEPT !.files[g] = c]
  OBVIOUS
<1>3. /\ pc[t] = "save" /\ pc[t] \in Saving /\ Change(n, d) /\ Goto(t, "sync_save")
      /\ UNCHANGED <<job, memory, history>> /\ UNCHANGED <<objs, promised>>
  BY <1>1, <1>2 DEF SaveIndex, Saving, memory, history
<1>4. /\ n \in Names /\ disk[n] \in Directories /\ synced[n] \in Directories
      /\ i \in Incs /\ g \in Gens /\ disk[n].inc = i /\ disk[n].inc # 0
      /\ disk[n].manifest \in 0..MaxGen
      /\ \A h \in Gens : disk[n].files[h] # None => disk[n].files[h].inc = disk[n].inc
      /\ n \notin exposed => Complete(disk[n])
      /\ n \notin exposed /\ promised[n].present = "yes" =>
            /\ Restored(disk[n]) # None /\ Restored(disk[n]).ver >= promised[n].ver
            /\ objs[i].ver >= promised[n].ver
      /\ SnapshotInOrder(t)
  BY <1>1, <1>3, SaverFacts
<1>5. c \in Contents /\ c.inc = i /\ c.ver = objs[i].ver /\ c # None
  <2>1. c \in Contents /\ c.inc = i /\ c.ver = objs[i].ver
    BY <1>2, <1>4, ObjectIs DEF Contents
  <2> QED
    BY <2>1, NoneAssumption
<1>6. /\ d \in Directories /\ d.inc = disk[n].inc /\ d.config = disk[n].config
      /\ d.marker = disk[n].marker /\ d.manifest = disk[n].manifest /\ d.crc = disk[n].crc
      /\ d.files[g] = c /\ \A h \in Gens \ {g} : d.files[h] = disk[n].files[h]
  <2>1. d = Saved(disk[n], g, c)
    BY <1>2 DEF Saved
  <2> QED
    BY <1>4, <1>5, <2>1, SavedFields
<1>7. disk'[n] = d /\ synced'[n] = synced[n]
  <2>1. disk'[n] = d
    BY <1>3, <1>4, <1>6, DirectoryChange
  <2> QED
    BY <1>3, <2>1 DEF Change
<1>8. g = disk[n].manifest + 1 /\ objs[i].saving = t /\ g # 0
  BY <1>1, <1>3, <1>4 DEF SnapshotInOrder, Saving
<1>9. disk[n].manifest # 0 => d.files[disk[n].manifest] = disk[n].files[disk[n].manifest]
  BY <1>4, <1>6, <1>8, CatalogAssumption DEF Gens
<1>10. \A h \in Gens : d.files[h] # None => d.files[h].inc = d.inc
  BY <1>4, <1>5, <1>6
<1>11. "sync_save" \in Saving /\ "sync_save" \in Points
  BY DEF Saving, Points
<1>12. ASSUME n \notin exposed PROVE Complete(d) /\ PromiseInOrder(n)'
  <2>1. Complete(d)
    BY <1>4, <1>6, <1>9, <1>12, CompleteSame
  <2>2. Restored(d) = Restored(disk[n])
    BY <1>4, <1>6, <1>9, RestoredSame
  <2>3. PromiseInOrder(n)'
    BY <1>1, <1>3, <1>4, <1>5, <1>6, <1>7, <1>11, <1>12, <2>2, SaverPromise
  <2> QED
    BY <2>1, <2>3
<1>13. pc'[t] = "sync_save"
  BY <1>3, <1>11, PlaceChange
<1>14. SnapshotInOrder(t)'
  <2>1. c.ver <= objs[i].ver
    BY <1>4, <1>5, ObjectIs
  <2> QED
    BY <1>1, <1>3, <1>5, <1>6, <1>7, <1>8, <1>13, <2>1 DEF SnapshotInOrder, Saving
<1>15. d.manifest >= disk[n].manifest
  BY <1>4, <1>6, CatalogAssumption
<1> QED
  BY <1>1, <1>3, <1>4, <1>6, <1>10, <1>11, <1>12, <1>14, <1>15, SaverStep

\* The directory is synced, with the generation file and then with MANIFEST.
LEMMA SyncStep ==
    ASSUME IndInv, NEW t \in Threads, SyncIndex(t) \/ SyncManifest(t)
    PROVE  IndInv'
<1>1. PICK n, w : n = job[t].name /\ w = (IF pc[t] = "sync_save" THEN "manifest" ELSE "garbage")
  OBVIOUS
<1>2. /\ pc[t] \in {"sync_save", "sync_manifest"} /\ pc[t] \in Saving /\ Sync(n) /\ Goto(t, w)
      /\ UNCHANGED <<job, memory, history>> /\ UNCHANGED <<objs, promised>>
  BY <1>1 DEF SyncIndex, SyncManifest, Saving, memory, history
<1>3. /\ n \in Names /\ disk[n] \in Directories /\ synced[n] \in Directories
      /\ disk[n].inc # 0 /\ disk[n].manifest \in 0..MaxGen
      /\ \A h \in Gens : disk[n].files[h] # None => disk[n].files[h].inc = disk[n].inc
      /\ n \notin exposed => Complete(disk[n])
      /\ n \notin exposed /\ promised[n].present = "yes" =>
            /\ Restored(disk[n]) # None /\ Restored(disk[n]).ver >= promised[n].ver
            /\ pc[t] \in {"sync_save", "manifest"} =>
                  disk[n].files[job[t].gen].ver >= promised[n].ver
      /\ SnapshotInOrder(t)
  BY <1>1, <1>2, SaverFacts
<1>4. disk' = disk /\ synced'[n] = disk[n]
  BY <1>2, <1>3 DEF Sync, IndInv, Shapes
<1>5. w \in Saving /\ w \in Points
  BY <1>1 DEF Saving, Points
<1>6. n \notin exposed => PromiseInOrder(n)'
  BY <1>1, <1>2, <1>3, <1>4, <1>5, SaverPromise
<1>7. pc'[t] = w
  BY <1>2, <1>5, PlaceChange
<1>8. SnapshotInOrder(t)'
  BY <1>1, <1>2, <1>3, <1>4, <1>7 DEF SnapshotInOrder, Saving
<1>9. disk[n].manifest >= disk[n].manifest
  BY <1>3, CatalogAssumption
<1> QED
  BY <1>1, <1>2, <1>3, <1>5, <1>6, <1>8, <1>9, SaverStep

\* MANIFEST is written.
LEMMA WriteManifestStep ==
    ASSUME IndInv, NEW t \in Threads, WriteManifest(t)
    PROVE  IndInv'
<1>1. PICK n, g : n = job[t].name /\ g = job[t].gen
  OBVIOUS
<1>2. PICK d : d = [disk[n] EXCEPT !.manifest = g, !.crc = disk[n].files[g]]
  OBVIOUS
<1>3. /\ pc[t] = "manifest" /\ pc[t] \in Saving /\ Change(n, d) /\ Goto(t, "sync_manifest")
      /\ UNCHANGED <<job, memory, history>> /\ UNCHANGED <<objs, promised>>
  BY <1>1, <1>2 DEF WriteManifest, Saving, memory, history
<1>4. /\ n \in Names /\ disk[n] \in Directories /\ synced[n] \in Directories
      /\ g \in Gens /\ disk[n].inc # 0 /\ disk[n].manifest \in 0..MaxGen
      /\ \A h \in Gens : disk[n].files[h] # None => disk[n].files[h].inc = disk[n].inc
      /\ n \notin exposed => Complete(disk[n])
      /\ n \notin exposed /\ promised[n].present = "yes" =>
            ~disk[n].marker /\ disk[n].files[g].ver >= promised[n].ver
      /\ SnapshotInOrder(t)
  BY <1>1, <1>3, SaverFacts
<1>5. /\ d \in Directories /\ d.inc = disk[n].inc /\ d.config = disk[n].config
      /\ d.marker = disk[n].marker /\ d.manifest = g /\ d.crc = disk[n].files[g]
      /\ d.files = disk[n].files
  <2>1. d = Pointed(disk[n], g)
    BY <1>2 DEF Pointed
  <2> QED
    BY <1>4, <2>1, ManifestFields
<1>6. disk'[n] = d /\ synced'[n] = synced[n]
  <2>1. disk'[n] = d
    BY <1>3, <1>4, <1>5, DirectoryChange
  <2> QED
    BY <1>3, <2>1 DEF Change
<1>7. /\ g = disk[n].manifest + 1 /\ objs[job[t].inc].saving = t /\ g # 0
      /\ disk[n].files[g] # None /\ disk[n].files[g].ver <= objs[job[t].inc].ver
  BY <1>1, <1>3, <1>4 DEF SnapshotInOrder, Saving
<1>8. "sync_manifest" \in Saving /\ "sync_manifest" \in Points
  BY DEF Saving, Points
<1>9. ASSUME n \notin exposed PROVE Complete(d) /\ PromiseInOrder(n)'
  <2>1. Complete(d)
    <3>1. disk[n] # NoDir
      BY <1>4, NoDirFields
    <3> QED
      BY <1>4, <1>5, <1>7, <1>9, <3>1 DEF Complete
  <2>2. ~d.marker => Restored(d) = disk[n].files[g]
    BY <1>4, <1>5, <1>7, RestoredIs, SMTT(30)
  <2>3. PromiseInOrder(n)'
    BY <1>1, <1>3, <1>4, <1>5, <1>6, <1>7, <1>8, <1>9, <2>2, SaverPromise
  <2> QED
    BY <2>1, <2>3
<1>10. pc'[t] = "sync_manifest"
  BY <1>3, <1>8, PlaceChange
<1>11. SnapshotInOrder(t)'
  BY <1>1, <1>3, <1>5, <1>6, <1>7, <1>10 DEF SnapshotInOrder, Saving
<1>12. d.manifest >= disk[n].manifest
  BY <1>4, <1>5, <1>7, CatalogAssumption
<1> QED
  BY <1>1, <1>3, <1>4, <1>5, <1>8, <1>9, <1>11, <1>12, SaverStep

\* Old generations go.
LEMMA CollectGarbageStep ==
    ASSUME IndInv, NEW t \in Threads, CollectGarbage(t)
    PROVE  IndInv'
<1>1. PICK n, g : n = job[t].name /\ g = job[t].gen
  OBVIOUS
<1>2. PICK gs \in SUBSET Garbage(disk[n]) : Change(n, Collected(disk[n], gs))
  BY <1>1 DEF CollectGarbage
<1>3. PICK d : d = Collected(disk[n], gs)
  OBVIOUS
<1>4. /\ pc[t] = "garbage" /\ pc[t] \in Saving /\ Change(n, d) /\ Goto(t, "report")
      /\ UNCHANGED <<job, memory, history>> /\ UNCHANGED <<objs, promised>>
  BY <1>2, <1>3 DEF CollectGarbage, Saving, memory, history
<1>5. /\ n \in Names /\ disk[n] \in Directories /\ synced[n] \in Directories
      /\ g \in Gens /\ disk[n].inc # 0 /\ disk[n].manifest \in 0..MaxGen
      /\ \A h \in Gens : disk[n].files[h] # None => disk[n].files[h].inc = disk[n].inc
      /\ n \notin exposed => Complete(disk[n])
      /\ n \notin exposed /\ promised[n].present = "yes" =>
            Restored(disk[n]) # None /\ Restored(disk[n]).ver >= promised[n].ver
      /\ SnapshotInOrder(t)
  BY <1>1, <1>4, SaverFacts
<1>6. /\ d \in Directories /\ d.inc = disk[n].inc /\ d.config = disk[n].config
      /\ d.marker = disk[n].marker /\ d.manifest = disk[n].manifest /\ d.crc = disk[n].crc
      /\ \A h \in Gens : d.files[h] \in {disk[n].files[h], None}
      /\ disk[n].manifest # 0 => d.files[disk[n].manifest] = disk[n].files[disk[n].manifest]
  BY <1>2, <1>3, <1>5, CollectedFields
<1>7. disk'[n] = d /\ synced'[n] = synced[n]
  <2>1. disk'[n] = d
    BY <1>4, <1>5, <1>6, DirectoryChange
  <2> QED
    BY <1>4, <2>1 DEF Change
<1>8. "report" \in Saving /\ "report" \in Points
  BY DEF Saving, Points
<1>9. ASSUME n \notin exposed PROVE Complete(d) /\ PromiseInOrder(n)'
  <2>1. Complete(d)
    BY <1>5, <1>6, <1>9, CompleteSame
  <2>2. Restored(d) = Restored(disk[n])
    BY <1>5, <1>6, RestoredSame
  <2>3. PromiseInOrder(n)'
    BY <1>1, <1>4, <1>5, <1>6, <1>7, <1>8, <1>9, <2>2, SaverPromise
  <2> QED
    BY <2>1, <2>3
<1>10. pc'[t] = "report"
  BY <1>4, <1>8, PlaceChange
<1>11. /\ objs[job[t].inc].saving = t /\ g # 0 /\ g = disk[n].manifest
       /\ disk[n].files[g] # None /\ disk[n].files[g].ver <= objs[job[t].inc].ver
       /\ synced[n].inc = disk[n].inc /\ synced[n].manifest = g
       /\ synced[n].files[g] = disk[n].files[g] /\ (synced[n].marker => disk[n].marker)
  BY <1>1, <1>4, <1>5, SMTT(30) DEF SnapshotInOrder, Saving
<1>12. SnapshotInOrder(t)'
  BY <1>1, <1>4, <1>6, <1>7, <1>10, <1>11 DEF SnapshotInOrder, Saving
<1>13. d.manifest >= disk[n].manifest
  BY <1>5, <1>6, CatalogAssumption
<1>14. \A h \in Gens : d.files[h] # None => d.files[h].inc = d.inc
  BY <1>5, <1>6
<1> QED
  BY <1>1, <1>4, <1>5, <1>6, <1>8, <1>9, <1>12, <1>13, <1>14, SaverStep

-----------------------------------------------------------------------------
\* Whoever creates or deletes is alone at its name.
LEMMA Alone ==
    ASSUME IndInv, NEW t \in Threads, pc[t] \in Creating \cup {"delete"},
           NEW u \in Threads, job[u].name = job[t].name
    PROVE  u = t
<1>1. CASE pc[t] = "delete"
  BY <1>1 DEF IndInv, CallInOrder
<1>2. CASE pc[t] \in Creating
  <2>1. SUFFICES ASSUME u # t PROVE FALSE
    OBVIOUS
  <2>2. PICK n : n = job[t].name
    OBVIOUS
  <2>3. n \in Names /\ CallInOrder(t) /\ CallInOrder(u) /\ pc[u] \in Points
    BY <1>2, <2>2, Types DEF IndInv, Shapes, TypeOK, Creating
  <2>4. mutex = t /\ slots[n] = None /\ n \notin dropping
    BY <1>2, <2>2, <2>3 DEF CallInOrder
  <2>5. pc[u] # "idle"
    BY <2>2, <2>3, CatalogAssumption DEF CallInOrder
  <2>6. job[u].inc \in Incs
    BY <2>5, Types
  <2>7. pc[u] \notin Holding
    BY <2>2, <2>3, <2>4, <2>6, NoneAssumption DEF CallInOrder
  <2> QED
    BY <2>1, <2>2, <2>3, <2>4, <2>5, <2>7 DEF CallInOrder, Points, Holding, Saving, Creating, Marking
<1> QED
  BY <1>1, <1>2

\* remove_all takes one entry more, for create() or for the deleter.
LEMMA RemoveStep ==
    ASSUME IndInv, NEW t \in Threads, pc[t] \in {"clear", "delete"}, RemoveEntry(job[t].name),
           UNCHANGED <<pc, job, mutex, slots, objs, dropping, created, promised>>
    PROVE  IndInv'
<1>1. PICK n : n = job[t].name
  OBVIOUS
<1>2. n \in Names /\ job[t].inc # 0 /\ disk[n] \in Directories /\ CallInOrder(t) /\ DirInOrder(disk[n])
  <2>1. n \in Names /\ job[t].inc \in Incs
    BY <1>1, Types
  <2> QED
    BY <2>1, Types, CatalogAssumption DEF IndInv, DirsInOrder, Incs
<1>3. PICK d : /\ Change(n, d) /\ d \in Directories /\ d.inc \in {disk[n].inc, 0}
               /\ d.inc = 0 <=> d = NoDir
               /\ \A g \in Gens : d.files[g] # None => d.files[g].inc = d.inc
  <2>1. CASE Change(n, NoDir)
    BY <2>1, NoDirFields
  <2>2. CASE \E e \in OneEntryLess(disk[n]) : Change(n, e)
    <3>1. PICK e \in OneEntryLess(disk[n]) : Change(n, e)
      BY <2>2
    <3>2. e \in Directories /\ e.inc = disk[n].inc
          /\ \A g \in Gens : e.files[g] \in {disk[n].files[g], None}
      BY <1>2, <3>1, LessFields
    <3>3. disk[n].inc # 0
      BY <1>1, <1>2 DEF RemoveEntry, DirInOrder
    <3>4. e # NoDir
      BY <3>2, <3>3, NoDirFields
    <3>5. \A g \in Gens : e.files[g] # None => e.files[g].inc = e.inc
      BY <1>2, <3>2 DEF DirInOrder
    <3> QED
      BY <3>1, <3>2, <3>3, <3>4, <3>5
  <2> QED
    BY <1>1, <2>1, <2>2 DEF RemoveEntry
<1>4. /\ DOMAIN disk' = Names /\ DOMAIN synced' = Names /\ disk'[n] = d /\ synced' = synced
      /\ \A m \in Names \ {n} : disk'[m] = disk[m]
      /\ \A m \in Names : disk'[m] \in Directories /\ synced'[m] \in Directories
  <2>1. synced' = synced
    BY <1>3 DEF Change
  <2> QED
    BY <1>2, <1>3, <2>1, DirectoryChange
<1>5. exposed' = exposed \cup {n}
  BY <1>1 DEF RemoveEntry
<1>6. Moves(t)
  BY <1>3, <1>4 DEF Moves
<1>7. pc[t] \notin Holding
  BY DEF Holding, Saving
<1>8. Touches(t, n)
  BY <1>1, <1>4, <1>5, <1>7 DEF Touches
<1>9. Shapes'
  BY <1>2, <1>4, <1>5 DEF IndInv, Shapes, TypeOK
<1>10. DirsInOrder'
  <2>1. DirInOrder(synced[n]) /\ d.inc <= created
    <3>1. disk[n].inc <= created /\ created \in Nat
      BY <1>2, CatalogAssumption DEF DirInOrder, IndInv, Shapes
    <3> QED
      BY <1>2, <1>3, <3>1 DEF IndInv, DirsInOrder
  <2>2. DirInOrder(disk[n])' /\ DirInOrder(synced[n])'
    BY <1>3, <1>4, <2>1 DEF DirInOrder
  <2> QED
    BY <1>2, <1>3, <1>4, <1>5, <2>2, DirsAt
<1>11. slots[n] = None
  <2>1. SlotInOrder(n)
    BY <1>2 DEF IndInv
  <2> QED
    BY <1>1, <1>2, <2>1 DEF CallInOrder, SlotInOrder, Creating
<1>12. SlotInOrder(n)'
  BY <1>11 DEF SlotInOrder
<1>13. DropInOrder(n)'
  BY <1>1, <1>2, <1>5, <1>6, DropFrame
<1>14. ASSUME NEW i \in Incs PROVE HoldersInOrder(i)'
  <2>1. objs[i].saving # t
    BY <1>7, CatalogAssumption DEF IndInv, HoldersInOrder, Holding
  <2> QED
    BY <1>6, <2>1, HoldersFrame
<1>15. \A u \in Threads \ {t} : job[u].name # n
  BY <1>1, Alone DEF Creating
<1>16. CallInOrder(t)' /\ SnapshotInOrder(t)'
  <2>1. CASE pc[t] = "clear"
    BY <1>1, <1>2, <1>3, <1>4, <2>1
    DEF CallInOrder, SnapshotInOrder, Holding, Saving, Creating, Marking
  <2>2. CASE pc[t] = "delete"
    BY <1>1, <1>2, <2>2 DEF CallInOrder, SnapshotInOrder, Holding, Saving, Creating, Marking
  <2> QED
    BY <2>1, <2>2
<1> QED
  BY <1>2, <1>5, <1>6, <1>8, <1>9, <1>10, <1>12, <1>13, <1>14, <1>15, <1>16, StepAt

\* create() clears what an earlier crash or failure left.
LEMMA ClearLeftoversStep ==
    ASSUME IndInv, NEW t \in Threads, ClearLeftovers(t)
    PROVE  IndInv'
<1>1. /\ pc[t] = "clear" /\ UNCHANGED <<job, mutex, slots, objs, dropping, created, promised>>
      /\ \/ RemoveEntry(job[t].name) /\ UNCHANGED pc
         \/ Goto(t, "rename") /\ UNCHANGED <<disk, synced, exposed>>
  BY DEF ClearLeftovers, memory, store
<1>2. CASE RemoveEntry(job[t].name) /\ UNCHANGED pc
  BY <1>1, <1>2, RemoveStep
<1>3. CASE Goto(t, "rename") /\ UNCHANGED <<disk, synced, exposed>>
  <2>1. Still
    BY <1>1, <1>3 DEF Still
  <2>2. pc' \in [Threads -> Points] /\ pc'[t] = "rename" /\ \A u \in Threads \ {t} : pc'[u] = pc[u]
    BY <1>3, PlaceChange DEF Points
  <2>3. Moves(t)
    BY <1>1, <1>3, <2>2 DEF Moves
  <2>4. CallInOrder(t)' /\ SnapshotInOrder(t)'
    <3>1. CallInOrder(t)
      BY DEF IndInv
    <3> QED
      BY <1>1, <2>1, <2>2, <3>1
      DEF CallInOrder, SnapshotInOrder, Still, Creating, Marking, Holding, Saving
  <2>5. HeldBack(t) /\ pc[t] \notin Holding /\ pc'[t] \notin Holding /\ pc[t] \notin Saving
    BY <1>1, <2>2 DEF HeldBack, Holding, Saving
  <2>6. /\ DOMAIN promised' = Names
        /\ \A m \in Names : /\ DOMAIN promised'[m] = {"present", "inc", "ver"}
                            /\ promised'[m].ver \in Nat
        /\ created' \in 0..MaxIncs /\ created' >= created
        /\ job' \in [Threads -> Jobs] /\ mutex' \in Threads \cup {None}
    BY <1>1, CatalogAssumption DEF IndInv, Shapes, TypeOK, Jobs
  <2> QED
    BY <1>1, <2>1, <2>2, <2>3, <2>4, <2>5, <2>6, PlainFrame
<1> QED
  BY <1>1, <1>2, <1>3

\* The deleter: a file goes, or the name is free again.
LEMMA DeleterStep ==
    ASSUME IndInv, NEW t \in Threads, Deleter(t)
    PROVE  IndInv'
<1>1. PICK n : n = job[t].name
  OBVIOUS
<1>2. /\ pc[t] = "delete" /\ UNCHANGED <<mutex, slots, objs, created>>
      /\ \/ RemoveEntry(n) /\ UNCHANGED <<pc, job, dropping, promised>>
         \/ dropping' = dropping \ {n} /\ ReturnOf(t) /\ UNCHANGED <<disk, synced, exposed>>
  BY <1>1 DEF Deleter, store
<1>3. CASE RemoveEntry(n) /\ UNCHANGED <<pc, job, dropping, promised>>
  BY <1>1, <1>2, <1>3, RemoveStep
<1>4. CASE dropping' = dropping \ {n} /\ ReturnOf(t) /\ UNCHANGED <<disk, synced, exposed>>
  <2>1. n \in Names /\ n \in dropping
    BY <1>1, <1>2, Types DEF IndInv, CallInOrder
  <2>2. /\ pc' \in [Threads -> Points] /\ pc'[t] = "idle"
        /\ job' \in [Threads -> Jobs] /\ job'[t] = NoJob
        /\ \A u \in Threads \ {t} : pc'[u] = pc[u] /\ job'[u] = job[u]
    BY <1>4, ReturnPlace DEF ReturnOf
  <2>3. Moves(t)
    BY <1>2, <1>4, <2>2, NoJobFields DEF Moves
  <2>4. /\ DOMAIN promised' = Names
        /\ \A m \in Names : /\ DOMAIN promised'[m] = {"present", "inc", "ver"}
                            /\ promised'[m].ver \in Nat
        /\ promised' = promised \/ promised'[n].present = "no"
        /\ \A m \in Names \ {n} : promised'[m] = promised[m]
    <3>1. CASE promised' = promised
      BY <3>1 DEF IndInv, Shapes
    <3>2. CASE Promise(n, "no", 0, 0)
      BY <2>1, <3>2, PromiseChange
    <3> QED
      BY <1>1, <1>4, <3>1, <3>2 DEF ReturnOf
  <2>5. pc[t] \notin Holding /\ pc'[t] \notin Holding
    BY <1>2, <2>2 DEF Holding, Saving
  <2>6. Touches(t, n)
    BY <1>1, <1>2, <1>4, <2>2, <2>4, <2>5, NoJobFields DEF Touches
  <2>7. Shapes'
    BY <1>2, <1>4, <2>2, <2>4 DEF IndInv, Shapes, TypeOK, Jobs
  <2>8. DirsInOrder'
    BY <1>2, <1>4, DirsFrame, CatalogAssumption DEF IndInv, Shapes
  <2>9. SlotInOrder(n)' /\ DropInOrder(n)'
    <3>1. slots[n] = None
      BY <2>1 DEF IndInv, SlotInOrder
    <3> QED
      BY <1>2, <1>4, <3>1 DEF SlotInOrder, DropInOrder
  <2>10. ASSUME n \notin exposed PROVE PromiseInOrder(n)'
    <3>1. CASE promised' = promised
      <4>1. \A i \in Incs : objs'[i].ver \in Nat /\ objs'[i].ver >= objs[i].ver
        BY <1>2, ObjectIs
      <4> QED
        BY <1>4, <2>1, <2>2, <2>3, <2>10, <3>1, <4>1, PromiseFrame
    <3>2. CASE promised'[n].present = "no"
      <4>1. disk[n].marker /\ synced[n].marker
        BY <2>1, <2>10 DEF IndInv, DropInOrder
      <4>2. Restored(disk[n])' = None /\ Restored(synced[n])' = None
        BY <1>4, <4>1 DEF Restored
      <4> QED
        BY <3>2, <4>2 DEF PromiseInOrder
    <3> QED
      BY <2>4, <3>1, <3>2
  <2>11. ASSUME NEW i \in Incs PROVE HoldersInOrder(i)'
    <3>1. objs[i].saving # t
      BY <2>5, CatalogAssumption DEF IndInv, HoldersInOrder, Holding
    <3> QED
      BY <1>2, <2>3, <2>5, <3>1, HoldersFrame
  <2>12. \A u \in Threads \ {t} : job[u].name # n
    BY <1>1, <1>2, Alone
  <2>13. CallInOrder(t)' /\ SnapshotInOrder(t)'
    <3>1. mutex' # t
      BY <1>2, MutexHolder DEF Creating, Marking
    <3> QED
      BY <2>2, <3>1, IdleCall
  <2> QED
    BY <1>4, <2>1, <2>3, <2>6, <2>7, <2>8, <2>9, <2>10, <2>11, <2>12, <2>13, StepAt
<1> QED
  BY <1>2, <1>3, <1>4

\* The new directory is renamed into place.
LEMMA RenameDirectoryStep ==
    ASSUME IndInv, NEW t \in Threads, RenameDirectory(t)
    PROVE  IndInv'
<1>1. PICK n, i : n = job[t].name /\ i = job[t].inc
  OBVIOUS
<1>2. /\ pc[t] = "rename" /\ UNCHANGED <<slots, objs, dropping, created, promised, exposed>>
      /\ \/ Change(n, FreshDir(i)) /\ Goto(t, "sync_create") /\ UNCHANGED <<job, mutex>>
         \/ Return(t) /\ mutex' = None /\ UNCHANGED <<disk, synced>>
  BY <1>1 DEF RenameDirectory, store, history
<1>3. CASE Return(t) /\ mutex' = None /\ UNCHANGED <<disk, synced>>
  BY <1>2, <1>3, GiveUp DEF Still
<1>4. CASE Change(n, FreshDir(i)) /\ Goto(t, "sync_create") /\ UNCHANGED <<job, mutex>>
  <2>1. n \in Names /\ i \in Incs /\ i # 0 /\ i \in 0..MaxIncs /\ CallInOrder(t)
    <3>1. n \in Names /\ i \in Incs
      BY <1>1, <1>2, Types
    <3> QED
      BY <3>1, CatalogAssumption DEF IndInv, Incs
  <2>2. PICK d : d = FreshDir(i)
    OBVIOUS
  <2>3. /\ d \in Directories /\ d.inc = i /\ d.config /\ d.manifest = 0
        /\ \A g \in Gens : d.files[g] = None
    BY <2>1, <2>2, FreshDirFields
  <2>4. /\ DOMAIN disk' = Names /\ DOMAIN synced' = Names /\ disk'[n] = d /\ synced' = synced
        /\ \A m \in Names \ {n} : disk'[m] = disk[m]
        /\ \A m \in Names : disk'[m] \in Directories /\ synced'[m] \in Directories
    <3>1. synced' = synced /\ Change(n, d)
      BY <1>4, <2>2 DEF Change
    <3> QED
      BY <2>1, <2>3, <3>1, DirectoryChange
  <2>5. /\ pc' \in [Threads -> Points] /\ pc'[t] = "sync_create"
        /\ \A u \in Threads \ {t} : pc'[u] = pc[u]
    BY <1>4, PlaceChange DEF Points
  <2>6. mutex = t /\ mutex' = t
    BY <1>2, <1>4, <2>1 DEF CallInOrder, Creating
  <2>7. Moves(t)
    BY <1>2, <1>4, <2>5, <2>6 DEF Moves
  <2>8. pc[t] \notin Holding /\ pc'[t] \notin Holding
    BY <1>2, <2>5 DEF Holding, Saving
  <2>9. Touches(t, n)
    BY <1>1, <1>2, <1>4, <2>4, <2>8 DEF Touches
  <2>10. Shapes'
    BY <1>2, <1>4, <2>4, <2>5 DEF IndInv, Shapes, TypeOK
  <2>11. /\ slots[n] = None /\ n \notin dropping /\ promised[n].present = "maybe" /\ i = created
         /\ \A m \in Names : disk[m].inc # i /\ synced[m].inc # i
    BY <1>1, <1>2, <2>1 DEF CallInOrder, Creating
  <2>12. DirsInOrder'
    <3>1. DirInOrder(synced[n]) /\ (n \notin exposed => Complete(synced[n]))
      BY <2>1 DEF IndInv, DirsInOrder
    <3>2. i <= created /\ d # NoDir
      BY <2>1, <2>3, <2>11, NoDirFields, CatalogAssumption
    <3>3. DirInOrder(disk[n])' /\ DirInOrder(synced[n])'
      BY <1>2, <2>1, <2>3, <2>4, <3>1, <3>2 DEF DirInOrder
    <3>4. Complete(d)
      BY <2>3 DEF Complete
    <3> QED
      BY <1>2, <2>1, <2>3, <2>4, <2>11, <3>1, <3>3, <3>4, DirsAt
  <2>13. SlotInOrder(n)' /\ DropInOrder(n)' /\ PromiseInOrder(n)'
    BY <1>2, <2>11 DEF SlotInOrder, DropInOrder, PromiseInOrder
  <2>14. ASSUME NEW j \in Incs PROVE HoldersInOrder(j)'
    <3>1. objs[j].saving # t
      BY <2>8, CatalogAssumption DEF IndInv, HoldersInOrder, Holding
    <3> QED
      BY <1>2, <2>7, <2>8, <3>1, HoldersFrame
  <2>15. \A u \in Threads \ {t} : job[u].name # n
    BY <1>1, <1>2, Alone DEF Creating
  <2>16. CallInOrder(t)' /\ SnapshotInOrder(t)'
    <3>1. n # None /\ job[t].op = "create"
      BY <1>2, <2>1, CatalogAssumption DEF CallInOrder, Creating
    <3> QED
      BY <1>1, <1>2, <1>4, <2>1, <2>2, <2>4, <2>5, <2>6, <2>11, <3>1
      DEF CallInOrder, SnapshotInOrder, Holding, Saving, Creating, Marking
  <2> QED
    BY <2>1, <2>7, <2>9, <2>10, <2>12, <2>13, <2>14, <2>15, <2>16, StepAt
<1> QED
  BY <1>2, <1>3, <1>4

\* The slot of a new collection.
LEMMA SyncCreateStep ==
    ASSUME IndInv, NEW t \in Threads, SyncCreate(t)
    PROVE  IndInv'
<1>1. PICK n, i, o : n = job[t].name /\ i = job[t].inc /\ o = NewObject(0, 0, {"catalog", t})
  OBVIOUS
<1>2. /\ pc[t] = "sync_create" /\ mutex' = None /\ UNCHANGED <<dropping, created>>
      /\ \/ /\ Sync(n) /\ slots' = [slots EXCEPT ![n] = i] /\ objs' = [objs EXCEPT ![i] = o]
            /\ Promise(n, "yes", i, 0) /\ exposed' = exposed \ {n}
            /\ Goto(t, "using") /\ UNCHANGED job
         \/ Return(t) /\ UNCHANGED <<slots, objs, disk, synced, promised, exposed>>
  BY <1>1 DEF SyncCreate, store
<1>3. CASE Return(t) /\ UNCHANGED <<slots, objs, disk, synced, promised, exposed>>
  BY <1>2, <1>3, GiveUp DEF Still
<1>4. CASE /\ Sync(n) /\ slots' = [slots EXCEPT ![n] = i] /\ objs' = [objs EXCEPT ![i] = o]
           /\ Promise(n, "yes", i, 0) /\ exposed' = exposed \ {n}
           /\ Goto(t, "using") /\ UNCHANGED job
  <2>1. n \in Names /\ i \in Incs /\ i # 0 /\ i \in 0..MaxIncs /\ CallInOrder(t)
    <3>1. n \in Names /\ i \in Incs
      BY <1>1, <1>2, Types
    <3> QED
      BY <3>1, CatalogAssumption DEF IndInv, Incs
  <2>2. /\ n \notin dropping /\ disk[n] = FreshDir(i) /\ job[t].op = "create" /\ mutex = t
    BY <1>1, <1>2, <2>1 DEF CallInOrder, Creating
  <2>3. PICK d : d = disk[n]
    OBVIOUS
  <2>4. /\ d \in Directories /\ d.inc = i /\ d.config /\ ~d.marker /\ d.manifest = 0
        /\ \A g \in Gens : d.files[g] = None
    BY <2>1, <2>2, <2>3, FreshDirFields
  <2>5. /\ DOMAIN synced' = Names /\ disk' = disk /\ synced'[n] = d
        /\ \A m \in Names \ {n} : synced'[m] = synced[m]
        /\ \A m \in Names : disk'[m] \in Directories /\ synced'[m] \in Directories
    BY <1>4, <2>1, <2>3, Types DEF Sync, IndInv, Shapes
  <2>6. pc' \in [Threads -> Points] /\ pc'[t] = "using" /\ \A u \in Threads \ {t} : pc'[u] = pc[u]
    BY <1>4, PlaceChange DEF Points
  <2>7. /\ DOMAIN o = ObjectFields /\ o.ver = 0 /\ o.generation = 0 /\ o.dropped = FALSE
        /\ o.holders = {"catalog", t} /\ o.saving = None
    BY <1>1 DEF NewObject, ObjectFields
  <2>8. ObjectTo(i, o)
    BY <1>4, <2>1, <2>7, ObjectChange
  <2>9. /\ DOMAIN promised' = Names
        /\ \A m \in Names : /\ DOMAIN promised'[m] = {"present", "inc", "ver"}
                            /\ promised'[m].ver \in Nat
        /\ promised'[n].present = "yes" /\ promised'[n].inc = i /\ promised'[n].ver = 0
        /\ \A m \in Names \ {n} : promised'[m] = promised[m]
    BY <1>4, <2>1, PromiseChange
  <2>10. /\ slots' \in [Names -> Incs \cup {None}] /\ slots'[n] = i
         /\ \A m \in Names \ {n} : slots'[m] = slots[m]
    BY <1>4, <2>1 DEF IndInv, Shapes, TypeOK
  <2>11. Moves(t)
    BY <1>2, <1>4, <2>2, <2>6 DEF Moves
  <2>12. Touches(t, n)
    BY <1>1, <1>2, <1>4, <2>3, <2>4, <2>5, <2>8, <2>9, <2>10 DEF Touches, ObjectTo
  <2>13. Shapes'
    <3>1. TypeOK'
      BY <1>2, <1>4, <2>5, <2>6, <2>10 DEF IndInv, Shapes, TypeOK
    <3>2. \A j \in Incs : /\ DOMAIN objs'[j] = ObjectFields
                          /\ objs'[j].ver \in 0..MaxVer /\ objs'[j].generation \in 0..MaxGen
                          /\ objs'[j].saving \in Threads \cup {None}
      BY <2>7, <2>8, ObjectIs, CatalogAssumption DEF ObjectTo
    <3> QED
      BY <1>2, <1>4, <2>5, <2>8, <2>9, <3>1, <3>2 DEF IndInv, Shapes, ObjectFields, ObjectTo
  <2>14. DirsInOrder'
    <3>1. DirInOrder(disk[n])
      BY <2>1 DEF IndInv, DirsInOrder
    <3>2. DirInOrder(disk[n])' /\ DirInOrder(synced[n])'
      BY <1>2, <2>3, <2>5, <3>1 DEF DirInOrder
    <3>3. Complete(d)
      BY <2>4 DEF Complete
    <3> QED
      BY <1>2, <1>4, <2>1, <2>3, <2>5, <3>2, <3>3, DirsAt
  <2>15. SlotInOrder(n)' /\ DropInOrder(n)'
    BY <1>2, <2>2, <2>3, <2>4, <2>5, <2>7, <2>8, <2>10 DEF SlotInOrder, DropInOrder, ObjectTo
  <2>16. \A u \in Threads \ {t} : job[u].name # n
    BY <1>1, <1>2, Alone DEF Creating
  <2>17. PromiseInOrder(n)'
    <3>1. Restored(d) # None /\ Restored(d).ver = 0
      BY <2>1, <2>4, RestoredIs
    <3>2. \A u \in Threads : job'[u].name = n => pc'[u] = "using"
      BY <1>4, <2>6, <2>16
    <3> QED
      BY <2>1, <2>3, <2>4, <2>5, <2>7, <2>8, <2>9, <3>1, <3>2 DEF PromiseInOrder, ObjectTo
  <2>18. HoldersInOrder(i)'
    <3>1. ASSUME NEW u \in Users(i) PROVE FALSE
      <4>1. u \in Threads /\ job[u].inc = i /\ pc[u] \in Holding
        BY <3>1 DEF Users
      <4>2. job[u].name \in Names /\ disk[job[u].name].inc = disk[n].inc
        BY <2>3, <2>4, <4>1, OneName
      <4>3. job[u].name = n
        BY <2>1, <2>3, <2>4, <4>2 DEF IndInv, DirsInOrder
      <4> QED
        BY <1>2, <2>16, <4>1, <4>3 DEF Holding, Saving
    <3>2. Users(i)' = {t}
      BY <1>1, <1>4, <2>6, <3>1 DEF Users, Holding
    <3> QED
      BY <2>1, <2>7, <2>8, <2>10, <3>2 DEF HoldersInOrder, ObjectTo
  <2>19. CallInOrder(t)' /\ SnapshotInOrder(t)'
    <3>1. n # None /\ mutex' # t
      BY <1>2, <2>1, CatalogAssumption
    <3> QED
      BY <1>1, <1>2, <1>4, <2>1, <2>2, <2>3, <2>4, <2>5, <2>6, <2>7, <2>8, <2>10, <3>1
      DEF CallInOrder, SnapshotInOrder, ObjectTo, Holding, Saving, Creating, Marking
  <2> QED
    BY <2>1, <2>3, <2>4, <2>11, <2>12, <2>13, <2>14, <2>15, <2>16, <2>17, <2>18, <2>19, StepAt
<1> QED
  BY <1>2, <1>3, <1>4

\* The others at a name whose drop() has the mutex hold the collection in the slot.
LEMMA MarkerAt ==
    ASSUME IndInv, NEW t \in Threads, pc[t] \in Marking, NEW n, n = job[t].name
    PROVE  /\ n \in Names /\ job[t].inc \in Incs /\ slots[n] = job[t].inc
           /\ disk[n].inc = job[t].inc /\ disk[n].inc # 0 /\ disk[n] \in Directories
           /\ n \notin dropping /\ promised[n].present = "maybe" /\ mutex = t
           /\ \A u \in Threads \ {t} : job[u].name = n => pc[u] \in Holding /\ job[u].inc = job[t].inc
<1>1. n \in Names /\ job[t].inc \in Incs /\ disk[n] \in Directories
  BY Types DEF Marking
<1>2. slots[n] = job[t].inc /\ promised[n].present = "maybe" /\ mutex = t
  BY DEF IndInv, CallInOrder
<1>3. slots[n] # None /\ job[t].inc # 0
  BY <1>1, <1>2, NoneAssumption, CatalogAssumption DEF Incs
<1>4. disk[n].inc = job[t].inc /\ n \notin dropping
  BY <1>1, <1>2, <1>3 DEF IndInv, SlotInOrder
<1>5. ASSUME NEW u \in Threads \ {t}, job[u].name = n
      PROVE  pc[u] \in Holding /\ job[u].inc = job[t].inc
  <2>1. CallInOrder(u) /\ pc[u] \in Points /\ pc[u] # "idle"
    BY <1>1, <1>5, CatalogAssumption DEF IndInv, CallInOrder, Shapes, TypeOK
  <2>2. pc[u] \in Holding
    BY <1>2, <1>4, <1>5, <2>1 DEF CallInOrder, Points, Holding, Saving, Creating, Marking
  <2> QED
    BY <1>4, <1>5, <2>2, OneName
<1> QED
  BY <1>1, <1>2, <1>3, <1>4, <1>5

\* The marker is renamed into place.
LEMMA WriteMarkerStep ==
    ASSUME IndInv, NEW t \in Threads, WriteMarker(t)
    PROVE  IndInv'
<1>1. PICK n, d : n = job[t].name /\ d = [disk[n] EXCEPT !.marker = TRUE]
  OBVIOUS
<1>2. /\ pc[t] = "mark" /\ UNCHANGED <<slots, objs, dropping, created, promised, exposed>>
      /\ \/ Change(n, d) /\ Goto(t, "sync_mark") /\ UNCHANGED <<job, mutex>>
         \/ Return(t) /\ mutex' = None /\ UNCHANGED <<disk, synced>>
  BY <1>1 DEF WriteMarker, store, history
<1>3. CASE Return(t) /\ mutex' = None /\ UNCHANGED <<disk, synced>>
  BY <1>2, <1>3, GiveUp DEF Still
<1>4. CASE Change(n, d) /\ Goto(t, "sync_mark") /\ UNCHANGED <<job, mutex>>
  <2>1. /\ n \in Names /\ job[t].inc \in Incs /\ slots[n] = job[t].inc
        /\ disk[n].inc = job[t].inc /\ disk[n].inc # 0 /\ disk[n] \in Directories
        /\ n \notin dropping /\ promised[n].present = "maybe" /\ mutex = t
        /\ \A u \in Threads \ {t} : job[u].name = n => pc[u] \in Holding
    BY <1>1, <1>2, MarkerAt DEF Marking
  <2>2. /\ d \in Directories /\ d.inc = disk[n].inc /\ d.config = disk[n].config /\ d.marker
        /\ d.manifest = disk[n].manifest /\ d.crc = disk[n].crc /\ d.files = disk[n].files
    BY <1>1, <2>1, MarkedFields
  <2>3. /\ DOMAIN disk' = Names /\ DOMAIN synced' = Names /\ disk'[n] = d /\ synced' = synced
        /\ \A m \in Names \ {n} : disk'[m] = disk[m]
        /\ \A m \in Names : disk'[m] \in Directories /\ synced'[m] \in Directories
    <3>1. synced' = synced
      BY <1>4 DEF Change
    <3> QED
      BY <1>4, <2>1, <2>2, <3>1, DirectoryChange
  <2>4. /\ pc' \in [Threads -> Points] /\ pc'[t] = "sync_mark"
        /\ \A u \in Threads \ {t} : pc'[u] = pc[u]
    BY <1>4, PlaceChange DEF Points
  <2>5. Moves(t)
    BY <1>2, <1>4, <2>1, <2>4 DEF Moves
  <2>6. pc[t] \notin Holding /\ pc'[t] \notin Holding
    BY <1>2, <2>4 DEF Holding, Saving
  <2>7. Touches(t, n)
    BY <1>1, <1>2, <1>4, <2>3, <2>6 DEF Touches
  <2>8. Shapes'
    BY <1>2, <1>4, <2>3, <2>4 DEF IndInv, Shapes, TypeOK
  <2>9. DirsInOrder'
    <3>1. /\ DirInOrder(disk[n]) /\ DirInOrder(synced[n])
          /\ n \notin exposed => Complete(disk[n]) /\ Complete(synced[n])
      BY <2>1 DEF IndInv, DirsInOrder
    <3>2. d # NoDir
      BY <2>1, <2>2, NoDirFields
    <3>3. DirInOrder(disk[n])' /\ DirInOrder(synced[n])'
      BY <1>2, <2>1, <2>2, <2>3, <3>1, <3>2 DEF DirInOrder
    <3>4. n \notin exposed => Complete(d)
      BY <2>1, <2>2, <3>1, CompleteSame
    <3> QED
      BY <1>2, <2>1, <2>2, <2>3, <3>1, <3>3, <3>4, DirsAt
  <2>10. SlotInOrder(n)' /\ DropInOrder(n)' /\ PromiseInOrder(n)'
    <3>1. SlotInOrder(n)
      BY <2>1 DEF IndInv
    <3> QED
      BY <1>1, <1>2, <1>4, <2>1, <2>2, <2>3, <2>4, <3>1
      DEF SlotInOrder, DropInOrder, PromiseInOrder
  <2>11. ASSUME NEW j \in Incs PROVE HoldersInOrder(j)'
    <3>1. objs[j].saving # t
      BY <2>6, CatalogAssumption DEF IndInv, HoldersInOrder, Holding
    <3> QED
      BY <1>2, <2>5, <2>6, <3>1, HoldersFrame
  <2>12. ASSUME NEW u \in Threads \ {t}, job[u].name = n PROVE CallInOrder(u)' /\ SnapshotInOrder(u)'
    <3>1. pc[u] # "sync_create"
      BY <2>1, <2>12 DEF Holding, Saving
    <3>2. CallKept(u)
      BY <1>2, <2>2, <2>3, <2>12, <3>1 DEF CallKept
    <3>3. objs[job[u].inc].ver \in Nat
      BY <2>1, <2>12, OneName, ObjectIs
    <3>4. SnapshotKept(u)
      BY <1>2, <2>2, <2>3, <2>12, <3>3 DEF SnapshotKept
    <3> QED
      BY <2>5, <3>2, <3>4, CallFrame, SnapshotFrame
  <2>13. CallInOrder(t)' /\ SnapshotInOrder(t)'
    <3>1. n # None /\ job[t].inc # 0
      BY <2>1, CatalogAssumption
    <3> QED
      BY <1>1, <1>2, <1>4, <2>1, <2>2, <2>3, <2>4, <3>1
      DEF CallInOrder, SnapshotInOrder, Holding, Saving, Creating, Marking
  <2> QED
    BY <2>1, <2>5, <2>7, <2>8, <2>9, <2>10, <2>11, <2>12, <2>13, StepAt
<1> QED
  BY <1>2, <1>3, <1>4

\* drop() fails although its marker is there.
LEMMA SyncMarkerFails ==
    ASSUME IndInv, NEW t \in Threads, pc[t] = "sync_mark", mutex' = None, Return(t),
           exposed' = exposed \cup {job[t].name},
           UNCHANGED <<slots, objs, dropping, disk, synced, created, promised>>
    PROVE  IndInv'
<1>1. PICK n : n = job[t].name
  OBVIOUS
<1>2. /\ n \in Names /\ mutex = t /\ n \notin dropping
      /\ \A u \in Threads \ {t} : job[u].name = n => pc[u] \in Holding
  BY <1>1, MarkerAt DEF Marking
<1>3. /\ pc' \in [Threads -> Points] /\ pc'[t] = "idle"
      /\ job' \in [Threads -> Jobs] /\ job'[t] = NoJob
      /\ \A u \in Threads \ {t} : pc'[u] = pc[u] /\ job'[u] = job[u]
  BY ReturnPlace
<1>4. Moves(t)
  BY <1>2, <1>3, NoJobFields DEF Moves
<1>5. pc[t] \notin Holding /\ pc'[t] \notin Holding
  BY <1>3 DEF Holding, Saving
<1>6. Touches(t, n)
  BY <1>1, <1>3, <1>5, NoJobFields DEF Touches
<1>7. Shapes'
  BY <1>1, <1>2, <1>3 DEF IndInv, Shapes, TypeOK, Jobs
<1>8. DirsInOrder'
  BY DirsFrame, CatalogAssumption DEF IndInv, Shapes
<1>9. SlotInOrder(n)' /\ DropInOrder(n)'
  <2>1. SlotInOrder(n)
    BY <1>2 DEF IndInv
  <2> QED
    BY <1>1, <1>2, <2>1 DEF SlotInOrder, DropInOrder
<1>10. ASSUME NEW j \in Incs PROVE HoldersInOrder(j)'
  <2>1. objs[j].saving # t
    BY <1>5, CatalogAssumption DEF IndInv, HoldersInOrder, Holding
  <2> QED
    BY <1>4, <1>5, <2>1, HoldersFrame
<1>11. ASSUME NEW u \in Threads \ {t}, job[u].name = n PROVE CallInOrder(u)' /\ SnapshotInOrder(u)'
  <2>1. objs[job[u].inc].ver \in Nat
    BY <1>2, <1>11, OneName, ObjectIs
  <2>2. CallKept(u) /\ SnapshotKept(u)
    BY <2>1 DEF CallKept, SnapshotKept
  <2> QED
    BY <1>4, <2>2, CallFrame, SnapshotFrame
<1>12. CallInOrder(t)' /\ SnapshotInOrder(t)'
  BY <1>3, IdleCall, CatalogAssumption
<1> QED
  BY <1>1, <1>2, <1>4, <1>6, <1>7, <1>8, <1>9, <1>10, <1>11, <1>12, StepAt

\* The dropped collection, with its slot gone and drop() one of its holders.
DroppedObject(o, t) == [o EXCEPT !.dropped = TRUE, !.holders = (@ \ {"catalog"}) \cup {t}]

\* The slot is moved out of the catalog.
LEMMA SyncMarkerStep ==
    ASSUME IndInv, NEW t \in Threads, SyncMarker(t)
    PROVE  IndInv'
<1>1. PICK n, i, o : n = job[t].name /\ i = job[t].inc /\ o = DroppedObject(objs[i], t)
  OBVIOUS
<1>2. /\ pc[t] = "sync_mark" /\ mutex' = None /\ UNCHANGED <<created, promised>>
      /\ \/ /\ Sync(n) /\ dropping' = dropping \cup {n}
            /\ objs' = [objs EXCEPT ![i].dropped = TRUE, ![i].holders = (@ \ {"catalog"}) \cup {t}]
            /\ slots' = [slots EXCEPT ![n] = None] /\ Goto(t, "await_snapshot")
            /\ UNCHANGED <<job, exposed>>
         \/ /\ Return(t) /\ exposed' = exposed \cup {n}
            /\ UNCHANGED <<slots, objs, dropping, disk, synced>>
  BY <1>1 DEF SyncMarker, store
<1>3. CASE Return(t) /\ exposed' = exposed \cup {n} /\ UNCHANGED <<slots, objs, dropping, disk, synced>>
  BY <1>1, <1>2, <1>3, SyncMarkerFails
<1>4. CASE /\ Sync(n) /\ dropping' = dropping \cup {n}
           /\ objs' = [objs EXCEPT ![i].dropped = TRUE, ![i].holders = (@ \ {"catalog"}) \cup {t}]
           /\ slots' = [slots EXCEPT ![n] = None] /\ Goto(t, "await_snapshot")
           /\ UNCHANGED <<job, exposed>>
  <2>1. /\ n \in Names /\ i \in Incs /\ slots[n] = i
        /\ disk[n].inc = i /\ i # 0 /\ disk[n] \in Directories /\ disk[n].marker
        /\ n \notin dropping /\ promised[n].present = "maybe" /\ mutex = t
        /\ \A u \in Threads \ {t} : job[u].name = n => pc[u] \in Holding /\ job[u].inc = i
    <3>1. disk[n].marker
      BY <1>1, <1>2 DEF IndInv, CallInOrder
    <3> QED
      BY <1>1, <1>2, <3>1, MarkerAt DEF Marking
  <2>2. /\ DOMAIN synced' = Names /\ disk' = disk /\ synced'[n] = disk[n]
        /\ \A m \in Names \ {n} : synced'[m] = synced[m]
        /\ \A m \in Names : disk'[m] \in Directories /\ synced'[m] \in Directories
    BY <1>4, <2>1, Types DEF Sync, IndInv, Shapes
  <2>3. /\ pc' \in [Threads -> Points] /\ pc'[t] = "await_snapshot"
        /\ \A u \in Threads \ {t} : pc'[u] = pc[u]
    BY <1>4, PlaceChange DEF Points
  <2>4. /\ DOMAIN o = ObjectFields /\ o.ver = objs[i].ver /\ o.generation = objs[i].generation
        /\ o.dropped = TRUE /\ o.holders = (objs[i].holders \ {"catalog"}) \cup {t}
        /\ o.saving = objs[i].saving
    <3>1. PICK b : b = objs[i]
      OBVIOUS
    <3>2. DOMAIN b = ObjectFields /\ o = DroppedObject(b, t)
      BY <1>1, <2>1, <3>1, ObjectIs
    <3>3. /\ DOMAIN o = ObjectFields /\ o.ver = b.ver /\ o.generation = b.generation
          /\ o.dropped = TRUE /\ o.holders = (b.holders \ {"catalog"}) \cup {t}
          /\ o.saving = b.saving
      BY <3>2 DEF DroppedObject, ObjectFields
    <3> QED
      BY <3>1, <3>3
  <2>5. ObjectTo(i, o)
    <3>1. objs' = [objs EXCEPT ![i] = o]
      BY <1>1, <1>4 DEF DroppedObject
    <3> QED
      BY <2>1, <2>4, <3>1, ObjectChange
  <2>6. /\ slots' \in [Names -> Incs \cup {None}] /\ slots'[n] = None
        /\ \A m \in Names \ {n} : slots'[m] = slots[m]
    BY <1>4, <2>1 DEF IndInv, Shapes, TypeOK
  <2>7. Moves(t)
    BY <1>2, <1>4, <2>1, <2>3 DEF Moves
  <2>8. Touches(t, n)
    BY <1>1, <1>2, <1>4, <2>1, <2>2, <2>5, <2>6 DEF Touches, ObjectTo
  <2>9. Shapes'
    <3>1. TypeOK'
      BY <1>2, <1>4, <2>1, <2>2, <2>3, <2>6 DEF IndInv, Shapes, TypeOK
    <3>2. \A j \in Incs : /\ DOMAIN objs'[j] = ObjectFields
                          /\ objs'[j].ver \in 0..MaxVer /\ objs'[j].generation \in 0..MaxGen
                          /\ objs'[j].saving \in Threads \cup {None}
      BY <2>1, <2>4, <2>5, ObjectIs DEF ObjectTo
    <3> QED
      BY <1>2, <1>4, <2>2, <2>5, <3>1, <3>2 DEF IndInv, Shapes, ObjectFields, ObjectTo
  <2>10. DirsInOrder'
    <3>1. DirInOrder(disk[n]) /\ (n \notin exposed => Complete(disk[n]))
      BY <2>1 DEF IndInv, DirsInOrder
    <3>2. DirInOrder(disk[n])' /\ DirInOrder(synced[n])'
      BY <1>2, <2>2, <3>1 DEF DirInOrder
    <3> QED
      BY <1>2, <1>4, <2>1, <2>2, <3>1, <3>2, DirsAt
  <2>11. SlotInOrder(n)' /\ DropInOrder(n)' /\ PromiseInOrder(n)'
    BY <1>1, <1>2, <1>4, <2>1, <2>2, <2>3, <2>6
    DEF SlotInOrder, DropInOrder, PromiseInOrder, Holding
  <2>12. HoldersInOrder(i)'
    <3>1. Users(i)' = Users(i) \cup {t}
      BY <1>1, <1>2, <1>4, <2>3 DEF Users, Holding, Saving
    <3>2. ~ \E m \in Names : slots'[m] = i
      BY <2>1, <2>6, OneName, NoneAssumption
    <3>3. HoldersInOrder(i) /\ objs[i].saving \in Threads \cup {None} /\ "catalog" \notin Users(i)
      BY <2>1, ObjectIs, CatalogAssumption DEF IndInv, Users
    <3>4. objs[i].saving # None => objs[i].saving # t
      BY <1>2, <3>3 DEF HoldersInOrder, Saving
    <3>5. o.holders = Users(i) \cup {t}
      BY <2>4, <3>3 DEF HoldersInOrder
    <3>6. objs'[i].holders = Users(i)' /\ objs'[i].saving = objs[i].saving
      BY <2>4, <2>5, <3>1, <3>5 DEF ObjectTo
    <3>7. objs[i].saving # None =>
            pc'[objs[i].saving] \in Saving /\ job'[objs[i].saving].inc = i
      BY <1>4, <2>3, <3>3, <3>4 DEF HoldersInOrder
    <3> QED
      BY <3>2, <3>6, <3>7 DEF HoldersInOrder
  <2>13. ASSUME NEW u \in Threads \ {t}, job[u].name = n PROVE CallInOrder(u)' /\ SnapshotInOrder(u)'
    <3>1. SnapshotKept(u)
      <4>1. objs[i].ver \in Nat
        BY <2>1, ObjectIs
      <4> QED
        BY <2>1, <2>2, <2>4, <2>5, <2>13, <4>1 DEF SnapshotKept, ObjectTo
    <3>2. pc[u] \in Holding /\ job[u].inc = i /\ mutex' # u /\ n # None /\ pc'[u] = pc[u]
      BY <1>2, <2>1, <2>3, <2>13, CatalogAssumption
    <3>3. CallInOrder(u)'
      BY <1>4, <2>1, <2>2, <2>4, <2>5, <2>13, <3>2, SMTT(30)
      DEF CallInOrder, ObjectTo, Holding, Saving, Creating, Marking
    <3> QED
      BY <2>7, <3>1, <3>3, SnapshotFrame
  <2>14. CallInOrder(t)' /\ SnapshotInOrder(t)'
    <3>1. n # None /\ mutex' # t
      BY <1>2, <2>1, CatalogAssumption
    <3> QED
      BY <1>1, <1>4, <2>1, <2>2, <2>3, <2>4, <2>5, <3>1, ZenonT(60)
      DEF CallInOrder, SnapshotInOrder, ObjectTo, Holding, Saving, Creating, Marking
  <2> QED
    BY <2>1, <2>7, <2>8, <2>9, <2>10, <2>11, <2>12, <2>13, <2>14, StepAt
<1> QED
  BY <1>2, <1>3, <1>4

-----------------------------------------------------------------------------
\* The snapshot mutex of a collection is taken or given up; what is left to show.
LEMMA SavingStep ==
    ASSUME IndInv, NEW t \in Threads, NEW n \in Names, NEW i \in Incs, n = job[t].name, i = job[t].inc,
           Still, UNCHANGED <<mutex, created>>, pc[t] \in Holding, pc'[t] \in Holding,
           pc' \in [Threads -> Points], job' \in [Threads -> Jobs],
           \A u \in Threads \ {t} : pc'[u] = pc[u] /\ job'[u] = job[u],
           job'[t].name = n, job'[t].inc = i, job'[t].op = job[t].op,
           DOMAIN objs' = Incs, \A j \in Incs : DOMAIN objs'[j] = ObjectFields,
           \A j \in Incs \ {i} : objs'[j] = objs[j],
           objs'[i].ver = objs[i].ver, objs'[i].dropped = objs[i].dropped,
           objs'[i].holders = objs[i].holders,
           objs'[i].generation \in {objs[i].generation, disk[n].manifest},
           objs'[i].saving = None \/ (objs'[i].saving = t /\ pc'[t] \in Saving),
           \A u \in Threads \ {t} : pc[u] \in Saving => job[u].inc # i,
           DOMAIN promised' = Names,
           \A m \in Names : /\ DOMAIN promised'[m] = {"present", "inc", "ver"}
                            /\ promised'[m].ver \in Nat,
           \A m \in Names \ {n} : promised'[m] = promised[m],
           \/ promised'[n] = promised[n]
           \/ mutex = None /\ (n \notin exposed => PromiseInOrder(n)'),
           pc'[t] \notin {"sync_save", "manifest"}, SnapshotInOrder(t)'
    PROVE  IndInv'
<1>1. Moves(t)
  BY DEF Moves, Still
<1>2. \A j \in Incs : /\ objs'[j].ver = objs[j].ver /\ objs'[j].dropped = objs[j].dropped
                      /\ objs'[j].ver \in 0..MaxVer /\ objs'[j].ver >= objs[j].ver
                      /\ objs'[j].generation \in 0..MaxGen
                      /\ objs'[j].saving \in Threads \cup {None}
  <2>1. disk[n].manifest \in 0..MaxGen
    BY Types, DirFields
  <2> QED
    BY <2>1, ObjectIs
<1>3. Shapes'
  BY <1>2, StillTypes DEF IndInv, Shapes, TypeOK
<1>4. /\ DirsInOrder'
      /\ \A m \in Names : SlotInOrder(m)' /\ DropInOrder(m)'
      /\ \A m \in Names \ exposed : promised'[m] = promised[m] => PromiseInOrder(m)'
      /\ \A u \in Threads \ {t} : CallInOrder(u)' /\ SnapshotInOrder(u)'
  <2>1. \A u \in Threads \ {t} : pc[u] \in Saving => job[u].inc \in Incs /\ job[u].inc # i
    BY Types DEF Saving
  <2>2. \A m \in Names : slots[m] # None =>
          objs'[slots[m]].generation \in {objs[slots[m]].generation, disk[m].manifest}
    BY OneName
  <2>3. HeldBack(t)
    BY DEF HeldBack
  <2>4. created' >= created
    BY CatalogAssumption DEF IndInv, Shapes
  <2>5. pc[t] # "sync_mark"
    BY DEF Holding, Saving
  <2> QED
    BY <1>1, <1>2, <1>3, <2>1, <2>2, <2>3, <2>4, <2>5, StillFrame
<1>5. ASSUME NEW m \in Names \ exposed PROVE PromiseInOrder(m)'
  BY <1>4
<1>6. ASSUME NEW j \in Incs PROVE HoldersInOrder(j)'
  <2>1. HoldersInOrder(j)
    BY DEF IndInv
  <2>2. CASE j # i
    <3>1. objs[j].saving # t
      BY <2>1, <2>2, CatalogAssumption DEF HoldersInOrder
    <3> QED
      BY <1>1, <2>2, <3>1, HoldersFrame DEF Still
  <2>3. CASE j = i
    <3>1. Users(i)' = Users(i)
      BY DEF Users
    <3> QED
      BY <2>1, <2>3, <3>1 DEF HoldersInOrder, Still
  <2> QED
    BY <2>2, <2>3
<1>7. CallInOrder(t)'
  <2>1. CallInOrder(t) /\ pc[t] # "idle" /\ pc'[t] # "idle"
    BY DEF IndInv, Holding, Saving
  <2> QED
    BY <2>1 DEF CallInOrder, Still, Holding, Saving, Creating, Marking
<1> QED
  BY <1>3, <1>4, <1>5, <1>6, <1>7, Together DEF Still

\* A snapshot takes its mutex.
LEMMA LockSnapshotStep ==
    ASSUME IndInv, NEW t \in Threads, LockSnapshot(t)
    PROVE  IndInv'
<1>1. PICK n, i, g : n = job[t].name /\ i = job[t].inc /\ g = disk[n].manifest + 1
  OBVIOUS
<1>2. /\ pc[t] = "snapshot" /\ objs[i].saving = None
      /\ \/ Goto(t, "release") /\ UNCHANGED <<job, objs>>
         \/ /\ disk[n].manifest # MaxGen /\ objs' = [objs EXCEPT ![i].saving = t]
            /\ job' = [job EXCEPT ![t].gen = g] /\ Goto(t, "save")
      /\ Still /\ UNCHANGED <<mutex, created, promised>>
  BY <1>1 DEF LockSnapshot, NextGeneration, Still, store, history
<1>3. /\ n \in Names /\ i \in Incs /\ pc[t] \in Holding /\ disk[n].manifest \in 0..MaxGen
  <2>1. pc[t] \in Holding
    BY <1>2 DEF Holding
  <2> QED
    BY <1>1, <2>1, OneName, Types, DirFields
<1>4. \A u \in Threads \ {t} : pc[u] \in Saving => job[u].inc # i
  BY <1>2, CatalogAssumption DEF IndInv, SnapshotInOrder
<1>5. /\ DOMAIN promised' = Names
      /\ \A m \in Names : /\ DOMAIN promised'[m] = {"present", "inc", "ver"}
                          /\ promised'[m].ver \in Nat
  BY <1>2 DEF IndInv, Shapes
<1>6. job[t] \in Jobs /\ job \in [Threads -> Jobs]
  BY DEF IndInv, Shapes, TypeOK, Jobs
<1>7. CASE Goto(t, "release") /\ UNCHANGED <<job, objs>>
  <2>1. pc' \in [Threads -> Points] /\ pc'[t] = "release" /\ \A u \in Threads \ {t} : pc'[u] = pc[u]
    BY <1>7, PlaceChange DEF Points
  <2>2. pc'[t] \in Holding /\ SnapshotInOrder(t)'
    BY <2>1 DEF SnapshotInOrder, Holding, Saving
  <2>3. DOMAIN objs' = Incs /\ \A j \in Incs : DOMAIN objs'[j] = ObjectFields
    BY <1>7, ObjectIs DEF IndInv, Shapes
  <2> QED
    BY <1>1, <1>2, <1>3, <1>4, <1>5, <1>6, <1>7, <2>1, <2>2, <2>3, SavingStep
<1>8. CASE /\ disk[n].manifest # MaxGen /\ objs' = [objs EXCEPT ![i].saving = t]
           /\ job' = [job EXCEPT ![t].gen = g] /\ Goto(t, "save")
  <2>1. pc' \in [Threads -> Points] /\ pc'[t] = "save" /\ \A u \in Threads \ {t} : pc'[u] = pc[u]
    BY <1>8, PlaceChange DEF Points
  <2>2. g \in 0..MaxGen /\ g # 0
    BY <1>1, <1>3, <1>8, CatalogAssumption
  <2>3. PICK k : k = [job[t] EXCEPT !.gen = g]
    OBVIOUS
  <2>4. k \in Jobs /\ k.name = n /\ k.inc = i /\ k.op = job[t].op /\ k.gen = g
    BY <1>1, <1>6, <2>2, <2>3 DEF Jobs
  <2>5. job' \in [Threads -> Jobs] /\ job'[t] = k /\ \A u \in Threads \ {t} : job'[u] = job[u]
    <3>1. job' = [job EXCEPT ![t] = k]
      BY <1>8, <2>3
    <3> QED
      BY <2>4, <3>1, JobChange
  <2>6. /\ objs'[i].saving = t /\ objs'[i].holders = objs[i].holders
        /\ \A j \in Incs \ {i} : objs'[j] = objs[j]
        /\ \A j \in Incs : /\ objs'[j].ver = objs[j].ver
                           /\ objs'[j].generation = objs[j].generation
                           /\ objs'[j].dropped = objs[j].dropped
                           /\ DOMAIN objs'[j] = ObjectFields
        /\ DOMAIN objs' = Incs
    BY <1>3, <1>8, SavingChange
  <2>7. pc'[t] \in Holding /\ pc'[t] \in Saving
    BY <2>1 DEF Holding, Saving
  <2>8. SnapshotInOrder(t)'
    BY <1>1, <1>2, <2>1, <2>2, <2>4, <2>5, <2>6 DEF SnapshotInOrder, Saving, Still
  <2> QED
    BY <1>1, <1>2, <1>3, <1>4, <1>5, <2>1, <2>4, <2>5, <2>6, <2>7, <2>8, SavingStep
<1> QED
  BY <1>2, <1>7, <1>8

\* A snapshot fails.
LEMMA SnapshotFailsStep ==
    ASSUME IndInv, NEW t \in Threads, SnapshotFails(t)
    PROVE  IndInv'
<1>1. PICK n, i : n = job[t].name /\ i = job[t].inc
  OBVIOUS
<1>2. /\ pc[t] \in Saving /\ objs' = [objs EXCEPT ![i].saving = None] /\ Goto(t, "release")
      /\ Still /\ UNCHANGED <<job, mutex, created, promised>>
  BY <1>1 DEF SnapshotFails, Still, store, history, Saving
<1>3. /\ n \in Names /\ i \in Incs /\ pc[t] \in Holding
  BY <1>1, <1>2, OneName DEF Holding
<1>4. \A u \in Threads \ {t} : pc[u] \in Saving => job[u].inc # i
  BY <1>1, <1>2 DEF IndInv, SnapshotInOrder
<1>5. /\ DOMAIN promised' = Names
      /\ \A m \in Names : /\ DOMAIN promised'[m] = {"present", "inc", "ver"}
                          /\ promised'[m].ver \in Nat
      /\ job' \in [Threads -> Jobs]
  BY <1>2 DEF IndInv, Shapes, TypeOK, Jobs
<1>6. pc' \in [Threads -> Points] /\ pc'[t] = "release" /\ \A u \in Threads \ {t} : pc'[u] = pc[u]
  BY <1>2, PlaceChange DEF Points
<1>7. pc'[t] \in Holding /\ SnapshotInOrder(t)'
  BY <1>6 DEF SnapshotInOrder, Holding, Saving
<1>8. /\ objs'[i].saving = None /\ objs'[i].holders = objs[i].holders
      /\ \A j \in Incs \ {i} : objs'[j] = objs[j]
      /\ \A j \in Incs : /\ objs'[j].ver = objs[j].ver
                         /\ objs'[j].generation = objs[j].generation
                         /\ objs'[j].dropped = objs[j].dropped
                         /\ DOMAIN objs'[j] = ObjectFields
      /\ DOMAIN objs' = Incs
  BY <1>2, <1>3, SavingChange
<1> QED
  BY <1>1, <1>2, <1>3, <1>4, <1>5, <1>6, <1>7, <1>8, SavingStep

\* A snapshot that is done.
LEMMA ReportSnapshotStep ==
    ASSUME IndInv, NEW t \in Threads, ReportSnapshot(t)
    PROVE  IndInv'
<1>1. PICK n, i, g, f : n = job[t].name /\ i = job[t].inc /\ g = job[t].gen /\ f = disk[n].files[g]
  OBVIOUS
<1>2. /\ pc[t] = "report" /\ pc[t] \in Saving /\ mutex = None /\ Goto(t, "release")
      /\ Still /\ UNCHANGED <<job, mutex, created>>
      /\ IF slots[n] = i
         THEN /\ objs' = [objs EXCEPT ![i].saving = None, ![i].generation = g]
              /\ Promise(n, "yes", i, f.ver)
         ELSE objs' = [objs EXCEPT ![i].saving = None] /\ UNCHANGED promised
  BY <1>1 DEF ReportSnapshot, Still, store, Saving
<1>3. /\ n \in Names /\ i \in Incs /\ g \in Gens /\ disk[n] \in Directories /\ synced[n] \in Directories
      /\ disk[n].inc = i /\ disk[n].inc # 0 /\ pc[t] \in Holding
  BY <1>1, <1>2, SaverAt DEF Holding
<1>4. /\ g # 0 /\ g = disk[n].manifest /\ f # None /\ f.ver <= objs[i].ver
      /\ synced[n].inc = disk[n].inc /\ synced[n].manifest = g /\ synced[n].files[g] = f
      /\ synced[n].marker => disk[n].marker
  BY <1>1, <1>2 DEF IndInv, SnapshotInOrder, Saving
<1>5. f.ver \in Nat
  BY <1>1, <1>3, <1>4, FileVersion
<1>6. \A u \in Threads \ {t} : pc[u] \in Saving => job[u].inc # i
  BY <1>1, <1>2 DEF IndInv, SnapshotInOrder
<1>7. job' \in [Threads -> Jobs]
  BY <1>2 DEF IndInv, Shapes, TypeOK, Jobs
<1>8. pc' \in [Threads -> Points] /\ pc'[t] = "release" /\ \A u \in Threads \ {t} : pc'[u] = pc[u]
  BY <1>2, PlaceChange DEF Points
<1>9. pc'[t] \in Holding /\ SnapshotInOrder(t)'
  BY <1>8 DEF SnapshotInOrder, Holding, Saving
<1>10. CASE slots[n] = i
  <2>1. PICK o : o = [objs[i] EXCEPT !.saving = None, !.generation = g]
    OBVIOUS
  <2>2. /\ DOMAIN o = ObjectFields /\ o.ver = objs[i].ver /\ o.dropped = objs[i].dropped
        /\ o.holders = objs[i].holders /\ o.saving = None /\ o.generation = g
    <3>1. DOMAIN objs[i] = ObjectFields
      BY <1>3, ObjectIs
    <3> QED
      BY <2>1, <3>1 DEF ObjectFields
  <2>3. ObjectTo(i, o)
    <3>1. objs' = [objs EXCEPT ![i] = o]
      BY <1>2, <1>10, <2>1
    <3> QED
      BY <1>3, <2>2, <3>1, ObjectChange
  <2>4. /\ DOMAIN promised' = Names
        /\ \A m \in Names : /\ DOMAIN promised'[m] = {"present", "inc", "ver"}
                            /\ promised'[m].ver \in Nat
        /\ promised'[n].present = "yes" /\ promised'[n].inc = i /\ promised'[n].ver = f.ver
        /\ \A m \in Names \ {n} : promised'[m] = promised[m]
    BY <1>2, <1>3, <1>5, <1>10, PromiseChange
  <2>5. ASSUME n \notin exposed PROVE PromiseInOrder(n)'
    <3>1. ~disk[n].marker
      <4>1. SlotInOrder(n) /\ \A u \in Threads : pc[u] # "sync_mark"
        BY <1>2, <1>3, MutexHolder DEF IndInv, Marking
      <4> QED
        BY <1>3, <1>10, <2>5, <4>1, NoneAssumption DEF SlotInOrder
    <3>2. Restored(disk[n]) = f /\ Restored(synced[n]) = f
      BY <1>1, <1>3, <1>4, <3>1, RestoredIs
    <3>3. f.ver >= f.ver /\ objs'[i].ver >= f.ver
      BY <1>3, <1>4, <1>5, <2>2, <2>3, ObjectIs DEF ObjectTo
    <3>4. \A u \in Threads : job'[u].name = n => pc'[u] \notin {"sync_save", "manifest"}
      <4>1. \A u \in Threads \ {t} : job[u].name = n => pc[u] \notin {"sync_save", "manifest"}
        BY <1>1, <1>2, SaverAt DEF Saving, Holding, Marking
      <4> QED
        BY <1>2, <1>8, <4>1
    <3>5. disk' = disk /\ synced' = synced
      BY <1>2 DEF Still
    <3> QED
      BY <1>3, <1>4, <2>4, <3>2, <3>3, <3>4, <3>5 DEF PromiseInOrder
  <2>6. /\ objs'[i].saving = None /\ objs'[i].holders = objs[i].holders
        /\ objs'[i].ver = objs[i].ver /\ objs'[i].generation = disk[n].manifest
        /\ objs'[i].dropped = objs[i].dropped
        /\ \A j \in Incs \ {i} : objs'[j] = objs[j]
        /\ DOMAIN objs' = Incs /\ \A j \in Incs : DOMAIN objs'[j] = ObjectFields
    BY <1>4, <2>2, <2>3 DEF ObjectTo
  <2>7. /\ Still /\ UNCHANGED <<job, mutex, created>> /\ mutex = None
        /\ n \in Names /\ i \in Incs /\ pc[t] \in Holding
    BY <1>2, <1>3
  <2> QED
    BY <1>1, <1>6, <1>7, <1>8, <1>9, <2>4, <2>5, <2>6, <2>7, SavingStep
<1>11. CASE slots[n] # i
  <2>1. objs' = [objs EXCEPT ![i].saving = None] /\ UNCHANGED promised
    BY <1>2, <1>11
  <2>2. /\ objs'[i].saving = None /\ objs'[i].holders = objs[i].holders
        /\ \A j \in Incs \ {i} : objs'[j] = objs[j]
        /\ \A j \in Incs : /\ objs'[j].ver = objs[j].ver
                           /\ objs'[j].generation = objs[j].generation
                           /\ objs'[j].dropped = objs[j].dropped
                           /\ DOMAIN objs'[j] = ObjectFields
        /\ DOMAIN objs' = Incs
    <3>1. i \in Incs /\ objs' = [objs EXCEPT ![i].saving = None]
      BY <1>3, <2>1
    <3> QED
      BY <3>1, SavingChange
  <2>3. /\ DOMAIN promised' = Names
        /\ \A m \in Names : /\ DOMAIN promised'[m] = {"present", "inc", "ver"}
                            /\ promised'[m].ver \in Nat
    BY <2>1 DEF IndInv, Shapes
  <2> QED
    BY <1>1, <1>2, <1>3, <1>6, <1>7, <1>8, <1>9, <2>1, <2>2, <2>3, SavingStep
<1> QED
  BY <1>10, <1>11

-----------------------------------------------------------------------------
\* What open() makes of a directory it can load.
LEMMA OpenedFields ==
    ASSUME NEW d \in Directories, DirInOrder(d), Loadable(d), NEW e, e = Opened(d)
    PROVE  /\ e \in Directories
           /\ Restored(d) = None => e = NoDir
           /\ Restored(d) # None =>
                 /\ e.inc = d.inc /\ d.inc # 0 /\ d.inc \in Incs /\ ~e.marker
                 /\ e.manifest = d.manifest /\ e.config = d.config /\ e.crc = d.crc
                 /\ \A g \in Gens : e.files[g] \in {d.files[g], None}
                 /\ d.manifest # 0 => e.files[d.manifest] = d.files[d.manifest]
                 /\ Restored(e) = Restored(d) /\ Restored(d).ver \in 0..MaxVer
<1>1. CASE Restored(d) = None
  BY <1>1, NoDirFields DEF Opened
<1>2. CASE Restored(d) # None
  <2>1. d # NoDir /\ ~d.marker
    BY <1>2 DEF Restored
  <2>2. d.inc # 0 /\ d.inc \in Incs /\ d.manifest \in 0..MaxGen
    BY <2>1, DirFields, CatalogAssumption DEF DirInOrder, Incs
  <2>3. /\ e \in Directories /\ e.inc = d.inc /\ e.config = d.config
        /\ e.marker = d.marker /\ e.manifest = d.manifest /\ e.crc = d.crc
        /\ \A g \in Gens : e.files[g] \in {d.files[g], None}
        /\ d.manifest # 0 => e.files[d.manifest] = d.files[d.manifest]
    <3>1. CASE d.manifest = 0
      BY <1>2, <3>1 DEF Opened, NoManifest
    <3>2. CASE d.manifest # 0
      <4>1. e = Collected(d, Garbage(d))
        BY <1>2, <3>2 DEF Opened, NoManifest
      <4> QED
        BY <4>1, CollectedFields
    <3> QED
      BY <3>1, <3>2
  <2>4. Restored(e) = Restored(d)
    BY <2>2, <2>3, RestoredSame
  <2>5. Restored(d).ver \in 0..MaxVer
    <3>1. CASE d.manifest = 0
      BY <2>1, <2>2, <3>1, RestoredIs, CatalogAssumption
    <3>2. CASE d.manifest # 0
      <4>1. d.manifest \in Gens /\ Restored(d) = d.files[d.manifest]
        BY <2>1, <2>2, <3>2, RestoredIs, CatalogAssumption DEF Gens
      <4>2. Restored(d) \in Contents
        BY <1>2, <4>1, DirFields
      <4> QED
        BY <4>2 DEF Contents
    <3> QED
      BY <3>1, <3>2
  <2> QED
    BY <1>2, <2>1, <2>2, <2>3, <2>4, <2>5
<1> QED
  BY <1>1, <1>2

\* The process stops and the catalog is opened on the directories found.
LEMMA RestartStep ==
    ASSUME IndInv, NEW found, Restart(found), DOMAIN synced' = Names,
           \A n \in Names : /\ found[n] \in {disk[n], synced[n]}
                            /\ synced'[n] \in {disk[n], synced[n]}
    PROVE  IndInv'
<1>1. /\ pc' = [t \in Threads |-> "idle"] /\ job' = [t \in Threads |-> NoJob] /\ mutex' = None
      /\ dropping' = {} /\ UNCHANGED <<created, promised, exposed>>
      /\ disk' = [n \in Names |-> Opened(found[n])]
      /\ slots' = [n \in Names |-> IF Restored(found[n]) = None THEN None ELSE found[n].inc]
      /\ \A n \in Names : Loadable(found[n])
  BY DEF Restart, history
<1>2. \A n \in Names : /\ found[n] \in Directories /\ synced'[n] \in Directories
                       /\ DirInOrder(found[n]) /\ DirInOrder(synced'[n])
                       /\ n \notin exposed => Complete(found[n]) /\ Complete(synced'[n])
  BY Types DEF IndInv, DirsInOrder
<1>3. ASSUME NEW n \in Names
      PROVE  /\ disk'[n] \in Directories
             /\ Restored(found[n]) = None => disk'[n] = NoDir /\ slots'[n] = None
             /\ Restored(found[n]) # None =>
                   /\ disk'[n].inc = found[n].inc /\ found[n].inc # 0 /\ found[n].inc \in Incs
                   /\ slots'[n] = found[n].inc /\ ~disk'[n].marker
                   /\ disk'[n].manifest = found[n].manifest /\ disk'[n].config = found[n].config
                   /\ disk'[n].crc = found[n].crc
                   /\ \A g \in Gens : disk'[n].files[g] \in {found[n].files[g], None}
                   /\ found[n].manifest # 0 =>
                         disk'[n].files[found[n].manifest] = found[n].files[found[n].manifest]
                   /\ Restored(disk'[n]) = Restored(found[n])
                   /\ Restored(found[n]).ver \in 0..MaxVer
  <2>1. PICK d, e : d = found[n] /\ e = Opened(d)
    OBVIOUS
  <2>2. disk'[n] = e /\ slots'[n] = IF Restored(d) = None THEN None ELSE d.inc
    BY <1>1, <2>1
  <2>3. d \in Directories /\ DirInOrder(d) /\ Loadable(d)
    BY <1>1, <1>2, <2>1
  <2> QED
    BY <2>1, <2>2, <2>3, OpenedFields
<1>4. \A m, n \in Names : found[m].inc = found[n].inc => m = n \/ found[m].inc = 0
  BY DEF IndInv, DirsInOrder
<1>5. \A m, n \in Names : slots'[m] # None /\ slots'[m] = slots'[n] => m = n
  BY <1>3, <1>4
<1>6. ASSUME NEW i \in Incs
      PROVE  /\ \A n \in Names : slots'[n] = i =>
                   objs'[i] = NewObject(Restored(found[n]).ver, found[n].manifest, {"catalog"})
             /\ (\A n \in Names : slots'[n] # i) => objs'[i] = NewObject(0, 0, {})
             /\ DOMAIN objs' = Incs
  <2>1. objs'[i] = IF \E n \in Names : slots'[n] = i
                   THEN LET d == found[CHOOSE n \in Names : slots'[n] = i]
                        IN  NewObject(Restored(d).ver, d.manifest, {"catalog"})
                   ELSE NewObject(0, 0, {})
    BY DEF Restart
  <2>2. ASSUME NEW n \in Names, slots'[n] = i
        PROVE  objs'[i] = NewObject(Restored(found[n]).ver, found[n].manifest, {"catalog"})
    <3>1. PICK c : c = CHOOSE m \in Names : slots'[m] = i
      OBVIOUS
    <3>2. c \in Names /\ slots'[c] = i
      BY <2>2, <3>1
    <3>3. c = n
      BY <1>5, <2>2, <3>2, NoneAssumption
    <3> QED
      BY <2>1, <2>2, <3>1, <3>3
  <2>3. DOMAIN objs' = Incs
    BY DEF Restart
  <2> QED
    BY <2>1, <2>2, <2>3
<1>7. ASSUME NEW i \in Incs
      PROVE  /\ DOMAIN objs'[i] = ObjectFields /\ objs'[i].ver \in 0..MaxVer
             /\ objs'[i].generation \in 0..MaxGen /\ objs'[i].saving = None
             /\ objs'[i].dropped = FALSE
             /\ objs'[i].holders = IF \E n \in Names : slots'[n] = i THEN {"catalog"} ELSE {}
  <2>1. 0 \in 0..MaxVer /\ 0 \in 0..MaxGen
    BY CatalogAssumption
  <2>2. CASE \A n \in Names : slots'[n] # i
    BY <1>6, <2>1, <2>2 DEF NewObject, ObjectFields
  <2>3. ASSUME NEW n \in Names, slots'[n] = i
        PROVE  /\ DOMAIN objs'[i] = ObjectFields /\ objs'[i].ver \in 0..MaxVer
               /\ objs'[i].generation \in 0..MaxGen /\ objs'[i].saving = None
               /\ objs'[i].dropped = FALSE /\ objs'[i].holders = {"catalog"}
    <3>1. PICK v, h : v = Restored(found[n]).ver /\ h = found[n].manifest
      OBVIOUS
    <3>2. v \in 0..MaxVer /\ h \in 0..MaxGen
      BY <1>2, <1>3, <2>3, <3>1, NoneAssumption, DirFields
    <3>3. objs'[i] = NewObject(v, h, {"catalog"})
      BY <1>6, <2>3, <3>1
    <3> QED
      BY <3>2, <3>3 DEF NewObject, ObjectFields
  <2> QED
    BY <2>2, <2>3
<1>8. ASSUME NEW n \in Names, slots'[n] # None
      PROVE  /\ objs'[slots'[n]].ver = Restored(found[n]).ver
             /\ objs'[slots'[n]].generation = found[n].manifest
  <2>1. PICK i : i = slots'[n]
    OBVIOUS
  <2>2. i \in Incs
    BY <1>3, <1>8, <2>1
  <2>3. objs'[i] = NewObject(Restored(found[n]).ver, found[n].manifest, {"catalog"})
    BY <1>6, <2>1, <2>2
  <2> QED
    BY <2>1, <2>3 DEF NewObject
<1>9. Shapes'
  <2>1. pc' \in [Threads -> Points] /\ job' \in [Threads -> Jobs]
    BY <1>1, NoJobFields DEF Points
  <2>2. slots' \in [Names -> Incs \cup {None}] /\ DOMAIN disk' = Names
    <3>1. \A n \in Names : slots'[n] \in Incs \cup {None}
      BY <1>3
    <3> QED
      BY <1>1, <3>1
  <2>3. TypeOK'
    BY <1>1, <1>2, <1>3, <2>1, <2>2, SMTT(30) DEF TypeOK, Jobs
  <2>4. /\ DOMAIN objs' = Incs
        /\ \A i \in Incs : /\ DOMAIN objs'[i] = ObjectFields
                           /\ objs'[i].ver \in 0..MaxVer /\ objs'[i].generation \in 0..MaxGen
                           /\ objs'[i].saving \in Threads \cup {None}
    BY <1>7 DEF Restart
  <2> QED
    BY <1>1, <2>2, <2>3, <2>4 DEF IndInv, Shapes, ObjectFields
<1>10. DirsInOrder'
  <2>1. ASSUME NEW n \in Names PROVE DirInOrder(disk[n])'
    <3>1. CASE Restored(found[n]) = None
      <4>1. created \in Nat /\ disk'[n] = NoDir
        BY <1>3, <3>1, CatalogAssumption DEF IndInv, Shapes
      <4> QED
        BY <1>1, <4>1, NoDirFields DEF DirInOrder
    <3>2. CASE Restored(found[n]) # None
      <4>1. disk'[n].inc # 0 /\ disk'[n] # NoDir /\ DirInOrder(found[n])
        BY <1>2, <1>3, <3>2, NoDirFields
      <4> QED
        BY <1>1, <1>3, <3>2, <4>1 DEF DirInOrder
    <3> QED
      BY <3>1, <3>2
  <2>2. \A n \in Names : DirInOrder(synced[n])'
    BY <1>1, <1>2 DEF DirInOrder
  <2>3. \A n \in Names : disk'[n].inc \in {found[n].inc, 0}
    BY <1>3, NoDirFields
  <2>4. ASSUME NEW m \in Names, NEW n \in Names, NEW d \in {disk'[m], synced'[m]},
               NEW e \in {disk'[n], synced'[n]}, d.inc = e.inc
        PROVE  m = n \/ d.inc = 0
    <3>1. /\ d.inc \in {disk[m].inc, synced[m].inc, 0}
          /\ e.inc \in {disk[n].inc, synced[n].inc, 0}
      BY <2>3
    <3> QED
      BY <2>4, <3>1 DEF IndInv, DirsInOrder
  <2>5. ASSUME NEW n \in Names \ exposed PROVE Complete(disk'[n]) /\ Complete(synced'[n])
    <3>1. CASE Restored(found[n]) = None
      BY <1>2, <1>3, <3>1 DEF Complete
    <3>2. CASE Restored(found[n]) # None
      BY <1>2, <1>3, <3>2, CompleteSame
    <3> QED
      BY <3>1, <3>2
  <2> QED
    BY <1>1, <2>1, <2>2, <2>4, <2>5 DEF DirsInOrder, Complete
<1>11. ASSUME NEW n \in Names PROVE SlotInOrder(n)' /\ DropInOrder(n)'
  <2>1. DropInOrder(n)'
    BY <1>1 DEF DropInOrder
  <2>2. CASE slots'[n] = None
    BY <2>1, <2>2 DEF SlotInOrder
  <2>3. CASE slots'[n] # None
    <3>1. slots'[n] \in Incs /\ slots'[n] = disk'[n].inc /\ ~disk'[n].marker
          /\ objs'[slots'[n]].generation = disk'[n].manifest
      BY <1>3, <1>8, <2>3
    <3>2. disk'[n].manifest <= disk'[n].manifest
      <4>1. disk'[n].manifest \in 0..MaxGen
        BY <1>3, DirFields
      <4> QED
        BY <4>1, CatalogAssumption
    <3>3. ~objs'[slots'[n]].dropped
      BY <1>7, <3>1
    <3> QED
      BY <1>1, <2>1, <3>1, <3>2, <3>3 DEF SlotInOrder
  <2> QED
    BY <2>2, <2>3
<1>12. ASSUME NEW n \in Names \ exposed PROVE PromiseInOrder(n)'
  <2>1. PromiseInOrder(n) /\ promised' = promised
    BY <1>1 DEF IndInv
  <2>2. CASE promised[n].present = "no"
    <3>1. Restored(found[n]) = None /\ Restored(synced'[n]) = None
      BY <2>1, <2>2 DEF PromiseInOrder
    <3>2. Restored(disk'[n]) = None
      BY <1>3, <3>1 DEF Restored
    <3> QED
      BY <2>1, <2>2, <3>1, <3>2 DEF PromiseInOrder
  <2>3. CASE promised[n].present = "yes"
    <3>1. /\ promised[n].inc \in Incs
          /\ \A d \in {found[n], synced'[n]} : /\ Restored(d) # None /\ d.inc = promised[n].inc
                                               /\ Restored(d).ver >= promised[n].ver
      BY <2>1, <2>3 DEF PromiseInOrder
    <3>2. /\ Restored(disk'[n]) = Restored(found[n]) /\ disk'[n].inc = found[n].inc
          /\ slots'[n] = promised[n].inc /\ slots'[n] # None
      BY <1>3, <3>1, NoneAssumption
    <3>3. objs'[promised[n].inc].ver >= promised[n].ver
      BY <1>8, <3>1, <3>2
    <3>4. \A t \in Threads : pc'[t] = "idle"
      BY <1>1
    <3> QED
      BY <2>1, <2>3, <3>1, <3>2, <3>3, <3>4 DEF PromiseInOrder
  <2>4. CASE promised[n].present \notin {"no", "yes"}
    BY <2>1, <2>4 DEF PromiseInOrder
  <2> QED
    BY <2>2, <2>3, <2>4
<1>13. ASSUME NEW i \in Incs PROVE HoldersInOrder(i)'
  <2>1. Users(i)' = {}
    BY <1>1 DEF Users, Holding, Saving
  <2> QED
    BY <1>7, <2>1 DEF HoldersInOrder
<1>14. ASSUME NEW t \in Threads PROVE CallInOrder(t)' /\ SnapshotInOrder(t)'
  BY <1>1, IdleCall, CatalogAssumption
<1> QED
  BY <1>1, <1>9, <1>10, <1>11, <1>12, <1>13, <1>14 DEF IndInv

-----------------------------------------------------------------------------
\* The empty catalog.
LEMMA InitInv ==
    ASSUME Init
    PROVE  IndInv
<1>1. /\ pc = [t \in Threads |-> "idle"] /\ job = [t \in Threads |-> NoJob] /\ mutex = None
      /\ slots = [n \in Names |-> None] /\ objs = [i \in Incs |-> NewObject(0, 0, {})]
      /\ dropping = {} /\ disk = [n \in Names |-> NoDir] /\ synced = [n \in Names |-> NoDir]
      /\ created = 0 /\ exposed = {}
      /\ promised = [n \in Names |-> [present |-> "no", inc |-> 0, ver |-> 0]]
  BY DEF Init
<1>2. Shapes
  <2>1. pc \in [Threads -> Points] /\ job \in [Threads -> Jobs]
    BY <1>1, NoJobFields DEF Points
  <2>2. TypeOK
    BY <1>1, <2>1, NoDirFields DEF TypeOK, Jobs
  <2>3. 0 \in 0..MaxVer /\ 0 \in 0..MaxGen /\ 0 \in 0..MaxIncs
    BY CatalogAssumption
  <2>4. \A i \in Incs :
          /\ DOMAIN objs[i] = {"ver", "generation", "dropped", "holders", "saving"}
          /\ objs[i].ver \in 0..MaxVer /\ objs[i].generation \in 0..MaxGen
          /\ objs[i].saving \in Threads \cup {None}
    BY <1>1, <2>3 DEF NewObject
  <2> QED
    BY <1>1, <2>2, <2>3, <2>4 DEF Shapes
<1>3. DirsInOrder
  BY <1>1, NoDirFields DEF DirsInOrder, DirInOrder, Complete
<1>4. \A n \in Names : SlotInOrder(n) /\ DropInOrder(n)
  BY <1>1 DEF SlotInOrder, DropInOrder
<1>5. \A n \in Names : PromiseInOrder(n)
  BY <1>1 DEF PromiseInOrder, Restored
<1>6. ASSUME NEW i \in Incs PROVE HoldersInOrder(i)
  <2>1. Users(i) = {} /\ \A n \in Names : slots[n] # i
    BY <1>1, NoneAssumption DEF Users, Holding, Saving
  <2>2. objs[i].holders = {} /\ objs[i].saving = None
    BY <1>1 DEF NewObject
  <2> QED
    BY <2>1, <2>2 DEF HoldersInOrder
<1>7. ASSUME NEW t \in Threads PROVE CallInOrder(t) /\ SnapshotInOrder(t)
  BY <1>1, NoJobFields, CatalogAssumption
  DEF CallInOrder, SnapshotInOrder, Creating, Marking, Holding, Saving
<1> QED
  BY <1>2, <1>3, <1>4, <1>5, <1>6, <1>7 DEF IndInv

\* Every step.
LEMMA NextInv ==
    ASSUME IndInv, [Next]_vars
    PROVE  IndInv'
<1>1. ASSUME NEW t \in Threads, NEW n \in Names, Create(t, n) PROVE IndInv'
  BY <1>1, CreateStep
<1>2. ASSUME NEW t \in Threads, NEW n \in Names, Get(t, n) \/ Snapshot(t, n) PROVE IndInv'
  BY <1>2, GetStep
<1>3. ASSUME NEW t \in Threads, NEW n \in Names, Drop(t, n) PROVE IndInv'
  BY <1>3, DropStep
<1>4. ASSUME NEW t \in Threads, Write(t) PROVE IndInv'
  BY <1>4, WriteStep
<1>5. ASSUME NEW t \in Threads, ClearLeftovers(t) \/ RenameDirectory(t) \/ SyncCreate(t)
      PROVE  IndInv'
  BY <1>5, ClearLeftoversStep, RenameDirectoryStep, SyncCreateStep
<1>6. ASSUME NEW t \in Threads, Release(t) \/ Deleter(t) PROVE IndInv'
  BY <1>6, ReleaseStep, DeleterStep
<1>7. ASSUME NEW t \in Threads, WriteMarker(t) \/ SyncMarker(t) \/ AwaitSnapshot(t)
      PROVE  IndInv'
  BY <1>7, WriteMarkerStep, SyncMarkerStep, AwaitSnapshotStep
<1>8. ASSUME NEW t \in Threads, LockSnapshot(t) \/ SnapshotFails(t) \/ ReportSnapshot(t)
      PROVE  IndInv'
  BY <1>8, LockSnapshotStep, SnapshotFailsStep, ReportSnapshotStep
<1>9. ASSUME NEW t \in Threads, SaveIndex(t) \/ WriteManifest(t) \/ CollectGarbage(t)
      PROVE  IndInv'
  BY <1>9, SaveIndexStep, WriteManifestStep, CollectGarbageStep
<1>10. ASSUME NEW t \in Threads, SyncIndex(t) \/ SyncManifest(t) PROVE IndInv'
  BY <1>10, SyncStep
<1>11. CASE ProcessCrash
  <2>1. Restart(disk) /\ synced' = synced
    BY <1>11 DEF ProcessCrash
  <2>2. DOMAIN synced' = Names
    BY <2>1 DEF IndInv, Shapes
  <2> QED
    BY <2>1, <2>2, RestartStep
<1>12. CASE PowerLoss
  <2>1. PICK found :
            /\ \E lost \in SUBSET Names :
                  found = [n \in Names |-> IF n \in lost THEN synced[n] ELSE disk[n]]
            /\ Restart(found) /\ synced' = found
    BY <1>12 DEF PowerLoss
  <2> QED
    BY <2>1, RestartStep
<1>13. CASE UNCHANGED vars
  BY <1>13 DEF vars, memory, store, history, IndInv, Shapes, TypeOK, DirsInOrder, DirInOrder,
     SlotInOrder, DropInOrder, PromiseInOrder, HoldersInOrder, Users, CallInOrder, SnapshotInOrder
<1> QED
  BY <1>1, <1>2, <1>3, <1>4, <1>5, <1>6, <1>7, <1>8, <1>9, <1>10, <1>11, <1>12, <1>13
  DEF Next, Step, Call

\* The inductive invariant holds throughout.
THEOREM Invariance == Spec => []IndInv
  BY InitInv, NextInv, PTL DEF Spec

\* The files of a collection in the catalog are its own and nobody deletes them:
\* a drop() in progress, a create() of the same name, crashes and power losses
\* included, for any number of threads, names and incarnations.
THEOREM LiveDirectoriesSafe == Spec => []LiveDirectoriesAreSafe
<1>1. ASSUME IndInv PROVE LiveDirectoriesAreSafe
  <2>1. TypeOK
    BY <1>1 DEF IndInv, Shapes
  <2>2. ASSUME NEW n \in Names, slots[n] # None
        PROVE  /\ disk[n] # NoDir /\ disk[n].inc = slots[n]
               /\ objs[slots[n]].generation <= disk[n].manifest
               /\ \A t \in Threads : pc[t] = "delete" => job[t].name # n
    <3>1. SlotInOrder(n) /\ slots[n] \in Incs
      BY <1>1, <2>2, OneName DEF IndInv
    <3>2. disk[n] # NoDir
      BY <2>2, <3>1, NoDirFields, CatalogAssumption DEF SlotInOrder, Incs
    <3>3. \A t \in Threads : pc[t] = "delete" => job[t].name # n
      BY <1>1, <2>2, <3>1 DEF IndInv, CallInOrder, SlotInOrder
    <3> QED
      BY <2>2, <3>1, <3>2, <3>3 DEF SlotInOrder
  <2> QED
    BY <2>1, <2>2 DEF LiveDirectoriesAreSafe
<1> QED
  BY <1>1, Invariance, PTL

\* A dropped name is refused only while a thread holds the dropped collection or
\* deletes its files.
THEOREM DroppedNamesFreed == Spec => []DroppedNamesAreFreed
<1>1. ASSUME IndInv PROVE DroppedNamesAreFreed
  <2>1. SUFFICES ASSUME NEW n \in dropping
                 PROVE  \E t \in Threads : /\ job[t].name = n
                                           /\ pc[t] = "delete" \/ t \in objs[job[t].inc].holders
    BY DEF DroppedNamesAreFreed
  <2>2. n \in Names
    BY <1>1 DEF IndInv, Shapes, TypeOK
  <2>3. PICK t \in Threads : job[t].name = n /\ pc[t] \in Holding \cup {"delete"}
    BY <1>1, <2>2 DEF IndInv, DropInOrder
  <2>4. CASE pc[t] \in Holding
    <3>1. job[t].inc \in Incs /\ t \in Users(job[t].inc)
      BY <1>1, <2>4, OneName DEF Users
    <3> QED
      BY <1>1, <2>3, <3>1 DEF IndInv, HoldersInOrder
  <2> QED
    BY <2>3, <2>4
<1> QED
  BY <1>1, Invariance, PTL

\* open() does not fail on a directory, whatever part of it was synced when the
\* process or the machine stopped, unless its removal had begun or its drop() failed.
THEOREM OpensSucceed == Spec => []OpenSucceeds
<1>1. ASSUME IndInv PROVE OpenSucceeds
  <2>1. ASSUME NEW d, Complete(d) PROVE Loadable(d)
    BY <2>1 DEF Complete, Loadable, NoManifest, HeaderCrc
  <2> QED
    BY <1>1, <2>1 DEF IndInv, DirsInOrder, OpenSucceeds
<1> QED
  BY <1>1, Invariance, PTL

\* A restart keeps what callers were told: a created collection is there with at
\* least the contents of the last snapshot() that succeeded, a dropped one is not.
THEOREM PromisesKept == Spec => []RestartKeepsPromises
<1>1. ASSUME IndInv PROVE RestartKeepsPromises
  <2>1. SUFFICES ASSUME NEW n \in Names \ exposed
                 PROVE  DropSurvives(n) /\ SnapshotSurvives(n)
    BY DEF RestartKeepsPromises
  <2>2. PromiseInOrder(n)
    BY <1>1 DEF IndInv
  <2>3. DropSurvives(n)
    BY <2>2 DEF PromiseInOrder, DropSurvives
  <2>4. ASSUME promised[n].present = "yes", NEW d \in {disk[n], synced[n]}
        PROVE  /\ Restored(d) # None /\ Restored(d).inc = promised[n].inc
               /\ Restored(d).ver >= promised[n].ver
    <3>1. /\ Restored(d) # None /\ d.inc = promised[n].inc /\ d.inc \in Incs
          /\ Restored(d).ver >= promised[n].ver
      BY <2>2, <2>4 DEF PromiseInOrder
    <3>2. d \in Directories /\ DirInOrder(d) /\ d.inc # 0
      BY <1>1, <3>1, Types, CatalogAssumption DEF IndInv, DirsInOrder, Incs
    <3>3. ~d.marker /\ d.manifest \in 0..MaxGen
      BY <3>1, <3>2, RestoredIs, DirFields
    <3>4. CASE d.manifest = 0
      BY <3>1, <3>2, <3>3, <3>4, RestoredIs
    <3>5. CASE d.manifest # 0
      <4>1. d.manifest \in Gens /\ Restored(d) = d.files[d.manifest]
        BY <3>2, <3>3, <3>5, RestoredIs, CatalogAssumption DEF Gens
      <4> QED
        BY <3>1, <3>2, <4>1 DEF DirInOrder
    <3> QED
      BY <3>4, <3>5
  <2> QED
    BY <2>3, <2>4 DEF SnapshotSurvives
<1> QED
  BY <1>1, Invariance, PTL
=============================================================================

------------------------------ MODULE HnswLink ------------------------------
(***************************************************************************)
(* src/index/hnsw/: HnswBackend::link() of several rows at once            *)
(* (hnsw_insert.cpp) on the lists of HnswGraph (hnsw_graph.cpp), while     *)
(* searches walk the same lists without a lock (hnsw_search.cpp).          *)
(*                                                                         *)
(* A list is its words: a count and the id slots.  Every store of a word   *)
(* is one step, and readers may run between any two (they load a count     *)
(* once, then slots one by one).  Steps are sequentially consistent.       *)
(* Distances are abstracted: which of the nodes it can see a neighbour     *)
(* search returns, and which of them select_neighbors keeps, is a free     *)
(* choice of at least one and at most the permitted number.                *)
(***************************************************************************)
EXTENDS Naturals, Sequences, FiniteSets

CONSTANTS
    NumNodes,   \* rows grown in the section; node ids are 1..NumNodes
    MaxLevel,   \* bound: the highest level of a node
    M,          \* HnswParams::M: neighbours selected, capacity above level 0
    M0,         \* capacity on level 0 (2M in the code)
    Stripes,    \* number of mutexes of link_locks_
    MaxFailed,  \* bound: rows whose neighbour search runs out of memory
    Linkers,    \* threads of the pool that link rows
    Walkers,    \* threads that search
    None

ASSUME HnswLinkAssumption ==
    /\ NumNodes \in Nat /\ MaxLevel \in Nat /\ MaxFailed \in Nat
    /\ M \in Nat \ {0} /\ M0 \in Nat /\ M <= M0
    /\ Stripes \in Nat \ {0}
    /\ None \notin Linkers \cup Walkers

Nodes == 1..NumNodes
Levels == 0..MaxLevel
NoNode == 0                    \* also what a slot holds before its first store

VARIABLES
    level,     \* levels_: the top level of each node, fixed when it is grown
    count,     \* count[n][l]: list[0] of node n on level l
    slots,     \* slots[n][l][i]: list[i]
    entry,     \* entry_: [id, level] in one atomic word
    top_mutex, \* its holder, or None
    stripe,    \* holder of each mutex of link_locks_, or None
    todo,      \* grown rows no thread has taken yet
    failures,  \* rows given up so far
    pc, node, ent,
    lev,       \* the level a thread is working on
    found,     \* found[t][l]: layer_candidates
    chosen,    \* chosen[t][l]: layer_selected
    pending,   \* neighbours of the current level still to be back-linked
    in_links,  \* the current level got a back-link
    list,      \* the neighbour whose list is being changed
    word,      \* the slot to store next
    rewrite,   \* the ids a shrunk list is rewritten with
    at,        \* walkers: [node, level, size, read]
    complete,  \* history: nodes whose own lists have been stored
    links      \* history: links[n][l], what the list is meant to contain

graph == <<count, slots, entry, links>>
locks == <<top_mutex, stripe>>
link_locals == <<node, ent, lev, found, chosen, pending, in_links, list, word, rewrite>>
vars == <<level, graph, locks, todo, failures, pc, link_locals, at, complete>>

Capacity(l) == IF l = 0 THEN M0 ELSE M

\* StripedMutex::for_key mixes the key before it masks it; which nodes share a
\* mutex is all that matters here.
StripeOf(n) == n % Stripes

Smaller(a, b) == IF a < b THEN a ELSE b

NoEntry == [id |-> NoNode, level |-> 0]
AtRest == [node |-> NoNode, level |-> 0, size |-> 0, read |-> NoNode]

Init ==
    /\ level \in [Nodes -> Levels]
    /\ count = [n \in Nodes |-> [l \in Levels |-> 0]]
    /\ slots = [n \in Nodes |-> [l \in Levels |-> [i \in 1..Capacity(l) |-> NoNode]]]
    /\ links = [n \in Nodes |-> [l \in Levels |-> {}]]
    /\ entry = NoEntry
    /\ top_mutex = None
    /\ stripe = [s \in 0..(Stripes - 1) |-> None]
    /\ todo = Nodes
    /\ failures = 0
    /\ pc = [t \in Linkers |-> "idle"]
    /\ node = [t \in Linkers |-> NoNode]
    /\ ent = [t \in Linkers |-> NoEntry]
    /\ lev = [t \in Linkers |-> 0]
    /\ found = [t \in Linkers |-> [l \in Levels |-> {}]]
    /\ chosen = [t \in Linkers |-> [l \in Levels |-> {}]]
    /\ pending = [t \in Linkers |-> {}]
    /\ in_links = [t \in Linkers |-> FALSE]
    /\ list = [t \in Linkers |-> NoNode]
    /\ word = [t \in Linkers |-> 0]
    /\ rewrite = [t \in Linkers |-> <<>>]
    /\ at = [w \in Walkers |-> AtRest]
    /\ complete = {}
-----------------------------------------------------------------------------
Goto(t, where) == pc' = [pc EXCEPT ![t] = where]

\* The level up to which the new node shares the graph.
TopOf(t) == Smaller(level[node[t]], ent[t].level)

\* parallel_for hands a grown row to a thread.
Take(t) ==
    /\ pc[t] = "idle"
    /\ \E n \in todo :
        /\ todo' = todo \ {n}
        /\ node' = [node EXCEPT ![t] = n]
    /\ Goto(t, "entry")
    /\ UNCHANGED <<level, graph, locks, failures, ent, lev, found, chosen, pending, in_links,
                   list, word, rewrite, at, complete>>

\* link() is over: the locals are gone and top_lock is released.
Leave(t) ==
    /\ Goto(t, "idle")
    /\ node' = [node EXCEPT ![t] = NoNode]
    /\ ent' = [ent EXCEPT ![t] = NoEntry]
    /\ lev' = [lev EXCEPT ![t] = 0]
    /\ found' = [found EXCEPT ![t] = [l \in Levels |-> {}]]
    /\ chosen' = [chosen EXCEPT ![t] = [l \in Levels |-> {}]]
    /\ pending' = [pending EXCEPT ![t] = {}]
    /\ in_links' = [in_links EXCEPT ![t] = FALSE]
    /\ list' = [list EXCEPT ![t] = NoNode]
    /\ word' = [word EXCEPT ![t] = 0]
    /\ rewrite' = [rewrite EXCEPT ![t] = <<>>]
    /\ top_mutex' = IF top_mutex = t THEN None ELSE top_mutex

StartFind(t, e) ==
    /\ ent' = [ent EXCEPT ![t] = e]
    /\ lev' = [lev EXCEPT ![t] = Smaller(level[node[t]], e.level)]
    /\ Goto(t, "find")

\* The entry point read without a lock.
ReadEntry(t) ==
    /\ pc[t] = "entry"
    /\ IF entry.id = NoNode \/ level[node[t]] > entry.level
       THEN Goto(t, "top") /\ UNCHANGED <<ent, lev>>
       ELSE StartFind(t, entry)
    /\ UNCHANGED <<level, graph, locks, todo, failures, node, found, chosen, pending, in_links,
                   list, word, rewrite, at, complete>>

\* Mutant of LockTop: the mutex is released at once.
MutLockTopNotHeld(t) ==
    /\ pc[t] = "top"
    /\ top_mutex = None
    /\ \/ /\ entry.id = NoNode
          /\ entry' = [id |-> node[t], level |-> level[node[t]]]
          /\ complete' = complete \cup {node[t]}
          /\ Leave(t)
       \/ /\ entry.id # NoNode
          /\ StartFind(t, entry)
          /\ UNCHANGED <<entry, complete, node, found, chosen, pending, in_links, list,
                         word, rewrite, top_mutex>>
    /\ UNCHANGED <<level, count, slots, links, stripe, todo, failures, at>>

\* A node above the top level takes top_mutex_ and reads the entry again; the
\* first node of all becomes the entry point.
LockTop(t) ==
    /\ pc[t] = "top"
    /\ top_mutex = None
    /\ \/ /\ entry.id = NoNode
          /\ entry' = [id |-> node[t], level |-> level[node[t]]]
          /\ complete' = complete \cup {node[t]}
          /\ Leave(t)
       \/ /\ entry.id # NoNode
          /\ top_mutex' = t
          /\ StartFind(t, entry)
          /\ UNCHANGED <<entry, complete, node, found, chosen, pending, in_links, list,
                         word, rewrite>>
    /\ UNCHANGED <<level, count, slots, links, stripe, todo, failures, at>>
-----------------------------------------------------------------------------
\* The ids in the slots of a level.
SlotIds(l) == {slots[n][l][i] : n \in {x \in Nodes : level[x] >= l}, i \in 1..Capacity(l)}

\* Where greedy_search may end on its way from the entry point down to TopOf(t).
DescentEnds(t) == {ent[t].id} \cup UNION {SlotIds(l) : l \in (TopOf(t) + 1)..ent[t].level}

\* The nodes a traversal of level l can come across: those it starts from and every
\* id any slot of the level holds.
Visible(t, l) ==
    (SlotIds(l) \cup (IF l = TopOf(t) THEN DescentEnds(t) ELSE found[t][l + 1])) \ {NoNode}

\* One level of find_neighbors(): search_layer, then select_neighbors.
FindLevel(t) ==
    LET l == lev[t] IN
    /\ pc[t] = "find"
    /\ \E C \in SUBSET Visible(t, l) : \E S \in SUBSET C :
        /\ S # {} /\ Cardinality(S) <= M
        /\ found' = [found EXCEPT ![t][l] = C]
        /\ chosen' = [chosen EXCEPT ![t][l] = S]
    /\ IF l = 0
       THEN Goto(t, "own") /\ UNCHANGED lev
       ELSE lev' = [lev EXCEPT ![t] = l - 1] /\ UNCHANGED pc
    /\ UNCHANGED <<level, graph, locks, todo, failures, node, ent, pending, in_links, list, word,
                   rewrite, at, complete>>

\* std::bad_alloc from the search: nothing has been stored.
FindThrows(t) ==
    /\ pc[t] = "find"
    /\ failures < MaxFailed
    /\ failures' = failures + 1
    /\ Leave(t)
    /\ UNCHANGED <<level, graph, stripe, todo, at, complete>>
-----------------------------------------------------------------------------
\* A set of ids in the order of their slots; the order plays no part here.
Listed(S) ==
    CHOOSE f \in [1..Cardinality(S) -> S] : \A i, j \in DOMAIN f : f[i] = f[j] => i = j

\* set_links: the ids over the first slots, stale ids past them stay.
Overwrite(old, ids) == [i \in DOMAIN old |-> IF i <= Len(ids) THEN ids[i] ELSE old[i]]

\* publish(), phase 2: the node's own lists, before anybody can see the node.
StoreOwnLists(t) ==
    LET n == node[t]
        own(l) == Listed(chosen[t][l])
    IN
    /\ pc[t] = "own"
    /\ slots' = [slots EXCEPT ![n] =
                   [l \in Levels |-> IF l <= TopOf(t) THEN Overwrite(@[l], own(l)) ELSE @[l]]]
    /\ count' = [count EXCEPT ![n] =
                   [l \in Levels |-> IF l <= TopOf(t) THEN Len(own(l)) ELSE @[l]]]
    /\ links' = [links EXCEPT ![n] =
                   [l \in Levels |-> IF l <= TopOf(t) THEN chosen[t][l] ELSE @[l]]]
    /\ complete' = complete \cup {n}
    /\ pending' = [pending EXCEPT ![t] = chosen[t][0]]
    /\ Goto(t, "backlinks")
    /\ UNCHANGED <<level, entry, locks, todo, failures, node, ent, lev, found, chosen,
                   in_links, list, word, rewrite, at>>

\* What a view of a list nobody else is changing reads.
Listing(n, l) == {slots[n][l][i] : i \in 1..count[n][l]}

HasRoom(n, l) == count[n][l] < Capacity(l)

\* Mutant of LockStripe: the list is changed without its mutex.
MutLockStripeNot(t, n) == UNCHANGED stripe

\* The mutex of the stripe of node n, and the release of the one held.
LockStripe(t, n) ==
    /\ stripe[StripeOf(n)] = None
    /\ stripe' = [stripe EXCEPT ![StripeOf(n)] = t]

\* Mutant of UnlockStripe: the mutex stays locked.
MutUnlockStripeNot(t) == UNCHANGED stripe

UnlockStripe(t) == stripe' = [stripe EXCEPT ![StripeOf(list[t])] = None]

\* Phase 3: the stripe of the next neighbour, then the list itself.  A list
\* with room gets the id appended, a full one is shrunk.
LockList(t) ==
    /\ pc[t] = "backlinks"
    /\ \E n \in pending[t] :
        /\ LockStripe(t, n)
        /\ list' = [list EXCEPT ![t] = n]
        /\ pending' = [pending EXCEPT ![t] = @ \ {n}]
        /\ \/ /\ HasRoom(n, lev[t])
              /\ word' = [word EXCEPT ![t] = count[n][lev[t]] + 1]
              /\ Goto(t, "append")
              /\ UNCHANGED rewrite
           \/ /\ ~HasRoom(n, lev[t])
              /\ \E S \in SUBSET (Listing(n, lev[t]) \cup {node[t]}) :
                    /\ S # {} /\ Cardinality(S) <= Capacity(lev[t])
                    /\ rewrite' = [rewrite EXCEPT ![t] = Listed(S)]
              /\ word' = [word EXCEPT ![t] = 1]
              /\ Goto(t, "shrink")
    /\ UNCHANGED <<level, graph, top_mutex, todo, failures, node, ent, lev, found, chosen,
                   in_links, at, complete>>

\* Mutant of AppendSlot: the count is stored first.
MutAppendSlotLate(t) ==
    /\ pc[t] = "append"
    /\ count' = [count EXCEPT ![list[t]][lev[t]] = word[t]]
    /\ Goto(t, "append_count")
    /\ UNCHANGED <<level, slots, entry, links, locks, todo, failures, link_locals, at,
                   complete>>

\* try_append_link: the slot, then the count.
AppendSlot(t) ==
    /\ pc[t] = "append"
    /\ slots' = [slots EXCEPT ![list[t]][lev[t]][word[t]] = node[t]]
    /\ Goto(t, "append_count")
    /\ UNCHANGED <<level, count, entry, links, locks, todo, failures, link_locals, at,
                   complete>>

AppendCount(t) ==
    /\ pc[t] = "append_count"
    /\ count' = [count EXCEPT ![list[t]][lev[t]] = word[t]]
    /\ links' = [links EXCEPT ![list[t]][lev[t]] = @ \cup {node[t]}]
    /\ in_links' = [in_links EXCEPT ![t] = TRUE]
    /\ UnlockStripe(t)
    /\ Goto(t, "backlinks")
    /\ UNCHANGED <<level, slots, entry, top_mutex, todo, failures, node, ent, lev, found,
                   chosen, pending, list, word, rewrite, at, complete>>

\* shrink_with: write_list stores the selected ids one by one, then the count.
ShrinkSlot(t) ==
    /\ pc[t] = "shrink"
    /\ word[t] <= Len(rewrite[t])
    /\ slots' = [slots EXCEPT ![list[t]][lev[t]][word[t]] = rewrite[t][word[t]]]
    /\ word' = [word EXCEPT ![t] = @ + 1]
    /\ UNCHANGED <<level, count, entry, links, locks, todo, failures, pc, node, ent, lev,
                   found, chosen, pending, in_links, list, rewrite, at, complete>>

ShrinkCount(t) ==
    LET kept == {rewrite[t][i] : i \in DOMAIN rewrite[t]} IN
    /\ pc[t] = "shrink"
    /\ word[t] > Len(rewrite[t])
    /\ count' = [count EXCEPT ![list[t]][lev[t]] = Len(rewrite[t])]
    /\ links' = [links EXCEPT ![list[t]][lev[t]] = kept]
    /\ in_links' = [in_links EXCEPT ![t] = @ \/ node[t] \in kept]
    /\ UnlockStripe(t)
    /\ Goto(t, "backlinks")
    /\ UNCHANGED <<level, slots, entry, top_mutex, todo, failures, node, ent, lev, found,
                   chosen, pending, list, word, rewrite, at, complete>>

\* Every neighbour of the level has been visited: on to the next level, to the
\* repair of an orphan, or to the end.
NextLevel(t) ==
    /\ IF lev[t] < TopOf(t)
       THEN /\ lev' = [lev EXCEPT ![t] = @ + 1]
            /\ pending' = [pending EXCEPT ![t] = chosen[t][lev[t] + 1]]
            /\ Goto(t, "backlinks")
       ELSE /\ UNCHANGED <<lev, pending>>
            /\ Goto(t, "publish_entry")
    /\ in_links' = [in_links EXCEPT ![t] = FALSE]

EndLevel(t) ==
    /\ pc[t] = "backlinks"
    /\ pending[t] = {}
    /\ \/ in_links[t] /\ NextLevel(t)
       \/ /\ ~in_links[t]
          /\ pending' = [pending EXCEPT ![t] = found[t][lev[t]]]
          /\ Goto(t, "repair")
          /\ UNCHANGED <<lev, in_links>>
    /\ UNCHANGED <<level, graph, locks, todo, failures, node, ent, found, chosen, list,
                   word, rewrite, at, complete>>

\* repair_orphans: the first candidate with room gets the back-link; one
\* without room is left alone, and if none has room the node stays an orphan.
RepairOrphan(t) ==
    /\ pc[t] = "repair"
    /\ \/ /\ pending[t] = {}
          /\ NextLevel(t)
          /\ UNCHANGED <<stripe, list, word>>
       \/ \E n \in pending[t] :
             /\ IF HasRoom(n, lev[t])
                THEN /\ LockStripe(t, n)
                     /\ list' = [list EXCEPT ![t] = n]
                     /\ word' = [word EXCEPT ![t] = count[n][lev[t]] + 1]
                     /\ pending' = [pending EXCEPT ![t] = {}]
                     /\ Goto(t, "append")
                ELSE /\ stripe[StripeOf(n)] = None
                     /\ pending' = [pending EXCEPT ![t] = @ \ {n}]
                     /\ UNCHANGED <<stripe, list, word, pc>>
             /\ UNCHANGED <<lev, in_links>>
    /\ UNCHANGED <<level, graph, top_mutex, todo, failures, node, ent, found, chosen,
                   rewrite, at, complete>>

\* A node above the old top level becomes the entry point.
PublishEntry(t) ==
    /\ pc[t] = "publish_entry"
    /\ entry' = IF level[node[t]] > ent[t].level
                THEN [id |-> node[t], level |-> level[node[t]]] ELSE entry
    /\ Leave(t)
    /\ UNCHANGED <<level, count, slots, links, stripe, todo, failures, at, complete>>
-----------------------------------------------------------------------------
\* A search: it starts at the entry point, looks at lists word by word, moves
\* to nodes it has read and descends.  A LinkView keeps the count it loaded
\* first.  (greedy_search and search_layer decide by distance where to go.)
StartWalk(w) ==
    /\ at[w].node = NoNode
    /\ entry.id # NoNode
    /\ at' = [at EXCEPT ![w] = [node |-> entry.id, level |-> entry.level,
                                size |-> 0, read |-> entry.id]]
    /\ UNCHANGED <<level, graph, locks, todo, failures, pc, link_locals, complete>>

LoadCount(w) ==
    /\ at[w].node # NoNode
    /\ at[w].size = 0
    /\ count[at[w].node][at[w].level] > 0
    /\ at' = [at EXCEPT ![w].size = count[at[w].node][at[w].level]]
    /\ UNCHANGED <<level, graph, locks, todo, failures, pc, link_locals, complete>>

\* One slot below the count the view loaded, and perhaps a move to that node.
LoadSlot(w) ==
    /\ at[w].size > 0
    /\ \E i \in 1..at[w].size :
        LET id == slots[at[w].node][at[w].level][i] IN
        \/ at' = [at EXCEPT ![w].node = id, ![w].size = 0, ![w].read = id]
        \/ at' = [at EXCEPT ![w].read = id]
    /\ UNCHANGED <<level, graph, locks, todo, failures, pc, link_locals, complete>>

Descend(w) ==
    /\ at[w].node # NoNode
    /\ at' = [at EXCEPT ![w] =
                 IF @.level = 0 THEN AtRest
                 ELSE [node |-> @.node, level |-> @.level - 1, size |-> 0, read |-> @.node]]
    /\ UNCHANGED <<level, graph, locks, todo, failures, pc, link_locals, complete>>
-----------------------------------------------------------------------------
LinkerStep(t) ==
    \/ ReadEntry(t) \/ LockTop(t) \/ FindLevel(t) \/ FindThrows(t) \/ StoreOwnLists(t)
    \/ LockList(t) \/ AppendSlot(t) \/ AppendCount(t) \/ ShrinkSlot(t) \/ ShrinkCount(t)
    \/ EndLevel(t) \/ RepairOrphan(t) \/ PublishEntry(t)

WalkerStep(w) == StartWalk(w) \/ LoadCount(w) \/ LoadSlot(w) \/ Descend(w)

Next ==
    \/ \E t \in Linkers : Take(t) \/ LinkerStep(t)
    \/ \E w \in Walkers : WalkerStep(w)

Spec == Init /\ [][Next]_vars

-----------------------------------------------------------------------------
Points == {"idle", "entry", "top", "find", "own", "backlinks", "append", "append_count",
           "shrink", "repair", "publish_entry"}

\* The type of the state.
TypeOK ==
    /\ level \in [Nodes -> Levels]
    /\ \A n \in Nodes, l \in Levels :
          /\ count[n][l] \in 0..Capacity(l)
          /\ slots[n][l] \in [1..Capacity(l) -> Nodes \cup {NoNode}]
          /\ links[n][l] \subseteq Nodes
    /\ entry \in [id : Nodes \cup {NoNode}, level : Levels]
    /\ top_mutex \in Linkers \cup {None}
    /\ stripe \in [0..(Stripes - 1) -> Linkers \cup {None}]
    /\ pc \in [Linkers -> Points]
    /\ node \in [Linkers -> Nodes \cup {NoNode}]

\* hnsw_graph.hpp:37, the contract of LinkView: whatever a search reads while
\* lists are being rewritten under it names a node whose own lists are stored
\* and whose level reaches the level of the list.
ReadsAreSafe ==
    \A w \in Walkers : at[w].node # NoNode =>
        /\ {at[w].node, at[w].read} \subseteq complete
        /\ level[at[w].node] >= at[w].level
        /\ level[at[w].read] >= at[w].level

\* The same for every word a reader could still load: no count leaves its list,
\* no slot that was ever below a count is unset, and each names a complete node of
\* sufficient level.
SlotsAreSafe ==
    /\ TypeOK
    /\ ReadsAreSafe
    /\ \A n \in complete, l \in Levels : \A i \in 1..Capacity(l) :
          /\ i <= count[n][l] => slots[n][l][i] # NoNode
          /\ slots[n][l][i] # NoNode =>
                /\ slots[n][l][i] \in complete \ {n}
                /\ level[n] >= l /\ level[slots[n][l][i]] >= l

\* No back-link is lost or doubled: a list nobody is changing holds exactly the
\* ids that the appends and rewrites put there, each once.
ListsAreIntact ==
    \A n \in Nodes, l \in Levels :
        (~ \E t \in Linkers : list[t] = n /\ pc[t] \in {"append", "append_count", "shrink"}) =>
            /\ Listing(n, l) = links[n][l]
            /\ Cardinality(links[n][l]) = count[n][l]

\* docs/concurrency.md, "Entry point": two insertions cannot both link below a
\* level neither has joined.  When no link() is running, the entry point is on
\* the highest level of all linked nodes, and on every level at most one node
\* has no neighbour.
LevelsAreJoined ==
    (\A t \in Linkers : pc[t] = "idle") =>
        /\ \A n \in complete : level[n] <= entry.level
        /\ entry.id # NoNode => entry.id \in complete /\ level[entry.id] = entry.level
        /\ \A l \in Levels :
             Cardinality({n \in complete : level[n] >= l /\ count[n][l] = 0}) <= 1

\* No deadlock over top_mutex_ and the stripes: while a link() is running, one
\* of the threads can go on.
LinkersNeverStuck ==
    (\E t \in Linkers : pc[t] # "idle") => \E t \in Linkers : ENABLED LinkerStep(t)
=============================================================================

--------------------------- MODULE HnswLinkProofs ---------------------------
(***************************************************************************)
(* Proofs about HnswLink, for any number of nodes, levels, linking and     *)
(* searching threads, any capacities and any number of stripes.            *)
(***************************************************************************)
EXTENDS HnswLink, FiniteSetTheorems, SequenceTheorems, TLAPS

\* Before and after the node's own lists are stored.
Searching == {"entry", "top", "find", "own"}
Changing == {"append", "append_count", "shrink"}
Publishing == Changing \cup {"backlinks", "repair", "publish_entry"}

\* The functions of the state, point by point.
GraphShape ==
    /\ level \in [Nodes -> Levels]
    /\ DOMAIN count = Nodes /\ DOMAIN slots = Nodes /\ DOMAIN links = Nodes
    /\ \A n \in Nodes :
          /\ DOMAIN count[n] = Levels /\ DOMAIN slots[n] = Levels /\ DOMAIN links[n] = Levels
          /\ \A l \in Levels :
                /\ count[n][l] \in 0..Capacity(l)
                /\ slots[n][l] \in [1..Capacity(l) -> Nodes \cup {NoNode}]
                /\ links[n][l] \subseteq Nodes
    /\ entry \in [id : Nodes \cup {NoNode}, level : Levels]
    /\ top_mutex \in Linkers \cup {None}
    /\ stripe \in [0..(Stripes - 1) -> Linkers \cup {None}]
    /\ complete \subseteq Nodes /\ todo \subseteq Nodes \ complete

LocalShape ==
    /\ pc \in [Linkers -> Points]
    /\ node \in [Linkers -> Nodes \cup {NoNode}]
    /\ ent \in [Linkers -> [id : Nodes \cup {NoNode}, level : Levels]]
    /\ lev \in [Linkers -> Levels]
    /\ DOMAIN found = Linkers /\ DOMAIN chosen = Linkers
    /\ \A t \in Linkers : DOMAIN found[t] = Levels /\ DOMAIN chosen[t] = Levels
    /\ pending \in [Linkers -> SUBSET Nodes]
    /\ DOMAIN in_links = Linkers
    /\ list \in [Linkers -> Nodes \cup {NoNode}]
    /\ word \in [Linkers -> Nat]
    /\ DOMAIN rewrite = Linkers
    /\ DOMAIN at = Walkers

\* A complete node that lists of level l may name.
Sound(m, l) == m \in complete /\ level[m] >= l

\* Every id in a slot is sound and belongs to a list of its level; what has been
\* stored is stored for good; links names sound nodes too.
SlotsInOrder ==
    \A n \in Nodes, l \in Levels :
        /\ \A i \in 1..Capacity(l) :
              /\ i <= count[n][l] => slots[n][l][i] # NoNode
              /\ slots[n][l][i] # NoNode =>
                    Sound(n, l) /\ slots[n][l][i] # n /\ Sound(slots[n][l][i], l)
        /\ \A m \in links[n][l] : Sound(n, l) /\ m # n /\ Sound(m, l)

\* A list agrees with its history, unless it is being rewritten.
Intact(n, l) == Listing(n, l) = links[n][l] /\ Cardinality(links[n][l]) = count[n][l]

ListsInOrder ==
    \A n \in Nodes, l \in Levels :
        (~ \E t \in Linkers : pc[t] = "shrink" /\ list[t] = n /\ lev[t] = l) => Intact(n, l)

\* The node of a thread is its own, and complete once its lists are stored.
NodeInOrder(t) ==
    /\ pc[t] = "idle" => node[t] = NoNode
    /\ pc[t] # "idle" =>
          /\ node[t] \in Nodes \ todo
          /\ \A u \in Linkers : node[u] = node[t] => u = t
    /\ pc[t] \in Searching => node[t] \notin complete
    /\ pc[t] \in Publishing => node[t] \in complete

\* What a thread has found on the levels it shares with the entry point it read.
FoundInOrder(t) ==
    /\ pc[t] \in {"idle", "entry", "top"} =>
        \A l \in Levels : found[t][l] = {} /\ chosen[t][l] = {}
    /\ pc[t] \in {"find", "own"} \cup Publishing =>
        /\ Sound(ent[t].id, ent[t].level)
        /\ lev[t] <= TopOf(t)
        /\ \A l \in Levels :
              /\ \A m \in found[t][l] : Sound(m, l) /\ m # node[t]
              /\ chosen[t][l] \subseteq found[t][l]
              /\ Cardinality(chosen[t][l]) <= M
        /\ pending[t] \subseteq found[t][lev[t]] \/ pc[t] \in {"find", "own"}
        /\ pc[t] = "own" => lev[t] = 0
        /\ \A l \in Levels :
              l <= TopOf(t) /\ (pc[t] = "own" \/ (pc[t] = "find" /\ l > lev[t])) =>
                  chosen[t][l] # {}

\* A list is changed by the holder of its stripe, word by word.
ChangeInOrder(t) ==
    LET n == list[t]
        l == lev[t]
    IN
    /\ pc[t] \in Changing =>
          n \in found[t][l] \ pending[t] /\ stripe[StripeOf(n)] = t
    /\ pc[t] \in {"append", "append_count"} =>
          word[t] = count[n][l] + 1 /\ word[t] <= Capacity(l)
    /\ pc[t] = "append_count" => slots[n][l][word[t]] = node[t]
    /\ pc[t] = "shrink" =>
          /\ rewrite[t] \in Seq(links[n][l] \cup {node[t]})
          /\ Len(rewrite[t]) \in 1..Capacity(l)
          /\ \A i, j \in 1..Len(rewrite[t]) : rewrite[t][i] = rewrite[t][j] => i = j
          /\ word[t] \in 1..(Len(rewrite[t]) + 1)
          /\ \A i \in 1..(word[t] - 1) : slots[n][l][i] = rewrite[t][i]

\* Of the lists of the nodes it has found, a thread has put its node only into
\* those of the levels it has been on, and on the current one only into lists it
\* has dealt with.
BacklinksInOrder(t) ==
    pc[t] \in Publishing \ {"publish_entry"} =>
        \A l \in Levels : \A n \in found[t][l] : node[t] \in links[n][l] =>
            /\ l <= lev[t]
            /\ l = lev[t] => /\ in_links[t] /\ n \notin pending[t]
                             /\ pc[t] # "repair"
                             /\ pc[t] \in Changing => n # list[t]

\* The entry point is a complete node of the highest published level; a node above
\* it is linked by the holder of top_mutex, for whom the entry point stays.
Above(t) == level[node[t]] > ent[t].level

EntryInOrder ==
    /\ entry.id = NoNode => complete = {}
    /\ entry.id # NoNode => entry.id \in complete /\ level[entry.id] = entry.level
    /\ \A t \in Linkers : pc[t] \in {"find", "own"} \cup Publishing =>
          /\ ent[t].level <= entry.level /\ entry.id # NoNode
          /\ Above(t) => top_mutex = t /\ entry = ent[t]
    /\ \A n \in complete : level[n] > entry.level =>
          \E t \in Linkers : node[t] = n /\ pc[t] \in Publishing /\ Above(t)

\* On every level at most one node has an empty list.
OneTop ==
    \A l \in Levels : \A m, n \in complete :
        /\ level[m] >= l /\ count[m][l] = 0
        /\ level[n] >= l /\ count[n][l] = 0
        => m = n

\* What a search holds, and the slots below the count it has loaded.
WalkInOrder(w) ==
    LET a == at[w] IN
    /\ DOMAIN a = {"node", "level", "size", "read"}
    /\ a.level \in Levels /\ a.size \in Nat
    /\ a.node = NoNode => a.size = 0
    /\ a.node # NoNode =>
          /\ Sound(a.node, a.level) /\ Sound(a.read, a.level)
          /\ a.size <= Capacity(a.level)
          /\ \A i \in 1..a.size : slots[a.node][a.level][i] # NoNode

ThreadInOrder(t) ==
    NodeInOrder(t) /\ FoundInOrder(t) /\ ChangeInOrder(t) /\ BacklinksInOrder(t)

IndInv ==
    /\ GraphShape /\ LocalShape
    /\ SlotsInOrder /\ ListsInOrder
    /\ \A t \in Linkers : ThreadInOrder(t)
    /\ EntryInOrder /\ OneTop
    /\ \A w \in Walkers : WalkInOrder(w)
-----------------------------------------------------------------------------
(***************************************************************************)
(* The operators of the model.                                             *)
(***************************************************************************)

\* Sets of nodes are finite.
LEMMA NodesFinite ==
    ASSUME NEW S \in SUBSET Nodes
    PROVE  IsFiniteSet(S) /\ Cardinality(S) \in Nat
<1>1. IsFiniteSet(Nodes)
    BY FS_Interval, HnswLinkAssumption DEF Nodes
<1> QED
    BY <1>1, FS_Subset, FS_CardinalityType

\* Every node has a stripe (StripedMutex::for_key).
LEMMA StripeExists ==
    ASSUME NEW n \in Nodes
    PROVE  StripeOf(n) \in 0..(Stripes - 1)
    BY HnswLinkAssumption DEF StripeOf, Nodes

\* A list has room for what select_neighbors returns.
LEMMA CapacityEnough ==
    ASSUME NEW l \in Levels
    PROVE  Capacity(l) \in Nat /\ M <= Capacity(l)
    BY HnswLinkAssumption DEF Capacity, Levels

\* An injective listing of its elements has as many entries as the set.
LEMMA RangeCounted ==
    ASSUME NEW n \in Nat, NEW f, \A i, j \in 1..n : f[i] = f[j] => i = j
    PROVE  Cardinality({f[i] : i \in 1..n}) = n
<1> DEFINE R == {f[i] : i \in 1..n}
           g == [i \in 1..n |-> f[i]]
<1>1. g \in Bijection(1..n, R)
    <2>1. g \in [1..n -> R]
        OBVIOUS
    <2>2. \A i, j \in 1..n : g[i] = g[j] => i = j
        OBVIOUS
    <2>3. \A r \in R : \E i \in 1..n : g[i] = r
        OBVIOUS
    <2> HIDE DEF g, R
    <2> QED
        BY <2>1, <2>2, <2>3 DEF Bijection, Injection, Surjection, IsInjective
<1>2. IsFiniteSet(1..n) /\ Cardinality(1..n) = n
    BY FS_Interval
<1> HIDE DEF g, R
<1>3. ExistsBijection(1..n, R)
    BY <1>1 DEF ExistsBijection
<1>4. Cardinality(R) = n
    BY <1>2, <1>3, FS_Bijection
<1> QED
    BY <1>4 DEF R

\* Listed enumerates a set of nodes, each once.
LEMMA ListedOnce ==
    ASSUME NEW S \in SUBSET Nodes
    PROVE  /\ Listed(S) \in Seq(S)
           /\ Len(Listed(S)) = Cardinality(S)
           /\ DOMAIN Listed(S) = 1..Cardinality(S)
           /\ \A i, j \in 1..Cardinality(S) : Listed(S)[i] = Listed(S)[j] => i = j
           /\ {Listed(S)[i] : i \in 1..Cardinality(S)} = S
<1>1. PICK n \in Nat : n = Cardinality(S)
    BY NodesFinite
<1>2. IsFiniteSet(S)
    BY NodesFinite
<1>3. \E f \in [1..n -> S] : \A i, j \in DOMAIN f : f[i] = f[j] => i = j
    <2>1. PICK f : f \in Bijection(1..n, S)
        BY <1>1, <1>2, FS_CardinalityType DEF ExistsBijection
    <2> QED
        BY <2>1 DEF Bijection, Injection, IsInjective
<1>4. PICK f : f = Listed(S)
    OBVIOUS
<1>5. f \in [1..n -> S] /\ \A i, j \in DOMAIN f : f[i] = f[j] => i = j
    BY <1>1, <1>3, <1>4 DEF Listed
<1>6. f \in Injection(1..n, S)
    BY <1>5 DEF Injection, IsInjective
<1>7. Cardinality(1..n) = n
    BY FS_Interval
<1>8. f \in Surjection(1..n, S)
    BY <1>1, <1>2, <1>6, <1>7, FS_Injection
<1>9. \A x \in S : \E i \in 1..n : f[i] = x
    BY <1>8 DEF Surjection
<1>10. f \in Seq(S) /\ Len(f) = n
    BY <1>5
<1> QED
    BY <1>1, <1>4, <1>5, <1>9, <1>10
-----------------------------------------------------------------------------
(***************************************************************************)
(* A step of one thread, seen from the others.                             *)
(***************************************************************************)

\* The locals of thread u are not touched.
Same(u) ==
    /\ pc'[u] = pc[u] /\ node'[u] = node[u] /\ ent'[u] = ent[u] /\ lev'[u] = lev[u]
    /\ found'[u] = found[u] /\ chosen'[u] = chosen[u] /\ pending'[u] = pending[u]
    /\ in_links'[u] = in_links[u] /\ list'[u] = list[u] /\ word'[u] = word[u]
    /\ rewrite'[u] = rewrite[u]

Alone(t) == \A u \in Linkers : u # t => Same(u)

\* A list is not touched.
Frozen(n, l) ==
    count'[n][l] = count[n][l] /\ slots'[n][l] = slots[n][l] /\ links'[n][l] = links[n][l]

\* A step of t changes complete nodes' lists only where t holds the stripe, adds
\* no node but its own, and leaves the stripes of others alone.
Confined(t) ==
    /\ level' = level
    /\ complete' = complete \/ (pc[t] # "idle" /\ complete' = complete \cup {node[t]})
    /\ todo' \subseteq todo
    /\ node'[t] \in {node[t], NoNode} \cup todo
    /\ \A s \in 0..(Stripes - 1), u \in Linkers \ {t} : stripe[s] = u => stripe'[s] = u
    /\ \A n \in complete, l \in Levels :
          Frozen(n, l) \/ /\ pc[t] \in Changing /\ n = list[t]
                          /\ links'[n][l] \subseteq links[n][l] \cup {node[t]}

\* The invariant of a thread survives the steps of the other threads.
LEMMA OtherThreads ==
    ASSUME IndInv, NEW t \in Linkers, NEW u \in Linkers, u # t, Same(u), Confined(t),
           \A v \in Linkers : v # t => node'[v] = node[v]
    PROVE  ThreadInOrder(u)'
<1>1. NodeInOrder(t) /\ NodeInOrder(u) /\ FoundInOrder(u) /\ ChangeInOrder(t)
      /\ ChangeInOrder(u) /\ BacklinksInOrder(u) /\ FoundInOrder(t)
    BY DEF IndInv, ThreadInOrder
<1>2. complete \subseteq Nodes /\ todo \subseteq Nodes /\ LocalShape
    BY DEF IndInv, GraphShape
<1>3. \A m, l : Sound(m, l) => Sound(m, l)'
    BY DEF Sound, Confined
<1>4. NodeInOrder(u)'
    <2>1. NoNode \notin Nodes
        BY DEF Nodes, NoNode
    <2>2. pc[u] # "idle" => node[u] # node'[t] /\ node[u] # node[t]
        BY <1>1, <1>2, <2>1 DEF NodeInOrder, Confined
    <2> QED
        BY <1>1, <1>2, <2>1, <2>2 DEF NodeInOrder, Confined, Same, Searching, Publishing
<1>5. FoundInOrder(u)'
    <2>1. TopOf(u)' = TopOf(u)
        BY DEF TopOf, Same, Confined
    <2> QED
        BY <1>1, <1>3, <2>1 DEF FoundInOrder, Same
<1>6. pc[u] \in Changing =>
          list[u] \in complete /\ lev[u] \in Levels /\ Frozen(list[u], lev[u])
          /\ stripe'[StripeOf(list[u])] = u
    <2> SUFFICES ASSUME pc[u] \in Changing
                 PROVE  list[u] \in complete /\ lev[u] \in Levels
                        /\ Frozen(list[u], lev[u]) /\ stripe'[StripeOf(list[u])] = u
        OBVIOUS
    <2>1. list[u] \in found[u][lev[u]] /\ stripe[StripeOf(list[u])] = u /\ lev[u] \in Levels
        BY <1>1, <1>2 DEF ChangeInOrder, LocalShape
    <2>2. list[u] \in complete
        BY <1>1, <2>1 DEF FoundInOrder, Publishing, Sound
    <2>3. ~(pc[t] \in Changing /\ list[u] = list[t])
        BY <1>1, <2>1 DEF ChangeInOrder
    <2>4. StripeOf(list[u]) \in 0..(Stripes - 1)
        BY <1>2, <2>2, StripeExists
    <2> QED
        BY <2>1, <2>2, <2>3, <2>4 DEF Confined
<1>7. ChangeInOrder(u)'
    BY <1>1, <1>6 DEF ChangeInOrder, Same, Frozen, Changing
<1>8. BacklinksInOrder(u)'
    <2> SUFFICES ASSUME pc[u] \in Publishing \ {"publish_entry"}
                 PROVE  \A l \in Levels : \A n \in found[u][l] :
                            node[u] \in links'[n][l] => node[u] \in links[n][l]
        BY <1>1 DEF BacklinksInOrder, Same
    <2> SUFFICES ASSUME NEW l \in Levels, NEW n \in found[u][l], node[u] \in links'[n][l]
                 PROVE  node[u] \in links[n][l]
        OBVIOUS
    <2>1. n \in complete
        BY <1>1 DEF FoundInOrder, Sound
    <2>2. pc[t] \in Changing => node[u] # node[t]
        BY <1>1 DEF NodeInOrder, Changing
    <2> QED
        BY <2>1, <2>2 DEF Confined, Frozen
<1> QED
    BY <1>4, <1>5, <1>7, <1>8 DEF ThreadInOrder
\* The part of the invariant about the entry point survives a step that leaves it
\* alone.
LEMMA EntryKept ==
    ASSUME IndInv, NEW t \in Linkers, Alone(t),
           level' = level, complete' = complete, entry' = entry,
           \A u \in Linkers \ {t} : top_mutex = u => top_mutex' = u,
           pc[t] \in Publishing /\ Above(t) =>
               node'[t] = node[t] /\ ent'[t] = ent[t] /\ pc'[t] \in Publishing,
           pc'[t] \in {"find", "own"} \cup Publishing =>
               /\ ent'[t].level <= entry.level /\ entry.id # NoNode
               /\ level[node'[t]] > ent'[t].level => top_mutex' = t /\ entry = ent'[t]
    PROVE  EntryInOrder'
<1>1. EntryInOrder
    BY DEF IndInv
<1>2. \A u \in Linkers \ {t} : (Above(u)' <=> Above(u)) /\ Same(u)
    BY DEF Alone, Above, Same
<1>3. Above(t)' <=> level[node'[t]] > ent'[t].level
    BY DEF Above
<1>4. \A u \in Linkers : pc'[u] \in {"find", "own"} \cup Publishing =>
          /\ ent'[u].level <= entry'.level /\ entry'.id # NoNode
          /\ Above(u)' => top_mutex' = u /\ entry' = ent'[u]
    <2> TAKE u \in Linkers
    <2>1. CASE u = t
        BY <1>3, <2>1
    <2>2. CASE u # t
        BY <1>1, <1>2, <2>2 DEF EntryInOrder, Same
    <2> QED
        BY <2>1, <2>2
<1>5. \A n \in complete' : level'[n] > entry'.level =>
          \E u \in Linkers : node'[u] = n /\ pc'[u] \in Publishing /\ Above(u)'
    <2> SUFFICES ASSUME NEW n \in complete, level[n] > entry.level
                 PROVE  \E u \in Linkers : node'[u] = n /\ pc'[u] \in Publishing /\ Above(u)'
        OBVIOUS
    <2>1. PICK u \in Linkers : node[u] = n /\ pc[u] \in Publishing /\ Above(u)
        BY <1>1 DEF EntryInOrder
    <2>2. CASE u = t
        BY <2>1, <2>2 DEF Above
    <2>3. CASE u # t
        BY <1>2, <2>1, <2>3 DEF Same
    <2> QED
        BY <2>2, <2>3
<1> QED
    BY <1>1, <1>4, <1>5 DEF EntryInOrder

\* A step that stores nothing into the graph: what is left to show is about the
\* thread that takes it.
LEMMA QuietStep ==
    ASSUME IndInv, NEW t \in Linkers, Alone(t), LocalShape', ThreadInOrder(t)',
           EntryInOrder', pc[t] # "shrink",
           level' = level, count' = count, slots' = slots, links' = links,
           complete' = complete, at' = at,
           todo' \subseteq todo, node'[t] \in {node[t], NoNode} \cup todo,
           entry' \in [id : Nodes \cup {NoNode}, level : Levels],
           top_mutex' \in Linkers \cup {None},
           stripe' \in [0..(Stripes - 1) -> Linkers \cup {None}],
           \A s \in 0..(Stripes - 1), u \in Linkers \ {t} : stripe[s] = u => stripe'[s] = u
    PROVE  IndInv'
<1>1. GraphShape'
    BY DEF IndInv, GraphShape
<1>2. \A m, l : Sound(m, l)' <=> Sound(m, l)
    BY DEF Sound
<1>3. SlotsInOrder'
    BY <1>2 DEF IndInv, SlotsInOrder
<1>4. ListsInOrder'
    <2>1. \A n, l : Intact(n, l)' <=> Intact(n, l)
        BY DEF Intact, Listing
    <2> SUFFICES ASSUME NEW n \in Nodes, NEW l \in Levels,
                        ~ \E u \in Linkers : pc'[u] = "shrink" /\ list'[u] = n /\ lev'[u] = l
                 PROVE  Intact(n, l)
        BY <2>1 DEF ListsInOrder
    <2>2. ~ \E u \in Linkers : pc[u] = "shrink" /\ list[u] = n /\ lev[u] = l
        BY DEF Alone, Same
    <2> QED
        BY <2>2 DEF IndInv, ListsInOrder
<1>5. \A u \in Linkers : ThreadInOrder(u)'
    <2>1. Confined(t)
        BY DEF Confined, Frozen
    <2>2. \A u \in Linkers : u # t => Same(u) /\ node'[u] = node[u]
        BY DEF Alone, Same
    <2> QED
        BY <2>1, <2>2, OtherThreads
<1>6. OneTop'
    BY DEF IndInv, OneTop
<1>7. \A w \in Walkers : WalkInOrder(w)'
    BY <1>2 DEF IndInv, WalkInOrder
<1> QED
    BY <1>1, <1>3, <1>4, <1>5, <1>6, <1>7 DEF IndInv
-----------------------------------------------------------------------------
(***************************************************************************)
(* The steps that store nothing into the graph.                            *)
(***************************************************************************)

\* A row is handed to one thread only (parallel_for).
LEMMA TakeStep ==
    ASSUME IndInv, NEW t \in Linkers, Take(t)
    PROVE  IndInv'
<1>1. PICK n \in todo : todo' = todo \ {n} /\ node' = [node EXCEPT ![t] = n]
    BY DEF Take
<1>2. pc' = [pc EXCEPT ![t] = "entry"] /\ pc[t] = "idle"
    BY DEF Take, Goto
<1>3. UNCHANGED <<level, graph, locks, ent, lev, found, chosen, pending, in_links,
                  list, word, rewrite, at, complete>>
    BY DEF Take
<1>4. n \in Nodes \ complete /\ LocalShape /\ todo \subseteq Nodes
    BY <1>1 DEF IndInv, GraphShape
<1>5. Alone(t) /\ LocalShape' /\ pc'[t] = "entry" /\ node'[t] = n
    BY <1>1, <1>2, <1>3, <1>4 DEF LocalShape, Alone, Same, Points
<1>6. EntryInOrder'
    BY <1>2, <1>3, <1>5, EntryKept DEF Publishing, Changing, graph, locks
<1>7. ThreadInOrder(t)'
    <2>1. \A u \in Linkers : u # t => node'[u] # n
        <3>1. \A u \in Linkers : pc[u] # "idle" => node[u] \notin todo
            BY DEF IndInv, ThreadInOrder, NodeInOrder
        <3>2. \A u \in Linkers : pc[u] = "idle" => node[u] = NoNode
            BY DEF IndInv, ThreadInOrder, NodeInOrder
        <3> QED
            BY <1>1, <1>4, <3>1, <3>2 DEF NoNode, Nodes, LocalShape
    <2>2. NodeInOrder(t)'
        BY <1>1, <1>3, <1>4, <1>5, <2>1 DEF NodeInOrder, Searching, Publishing, Changing
    <2>3. FoundInOrder(t)'
        BY <1>2, <1>3, <1>5 DEF IndInv, ThreadInOrder, FoundInOrder, Publishing, Changing
    <2>4. ChangeInOrder(t)' /\ BacklinksInOrder(t)'
        BY <1>5 DEF ChangeInOrder, BacklinksInOrder, Publishing, Changing
    <2> QED
        BY <2>2, <2>3, <2>4 DEF ThreadInOrder
<1>8. /\ entry \in [id : Nodes \cup {NoNode}, level : Levels]
      /\ top_mutex \in Linkers \cup {None}
      /\ stripe \in [0..(Stripes - 1) -> Linkers \cup {None}]
    BY DEF IndInv, GraphShape
<1> QED
    BY <1>1, <1>2, <1>3, <1>5, <1>6, <1>7, <1>8, QuietStep DEF graph, locks

\* The end of link(): the thread keeps nothing.
LEMMA Left ==
    ASSUME IndInv, NEW t \in Linkers, Leave(t), at' = at
    PROVE  /\ Alone(t) /\ LocalShape' /\ ThreadInOrder(t)'
           /\ pc'[t] = "idle" /\ node'[t] = NoNode
           /\ top_mutex' \in Linkers \cup {None}
           /\ \A u \in Linkers \ {t} : top_mutex = u => top_mutex' = u
<1>1. LocalShape /\ top_mutex \in Linkers \cup {None}
    BY DEF IndInv, GraphShape
<1>2. /\ pc' = [pc EXCEPT ![t] = "idle"]
      /\ node' = [node EXCEPT ![t] = NoNode]
      /\ ent' = [ent EXCEPT ![t] = NoEntry]
      /\ lev' = [lev EXCEPT ![t] = 0]
      /\ found' = [found EXCEPT ![t] = [l \in Levels |-> {}]]
      /\ chosen' = [chosen EXCEPT ![t] = [l \in Levels |-> {}]]
      /\ pending' = [pending EXCEPT ![t] = {}]
      /\ in_links' = [in_links EXCEPT ![t] = FALSE]
      /\ list' = [list EXCEPT ![t] = NoNode]
      /\ word' = [word EXCEPT ![t] = 0]
      /\ rewrite' = [rewrite EXCEPT ![t] = <<>>]
      /\ top_mutex' = IF top_mutex = t THEN None ELSE top_mutex
    BY DEF Leave, Goto
<1>3. 0 \in Levels
    BY HnswLinkAssumption DEF Levels
<1>4. NoEntry \in [id : Nodes \cup {NoNode}, level : Levels]
    BY <1>3 DEF NoEntry
<1>5. Alone(t)
    BY <1>1, <1>2 DEF LocalShape, Alone, Same
<1>6. pc'[t] = "idle" /\ node'[t] = NoNode /\ \A l \in Levels : found'[t][l] = {} /\ chosen'[t][l] = {}
    BY <1>1, <1>2 DEF LocalShape
<1>7. LocalShape'
    <2>1. pc' \in [Linkers -> Points]
        BY <1>1, <1>2 DEF LocalShape, Points
    <2>2. \A u \in Linkers : DOMAIN found'[u] = Levels /\ DOMAIN chosen'[u] = Levels
        BY <1>1, <1>2 DEF LocalShape
    <2>3. node' \in [Linkers -> Nodes \cup {NoNode}] /\ list' \in [Linkers -> Nodes \cup {NoNode}]
        BY <1>1, <1>2 DEF LocalShape
    <2>4. ent' \in [Linkers -> [id : Nodes \cup {NoNode}, level : Levels]]
        BY <1>1, <1>2, <1>4 DEF LocalShape
    <2>5. lev' \in [Linkers -> Levels] /\ pending' \in [Linkers -> SUBSET Nodes]
          /\ word' \in [Linkers -> Nat]
        BY <1>1, <1>2, <1>3 DEF LocalShape
    <2> QED
        BY <1>1, <1>2, <2>1, <2>2, <2>3, <2>4, <2>5 DEF LocalShape
<1>8. ThreadInOrder(t)'
    BY <1>6 DEF ThreadInOrder, NodeInOrder, FoundInOrder, ChangeInOrder, BacklinksInOrder,
                Searching, Publishing, Changing
<1> QED
    BY <1>1, <1>2, <1>5, <1>6, <1>7, <1>8

\* std::bad_alloc leaves a node that nothing names.
LEMMA FindThrowsStep ==
    ASSUME IndInv, NEW t \in Linkers, FindThrows(t)
    PROVE  IndInv'
<1>1. /\ pc[t] = "find" /\ Leave(t)
      /\ UNCHANGED <<level, count, slots, links, entry, stripe, todo, at, complete>>
    BY DEF FindThrows, graph
<1>2. /\ Alone(t) /\ LocalShape' /\ ThreadInOrder(t)'
      /\ pc'[t] = "idle" /\ node'[t] = NoNode
      /\ top_mutex' \in Linkers \cup {None}
      /\ \A u \in Linkers \ {t} : top_mutex = u => top_mutex' = u
    BY <1>1, Left
<1>3. EntryInOrder'
    BY <1>1, <1>2, EntryKept DEF Publishing, Changing
<1>4. /\ entry \in [id : Nodes \cup {NoNode}, level : Levels]
      /\ stripe \in [0..(Stripes - 1) -> Linkers \cup {None}]
    BY DEF IndInv, GraphShape
<1> QED
    BY <1>1, <1>2, <1>3, <1>4, QuietStep
\* A search starts at a complete node of the entry's level.
LEMMA Started ==
    ASSUME IndInv, NEW t \in Linkers, pc[t] \in {"entry", "top"}, StartFind(t, entry),
           entry.id # NoNode,
           UNCHANGED <<level, complete, entry, todo, node, found, chosen, pending, in_links,
                       list, word, rewrite, at>>
    PROVE  /\ Alone(t) /\ LocalShape' /\ ThreadInOrder(t)'
           /\ pc'[t] = "find" /\ ent'[t] = entry
<1>1. LocalShape /\ entry \in [id : Nodes \cup {NoNode}, level : Levels]
      /\ level \in [Nodes -> Levels]
    BY DEF IndInv, GraphShape
<1>2. /\ ent' = [ent EXCEPT ![t] = entry]
      /\ lev' = [lev EXCEPT ![t] = Smaller(level[node[t]], entry.level)]
      /\ pc' = [pc EXCEPT ![t] = "find"]
    BY DEF StartFind, Goto
<1>3. NodeInOrder(t) /\ FoundInOrder(t)
    BY DEF IndInv, ThreadInOrder
<1>4. node[t] \in Nodes
    BY <1>3 DEF NodeInOrder
<1>5. entry.level \in Levels /\ level[node[t]] \in Levels
    BY <1>1, <1>4
<1>6. Smaller(level[node[t]], entry.level) \in Levels
    BY <1>5 DEF Smaller
<1>7. /\ pc'[t] = "find" /\ ent'[t] = entry
      /\ lev'[t] = Smaller(level[node[t]], entry.level)
    BY <1>1, <1>2 DEF LocalShape
<1>8. Alone(t) /\ LocalShape'
    BY <1>1, <1>2, <1>6 DEF LocalShape, Alone, Same, Points
<1>9. NodeInOrder(t)'
    BY <1>3, <1>7 DEF NodeInOrder, Searching, Publishing, Changing
<1>10. FoundInOrder(t)'
    <2>1. Sound(entry.id, entry.level)'
        BY <1>1 DEF IndInv, EntryInOrder, Sound, Levels
    <2>2. TopOf(t)' = lev'[t]
        BY <1>7 DEF TopOf
    <2>3. \A l \in Levels : found'[t][l] = {} /\ chosen'[t][l] = {}
        BY <1>3 DEF FoundInOrder
    <2>4. lev'[t] \in Int /\ \A l \in Levels : l \in Int
        BY <1>6, <1>7 DEF Levels
    <2>5. \A l \in Levels : Cardinality(chosen'[t][l]) <= M
        <3>1. Cardinality({}) <= M
            BY FS_EmptySet, HnswLinkAssumption
        <3> QED
            BY <2>3, <3>1
    <2>6. lev'[t] <= TopOf(t)' /\ \A l \in Levels : ~(l <= TopOf(t)' /\ l > lev'[t])
        BY <2>2, <2>4
    <2>7. \A l \in Levels :
             /\ \A m \in found'[t][l] : Sound(m, l)' /\ m # node'[t]
             /\ chosen'[t][l] \subseteq found'[t][l]
             /\ Cardinality(chosen'[t][l]) <= M
        BY <2>3, <2>5
    <2>8. Sound(ent[t].id, ent[t].level)'
        BY <1>7, <2>1
    <2> QED
        BY <1>7, <2>6, <2>7, <2>8 DEF FoundInOrder, Sound
<1>11. ChangeInOrder(t)' /\ BacklinksInOrder(t)'
    BY <1>7 DEF ChangeInOrder, BacklinksInOrder, Publishing, Changing
<1> QED
    BY <1>7, <1>8, <1>9, <1>10, <1>11 DEF ThreadInOrder

LEMMA ReadEntryStep ==
    ASSUME IndInv, NEW t \in Linkers, ReadEntry(t)
    PROVE  IndInv'
<1>1. /\ pc[t] = "entry"
      /\ UNCHANGED <<level, count, slots, links, entry, top_mutex, stripe, todo, node, found,
                     chosen, pending, in_links, list, word, rewrite, at, complete>>
    BY DEF ReadEntry, graph, locks
<1>2. /\ entry \in [id : Nodes \cup {NoNode}, level : Levels]
      /\ top_mutex \in Linkers \cup {None}
      /\ stripe \in [0..(Stripes - 1) -> Linkers \cup {None}]
      /\ LocalShape /\ level \in [Nodes -> Levels]
    BY DEF IndInv, GraphShape
<1>3. CASE entry.id = NoNode \/ level[node[t]] > entry.level
    <2>1. pc' = [pc EXCEPT ![t] = "top"] /\ UNCHANGED <<ent, lev>>
        BY <1>3 DEF ReadEntry, Goto
    <2>2. Alone(t) /\ LocalShape' /\ pc'[t] = "top"
        BY <1>1, <1>2, <2>1 DEF LocalShape, Alone, Same, Points
    <2>3. ThreadInOrder(t)'
        <3>1. NodeInOrder(t) /\ FoundInOrder(t)
            BY DEF IndInv, ThreadInOrder
        <3>2. NodeInOrder(t)'
            BY <1>1, <2>2, <3>1 DEF NodeInOrder, Searching, Publishing, Changing
        <3>3. FoundInOrder(t)'
            BY <1>1, <2>2, <3>1 DEF FoundInOrder, Publishing, Changing
        <3>4. ChangeInOrder(t)' /\ BacklinksInOrder(t)'
            BY <2>2 DEF ChangeInOrder, BacklinksInOrder, Publishing, Changing
        <3> QED
            BY <3>2, <3>3, <3>4 DEF ThreadInOrder
    <2>4. EntryInOrder'
        BY <1>1, <2>2, EntryKept DEF Publishing, Changing
    <2> QED
        BY <1>1, <1>2, <2>2, <2>3, <2>4, QuietStep
<1>4. CASE ~(entry.id = NoNode \/ level[node[t]] > entry.level)
    <2>1. StartFind(t, entry)
        BY <1>4 DEF ReadEntry
    <2>2. /\ Alone(t) /\ LocalShape' /\ ThreadInOrder(t)'
          /\ pc'[t] = "find" /\ ent'[t] = entry
        BY <1>1, <1>4, <2>1, Started
    <2>3. entry.level <= entry.level
        BY <1>2 DEF Levels
    <2>4. EntryInOrder'
        BY <1>1, <1>4, <2>2, <2>3, EntryKept DEF Publishing, Changing
    <2> QED
        BY <1>1, <1>2, <2>2, <2>4, QuietStep
<1> QED
    BY <1>3, <1>4

\* LockTop, first disjunct: the first node of all, which no list names and whose
\* lists stay empty.
LEMMA FirstNode ==
    ASSUME IndInv, NEW t \in Linkers, pc[t] = "top", entry.id = NoNode,
           entry' = [id |-> node[t], level |-> level[node[t]]],
           complete' = complete \cup {node[t]}, Leave(t),
           UNCHANGED <<level, count, slots, links, stripe, todo, failures, at>>
    PROVE  IndInv'
<1>1. complete = {} /\ level \in [Nodes -> Levels] /\ node[t] \in Nodes \ todo
      /\ stripe \in [0..(Stripes - 1) -> Linkers \cup {None}]
    BY DEF IndInv, EntryInOrder, GraphShape, ThreadInOrder, NodeInOrder
<1>2. /\ Alone(t) /\ LocalShape' /\ ThreadInOrder(t)'
      /\ pc'[t] = "idle" /\ node'[t] = NoNode
      /\ top_mutex' \in Linkers \cup {None}
      /\ \A u \in Linkers \ {t} : top_mutex = u => top_mutex' = u
    BY Left
<1>3. entry'.id = node[t] /\ entry'.level = level[node[t]] /\ level[node[t]] \in Levels
      /\ entry' \in [id : Nodes \cup {NoNode}, level : Levels]
    BY <1>1
<1>4. GraphShape'
    BY <1>1, <1>2, <1>3 DEF IndInv, GraphShape
<1>5. \A m, l : Sound(m, l) => Sound(m, l)'
    BY DEF Sound
<1>6. SlotsInOrder'
    BY <1>5 DEF IndInv, SlotsInOrder
<1>7. ListsInOrder'
    <2>1. \A n, l : Intact(n, l)' <=> Intact(n, l)
        BY DEF Intact, Listing
    <2> SUFFICES ASSUME NEW n \in Nodes, NEW l \in Levels,
                        ~ \E u \in Linkers : pc'[u] = "shrink" /\ list'[u] = n /\ lev'[u] = l
                 PROVE  Intact(n, l)
        BY <2>1 DEF ListsInOrder
    <2>2. ~ \E u \in Linkers : pc[u] = "shrink" /\ list[u] = n /\ lev[u] = l
        BY <1>2 DEF Alone, Same
    <2> QED
        BY <2>2 DEF IndInv, ListsInOrder
<1>8. \A u \in Linkers : ThreadInOrder(u)'
    <2>1. Confined(t)
        BY <1>2 DEF Confined, Frozen
    <2>2. \A u \in Linkers : u # t => Same(u) /\ node'[u] = node[u]
        BY <1>2 DEF Alone, Same
    <2> QED
        BY <1>2, <2>1, <2>2, OtherThreads
<1>9. EntryInOrder'
    <2>1. \A u \in Linkers : pc'[u] \notin {"find", "own"} \cup Publishing
        <3>1. \A u \in Linkers : pc[u] \notin {"find", "own"} \cup Publishing
            BY DEF IndInv, EntryInOrder
        <3> QED
            BY <1>2, <3>1 DEF Alone, Same, Publishing, Changing
    <2>2. NoNode \notin Nodes
        BY DEF NoNode, Nodes
    <2>3. entry'.id # NoNode
        BY <1>1, <1>3, <2>2
    <2>4. complete' = {node[t]}
        BY <1>1
    <2>5. entry'.id \in complete' /\ level'[entry'.id] = entry'.level
        BY <1>3, <2>4
    <2>6. \A n \in complete' : ~(level'[n] > entry'.level)
        BY <1>3, <2>4 DEF Levels
    <2> QED
        BY <2>1, <2>3, <2>5, <2>6 DEF EntryInOrder
<1>10. OneTop'
    BY <1>1 DEF OneTop
<1>11. \A w \in Walkers : WalkInOrder(w)'
    BY <1>5 DEF IndInv, WalkInOrder
<1> QED
    BY <1>2, <1>4, <1>6, <1>7, <1>8, <1>9, <1>10, <1>11 DEF IndInv

LEMMA LockTopStep ==
    ASSUME IndInv, NEW t \in Linkers, LockTop(t)
    PROVE  IndInv'
<1>1. CASE /\ entry.id = NoNode
           /\ entry' = [id |-> node[t], level |-> level[node[t]]]
           /\ complete' = complete \cup {node[t]}
           /\ Leave(t)
    BY <1>1, FirstNode DEF LockTop
<1>2. CASE /\ entry.id # NoNode
           /\ top_mutex' = t
           /\ StartFind(t, entry)
           /\ UNCHANGED <<entry, complete, node, found, chosen, pending, in_links, list,
                          word, rewrite>>
    <2>1. /\ pc[t] = "top" /\ top_mutex = None
          /\ UNCHANGED <<level, count, slots, links, stripe, todo, failures, at>>
        BY DEF LockTop
    <2>2. /\ Alone(t) /\ LocalShape' /\ ThreadInOrder(t)'
          /\ pc'[t] = "find" /\ ent'[t] = entry
        BY <1>2, <2>1, Started
    <2>3. /\ entry \in [id : Nodes \cup {NoNode}, level : Levels]
          /\ stripe \in [0..(Stripes - 1) -> Linkers \cup {None}]
        BY DEF IndInv, GraphShape
    <2>4. entry.level <= entry.level
        BY <2>3 DEF Levels
    <2>5. EntryInOrder'
        BY <1>2, <2>1, <2>2, <2>4, EntryKept, HnswLinkAssumption DEF Publishing, Changing
    <2> QED
        BY <1>2, <2>1, <2>2, <2>3, <2>5, QuietStep
<1> QED
    BY <1>1, <1>2 DEF LockTop
\* What a traversal of a level comes across is complete and reaches the level.
LEMMA VisibleSound ==
    ASSUME IndInv, NEW t \in Linkers, pc[t] = "find",
           NEW m \in Visible(t, lev[t])
    PROVE  m \in Nodes /\ Sound(m, lev[t]) /\ m # node[t]
<1>1. /\ LocalShape /\ NodeInOrder(t) /\ FoundInOrder(t) /\ SlotsInOrder
      /\ level \in [Nodes -> Levels] /\ complete \subseteq Nodes
    BY DEF IndInv, ThreadInOrder, GraphShape
<1>2. PICK l \in Levels : l = lev[t]
    BY <1>1 DEF LocalShape
<1>3. node[t] \in Nodes /\ node[t] \notin complete
    BY <1>1 DEF NodeInOrder, Searching
<1>4. Sound(ent[t].id, ent[t].level) /\ l <= TopOf(t)
      /\ \A k \in Levels : \A x \in found[t][k] : Sound(x, k)
    BY <1>1, <1>2 DEF FoundInOrder
<1>5. ent[t].level \in Levels /\ level[node[t]] \in Levels
    BY <1>1, <1>3 DEF LocalShape
<1>6. TopOf(t) \in Levels /\ TopOf(t) <= ent[t].level
    BY <1>5 DEF TopOf, Smaller, Levels
<1>7. Sound(m, l)
    <2>1. CASE \E n \in Nodes, i \in 1..Capacity(l) : m = slots[n][l][i] /\ m # NoNode
        BY <1>1, <2>1 DEF SlotsInOrder
    <2>2. CASE l = TopOf(t) /\ m = ent[t].id
        <3>1. m \in complete /\ level[m] >= ent[t].level /\ level[m] \in Levels
            BY <1>1, <1>4, <2>2 DEF Sound
        <3>2. level[m] >= l
            <4>1. PICK a \in Levels : a = level[m]
                BY <3>1
            <4>2. PICK b \in Levels : b = ent[t].level
                BY <1>5
            <4>3. b >= l /\ a >= b
                BY <1>6, <2>2, <3>1, <4>1, <4>2
            <4>4. a >= l
                BY <4>3, HnswLinkAssumption DEF Levels
            <4> QED
                BY <4>1, <4>4
        <3> QED
            BY <3>1, <3>2 DEF Sound
    <2>3. CASE l # TopOf(t) /\ m \in found[t][l + 1]
        <3>1. l + 1 \in Levels
            <4>1. l <= TopOf(t) /\ l # TopOf(t) /\ TopOf(t) \in Levels
                BY <1>4, <1>6, <2>3
            <4> QED
                BY <4>1, HnswLinkAssumption DEF Levels
        <3>2. Sound(m, l + 1)
            BY <1>4, <2>3, <3>1
        <3>3. level[m] \in Levels
            BY <1>1, <3>2 DEF Sound
        <3> QED
            BY <3>2, <3>3 DEF Sound, Levels
    <2>4. ASSUME NEW k \in (l + 1)..ent[t].level, m \in SlotIds(k), m # NoNode
          PROVE  Sound(m, l)
        <3>1. k \in Levels /\ l < k
            BY <1>5, HnswLinkAssumption DEF Levels
        <3>2. PICK n \in Nodes, i \in 1..Capacity(k) : m = slots[n][k][i]
            BY <2>4 DEF SlotIds
        <3>3. Sound(m, k)
            BY <1>1, <2>4, <3>1, <3>2 DEF SlotsInOrder
        <3>4. level[m] \in Levels
            BY <1>1, <3>3 DEF Sound
        <3> QED
            BY <3>1, <3>3, <3>4 DEF Sound, Levels
    <2>5. /\ m # NoNode
          /\ \/ m \in SlotIds(l)
             \/ l = TopOf(t) /\ m \in DescentEnds(t)
             \/ l # TopOf(t) /\ m \in found[t][l + 1]
        BY <1>2 DEF Visible
    <2>6. CASE m \in SlotIds(l)
        BY <2>1, <2>5, <2>6 DEF SlotIds
    <2>7. CASE l = TopOf(t) /\ m \in DescentEnds(t)
        BY <2>2, <2>4, <2>5, <2>7 DEF DescentEnds
    <2> QED
        BY <2>3, <2>5, <2>6, <2>7
<1> QED
    BY <1>1, <1>2, <1>3, <1>7 DEF Sound

\* One level of find_neighbors().
LEMMA FindLevelStep ==
    ASSUME IndInv, NEW t \in Linkers, FindLevel(t)
    PROVE  IndInv'
<1>1. /\ pc[t] = "find"
      /\ UNCHANGED <<level, count, slots, links, entry, top_mutex, stripe, todo, node, ent,
                     pending, in_links, list, word, rewrite, at, complete>>
    BY DEF FindLevel, graph, locks
<1>2. /\ entry \in [id : Nodes \cup {NoNode}, level : Levels]
      /\ top_mutex \in Linkers \cup {None}
      /\ stripe \in [0..(Stripes - 1) -> Linkers \cup {None}]
      /\ LocalShape /\ level \in [Nodes -> Levels] /\ NodeInOrder(t) /\ FoundInOrder(t)
    BY DEF IndInv, GraphShape, ThreadInOrder
<1>3. PICK l \in Levels : l = lev[t]
    BY <1>2 DEF LocalShape
<1>4. PICK C, S :
          /\ C \subseteq Visible(t, l) /\ S \subseteq C
          /\ S # {} /\ Cardinality(S) <= M
          /\ found' = [found EXCEPT ![t][l] = C]
          /\ chosen' = [chosen EXCEPT ![t][l] = S]
    BY <1>3 DEF FindLevel
<1>5. /\ DOMAIN found' = Linkers /\ DOMAIN chosen' = Linkers
      /\ DOMAIN found'[t] = Levels /\ DOMAIN chosen'[t] = Levels
      /\ found'[t][l] = C /\ chosen'[t][l] = S
      /\ \A k \in Levels : k # l => found'[t][k] = found[t][k] /\ chosen'[t][k] = chosen[t][k]
      /\ \A u \in Linkers : u # t => found'[u] = found[u] /\ chosen'[u] = chosen[u]
    BY <1>2, <1>4 DEF LocalShape
<1>6. \/ l = 0 /\ pc' = [pc EXCEPT ![t] = "own"] /\ lev' = lev
      \/ l # 0 /\ lev' = [lev EXCEPT ![t] = l - 1] /\ pc' = pc
    BY <1>3 DEF FindLevel, Goto
<1>7. l # 0 => l - 1 \in Levels
    BY HnswLinkAssumption DEF Levels
<1>8. /\ DOMAIN pc' = Linkers /\ DOMAIN lev' = Linkers
      /\ \A u \in Linkers : u # t => pc'[u] = pc[u] /\ lev'[u] = lev[u]
      /\ l = 0 => pc'[t] = "own" /\ lev'[t] = 0
      /\ l # 0 => pc'[t] = "find" /\ lev'[t] = l - 1
      /\ pc' \in [Linkers -> Points] /\ lev' \in [Linkers -> Levels]
    <2>1. pc \in [Linkers -> Points] /\ lev \in [Linkers -> Levels]
        BY <1>2 DEF LocalShape
    <2>2. CASE l = 0
        <3>1. pc' = [pc EXCEPT ![t] = "own"] /\ lev' = lev /\ lev[t] = 0
            BY <1>3, <1>6, <2>2
        <3> QED
            BY <2>1, <2>2, <3>1 DEF Points
    <2>3. CASE l # 0
        <3>1. PICK k \in Levels : k = l - 1
            BY <1>7, <2>3
        <3> QED
            BY <1>1, <1>6, <2>1, <2>3, <3>1
    <2> QED
        BY <2>2, <2>3
<1>9. Alone(t)
    BY <1>1, <1>5, <1>8 DEF Alone, Same
<1>10. LocalShape'
    <2>1. \A u \in Linkers : DOMAIN found'[u] = Levels /\ DOMAIN chosen'[u] = Levels
        BY <1>2, <1>5 DEF LocalShape
    <2> QED
        BY <1>1, <1>2, <1>5, <1>8, <2>1 DEF LocalShape
<1>11. NodeInOrder(t)'
    BY <1>1, <1>2, <1>8 DEF NodeInOrder, Searching, Publishing, Changing
<1>12. FoundInOrder(t)'
    <2>1. \A m \in C : Sound(m, l) /\ m # node[t]
        BY <1>1, <1>3, <1>4, VisibleSound
    <2>2. \A m, k : Sound(m, k)' <=> Sound(m, k)
        BY <1>1 DEF Sound
    <2>3. TopOf(t)' = TopOf(t)
        BY <1>1 DEF TopOf
    <2>4. /\ Sound(ent[t].id, ent[t].level) /\ l <= TopOf(t)
          /\ \A k \in Levels :
                /\ \A m \in found[t][k] : Sound(m, k) /\ m # node[t]
                /\ chosen[t][k] \subseteq found[t][k]
                /\ Cardinality(chosen[t][k]) <= M
          /\ \A k \in Levels : k <= TopOf(t) /\ k > l => chosen[t][k] # {}
        BY <1>1, <1>2, <1>3 DEF FoundInOrder
    <2>5. \A k \in Levels :
              /\ \A m \in found'[t][k] : Sound(m, k) /\ m # node[t]
              /\ chosen'[t][k] \subseteq found'[t][k]
              /\ Cardinality(chosen'[t][k]) <= M
        <3> TAKE k \in Levels
        <3>1. CASE k = l
            BY <1>4, <1>5, <2>1, <3>1
        <3>2. CASE k # l
            BY <1>5, <2>4, <3>2
        <3> QED
            BY <3>1, <3>2
    <2>6. level[node[t]] \in Levels /\ ent[t].level \in Levels
        BY <1>1, <1>2 DEF NodeInOrder, LocalShape
    <2>7. TopOf(t) \in Levels
        BY <2>6 DEF TopOf, Smaller
    <2>8. lev'[t] <= TopOf(t)
        BY <1>8, <2>4, <2>7 DEF Levels
    <2>9. \A k \in Levels : k <= TopOf(t) /\ (l = 0 \/ k > l - 1) => chosen'[t][k] # {}
        <3> SUFFICES ASSUME NEW k \in Levels, k <= TopOf(t), l = 0 \/ k > l - 1
                     PROVE  chosen'[t][k] # {}
            OBVIOUS
        <3>1. CASE k = l
            BY <1>4, <1>5, <3>1
        <3>2. CASE k # l
            <4>1. k > l
                BY <3>2 DEF Levels
            <4> QED
                BY <1>5, <2>4, <3>2, <4>1
        <3> QED
            BY <3>1, <3>2
    <2>10. pc'[t] \in {"find", "own"}
        BY <1>8
    <2>11. Sound(ent[t].id, ent[t].level)'
        BY <1>1, <2>2, <2>4
    <2>12. \A k \in Levels :
              k <= TopOf(t)' /\ (pc'[t] = "own" \/ (pc'[t] = "find" /\ k > lev'[t])) =>
                  chosen'[t][k] # {}
        BY <1>8, <2>3, <2>9
    <2>13. \A k \in Levels :
              /\ \A m \in found'[t][k] : Sound(m, k)' /\ m # node'[t]
              /\ chosen'[t][k] \subseteq found'[t][k]
              /\ Cardinality(chosen'[t][k]) <= M
        BY <1>1, <2>2, <2>5
    <2>14. lev'[t] <= TopOf(t)' /\ (pc'[t] = "own" => lev'[t] = 0)
        BY <1>8, <2>3, <2>8
    <2> QED
        BY <2>10, <2>11, <2>12, <2>13, <2>14 DEF FoundInOrder
<1>13. ChangeInOrder(t)' /\ BacklinksInOrder(t)'
    BY <1>8 DEF ChangeInOrder, BacklinksInOrder, Publishing, Changing
<1>14. ThreadInOrder(t)'
    BY <1>11, <1>12, <1>13 DEF ThreadInOrder
<1>15. EntryInOrder'
    <2>1. /\ ent[t].level <= entry.level /\ entry.id # NoNode
          /\ Above(t) => top_mutex = t /\ entry = ent[t]
        BY <1>1 DEF IndInv, EntryInOrder
    <2> QED
        BY <1>1, <1>9, <2>1, EntryKept DEF Above, Publishing, Changing
<1> QED
    BY <1>1, <1>2, <1>9, <1>10, <1>14, <1>15, QuietStep
\* The same for a thread that goes on publishing.
LEMMA EntryUnmoved ==
    ASSUME IndInv, NEW t \in Linkers, Alone(t),
           level' = level, complete' = complete, entry' = entry, top_mutex' = top_mutex,
           node'[t] = node[t], ent'[t] = ent[t],
           pc[t] \in Publishing, pc'[t] \in Publishing
    PROVE  EntryInOrder'
<1>1. /\ ent[t].level <= entry.level /\ entry.id # NoNode
      /\ Above(t) => top_mutex = t /\ entry = ent[t]
    BY DEF IndInv, EntryInOrder
<1> QED
    BY <1>1, EntryKept DEF Above

\* A stripe that was free is locked.
LEMMA StripeLocked ==
    ASSUME IndInv, NEW t \in Linkers, NEW n \in Nodes, LockStripe(t, n)
    PROVE  /\ stripe' \in [0..(Stripes - 1) -> Linkers \cup {None}]
           /\ stripe'[StripeOf(n)] = t
           /\ \A s \in 0..(Stripes - 1), u \in Linkers \ {t} : stripe[s] = u => stripe'[s] = u
<1>1. StripeOf(n) \in 0..(Stripes - 1)
    BY StripeExists
<1>2. stripe \in [0..(Stripes - 1) -> Linkers \cup {None}]
    BY DEF IndInv, GraphShape
<1> QED
    BY <1>1, <1>2, HnswLinkAssumption DEF LockStripe

\* On to the next level, or to the end.
LEMMA NextLevelStep ==
    ASSUME IndInv, NEW t \in Linkers, pc[t] \in {"backlinks", "repair"}, pending[t] = {},
           NextLevel(t),
           UNCHANGED <<level, count, slots, links, entry, top_mutex, stripe, todo, node, ent,
                       found, chosen, list, word, rewrite, at, complete>>
    PROVE  IndInv'
<1>1. /\ entry \in [id : Nodes \cup {NoNode}, level : Levels]
      /\ top_mutex \in Linkers \cup {None}
      /\ stripe \in [0..(Stripes - 1) -> Linkers \cup {None}]
      /\ LocalShape /\ NodeInOrder(t) /\ FoundInOrder(t) /\ BacklinksInOrder(t)
      /\ level \in [Nodes -> Levels]
    BY DEF IndInv, GraphShape, ThreadInOrder
<1>2. pc[t] \in Publishing /\ in_links' = [in_links EXCEPT ![t] = FALSE]
    BY DEF Publishing, NextLevel
<1>3. PICK l \in Levels : l = lev[t]
    BY <1>1 DEF LocalShape
<1>4. level[node[t]] \in Levels /\ ent[t].level \in Levels
    BY <1>1, <1>2 DEF NodeInOrder, LocalShape
<1>5. TopOf(t) \in Levels /\ TopOf(t)' = TopOf(t)
    BY <1>4 DEF TopOf, Smaller
<1>6. CASE lev[t] < TopOf(t)
    <2>1. PICK k \in Levels : k = l + 1
        BY <1>3, <1>5, <1>6, HnswLinkAssumption DEF Levels
    <2>2. /\ lev' = [lev EXCEPT ![t] = k] /\ pending' = [pending EXCEPT ![t] = chosen[t][k]]
          /\ pc' = [pc EXCEPT ![t] = "backlinks"]
        BY <1>3, <1>6, <2>1 DEF NextLevel, Goto
    <2>3. chosen[t][k] \subseteq found[t][k] /\ \A m \in found[t][k] : Sound(m, k)
        BY <1>1, <1>2 DEF FoundInOrder
    <2>4. chosen[t][k] \in SUBSET Nodes
        BY <2>3 DEF IndInv, GraphShape, Sound
    <2>5. /\ pc'[t] = "backlinks" /\ lev'[t] = k /\ pending'[t] = chosen[t][k]
          /\ in_links'[t] = FALSE
        BY <1>1, <1>2, <2>2 DEF LocalShape
    <2>6. Alone(t) /\ LocalShape'
        BY <1>1, <1>2, <2>2, <2>4 DEF LocalShape, Alone, Same, Points
    <2>7. NodeInOrder(t)'
        BY <1>1, <1>2, <2>5 DEF NodeInOrder, Searching, Publishing, Changing
    <2>8. FoundInOrder(t)'
        <3>1. \A m, j : Sound(m, j)' <=> Sound(m, j)
            BY DEF Sound
        <3>2. k <= TopOf(t)
            BY <1>3, <1>5, <1>6, <2>1 DEF Levels
        <3> QED
            BY <1>1, <1>2, <1>5, <2>3, <2>5, <3>1, <3>2 DEF FoundInOrder
    <2>9. ChangeInOrder(t)'
        BY <2>5 DEF ChangeInOrder, Changing
    <2>10. BacklinksInOrder(t)'
        <3>1. \A j \in Levels : j <= l => j <= k /\ j # k
            BY <2>1 DEF Levels
        <3>2. \A j \in Levels : \A n \in found[t][j] : node[t] \in links[n][j] => j <= l
            BY <1>1, <1>3 DEF BacklinksInOrder, Publishing
        <3> QED
            BY <2>5, <3>1, <3>2 DEF BacklinksInOrder
    <2>11. ThreadInOrder(t)'
        BY <2>7, <2>8, <2>9, <2>10 DEF ThreadInOrder
    <2>12. EntryInOrder'
        BY <1>2, <2>5, <2>6, EntryUnmoved DEF Publishing
    <2> QED
        BY <1>1, <2>6, <2>11, <2>12, QuietStep
<1>7. CASE ~(lev[t] < TopOf(t))
    <2>1. /\ lev' = lev /\ pending' = pending /\ pc' = [pc EXCEPT ![t] = "publish_entry"]
        BY <1>7 DEF NextLevel, Goto
    <2>2. pc'[t] = "publish_entry" /\ Alone(t) /\ LocalShape'
        BY <1>1, <1>2, <2>1 DEF LocalShape, Alone, Same, Points
    <2>3. NodeInOrder(t)'
        BY <1>1, <1>2, <2>2 DEF NodeInOrder, Searching, Publishing, Changing
    <2>4. FoundInOrder(t)'
        <3>1. \A m, j : Sound(m, j)' <=> Sound(m, j)
            BY DEF Sound
        <3> QED
            BY <1>1, <1>2, <1>5, <2>1, <2>2, <3>1 DEF FoundInOrder
    <2>5. ChangeInOrder(t)' /\ BacklinksInOrder(t)'
        BY <2>2 DEF ChangeInOrder, BacklinksInOrder, Changing
    <2>6. ThreadInOrder(t)'
        BY <2>3, <2>4, <2>5 DEF ThreadInOrder
    <2>7. EntryInOrder'
        BY <1>2, <2>2, EntryUnmoved DEF Publishing
    <2> QED
        BY <1>1, <2>2, <2>6, <2>7, QuietStep
<1> QED
    BY <1>6, <1>7

\* The neighbours of a level are done.
LEMMA EndLevelStep ==
    ASSUME IndInv, NEW t \in Linkers, EndLevel(t)
    PROVE  IndInv'
<1>1. /\ pc[t] = "backlinks" /\ pending[t] = {}
      /\ UNCHANGED <<level, count, slots, links, entry, top_mutex, stripe, todo, node, ent,
                     found, chosen, list, word, rewrite, at, complete>>
    BY DEF EndLevel, graph, locks
<1>2. CASE in_links[t] /\ NextLevel(t)
    BY <1>1, <1>2, NextLevelStep
<1>3. CASE /\ ~in_links[t]
           /\ pending' = [pending EXCEPT ![t] = found[t][lev[t]]]
           /\ Goto(t, "repair")
           /\ UNCHANGED <<lev, in_links>>
    <2>1. /\ entry \in [id : Nodes \cup {NoNode}, level : Levels]
          /\ top_mutex \in Linkers \cup {None}
          /\ stripe \in [0..(Stripes - 1) -> Linkers \cup {None}]
          /\ LocalShape /\ NodeInOrder(t) /\ FoundInOrder(t) /\ BacklinksInOrder(t)
        BY DEF IndInv, GraphShape, ThreadInOrder
    <2>2. pc[t] \in Publishing /\ pc' = [pc EXCEPT ![t] = "repair"] /\ lev[t] \in Levels
        BY <1>1, <1>3, <2>1 DEF Publishing, Goto, LocalShape
    <2>3. found[t][lev[t]] \in SUBSET Nodes
        <3>1. \A m \in found[t][lev[t]] : Sound(m, lev[t])
            BY <2>1, <2>2 DEF FoundInOrder
        <3> QED
            BY <3>1 DEF IndInv, GraphShape, Sound
    <2>4. /\ pc'[t] = "repair" /\ pending'[t] = found[t][lev[t]]
          /\ Alone(t) /\ LocalShape'
        BY <1>1, <1>3, <2>1, <2>2, <2>3 DEF LocalShape, Alone, Same, Points
    <2>5. NodeInOrder(t)'
        BY <1>1, <2>1, <2>2, <2>4 DEF NodeInOrder, Searching, Publishing, Changing
    <2>6. FoundInOrder(t)'
        <3>1. \A m, j : Sound(m, j)' <=> Sound(m, j)
            BY <1>1 DEF Sound
        <3>2. TopOf(t)' = TopOf(t)
            BY <1>1 DEF TopOf
        <3> QED
            BY <1>1, <1>3, <2>1, <2>2, <2>4, <3>1, <3>2 DEF FoundInOrder
    <2>7. ChangeInOrder(t)'
        BY <2>4 DEF ChangeInOrder, Changing
    <2>8. BacklinksInOrder(t)'
        <3>1. \A j \in Levels : \A n \in found[t][j] : node[t] \in links[n][j] =>
                  j <= lev[t] /\ j # lev[t]
            BY <1>1, <1>3, <2>1 DEF BacklinksInOrder, Publishing
        <3> QED
            BY <1>1, <1>3, <2>4, <3>1 DEF BacklinksInOrder
    <2>9. ThreadInOrder(t)'
        BY <2>5, <2>6, <2>7, <2>8 DEF ThreadInOrder
    <2>10. EntryInOrder'
        BY <1>1, <2>2, <2>4, EntryUnmoved DEF Publishing
    <2> QED
        BY <1>1, <2>1, <2>4, <2>9, <2>10, QuietStep
<1> QED
    BY <1>2, <1>3 DEF EndLevel
\* A thread locks the stripe of a neighbour it has not dealt with on this level,
\* and goes on to change its list; word and rewrite are what the caller says.
LEMMA ListLocked ==
    ASSUME IndInv, NEW t \in Linkers, pc[t] \in {"backlinks", "repair"},
           NEW n \in pending[t], LockStripe(t, n), list' = [list EXCEPT ![t] = n],
           NEW P \in SUBSET (pending[t] \ {n}), pending' = [pending EXCEPT ![t] = P],
           NEW p \in {"append", "shrink"}, Goto(t, p),
           NEW k \in Nat, word' = [word EXCEPT ![t] = k],
           NEW r, DOMAIN rewrite' = Linkers, rewrite'[t] = r,
           \A u \in Linkers : u # t => rewrite'[u] = rewrite[u],
           p = "append" => k = count[n][lev[t]] + 1 /\ k <= Capacity(lev[t]),
           p = "shrink" => /\ r \in Seq(links[n][lev[t]] \cup {node[t]})
                           /\ Len(r) \in 1..Capacity(lev[t])
                           /\ \A i, j \in 1..Len(r) : r[i] = r[j] => i = j
                           /\ k = 1,
           UNCHANGED <<level, count, slots, links, entry, top_mutex, todo, node, ent, lev,
                       found, chosen, in_links, at, complete>>
    PROVE  IndInv'
<1>1. /\ entry \in [id : Nodes \cup {NoNode}, level : Levels]
      /\ top_mutex \in Linkers \cup {None}
      /\ LocalShape /\ NodeInOrder(t) /\ FoundInOrder(t) /\ BacklinksInOrder(t)
    BY DEF IndInv, GraphShape, ThreadInOrder
<1>2. pc[t] \in Publishing /\ pc' = [pc EXCEPT ![t] = p] /\ lev[t] \in Levels
    BY <1>1 DEF Publishing, Goto, LocalShape
<1>3. n \in Nodes /\ n \in found[t][lev[t]]
    BY <1>1, <1>2 DEF LocalShape, FoundInOrder
<1>4. /\ stripe' \in [0..(Stripes - 1) -> Linkers \cup {None}]
      /\ stripe'[StripeOf(n)] = t
      /\ \A s \in 0..(Stripes - 1), u \in Linkers \ {t} : stripe[s] = u => stripe'[s] = u
    BY <1>3, StripeLocked
<1>5. /\ pc'[t] = p /\ list'[t] = n /\ pending'[t] = P /\ word'[t] = k /\ rewrite'[t] = r
      /\ Alone(t)
    BY <1>1, <1>2 DEF LocalShape, Alone, Same
<1>6. LocalShape'
    <2>1. pc' \in [Linkers -> Points] /\ word' \in [Linkers -> Nat]
          /\ DOMAIN rewrite' = Linkers
        BY <1>1, <1>2 DEF LocalShape, Points
    <2>2. list' \in [Linkers -> Nodes \cup {NoNode}] /\ pending' \in [Linkers -> SUBSET Nodes]
        BY <1>1, <1>3 DEF LocalShape
    <2> QED
        BY <1>1, <2>1, <2>2 DEF LocalShape
<1>7. NodeInOrder(t)'
    BY <1>1, <1>2, <1>5 DEF NodeInOrder, Searching, Publishing, Changing
<1>8. FoundInOrder(t)'
    <2>1. \A m, j : Sound(m, j)' <=> Sound(m, j)
        BY DEF Sound
    <2>2. TopOf(t)' = TopOf(t)
        BY DEF TopOf
    <2> QED
        BY <1>1, <1>2, <1>5, <2>1, <2>2 DEF FoundInOrder
<1>9. ChangeInOrder(t)'
    <2>1. CASE p = "append"
        BY <1>3, <1>4, <1>5, <2>1 DEF ChangeInOrder, Changing
    <2>2. CASE p = "shrink"
        <3>1. Len(r) \in Nat
            BY <2>2
        <3>2. k \in 1..(Len(r) + 1) /\ \A i \in 1..(k - 1) : slots[n][lev[t]][i] = r[i]
            BY <2>2, <3>1
        <3> QED
            BY <1>3, <1>4, <1>5, <2>2, <3>2 DEF ChangeInOrder, Changing
    <2> QED
        BY <2>1, <2>2
<1>10. BacklinksInOrder(t)'
    <2>1. \A j \in Levels : \A m \in found[t][j] : node[t] \in links[m][j] =>
              j <= lev[t] /\ (j = lev[t] => in_links[t] /\ m \notin pending[t])
        BY <1>1 DEF BacklinksInOrder, Publishing
    <2> QED
        BY <1>5, <2>1 DEF BacklinksInOrder
<1>11. ThreadInOrder(t)'
    BY <1>7, <1>8, <1>9, <1>10 DEF ThreadInOrder
<1>12. EntryInOrder'
    BY <1>2, <1>5, EntryUnmoved DEF Publishing, Changing
<1> QED
    BY <1>1, <1>4, <1>5, <1>6, <1>11, <1>12, QuietStep

\* The next neighbour of the level.
LEMMA LockListStep ==
    ASSUME IndInv, NEW t \in Linkers, LockList(t)
    PROVE  IndInv'
<1>1. /\ pc[t] = "backlinks"
      /\ UNCHANGED <<level, count, slots, links, entry, top_mutex, todo, node, ent, lev,
                     found, chosen, in_links, at, complete>>
    BY DEF LockList, graph
<1>2. PICK n \in pending[t] :
        /\ LockStripe(t, n)
        /\ list' = [list EXCEPT ![t] = n]
        /\ pending' = [pending EXCEPT ![t] = @ \ {n}]
        /\ \/ /\ HasRoom(n, lev[t])
              /\ word' = [word EXCEPT ![t] = count[n][lev[t]] + 1]
              /\ Goto(t, "append")
              /\ UNCHANGED rewrite
           \/ /\ ~HasRoom(n, lev[t])
              /\ \E S \in SUBSET (Listing(n, lev[t]) \cup {node[t]}) :
                    /\ S # {} /\ Cardinality(S) <= Capacity(lev[t])
                    /\ rewrite' = [rewrite EXCEPT ![t] = Listed(S)]
              /\ word' = [word EXCEPT ![t] = 1]
              /\ Goto(t, "shrink")
    BY DEF LockList
<1>3. LocalShape /\ GraphShape /\ ListsInOrder /\ NodeInOrder(t)
    BY DEF IndInv, ThreadInOrder
<1>4. n \in Nodes /\ lev[t] \in Levels
    BY <1>2, <1>3 DEF LocalShape
<1>5. PICK l \in Levels : l = lev[t]
    BY <1>4
<1>6. pending' = [pending EXCEPT ![t] = pending[t] \ {n}]
    BY <1>2, <1>3 DEF LocalShape
<1>7. count[n][l] \in 0..Capacity(l) /\ Capacity(l) \in Nat
    BY <1>3, <1>4, CapacityEnough DEF GraphShape
<1>8. CASE /\ HasRoom(n, lev[t])
           /\ word' = [word EXCEPT ![t] = count[n][lev[t]] + 1]
           /\ Goto(t, "append")
           /\ UNCHANGED rewrite
    <2>1. PICK k \in Nat : k = count[n][l] + 1
        BY <1>7
    <2>2. k <= Capacity(l)
        BY <1>5, <1>7, <1>8, <2>1 DEF HasRoom
    <2>3. DOMAIN rewrite' = Linkers /\ \A u \in Linkers : rewrite'[u] = rewrite[u]
        BY <1>3, <1>8 DEF LocalShape
    <2>4. word' = [word EXCEPT ![t] = k]
        BY <1>5, <1>8, <2>1
    <2> QED
        BY <1>1, <1>2, <1>5, <1>6, <1>8, <2>1, <2>2, <2>3, <2>4, ListLocked
<1>9. CASE /\ ~HasRoom(n, lev[t])
           /\ \E S \in SUBSET (Listing(n, lev[t]) \cup {node[t]}) :
                 /\ S # {} /\ Cardinality(S) <= Capacity(lev[t])
                 /\ rewrite' = [rewrite EXCEPT ![t] = Listed(S)]
           /\ word' = [word EXCEPT ![t] = 1]
           /\ Goto(t, "shrink")
    <2>1. PICK S \in SUBSET (Listing(n, l) \cup {node[t]}) :
              /\ S # {} /\ Cardinality(S) <= Capacity(l)
              /\ rewrite' = [rewrite EXCEPT ![t] = Listed(S)]
        BY <1>5, <1>9
    <2>2. ~ \E u \in Linkers : pc[u] = "shrink" /\ list[u] = n /\ lev[u] = l
        <3>1. stripe[StripeOf(n)] = None
            BY <1>2 DEF LockStripe
        <3>2. \A u \in Linkers : pc[u] = "shrink" => stripe[StripeOf(list[u])] = u
            BY DEF IndInv, ThreadInOrder, ChangeInOrder, Changing
        <3> QED
            BY <3>1, <3>2, HnswLinkAssumption
    <2>3. Listing(n, l) = links[n][l]
        BY <1>3, <1>4, <2>2 DEF ListsInOrder, Intact
    <2>4. node[t] \in Nodes /\ links[n][l] \subseteq Nodes
        BY <1>1, <1>3, <1>4 DEF NodeInOrder, GraphShape
    <2>5. S \in SUBSET Nodes /\ S \in SUBSET (links[n][l] \cup {node[t]})
        BY <2>1, <2>3, <2>4
    <2>6. PICK r : r = Listed(S)
        OBVIOUS
    <2>7. /\ r \in Seq(S) /\ Len(r) = Cardinality(S)
          /\ \A i, j \in 1..Cardinality(S) : r[i] = r[j] => i = j
        BY <2>5, <2>6, ListedOnce
    <2>8. Cardinality(S) \in 1..Capacity(l)
        BY <1>7, <2>1, <2>5, NodesFinite, FS_EmptySet
    <2>9. r \in Seq(links[n][l] \cup {node[t]})
        BY <2>5, <2>7
    <2>10. /\ Len(r) \in 1..Capacity(l)
           /\ \A i, j \in 1..Len(r) : r[i] = r[j] => i = j
        BY <2>7, <2>8
    <2>11. /\ DOMAIN rewrite' = Linkers /\ rewrite'[t] = r
           /\ \A u \in Linkers : u # t => rewrite'[u] = rewrite[u]
        BY <1>3, <2>1, <2>6 DEF LocalShape
    <2>12. PICK P \in SUBSET (pending[t] \ {n}) : P = pending[t] \ {n}
        OBVIOUS
    <2>13. PICK k \in Nat : k = 1
        OBVIOUS
    <2>14. /\ pending' = [pending EXCEPT ![t] = P] /\ word' = [word EXCEPT ![t] = k]
           /\ Goto(t, "shrink") /\ list' = [list EXCEPT ![t] = n] /\ LockStripe(t, n)
        BY <1>2, <1>6, <1>9, <2>12, <2>13
    <2>15. /\ r \in Seq(links[n][lev[t]] \cup {node[t]})
           /\ Len(r) \in 1..Capacity(lev[t])
           /\ \A i, j \in 1..Len(r) : r[i] = r[j] => i = j
        BY <1>5, <2>9, <2>10
    <2> QED
        BY <1>1, <2>11, <2>13, <2>14, <2>15, ListLocked
<1> QED
    BY <1>2, <1>8, <1>9

\* repair_orphans, one candidate.
LEMMA RepairOrphanStep ==
    ASSUME IndInv, NEW t \in Linkers, RepairOrphan(t)
    PROVE  IndInv'
<1>1. /\ pc[t] = "repair"
      /\ UNCHANGED <<level, count, slots, links, entry, top_mutex, todo, node, ent,
                     found, chosen, rewrite, at, complete>>
    BY DEF RepairOrphan, graph
<1>2. CASE pending[t] = {} /\ NextLevel(t) /\ UNCHANGED <<stripe, list, word>>
    BY <1>1, <1>2, NextLevelStep
<1>3. ASSUME NEW n \in pending[t], HasRoom(n, lev[t]), LockStripe(t, n),
             list' = [list EXCEPT ![t] = n],
             word' = [word EXCEPT ![t] = count[n][lev[t]] + 1],
             pending' = [pending EXCEPT ![t] = {}],
             Goto(t, "append"), UNCHANGED <<lev, in_links>>
      PROVE  IndInv'
    <2>1. LocalShape /\ GraphShape
        BY DEF IndInv
    <2>2. n \in Nodes /\ lev[t] \in Levels
        BY <1>3, <2>1 DEF LocalShape
    <2>3. PICK l \in Levels : l = lev[t]
        BY <2>2
    <2>4. count[n][l] \in 0..Capacity(l) /\ Capacity(l) \in Nat
        BY <2>1, <2>2, CapacityEnough DEF GraphShape
    <2>5. PICK k \in Nat : k = count[n][l] + 1
        BY <2>4
    <2>6. k <= Capacity(l)
        BY <1>3, <2>3, <2>4, <2>5 DEF HasRoom
    <2>7. DOMAIN rewrite' = Linkers /\ \A u \in Linkers : rewrite'[u] = rewrite[u]
        BY <1>1, <2>1 DEF LocalShape
    <2>8. word' = [word EXCEPT ![t] = k]
        BY <1>3, <2>3, <2>5
    <2>9. {} \in SUBSET (pending[t] \ {n})
        OBVIOUS
    <2> QED
        BY <1>1, <1>3, <2>3, <2>5, <2>6, <2>7, <2>8, <2>9, ListLocked
<1>4. ASSUME NEW n \in pending[t], pending' = [pending EXCEPT ![t] = @ \ {n}],
             UNCHANGED <<stripe, list, word, pc, lev, in_links>>
      PROVE  IndInv'
    <2>1. /\ entry \in [id : Nodes \cup {NoNode}, level : Levels]
          /\ top_mutex \in Linkers \cup {None}
          /\ stripe \in [0..(Stripes - 1) -> Linkers \cup {None}]
          /\ LocalShape /\ NodeInOrder(t) /\ FoundInOrder(t) /\ BacklinksInOrder(t)
        BY DEF IndInv, GraphShape, ThreadInOrder
    <2>2. pc[t] \in Publishing
        BY <1>1 DEF Publishing
    <2>3. pending'[t] = pending[t] \ {n} /\ Alone(t) /\ LocalShape'
        BY <1>1, <1>4, <2>1 DEF LocalShape, Alone, Same
    <2>4. NodeInOrder(t)'
        BY <1>1, <1>4, <2>1 DEF NodeInOrder
    <2>5. FoundInOrder(t)'
        <3>1. \A m, j : Sound(m, j)' <=> Sound(m, j)
            BY <1>1 DEF Sound
        <3>2. TopOf(t)' = TopOf(t)
            BY <1>1 DEF TopOf
        <3> QED
            BY <1>1, <1>4, <2>1, <2>2, <2>3, <3>1, <3>2 DEF FoundInOrder
    <2>6. ChangeInOrder(t)'
        BY <1>1, <1>4 DEF ChangeInOrder, Changing
    <2>7. BacklinksInOrder(t)'
        BY <1>1, <1>4, <2>1, <2>3 DEF BacklinksInOrder
    <2>8. ThreadInOrder(t)'
        BY <2>4, <2>5, <2>6, <2>7 DEF ThreadInOrder
    <2>9. EntryInOrder'
        BY <1>1, <1>4, <2>2, <2>3, EntryUnmoved
    <2> QED
        BY <1>1, <1>4, <2>1, <2>3, <2>8, <2>9, QuietStep
<1> QED
    BY <1>2, <1>3, <1>4 DEF RepairOrphan
\* Only the holder of top_mutex can raise the entry point.
LEMMA EntryRaised ==
    ASSUME IndInv, NEW t \in Linkers, Alone(t), pc[t] = "publish_entry", Above(t),
           pc'[t] = "idle", level' = level, complete' = complete,
           entry' = [id |-> node[t], level |-> level[node[t]]]
    PROVE  EntryInOrder' /\ entry' \in [id : Nodes \cup {NoNode}, level : Levels]
<1>1. /\ EntryInOrder /\ NodeInOrder(t) /\ LocalShape
      /\ level \in [Nodes -> Levels] /\ complete \subseteq Nodes
      /\ entry \in [id : Nodes \cup {NoNode}, level : Levels]
    BY DEF IndInv, ThreadInOrder, GraphShape
<1>2. node[t] \in complete /\ pc[t] \in Publishing
    BY <1>1 DEF NodeInOrder, Publishing
<1>3. top_mutex = t /\ entry = ent[t]
    BY <1>1, <1>2 DEF EntryInOrder
<1>4. \A u \in Linkers : pc[u] \in {"find", "own"} \cup Publishing /\ u # t =>
          ent[u].level <= entry.level /\ ~Above(u)
    BY <1>1, <1>3 DEF EntryInOrder
<1>5. PICK a \in Levels : a = level[node[t]]
    BY <1>1, <1>2
<1>6. PICK e \in Levels : e = entry.level
    BY <1>1
<1>7. a > e
    BY <1>3, <1>5, <1>6 DEF Above
<1>8. entry'.id = node[t] /\ entry'.level = a
    BY <1>5
<1>9. entry'.id # NoNode /\ entry'.id \in complete'
    BY <1>1, <1>2, <1>8 DEF NoNode, Nodes
<1>10. \A u \in Linkers : pc'[u] \in {"find", "own"} \cup Publishing =>
          /\ ent'[u].level <= entry'.level /\ entry'.id # NoNode
          /\ ~Above(u)'
    <2> SUFFICES ASSUME NEW u \in Linkers, pc'[u] \in {"find", "own"} \cup Publishing
                 PROVE  ent'[u].level <= entry'.level /\ ~Above(u)'
        BY <1>9
    <2>1. u # t
        BY DEF Publishing, Changing
    <2>2. Same(u)
        BY <2>1 DEF Alone
    <2>3. ent[u].level <= e /\ ~Above(u) /\ ent[u].level \in Levels
        BY <1>1, <1>4, <1>6, <2>1, <2>2 DEF Same, LocalShape
    <2>4. ent[u].level <= a
        BY <1>7, <2>3 DEF Levels
    <2> QED
        BY <1>8, <2>2, <2>3, <2>4 DEF Same, Above
<1>11. \A n \in complete' : ~(level'[n] > entry'.level)
    <2> SUFFICES ASSUME NEW n \in complete, level[n] > a
                 PROVE  FALSE
        BY <1>8
    <2>1. level[n] \in Levels
        BY <1>1
    <2>2. level[n] > e
        BY <1>7, <2>1 DEF Levels
    <2>3. PICK u \in Linkers : node[u] = n /\ pc[u] \in Publishing /\ Above(u)
        BY <1>1, <1>6, <2>2 DEF EntryInOrder
    <2>4. u = t
        BY <1>4, <2>3
    <2> QED
        BY <1>5, <2>1, <2>3, <2>4 DEF Levels
<1> QED
    BY <1>1, <1>2, <1>5, <1>8, <1>9, <1>10, <1>11 DEF EntryInOrder

\* The end of publish().
LEMMA PublishEntryStep ==
    ASSUME IndInv, NEW t \in Linkers, PublishEntry(t)
    PROVE  IndInv'
<1>1. /\ pc[t] = "publish_entry" /\ Leave(t)
      /\ UNCHANGED <<level, count, slots, links, stripe, todo, at, complete>>
      /\ entry' = IF Above(t) THEN [id |-> node[t], level |-> level[node[t]]] ELSE entry
    BY DEF PublishEntry, Above
<1>2. /\ Alone(t) /\ LocalShape' /\ ThreadInOrder(t)'
      /\ pc'[t] = "idle" /\ node'[t] = NoNode
      /\ top_mutex' \in Linkers \cup {None}
      /\ \A u \in Linkers \ {t} : top_mutex = u => top_mutex' = u
    BY <1>1, Left
<1>3. EntryInOrder' /\ entry' \in [id : Nodes \cup {NoNode}, level : Levels]
    <2>1. CASE Above(t)
        BY <1>1, <1>2, <2>1, EntryRaised
    <2>2. CASE ~Above(t)
        <3>1. entry \in [id : Nodes \cup {NoNode}, level : Levels]
            BY DEF IndInv, GraphShape
        <3>2. EntryInOrder'
            BY <1>1, <1>2, <2>2, EntryKept DEF Publishing, Changing
        <3> QED
            BY <1>1, <2>2, <3>1, <3>2
    <2> QED
        BY <2>1, <2>2
<1>4. stripe \in [0..(Stripes - 1) -> Linkers \cup {None}]
    BY DEF IndInv, GraphShape
<1> QED
    BY <1>1, <1>2, <1>3, <1>4, QuietStep
-----------------------------------------------------------------------------
(***************************************************************************)
(* The steps that store into the lists.                                    *)
(***************************************************************************)

\* The list a thread changes, and what it may put there.
LEMMA ChangedList ==
    ASSUME IndInv, NEW t \in Linkers, pc[t] \in Changing
    PROVE  /\ list[t] \in Nodes /\ lev[t] \in Levels /\ node[t] \in Nodes
           /\ pc[t] \in Publishing
           /\ Sound(list[t], lev[t]) /\ list[t] \in found[t][lev[t]] \ pending[t]
           /\ stripe[StripeOf(list[t])] = t
           /\ \A m \in links[list[t]][lev[t]] \cup {node[t]} :
                 m \in Nodes /\ m # list[t] /\ Sound(m, lev[t])
<1>1. /\ LocalShape /\ NodeInOrder(t) /\ FoundInOrder(t) /\ ChangeInOrder(t) /\ SlotsInOrder
      /\ level \in [Nodes -> Levels] /\ complete \subseteq Nodes
    BY DEF IndInv, ThreadInOrder, GraphShape
<1>2. pc[t] \in Publishing /\ lev[t] \in Levels
    BY <1>1 DEF Publishing, LocalShape
<1>3. list[t] \in found[t][lev[t]] \ pending[t] /\ stripe[StripeOf(list[t])] = t
    BY <1>1 DEF ChangeInOrder
<1>4. Sound(list[t], lev[t]) /\ list[t] # node[t] /\ lev[t] <= TopOf(t)
    BY <1>1, <1>2, <1>3 DEF FoundInOrder
<1>5. node[t] \in complete /\ list[t] \in complete
    BY <1>1, <1>2, <1>4 DEF NodeInOrder, Sound
<1>6. Sound(node[t], lev[t])
    <2>1. level[node[t]] \in Levels /\ ent[t].level \in Levels
        BY <1>1, <1>5 DEF LocalShape
    <2>2. TopOf(t) <= level[node[t]] /\ TopOf(t) \in Levels
        BY <2>1 DEF TopOf, Smaller, Levels
    <2>3. lev[t] <= level[node[t]]
        BY <1>2, <1>4, <2>1, <2>2 DEF Levels
    <2> QED
        BY <1>2, <1>5, <2>1, <2>3 DEF Sound, Levels
<1>7. \A m \in links[list[t]][lev[t]] : m # list[t] /\ Sound(m, lev[t])
    BY <1>1, <1>2, <1>5 DEF SlotsInOrder
<1> QED
    BY <1>1, <1>2, <1>3, <1>4, <1>5, <1>6, <1>7 DEF Sound

\* A step of t that changes the list of node n on level l, and no other list.
ListStored(t, n, l) ==
    /\ \A m \in Nodes, k \in Levels : m # n \/ k # l => Frozen(m, k)
    /\ DOMAIN count' = Nodes /\ DOMAIN slots' = Nodes /\ DOMAIN links' = Nodes
    /\ \A m \in Nodes : /\ DOMAIN count'[m] = Levels
                        /\ DOMAIN slots'[m] = Levels
                        /\ DOMAIN links'[m] = Levels
    /\ count'[n][l] \in 0..Capacity(l)
    /\ slots'[n][l] \in [1..Capacity(l) -> Nodes \cup {NoNode}]
    /\ links'[n][l] \subseteq links[n][l] \cup {node[t]}
    /\ \A i \in 1..Capacity(l) : slots'[n][l][i] # slots[n][l][i] =>
           slots'[n][l][i] \in links[n][l] \cup {node[t]}
    /\ \A i \in 1..Capacity(l) : i <= count'[n][l] => slots'[n][l][i] # NoNode
    /\ count'[n][l] = 0 => count[n][l] = 0
    /\ UNCHANGED <<level, entry, top_mutex, todo, complete, at>>
    /\ stripe' \in [0..(Stripes - 1) -> Linkers \cup {None}]
    /\ \A s \in 0..(Stripes - 1), u \in Linkers \ {t} : stripe[s] = u => stripe'[s] = u

\* What is left to show is about that list and that thread.
LEMMA StoreStep ==
    ASSUME IndInv, NEW t \in Linkers, pc[t] \in Changing, Alone(t), LocalShape',
           NEW n \in Nodes, n = list[t], NEW l \in Levels, l = lev[t], ListStored(t, n, l),
           pc'[t] # "shrink" => Intact(n, l)', ThreadInOrder(t)',
           pc'[t] \in Publishing, node'[t] = node[t], ent'[t] = ent[t],
           list'[t] = n, lev'[t] = l
    PROVE  IndInv'
<1> USE DEF ListStored
<1>1. /\ n \in Nodes /\ l \in Levels /\ node[t] \in Nodes /\ pc[t] \in Publishing
      /\ Sound(n, l)
      /\ \A m \in links[n][l] \cup {node[t]} : m \in Nodes /\ m # n /\ Sound(m, l)
    BY ChangedList
<1>2. GraphShape /\ SlotsInOrder /\ ListsInOrder /\ OneTop
    BY DEF IndInv
<1>3. \A m, k : Sound(m, k)' <=> Sound(m, k)
    BY DEF Sound
<1>4. GraphShape'
    <2>1. \A m \in Nodes, k \in Levels :
              /\ count'[m][k] \in 0..Capacity(k)
              /\ slots'[m][k] \in [1..Capacity(k) -> Nodes \cup {NoNode}]
              /\ links'[m][k] \subseteq Nodes
        <3> TAKE m \in Nodes, k \in Levels
        <3>1. CASE m = n /\ k = l
            BY <1>1, <3>1
        <3>2. CASE m # n \/ k # l
            BY <1>2, <3>2 DEF GraphShape, Frozen
        <3> QED
            BY <3>1, <3>2
    <2> QED
        BY <1>2, <2>1 DEF GraphShape
<1>5. SlotsInOrder'
    <2> SUFFICES ASSUME NEW m \in Nodes, NEW k \in Levels
                 PROVE  /\ \A i \in 1..Capacity(k) :
                              /\ i <= count'[m][k] => slots'[m][k][i] # NoNode
                              /\ slots'[m][k][i] # NoNode =>
                                    /\ Sound(m, k) /\ slots'[m][k][i] # m
                                    /\ \A x : x = slots'[m][k][i] => Sound(x, k)
                        /\ \A x \in links'[m][k] : Sound(m, k) /\ x # m /\ Sound(x, k)
        BY <1>3 DEF SlotsInOrder
    <2>1. CASE m = n /\ k = l
        <3>1. \A x \in links'[n][l] : Sound(n, l) /\ x # n /\ Sound(x, l)
            BY <1>1
        <3>2. ASSUME NEW i \in 1..Capacity(l), slots'[n][l][i] # NoNode
              PROVE  /\ Sound(n, l) /\ slots'[n][l][i] # n
                     /\ \A x : x = slots'[n][l][i] => Sound(x, l)
            <4>1. CASE slots'[n][l][i] = slots[n][l][i]
                BY <1>1, <1>2, <3>2, <4>1 DEF SlotsInOrder
            <4>2. CASE slots'[n][l][i] # slots[n][l][i]
                BY <1>1, <4>2
            <4> QED
                BY <4>1, <4>2
        <3> QED
            BY <2>1, <3>1, <3>2
    <2>2. CASE m # n \/ k # l
        BY <1>2, <2>2 DEF SlotsInOrder, Frozen
    <2> QED
        BY <2>1, <2>2
<1>6. ListsInOrder'
    <2> SUFFICES ASSUME NEW m \in Nodes, NEW k \in Levels,
                        ~ \E u \in Linkers : pc'[u] = "shrink" /\ list'[u] = m /\ lev'[u] = k
                 PROVE  Intact(m, k)'
        BY DEF ListsInOrder
    <2>1. CASE m = n /\ k = l
        BY <2>1
    <2>2. CASE m # n \/ k # l
        <3>1. ~ \E u \in Linkers : pc[u] = "shrink" /\ list[u] = m /\ lev[u] = k
            BY <2>2 DEF Alone, Same
        <3>2. Intact(m, k) /\ Frozen(m, k)
            BY <1>2, <2>2, <3>1 DEF ListsInOrder
        <3> QED
            BY <3>2 DEF Intact, Listing, Frozen
    <2> QED
        BY <2>1, <2>2
<1>7. \A u \in Linkers : ThreadInOrder(u)'
    <2>1. complete \subseteq Nodes
        BY <1>2 DEF GraphShape
    <2>2. Confined(t)
        BY <2>1 DEF Confined
    <2>3. \A u \in Linkers : u # t => Same(u) /\ node'[u] = node[u]
        BY DEF Alone, Same
    <2> QED
        BY <2>2, <2>3, OtherThreads
<1>8. EntryInOrder'
    BY <1>1, EntryUnmoved
<1>9. OneTop'
    <2>1. \A m \in complete, k \in Levels : count'[m][k] = 0 => count[m][k] = 0
        <3>1. complete \subseteq Nodes
            BY <1>2 DEF GraphShape
        <3> QED
            BY <3>1 DEF Frozen
    <2> QED
        BY <1>2, <2>1 DEF OneTop
<1>10. \A w \in Walkers : WalkInOrder(w)'
    <2>1. \A m \in Nodes, k \in Levels : \A i \in 1..Capacity(k) :
              slots[m][k][i] # NoNode => slots'[m][k][i] # NoNode
        <3> TAKE m \in Nodes, k \in Levels
        <3>1. CASE m = n /\ k = l
            <4>1. NoNode \notin links[n][l] \cup {node[t]}
                BY <1>1 DEF NoNode, Nodes
            <4> QED
                BY <3>1, <4>1
        <3>2. CASE m # n \/ k # l
            BY <3>2 DEF Frozen
        <3> QED
            BY <3>1, <3>2
    <2> SUFFICES ASSUME NEW w \in Walkers
                 PROVE  WalkInOrder(w)'
        OBVIOUS
    <2>2. WalkInOrder(w)
        BY DEF IndInv
    <2> SUFFICES ASSUME at[w].node # NoNode
                 PROVE  \A i \in 1..at[w].size : slots'[at[w].node][at[w].level][i] # NoNode
        BY <1>3, <2>2 DEF WalkInOrder
    <2> TAKE i \in 1..at[w].size
    <2>3. /\ at[w].node \in Nodes /\ at[w].level \in Levels
          /\ at[w].size \in Nat /\ at[w].size <= Capacity(at[w].level)
          /\ slots[at[w].node][at[w].level][i] # NoNode
        BY <1>2, <2>2 DEF WalkInOrder, Sound, GraphShape
    <2>4. i \in 1..Capacity(at[w].level)
        BY <2>3, CapacityEnough
    <2> QED
        BY <2>1, <2>3, <2>4
<1> QED
    BY <1>4, <1>5, <1>6, <1>7, <1>8, <1>9, <1>10 DEF IndInv

\* One thread at a time changes the lists of a node.
LEMMA SoleChanger ==
    ASSUME IndInv, NEW t \in Linkers, NEW u \in Linkers,
           pc[t] \in Changing, pc[u] \in Changing, list[u] = list[t]
    PROVE  u = t
<1>1. ChangeInOrder(t) /\ ChangeInOrder(u)
    BY DEF IndInv, ThreadInOrder
<1> QED
    BY <1>1 DEF ChangeInOrder

\* The list of an append is intact while it goes on.
LEMMA AppendedIntact ==
    ASSUME IndInv, NEW t \in Linkers, pc[t] \in {"append", "append_count"}
    PROVE  Intact(list[t], lev[t])
<1>1. pc[t] \in Changing
    BY DEF Changing
<1>2. list[t] \in Nodes /\ lev[t] \in Levels
    BY <1>1, ChangedList
<1>3. ~ \E u \in Linkers : pc[u] = "shrink" /\ list[u] = list[t] /\ lev[u] = lev[t]
    <2> SUFFICES ASSUME NEW u \in Linkers, pc[u] = "shrink", list[u] = list[t]
                 PROVE  FALSE
        OBVIOUS
    <2>1. pc[u] \in Changing
        BY DEF Changing
    <2>2. u = t
        BY <1>1, <2>1, SoleChanger
    <2> QED
        BY <2>2
<1> QED
    BY <1>2, <1>3 DEF IndInv, ListsInOrder

\* try_append_link: the slot past the count.
LEMMA AppendSlotStep ==
    ASSUME IndInv, NEW t \in Linkers, AppendSlot(t)
    PROVE  IndInv'
<1>1. /\ pc[t] = "append"
      /\ slots' = [slots EXCEPT ![list[t]][lev[t]][word[t]] = node[t]]
      /\ pc' = [pc EXCEPT ![t] = "append_count"]
      /\ UNCHANGED <<level, count, entry, links, top_mutex, stripe, todo, node, ent, lev,
                     found, chosen, pending, in_links, list, word, rewrite, at, complete>>
    BY DEF AppendSlot, Goto, locks, link_locals
<1>2. PICK n, l, k : n = list[t] /\ l = lev[t] /\ k = word[t]
    OBVIOUS
<1>3. pc[t] \in Changing /\ pc[t] \in Publishing
    BY <1>1 DEF Changing, Publishing
<1>4. /\ n \in Nodes /\ l \in Levels /\ node[t] \in Nodes
      /\ n \in found[t][l] \ pending[t] /\ stripe[StripeOf(n)] = t
      /\ \A m \in links[n][l] \cup {node[t]} : m \in Nodes /\ m # n /\ Sound(m, l)
    BY <1>2, <1>3, ChangedList
<1>5. /\ GraphShape /\ LocalShape /\ SlotsInOrder
      /\ NodeInOrder(t) /\ FoundInOrder(t) /\ BacklinksInOrder(t) /\ ChangeInOrder(t)
    BY DEF IndInv, ThreadInOrder
<1>6. Capacity(l) \in Nat /\ count[n][l] \in 0..Capacity(l)
    BY <1>4, <1>5, CapacityEnough DEF GraphShape
<1>7. k = count[n][l] + 1 /\ k <= Capacity(l)
    BY <1>1, <1>2, <1>5 DEF ChangeInOrder
<1>8. k \in 1..Capacity(l) /\ k \notin 1..count[n][l]
    BY <1>6, <1>7
<1>9. DOMAIN slots = Nodes /\ DOMAIN slots[n] = Levels
      /\ slots[n][l] \in [1..Capacity(l) -> Nodes \cup {NoNode}]
    BY <1>4, <1>5 DEF GraphShape
<1>10. /\ DOMAIN slots' = Nodes /\ DOMAIN slots'[n] = Levels
       /\ slots'[n][l] = [slots[n][l] EXCEPT ![k] = node[t]]
       /\ \A m \in Nodes : m # n => slots'[m] = slots[m]
       /\ \A j \in Levels : j # l => slots'[n][j] = slots[n][j]
    BY <1>1, <1>2, <1>4, <1>9
<1>11. /\ slots'[n][l] \in [1..Capacity(l) -> Nodes \cup {NoNode}]
       /\ slots'[n][l][k] = node[t]
       /\ \A i \in 1..Capacity(l) : i # k => slots'[n][l][i] = slots[n][l][i]
    BY <1>4, <1>8, <1>9, <1>10
<1>12. \A m \in Nodes, j \in Levels : m # n \/ j # l => Frozen(m, j)
    BY <1>1, <1>10 DEF Frozen
<1>13. \A m \in Nodes : /\ DOMAIN count'[m] = Levels
                        /\ DOMAIN slots'[m] = Levels
                        /\ DOMAIN links'[m] = Levels
    BY <1>1, <1>5, <1>10 DEF GraphShape
<1>14. pc'[t] = "append_count" /\ Alone(t) /\ LocalShape'
    BY <1>1, <1>5 DEF LocalShape, Alone, Same, Points
<1>15. Intact(n, l)'
    <2>1. Intact(n, l)
        BY <1>1, <1>2, AppendedIntact
    <2>2. \A i \in 1..count[n][l] : slots'[n][l][i] = slots[n][l][i]
        BY <1>6, <1>8, <1>11
    <2> QED
        BY <1>1, <2>1, <2>2 DEF Intact, Listing
<1>16. ThreadInOrder(t)'
    <2>1. NodeInOrder(t)'
        BY <1>1, <1>3, <1>5, <1>14 DEF NodeInOrder, Searching, Publishing, Changing
    <2>2. FoundInOrder(t)'
        <3>1. \A m, j : Sound(m, j)' <=> Sound(m, j)
            BY <1>1 DEF Sound
        <3>2. TopOf(t)' = TopOf(t)
            BY <1>1 DEF TopOf
        <3> QED
            BY <1>1, <1>3, <1>5, <1>14, <3>1, <3>2 DEF FoundInOrder
    <2>3. ChangeInOrder(t)'
        BY <1>1, <1>2, <1>4, <1>7, <1>11, <1>14 DEF ChangeInOrder
    <2>4. BacklinksInOrder(t)'
        BY <1>1, <1>5, <1>14 DEF BacklinksInOrder, Publishing, Changing
    <2> QED
        BY <2>1, <2>2, <2>3, <2>4 DEF ThreadInOrder
<1>17. /\ DOMAIN count' = Nodes /\ DOMAIN links' = Nodes
       /\ stripe' \in [0..(Stripes - 1) -> Linkers \cup {None}]
    BY <1>1, <1>5 DEF GraphShape
<1>18. \A i \in 1..Capacity(l) : i <= count'[n][l] => slots'[n][l][i] # NoNode
    <2>1. \A i \in 1..Capacity(l) : i <= count[n][l] => slots[n][l][i] # NoNode
        BY <1>4, <1>5 DEF SlotsInOrder
    <2>2. \A i \in 1..Capacity(l) : i <= count[n][l] => i # k
        BY <1>6, <1>7
    <2> QED
        BY <1>1, <1>11, <2>1, <2>2
<1>19. /\ pc'[t] \in Publishing /\ pc'[t] # "shrink"
       /\ count'[n][l] \in 0..Capacity(l) /\ (count'[n][l] = 0 => count[n][l] = 0)
       /\ links'[n][l] \subseteq links[n][l] \cup {node[t]}
       /\ \A i \in 1..Capacity(l) : slots'[n][l][i] # slots[n][l][i] =>
             slots'[n][l][i] \in links[n][l] \cup {node[t]}
    BY <1>1, <1>6, <1>11, <1>14 DEF Publishing, Changing
<1>20. /\ UNCHANGED <<level, entry, top_mutex, todo, complete, at>>
       /\ \A s \in 0..(Stripes - 1), u \in Linkers \ {t} : stripe[s] = u => stripe'[s] = u
    BY <1>1
<1>21. ListStored(t, n, l)
    BY <1>10, <1>11, <1>12, <1>13, <1>17, <1>18, <1>19, <1>20 DEF ListStored
<1>22. node'[t] = node[t] /\ ent'[t] = ent[t] /\ list'[t] = n /\ lev'[t] = l
    BY <1>1, <1>2
<1> QED
    BY <1>2, <1>3, <1>4, <1>14, <1>15, <1>16, <1>19, <1>21, <1>22, StoreStep
\* The stripe a thread releases was its own.
LEMMA StripeUnlocked ==
    ASSUME IndInv, NEW t \in Linkers, pc[t] \in Changing, UnlockStripe(t)
    PROVE  /\ stripe' \in [0..(Stripes - 1) -> Linkers \cup {None}]
           /\ \A s \in 0..(Stripes - 1), u \in Linkers \ {t} : stripe[s] = u => stripe'[s] = u
<1>1. list[t] \in Nodes /\ stripe[StripeOf(list[t])] = t
    BY ChangedList
<1>2. StripeOf(list[t]) \in 0..(Stripes - 1)
    BY <1>1, StripeExists
<1>3. stripe \in [0..(Stripes - 1) -> Linkers \cup {None}]
    BY DEF IndInv, GraphShape
<1> QED
    BY <1>1, <1>2, <1>3 DEF UnlockStripe

\* try_append_link: the count, which takes the stored slot into the list.
LEMMA AppendCountStep ==
    ASSUME IndInv, NEW t \in Linkers, AppendCount(t)
    PROVE  IndInv'
<1>1. /\ pc[t] = "append_count"
      /\ count' = [count EXCEPT ![list[t]][lev[t]] = word[t]]
      /\ links' = [links EXCEPT ![list[t]][lev[t]] = @ \cup {node[t]}]
      /\ in_links' = [in_links EXCEPT ![t] = TRUE]
      /\ UnlockStripe(t)
      /\ pc' = [pc EXCEPT ![t] = "backlinks"]
      /\ UNCHANGED <<level, slots, entry, top_mutex, todo, node, ent, lev, found,
                     chosen, pending, list, word, rewrite, at, complete>>
    BY DEF AppendCount, Goto
<1>2. PICK n, l, k : n = list[t] /\ l = lev[t] /\ k = word[t]
    OBVIOUS
<1>3. pc[t] \in Changing /\ pc[t] \in Publishing
    BY <1>1 DEF Changing, Publishing
<1>4. /\ n \in Nodes /\ l \in Levels /\ node[t] \in Nodes
      /\ n \in found[t][l] \ pending[t]
      /\ \A m \in links[n][l] \cup {node[t]} : m \in Nodes /\ m # n /\ Sound(m, l)
    BY <1>2, <1>3, ChangedList
<1>5. /\ GraphShape /\ LocalShape /\ SlotsInOrder
      /\ NodeInOrder(t) /\ FoundInOrder(t) /\ BacklinksInOrder(t) /\ ChangeInOrder(t)
    BY DEF IndInv, ThreadInOrder
<1>6. PICK c \in Nat : c = count[n][l]
    BY <1>4, <1>5, CapacityEnough DEF GraphShape
<1>7. k = c + 1 /\ k <= Capacity(l) /\ slots[n][l][k] = node[t]
    BY <1>1, <1>2, <1>5, <1>6 DEF ChangeInOrder
<1>8. Capacity(l) \in Nat
    BY <1>4, CapacityEnough
<1>9. /\ DOMAIN count = Nodes /\ DOMAIN count[n] = Levels
      /\ DOMAIN links = Nodes /\ DOMAIN links[n] = Levels
      /\ slots[n][l] \in [1..Capacity(l) -> Nodes \cup {NoNode}]
    BY <1>4, <1>5 DEF GraphShape
<1>10. /\ DOMAIN count' = Nodes /\ DOMAIN count'[n] = Levels /\ count'[n][l] = k
       /\ \A m \in Nodes : m # n => count'[m] = count[m]
       /\ \A j \in Levels : j # l => count'[n][j] = count[n][j]
    BY <1>1, <1>2, <1>4, <1>9
<1>11. /\ DOMAIN links' = Nodes /\ DOMAIN links'[n] = Levels
       /\ links'[n][l] = links[n][l] \cup {node[t]}
       /\ \A m \in Nodes : m # n => links'[m] = links[m]
       /\ \A j \in Levels : j # l => links'[n][j] = links[n][j]
    BY <1>1, <1>2, <1>4, <1>9
<1>12. \A m \in Nodes, j \in Levels : m # n \/ j # l => Frozen(m, j)
    BY <1>1, <1>10, <1>11 DEF Frozen
<1>13. \A m \in Nodes : /\ DOMAIN count'[m] = Levels
                        /\ DOMAIN slots'[m] = Levels
                        /\ DOMAIN links'[m] = Levels
    BY <1>1, <1>5, <1>10, <1>11 DEF GraphShape
<1>14. pc'[t] = "backlinks" /\ in_links'[t] = TRUE /\ Alone(t) /\ LocalShape'
    BY <1>1, <1>5 DEF LocalShape, Alone, Same, Points
<1>15. Intact(n, l)'
    <2>1. Listing(n, l) = links[n][l] /\ Cardinality(links[n][l]) = c
        BY <1>1, <1>2, <1>6, AppendedIntact DEF Intact
    <2>2. node[t] \notin links[n][l]
        BY <1>1, <1>2, <1>3, <1>4, <1>5 DEF BacklinksInOrder
    <2>3. IsFiniteSet(links[n][l])
        BY <1>4, NodesFinite
    <2>4. Cardinality(links[n][l] \cup {node[t]}) = c + 1
        BY <2>1, <2>2, <2>3, FS_AddElement
    <2>5. {slots[n][l][i] : i \in 1..k} = {slots[n][l][i] : i \in 1..c} \cup {slots[n][l][k]}
        <3>1. 1..k = (1..c) \cup {k}
            BY <1>7
        <3> QED
            BY <3>1
    <2>6. {slots[n][l][i] : i \in 1..k} = links[n][l] \cup {node[t]}
        BY <1>6, <1>7, <2>1, <2>5 DEF Listing
    <2>7. Listing(n, l)' = {slots[n][l][i] : i \in 1..k}
        BY <1>1, <1>10 DEF Listing
    <2>8. Cardinality(links'[n][l]) = count'[n][l]
        BY <1>7, <1>10, <1>11, <2>4
    <2> QED
        BY <1>11, <2>6, <2>7, <2>8 DEF Intact
<1>16. ThreadInOrder(t)'
    <2>1. NodeInOrder(t)'
        BY <1>1, <1>3, <1>5, <1>14 DEF NodeInOrder, Searching, Publishing, Changing
    <2>2. FoundInOrder(t)'
        <3>1. \A m, j : Sound(m, j)' <=> Sound(m, j)
            BY <1>1 DEF Sound
        <3>2. TopOf(t)' = TopOf(t)
            BY <1>1 DEF TopOf
        <3> QED
            BY <1>1, <1>3, <1>5, <1>14, <3>1, <3>2 DEF FoundInOrder
    <2>3. ChangeInOrder(t)'
        BY <1>14 DEF ChangeInOrder, Changing
    <2>4. BacklinksInOrder(t)'
        <3> SUFFICES ASSUME NEW j \in Levels, NEW m \in found[t][j],
                            node[t] \in links'[m][j]
                     PROVE  j <= l /\ (j = l => m \notin pending[t])
            BY <1>1, <1>2, <1>14 DEF BacklinksInOrder, Changing
        <3>1. CASE m = n /\ j = l
            BY <1>4, <3>1 DEF Levels
        <3>2. CASE m # n \/ j # l
            <4>1. m \in Nodes
                <5>1. Sound(m, j)
                    BY <1>3, <1>5 DEF FoundInOrder
                <5> QED
                    BY <1>5, <5>1 DEF GraphShape, Sound
            <4>2. node[t] \in links[m][j]
                BY <1>12, <3>2, <4>1 DEF Frozen
            <4> QED
                BY <1>1, <1>2, <1>3, <1>5, <4>2 DEF BacklinksInOrder
        <3> QED
            BY <3>1, <3>2
    <2> QED
        BY <2>1, <2>2, <2>3, <2>4 DEF ThreadInOrder
<1>17. \A i \in 1..Capacity(l) : i <= count'[n][l] => slots'[n][l][i] # NoNode
    <2>1. \A i \in 1..Capacity(l) : i <= c => slots[n][l][i] # NoNode
        BY <1>4, <1>5, <1>6 DEF SlotsInOrder
    <2>2. \A i \in 1..Capacity(l) : i <= k => i <= c \/ i = k
        BY <1>7, <1>8
    <2>3. node[t] # NoNode
        BY <1>4 DEF Nodes, NoNode
    <2> QED
        BY <1>1, <1>7, <1>10, <2>1, <2>2, <2>3
<1>18. ListStored(t, n, l)
    <2>1. count'[n][l] \in 0..Capacity(l) /\ count'[n][l] # 0
        BY <1>7, <1>8, <1>10
    <2>2. /\ stripe' \in [0..(Stripes - 1) -> Linkers \cup {None}]
          /\ \A s \in 0..(Stripes - 1), u \in Linkers \ {t} : stripe[s] = u => stripe'[s] = u
        BY <1>1, <1>3, StripeUnlocked
    <2>3. DOMAIN slots' = Nodes
        BY <1>1, <1>5 DEF GraphShape
    <2> QED
        BY <1>1, <1>9, <1>10, <1>11, <1>12, <1>13, <1>17, <2>1, <2>2, <2>3 DEF ListStored
<1>19. node'[t] = node[t] /\ ent'[t] = ent[t] /\ list'[t] = n /\ lev'[t] = l
    BY <1>1, <1>2
<1> QED
    BY <1>2, <1>3, <1>4, <1>14, <1>15, <1>16, <1>18, <1>19, StoreStep DEF Publishing
\* shrink_with: the next of the selected ids over the slots of the list.
LEMMA ShrinkSlotStep ==
    ASSUME IndInv, NEW t \in Linkers, ShrinkSlot(t)
    PROVE  IndInv'
<1>1. /\ pc[t] = "shrink" /\ word[t] <= Len(rewrite[t])
      /\ slots' = [slots EXCEPT ![list[t]][lev[t]][word[t]] = rewrite[t][word[t]]]
      /\ word' = [word EXCEPT ![t] = @ + 1]
      /\ UNCHANGED <<level, count, entry, links, top_mutex, stripe, todo, pc, node, ent, lev,
                     found, chosen, pending, in_links, list, rewrite, at, complete>>
    BY DEF ShrinkSlot, locks
<1>2. PICK n, l, r : n = list[t] /\ l = lev[t] /\ r = rewrite[t]
    OBVIOUS
<1>3. pc[t] \in Changing /\ pc[t] \in Publishing
    BY <1>1 DEF Changing, Publishing
<1>4. /\ n \in Nodes /\ l \in Levels /\ node[t] \in Nodes
      /\ n \in found[t][l] \ pending[t] /\ stripe[StripeOf(n)] = t
      /\ \A m \in links[n][l] \cup {node[t]} : m \in Nodes /\ m # n /\ Sound(m, l)
    BY <1>2, <1>3, ChangedList
<1>5. /\ GraphShape /\ LocalShape /\ SlotsInOrder
      /\ NodeInOrder(t) /\ FoundInOrder(t) /\ BacklinksInOrder(t) /\ ChangeInOrder(t)
    BY DEF IndInv, ThreadInOrder
<1>6. Capacity(l) \in Nat /\ count[n][l] \in 0..Capacity(l)
    BY <1>4, <1>5, CapacityEnough DEF GraphShape
<1>7. PICK k \in Nat : k = word[t]
    BY <1>5 DEF LocalShape
<1>8. /\ r \in Seq(links[n][l] \cup {node[t]}) /\ Len(r) \in 1..Capacity(l)
      /\ \A i, j \in 1..Len(r) : r[i] = r[j] => i = j
      /\ k \in 1..(Len(r) + 1) /\ \A i \in 1..(k - 1) : slots[n][l][i] = r[i]
    BY <1>1, <1>2, <1>5, <1>7 DEF ChangeInOrder
<1>9. k \in 1..Len(r) /\ k \in 1..Capacity(l) /\ r[k] \in links[n][l] \cup {node[t]}
    <2>1. k <= Len(r)
        BY <1>1, <1>2, <1>7
    <2>2. k \in 1..Len(r) /\ k \in 1..Capacity(l)
        BY <1>6, <1>8, <2>1
    <2> QED
        BY <1>8, <2>2
<1>10. r[k] \in Nodes /\ r[k] # NoNode
    BY <1>4, <1>9 DEF Nodes, NoNode
<1>11. DOMAIN slots = Nodes /\ DOMAIN slots[n] = Levels
       /\ slots[n][l] \in [1..Capacity(l) -> Nodes \cup {NoNode}]
    BY <1>4, <1>5 DEF GraphShape
<1>12. /\ DOMAIN slots' = Nodes /\ DOMAIN slots'[n] = Levels
       /\ slots'[n][l] = [slots[n][l] EXCEPT ![k] = r[k]]
       /\ \A m \in Nodes : m # n => slots'[m] = slots[m]
       /\ \A j \in Levels : j # l => slots'[n][j] = slots[n][j]
    BY <1>1, <1>2, <1>4, <1>7, <1>11
<1>13. /\ slots'[n][l] \in [1..Capacity(l) -> Nodes \cup {NoNode}]
       /\ slots'[n][l][k] = r[k]
       /\ \A i \in 1..Capacity(l) : i # k => slots'[n][l][i] = slots[n][l][i]
    BY <1>9, <1>10, <1>11, <1>12
<1>14. \A m \in Nodes, j \in Levels : m # n \/ j # l => Frozen(m, j)
    BY <1>1, <1>12 DEF Frozen
<1>15. \A m \in Nodes : /\ DOMAIN count'[m] = Levels
                        /\ DOMAIN slots'[m] = Levels
                        /\ DOMAIN links'[m] = Levels
    BY <1>1, <1>5, <1>12 DEF GraphShape
<1>16. word'[t] = k + 1 /\ Alone(t) /\ LocalShape'
    BY <1>1, <1>5, <1>7 DEF LocalShape, Alone, Same
<1>17. ThreadInOrder(t)'
    <2>1. NodeInOrder(t)'
        BY <1>1, <1>5 DEF NodeInOrder
    <2>2. FoundInOrder(t)'
        <3>1. \A m, j : Sound(m, j)' <=> Sound(m, j)
            BY <1>1 DEF Sound
        <3>2. TopOf(t)' = TopOf(t)
            BY <1>1 DEF TopOf
        <3> QED
            BY <1>1, <1>5, <3>1, <3>2 DEF FoundInOrder
    <2>3. ChangeInOrder(t)'
        <3>1. k + 1 \in 1..(Len(r) + 1)
            BY <1>9
        <3>2. \A i \in 1..((k + 1) - 1) : slots'[n][l][i] = r[i]
            <4>0. (k + 1) - 1 = k
                OBVIOUS
            <4> SUFFICES ASSUME NEW i \in 1..k
                         PROVE  slots'[n][l][i] = r[i]
                BY <4>0
            <4>1. CASE i = k
                BY <1>13, <4>1
            <4>2. CASE i # k
                <5>1. i \in 1..(k - 1) /\ i \in 1..Capacity(l)
                    BY <1>6, <1>9, <4>2
                <5> QED
                    BY <1>8, <1>13, <4>2, <5>1
            <4> QED
                BY <4>1, <4>2
        <3> QED
            BY <1>1, <1>2, <1>4, <1>8, <1>16, <3>1, <3>2 DEF ChangeInOrder
    <2>4. BacklinksInOrder(t)'
        BY <1>1, <1>5 DEF BacklinksInOrder
    <2> QED
        BY <2>1, <2>2, <2>3, <2>4 DEF ThreadInOrder
<1>18. \A i \in 1..Capacity(l) : i <= count'[n][l] => slots'[n][l][i] # NoNode
    <2>1. \A i \in 1..Capacity(l) : i <= count[n][l] => slots[n][l][i] # NoNode
        BY <1>4, <1>5 DEF SlotsInOrder
    <2> QED
        BY <1>1, <1>10, <1>13, <2>1
<1>19. ListStored(t, n, l)
    <2>1. /\ DOMAIN count' = Nodes /\ DOMAIN links' = Nodes
          /\ stripe' \in [0..(Stripes - 1) -> Linkers \cup {None}]
        BY <1>1, <1>5 DEF GraphShape
    <2>2. /\ count'[n][l] \in 0..Capacity(l) /\ (count'[n][l] = 0 => count[n][l] = 0)
          /\ links'[n][l] \subseteq links[n][l] \cup {node[t]}
        BY <1>1, <1>6
    <2>3. \A i \in 1..Capacity(l) : slots'[n][l][i] # slots[n][l][i] =>
              slots'[n][l][i] \in links[n][l] \cup {node[t]}
        BY <1>9, <1>13
    <2>4. \A s \in 0..(Stripes - 1), u \in Linkers \ {t} : stripe[s] = u => stripe'[s] = u
        BY <1>1
    <2> QED
        BY <1>1, <1>12, <1>13, <1>14, <1>15, <1>18, <2>1, <2>2, <2>3, <2>4 DEF ListStored
<1>20. /\ node'[t] = node[t] /\ ent'[t] = ent[t] /\ list'[t] = n /\ lev'[t] = l
       /\ pc'[t] = "shrink" /\ pc'[t] \in Publishing
    BY <1>1, <1>2, <1>3
<1> QED
    BY <1>2, <1>3, <1>4, <1>16, <1>17, <1>19, <1>20, StoreStep

\* shrink_with: the count, when all ids are stored.
LEMMA ShrinkCountStep ==
    ASSUME IndInv, NEW t \in Linkers, ShrinkCount(t)
    PROVE  IndInv'
<1>1. PICK n, l, r, c, K : /\ n = list[t] /\ l = lev[t] /\ r = rewrite[t]
                           /\ c = Len(rewrite[t])
                           /\ K = {rewrite[t][i] : i \in DOMAIN rewrite[t]}
    OBVIOUS
<1>2. /\ pc[t] = "shrink" /\ word[t] > c
      /\ count' = [count EXCEPT ![n][l] = c]
      /\ links' = [links EXCEPT ![n][l] = K]
      /\ in_links' = [in_links EXCEPT ![t] = @ \/ node[t] \in K]
      /\ UnlockStripe(t)
      /\ pc' = [pc EXCEPT ![t] = "backlinks"]
      /\ UNCHANGED <<level, slots, entry, top_mutex, todo, node, ent, lev, found,
                     chosen, pending, list, word, rewrite, at, complete>>
    BY <1>1 DEF ShrinkCount, Goto
<1>3. pc[t] \in Changing /\ pc[t] \in Publishing
    BY <1>2 DEF Changing, Publishing
<1>4. /\ n \in Nodes /\ l \in Levels /\ node[t] \in Nodes
      /\ n \in found[t][l] \ pending[t]
      /\ \A m \in links[n][l] \cup {node[t]} : m \in Nodes /\ m # n /\ Sound(m, l)
    BY <1>1, <1>3, ChangedList
<1>5. /\ GraphShape /\ LocalShape /\ SlotsInOrder
      /\ NodeInOrder(t) /\ FoundInOrder(t) /\ BacklinksInOrder(t) /\ ChangeInOrder(t)
    BY DEF IndInv, ThreadInOrder
<1>6. Capacity(l) \in Nat
    BY <1>4, CapacityEnough
<1>7. /\ r \in Seq(links[n][l] \cup {node[t]}) /\ c \in 1..Capacity(l) /\ c = Len(r)
      /\ \A i, j \in 1..c : r[i] = r[j] => i = j
      /\ word[t] \in 1..(c + 1) /\ \A i \in 1..(word[t] - 1) : slots[n][l][i] = r[i]
    BY <1>1, <1>2, <1>5 DEF ChangeInOrder
<1>8. \A i \in 1..c : slots[n][l][i] = r[i]
    <2>1. word[t] = c + 1
        BY <1>2, <1>7
    <2> QED
        BY <1>7, <2>1
<1>9. /\ K = {r[i] : i \in 1..c} /\ K \subseteq links[n][l] \cup {node[t]}
      /\ K \subseteq Nodes
    <2>1. DOMAIN r = 1..c
        BY <1>7
    <2>2. K = {r[i] : i \in 1..c}
        BY <1>1, <2>1
    <2>3. K \subseteq links[n][l] \cup {node[t]}
        BY <1>7, <2>2
    <2> QED
        BY <1>4, <2>2, <2>3
<1>10. /\ DOMAIN count = Nodes /\ DOMAIN count[n] = Levels
       /\ DOMAIN links = Nodes /\ DOMAIN links[n] = Levels
       /\ slots[n][l] \in [1..Capacity(l) -> Nodes \cup {NoNode}]
    BY <1>4, <1>5 DEF GraphShape
<1>11. /\ DOMAIN count' = Nodes /\ DOMAIN count'[n] = Levels /\ count'[n][l] = c
       /\ \A m \in Nodes : m # n => count'[m] = count[m]
       /\ \A j \in Levels : j # l => count'[n][j] = count[n][j]
    BY <1>2, <1>4, <1>10
<1>12. /\ DOMAIN links' = Nodes /\ DOMAIN links'[n] = Levels /\ links'[n][l] = K
       /\ \A m \in Nodes : m # n => links'[m] = links[m]
       /\ \A j \in Levels : j # l => links'[n][j] = links[n][j]
    BY <1>2, <1>4, <1>10
<1>13. \A m \in Nodes, j \in Levels : m # n \/ j # l => Frozen(m, j)
    BY <1>2, <1>11, <1>12 DEF Frozen
<1>14. \A m \in Nodes : /\ DOMAIN count'[m] = Levels
                        /\ DOMAIN slots'[m] = Levels
                        /\ DOMAIN links'[m] = Levels
    BY <1>2, <1>5, <1>11, <1>12 DEF GraphShape
<1>15. /\ pc'[t] = "backlinks" /\ Alone(t) /\ LocalShape'
       /\ (in_links[t] \/ node[t] \in K) => in_links'[t]
    BY <1>2, <1>5 DEF LocalShape, Alone, Same, Points
<1>16. Intact(n, l)'
    <2>1. Cardinality({r[i] : i \in 1..c}) = c
        BY <1>6, <1>7, RangeCounted
    <2>2. {slots[n][l][i] : i \in 1..c} = {r[i] : i \in 1..c}
        BY <1>8
    <2>3. Listing(n, l)' = {slots[n][l][i] : i \in 1..c}
        BY <1>2, <1>11 DEF Listing
    <2>4. Cardinality(links'[n][l]) = count'[n][l]
        BY <1>9, <1>11, <1>12, <2>1
    <2> QED
        BY <1>9, <1>12, <2>2, <2>3, <2>4 DEF Intact
<1>17. ThreadInOrder(t)'
    <2>1. NodeInOrder(t)'
        BY <1>2, <1>3, <1>5, <1>15 DEF NodeInOrder, Searching, Publishing, Changing
    <2>2. FoundInOrder(t)'
        <3>1. \A m, j : Sound(m, j)' <=> Sound(m, j)
            BY <1>2 DEF Sound
        <3>2. TopOf(t)' = TopOf(t)
            BY <1>2 DEF TopOf
        <3> QED
            BY <1>2, <1>3, <1>5, <1>15, <3>1, <3>2 DEF FoundInOrder
    <2>3. ChangeInOrder(t)'
        BY <1>15 DEF ChangeInOrder, Changing
    <2>4. BacklinksInOrder(t)'
        <3> SUFFICES ASSUME NEW j \in Levels, NEW m \in found[t][j],
                            node[t] \in links'[m][j]
                     PROVE  j <= l /\ (j = l => m \notin pending[t] /\ in_links'[t])
            BY <1>1, <1>2, <1>15 DEF BacklinksInOrder, Changing
        <3>1. CASE m = n /\ j = l
            BY <1>4, <1>12, <1>15, <3>1 DEF Levels
        <3>2. CASE m # n \/ j # l
            <4>1. m \in Nodes
                <5>1. Sound(m, j)
                    BY <1>3, <1>5 DEF FoundInOrder
                <5> QED
                    BY <1>5, <5>1 DEF GraphShape, Sound
            <4>2. node[t] \in links[m][j]
                BY <1>13, <3>2, <4>1 DEF Frozen
            <4>3. j <= l /\ (j = l => m \notin pending[t] /\ in_links[t])
                BY <1>1, <1>2, <1>3, <1>5, <4>2 DEF BacklinksInOrder
            <4> QED
                BY <1>15, <4>3
        <3> QED
            BY <3>1, <3>2
    <2> QED
        BY <2>1, <2>2, <2>3, <2>4 DEF ThreadInOrder
<1>18. \A i \in 1..Capacity(l) : i <= count'[n][l] => slots'[n][l][i] # NoNode
    <2>1. \A i \in 1..Capacity(l) : i <= c => i \in 1..c
        BY <1>6, <1>7
    <2>2. \A i \in 1..c : slots[n][l][i] \in K
        BY <1>8, <1>9
    <2>3. NoNode \notin K
        BY <1>9 DEF Nodes, NoNode
    <2> QED
        BY <1>2, <1>11, <2>1, <2>2, <2>3
<1>19. ListStored(t, n, l)
    <2>1. count'[n][l] \in 0..Capacity(l) /\ count'[n][l] # 0
        BY <1>6, <1>7, <1>11
    <2>2. /\ stripe' \in [0..(Stripes - 1) -> Linkers \cup {None}]
          /\ \A s \in 0..(Stripes - 1), u \in Linkers \ {t} : stripe[s] = u => stripe'[s] = u
        BY <1>2, <1>3, StripeUnlocked
    <2>3. DOMAIN slots' = Nodes
        BY <1>2, <1>5 DEF GraphShape
    <2> QED
        BY <1>2, <1>9, <1>10, <1>11, <1>12, <1>13, <1>14, <1>18, <2>1, <2>2, <2>3 DEF ListStored
<1>20. node'[t] = node[t] /\ ent'[t] = ent[t] /\ list'[t] = n /\ lev'[t] = l
    BY <1>1, <1>2
<1> QED
    BY <1>1, <1>3, <1>4, <1>15, <1>16, <1>17, <1>19, <1>20, StoreStep DEF Publishing
\* A node that is not complete has empty lists.
LEMMA BlankLists ==
    ASSUME IndInv, NEW n \in Nodes \ complete, NEW l \in Levels
    PROVE  /\ count[n][l] = 0 /\ links[n][l] = {}
           /\ \A i \in 1..Capacity(l) : slots[n][l][i] = NoNode
<1>1. GraphShape /\ SlotsInOrder
    BY DEF IndInv
<1>2. \A i \in 1..Capacity(l) : slots[n][l][i] = NoNode
    BY <1>1 DEF SlotsInOrder, Sound
<1>3. links[n][l] = {}
    BY <1>1 DEF SlotsInOrder, Sound
<1>4. count[n][l] \in 0..Capacity(l) /\ Capacity(l) \in Nat
    BY <1>1, CapacityEnough DEF GraphShape
<1>5. \A i \in 1..Capacity(l) : ~(i <= count[n][l])
    BY <1>1, <1>2 DEF SlotsInOrder
<1>6. count[n][l] = 0
    <2> SUFFICES ASSUME count[n][l] # 0 PROVE FALSE
        OBVIOUS
    <2>1. count[n][l] \in 1..Capacity(l) /\ count[n][l] <= count[n][l]
        BY <1>4
    <2> QED
        BY <1>5, <2>1
<1> QED
    BY <1>2, <1>3, <1>6

\* What phase 2 of publish() stores for one level.
OwnStored(n, l, S) ==
    /\ S # {} /\ S \subseteq complete \ {n} /\ \A m \in S : Sound(m, l)
    /\ count'[n][l] = Cardinality(S) /\ Cardinality(S) \in 1..Capacity(l)
    /\ links'[n][l] = S
    /\ slots'[n][l] \in [1..Capacity(l) -> Nodes \cup {NoNode}]
    /\ \A i \in 1..Capacity(l) :
          /\ i <= Cardinality(S) => slots'[n][l][i] \in S
          /\ ~(i <= Cardinality(S)) => slots'[n][l][i] = NoNode
    /\ {slots'[n][l][i] : i \in 1..Cardinality(S)} = S

\* The lists of the node on the levels it shares with the graph get the chosen
\* neighbours; the others stay empty, and no other list changes.
LEMMA OwnLists ==
    ASSUME IndInv, NEW t \in Linkers, StoreOwnLists(t)
    PROVE  /\ node[t] \in Nodes \ complete /\ TopOf(t) \in Levels
           /\ TopOf(t) <= level[node[t]] /\ ent[t].level \in Levels
           /\ DOMAIN count' = Nodes /\ DOMAIN slots' = Nodes /\ DOMAIN links' = Nodes
           /\ \A m \in Nodes : /\ DOMAIN count'[m] = Levels
                               /\ DOMAIN slots'[m] = Levels
                               /\ DOMAIN links'[m] = Levels
           /\ \A m \in Nodes, l \in Levels : m # node[t] \/ ~(l <= TopOf(t)) => Frozen(m, l)
           /\ \A l \in Levels : l <= TopOf(t) => OwnStored(node[t], l, chosen[t][l])
<1>1. PICK n : n = node[t]
    OBVIOUS
<1>2. /\ pc[t] = "own"
      /\ slots' = [slots EXCEPT ![n] =
            [l \in Levels |-> IF l <= TopOf(t) THEN Overwrite(@[l], Listed(chosen[t][l]))
                              ELSE @[l]]]
      /\ count' = [count EXCEPT ![n] =
            [l \in Levels |-> IF l <= TopOf(t) THEN Len(Listed(chosen[t][l])) ELSE @[l]]]
      /\ links' = [links EXCEPT ![n] =
            [l \in Levels |-> IF l <= TopOf(t) THEN chosen[t][l] ELSE @[l]]]
    BY <1>1 DEF StoreOwnLists
<1>3. GraphShape /\ LocalShape /\ NodeInOrder(t) /\ FoundInOrder(t)
    BY DEF IndInv, ThreadInOrder
<1>4. n \in Nodes \ complete
    BY <1>1, <1>2, <1>3 DEF NodeInOrder, Searching
<1>5. level[n] \in Levels /\ ent[t].level \in Levels
    BY <1>3, <1>4 DEF GraphShape, LocalShape
<1>6. TopOf(t) \in Levels /\ TopOf(t) <= level[n]
    BY <1>1, <1>5 DEF TopOf, Smaller, Levels
<1>7. DOMAIN count = Nodes /\ DOMAIN slots = Nodes /\ DOMAIN links = Nodes
    BY <1>3 DEF GraphShape
<1>8. /\ DOMAIN count' = Nodes /\ DOMAIN slots' = Nodes /\ DOMAIN links' = Nodes
      /\ \A m \in Nodes : m # n => /\ count'[m] = count[m]
                                   /\ slots'[m] = slots[m]
                                   /\ links'[m] = links[m]
    BY <1>2, <1>7
<1>9. /\ slots'[n] = [l \in Levels |-> IF l <= TopOf(t)
                                       THEN Overwrite(slots[n][l], Listed(chosen[t][l]))
                                       ELSE slots[n][l]]
      /\ count'[n] = [l \in Levels |-> IF l <= TopOf(t) THEN Len(Listed(chosen[t][l]))
                                       ELSE count[n][l]]
      /\ links'[n] = [l \in Levels |-> IF l <= TopOf(t) THEN chosen[t][l] ELSE links[n][l]]
    BY <1>2, <1>4, <1>7
<1>10. \A m \in Nodes : /\ DOMAIN count'[m] = Levels
                        /\ DOMAIN slots'[m] = Levels
                        /\ DOMAIN links'[m] = Levels
    <2> TAKE m \in Nodes
    <2>1. CASE m = n
        BY <1>9, <2>1
    <2>2. CASE m # n
        BY <1>3, <1>8, <2>2 DEF GraphShape
    <2> QED
        BY <2>1, <2>2
<1>11. \A m \in Nodes, l \in Levels : m # n \/ ~(l <= TopOf(t)) => Frozen(m, l)
    BY <1>8, <1>9 DEF Frozen
<1>12. ASSUME NEW l \in Levels, l <= TopOf(t)
       PROVE  OwnStored(n, l, chosen[t][l])
    <2>1. PICK S, f : S = chosen[t][l] /\ f = Listed(chosen[t][l])
        OBVIOUS
    <2>2. /\ S # {} /\ Cardinality(S) <= M /\ S \subseteq found[t][l]
          /\ \A m \in found[t][l] : Sound(m, l) /\ m # n
        BY <1>1, <1>2, <1>3, <1>12, <2>1 DEF FoundInOrder
    <2>3. S \subseteq complete \ {n} /\ \A m \in S : Sound(m, l)
        BY <2>2 DEF Sound
    <2>4. S \in SUBSET Nodes
        BY <1>3, <2>3 DEF GraphShape
    <2>5. PICK c \in Nat : c = Cardinality(S)
        BY <2>4, NodesFinite
    <2>6. c # 0
        BY <2>2, <2>4, <2>5, NodesFinite, FS_EmptySet
    <2>7. c <= Capacity(l) /\ Capacity(l) \in Nat
        BY <2>2, <2>5, CapacityEnough, HnswLinkAssumption
    <2>8. c \in 1..Capacity(l)
        BY <2>6, <2>7
    <2>9. f \in Seq(S) /\ Len(f) = c /\ DOMAIN f = 1..c /\ {f[i] : i \in 1..c} = S
        BY <2>1, <2>4, <2>5, ListedOnce
    <2>10. /\ slots'[n][l] = Overwrite(slots[n][l], f) /\ count'[n][l] = c
           /\ links'[n][l] = S
        BY <1>9, <1>12, <2>1, <2>9
    <2>11. /\ slots[n][l] \in [1..Capacity(l) -> Nodes \cup {NoNode}]
           /\ \A i \in 1..Capacity(l) : slots[n][l][i] = NoNode
        BY <1>3, <1>4, BlankLists DEF GraphShape
    <2>12. slots'[n][l] = [i \in 1..Capacity(l) |-> IF i <= c THEN f[i] ELSE slots[n][l][i]]
        BY <2>9, <2>10, <2>11 DEF Overwrite
    <2>13. \A i \in 1..Capacity(l) :
               /\ i <= c => slots'[n][l][i] = f[i] /\ f[i] \in S
               /\ ~(i <= c) => slots'[n][l][i] = NoNode
        BY <2>7, <2>9, <2>11, <2>12
    <2>14. slots'[n][l] \in [1..Capacity(l) -> Nodes \cup {NoNode}]
        BY <2>4, <2>12, <2>13
    <2>15. {slots'[n][l][i] : i \in 1..c} = S
        <3>1. \A i \in 1..c : slots'[n][l][i] = f[i]
            BY <2>7, <2>13
        <3> QED
            BY <2>9, <3>1
    <2> QED
        BY <2>1, <2>2, <2>3, <2>5, <2>8, <2>10, <2>13, <2>14, <2>15 DEF OwnStored
<1> QED
    BY <1>1, <1>4, <1>5, <1>6, <1>8, <1>10, <1>11, <1>12
\* publish(), phase 2.
LEMMA StoreOwnListsStep ==
    ASSUME IndInv, NEW t \in Linkers, StoreOwnLists(t)
    PROVE  IndInv'
<1>1. PICK n, T : n = node[t] /\ T = TopOf(t)
    OBVIOUS
<1>2. /\ pc[t] = "own" /\ complete' = complete \cup {n}
      /\ pending' = [pending EXCEPT ![t] = chosen[t][0]]
      /\ pc' = [pc EXCEPT ![t] = "backlinks"]
      /\ UNCHANGED <<level, entry, top_mutex, stripe, todo, node, ent, lev, found, chosen,
                     in_links, list, word, rewrite, at>>
    BY <1>1 DEF StoreOwnLists, Goto, locks
<1>3. /\ n \in Nodes \ complete /\ T \in Levels /\ T <= level[n] /\ ent[t].level \in Levels
      /\ DOMAIN count' = Nodes /\ DOMAIN slots' = Nodes /\ DOMAIN links' = Nodes
      /\ \A m \in Nodes : /\ DOMAIN count'[m] = Levels
                          /\ DOMAIN slots'[m] = Levels
                          /\ DOMAIN links'[m] = Levels
      /\ \A m \in Nodes, l \in Levels : m # n \/ ~(l <= T) => Frozen(m, l)
      /\ \A l \in Levels : l <= T => OwnStored(n, l, chosen[t][l])
    BY <1>1, OwnLists
<1>4. /\ GraphShape /\ LocalShape /\ SlotsInOrder /\ ListsInOrder /\ EntryInOrder /\ OneTop
      /\ NodeInOrder(t) /\ FoundInOrder(t)
    BY DEF IndInv, ThreadInOrder
<1>5. \A m, l : Sound(m, l) => Sound(m, l)'
    BY <1>2 DEF Sound
<1>6. \A l \in Levels : l <= T => Sound(n, l)'
    <2>1. level[n] \in Levels
        BY <1>3, <1>4 DEF GraphShape
    <2>2. \A l \in Levels : l <= T => level[n] >= l
        BY <1>3, <2>1 DEF Levels
    <2> QED
        BY <1>2, <2>2 DEF Sound
<1>7. 0 \in Levels /\ lev[t] = 0 /\ chosen[t][0] \subseteq found[t][0]
    BY <1>2, <1>4, HnswLinkAssumption DEF FoundInOrder, Levels
<1>8. chosen[t][0] \in SUBSET Nodes
    <2>1. \A m \in found[t][0] : Sound(m, 0)
        BY <1>2, <1>4, <1>7 DEF FoundInOrder
    <2> QED
        BY <1>4, <1>7, <2>1 DEF Sound, GraphShape
<1>9. pc'[t] = "backlinks" /\ pending'[t] = chosen[t][0] /\ Alone(t) /\ LocalShape'
    BY <1>2, <1>4, <1>8 DEF LocalShape, Alone, Same, Points
<1>10. GraphShape'
    <2>1. \A m \in Nodes, l \in Levels :
              /\ count'[m][l] \in 0..Capacity(l)
              /\ slots'[m][l] \in [1..Capacity(l) -> Nodes \cup {NoNode}]
              /\ links'[m][l] \subseteq Nodes
        <3> TAKE m \in Nodes, l \in Levels
        <3>1. CASE m # n \/ ~(l <= T)
            BY <1>3, <1>4, <3>1 DEF GraphShape, Frozen
        <3>2. CASE m = n /\ l <= T
            <4>1. OwnStored(n, l, chosen[t][l])
                BY <1>3, <3>2
            <4>2. complete \subseteq Nodes /\ Capacity(l) \in Nat
                BY <1>4, CapacityEnough DEF GraphShape
            <4>3. count'[n][l] \in 1..Capacity(l)
                BY <4>1 DEF OwnStored
            <4>4. count'[n][l] \in 0..Capacity(l)
                BY <4>2, <4>3
            <4> QED
                BY <3>2, <4>1, <4>2, <4>4 DEF OwnStored
        <3> QED
            BY <3>1, <3>2
    <2>2. n \notin todo
        BY <1>1, <1>2, <1>4 DEF NodeInOrder
    <2> QED
        BY <1>2, <1>3, <1>4, <2>1, <2>2 DEF GraphShape
<1>11. SlotsInOrder'
    <2> SUFFICES ASSUME NEW m \in Nodes, NEW k \in Levels
                 PROVE  /\ \A i \in 1..Capacity(k) :
                              /\ i <= count'[m][k] => slots'[m][k][i] # NoNode
                              /\ slots'[m][k][i] # NoNode =>
                                    /\ Sound(m, k)' /\ slots'[m][k][i] # m
                                    /\ Sound(slots[m][k][i], k)'
                        /\ \A x \in links'[m][k] : Sound(m, k)' /\ x # m /\ Sound(x, k)'
        BY DEF SlotsInOrder
    <2>1. CASE m # n \/ ~(k <= T)
        <3>1. Frozen(m, k)
            BY <1>3, <2>1
        <3>2. ASSUME NEW i \in 1..Capacity(k), slots'[m][k][i] # NoNode
              PROVE  /\ Sound(m, k)' /\ slots'[m][k][i] # m
                     /\ Sound(slots[m][k][i], k)'
            <4>1. PICK x : x = slots[m][k][i]
                OBVIOUS
            <4>2. slots'[m][k][i] = x
                BY <3>1, <4>1 DEF Frozen
            <4>3. Sound(m, k) /\ x # m /\ Sound(x, k)
                BY <1>4, <3>2, <4>1, <4>2 DEF SlotsInOrder
            <4> QED
                BY <1>5, <4>2, <4>3 DEF Sound
        <3> QED
            BY <1>4, <1>5, <3>1, <3>2 DEF SlotsInOrder, Frozen
    <2>2. CASE m = n /\ k <= T
        <3>1. PICK S : S = chosen[t][k]
            OBVIOUS
        <3>2. OwnStored(n, k, S)
            BY <1>3, <2>2, <3>1
        <3>3. /\ \A x \in S : x # n /\ Sound(x, k)' /\ x # NoNode
              /\ Sound(n, k)'
            BY <1>4, <1>5, <1>6, <2>2, <3>2 DEF OwnStored, GraphShape, Nodes, NoNode
        <3>4. ASSUME NEW i \in 1..Capacity(k)
              PROVE  /\ i <= count'[n][k] => slots'[n][k][i] # NoNode
                     /\ slots'[n][k][i] # NoNode =>
                           slots'[n][k][i] # n /\ Sound(slots[n][k][i], k)'
            <4>1. PICK x : x = slots'[n][k][i]
                OBVIOUS
            <4>2. (i <= count'[n][k] => x \in S) /\ (x = NoNode \/ x \in S)
                BY <3>2, <4>1 DEF OwnStored
            <4>3. x \in S => x # n /\ x # NoNode /\ x \in complete' /\ level'[x] >= k
                BY <3>3 DEF Sound
            <4> QED
                BY <4>1, <4>2, <4>3 DEF Sound
        <3>5. links'[n][k] = S
            BY <3>2 DEF OwnStored
        <3> QED
            BY <2>2, <3>3, <3>4, <3>5
    <2> QED
        BY <2>1, <2>2
<1>12. ListsInOrder'
    <2> SUFFICES ASSUME NEW m \in Nodes, NEW k \in Levels,
                        ~ \E u \in Linkers : pc'[u] = "shrink" /\ list'[u] = m /\ lev'[u] = k
                 PROVE  Intact(m, k)'
        BY DEF ListsInOrder
    <2>1. CASE m # n \/ ~(k <= T)
        <3>1. ~ \E u \in Linkers : pc[u] = "shrink" /\ list[u] = m /\ lev[u] = k
            BY <1>2, <1>9 DEF Alone, Same
        <3>2. Intact(m, k) /\ Frozen(m, k)
            BY <1>3, <1>4, <2>1, <3>1 DEF ListsInOrder
        <3> QED
            BY <3>2 DEF Intact, Listing, Frozen
    <2>2. CASE m = n /\ k <= T
        <3>1. PICK S : S = chosen[t][k]
            OBVIOUS
        <3>2. OwnStored(n, k, S)
            BY <1>3, <2>2, <3>1
        <3>3. Listing(n, k)' = S
            BY <3>2 DEF OwnStored, Listing
        <3> QED
            BY <2>2, <3>2, <3>3 DEF OwnStored, Intact
    <2> QED
        BY <2>1, <2>2
<1>13. ThreadInOrder(t)'
    <2>1. NodeInOrder(t)'
        BY <1>1, <1>2, <1>4, <1>9 DEF NodeInOrder, Searching, Publishing, Changing
    <2>2. FoundInOrder(t)'
        <3>1. TopOf(t)' = TopOf(t)
            BY <1>2 DEF TopOf
        <3>2. /\ Sound(ent[t].id, ent[t].level) /\ lev[t] <= TopOf(t)
              /\ \A l \in Levels :
                    /\ \A m \in found[t][l] : Sound(m, l) /\ m # node[t]
                    /\ chosen[t][l] \subseteq found[t][l]
                    /\ Cardinality(chosen[t][l]) <= M
            BY <1>2, <1>4 DEF FoundInOrder
        <3>3. Sound(ent[t].id, ent[t].level)'
            BY <1>2, <3>2 DEF Sound
        <3> QED
            BY <1>2, <1>5, <1>7, <1>9, <3>1, <3>2, <3>3 DEF FoundInOrder
    <2>3. ChangeInOrder(t)'
        BY <1>9 DEF ChangeInOrder, Changing
    <2>4. BacklinksInOrder(t)'
        <3> SUFFICES ASSUME NEW l \in Levels, NEW m \in found[t][l], n \in links'[m][l]
                     PROVE  FALSE
            BY <1>1, <1>2 DEF BacklinksInOrder
        <3>1. Sound(m, l) /\ m # n
            BY <1>1, <1>2, <1>4 DEF FoundInOrder
        <3>2. m \in Nodes
            BY <1>4, <3>1 DEF Sound, GraphShape
        <3>3. n \in links[m][l]
            BY <1>3, <3>1, <3>2 DEF Frozen
        <3> QED
            BY <1>3, <1>4, <3>2, <3>3 DEF SlotsInOrder, Sound
    <2> QED
        BY <2>1, <2>2, <2>3, <2>4 DEF ThreadInOrder
<1>14. \A u \in Linkers : ThreadInOrder(u)'
    <2>1. \A m \in complete, l \in Levels : Frozen(m, l)
        BY <1>3, <1>4 DEF GraphShape
    <2>2. Confined(t)
        BY <1>1, <1>2, <2>1 DEF Confined
    <2>3. \A u \in Linkers : u # t => Same(u) /\ node'[u] = node[u]
        BY <1>9 DEF Alone, Same
    <2> QED
        BY <1>13, <2>2, <2>3, OtherThreads
<1>15. EntryInOrder'
    <2>1. \A u \in Linkers : (Above(u)' <=> Above(u))
        BY <1>2 DEF Above
    <2>2. \A u \in Linkers : pc'[u] \in {"find", "own"} \cup Publishing =>
              pc[u] \in {"find", "own"} \cup Publishing
        BY <1>2, <1>9 DEF Alone, Same
    <2>3. \A m \in complete' : level'[m] > entry'.level =>
              \E u \in Linkers : node'[u] = m /\ pc'[u] \in Publishing /\ Above(u)'
        <3> SUFFICES ASSUME NEW m \in complete', level[m] > entry.level
                     PROVE  \E u \in Linkers : node[u] = m /\ pc'[u] \in Publishing /\ Above(u)
            BY <1>2, <2>1
        <3>1. CASE m = n
            <4>1. ent[t].level <= entry.level /\ entry.level \in Levels /\ level[n] \in Levels
                BY <1>2, <1>3, <1>4 DEF EntryInOrder, GraphShape
            <4>2. level[n] > ent[t].level
                BY <1>3, <3>1, <4>1 DEF Levels
            <4> QED
                BY <1>1, <1>9, <3>1, <4>2 DEF Above, Publishing
        <3>2. CASE m # n
            <4>1. PICK u \in Linkers : node[u] = m /\ pc[u] \in Publishing /\ Above(u)
                BY <1>2, <1>4, <3>2 DEF EntryInOrder
            <4>2. u # t
                BY <1>1, <3>2, <4>1
            <4> QED
                BY <1>9, <4>1, <4>2 DEF Alone, Same
        <3> QED
            BY <3>1, <3>2
    <2>4. entry.id # NoNode
        BY <1>2, <1>4 DEF EntryInOrder
    <2> QED
        BY <1>2, <1>4, <2>1, <2>2, <2>3, <2>4 DEF EntryInOrder
<1>16. ASSUME NEW l \in Levels, NEW m \in complete, level[m] >= l,
              level[n] >= l, count'[n][l] = 0
       PROVE  FALSE
    <2>1. ~(l <= T)
        <3> SUFFICES ASSUME l <= T PROVE FALSE
            OBVIOUS
        <3>1. OwnStored(n, l, chosen[t][l]) /\ Capacity(l) \in Nat
            BY <1>3, CapacityEnough
        <3> QED
            BY <1>16, <3>1 DEF OwnStored
    <2>2. level[n] \in Levels /\ level[m] \in Levels /\ ent[t].level \in Levels
        BY <1>3, <1>4 DEF GraphShape
    <2>3. l > ent[t].level /\ level[n] > ent[t].level
        BY <1>1, <1>3, <1>16, <2>1, <2>2 DEF TopOf, Smaller, Levels
    <2>4. top_mutex = t /\ entry = ent[t]
        BY <1>1, <1>2, <1>4, <2>3 DEF EntryInOrder, Above
    <2>5. level[m] > entry.level
        BY <1>16, <2>2, <2>3, <2>4 DEF Levels
    <2>6. PICK u \in Linkers : pc[u] \in Publishing /\ Above(u)
        BY <1>4, <2>5 DEF EntryInOrder
    <2>7. u = t
        BY <1>4, <2>4, <2>6 DEF EntryInOrder
    <2> QED
        BY <1>2, <2>6, <2>7 DEF Publishing, Changing
<1>17. OneTop'
    <2> SUFFICES ASSUME NEW l \in Levels, NEW x \in complete', NEW y \in complete',
                        level[x] >= l, count'[x][l] = 0, level[y] >= l, count'[y][l] = 0
                 PROVE  x = y
        BY <1>2 DEF OneTop
    <2>1. CASE x \in complete /\ y \in complete
        <3>1. Frozen(x, l) /\ Frozen(y, l)
            BY <1>3, <1>4, <2>1 DEF GraphShape
        <3> QED
            BY <1>4, <2>1, <3>1 DEF OneTop, Frozen
    <2>2. CASE x = n /\ y \in complete
        BY <1>16, <2>2
    <2>3. CASE y = n /\ x \in complete
        BY <1>16, <2>3
    <2> QED
        BY <1>2, <2>1, <2>2, <2>3
<1>18. \A w \in Walkers : WalkInOrder(w)'
    <2>1. \A m \in complete, k \in Levels : slots'[m][k] = slots[m][k]
        BY <1>3, <1>4 DEF GraphShape, Frozen
    <2> SUFFICES ASSUME NEW w \in Walkers
                 PROVE  WalkInOrder(w)'
        OBVIOUS
    <2>2. WalkInOrder(w) /\ at'[w] = at[w]
        BY <1>2 DEF IndInv
    <2>3. at[w].node # NoNode => at[w].node \in complete /\ at[w].level \in Levels
        BY <2>2 DEF WalkInOrder, Sound
    <2> QED
        BY <1>5, <2>1, <2>2, <2>3 DEF WalkInOrder
<1> QED
    BY <1>9, <1>10, <1>11, <1>12, <1>14, <1>15, <1>17, <1>18 DEF IndInv
-----------------------------------------------------------------------------
(***************************************************************************)
(* The searches, and the theorems.                                         *)
(***************************************************************************)

\* A step that leaves the graph and the linking threads alone.
LEMMA Untouched ==
    ASSUME IndInv, DOMAIN at' = Walkers,
           UNCHANGED <<level, graph, locks, todo, failures, pc, link_locals, complete>>
    PROVE  /\ GraphShape' /\ LocalShape' /\ SlotsInOrder' /\ ListsInOrder'
           /\ \A t \in Linkers : ThreadInOrder(t)'
           /\ EntryInOrder' /\ OneTop'
           /\ level' = level /\ slots' = slots /\ complete' = complete
<1>1. UNCHANGED <<level, count, slots, links, entry, top_mutex, stripe, todo, pc, node, ent, lev,
                  found, chosen, pending, in_links, list, word, rewrite, complete>>
    BY DEF graph, locks, link_locals
<1>2. \A m, l : Sound(m, l)' <=> Sound(m, l)
    BY <1>1 DEF Sound
<1>3. GraphShape' /\ LocalShape'
    BY <1>1 DEF IndInv, GraphShape, LocalShape
<1>4. SlotsInOrder'
    BY <1>1, <1>2 DEF IndInv, SlotsInOrder
<1>5. ListsInOrder'
    <2>1. \A n, l : Intact(n, l)' <=> Intact(n, l)
        BY <1>1 DEF Intact, Listing
    <2> QED
        BY <1>1, <2>1 DEF IndInv, ListsInOrder
<1>6. ASSUME NEW t \in Linkers
      PROVE  ThreadInOrder(t)'
    <2>1. NodeInOrder(t) /\ FoundInOrder(t) /\ ChangeInOrder(t) /\ BacklinksInOrder(t)
        BY <1>6 DEF IndInv, ThreadInOrder
    <2>2. NodeInOrder(t)'
        BY <1>1, <2>1 DEF NodeInOrder
    <2>3. FoundInOrder(t)'
        <3>1. TopOf(t)' = TopOf(t)
            BY <1>1 DEF TopOf
        <3> QED
            BY <1>1, <1>2, <2>1, <3>1 DEF FoundInOrder
    <2>4. ChangeInOrder(t)'
        BY <1>1, <2>1 DEF ChangeInOrder
    <2>5. BacklinksInOrder(t)'
        BY <1>1, <2>1 DEF BacklinksInOrder
    <2> QED
        BY <2>2, <2>3, <2>4, <2>5 DEF ThreadInOrder
<1>7. EntryInOrder'
    <2>1. \A t : Above(t)' <=> Above(t)
        BY <1>1 DEF Above
    <2> QED
        BY <1>1, <2>1 DEF IndInv, EntryInOrder
<1>8. OneTop'
    BY <1>1 DEF IndInv, OneTop
<1> QED
    BY <1>1, <1>3, <1>4, <1>5, <1>6, <1>7, <1>8

\* A search changes nothing but its own position.
LEMMA WalkerMove ==
    ASSUME IndInv, NEW w \in Walkers, NEW a, at' = [at EXCEPT ![w] = a],
           DOMAIN a = {"node", "level", "size", "read"},
           a.level \in Levels, a.size \in Nat, a.node = NoNode => a.size = 0,
           a.node # NoNode =>
               /\ Sound(a.node, a.level) /\ Sound(a.read, a.level)
               /\ a.size <= Capacity(a.level)
               /\ \A i \in 1..a.size : slots[a.node][a.level][i] # NoNode,
           UNCHANGED <<level, graph, locks, todo, failures, pc, link_locals, complete>>
    PROVE  IndInv'
<1>1. DOMAIN at = Walkers
    BY DEF IndInv, LocalShape
<1>2. DOMAIN at' = Walkers /\ at'[w] = a /\ \A v \in Walkers : v # w => at'[v] = at[v]
    BY <1>1
<1>3. /\ GraphShape' /\ LocalShape' /\ SlotsInOrder' /\ ListsInOrder'
      /\ \A t \in Linkers : ThreadInOrder(t)'
      /\ EntryInOrder' /\ OneTop'
      /\ level' = level /\ slots' = slots /\ complete' = complete
    BY <1>2, Untouched
<1>4. \A m, l : Sound(m, l)' <=> Sound(m, l)
    BY <1>3 DEF Sound
<1>5. \A v \in Walkers : WalkInOrder(v)'
    <2> TAKE v \in Walkers
    <2>1. CASE v = w
        BY <1>2, <1>3, <1>4, <2>1 DEF WalkInOrder
    <2>2. CASE v # w
        <3>1. WalkInOrder(v) /\ at'[v] = at[v]
            BY <1>2, <2>2 DEF IndInv
        <3> QED
            BY <1>3, <1>4, <3>1 DEF WalkInOrder
    <2> QED
        BY <2>1, <2>2
<1> QED
    BY <1>3, <1>5 DEF IndInv

\* What a search reads is a sound node, whatever is being stored meanwhile.
LEMMA WalkerSteps ==
    ASSUME IndInv, NEW w \in Walkers, WalkerStep(w)
    PROVE  IndInv'
<1>1. /\ GraphShape /\ SlotsInOrder /\ EntryInOrder /\ WalkInOrder(w)
      /\ DOMAIN at = Walkers
    BY DEF IndInv, LocalShape
<1>2. 0 \in Levels /\ NoNode \notin Nodes
    BY HnswLinkAssumption DEF Levels, Nodes, NoNode
<1>3. UNCHANGED <<level, graph, locks, todo, failures, pc, link_locals, complete>>
    BY DEF WalkerStep, StartWalk, LoadCount, LoadSlot, Descend
<1>4. CASE StartWalk(w)
    <2>1. PICK a : a = [node |-> entry.id, level |-> entry.level, size |-> 0, read |-> entry.id]
        OBVIOUS
    <2>2. entry.id \in complete /\ level[entry.id] = entry.level /\ entry.level \in Levels
        BY <1>1, <1>4 DEF StartWalk, EntryInOrder, GraphShape
    <2>3. Sound(entry.id, entry.level)
        BY <2>2 DEF Sound, Levels
    <2>4. Capacity(entry.level) \in Nat
        BY <2>2, CapacityEnough
    <2>5. /\ DOMAIN a = {"node", "level", "size", "read"} /\ a.size = 0
          /\ a.node = entry.id /\ a.level = entry.level /\ a.read = entry.id
        BY <2>1
    <2>6. at' = [at EXCEPT ![w] = a]
        BY <1>4, <2>1 DEF StartWalk
    <2>7. /\ a.size \in Nat /\ a.size <= Capacity(a.level)
          /\ \A j \in 1..a.size : slots[a.node][a.level][j] # NoNode
        BY <2>4, <2>5
    <2> QED
        BY <1>3, <2>2, <2>3, <2>5, <2>6, <2>7, WalkerMove
<1>5. CASE LoadCount(w)
    <2>1. PICK a : a = [at[w] EXCEPT !.size = count[at[w].node][at[w].level]]
        OBVIOUS
    <2>2. at' = [at EXCEPT ![w] = a]
        BY <1>1, <1>5, <2>1 DEF LoadCount
    <2>3. /\ at[w].node # NoNode
          /\ Sound(at[w].node, at[w].level) /\ Sound(at[w].read, at[w].level)
          /\ at[w].level \in Levels /\ at[w].node \in Nodes
        BY <1>1, <1>5 DEF LoadCount, WalkInOrder, Sound, GraphShape
    <2>4. PICK n \in Nodes, l \in Levels : n = at[w].node /\ l = at[w].level
        BY <2>3
    <2>5. count[n][l] \in 0..Capacity(l) /\ Capacity(l) \in Nat
        BY <1>1, CapacityEnough DEF GraphShape
    <2>6. \A i \in 1..count[n][l] : slots[n][l][i] # NoNode
        <3>1. \A i \in 1..count[n][l] : i \in 1..Capacity(l) /\ i <= count[n][l]
            BY <2>5
        <3> QED
            BY <1>1, <3>1 DEF SlotsInOrder
    <2>7. DOMAIN at[w] = {"node", "level", "size", "read"}
        BY <1>1 DEF WalkInOrder
    <2>8. /\ DOMAIN a = {"node", "level", "size", "read"} /\ a.size = count[n][l]
          /\ a.node = n /\ a.level = l /\ a.read = at[w].read
        BY <2>1, <2>4, <2>7
    <2>9. count[n][l] \in Nat /\ count[n][l] <= Capacity(l)
        BY <2>5
    <2> QED
        BY <1>3, <2>2, <2>3, <2>4, <2>6, <2>8, <2>9, WalkerMove
<1>6. CASE LoadSlot(w)
    <2>1. at[w].size > 0
        BY <1>6 DEF LoadSlot
    <2>2. PICK i \in 1..at[w].size :
              LET id == slots[at[w].node][at[w].level][i] IN
              \/ at' = [at EXCEPT ![w].node = id, ![w].size = 0, ![w].read = id]
              \/ at' = [at EXCEPT ![w].read = id]
        BY <1>6 DEF LoadSlot
    <2>3. /\ DOMAIN at[w] = {"node", "level", "size", "read"}
          /\ at[w].level \in Levels /\ at[w].size \in Nat
        BY <1>1 DEF WalkInOrder
    <2>4. at[w].node # NoNode
        BY <1>1, <2>1, <2>3 DEF WalkInOrder
    <2>5. /\ Sound(at[w].node, at[w].level) /\ at[w].size <= Capacity(at[w].level)
          /\ \A j \in 1..at[w].size : slots[at[w].node][at[w].level][j] # NoNode
        BY <1>1, <2>4 DEF WalkInOrder
    <2>6. PICK n \in Nodes, l \in Levels : n = at[w].node /\ l = at[w].level
        BY <1>1, <2>3, <2>5 DEF Sound, GraphShape
    <2>7. PICK x : x = slots[n][l][i]
        OBVIOUS
    <2>8. i \in 1..Capacity(l) /\ Capacity(l) \in Nat
        BY <2>3, <2>5, <2>6, CapacityEnough
    <2>9. x # NoNode /\ Sound(x, l)
        BY <1>1, <2>5, <2>6, <2>7, <2>8 DEF SlotsInOrder
    <2>10. CASE at' = [at EXCEPT ![w].node = x, ![w].size = 0, ![w].read = x]
        <3>1. PICK a : a = [at[w] EXCEPT !.node = x, !.size = 0, !.read = x]
            OBVIOUS
        <3>2. at' = [at EXCEPT ![w] = a]
            BY <1>1, <2>10, <3>1
        <3>3. /\ DOMAIN a = {"node", "level", "size", "read"} /\ a.size = 0
              /\ a.node = x /\ a.level = l /\ a.read = x
            BY <2>3, <2>6, <3>1
        <3>4. /\ a.size \in Nat /\ a.size <= Capacity(a.level)
              /\ \A j \in 1..a.size : slots[a.node][a.level][j] # NoNode
            BY <2>8, <3>3
        <3> QED
            BY <1>3, <2>9, <3>2, <3>3, <3>4, WalkerMove
    <2>11. CASE at' = [at EXCEPT ![w].read = x]
        <3>1. PICK a : a = [at[w] EXCEPT !.read = x]
            OBVIOUS
        <3>2. at' = [at EXCEPT ![w] = a]
            BY <1>1, <2>11, <3>1
        <3>3. /\ DOMAIN a = {"node", "level", "size", "read"} /\ a.size = at[w].size
              /\ a.node = n /\ a.level = l /\ a.read = x
            BY <2>3, <2>6, <3>1
        <3> QED
            BY <1>3, <2>3, <2>4, <2>5, <2>6, <2>9, <3>2, <3>3, WalkerMove
    <2> QED
        BY <2>2, <2>6, <2>7, <2>10, <2>11
<1>7. CASE Descend(w)
    <2>1. /\ at[w].node # NoNode
          /\ at' = [at EXCEPT ![w] =
                IF at[w].level = 0 THEN AtRest
                ELSE [node |-> at[w].node, level |-> at[w].level - 1, size |-> 0,
                      read |-> at[w].node]]
        BY <1>1, <1>7 DEF Descend
    <2>2. Sound(at[w].node, at[w].level) /\ at[w].level \in Levels
        BY <1>1, <2>1 DEF WalkInOrder
    <2>3. PICK n \in Nodes, l \in Levels : n = at[w].node /\ l = at[w].level
        BY <1>1, <2>2 DEF Sound, GraphShape
    <2>4. CASE l = 0
        <3>1. PICK a : a = AtRest
            OBVIOUS
        <3>2. /\ DOMAIN a = {"node", "level", "size", "read"} /\ a.size = 0
              /\ a.node = NoNode /\ a.level = 0
            BY <3>1 DEF AtRest
        <3>3. at' = [at EXCEPT ![w] = a]
            BY <2>1, <2>3, <2>4, <3>1
        <3>4. a.level \in Levels /\ a.size \in Nat
            BY <1>2, <3>2
        <3> QED
            BY <1>3, <3>2, <3>3, <3>4, WalkerMove
    <2>5. CASE l # 0
        <3>1. PICK k \in Levels : k = l - 1
            BY <2>5, HnswLinkAssumption DEF Levels
        <3>2. PICK a : a = [node |-> n, level |-> k, size |-> 0, read |-> n]
            OBVIOUS
        <3>3. /\ DOMAIN a = {"node", "level", "size", "read"} /\ a.size = 0
              /\ a.node = n /\ a.level = k /\ a.read = n
            BY <3>2
        <3>4. at' = [at EXCEPT ![w] = a]
            BY <2>1, <2>3, <2>5, <3>1, <3>2
        <3>5. level[n] \in Levels
            BY <1>1 DEF GraphShape
        <3>6. Sound(n, k)
            BY <2>2, <2>3, <3>1, <3>5 DEF Sound, Levels
        <3>7. Capacity(k) \in Nat
            BY CapacityEnough
        <3>8. /\ a.size \in Nat /\ a.size <= Capacity(a.level)
              /\ \A j \in 1..a.size : slots[a.node][a.level][j] # NoNode
            BY <3>3, <3>7
        <3> QED
            BY <1>3, <3>3, <3>4, <3>6, <3>8, WalkerMove
    <2> QED
        BY <2>4, <2>5
<1> QED
    BY <1>4, <1>5, <1>6, <1>7 DEF WalkerStep
LEMMA InitIndInv == Init => IndInv
<1> SUFFICES ASSUME Init PROVE IndInv
    OBVIOUS
<1> USE DEF Init
<1>1. 0 \in Levels /\ NoNode \notin Nodes /\ \A l \in Levels : Capacity(l) \in Nat
    BY HnswLinkAssumption, CapacityEnough DEF Levels, Nodes, NoNode
<1>2. NoEntry \in [id : Nodes \cup {NoNode}, level : Levels]
      /\ NoEntry.id = NoNode
    BY <1>1 DEF NoEntry
<1>3. \A n \in Nodes, l \in Levels :
          /\ count[n][l] = 0 /\ links[n][l] = {}
          /\ slots[n][l] = [i \in 1..Capacity(l) |-> NoNode]
    OBVIOUS
<1>4. GraphShape
    <2>1. \A n \in Nodes, l \in Levels :
              /\ count[n][l] \in 0..Capacity(l)
              /\ slots[n][l] \in [1..Capacity(l) -> Nodes \cup {NoNode}]
              /\ links[n][l] \subseteq Nodes
        BY <1>1, <1>3
    <2> QED
        BY <1>2, <2>1 DEF GraphShape
<1>5. LocalShape
    BY <1>1, <1>2 DEF LocalShape, Points
<1>6. SlotsInOrder
    BY <1>1, <1>3 DEF SlotsInOrder
<1>7. ListsInOrder
    <2>1. \A n \in Nodes, l \in Levels : Listing(n, l) = {}
        BY <1>3 DEF Listing
    <2> QED
        BY <1>3, <2>1, FS_EmptySet DEF ListsInOrder, Intact
<1>8. \A t \in Linkers : ThreadInOrder(t)
    BY DEF ThreadInOrder, NodeInOrder, FoundInOrder, ChangeInOrder, BacklinksInOrder,
           Searching, Publishing, Changing
<1>9. EntryInOrder
    BY <1>2 DEF EntryInOrder, Publishing, Changing
<1>10. OneTop
    BY DEF OneTop
<1>11. \A w \in Walkers : WalkInOrder(w)
    BY <1>1 DEF WalkInOrder, AtRest
<1> QED
    BY <1>4, <1>5, <1>6, <1>7, <1>8, <1>9, <1>10, <1>11 DEF IndInv

\* A step that changes nothing.
LEMMA Stutter == IndInv /\ UNCHANGED vars => IndInv'
<1> SUFFICES ASSUME IndInv, UNCHANGED vars PROVE IndInv'
    OBVIOUS
<1>1. UNCHANGED <<level, graph, locks, todo, failures, pc, link_locals, complete>> /\ at' = at
    BY DEF vars
<1>2. DOMAIN at' = Walkers
    BY <1>1 DEF IndInv, LocalShape
<1>3. /\ GraphShape' /\ LocalShape' /\ SlotsInOrder' /\ ListsInOrder'
      /\ \A t \in Linkers : ThreadInOrder(t)'
      /\ EntryInOrder' /\ OneTop'
      /\ level' = level /\ slots' = slots /\ complete' = complete
    BY <1>1, <1>2, Untouched
<1>4. \A m, l : Sound(m, l)' <=> Sound(m, l)
    BY <1>3 DEF Sound
<1>5. \A w \in Walkers : WalkInOrder(w)'
    BY <1>1, <1>3, <1>4 DEF IndInv, WalkInOrder
<1> QED
    BY <1>3, <1>5 DEF IndInv

LEMMA NextIndInv == IndInv /\ [Next]_vars => IndInv'
<1> SUFFICES ASSUME IndInv, [Next]_vars PROVE IndInv'
    OBVIOUS
<1>1. CASE UNCHANGED vars
    BY <1>1, Stutter
<1>2. ASSUME NEW t \in Linkers, Take(t) \/ LinkerStep(t)
      PROVE  IndInv'
    BY <1>2, TakeStep, ReadEntryStep, LockTopStep, FindLevelStep, FindThrowsStep,
       StoreOwnListsStep, LockListStep, AppendSlotStep, AppendCountStep, ShrinkSlotStep,
       ShrinkCountStep, EndLevelStep, RepairOrphanStep, PublishEntryStep DEF LinkerStep
<1>3. ASSUME NEW w \in Walkers, WalkerStep(w)
      PROVE  IndInv'
    BY <1>3, WalkerSteps
<1> QED
    BY <1>1, <1>2, <1>3 DEF Next

\* The inductive invariant holds in every reachable state.
LEMMA Invariance == Spec => []IndInv
    BY InitIndInv, NextIndInv, PTL DEF Spec

\* hnsw_graph.hpp, LinkView: whatever word a search loads while links are being
\* appended and lists rewritten under it, it is a count within the list or the id
\* of a node that is complete and reaches the level.
THEOREM SearchesSafe == Spec => []SlotsAreSafe
<1>1. IndInv => SlotsAreSafe
    <2> SUFFICES ASSUME IndInv PROVE SlotsAreSafe
        OBVIOUS
    <2>1. GraphShape /\ LocalShape /\ SlotsInOrder
        BY DEF IndInv
    <2>2. TypeOK
        BY <2>1 DEF TypeOK, GraphShape, LocalShape
    <2>3. ReadsAreSafe
        BY DEF IndInv, WalkInOrder, ReadsAreSafe, Sound
    <2>4. \A n \in complete, l \in Levels : \A i \in 1..Capacity(l) :
              /\ i <= count[n][l] => slots[n][l][i] # NoNode
              /\ slots[n][l][i] # NoNode =>
                    /\ slots[n][l][i] \in complete \ {n}
                    /\ level[n] >= l /\ level[slots[n][l][i]] >= l
        BY <2>1 DEF GraphShape, SlotsInOrder, Sound
    <2> QED
        BY <2>2, <2>3, <2>4 DEF SlotsAreSafe
<1> QED
    BY <1>1, Invariance, PTL

\* hnsw_insert.cpp, link_back and shrink_with under the striped locks: no back-link
\* is lost or doubled, however many threads link rows at once.
THEOREM BacklinksKept == Spec => []ListsAreIntact
<1>1. IndInv => ListsAreIntact
    BY DEF IndInv, ListsInOrder, Intact, ListsAreIntact
<1> QED
    BY <1>1, Invariance, PTL

\* docs/concurrency.md, "Entry point": between link() calls the entry point is on
\* the highest level of all linked nodes, and each level has at most one node
\* without neighbours.
THEOREM LevelsSafe == Spec => []LevelsAreJoined
<1>1. IndInv => LevelsAreJoined
    <2> SUFFICES ASSUME IndInv, \A t \in Linkers : pc[t] = "idle"
                 PROVE  /\ \A n \in complete : level[n] <= entry.level
                        /\ entry.id # NoNode => entry.id \in complete /\ level[entry.id] = entry.level
                        /\ \A l \in Levels :
                             Cardinality({n \in complete : level[n] >= l /\ count[n][l] = 0}) <= 1
        BY DEF LevelsAreJoined
    <2>1. EntryInOrder /\ GraphShape /\ OneTop
        BY DEF IndInv
    <2>2. \A n \in complete : ~(level[n] > entry.level)
        BY <2>1 DEF EntryInOrder, Publishing, Changing
    <2>3. \A n \in complete : level[n] \in Levels /\ entry.level \in Levels
        BY <2>1 DEF GraphShape
    <2>4. \A n \in complete : level[n] <= entry.level
        BY <2>2, <2>3 DEF Levels
    <2>5. ASSUME NEW l \in Levels
          PROVE  Cardinality({n \in complete : level[n] >= l /\ count[n][l] = 0}) <= 1
        <3>1. PICK B : B = {n \in complete : level[n] >= l /\ count[n][l] = 0}
            OBVIOUS
        <3>2. \A m, n \in B : m = n
            BY <2>1, <3>1 DEF OneTop
        <3>3. CASE B = {}
            <4>1. Cardinality(B) = 0
                BY <3>3, FS_EmptySet
            <4> QED
                BY <3>1, <4>1
        <3>4. CASE B # {}
            <4>1. PICK m \in B : TRUE
                BY <3>4
            <4>2. B = {m}
                BY <3>2, <4>1
            <4>3. Cardinality(B) = 1
                BY <4>2, FS_Singleton
            <4> QED
                BY <3>1, <4>3
        <3> QED
            BY <3>3, <3>4
    <2> QED
        BY <2>1, <2>4, <2>5 DEF EntryInOrder
<1> QED
    BY <1>1, Invariance, PTL
=============================================================================

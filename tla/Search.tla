------------------------------- MODULE Search -------------------------------
(***************************************************************************)
(* The sequential algorithms of the indexes, as operators: distances       *)
(* (index/query_distance.hpp), heaps (search/heaps.hpp), the search of a   *)
(* layer and of a graph (index/hnsw/hnsw_search.cpp), neighbour selection  *)
(* (neighbor_select.hpp), insertion (hnsw_insert.cpp) and the exact scan   *)
(* (index/flat_backend.cpp).                                               *)
(*                                                                         *)
(* Vectors have one integer component; a unit vector is 1 or -1, so the    *)
(* normalised distances are exact.  A graph is a record of node levels,    *)
(* link lists, and the entry point.  The visited set is a set here; module *)
(* SearchRequests is about its representation.                             *)
(***************************************************************************)
EXTENDS Integers, Sequences, FiniteSets

CONSTANTS
    M,               \* HnswParams::M; a level-0 list holds 2M
    EfConstruction,  \* HnswParams::ef_construction
    EfSearch         \* HnswParams::ef_search

ASSUME SearchAssumption == M \in Nat \ {0} /\ EfConstruction >= M /\ EfSearch >= 1

SmallerOf(a, b) == IF a < b THEN a ELSE b
LargerOf(a, b) == IF a < b THEN b ELSE a
-----------------------------------------------------------------------------
\* score_mode(metric, normalized) and query_distance.
ScoreMode(metric, normalized) ==
    IF ~normalized THEN IF metric = "L2" THEN "L2" ELSE "NegDot"
    ELSE CASE metric = "L2" -> "NormalizedL2"
           [] metric = "InnerProduct" -> "NormalizedIp"
           [] metric = "Cosine" -> "NormalizedCos"

\* prepare_query: inv_norm of the query is 1 / |q|, so that q * inv_norm is its
\* sign; only normalised collections use it.
Unit(q) == IF q > 0 THEN 1 ELSE -1

QueryDistance(mode, q, row) ==
    CASE mode = "L2" -> (q - row) * (q - row)
      [] mode = "NegDot" -> -(q * row)
      [] mode = "NormalizedCos" -> LargerOf(0, 1 - Unit(q) * row)
      [] mode = "NormalizedL2" -> LargerOf(0, 2 - 2 * Unit(q) * row)
      [] mode = "NormalizedIp" -> -(Unit(q) * row)
-----------------------------------------------------------------------------
\* candidate_less on (distance, id), and which of two heap elements goes up.
CandidateLess(a, b) ==
    \/ a.distance < b.distance
    \/ a.distance = b.distance /\ a.id < b.id

Above(isMin, a, b) == IF isMin THEN CandidateLess(a, b) ELSE CandidateLess(b, a)

Swapped(h, i, j) == [h EXCEPT ![i] = h[j], ![j] = h[i]]

RECURSIVE SiftUp(_, _, _)
SiftUp(isMin, h, i) ==
    IF i = 1 \/ ~Above(isMin, h[i], h[i \div 2]) THEN h
    ELSE SiftUp(isMin, Swapped(h, i, i \div 2), i \div 2)

\* The child that may have to move up, among the first n elements.
Child(isMin, h, i, n) ==
    IF 2 * i + 1 <= n /\ Above(isMin, h[2 * i + 1], h[2 * i]) THEN 2 * i + 1 ELSE 2 * i

RECURSIVE SiftDown(_, _, _, _)
SiftDown(isMin, h, i, n) ==
    IF 2 * i > n THEN h
    ELSE LET c == Child(isMin, h, i, n) IN
         IF ~Above(isMin, h[c], h[i]) THEN h
         ELSE SiftDown(isMin, Swapped(h, i, c), c, n)

\* MinHeap::push and pop.
MinPush(h, e) == SiftUp(TRUE, Append(h, e), Len(h) + 1)

MinPop(h) ==
    LET n == Len(h) - 1 IN
    IF n = 0 THEN <<>> ELSE SiftDown(TRUE, SubSeq([h EXCEPT ![1] = h[n + 1]], 1, n), 1, n)

\* BoundedMaxHeap::push and sort_ascending; the worst candidate is on top.
BoundedPush(h, capacity, e) ==
    IF Len(h) < capacity THEN SiftUp(FALSE, Append(h, e), Len(h) + 1)
    ELSE IF h = <<>> \/ ~CandidateLess(e, h[1]) THEN h
    ELSE SiftDown(FALSE, [h EXCEPT ![1] = e], 1, Len(h))

RECURSIVE HeapSort(_, _)
HeapSort(h, end) ==
    IF end <= 1 THEN h
    ELSE HeapSort(SiftDown(FALSE, Swapped(h, 1, end), 1, end - 1), end - 1)

SortAscending(h) == HeapSort(h, Len(h))
-----------------------------------------------------------------------------
\* HnswGraph.  NoNode is an invalid entry point.
NoNode == 0
EmptyGraph == [level |-> <<>>, links |-> <<>>, entry |-> NoNode, top |-> 0]

NodeCount(g) == Len(g.level)
LinkCapacity(l) == IF l = 0 THEN 2 * M ELSE M

\* add_node: empty lists on every level; not reachable yet.
AddNode(g, level) ==
    [g EXCEPT !.level = Append(@, level),
              !.links = Append(@, [l \in 0..level |-> <<>>])]

SetEntry(g, id) == [g EXCEPT !.entry = id, !.top = g.level[id]]

\* try_append_link, for a list with room.
HasFreeSlot(g, node, l) == Len(g.links[node][l]) < LinkCapacity(l)
AppendLink(g, node, l, id) == [g EXCEPT !.links[node][l] = Append(@, id)]

\* dist is the distance of the query to every row.
Scored(dist, id) == [distance |-> dist[id], id |-> id]
-----------------------------------------------------------------------------
\* greedy_search: a pass over the list keeps the best; until a pass changes
\* nothing.
RECURSIVE GreedySearch(_, _, _, _)
GreedySearch(g, dist, current, l) ==
    LET links == g.links[current.id][l]
        seen  == {Scored(dist, links[i]) : i \in 1..Len(links)} \cup {current}
        best  == CHOOSE c \in seen : \A d \in seen : d = c \/ CandidateLess(c, d)
    IN  IF best = current THEN current ELSE GreedySearch(g, dist, best, l)

\* From the entry point down to level `low`.
RECURSIVE Descend(_, _, _, _, _)
Descend(g, dist, current, l, low) ==
    IF l <= low THEN current
    ELSE Descend(g, dist, GreedySearch(g, dist, current, l), l - 1, low)

\* search_layer.  st: the two heaps and the visited ids; dead: the rows that
\* are filtered from the results.
Offer(st, ef, dead, c) ==
    [st EXCEPT !.candidates = MinPush(@, c),
               !.results = IF c.id \in dead THEN @ ELSE BoundedPush(@, ef, c)]

RECURSIVE OfferEntries(_, _, _, _)
OfferEntries(st, ef, dead, entries) ==
    IF entries = <<>> THEN st
    ELSE LET c    == Head(entries)
             next == IF c.id \in st.visited THEN st
                     ELSE Offer([st EXCEPT !.visited = @ \cup {c.id}], ef, dead, c)
         IN  OfferEntries(next, ef, dead, Tail(entries))

\* Mutant of Worth: the results are consulted before they are full.
MutWorthWhenNotFull(st, ef, c) ==
    st.results = <<>> \/ CandidateLess(c, st.results[1])

\* Whether a neighbour is looked at further.
Worth(st, ef, c) == Len(st.results) < ef \/ CandidateLess(c, st.results[1])

RECURSIVE OfferNeighbors(_, _, _, _, _)
OfferNeighbors(st, ef, dead, dist, links) ==
    IF links = <<>> THEN st
    ELSE LET c    == Scored(dist, Head(links))
             seen == [st EXCEPT !.visited = @ \cup {c.id}]
             next == IF c.id \in st.visited THEN st
                     ELSE IF Worth(st, ef, c) THEN Offer(seen, ef, dead, c) ELSE seen
         IN  OfferNeighbors(next, ef, dead, dist, Tail(links))

RECURSIVE SearchLoop(_, _, _, _, _, _)
SearchLoop(g, dist, st, ef, l, dead) ==
    IF \/ st.candidates = <<>>
       \/ Len(st.results) = ef /\ CandidateLess(st.results[1], st.candidates[1])
    THEN st.results
    ELSE LET nearest == st.candidates[1]
             popped  == [st EXCEPT !.candidates = MinPop(@)]
         IN  SearchLoop(g, dist,
                        OfferNeighbors(popped, ef, dead, dist, g.links[nearest.id][l]),
                        ef, l, dead)

SearchLayer(g, dist, entries, ef, l, dead) ==
    LET empty == [candidates |-> <<>>, results |-> <<>>, visited |-> {}]
    IN  SortAscending(SearchLoop(g, dist, OfferEntries(empty, ef, dead, entries),
                                 ef, l, dead))

\* search_with; ef = 0 stands for the collection's default.
HnswSearch(g, dist, k, ef, dead) ==
    IF g.entry = NoNode THEN <<>>
    ELSE LET beam  == LargerOf(IF ef # 0 THEN ef ELSE EfSearch, k)
             start == Descend(g, dist, Scored(dist, g.entry), g.top, 0)
             found == SearchLayer(g, dist, <<start>>, beam, 0, dead)
         IN  SubSeq(found, 1, SmallerOf(Len(found), k))

\* FlatBackend::search over the scanned rows, with the cheap test on ties.
RECURSIVE FlatScan(_, _, _, _, _)
FlatScan(heap, dist, k, dead, id) ==
    IF id > Len(dist) THEN SortAscending(heap)
    ELSE LET skip == \/ id \in dead
                     \/ Len(heap) = k /\ dist[id] >= heap[1].distance
         IN  FlatScan(IF skip THEN heap ELSE BoundedPush(heap, k, Scored(dist, id)),
                      dist, k, dead, id + 1)

FlatSearch(dist, k, dead) == FlatScan(<<>>, dist, k, dead, 1)
-----------------------------------------------------------------------------
\* select_neighbors with the heuristic and keep_pruned.  D(a, b) is the distance
\* between two stored rows, given as a function of pairs.
RECURSIVE SelectLoop(_, _, _, _, _)
SelectLoop(D, sorted, m, out, discarded) ==
    IF sorted = <<>> \/ Len(out) = m
    THEN out \o SubSeq(discarded, 1, SmallerOf(Len(discarded), m - Len(out)))
    ELSE LET c    == Head(sorted)
             good == \A i \in 1..Len(out) : D[c.id, out[i].id] >= c.distance
         IN  IF good THEN SelectLoop(D, Tail(sorted), m, Append(out, c), discarded)
             ELSE SelectLoop(D, Tail(sorted), m, out, Append(discarded, c))

SelectNeighbors(D, sorted, m) == SelectLoop(D, sorted, m, <<>>, <<>>)

IdsOf(scored) == [i \in 1..Len(scored) |-> scored[i].id]

\* The insertion sort of shrink_with.
Sorted(S) ==
    CHOOSE s \in [1..Cardinality(S) -> S] :
        \A i, j \in 1..Cardinality(S) : i < j => CandidateLess(s[i], s[j])

Shrunk(g, D, node, l, new) ==
    LET links == g.links[node][l]
        all   == {[distance |-> D[node, links[i]], id |-> links[i]] : i \in 1..Len(links)}
                 \cup {[distance |-> D[new, node], id |-> new]}
    IN  [g EXCEPT !.links[node][l] =
            IdsOf(SelectNeighbors(D, Sorted(all), LinkCapacity(l)))]

\* find_neighbors: for every level from `top` down, the candidates found and
\* the neighbours selected; a level starts from all candidates of the one above.
RECURSIVE FindFrom(_, _, _, _, _)
FindFrom(g, D, id, entries, l) ==
    IF l < 0 THEN <<>>
    ELSE LET dist  == [r \in 1..NodeCount(g) |-> D[id, r]]
             found == SearchLayer(g, dist, entries, EfConstruction, l, {})
             layer == [found |-> found, selected |-> SelectNeighbors(D, found, M)]
         IN  Append(FindFrom(g, D, id, found, l - 1), layer)

\* layers[l + 1] is level l.
FindNeighbors(g, D, id, top) ==
    LET dist  == [r \in 1..NodeCount(g) |-> D[id, r]]
        start == Descend(g, dist, Scored(dist, g.entry), g.top, top)
    IN  FindFrom(g, D, id, <<start>>, top)

\* publish, phase 3: the back-links of one level.
RECURSIVE BackLinks(_, _, _, _, _)
BackLinks(g, D, id, l, selected) ==
    IF selected = <<>> THEN g
    ELSE LET node == Head(selected).id
         IN  BackLinks(IF HasFreeSlot(g, node, l) THEN AppendLink(g, node, l, id)
                       ELSE Shrunk(g, D, node, l, id),
                       D, id, l, Tail(selected))

\* repair_orphans: the nearest candidate with a free slot links the node.
Repaired(g, id, l, found) ==
    LET linked == \E n \in 1..NodeCount(g) :
                    l <= g.level[n] /\ \E i \in 1..Len(g.links[n][l]) : g.links[n][l][i] = id
        room   == {i \in 1..Len(found) : HasFreeSlot(g, found[i].id, l)}
    IN  IF linked \/ room = {} THEN g
        ELSE LET i == CHOOSE i \in room : \A j \in room : i <= j
             IN  AppendLink(g, found[i].id, l, id)

RECURSIVE Publish(_, _, _, _, _)
Publish(g, D, id, layers, l) ==
    IF l = Len(layers) THEN g
    ELSE Publish(Repaired(BackLinks(g, D, id, l, layers[l + 1].selected),
                          id, l, layers[l + 1].found),
                 D, id, layers, l + 1)

\* Mutant of RaiseEntry: the entry point never moves up.
MutRaiseEntryNever(g, id) == g

\* Phase 4: a node above the top becomes the entry point.
RaiseEntry(g, id) == IF g.level[id] > g.top THEN SetEntry(g, id) ELSE g

\* link() of a node that add_node has made; add() does the same in one call.
LinkNode(g, D, id) ==
    IF g.entry = NoNode THEN SetEntry(g, id)
    ELSE LET layers == FindNeighbors(g, D, id, SmallerOf(g.level[id], g.top))
             own    == [g EXCEPT !.links[id] =
                          [l \in 0..g.level[id] |->
                              IF l < Len(layers) THEN IdsOf(layers[l + 1].selected) ELSE <<>>]]
         IN  RaiseEntry(Publish(own, D, id, layers, 0), id)
-----------------------------------------------------------------------------
\* HnswValidator::check_invariants.
ListIsValid(g, id, l) ==
    LET links == g.links[id][l] IN
    /\ Len(links) <= LinkCapacity(l)
    /\ \A i \in 1..Len(links) :
          /\ links[i] \in (1..NodeCount(g)) \ {id}
          /\ g.level[links[i]] >= l
          /\ \A j \in 1..Len(links) : i # j => links[i] # links[j]

CheckInvariants(g, maxLevel) ==
    IF NodeCount(g) = 0 THEN g.entry = NoNode
    ELSE /\ g.entry \in 1..NodeCount(g)
         /\ g.level[g.entry] = g.top
         /\ \A id \in 1..NodeCount(g) :
               /\ g.level[id] <= maxLevel
               /\ g.level[id] <= g.top
               /\ \A l \in 0..g.level[id] : ListIsValid(g, id, l)
=============================================================================

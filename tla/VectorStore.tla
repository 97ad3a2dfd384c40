---------------------------- MODULE VectorStore ----------------------------
(***************************************************************************)
(* src/storage/vector_store.{hpp,cpp}: rows in chunks of RowsPerChunk,     *)
(* addressed through a directory of chunk pointers.  A store over a mapped *)
(* file starts with chunks that point into it; every later chunk is on the *)
(* heap.  Rows are numbered from 1; a row is one number.                   *)
(***************************************************************************)
EXTENDS Integers, Sequences

CONSTANTS
    RowsPerChunk,  \* a power of two in the code
    MaxRows,       \* Options::max_rows
    Unset          \* what a heap chunk holds before a row is written

ASSUME VectorStoreAssumption == RowsPerChunk \in Nat \ {0} /\ MaxRows \in Nat

\* chunk_ptrs_ is dir: the memory a pointer points into, and the chunk in it.
NewStore == [base |-> <<>>, dir |-> <<>>, owned |-> <<>>, mapped |-> 0, size |-> 0]

Capacity(s) == Len(s.dir) * RowsPerChunk

ChunkOf(id) == (id - 1) \div RowsPerChunk
SlotOf(id) == ((id - 1) % RowsPerChunk) + 1

AddChunk(s) ==
    [s EXCEPT !.dir = Append(@, <<"heap", Len(s.owned) + 1>>),
              !.owned = Append(@, [i \in 1..RowsPerChunk |-> Unset])]

\* Mutant of HeapChunk: the mapped chunks are not subtracted.
MutHeapChunkFromStart(s, id) == ChunkOf(id) + 1

\* heap_row_ptr: heap chunks follow the mapped ones in the directory.
HeapChunk(s, id) == ChunkOf(id) - (s.mapped \div RowsPerChunk) + 1

\* append(); the caller has checked max_rows, or gets ResourceExhausted.
MayAppend(s) == s.size < MaxRows

StoreAppend(s, v) ==
    LET room == IF s.size = Capacity(s) THEN AddChunk(s) ELSE s
        id   == s.size + 1
    IN  [room EXCEPT !.size = id, !.owned[HeapChunk(room, id)][SlotOf(id)] = v]

\* pop_back() keeps the chunk.
StorePopBack(s) == [s EXCEPT !.size = @ - 1]

RECURSIVE StoreReserve(_, _)
StoreReserve(s, rows) ==
    IF Capacity(s) >= rows THEN s ELSE StoreReserve(AddChunk(s), rows)

RECURSIVE StoreAppendAll(_, _)
StoreAppendAll(s, rows) ==
    IF rows = <<>> THEN s ELSE StoreAppendAll(StoreAppend(s, Head(rows)), Tail(rows))

\* create_mapped(): full chunks stay in the file, the rest is copied.
StoreMapped(rows) ==
    LET full == Len(rows) \div RowsPerChunk
        base == [NewStore EXCEPT !.base = rows,
                                 !.dir = [c \in 1..full |-> <<"file", c>>],
                                 !.mapped = full * RowsPerChunk,
                                 !.size = full * RowsPerChunk]
    IN  StoreAppendAll(base, SubSeq(rows, full * RowsPerChunk + 1, Len(rows)))

\* A word of a chunk, wherever the directory says the chunk is.
ChunkWord(s, c, slot) ==
    IF s.dir[c][1] = "file"
    THEN s.base[(s.dir[c][2] - 1) * RowsPerChunk + slot]
    ELSE s.owned[s.dir[c][2]][slot]

\* row(): through the directory.
StoreRow(s, id) == ChunkWord(s, ChunkOf(id) + 1, SlotOf(id))

RowsInChunk(s, c) ==
    LET start == (c - 1) * RowsPerChunk IN
    IF start >= s.size THEN 0
    ELSE IF s.size - start < RowsPerChunk THEN s.size - start ELSE RowsPerChunk

\* What a scan sees: rows_in_chunk(c) rows of chunk_data(c), chunk by chunk.
RECURSIVE ScanFrom(_, _)
ScanFrom(s, c) ==
    IF c > Len(s.dir) THEN <<>>
    ELSE [i \in 1..RowsInChunk(s, c) |-> ChunkWord(s, c, i)] \o ScanFrom(s, c + 1)

StoreScan(s) == ScanFrom(s, 1)
=============================================================================

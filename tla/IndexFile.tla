----------------------------- MODULE IndexFile -----------------------------
(***************************************************************************)
(* The .vfidx file: what write_index (collection/index_writer.cpp) writes  *)
(* through an OutputFile (storage/atomic_file.cpp), and what read_index    *)
(* (collection/index_reader.cpp, index/hnsw/hnsw_io.cpp,                   *)
(* storage/format.cpp) accepts and rebuilds.                               *)
(*                                                                         *)
(* Offsets and sizes are the real ones in bytes; the bytes of a section    *)
(* are its kind and its decoded content, the bytes between sections only   *)
(* whether they are zero (dirt: the places where they are not).  A         *)
(* checksum is the content itself: no collisions.                          *)
(***************************************************************************)
EXTENDS Integers, Sequences, FiniteSets, FiniteSetsExt

LOCAL INSTANCE SequencesExt

CONSTANTS
    WordBits,     \* bits of a tombstone word: 64
    BufferBytes,  \* OutputFile's buffer: 1 MiB
    Invalid       \* a component find_invalid_component rejects

ASSUME IndexFileAssumption == WordBits \in Nat \ {0} /\ BufferBytes \in Nat

kHeaderSize == 64
kSectionEntrySize == 32
kSectionAlignment == 8
kVectorAlignment == 4096
kMaxSections == 64
kMaxCreatorLength == 256
kMinM == 2
kMaxM == 512
kMaxEf == 1048576
kMaxLevelCap == 32
kMaxDim == 65536
kEmptySlot == 0       \* rows are numbered from 1
kNoUpperBlock == -1
kReservedId == 0      \* kInvalidExternalId

Sections == <<"METADATA", "VECTORS", "LABELS", "TOMBSTONES",
              "LEVELS", "L0_LINKS", "UPPER_INDEX", "UPPER_LINKS">>
KnownSections == {Sections[i] : i \in DOMAIN Sections}
GraphSections == {"LEVELS", "L0_LINKS", "UPPER_INDEX", "UPPER_LINKS"}

AlignUp(value, alignment) == ((value + alignment - 1) \div alignment) * alignment
CeilDiv(a, b) == (a + b - 1) \div b

RECURSIVE SumTo(_, _)
SumTo(f, n) == IF n = 0 THEN 0 ELSE f[n] + SumTo(f, n - 1)
-----------------------------------------------------------------------------
\* hnsw_io: how a graph becomes words.
LinkWords(links, capacity) ==
    [count |-> Len(links),
     slots |-> [j \in 1..capacity |-> IF j <= Len(links) THEN links[j] ELSE kEmptySlot]]

\* Mutant of UpperOffset: a node without upper lists takes a place too.
MutUpperOffsetAlways(levels, m, i) == SumTo(levels, i - 1) * (1 + m)

\* write_upper_index.
UpperOffset(levels, m, i) ==
    IF levels[i] = 0 THEN kNoUpperBlock ELSE SumTo(levels, i - 1) * (1 + m)

UpperLists(g, m) ==
    FlattenSeq([i \in 1..Len(g.level) |->
                   [l \in 1..g.level[i] |-> LinkWords(g.links[i][l], m)]])

\* TombstoneSet::words(): word w holds the bits of rows w * WordBits + bit.
TombstoneWords(dead, n) ==
    [w \in 1..CeilDiv(n, WordBits) |->
        {b \in 0..(WordBits - 1) : (w - 1) * WordBits + b + 1 \in dead}]

WordRows(words) ==
    UNION {{(w - 1) * WordBits + b + 1 : b \in words[w]} : w \in DOMAIN words}

\* Bytes a section of this content has.
MetadataSize(meta) == 64 + 2 + meta.creator + 8
-----------------------------------------------------------------------------
\* make_metadata.  s: [config, rows, labels, dead, live, graph], live being
\* IdMap::size(); a Flat index keeps the parameters but has no entry point.
MakeMetadata(s) ==
    [dim |-> 1, metric |-> s.config.metric, index_type |-> s.config.index,
     normalize |-> s.config.normalize,
     node_count |-> Len(s.rows), live_count |-> s.live,
     m |-> s.config.m, m0 |-> 2 * s.config.m,
     ef_construction |-> s.config.ef_construction, ef_search |-> s.config.ef_search,
     max_level_cap |-> s.config.max_level, max_level |-> s.graph.top,
     entry_point |-> s.graph.entry,
     seed |-> s.config.seed, padding |-> 0, creator |-> s.config.creator]

IsNormalized(config) == config.normalize \/ config.metric = "Cosine"

\* The plan of write_index: the sections in file order.
Planned(kind, size, alignment, content) ==
    [kind |-> kind, size |-> size, alignment |-> alignment, data |-> <<kind, content>>]

Plan(s) ==
    LET n    == Len(s.rows)
        g    == s.graph
        m    == s.config.m
        meta == MakeMetadata(s)
        Small(kind, size, content) == Planned(kind, size, kSectionAlignment, content)
    IN  <<Small("METADATA", MetadataSize(meta), meta),
          Small("LABELS", n * 8, s.labels)>>
        \o (IF s.dead = {} THEN <<>>
            ELSE <<Small("TOMBSTONES", CeilDiv(n, WordBits) * 8, TombstoneWords(s.dead, n))>>)
        \o (IF s.config.index = "Flat" THEN <<>>
            ELSE <<Small("LEVELS", n, g.level),
                   Small("L0_LINKS", n * (2 * m + 1) * 4,
                         [i \in 1..n |-> LinkWords(g.links[i][0], 2 * m)]),
                   Small("UPPER_INDEX", n * 8, [i \in 1..n |-> UpperOffset(g.level, m, i)]),
                   Small("UPPER_LINKS", SumTo(g.level, n) * (1 + m) * 4, UpperLists(g, m))>>)
        \o <<Planned("VECTORS", n * 4, kVectorAlignment, s.rows)>>

\* The layout loop: where every planned section starts.
RECURSIVE Offsets(_, _)
Offsets(plan, position) ==
    IF plan = <<>> THEN <<>>
    ELSE LET at == AlignUp(position, Head(plan).alignment)
         IN  <<at>> \o Offsets(Tail(plan), at + Head(plan).size)

Entry(section, at) ==
    [type |-> section.kind, flags |-> {}, offset |-> at, size |-> section.size,
     crc |-> section.data, reserved |-> 0]
-----------------------------------------------------------------------------
\* OutputFile: what reached the disk, in order, and what waits in the buffer.
EmptySink == [disk |-> <<>>, buffer |-> <<>>, ok |-> TRUE]

PieceBytes(pieces) == SumTo([i \in DOMAIN pieces |-> pieces[i].size], Len(pieces))

FlushBuffer(sink) == [sink EXCEPT !.disk = @ \o sink.buffer, !.buffer = <<>>]

SinkWrite(sink, piece) ==
    IF PieceBytes(sink.buffer) + piece.size <= BufferBytes
    THEN [sink EXCEPT !.buffer = Append(@, piece)]
    ELSE LET flushed == FlushBuffer(sink) IN
         IF piece.size >= BufferBytes
         THEN [flushed EXCEPT !.disk = Append(@, piece)]
         ELSE [flushed EXCEPT !.buffer = <<piece>>]

\* write_at(0, piece), over the piece that reserved its place.
SinkWriteAt(sink, piece) ==
    LET flushed == FlushBuffer(sink) IN
    IF piece.size > PieceBytes(flushed.disk) THEN [flushed EXCEPT !.ok = FALSE]
    ELSE [flushed EXCEPT !.disk[1] = piece]

RECURSIVE SinkWriteAll(_, _)
SinkWriteAll(sink, pieces) ==
    IF pieces = <<>> THEN sink ELSE SinkWriteAll(SinkWrite(sink, Head(pieces)), Tail(pieces))

NoHeader == [magic |-> FALSE]

\* encode_header; the reader decodes the same fields.  A checksum is the bytes
\* it was computed from, and `intact` that the header's own one holds.
Header(s, table, tableAt, size) ==
    [magic |-> TRUE, endian |-> "little", major |-> 1,
     flags |-> (IF s.config.index = "Hnsw" THEN {"HAS_GRAPH"} ELSE {})
               \cup (IF s.dead # {} THEN {"HAS_TOMBSTONES"} ELSE {})
               \cup (IF IsNormalized(s.config) THEN {"VECTORS_NORMALIZED"} ELSE {}),
     file_size |-> size, table_offset |-> tableAt, section_count |-> Len(table),
     table_crc |-> table, reserved |-> 0, intact |-> TRUE]

\* write_index: the header is reserved with zeros and written last.
WriteIndex(s) ==
    LET plan    == Plan(s)
        offsets == Offsets(plan, kHeaderSize)
        table   == [i \in DOMAIN plan |-> Entry(plan[i], offsets[i])]
        last    == Len(plan)
        tableAt == AlignUp(offsets[last] + plan[last].size, kSectionAlignment)
        size    == tableAt + last * kSectionEntrySize
        header  == Header(s, table, tableAt, size)
        Piece(bytes, what) == [size |-> bytes, what |-> what]
        written == SinkWriteAll(EmptySink,
                       <<Piece(kHeaderSize, NoHeader)>>
                       \o [i \in DOMAIN plan |-> Piece(plan[i].size, plan[i].data)]
                       \o <<Piece(last * kSectionEntrySize, table)>>)
        closed  == FlushBuffer(SinkWriteAt(written, Piece(kHeaderSize, header)))
    IN  [ok   |-> closed.ok,
         file |-> [size |-> size, head |-> closed.disk[1].what, table |-> table,
                   tableAt |-> tableAt, dirt |-> {},
                   body |-> [i \in DOMAIN plan |->
                               [at |-> offsets[i], size |-> plan[i].size,
                                data |-> plan[i].data]]]]
-----------------------------------------------------------------------------
\* The bytes a table entry points at: those written there, or other ones.
OtherBytes == <<"OTHER">>

Bytes(f, i) ==
    IF f.table[i].offset = f.body[i].at /\ f.table[i].size = f.body[i].size
    THEN f.body[i].data ELSE OtherBytes

TableBytes(f) ==
    IF f.head.table_offset = f.tableAt /\ f.head.section_count = Len(f.table)
    THEN f.table ELSE <<>>

Find(f, kind) == CHOOSE i \in DOMAIN f.table : f.table[i].type = kind
Has(f, kind) == \E i \in DOMAIN f.table : f.table[i].type = kind
Content(f, kind) == Bytes(f, Find(f, kind))[2]

\* parse_header_and_table, the header.  Every check that fails with CorruptData
\* is a conjunct; only those that end with another status have their place.
HeaderStatus(f) ==
    LET h == f.head
        tableEnd == h.table_offset + h.section_count * kSectionEntrySize
    IN  IF f.size < kHeaderSize \/ ~h.magic THEN "CorruptData"
        ELSE IF h.endian = "big" THEN "UnsupportedVersion"
        ELSE IF h.endian # "little" THEN "CorruptData"
        ELSE IF h.major # 1 THEN "UnsupportedVersion"
        ELSE IF /\ h.intact
                /\ h.reserved = 0
                /\ h.file_size = f.size
                /\ h.flags \subseteq {"HAS_GRAPH", "HAS_TOMBSTONES", "VECTORS_NORMALIZED"}
                /\ h.section_count \in 1..kMaxSections
                /\ h.table_offset >= kHeaderSize /\ tableEnd <= f.size
                /\ h.table_offset % kSectionAlignment = 0
                /\ TableBytes(f) = h.table_crc
             THEN "Ok" ELSE "CorruptData"

EntryStatus(f, i) ==
    LET e == f.table[i] IN
    IF \/ e.reserved # 0
       \/ e.offset < kHeaderSize \/ e.offset + e.size > f.size
       \/ e.offset % kSectionAlignment # 0
       \/ ~(e.flags \subseteq {"OPTIONAL"})
    THEN "CorruptData"
    ELSE IF e.type \notin KnownSections
         THEN IF "OPTIONAL" \in e.flags THEN "Ok" ELSE "UnsupportedVersion"
    ELSE IF \E j \in 1..(i - 1) : f.table[j].type = e.type THEN "CorruptData"
    ELSE "Ok"

\* No two of the header, the sections and the table share a byte (an empty region
\* may not lie inside another either), and the bytes outside them are zero.
Regions(f) ==
    <<[begin |-> 0, end |-> kHeaderSize],
      [begin |-> f.head.table_offset,
       end   |-> f.head.table_offset + f.head.section_count * kSectionEntrySize]>>
    \o [i \in DOMAIN f.table |->
          [begin |-> f.table[i].offset, end |-> f.table[i].offset + f.table[i].size]]

RegionsDisjoint(f) ==
    LET r == Regions(f) IN
    \A i, j \in DOMAIN r : i # j => r[i].end <= r[j].begin \/ r[j].end <= r[i].begin

ParseStatus(f) ==
    LET bad == {i \in DOMAIN f.table : EntryStatus(f, i) # "Ok"} IN
    IF HeaderStatus(f) # "Ok" THEN HeaderStatus(f)
    ELSE IF bad # {} THEN EntryStatus(f, Min(bad))
    ELSE IF /\ RegionsDisjoint(f)
            /\ \A d \in f.dirt : \E i \in DOMAIN Regions(f) :
                  Regions(f)[i].begin <= d /\ d < Regions(f)[i].end
         THEN "Ok" ELSE "CorruptData"
-----------------------------------------------------------------------------
\* HnswParams::validate and validate_metadata.
ValidParams(p) ==
    /\ p.m \in kMinM..kMaxM
    /\ p.ef_construction \in p.m..kMaxEf
    /\ p.ef_search \in 1..kMaxEf
    /\ p.max_level_cap \in 1..kMaxLevelCap

\* decode_metadata: the content fits its section exactly.
MetadataDecodes(f, e, meta) ==
    /\ meta.padding = 0
    /\ meta.creator <= kMaxCreatorLength
    /\ e.size = MetadataSize(meta)

ValidMetadata(meta, h) ==
    /\ meta.dim \in 1..kMaxDim
    /\ meta.metric \in {"L2", "InnerProduct", "Cosine"}
    /\ meta.index_type \in {"Flat", "Hnsw"}
    /\ meta.normalize \in BOOLEAN
    /\ meta.live_count <= meta.node_count
    /\ IsNormalized(meta) <=> "VECTORS_NORMALIZED" \in h.flags
    /\ meta.index_type = "Hnsw" <=> "HAS_GRAPH" \in h.flags
    /\ meta.max_level_cap <= kMaxLevelCap /\ meta.max_level <= meta.max_level_cap
    /\ IF meta.index_type = "Hnsw" THEN ValidParams(meta) /\ meta.m0 = 2 * meta.m
       ELSE meta.entry_point = kEmptySlot /\ meta.max_level = 0

SectionsPresent(f) ==
    /\ \A kind \in {"METADATA", "VECTORS", "LABELS"} : Has(f, kind)
    /\ Has(f, "TOMBSTONES") <=> "HAS_TOMBSTONES" \in f.head.flags
    /\ \A kind \in GraphSections : Has(f, kind) <=> "HAS_GRAPH" \in f.head.flags
    /\ f.table[Find(f, "VECTORS")].offset % kVectorAlignment = 0

SizeIs(f, kind, bytes) == f.table[Find(f, kind)].size = bytes

\* verify_crc of every section but the vectors; of the vectors.
ChecksumsHold(f, kinds) ==
    \A i \in DOMAIN f.table :
        f.table[i].type \in kinds => Bytes(f, i) = f.table[i].crc

AllKinds(f) == {f.table[i].type : i \in DOMAIN f.table}

\* TombstoneSet::restore, live_count and IdMap::restore.
RestoredDead(f) ==
    IF Has(f, "TOMBSTONES") THEN WordRows(Content(f, "TOMBSTONES")) ELSE {}

TombstonesRestore(f, meta) ==
    LET dead == RestoredDead(f) IN
    /\ dead \subseteq 1..meta.node_count
    /\ Has(f, "TOMBSTONES") => dead # {}
    /\ meta.node_count - Cardinality(dead) = meta.live_count

\* Mutant of IdsRestore: a label may name two live rows.
MutIdsRestoreUnchecked(labels, dead) ==
    \A r \in DOMAIN labels \ dead : labels[r] # kReservedId

IdsRestore(labels, dead) ==
    \A r \in DOMAIN labels \ dead :
        /\ labels[r] # kReservedId
        /\ \A q \in DOMAIN labels \ dead : labels[q] = labels[r] => q = r
-----------------------------------------------------------------------------
\* hnsw_io::decode: the checks of one list, and of the whole graph.
ListDecodes(levels, i, l, words) ==
    LET n == Len(levels)
        count == words.count
    IN  /\ count <= Len(words.slots)
        /\ \A j \in 1..Len(words.slots) :
              IF j > count THEN words.slots[j] = kEmptySlot
              ELSE /\ words.slots[j] \in (1..n) \ {i}
                   /\ levels[words.slots[j]] >= l
                   /\ \A k \in 1..(j - 1) : words.slots[k] # words.slots[j]

\* The words of a list: level 0 by node, the others by the node's block.
ListWords(f, levels, i, l) ==
    IF l = 0 THEN Content(f, "L0_LINKS")[i]
    ELSE Content(f, "UPPER_LINKS")[SumTo(levels, i - 1) + l]

EntryDecodes(levels, meta) ==
    IF levels = <<>> THEN meta.entry_point = kEmptySlot /\ meta.max_level = 0
    ELSE /\ meta.entry_point \in DOMAIN levels
         /\ levels[meta.entry_point] = meta.max_level
         /\ \A i \in DOMAIN levels : levels[i] <= meta.max_level

GraphDecodes(f, meta) ==
    LET n      == meta.node_count
        levels == Content(f, "LEVELS")
    IN  /\ SizeIs(f, "LEVELS", n)
        /\ SizeIs(f, "L0_LINKS", n * (2 * meta.m + 1) * 4)
        /\ SizeIs(f, "UPPER_INDEX", n * 8)
        /\ \A i \in 1..n : levels[i] <= meta.max_level_cap
        /\ EntryDecodes(levels, meta)
        /\ SizeIs(f, "UPPER_LINKS", SumTo(levels, n) * (meta.m + 1) * 4)
        /\ \A i \in 1..n :
              /\ Content(f, "UPPER_INDEX")[i] =
                    IF levels[i] > 0 THEN SumTo(levels, i - 1) * (meta.m + 1)
                    ELSE kNoUpperBlock
              /\ \A l \in 0..levels[i] :
                    ListDecodes(levels, i, l, ListWords(f, levels, i, l))

DecodedGraph(f, meta) ==
    LET levels == Content(f, "LEVELS") IN
    [level |-> levels,
     links |-> [i \in DOMAIN levels |->
                  [l \in 0..levels[i] |->
                      LET words == ListWords(f, levels, i, l)
                      IN  SubSeq(words.slots, 1, words.count)]],
     entry |-> meta.entry_point, top |-> meta.max_level]
-----------------------------------------------------------------------------
EmptyGraphOf == [level |-> <<>>, links |-> <<>>, entry |-> kEmptySlot, top |-> 0]

Rejected(code) == [status |-> code]

\* find_invalid_component, over all rows.
HasInvalidComponent(rows) == \E r \in DOMAIN rows : rows[r] = Invalid

\* read_index after the table was parsed: TRUE when nothing is rejected.
ContentAccepted(f, verify, inPlace) ==
    LET meta   == Content(f, "METADATA")
        n      == meta.node_count
        labels == Content(f, "LABELS")
        rows   == Content(f, "VECTORS")
    IN  /\ SectionsPresent(f)
        /\ verify # "None" => ChecksumsHold(f, AllKinds(f) \ {"VECTORS"})
        /\ Bytes(f, Find(f, "METADATA")) # OtherBytes
        /\ MetadataDecodes(f, f.table[Find(f, "METADATA")], meta)
        /\ ValidMetadata(meta, f.head)
        /\ SizeIs(f, "VECTORS", n * meta.dim * 4)
        /\ SizeIs(f, "LABELS", n * 8)
        /\ Has(f, "TOMBSTONES") => SizeIs(f, "TOMBSTONES", CeilDiv(n, WordBits) * 8)
        /\ verify = "Full" => ChecksumsHold(f, {"VECTORS"})
        /\ TombstonesRestore(f, meta)
        /\ IdsRestore(labels, RestoredDead(f))
        /\ meta.index_type = "Hnsw" => GraphDecodes(f, meta)
        /\ (~inPlace \/ verify = "Full") => ~HasInvalidComponent(rows)

\* Verify::Auto is Metadata for a mapped load and Full for a copying one.
Resolved(verify, useMmap) ==
    IF verify # "Auto" THEN verify ELSE IF useMmap THEN "Metadata" ELSE "Full"

ReadIndex(f, verify, inPlace) ==
    IF ParseStatus(f) # "Ok" THEN Rejected(ParseStatus(f))
    ELSE IF ~ContentAccepted(f, verify, inPlace) THEN Rejected("CorruptData")
    ELSE LET meta == Content(f, "METADATA") IN
         [status |-> "Ok",
          config |-> [metric |-> meta.metric, index |-> meta.index_type,
                      normalize |-> meta.normalize, m |-> meta.m,
                      ef_construction |-> meta.ef_construction,
                      ef_search |-> meta.ef_search,
                      max_level |-> meta.max_level_cap,
                      seed |-> meta.seed, creator |-> meta.creator],
          rows   |-> Content(f, "VECTORS"),
          labels |-> Content(f, "LABELS"),
          dead   |-> RestoredDead(f),
          graph  |-> IF meta.index_type = "Hnsw" THEN DecodedGraph(f, meta)
                     ELSE EmptyGraphOf]
=============================================================================

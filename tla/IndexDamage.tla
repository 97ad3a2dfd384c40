---------------------------- MODULE IndexDamage ----------------------------
(***************************************************************************)
(* What read_index promises about a file that is not what save() wrote.    *)
(* The file may have been cut, changed on the medium, or written by        *)
(* another program: then its checksums can be right (sealed) although its  *)
(* content is not.                                                         *)
(***************************************************************************)
EXTENDS Index

\* Contents that differ from c in one place.
MetadataChanges(c) ==
    {[c EXCEPT !.dim = 2], [c EXCEPT !.metric = "Invalid"], [c EXCEPT !.m0 = @ + 1],
     [c EXCEPT !.normalize = ~@], [c EXCEPT !.padding = 1], [c EXCEPT !.creator = 300],
     [c EXCEPT !.index_type = IF @ = "Flat" THEN "Hnsw" ELSE "Flat"],
     [c EXCEPT !.m = 1], [c EXCEPT !.ef_search = 0]}
    \cup {[c EXCEPT !.node_count = x] : x \in 0..(DamageRows + 1)}
    \cup {[c EXCEPT !.live_count = x] : x \in 0..(DamageRows + 1)}
    \cup {[c EXCEPT !.entry_point = x] : x \in 0..(DamageRows + 1)}
    \cup {[c EXCEPT !.max_level = x] : x \in 0..(MaxLevel + 1)}

Lists(n, capacity) ==
    {LinkWords(s, capacity) : s \in {<<>>} \cup {<<x>> : x \in 0..(n + 1)}
                                   \cup {<<x, x>> : x \in 1..n}}
    \cup {[LinkWords(<<>>, capacity) EXCEPT !.count = capacity + 1],
          [LinkWords(<<1>>, capacity) EXCEPT !.count = 0]}

OneReplaced(c, values) == {[c EXCEPT ![x[1]] = x[2]] : x \in (DOMAIN c) \X values}

Changes(kind, c, n) ==
    CASE kind = "METADATA" -> MetadataChanges(c)
      [] kind = "LABELS" -> OneReplaced(c, Ids \cup {kReservedId})
      [] kind = "TOMBSTONES" -> OneReplaced(c, SUBSET (0..(WordBits - 1)))
      [] kind = "LEVELS" -> OneReplaced(c, 0..(MaxLevel + 1))
      [] kind = "L0_LINKS" -> OneReplaced(c, Lists(n, 2 * M))
      [] kind = "UPPER_INDEX" -> OneReplaced(c, {kNoUpperBlock, 0, M + 1})
      [] kind = "UPPER_LINKS" -> OneReplaced(c, Lists(n, M))
      [] kind = "VECTORS" -> OneReplaced(c, Vals \cup {Invalid})

\* The checksums of the table and of the header, made right or left as they are.
Reseal(f, sealed) ==
    IF sealed THEN [f EXCEPT !.head.table_crc = f.table]
    ELSE IF f.head.table_crc # f.table THEN f ELSE [f EXCEPT !.head.intact = FALSE]

ContentChanged(f, sealed) ==
    UNION {{LET g == [f EXCEPT !.body[i].data = <<f.body[i].data[1], c>>]
            IN  IF sealed THEN Reseal([g EXCEPT !.table[i].crc = g.body[i].data], TRUE)
                ELSE g :
                c \in Changes(f.body[i].data[1], f.body[i].data[2], Len(image.rows))
                      \ {f.body[i].data[2]}} :
           i \in {j \in DOMAIN f.body : f.body[j].size > 0}}

\* One entry of the table changed, or repeated.
EntryChanges(e) ==
    {[e EXCEPT !.type = "UNKNOWN"], [e EXCEPT !.type = "UNKNOWN", !.flags = {"OPTIONAL"}],
     [e EXCEPT !.flags = {"OTHER"}], [e EXCEPT !.reserved = 1],
     [e EXCEPT !.offset = @ + 4], [e EXCEPT !.size = @ + 8]}

TableChanged(f, sealed) ==
    {Reseal(g, sealed) : g \in
        UNION {{[f EXCEPT !.table[i] = e] : e \in EntryChanges(f.table[i])} : i \in DOMAIN f.table}}

HeaderChanged(f, sealed) ==
    LET Mark(g) == [g EXCEPT !.head.intact = sealed] IN
    {Mark([f EXCEPT !.head.magic = FALSE]), Mark([f EXCEPT !.head.endian = "big"]),
     Mark([f EXCEPT !.head.endian = "other"]), Mark([f EXCEPT !.head.major = 2]),
     Mark([f EXCEPT !.head.reserved = 1]), Mark([f EXCEPT !.head.section_count = 0]),
     Mark([f EXCEPT !.head.section_count = @ - 1]), Mark([f EXCEPT !.head.table_offset = @ + 8]),
     Mark([f EXCEPT !.head.flags = @ \cup {"OTHER"}])}
    \cup {Mark([f EXCEPT !.head.flags = (@ \cup {x}) \ (@ \cap {x})]) :
             x \in {"HAS_GRAPH", "HAS_TOMBSTONES", "VECTORS_NORMALIZED"}}

\* Cut, extended, or with a byte set between two sections.
LayoutChanged(f) ==
    {[f EXCEPT !.size = @ - 1], [f EXCEPT !.size = @ + 8], [f EXCEPT !.size = 10],
     [f EXCEPT !.dirt = {f.body[1].at + f.body[1].size}]}

Changed(f, sealed) ==
    ContentChanged(f, sealed) \cup TableChanged(f, sealed) \cup HeaderChanged(f, sealed)
    \cup LayoutChanged(f)

\* Nothing in what was accepted can lead an operation outside the collection.
Sound(r, read) ==
    LET n == Len(r.rows) IN
    /\ Len(r.labels) = n
    /\ r.dead \subseteq 1..n
    /\ \A a, b \in (1..n) \ r.dead : r.labels[a] = r.labels[b] => a = b
    /\ \A a \in (1..n) \ r.dead : r.labels[a] # kReservedId
    /\ r.config.index = "Hnsw" => /\ Len(r.graph.level) = n
                                  /\ CheckInvariants(r.graph, r.config.max_level)
    /\ ~read[2] \/ read[1] = "Full" => \A a \in 1..n : r.rows[a] # Invalid

\* The files looked at, and the ways to read them: the two Verify::Auto stands for,
\* and the one that checks least.
Damageable == session = "saved" /\ image.unjoined = {} /\ Len(image.rows) <= DamageRows

DamageReads == {<<"None", TRUE>>, <<"Metadata", TRUE>>, <<"Full", FALSE>>}

\* However a file was changed, a load that accepts it builds a sound collection;
\* and when the checksums were not made to match, Full accepts only the saved
\* collection, Metadata at most other vectors.  (None looks at no checksum but
\* those of the header and the table: sealed or not is the same to it.)
DamagedFilesAreSafe ==
    Damageable =>
        \A sealed \in BOOLEAN : \A f \in Changed(disk, sealed), read \in DamageReads :
            LET r == ReadIndex(f, read[1], read[2]) IN
            (sealed \/ read[1] # "None") /\ r.status = "Ok" =>
                /\ Sound(r, read)
                /\ ~sealed /\ read[1] = "Full" => Same(r, image)
                /\ ~sealed /\ read[1] = "Metadata" => Same([r EXCEPT !.rows = image.rows], image)
=============================================================================

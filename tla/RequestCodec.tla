---------------------------- MODULE RequestCodec ----------------------------
(***************************************************************************)
(* server/json_codec.cpp: what the HTTP server makes of a request body.    *)
(*                                                                         *)
(* A JSON value is a tuple <<kind, payload>>; an object's payload is a     *)
(* function on the keys it has.  Numbers keep the widths of the code, at a *)
(* smaller scale.  A text is a sequence of character classes.  A decoder   *)
(* answers [status, value]; messages are left out, and checks that fail    *)
(* with the same status are conjuncts.                                     *)
(***************************************************************************)
EXTENDS Integers, Sequences, FiniteSets

CONSTANTS
    U8, U32, U64,   \* 2^8, 2^32 and 2^64
    FloatMax,       \* the largest float
    kMaxJsonDepth, kMaxDim, kMinM, kMaxM, kMaxEf, kMaxLevelCap,
    Limits          \* server::Limits: max_batch, max_k, max_ef, max_dim

\* The limits are of the types that hold them, and the default seed fits.
ASSUME CodecAssumption ==
    /\ U8 \in Nat \ {0} /\ U32 \in Nat /\ U64 \in Nat /\ U8 <= U32 /\ U32 <= U64
    /\ {kMaxDim, kMinM, kMaxM, kMaxEf} \subseteq 0..U32 - 1
    /\ kMaxLevelCap \in 0..U8 - 1
    /\ 2430 < U64
    /\ Limits \in [max_batch : Nat, max_k : Nat, max_ef : Nat, max_dim : Nat]

kInvalidExternalId == U64 - 1

Ok(value) == [status |-> 200, value |-> value]
Refused(code) == [status |-> code, value |-> <<>>]

Is(v, kind) == v[1] = kind
IsNumber(v) == v[1] \in {"uint", "negative", "float"}
Fields(doc) == DOMAIN doc[2]
-----------------------------------------------------------------------------
\* Mutant of DepthStep: a backslash in a string is a character like any other.
MutDepthStepNoEscape(s, c) ==
    IF s.in_string
    THEN IF c = "quote" THEN [s EXCEPT !.in_string = FALSE] ELSE s
    ELSE IF c = "quote" THEN [s EXCEPT !.in_string = TRUE]
    ELSE IF c = "open" THEN [s EXCEPT !.depth = @ + 1]
    ELSE IF c = "close" /\ s.depth > 0 THEN [s EXCEPT !.depth = @ - 1]
    ELSE s

\* within_depth: a scan with the depth, and whether it is in a string and after
\* a backslash.  The depth stays at max + 1 once it is exceeded.
DepthStep(s, c) ==
    IF s.in_string
    THEN IF s.escaped THEN [s EXCEPT !.escaped = FALSE]
         ELSE IF c = "backslash" THEN [s EXCEPT !.escaped = TRUE]
         ELSE IF c = "quote" THEN [s EXCEPT !.in_string = FALSE]
         ELSE s
    ELSE IF c = "quote" THEN [s EXCEPT !.in_string = TRUE]
    ELSE IF c = "open" THEN [s EXCEPT !.depth = @ + 1]
    ELSE IF c = "close" /\ s.depth > 0 THEN [s EXCEPT !.depth = @ - 1]
    ELSE s

\* What the scan knows after i characters.
DepthScan(text, max) ==
    LET scan[i \in 0..Len(text)] ==
          IF i = 0 THEN [depth |-> 0, in_string |-> FALSE, escaped |-> FALSE]
          ELSE LET s == scan[i - 1] IN IF s.depth > max THEN s ELSE DepthStep(s, text[i])
    IN  scan

WithinDepth(text, max) == DepthScan(text, max)[Len(text)].depth <= max

\* parse_object, of a text that is JSON.
ObjectStatus(text, doc, allowed) ==
    IF WithinDepth(text, kMaxJsonDepth) /\ Is(doc, "object") /\ Fields(doc) \subseteq allowed
    THEN 200 ELSE 400

\* Mutant of GetUint: the bound is not looked at.
MutGetUintAnySize(v, max) == Is(v, "uint")

\* get_uint: an unsigned integer that fits; 1.0 is none.
GetUint(v, max) == Is(v, "uint") /\ v[2] <= max

\* static_cast to a narrower integer.
Cast(n, width) == n % width

\* append_vector: a component beyond the range of float becomes infinite.
ToFloat(v) ==
    IF v[2] > FloatMax THEN "inf" ELSE IF v[2] < -FloatMax THEN "-inf" ELSE v[2]

IsVector(v, dim) ==
    Is(v, "array") /\ Len(v[2]) = dim /\ \A i \in 1..Len(v[2]) : IsNumber(v[2][i])

Row(v) == [i \in 1..Len(v[2]) |-> ToFloat(v[2][i])]

\* read_search_params: the limits answer 422.
ParamStatus(doc, key, limit) ==
    IF key \notin Fields(doc) THEN 200
    ELSE LET v == doc[2][key] IN
         IF ~GetUint(v, U32 - 1) \/ v[2] = 0 THEN 400
         ELSE IF v[2] > limit THEN 422 ELSE 200

Param(doc, key, default) ==
    IF key \in Fields(doc) THEN Cast(doc[2][key][2], U32) ELSE default

First(statuses) ==
    LET bad == {i \in DOMAIN statuses : statuses[i] # 200} IN
    IF bad = {} THEN 200 ELSE statuses[CHOOSE i \in bad : \A j \in bad : i <= j]
-----------------------------------------------------------------------------
\* parse_metric, parse_index_type and parse_concurrency, on the names they know.
MetricNamed == [l2 |-> "L2", ip |-> "InnerProduct", inner_product |-> "InnerProduct",
                cosine |-> "Cosine"]
IndexTypeNamed == [flat |-> "Flat", hnsw |-> "Hnsw"]
ConcurrencyNamed == [coarse |-> "Coarse", concurrent |-> "Concurrent"]

\* HnswParams::validate and CollectionConfig::validate: the parameters of the
\* graph are looked at only for an index that has one.
ParamsValid(p) ==
    /\ p.M \in kMinM..kMaxM
    /\ p.ef_construction \in p.M..kMaxEf
    /\ p.ef_search \in 1..kMaxEf
    /\ p.max_level \in 1..kMaxLevelCap

ConfigValid(c) ==
    /\ c.dim \in 1..kMaxDim
    /\ c.index = "Hnsw" => ParamsValid(c)

\* The seed's default is 0x5EEDF0A6E; any number will do.
DefaultConfig ==
    [metric |-> "L2", normalize |-> FALSE, index |-> "Hnsw", M |-> 16,
     ef_construction |-> 200, ef_search |-> 50, max_level |-> 16, seed |-> 2430,
     concurrency |-> "Concurrent"]

\* The loop over the fields of 'index'.
IndexFieldOk(key, v) ==
    CASE key = "type" -> Is(v, "string") /\ v[2] \in DOMAIN IndexTypeNamed
      [] key \in {"M", "ef_construction", "ef_search"} -> GetUint(v, U32 - 1)
      [] key = "max_level" -> GetUint(v, U32 - 1) /\ v[2] <= kMaxLevelCap
      [] key = "seed" -> GetUint(v, U64 - 1)
      [] key = "concurrency" -> Is(v, "string") /\ v[2] \in DOMAIN ConcurrencyNamed
      [] OTHER -> FALSE

IndexField(index, key, default) ==
    IF key \notin DOMAIN index THEN default
    ELSE IF key \in {"M", "ef_construction", "ef_search"} THEN Cast(index[key][2], U32)
    ELSE IF key = "max_level" THEN Cast(index[key][2], U8)
    ELSE IF key = "type" THEN IndexTypeNamed[index[key][2]]
    ELSE IF key = "concurrency" THEN ConcurrencyNamed[index[key][2]]
    ELSE index[key][2]

\* decode_create.
DecodeCreate(text, doc) ==
    LET index == IF "index" \in Fields(doc) THEN doc[2].index ELSE <<"object", <<>> >>
        d     == DefaultConfig
        config ==
          [dim |-> Cast(doc[2].dim[2], U32),
           metric |-> IF "metric" \in Fields(doc) THEN MetricNamed[doc[2].metric[2]]
                     ELSE d.metric,
           normalize |-> IF "normalize" \in Fields(doc) THEN doc[2].normalize[2] ELSE d.normalize,
           index |-> IndexField(index[2], "type", d.index),
           M |-> IndexField(index[2], "M", d.M),
           ef_construction |-> IndexField(index[2], "ef_construction", d.ef_construction),
           ef_search |-> IndexField(index[2], "ef_search", d.ef_search),
           max_level |-> IndexField(index[2], "max_level", d.max_level),
           seed |-> IndexField(index[2], "seed", d.seed),
           concurrency |-> IndexField(index[2], "concurrency", d.concurrency)]
        dimGiven ==
          /\ ObjectStatus(text, doc, {"name", "dim", "metric", "normalize", "index"}) = 200
          /\ "name" \in Fields(doc) /\ Is(doc[2].name, "string") /\ doc[2].name[2] = "valid"
          /\ "dim" \in Fields(doc) /\ GetUint(doc[2].dim, U32 - 1) /\ doc[2].dim[2] # 0
        rest ==
          /\ "metric" \in Fields(doc) =>
                Is(doc[2].metric, "string") /\ doc[2].metric[2] \in DOMAIN MetricNamed
          /\ "normalize" \in Fields(doc) => Is(doc[2].normalize, "bool")
          /\ Is(index, "object")
          /\ \A key \in DOMAIN index[2] : IndexFieldOk(key, index[2][key])
          /\ ConfigValid(config)
    IN  IF ~dimGiven THEN Refused(400)
        ELSE IF doc[2].dim[2] > Limits.max_dim THEN Refused(422)
        ELSE IF ~rest THEN Refused(400)
        ELSE Ok(config)

\* decode_insert.
ItemOk(item, dim) ==
    /\ Is(item, "object") /\ Fields(item) = {"id", "vector"}
    /\ GetUint(item[2].id, U64 - 2)
    /\ IsVector(item[2].vector, dim)

DecodeInsert(text, doc, dim) ==
    IF \/ ObjectStatus(text, doc, {"upsert", "vectors"}) # 200
       \/ "upsert" \in Fields(doc) /\ ~Is(doc[2].upsert, "bool")
       \/ "vectors" \notin Fields(doc) \/ ~Is(doc[2].vectors, "array")
    THEN Refused(400)
    ELSE LET items == doc[2].vectors[2] IN
         IF Len(items) > Limits.max_batch THEN Refused(422)
         ELSE IF \E i \in DOMAIN items : ~ItemOk(items[i], dim) THEN Refused(400)
         ELSE Ok([upsert |-> IF "upsert" \in Fields(doc) THEN doc[2].upsert[2] ELSE FALSE,
                  ids  |-> [i \in DOMAIN items |-> items[i][2].id[2]],
                  rows |-> [i \in DOMAIN items |-> Row(items[i][2].vector)]])

\* decode_bulk: [magic, dim, count, size, ids], the rows being the bytes left.
DecodeBulk(body, dim) ==
    IF body.size < 16 \/ ~body.magic \/ body.dim # dim THEN Refused(400)
    ELSE IF body.count > Limits.max_batch THEN Refused(422)
    ELSE IF \/ body.size # 16 + body.count * 8 + body.count * dim * 4
            \/ \E i \in 1..body.count : body.ids[i] = kInvalidExternalId
         THEN Refused(400)
    ELSE Ok([ids |-> body.ids, rows |-> (body.size - 16 - body.count * 8) \div 4])

\* decode_search, of one query or of a batch.
DecodeSearch(text, doc, dim, batch) ==
    LET key    == IF batch THEN "vectors" ELSE "vector"
        params == First(<<ObjectStatus(text, doc, {key, "k", "ef_search"}),
                          IF Is(doc, "object") THEN ParamStatus(doc, "k", Limits.max_k) ELSE 400,
                          IF Is(doc, "object") THEN ParamStatus(doc, "ef_search", Limits.max_ef)
                          ELSE 400>>)
        given  == key \in Fields(doc)
        rows   == IF batch THEN doc[2][key][2] ELSE <<doc[2][key]>>
    IN  IF params # 200 THEN Refused(params)
        ELSE IF ~given \/ (batch /\ ~Is(doc[2][key], "array")) THEN Refused(400)
        ELSE IF Len(rows) > Limits.max_batch /\ batch THEN Refused(422)
        ELSE IF \E i \in DOMAIN rows : ~IsVector(rows[i], dim) THEN Refused(400)
        ELSE Ok([k |-> Param(doc, "k", 10), ef_search |-> Param(doc, "ef_search", 0),
                 rows |-> [i \in DOMAIN rows |-> Row(rows[i])]])
=============================================================================

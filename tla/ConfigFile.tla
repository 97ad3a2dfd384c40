----------------------------- MODULE ConfigFile -----------------------------
(***************************************************************************)
(* config.json of a collection (collection/catalog.cpp): create() writes   *)
(* the configuration it accepted, and open() reads it back for a           *)
(* collection that was never snapshotted.                                  *)
(*                                                                         *)
(* A file is [fields, complete]: its keys and values in order, and whether *)
(* the object is closed and nothing but blanks follows it.                 *)
(***************************************************************************)
EXTENDS RequestCodec

\* to_string of Metric and IndexType.
NameOf == [L2 |-> "l2", InnerProduct |-> "ip", Cosine |-> "cosine",
           Flat |-> "flat", Hnsw |-> "hnsw"]

\* The keys of the file, in the order encode_config writes them.
ConfigKeys ==
    <<"format", "dim", "metric", "normalize", "index", "M", "ef_construction",
      "ef_search", "max_level", "seed">>

\* encode_config; concurrency is a setting of the process and is not stored.
EncodeConfig(c) ==
    LET Value(key) ==
          CASE key = "format" -> <<"uint", 1>>
            [] key \in {"metric", "index"} -> <<"string", NameOf[c[key]]>>
            [] key = "normalize" -> <<"bool", c.normalize>>
            [] OTHER -> <<"uint", c[key]>>
    IN  [fields |-> [i \in DOMAIN ConfigKeys |-> <<ConfigKeys[i], Value(ConfigKeys[i])>>],
         complete |-> TRUE]
-----------------------------------------------------------------------------
\* FlatJsonScanner: number() takes digits that fit 64 bits, string() a string
\* without escapes, boolean() one of its two words.
ScanNumber(v, max) == Is(v, "uint") /\ v[2] < U64 /\ v[2] <= max
ScanString(v, names) == Is(v, "string") /\ v[2] \in names
ScanBoolean(v) == Is(v, "bool")

\* decode_config, one key: what its value must be.
ConfigFieldOk(key, v) ==
    CASE key = "format" -> ScanNumber(v, U64) /\ v[2] = 1
      [] key = "dim" -> ScanNumber(v, kMaxDim)
      [] key = "metric" -> ScanString(v, DOMAIN MetricNamed)
      [] key = "normalize" -> ScanBoolean(v)
      [] key = "index" -> ScanString(v, DOMAIN IndexTypeNamed)
      [] key = "M" -> ScanNumber(v, kMaxM)
      [] key \in {"ef_construction", "ef_search"} -> ScanNumber(v, kMaxEf)
      [] key = "max_level" -> ScanNumber(v, kMaxLevelCap)
      [] key = "seed" -> ScanNumber(v, U64)
      [] OTHER -> FALSE

\* decode_config: every key exactly once, in any order; then validate().  Whatever
\* is wrong, it answers CorruptData (to_api_error: 500).
DecodeConfig(file) ==
    LET keys == {file.fields[i][1] : i \in DOMAIN file.fields}
        Of(key) == file.fields[CHOOSE i \in DOMAIN file.fields : file.fields[i][1] = key][2][2]
        config ==
          [dim |-> Cast(Of("dim"), U32), metric |-> MetricNamed[Of("metric")],
           normalize |-> Of("normalize"), index |-> IndexTypeNamed[Of("index")],
           M |-> Cast(Of("M"), U32), ef_construction |-> Cast(Of("ef_construction"), U32),
           ef_search |-> Cast(Of("ef_search"), U32), max_level |-> Cast(Of("max_level"), U8),
           seed |-> Of("seed")]
    IN  IF /\ Cardinality(keys) = Len(file.fields)
           /\ \A i \in DOMAIN file.fields : ConfigFieldOk(file.fields[i][1], file.fields[i][2])
           /\ file.complete
           /\ Cardinality(keys) = Len(ConfigKeys)
           /\ ConfigValid(config)
        THEN Ok(config) ELSE Refused(500)
=============================================================================

-------------------------- MODULE MCSearchRequests --------------------------
(***************************************************************************)
(* The request bodies of the run: every combination of some values of each *)
(* field, with the values at and beyond the limits and the widths.         *)
(***************************************************************************)
EXTENDS SearchRequests

LOCAL INSTANCE TLC

MCLimits == [max_batch |-> 1, max_k |-> 3, max_ef |-> 4, max_dim |-> 64]

Absent == <<"absent">>
Uints(S) == {<<"uint", n>> : n \in S}
Object(r) == <<"object", [k \in {x \in DOMAIN r : r[x] # Absent} |-> r[k]]>>
Array(s) == <<"array", s>>

\* How a client writes a value: one class per character that matters.
Chars(s) == IF s = "tricky" THEN <<"open", "quote", "backslash", "open">> ELSE <<"other">>

RECURSIVE Escaped(_)
Escaped(s) ==
    IF s = <<>> THEN <<>>
    ELSE (IF Head(s) \in {"quote", "backslash"} THEN <<"backslash", Head(s)>> ELSE <<Head(s)>>)
         \o Escaped(Tail(s))

Quoted(s) == <<"quote">> \o Escaped(Chars(s)) \o <<"quote">>

RECURSIVE TextOf(_), TextOfAll(_, _)
TextOf(v) ==
    CASE v[1] = "string" -> Quoted(v[2])
      [] v[1] = "array" -> <<"open">> \o TextOfAll([i \in DOMAIN v[2] |-> v[2][i]], DOMAIN v[2]) \o <<"close">>
      [] v[1] = "object" -> <<"open">> \o TextOfAll(v[2], DOMAIN v[2]) \o <<"close">>
      [] OTHER -> <<"other">>
TextOfAll(f, S) ==
    IF S = {} THEN <<>>
    ELSE LET k == CHOOSE k \in S : TRUE
         IN  <<"other">> \o TextOf(f[k]) \o TextOfAll(f, S \ {k})

Body(route, doc) == [route |-> route, text |-> TextOf(doc), doc |-> doc]

Indexes ==
    {Object(r) : r \in [type : {Absent, <<"string", "flat">>, <<"string", "other">>},
                        M : {Absent} \cup Uints({1, kMaxM, kMaxM + 1, U32 + 2}),
                        max_level : {Absent} \cup Uints({0, 32, U8 + 1}),
                        ef_construction : {Absent, <<"uint", kMaxM>>},
                        ef_search : {Absent, <<"float", 5>>} \cup Uints({0, U32 + 5}),
                        seed : {Absent} \cup Uints({7, U64 - 1})]}

CreateDocs ==
    {Object(r) : r \in [name : {Absent, <<"string", "valid">>, <<"string", "tricky">>},
                        dim : {Absent, <<"negative", -1>>, <<"float", 1>>}
                              \cup Uints({0, 1, 64, 65, U32 + 1}),
                        metric : {Absent, <<"string", "cosine">>, <<"string", "inner_product">>,
                                  <<"uint", 1>>},
                        normalize : {Absent, <<"bool", TRUE>>},
                        index : {Absent, <<"uint", 3>>}]}
    \cup {Object([name |-> <<"string", "valid">>, dim |-> <<"uint", 2>>, index |-> i]) :
             i \in Indexes}
    \cup {Object([name |-> <<"string", "valid">>, dim |-> <<"uint", 2>>, other |-> <<"uint", 2>>])}

Vectors == {Array(<<>>), Array(<<<<"uint", 1>>>>), Array(<<<<"float", FloatMax + 1>>>>),
            Array(<<<<"string", "tricky">>>>), <<"uint", 1>>,
            Array(<<Array(<<Array(<<>>)>>)>>), Array(<<<<"string", "tricky">>, Array(<<>>)>>)}

Items == {Object([id |-> i, vector |-> v]) :
             i \in {<<"negative", -1>>} \cup Uints({1, U64 - 2, U64 - 1, U64}), v \in Vectors}

InsertDocs ==
    {Object(r) : r \in [upsert : {Absent, <<"bool", TRUE>>, <<"uint", 1>>},
                        vectors : {Absent, Array(<<>>), <<"uint", 1>>}
                                  \cup {Array(<<x>>) : x \in Items}
                                  \cup {Array(<<x, x>>) : x \in Items}]}

SearchDocs(key, values) ==
    {Object([k |-> x, ef_search |-> e] @@ (key :> v)) :
        x \in {Absent, <<"float", 1>>} \cup Uints({0, 1, 3, 4, U32 + 1}),
        e \in {Absent} \cup Uints({0, 2, 4, 5, U32 + 2}),
        v \in {Absent} \cup values}

BulkBodies ==
    [route : {"bulk"}, text : {<<>>},
     doc : [magic : BOOLEAN, dim : {1, 2}, count : {1, 2}, size : {10, 27, 28, 29, 40},
            ids : {<<1, 2>>, <<U64 - 1, 1>>}]]

OfCount(b) == [b EXCEPT !.doc.ids = SubSeq(b.doc.ids, 1, b.doc.count)]

MCBodies ==
    {Body("create", d) : d \in CreateDocs}
    \cup {Body("insert", d) : d \in InsertDocs}
    \cup {Body("search", d) : d \in SearchDocs("vector", Vectors)}
    \cup {Body("batch", d) : d \in SearchDocs("vectors", {Array(<<>>), <<"uint", 1>>}
                                              \cup {Array(<<v>>) : v \in Vectors}
                                              \cup {Array(<<v, v>>) : v \in Vectors})}
    \cup {OfCount(b) : b \in BulkBodies}

MCSearchBodies ==
    {Body("search", Object([k |-> <<"uint", k>>, vector |-> Array(<<<<"uint", 1>>>>),
                            ef_search |-> e])) : k \in {1, 3}, e \in {Absent, <<"uint", 2>>}}

Nested(doc) == UNION {Inside(doc, 4)[n] : n \in 0..4}
MCJson == UNION {Nested(b.doc) : b \in {b \in MCBodies \cup MCSearchBodies : b.route # "bulk"}}

MCSymmetry == Permutations(Threads) \cup Permutations(Contexts)
=============================================================================

------------------------- MODULE RequestCodecProofs -------------------------
(***************************************************************************)
(* What the decoders of RequestCodec answer for any body, any limits and   *)
(* any widths: the facts AcceptedRequestsAreFaithful rests on.             *)
(***************************************************************************)
EXTENDS SearchRequests, FiniteSetTheorems, TLAPS

\* static_cast keeps a number that fits.
LEMMA CastKeeps ==
    ASSUME NEW w \in Nat, NEW n \in 0..w - 1
    PROVE  Cast(n, w) = n
BY DEF Cast

\* The widths and limits, as numbers.
LEMMA Widths ==
    /\ U8 \in Nat /\ U32 \in Nat /\ U64 \in Nat /\ 0 < U8 /\ U8 <= U32 /\ U32 <= U64
    /\ kMaxDim \in Nat /\ kMinM \in Nat /\ kMaxM \in Nat /\ kMaxEf \in Nat
    /\ kMaxDim < U32 /\ kMinM < U32 /\ kMaxM < U32 /\ kMaxEf < U32
    /\ kMaxLevelCap \in Nat /\ kMaxLevelCap < U8
    /\ Limits.max_batch \in Nat /\ Limits.max_k \in Nat
    /\ Limits.max_ef \in Nat /\ Limits.max_dim \in Nat
BY CodecAssumption

\* What a parsed value of each kind holds.
LEMMA JsonValue ==
    ASSUME NEW v \in Json
    PROVE  /\ v[1] = "uint" => v[2] \in Nat
           /\ v[1] = "array" => v[2] \in Seq(Json)
           /\ v[1] = "object" => \A key \in DOMAIN v[2] : v[2][key] \in Json
           /\ v[1] = "bool" => v[2] \in BOOLEAN
BY BodiesAssumption DEF IsJson

\* The first status that is not 200.
LEMMA FirstOfThree ==
    ASSUME NEW a, NEW b, NEW c
    PROVE  First(<<a, b, c>>) = IF a # 200 THEN a ELSE IF b # 200 THEN b ELSE c
<1> DEFINE s == <<a, b, c>>
           bad == {i \in DOMAIN s : s[i] # 200}
<1>1. DOMAIN s = {1, 2, 3} /\ s[1] = a /\ s[2] = b /\ s[3] = c
  OBVIOUS
<1> HIDE DEF s
<1>2. CASE a # 200
  <2>1. 1 \in bad /\ \A j \in bad : 1 <= j
    BY <1>1, <1>2
  <2>2. \A i \in bad : (\A j \in bad : i <= j) => i = 1
    BY <2>1, <1>1
  <2>3. (CHOOSE i \in bad : \A j \in bad : i <= j) = 1
    BY <2>1, <2>2
  <2> QED BY <2>1, <2>3, <1>1, <1>2 DEF First, s
<1>3. CASE a = 200 /\ b # 200
  <2>1. 2 \in bad /\ \A j \in bad : 2 <= j
    BY <1>1, <1>3
  <2>2. \A i \in bad : (\A j \in bad : i <= j) => i = 2
    BY <2>1, <1>1
  <2>3. (CHOOSE i \in bad : \A j \in bad : i <= j) = 2
    BY <2>1, <2>2
  <2> QED BY <2>1, <2>3, <1>1, <1>3 DEF First, s
<1>4. CASE a = 200 /\ b = 200 /\ c # 200
  <2>1. 3 \in bad /\ \A j \in bad : 3 <= j
    BY <1>1, <1>4
  <2>2. \A i \in bad : (\A j \in bad : i <= j) => i = 3
    BY <2>1, <1>1
  <2>3. (CHOOSE i \in bad : \A j \in bad : i <= j) = 3
    BY <2>1, <2>2
  <2> QED BY <2>1, <2>3, <1>1, <1>4 DEF First, s
<1>5. CASE a = 200 /\ b = 200 /\ c = 200
  <2>1. bad = {}
    BY <1>1, <1>5
  <2> QED BY <2>1, <1>5 DEF First, s
<1> QED BY <1>2, <1>3, <1>4, <1>5
-----------------------------------------------------------------------------
\* A parameter refused with 422 exceeds its limit.
LEMMA ParamOver ==
    ASSUME NEW doc, NEW key, NEW limit, ParamStatus(doc, key, limit) = 422
    PROVE  Over(doc[2], key, limit)
BY DEF ParamStatus, Fields, Over

\* A parameter that passed is the number the body gives, within its limit.
LEMMA ParamFaithful ==
    ASSUME NEW doc \in Json, Is(doc, "object"), NEW key, NEW limit \in Nat, NEW default \in Nat
    PROVE  ParamStatus(doc, key, limit) = 200 =>
             /\ Says(doc[2], key, Param(doc, key, default))
             /\ Param(doc, key, default) \in Nat
             /\ key \notin DOMAIN doc[2] => Param(doc, key, default) = default
             /\ key \in DOMAIN doc[2] => Param(doc, key, default) \in 1..limit
<1>1. CASE key \notin DOMAIN doc[2]
  BY <1>1 DEF Fields, Param, Says
<1>2. CASE key \in DOMAIN doc[2]
  <2> DEFINE v == doc[2][key]
  <2>1. v \in Json
    BY <1>2, JsonValue DEF Is
  <2>2. GetUint(v, U32 - 1) => v[2] \in 0..U32 - 1
    BY <2>1, JsonValue, Widths DEF GetUint, Is
  <2>3. GetUint(v, U32 - 1) => Cast(v[2], U32) = v[2]
    BY <2>2, CastKeeps, Widths
  <2>4. Param(doc, key, default) = Cast(v[2], U32)
    BY <1>2 DEF Param, Fields
  <2>5. ParamStatus(doc, key, limit) = IF ~GetUint(v, U32 - 1) \/ v[2] = 0 THEN 400
                                       ELSE IF v[2] > limit THEN 422 ELSE 200
    BY <1>2 DEF ParamStatus, Fields
  <2>6. ASSUME ParamStatus(doc, key, limit) = 200
        PROVE  GetUint(v, U32 - 1) /\ v[2] \in 1..limit
    BY <2>2, <2>5, <2>6, Widths
  <2> HIDE DEF v
  <2>7. ASSUME ParamStatus(doc, key, limit) = 200
        PROVE  /\ Says(doc[2], key, Param(doc, key, default))
               /\ Param(doc, key, default) \in 1..limit
    <3>1. Param(doc, key, default) = v[2]
      BY <2>3, <2>4, <2>6, <2>7
    <3> QED BY <3>1, <2>6, <2>7 DEF Says, v
  <2> QED BY <2>7, <1>2
<1> QED BY <1>1, <1>2

\* A JSON object is asked for: anything else is answered 400.
LEMMA ObjectStatusIs ==
    ASSUME NEW text, NEW doc, NEW allowed
    PROVE  /\ ObjectStatus(text, doc, allowed) \in {200, 400}
           /\ ObjectStatus(text, doc, allowed) = 200 => Is(doc, "object")
BY DEF ObjectStatus

\* A row has as many components as were asked for.
LEMMA RowLength ==
    ASSUME NEW v, NEW dim \in Nat, IsVector(v, dim), v[2] \in Seq(Json)
    PROVE  Len(Row(v)) = dim
BY DEF IsVector, Row
-----------------------------------------------------------------------------
\* What AcceptedRequestsAreFaithful says of a search or a batch of them.
SearchOk(doc, route, a) ==
    /\ a.status = 422 => ExceedsLimits(route, doc)
    /\ a.status = 200 => /\ SearchFaithful(doc[2], a.value)
                         /\ a.value.k \in Nat /\ a.value.ef_search \in Nat

\* decode_search keeps k and ef_search as the client gave them, within the
\* limits, and every query has the collection's dimension.
LEMMA SearchDecoded ==
    ASSUME NEW text, NEW doc \in Json, NEW batch \in BOOLEAN, NEW route, route # "bulk"
    PROVE  SearchOk(doc, route, DecodeSearch(text, doc, Dim, batch))
<1> DEFINE key    == IF batch THEN "vectors" ELSE "vector"
           o      == ObjectStatus(text, doc, {key, "k", "ef_search"})
           sk     == ParamStatus(doc, "k", Limits.max_k)
           se     == ParamStatus(doc, "ef_search", Limits.max_ef)
           params == First(<<o, IF Is(doc, "object") THEN sk ELSE 400,
                             IF Is(doc, "object") THEN se ELSE 400>>)
           q      == IF batch THEN doc[2][key][2] ELSE <<doc[2][key]>>
           a      == DecodeSearch(text, doc, Dim, batch)
           value  == [k |-> Param(doc, "k", 10), ef_search |-> Param(doc, "ef_search", 0),
                      rows |-> [i \in DOMAIN q |-> Row(q[i])]]
           refused == \/ ~(key \in Fields(doc))
                      \/ (batch /\ ~Is(doc[2][key], "array"))
           long   == Len(q) > Limits.max_batch /\ batch
           wrong  == \E i \in DOMAIN q : ~IsVector(q[i], Dim)
<1>1. a = IF params # 200 THEN Refused(params)
          ELSE IF refused THEN Refused(400)
          ELSE IF long THEN Refused(422)
          ELSE IF wrong THEN Refused(400) ELSE Ok(value)
  BY DEF DecodeSearch
<1>2. o \in {200, 400} /\ (o = 200 => Is(doc, "object"))
  BY ObjectStatusIs
<1>3. params = IF o # 200 THEN o ELSE IF sk # 200 THEN sk ELSE se
  BY <1>2, FirstOfThree
<1> HIDE DEF a, params, o, sk, se, q, value, refused, long, wrong
<1>4. ASSUME a.status = 422
      PROVE  ExceedsLimits(route, doc)
  <2>1. CASE params = 422
    <3>1. Is(doc, "object") /\ (sk = 422 \/ se = 422)
      BY <2>1, <1>2, <1>3
    <3>2. Over(doc[2], "k", Limits.max_k) \/ Over(doc[2], "ef_search", Limits.max_ef)
      BY <3>1, ParamOver DEF sk, se
    <3> QED BY <3>2 DEF ExceedsLimits
  <2>2. CASE params # 422
    <3>1. ~refused /\ long
      BY <1>1, <1>4, <2>2 DEF Refused, Ok
    <3>2. LongerThan(doc[2], "vectors", Limits.max_batch)
      BY <3>1 DEF LongerThan, refused, long, q, Fields
    <3> QED BY <3>2 DEF ExceedsLimits
  <2> QED BY <2>1, <2>2
<1>5. ASSUME a.status = 200
      PROVE  /\ params = 200 /\ ~refused /\ ~wrong /\ a.value = value
  <2>1. params = 200
    BY <1>1, <1>5 DEF Refused
  <2> QED BY <2>1, <1>1, <1>5 DEF Refused, Ok
<1>6. ASSUME a.status = 200
      PROVE  /\ Says(doc[2], "k", a.value.k) /\ a.value.k > 0 /\ a.value.k \in Nat
             /\ Says(doc[2], "ef_search", a.value.ef_search) /\ a.value.ef_search \in Nat
             /\ "k" \in DOMAIN doc[2] => a.value.k <= Limits.max_k
             /\ a.value.ef_search <= Limits.max_ef
  <2>1. Is(doc, "object") /\ sk = 200 /\ se = 200
    BY <1>2, <1>3, <1>5, <1>6
  <2>2. a.value.k = Param(doc, "k", 10) /\ a.value.ef_search = Param(doc, "ef_search", 0)
    BY <1>5, <1>6 DEF value
  <2>3. /\ Says(doc[2], "k", Param(doc, "k", 10)) /\ Param(doc, "k", 10) \in Nat
        /\ "k" \notin DOMAIN doc[2] => Param(doc, "k", 10) = 10
        /\ "k" \in DOMAIN doc[2] => Param(doc, "k", 10) \in 1..Limits.max_k
    BY <2>1, ParamFaithful, Widths DEF sk
  <2>4. /\ Says(doc[2], "ef_search", Param(doc, "ef_search", 0))
        /\ Param(doc, "ef_search", 0) \in Nat
        /\ "ef_search" \notin DOMAIN doc[2] => Param(doc, "ef_search", 0) = 0
        /\ "ef_search" \in DOMAIN doc[2] => Param(doc, "ef_search", 0) \in 1..Limits.max_ef
    BY <2>1, ParamFaithful, Widths DEF se
  <2>5. Param(doc, "k", 10) > 0 /\ Param(doc, "ef_search", 0) <= Limits.max_ef
    BY <2>3, <2>4, Widths
  <2>6. "k" \in DOMAIN doc[2] => Param(doc, "k", 10) <= Limits.max_k
    BY <2>3, Widths
  <2> QED BY <2>2, <2>3, <2>4, <2>5, <2>6
<1>7. ASSUME a.status = 200
      PROVE  \A i \in DOMAIN a.value.rows : Len(a.value.rows[i]) = Dim
  <2>1. Is(doc, "object") /\ key \in DOMAIN doc[2]
    BY <1>2, <1>3, <1>5, <1>7 DEF refused, Fields
  <2>2. doc[2][key] \in Json
    BY <2>1, JsonValue DEF Is
  <2>3. batch => doc[2][key][2] \in Seq(Json)
    BY <2>2, <1>5, <1>7, JsonValue DEF refused, Is
  <2>4. \A i \in DOMAIN q : q[i] \in Json
    BY <2>2, <2>3 DEF q
  <2>5. a.value.rows = [i \in DOMAIN q |-> Row(q[i])]
    BY <1>5, <1>7 DEF value
  <2>6. ASSUME NEW i \in DOMAIN q
        PROVE  Len(Row(q[i])) = Dim
    <3>1. IsVector(q[i], Dim)
      BY <1>5, <1>7 DEF wrong
    <3>2. q[i][2] \in Seq(Json)
      BY <3>1, <2>4, JsonValue DEF IsVector, Is
    <3> QED BY <3>1, <3>2, RowLength, BodiesAssumption
  <2> QED BY <2>5, <2>6
<1> QED BY <1>4, <1>6, <1>7 DEF SearchOk, SearchFaithful, a
-----------------------------------------------------------------------------
\* What AcceptedRequestsAreFaithful says of an insert.
InsertOk(doc, a) ==
    /\ a.status = 422 => ExceedsLimits("insert", doc)
    /\ a.status = 200 => InsertFaithful(doc[2], a.value)

\* decode_insert gives every row the id and the dimension it should have, and
\* never the reserved id.
LEMMA InsertDecoded ==
    ASSUME NEW text, NEW doc \in Json
    PROVE  InsertOk(doc, DecodeInsert(text, doc, Dim))
<1> DEFINE refused == \/ ObjectStatus(text, doc, {"upsert", "vectors"}) # 200
                      \/ "upsert" \in Fields(doc) /\ ~Is(doc[2].upsert, "bool")
                      \/ "vectors" \notin Fields(doc) \/ ~Is(doc[2].vectors, "array")
           items == doc[2].vectors[2]
           ids   == [i \in DOMAIN items |-> items[i][2].id[2]]
           vecs  == [i \in DOMAIN items |-> Row(items[i][2].vector)]
           value == [upsert |-> IF "upsert" \in Fields(doc) THEN doc[2].upsert[2] ELSE FALSE,
                     ids |-> ids, rows |-> vecs]
           long  == Len(items) > Limits.max_batch
           wrong == \E i \in DOMAIN items : ~ItemOk(items[i], Dim)
           a     == DecodeInsert(text, doc, Dim)
<1>1. a = IF refused THEN Refused(400)
          ELSE IF long THEN Refused(422)
          ELSE IF wrong THEN Refused(400) ELSE Ok(value)
  BY DEF DecodeInsert
<1>2. ASSUME ~refused
      PROVE  /\ "vectors" \in DOMAIN doc[2] /\ Is(doc[2]["vectors"], "array")
             /\ items \in Seq(Json)
  <2>1. Is(doc, "object") /\ "vectors" \in DOMAIN doc[2] /\ Is(doc[2].vectors, "array")
    BY <1>2, ObjectStatusIs DEF Fields
  <2>2. doc[2].vectors \in Json
    BY <2>1, JsonValue DEF Is
  <2> QED BY <2>1, <2>2, JsonValue DEF Is
<1> HIDE DEF a, refused, long, wrong, value
<1>3. ASSUME a.status = 422
      PROVE  ExceedsLimits("insert", doc)
  <2>1. ~refused /\ long
    BY <1>1, <1>3 DEF Refused, Ok
  <2>2. LongerThan(doc[2], "vectors", Limits.max_batch)
    BY <2>1, <1>2 DEF LongerThan, long
  <2> QED BY <2>2 DEF ExceedsLimits
<1>4. ASSUME a.status = 200
      PROVE  ~refused /\ ~long /\ ~wrong /\ a.value = value
  BY <1>1, <1>4 DEF Refused, Ok
<1>5. ASSUME a.status = 200, NEW i \in DOMAIN items
      PROVE  items[i][2].id[2] # kInvalidExternalId /\ Len(Row(items[i][2].vector)) = Dim
  <2>1. ItemOk(items[i], Dim) /\ items[i] \in Json
    BY <1>4, <1>5, <1>2 DEF wrong
  <2>2. items[i][2].id \in Json /\ items[i][2].vector \in Json
    BY <2>1, JsonValue, SMTT(30) DEF ItemOk, Is, Fields
  <2>3. items[i][2].id[2] \in Nat /\ items[i][2].id[2] <= U64 - 2
    BY <2>1, <2>2, JsonValue, SMTT(30) DEF ItemOk, GetUint, Is
  <2>4. items[i][2].vector[2] \in Seq(Json) /\ IsVector(items[i][2].vector, Dim)
    BY <2>1, <2>2, JsonValue DEF ItemOk, IsVector, Is
  <2>5. Len(Row(items[i][2].vector)) = Dim
    BY <2>4, RowLength, BodiesAssumption
  <2>6. items[i][2].id[2] # kInvalidExternalId
    <3> DEFINE x == items[i][2].id[2]
    <3>1. x \in Nat /\ x <= U64 - 2
      BY <2>3
    <3> HIDE DEF x
    <3>2. x # U64 - 1
      BY <3>1, Widths
    <3> QED BY <3>2 DEF kInvalidExternalId, x
  <2> QED BY <2>5, <2>6
<1>6. ASSUME a.status = 200
      PROVE  /\ Len(a.value.ids) = Len(a.value.rows) /\ Len(a.value.ids) <= Limits.max_batch
             /\ \A i \in DOMAIN a.value.ids :
                   /\ a.value.ids[i] = doc[2]["vectors"][2][i][2]["id"][2]
                   /\ a.value.ids[i] # kInvalidExternalId
                   /\ Len(a.value.rows[i]) = Dim
  <2>1. a.value.ids = ids /\ a.value.rows = vecs
    BY <1>4, <1>6 DEF value
  <2>2. items \in Seq(Json) /\ ~(Len(items) > Limits.max_batch)
    BY <1>2, <1>4, <1>6 DEF long
  <2>3. Len(ids) = Len(items) /\ Len(vecs) = Len(items)
    BY <2>2
  <2>4. Len(items) <= Limits.max_batch
    BY <2>2, Widths
  <2>5. \A i \in DOMAIN ids : /\ ids[i] = doc[2]["vectors"][2][i][2]["id"][2]
                              /\ ids[i] # kInvalidExternalId
                              /\ Len(vecs[i]) = Dim
    BY <1>5, <1>6
  <2> HIDE DEF ids, vecs
  <2>6. Len(ids) = Len(vecs) /\ Len(ids) <= Limits.max_batch
    BY <2>3, <2>4
  <2> QED BY <2>1, <2>5, <2>6, SMTT(30)
<1> QED BY <1>3, <1>6 DEF InsertOk, InsertFaithful, a
-----------------------------------------------------------------------------
\* What AcceptedRequestsAreFaithful says of a bulk insert.
BulkOk(doc, a) ==
    /\ a.status = 422 => ExceedsLimits("bulk", doc)
    /\ a.status = 200 => BulkFaithful(a.value)

\* Four bytes make a component.
LEMMA Quarter ==
    ASSUME NEW n \in Nat
    PROVE  (n * 4) \div 4 = n
OBVIOUS

\* decode_bulk accepts a body whose bytes are exactly the ids and rows it announces.
LEMMA BulkDecoded ==
    ASSUME NEW doc, IsBulk(doc)
    PROVE  BulkOk(doc, DecodeBulk(doc, Dim))
<1> DEFINE a == DecodeBulk(doc, Dim)
           bytes == doc.count * Dim
<1>1. /\ doc.dim \in Nat /\ doc.count \in Nat /\ doc.size \in Nat /\ doc.ids \in Seq(Nat)
      /\ Len(doc.ids) = doc.count /\ Dim \in Nat
  BY BodiesAssumption DEF IsBulk
<1>2. bytes \in Nat /\ doc.count * Dim * 4 = bytes * 4
  BY <1>1
<1>3. ASSUME a.status = 422
      PROVE  ExceedsLimits("bulk", doc)
  BY <1>3 DEF DecodeBulk, Refused, Ok, ExceedsLimits
<1>4. ASSUME a.status = 200
      PROVE  /\ doc.count <= Limits.max_batch
             /\ doc.size = 16 + doc.count * 8 + doc.count * Dim * 4
             /\ \A i \in 1..doc.count : doc.ids[i] # kInvalidExternalId
             /\ a.value = [ids |-> doc.ids, rows |-> (doc.size - 16 - doc.count * 8) \div 4]
  <2>1. /\ ~(doc.count > Limits.max_batch)
        /\ doc.size = 16 + doc.count * 8 + doc.count * Dim * 4
        /\ \A i \in 1..doc.count : doc.ids[i] # kInvalidExternalId
        /\ a.value = [ids |-> doc.ids, rows |-> (doc.size - 16 - doc.count * 8) \div 4]
    BY <1>4 DEF DecodeBulk, Refused, Ok
  <2> QED BY <2>1, <1>1, Widths
<1> HIDE DEF a, bytes
<1>5. ASSUME a.status = 200
      PROVE  a.value.rows = Len(a.value.ids) * Dim
  <2>1. doc.size = 16 + doc.count * 8 + bytes * 4
    BY <1>2, <1>4, <1>5
  <2>2. (doc.size - 16 - doc.count * 8) \div 4 = bytes
    <3>1. doc.size - 16 - doc.count * 8 = bytes * 4
      BY <2>1, <1>1, <1>2, SMTT(30)
    <3>2. (bytes * 4) \div 4 = bytes
      BY <1>2, Quarter
    <3> QED BY <3>1, <3>2
  <2>3. a.value.ids = doc.ids /\ a.value.rows = (doc.size - 16 - doc.count * 8) \div 4
    BY <1>4, <1>5
  <2> QED BY <2>2, <2>3, <1>1 DEF bytes
<1>6. ASSUME a.status = 200
      PROVE  /\ Len(a.value.ids) <= Limits.max_batch
             /\ \A i \in DOMAIN a.value.ids : a.value.ids[i] # kInvalidExternalId
  <2>1. a.value.ids = doc.ids
    BY <1>4, <1>6
  <2>2. DOMAIN doc.ids = 1..doc.count
    BY <1>1
  <2>3. doc.count <= Limits.max_batch /\ \A i \in 1..doc.count : doc.ids[i] # kInvalidExternalId
    BY <1>4, <1>6
  <2> QED BY <2>1, <2>2, <2>3, <1>1
<1> QED BY <1>3, <1>5, <1>6 DEF BulkOk, BulkFaithful, a
-----------------------------------------------------------------------------
\* The configurations of collections with a graph that create() accepts.
GraphConfigs ==
    [dim : 1..kMaxDim, metric : {"L2", "InnerProduct", "Cosine"}, normalize : BOOLEAN,
     index : {"Hnsw"}, M : 0..U32 - 1, ef_construction : 0..U32 - 1, ef_search : 0..U32 - 1,
     max_level : 0..U8 - 1, seed : 0..U64 - 1, concurrency : {"Coarse", "Concurrent"}]

\* What encode_config writes, key by key.
LEMMA Encoded ==
    ASSUME NEW c
    PROVE  LET f == EncodeConfig(c).fields IN
           /\ DOMAIN f = 1..10 /\ Len(f) = 10
           /\ f[1] = <<"format", <<"uint", 1>>>>
           /\ f[2] = <<"dim", <<"uint", c.dim>>>>
           /\ f[3] = <<"metric", <<"string", NameOf[c.metric]>>>>
           /\ f[4] = <<"normalize", <<"bool", c.normalize>>>>
           /\ f[5] = <<"index", <<"string", NameOf[c.index]>>>>
           /\ f[6] = <<"M", <<"uint", c.M>>>>
           /\ f[7] = <<"ef_construction", <<"uint", c.ef_construction>>>>
           /\ f[8] = <<"ef_search", <<"uint", c.ef_search>>>>
           /\ f[9] = <<"max_level", <<"uint", c.max_level>>>>
           /\ f[10] = <<"seed", <<"uint", c.seed>>>>
<1> DEFINE k == ConfigKeys
           Value(key) ==
             CASE key = "format" -> <<"uint", 1>>
               [] key \in {"metric", "index"} -> <<"string", NameOf[c[key]]>>
               [] key = "normalize" -> <<"bool", c.normalize>>
               [] OTHER -> <<"uint", c[key]>>
           f == [i \in DOMAIN k |-> <<k[i], Value(k[i])>>]
<1>1. EncodeConfig(c).fields = f
  BY DEF EncodeConfig
<1>2. /\ DOMAIN k = 1..10
      /\ k[1] = "format"
      /\ k[2] = "dim"
      /\ k[3] = "metric"
      /\ k[4] = "normalize"
      /\ k[5] = "index"
      /\ k[6] = "M"
      /\ k[7] = "ef_construction"
      /\ k[8] = "ef_search"
      /\ k[9] = "max_level"
      /\ k[10] = "seed"
  BY DEF ConfigKeys
<1>3. Value("format") = <<"uint", 1>>
  OBVIOUS
<1>4. Value("dim") = <<"uint", c.dim>>
  OBVIOUS
<1>5. Value("metric") = <<"string", NameOf[c.metric]>>
  OBVIOUS
<1>6. Value("normalize") = <<"bool", c.normalize>>
  OBVIOUS
<1>7. Value("index") = <<"string", NameOf[c.index]>>
  OBVIOUS
<1>8. Value("M") = <<"uint", c.M>>
  OBVIOUS
<1>9. Value("ef_construction") = <<"uint", c.ef_construction>>
  OBVIOUS
<1>10. Value("ef_search") = <<"uint", c.ef_search>>
  OBVIOUS
<1>11. Value("max_level") = <<"uint", c.max_level>>
  OBVIOUS
<1>12. Value("seed") = <<"uint", c.seed>>
  OBVIOUS
<1> HIDE DEF k, Value
<1>13. DOMAIN f = 1..10 /\ Len(f) = 10
  BY <1>2
<1> QED BY <1>1, <1>2, <1>3, <1>4, <1>5, <1>6, <1>7, <1>8, <1>9, <1>10, <1>11, <1>12, <1>13

\* Ten different keys.
LEMMA TenKeys ==
    ASSUME NEW f, DOMAIN f = 1..10,
           \A i, j \in 1..10 : i # j => f[i][1] # f[j][1]
    PROVE  Cardinality({f[i][1] : i \in DOMAIN f}) = 10
<1> DEFINE S == {f[i][1] : i \in DOMAIN f}
           g == [i \in 1..10 |-> f[i][1]]
<1>1. g \in Bijection(1..10, S)
  BY DEF Bijection, Injection, Surjection, IsInjective
<1>2. ExistsBijection(1..10, S)
  BY <1>1 DEF ExistsBijection
<1> QED BY <1>2, FS_CountingElements

\* encode_config and decode_config are inverse to each other on what create()
\* accepts for a collection with a graph: open() brings it back as it was.
LEMMA GraphConfigsReopen ==
    ASSUME NEW c \in GraphConfigs, ParamsValid(c)
    PROVE  Reopens(c)
<1> DEFINE file == EncodeConfig(c)
           f == file.fields
           keys == {f[i][1] : i \in DOMAIN f}
           Of(key) == f[CHOOSE i \in DOMAIN f : f[i][1] = key][2][2]
           config ==
             [dim |-> Cast(Of("dim"), U32), metric |-> MetricNamed[Of("metric")],
              normalize |-> Of("normalize"), index |-> IndexTypeNamed[Of("index")],
              M |-> Cast(Of("M"), U32), ef_construction |-> Cast(Of("ef_construction"), U32),
              ef_search |-> Cast(Of("ef_search"), U32), max_level |-> Cast(Of("max_level"), U8),
              seed |-> Of("seed")]
<1>1. file.complete = TRUE /\ Len(ConfigKeys) = 10
  BY DEF EncodeConfig, ConfigKeys
<1>2. DecodeConfig(file) =
        IF /\ Cardinality(keys) = Len(f)
           /\ \A i \in DOMAIN f : ConfigFieldOk(f[i][1], f[i][2])
           /\ file.complete
           /\ Cardinality(keys) = Len(ConfigKeys)
           /\ ConfigValid(config)
        THEN Ok(config) ELSE Refused(500)
  BY DEF DecodeConfig
<1>3. /\ DOMAIN f = 1..10 /\ Len(f) = 10
      /\ f[1] = <<"format", <<"uint", 1>>>>
      /\ f[2] = <<"dim", <<"uint", c.dim>>>>
      /\ f[3] = <<"metric", <<"string", NameOf[c.metric]>>>>
      /\ f[4] = <<"normalize", <<"bool", c.normalize>>>>
      /\ f[5] = <<"index", <<"string", NameOf[c.index]>>>>
      /\ f[6] = <<"M", <<"uint", c.M>>>>
      /\ f[7] = <<"ef_construction", <<"uint", c.ef_construction>>>>
      /\ f[8] = <<"ef_search", <<"uint", c.ef_search>>>>
      /\ f[9] = <<"max_level", <<"uint", c.max_level>>>>
      /\ f[10] = <<"seed", <<"uint", c.seed>>>>
  BY Encoded
<1> HIDE DEF f
<1>4. \A i, j \in 1..10 : i # j => f[i][1] # f[j][1]
  <2>1. /\ f[1][1] = "format"
        /\ f[2][1] = "dim"
        /\ f[3][1] = "metric"
        /\ f[4][1] = "normalize"
        /\ f[5][1] = "index"
        /\ f[6][1] = "M"
        /\ f[7][1] = "ef_construction"
        /\ f[8][1] = "ef_search"
        /\ f[9][1] = "max_level"
        /\ f[10][1] = "seed"
    BY <1>3
  <2> QED BY <2>1, SMTT(30)
<1>5. Cardinality(keys) = 10
  BY <1>3, <1>4, TenKeys
<1>6. ASSUME NEW i \in 1..10
      PROVE  (CHOOSE j \in DOMAIN f : f[j][1] = f[i][1]) = i
  BY <1>3, <1>4
<1>7. \A i \in 1..10 : Of(f[i][1]) = f[i][2][2]
  BY <1>6
<1> HIDE DEF Of
<1>8. /\ Of("dim") = c.dim /\ Of("metric") = NameOf[c.metric] /\ Of("normalize") = c.normalize
      /\ Of("index") = NameOf[c.index] /\ Of("M") = c.M
      /\ Of("ef_construction") = c.ef_construction /\ Of("ef_search") = c.ef_search
      /\ Of("max_level") = c.max_level /\ Of("seed") = c.seed
  <2>1. Of("dim") = c.dim
    <3>1. Of(f[2][1]) = f[2][2][2]
      BY <1>7
    <3> QED BY <3>1, <1>3
  <2>2. Of("metric") = NameOf[c.metric]
    <3>1. Of(f[3][1]) = f[3][2][2]
      BY <1>7
    <3> QED BY <3>1, <1>3
  <2>3. Of("normalize") = c.normalize
    <3>1. Of(f[4][1]) = f[4][2][2]
      BY <1>7
    <3> QED BY <3>1, <1>3
  <2>4. Of("index") = NameOf[c.index]
    <3>1. Of(f[5][1]) = f[5][2][2]
      BY <1>7
    <3> QED BY <3>1, <1>3
  <2>5. Of("M") = c.M
    <3>1. Of(f[6][1]) = f[6][2][2]
      BY <1>7
    <3> QED BY <3>1, <1>3
  <2>6. Of("ef_construction") = c.ef_construction
    <3>1. Of(f[7][1]) = f[7][2][2]
      BY <1>7
    <3> QED BY <3>1, <1>3
  <2>7. Of("ef_search") = c.ef_search
    <3>1. Of(f[8][1]) = f[8][2][2]
      BY <1>7
    <3> QED BY <3>1, <1>3
  <2>8. Of("max_level") = c.max_level
    <3>1. Of(f[9][1]) = f[9][2][2]
      BY <1>7
    <3> QED BY <3>1, <1>3
  <2>9. Of("seed") = c.seed
    <3>1. Of(f[10][1]) = f[10][2][2]
      BY <1>7
    <3> QED BY <3>1, <1>3
  <2> QED BY <2>1, <2>2, <2>3, <2>4, <2>5, <2>6, <2>7, <2>8, <2>9
<1>9. /\ c.dim \in 1..kMaxDim /\ c.metric \in {"L2", "InnerProduct", "Cosine"}
      /\ c.normalize \in BOOLEAN /\ c.index = "Hnsw" /\ c.seed \in 0..U64 - 1
      /\ c.M \in 0..U32 - 1 /\ c.ef_construction \in 0..U32 - 1 /\ c.ef_search \in 0..U32 - 1
      /\ c.max_level \in 0..U8 - 1
  BY DEF GraphConfigs
<1>10. /\ NameOf[c.metric] \in {"l2", "ip", "cosine"} /\ MetricNamed[NameOf[c.metric]] = c.metric
       /\ NameOf[c.index] = "hnsw" /\ IndexTypeNamed["hnsw"] = "Hnsw"
  BY <1>9 DEF NameOf, MetricNamed, IndexTypeNamed
<1>11. config = [dim |-> c.dim, metric |-> c.metric, normalize |-> c.normalize,
                 index |-> c.index, M |-> c.M, ef_construction |-> c.ef_construction,
                 ef_search |-> c.ef_search, max_level |-> c.max_level, seed |-> c.seed]
  <2>1. c.dim \in 0..U32 - 1
    BY <1>9, Widths
  <2>2. /\ Cast(c.dim, U32) = c.dim /\ Cast(c.M, U32) = c.M /\ Cast(c.ef_search, U32) = c.ef_search
        /\ Cast(c.ef_construction, U32) = c.ef_construction /\ Cast(c.max_level, U8) = c.max_level
    BY <2>1, <1>9, CastKeeps, Widths
  <2> QED BY <2>2, <1>8, <1>9, <1>10
<1> HIDE DEF config
<1>12. ConfigValid(config)
  BY <1>11, <1>9 DEF ConfigValid, ParamsValid
<1>13. \A i \in DOMAIN f : ConfigFieldOk(f[i][1], f[i][2])
  <2>1. /\ c.M \in 0..kMaxM /\ c.ef_construction \in 0..kMaxEf /\ c.ef_search \in 0..kMaxEf
        /\ c.max_level \in 0..kMaxLevelCap
    BY <1>9, Widths DEF ParamsValid
  <2>2. {"l2", "ip", "cosine"} \subseteq DOMAIN MetricNamed /\ "hnsw" \in DOMAIN IndexTypeNamed
    BY DEF MetricNamed, IndexTypeNamed
  <2>3. /\ 1 < U64 /\ c.dim < U64 /\ c.M < U64 /\ c.ef_construction < U64
        /\ c.ef_search < U64 /\ c.max_level < U64 /\ c.seed < U64 /\ c.seed <= U64 /\ 1 <= U64
    BY <1>9, Widths, CodecAssumption
  <2>4. ConfigFieldOk(f[1][1], f[1][2])
    <3>1. f[1][1] = "format" /\ f[1][2] = <<"uint", 1>>
      BY <1>3
    <3> QED BY <3>1, <2>1, <2>2, <2>3, <1>9, <1>10 DEF ConfigFieldOk, ScanNumber, ScanString, ScanBoolean, Is
  <2>5. ConfigFieldOk(f[2][1], f[2][2])
    <3>1. f[2][1] = "dim" /\ f[2][2] = <<"uint", c.dim>>
      BY <1>3
    <3> QED BY <3>1, <2>1, <2>2, <2>3, <1>9, <1>10 DEF ConfigFieldOk, ScanNumber, ScanString, ScanBoolean, Is
  <2>6. ConfigFieldOk(f[3][1], f[3][2])
    <3>1. f[3][1] = "metric" /\ f[3][2] = <<"string", NameOf[c.metric]>>
      BY <1>3
    <3> QED BY <3>1, <2>1, <2>2, <2>3, <1>9, <1>10 DEF ConfigFieldOk, ScanNumber, ScanString, ScanBoolean, Is
  <2>7. ConfigFieldOk(f[4][1], f[4][2])
    <3>1. f[4][1] = "normalize" /\ f[4][2] = <<"bool", c.normalize>>
      BY <1>3
    <3> QED BY <3>1, <2>1, <2>2, <2>3, <1>9, <1>10 DEF ConfigFieldOk, ScanNumber, ScanString, ScanBoolean, Is
  <2>8. ConfigFieldOk(f[5][1], f[5][2])
    <3>1. f[5][1] = "index" /\ f[5][2] = <<"string", NameOf[c.index]>>
      BY <1>3
    <3> QED BY <3>1, <2>1, <2>2, <2>3, <1>9, <1>10 DEF ConfigFieldOk, ScanNumber, ScanString, ScanBoolean, Is
  <2>9. ConfigFieldOk(f[6][1], f[6][2])
    <3>1. f[6][1] = "M" /\ f[6][2] = <<"uint", c.M>>
      BY <1>3
    <3> QED BY <3>1, <2>1, <2>2, <2>3, <1>9, <1>10 DEF ConfigFieldOk, ScanNumber, ScanString, ScanBoolean, Is
  <2>10. ConfigFieldOk(f[7][1], f[7][2])
    <3>1. f[7][1] = "ef_construction" /\ f[7][2] = <<"uint", c.ef_construction>>
      BY <1>3
    <3> QED BY <3>1, <2>1, <2>2, <2>3, <1>9, <1>10 DEF ConfigFieldOk, ScanNumber, ScanString, ScanBoolean, Is
  <2>11. ConfigFieldOk(f[8][1], f[8][2])
    <3>1. f[8][1] = "ef_search" /\ f[8][2] = <<"uint", c.ef_search>>
      BY <1>3
    <3> QED BY <3>1, <2>1, <2>2, <2>3, <1>9, <1>10 DEF ConfigFieldOk, ScanNumber, ScanString, ScanBoolean, Is
  <2>12. ConfigFieldOk(f[9][1], f[9][2])
    <3>1. f[9][1] = "max_level" /\ f[9][2] = <<"uint", c.max_level>>
      BY <1>3
    <3> QED BY <3>1, <2>1, <2>2, <2>3, <1>9, <1>10 DEF ConfigFieldOk, ScanNumber, ScanString, ScanBoolean, Is
  <2>13. ConfigFieldOk(f[10][1], f[10][2])
    <3>1. f[10][1] = "seed" /\ f[10][2] = <<"uint", c.seed>>
      BY <1>3
    <3> QED BY <3>1, <2>3, <1>9, SMTT(30) DEF ConfigFieldOk, ScanNumber, Is
  <2> QED BY <1>3, <2>4, <2>5, <2>6, <2>7, <2>8, <2>9, <2>10, <2>11, <2>12, <2>13
<1>14. DecodeConfig(file) = Ok(config)
  BY <1>1, <1>2, <1>3, <1>5, <1>12, <1>13
<1> QED BY <1>14, <1>11 DEF Reopens, Ok
-----------------------------------------------------------------------------
\* A field of 'index' that passed is kept as it was given, and what is not given
\* has its default.
LEMMA FieldKept ==
    ASSUME NEW index, \A key \in DOMAIN index : index[key] \in Json /\ IndexFieldOk(key, index[key]),
           NEW key \in {"M", "ef_construction", "ef_search", "max_level", "seed"}, NEW default
    PROVE  /\ key \notin DOMAIN index => IndexField(index, key, default) = default
           /\ Says(index, key, IndexField(index, key, default))
           /\ key \in DOMAIN index =>
                IndexField(index, key, default) \in
                   0..(IF key = "seed" THEN U64 ELSE IF key = "max_level" THEN U8 ELSE U32) - 1
<1>1. CASE key \notin DOMAIN index
  BY <1>1 DEF IndexField, Says
<1>2. CASE key \in DOMAIN index
  <2> DEFINE v == index[key]
  <2>1. v \in Json /\ IndexFieldOk(key, v)
    BY <1>2
  <2>2. CASE key \in {"M", "ef_construction", "ef_search"}
    <3>1. GetUint(v, U32 - 1)
      BY <2>1, <2>2 DEF IndexFieldOk
    <3>2. v[2] \in 0..U32 - 1
      BY <3>1, <2>1, JsonValue, Widths DEF GetUint, Is
    <3>3. Cast(v[2], U32) = v[2]
      BY <3>2, CastKeeps, Widths
    <3>4. IndexField(index, key, default) = v[2]
      BY <3>3, <2>2, <1>2 DEF IndexField
    <3>5. key # "seed" /\ key # "max_level"
      BY <2>2
    <3> QED BY <3>2, <3>4, <3>5, <1>2 DEF Says
  <2>3. CASE key = "max_level"
    <3>1. GetUint(v, U32 - 1) /\ v[2] <= kMaxLevelCap
      BY <2>1, <2>3 DEF IndexFieldOk
    <3>2. v[2] \in 0..U8 - 1
      BY <3>1, <2>1, JsonValue, Widths, SMTT(30) DEF GetUint, Is
    <3>3. Cast(v[2], U8) = v[2]
      BY <3>2, CastKeeps, Widths
    <3>4. IndexField(index, key, default) = v[2]
      BY <3>3, <2>3, <1>2 DEF IndexField
    <3> QED BY <3>2, <3>4, <2>3, <1>2 DEF Says
  <2>4. CASE key = "seed"
    <3>1. GetUint(v, U64 - 1)
      BY <2>1, <2>4 DEF IndexFieldOk
    <3>2. v[2] \in 0..U64 - 1
      BY <3>1, <2>1, JsonValue, Widths DEF GetUint, Is
    <3>3. IndexField(index, key, default) = v[2]
      BY <2>4, <1>2 DEF IndexField
    <3> QED BY <3>2, <3>3, <2>4, <1>2 DEF Says
  <2> QED BY <2>2, <2>3, <2>4
<1> QED BY <1>1, <1>2

\* The fields of 'index' that are names.
LEMMA NameKept ==
    ASSUME NEW index, \A key \in DOMAIN index : IndexFieldOk(key, index[key])
    PROVE  /\ IndexField(index, "type", "Hnsw") \in {"Flat", "Hnsw"}
           /\ IndexField(index, "concurrency", "Concurrent") \in {"Coarse", "Concurrent"}
<1>1. "type" \in DOMAIN index => index["type"][2] \in {"flat", "hnsw"}
  BY DEF IndexFieldOk, IndexTypeNamed
<1>2. IndexField(index, "type", "Hnsw") \in {"Flat", "Hnsw"}
  BY <1>1 DEF IndexField, IndexTypeNamed
<1>3. "concurrency" \in DOMAIN index => index["concurrency"][2] \in {"coarse", "concurrent"}
  BY DEF IndexFieldOk, ConcurrencyNamed
<1>4. IndexField(index, "concurrency", "Concurrent") \in {"Coarse", "Concurrent"}
  BY <1>3 DEF IndexField, ConcurrencyNamed
<1> QED BY <1>2, <1>4

\* What AcceptedRequestsAreFaithful says of a new collection.
CreateOk(doc, a) ==
    /\ a.status = 422 => ExceedsLimits("create", doc)
    /\ a.status = 200 => CreateFaithful(doc[2], a.value)

\* decode_create keeps every number it accepts, and config.json brings back a
\* collection with a graph as it was created.
LEMMA CreateDecoded ==
    ASSUME NEW text, NEW doc \in Json
    PROVE  CreateOk(doc, DecodeCreate(text, doc))
<1> DEFINE index == IF "index" \in Fields(doc) THEN doc[2].index ELSE <<"object", <<>> >>
           d     == DefaultConfig
           config ==
             [dim |-> Cast(doc[2].dim[2], U32),
              metric |-> IF "metric" \in Fields(doc) THEN MetricNamed[doc[2].metric[2]]
                        ELSE d.metric,
              normalize |-> IF "normalize" \in Fields(doc) THEN doc[2].normalize[2] ELSE d.normalize,
              index |-> IndexField(index[2], "type", d.index),
              M |-> IndexField(index[2], "M", d.M),
              ef_construction |-> IndexField(index[2], "ef_construction", d.ef_construction),
              ef_search |-> IndexField(index[2], "ef_search", d.ef_search),
              max_level |-> IndexField(index[2], "max_level", d.max_level),
              seed |-> IndexField(index[2], "seed", d.seed),
              concurrency |-> IndexField(index[2], "concurrency", d.concurrency)]
           dimGiven ==
             /\ ObjectStatus(text, doc, {"name", "dim", "metric", "normalize", "index"}) = 200
             /\ "name" \in Fields(doc) /\ Is(doc[2].name, "string") /\ doc[2].name[2] = "valid"
             /\ "dim" \in Fields(doc) /\ GetUint(doc[2].dim, U32 - 1) /\ doc[2].dim[2] # 0
           rest ==
             /\ "metric" \in Fields(doc) =>
                   Is(doc[2].metric, "string") /\ doc[2].metric[2] \in DOMAIN MetricNamed
             /\ "normalize" \in Fields(doc) => Is(doc[2].normalize, "bool")
             /\ Is(index, "object")
             /\ \A key \in DOMAIN index[2] : IndexFieldOk(key, index[2][key])
             /\ ConfigValid(config)
           large == doc[2].dim[2] > Limits.max_dim
           a     == DecodeCreate(text, doc)
<1>1. a = IF ~dimGiven THEN Refused(400)
          ELSE IF large THEN Refused(422)
          ELSE IF ~rest THEN Refused(400) ELSE Ok(config)
  BY DEF DecodeCreate
<1> HIDE DEF a
<1>2. ASSUME a.status = 422
      PROVE  ExceedsLimits("create", doc)
  <2> HIDE DEF dimGiven, large, rest, config
  <2>1. dimGiven /\ large
    BY <1>1, <1>2 DEF Refused, Ok
  <2>2. Over(doc[2], "dim", Limits.max_dim)
    BY <2>1 DEF Over, dimGiven, large, Fields
  <2> QED BY <2>2 DEF ExceedsLimits
<1>3. ASSUME a.status = 200
      PROVE  CreateFaithful(doc[2], a.value)
  <2> HIDE DEF dimGiven, large, rest, config
  <2>1. dimGiven /\ ~large /\ rest /\ a.value = config
    BY <1>1, <1>3 DEF Refused, Ok
  <2>2. Is(doc, "object") /\ "dim" \in DOMAIN doc[2] /\ GetUint(doc[2].dim, U32 - 1)
    BY <2>1, ObjectStatusIs DEF dimGiven, Fields
  <2>3. \A key \in DOMAIN doc[2] : doc[2][key] \in Json
    BY <2>2, JsonValue DEF Is
  <2>4. doc[2].dim[2] \in 0..U32 - 1
    BY <2>2, <2>3, JsonValue, Widths DEF GetUint, Is
  <2>5. config.dim = doc[2].dim[2]
    BY <2>4, CastKeeps, Widths DEF config
  <2>6. Says(doc[2], "dim", config.dim) /\ config.dim <= Limits.max_dim
    BY <2>1, <2>4, <2>5, Widths DEF Says, large
  <2>7. ConfigValid(config) /\ \A key \in DOMAIN index[2] : IndexFieldOk(key, index[2][key])
    BY <2>1 DEF rest
  <2>8. \A key \in DOMAIN index[2] : index[2][key] \in Json
    <3>1. CASE "index" \in DOMAIN doc[2]
      <4>1. index \in Json /\ Is(index, "object")
        BY <3>1, <2>1, <2>3 DEF rest, Fields
      <4> QED BY <4>1, JsonValue DEF Is
    <3>2. CASE "index" \notin DOMAIN doc[2]
      BY <3>2 DEF Fields
    <3> QED BY <3>1, <3>2
  <2> HIDE DEF index
  <2>9. d.metric = "L2" /\ d.normalize = FALSE /\ d.index = "Hnsw" /\ d.seed = 2430
        /\ d.M = 16 /\ d.ef_construction = 200 /\ d.ef_search = 50 /\ d.max_level = 16
        /\ d.concurrency = "Concurrent"
    BY DEF DefaultConfig
  <2>10. /\ Says(index[2], "M", config.M) /\ Says(index[2], "seed", config.seed)
         /\ Says(index[2], "ef_construction", config.ef_construction)
         /\ Says(index[2], "ef_search", config.ef_search)
         /\ Says(index[2], "max_level", config.max_level)
    BY <2>7, <2>8, FieldKept DEF config
  <2>11. \A key \in {"M", "ef_construction", "ef_search", "max_level", "seed"} :
            Says(index[2], key, config[key])
    BY <2>10 DEF config
  <2>12. ASSUME config.index = "Hnsw"
         PROVE  Reopens(config)
    <3>1. config.seed \in 0..U64 - 1
      <4>1. "seed" \in DOMAIN index[2] => config.seed \in 0..U64 - 1
        BY <2>7, <2>8, FieldKept DEF config
      <4>2. "seed" \notin DOMAIN index[2] => config.seed = 2430
        BY <2>7, <2>8, <2>9, FieldKept DEF config
      <4> QED BY <4>1, <4>2, CodecAssumption
    <3>2. ParamsValid(config) /\ config.dim \in 1..kMaxDim
      BY <2>7, <2>12 DEF ConfigValid
    <3>3. /\ config.M \in 0..U32 - 1 /\ config.ef_construction \in 0..U32 - 1
          /\ config.ef_search \in 0..U32 - 1 /\ config.max_level \in 0..U8 - 1
      BY <3>2, Widths DEF ParamsValid
    <3>4. config.metric \in {"L2", "InnerProduct", "Cosine"}
      BY <2>1, <2>9 DEF config, rest, MetricNamed
    <3>5. config.normalize \in BOOLEAN
      <4>1. CASE "normalize" \in Fields(doc)
        <5>1. doc[2].normalize \in Json /\ Is(doc[2].normalize, "bool")
          BY <4>1, <2>1, <2>3 DEF rest, Fields
        <5>2. doc[2].normalize[2] \in BOOLEAN
          BY <5>1, JsonValue DEF Is
        <5> QED BY <5>2, <4>1 DEF config
      <4>2. CASE "normalize" \notin Fields(doc)
        <5>1. config.normalize = d.normalize
          BY <4>2 DEF config
        <5>2. d.normalize = FALSE
          BY <2>9
        <5> QED BY <5>1, <5>2
      <4> QED BY <4>1, <4>2
    <3>6. config.concurrency \in {"Coarse", "Concurrent"}
      BY <2>7, <2>9, NameKept DEF config
    <3>7. config = [dim |-> config.dim, metric |-> config.metric, normalize |-> config.normalize,
                    index |-> config.index, M |-> config.M,
                    ef_construction |-> config.ef_construction, ef_search |-> config.ef_search,
                    max_level |-> config.max_level, seed |-> config.seed,
                    concurrency |-> config.concurrency]
      BY DEF config
    <3>8. config \in GraphConfigs
      BY <3>1, <3>2, <3>3, <3>4, <3>5, <3>6, <3>7, <2>12 DEF GraphConfigs
    <3> QED BY <3>2, <3>8, GraphConfigsReopen
  <2>13. index[2] = IF "index" \in DOMAIN doc[2] THEN doc[2]["index"][2] ELSE <<>>
    BY DEF index, Fields
  <2> QED BY <2>1, <2>6, <2>7, <2>11, <2>12, <2>13 DEF CreateFaithful
<1> QED BY <1>2, <1>3 DEF CreateOk, a
-----------------------------------------------------------------------------
\* Every body is decoded faithfully.
LEMMA BodyDecoded ==
    ASSUME NEW body \in Bodies \cup SearchBodies
    PROVE  /\ body.route = "create" => CreateOk(body.doc, Decode(body))
           /\ body.route = "insert" => InsertOk(body.doc, Decode(body))
           /\ body.route = "bulk" => BulkOk(body.doc, Decode(body))
           /\ body.route \in {"search", "batch"} => SearchOk(body.doc, body.route, Decode(body))
           /\ body.route \in {"create", "insert", "bulk", "search", "batch"}
<1>1. \/ body.route = "bulk" /\ IsBulk(body.doc)
      \/ body.route \in {"create", "insert", "search", "batch"} /\ body.doc \in Json
  BY BodiesAssumption DEF AreBodies
<1>2. CASE body.route = "create"
  <2>1. Decode(body) = DecodeCreate(body.text, body.doc)
    BY <1>2 DEF Decode
  <2> QED BY <2>1, <1>1, <1>2, CreateDecoded
<1>3. CASE body.route = "insert"
  <2>1. Decode(body) = DecodeInsert(body.text, body.doc, Dim)
    BY <1>3 DEF Decode
  <2> QED BY <2>1, <1>1, <1>3, InsertDecoded
<1>4. CASE body.route = "bulk"
  <2>1. Decode(body) = DecodeBulk(body.doc, Dim)
    BY <1>4 DEF Decode
  <2> QED BY <2>1, <1>1, <1>4, BulkDecoded
<1>5. CASE body.route = "search"
  <2>1. Decode(body) = DecodeSearch(body.text, body.doc, Dim, FALSE)
    BY <1>5 DEF Decode
  <2> QED BY <2>1, <1>1, <1>5, SearchDecoded
<1>6. CASE body.route = "batch"
  <2>1. Decode(body) = DecodeSearch(body.text, body.doc, Dim, TRUE)
    BY <1>6 DEF Decode
  <2> QED BY <2>1, <1>1, <1>6, SearchDecoded
<1> QED BY <1>1, <1>2, <1>3, <1>4, <1>5, <1>6
=============================================================================

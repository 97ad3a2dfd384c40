------------------------ MODULE SearchRequestsProofs ------------------------
(***************************************************************************)
(* Proofs about SearchRequests, for any threads, contexts, rows, epochs,   *)
(* limits and request bodies.                                              *)
(***************************************************************************)
EXTENDS RequestCodecProofs

TypeOK ==
    /\ pc \in [Threads -> {"idle", "acquire", "register", "prepare", "search", "release"}]
    /\ beam \in [Threads -> Nat]
    /\ lease \in [Threads -> Contexts \cup {None}]
    /\ free \in Seq(Contexts)
    /\ capacity \in Nat /\ created \in Nat /\ rows \in Nat
    /\ context \in [Contexts -> [marks : Seq(Nat), epoch : 1..EpochMax, results : Nat]]
    /\ seen \in [Threads -> SUBSET Nat]

\* A thread has a context from the moment acquire() found or made one.
Holding == {"register", "prepare", "search", "release"}
LeasesFollow == \A t \in Threads : lease[t] # None <=> pc[t] \in Holding

\* No context is in two hands.
OneHolder ==
    /\ \A t, u \in Threads : t # u /\ lease[t] # None => lease[t] # lease[u]
    /\ \A i, j \in DOMAIN free : i # j => free[i] # free[j]
    /\ \A t \in Threads, i \in DOMAIN free : lease[t] # free[i]

\* created_ counts the contexts that are idle or leased; one that is not yet
\* registered is not counted.  There is room for all of them.
Holders == {t \in Threads : pc[t] \in {"prepare", "search", "release"}}
Counted ==
    /\ IsFiniteSet(Holders)
    /\ created = Len(free) + Cardinality(Holders)
    /\ created <= capacity

\* No mark is of an epoch to come.
MarksArePast == \A c \in Contexts : \A i \in 1..Len(context[c].marks) :
                    context[c].marks[i] <= context[c].epoch

\* A search has seen nothing before it begins.
SeenIsFresh == \A t \in Threads : pc[t] \notin {"search", "release"} => seen[t] = {}

\* What was answered is what the decoder made of a body.
AnswerIsDecoded ==
    \/ answered = NoRequest
    \/ \E body \in Bodies :
          answered = [route |-> body.route, body |-> body, answer |-> Decode(body)]

PoolInv == TypeOK /\ LeasesFollow /\ OneHolder /\ Counted /\ MarksArePast /\ SeenIsFresh
IndInv == PoolInv /\ VisitsAreFresh /\ AnswerIsDecoded
-----------------------------------------------------------------------------
\* What a context holds.
AContext == [marks : Seq(Nat), epoch : 1..EpochMax, results : Nat]
Past(c) == \A i \in 1..Len(c.marks) : c.marks[i] <= c.epoch

\* ensure_capacity keeps the marks and adds zeroes.
LEMMA GrownIs ==
    ASSUME NEW marks \in Seq(Nat), NEW n \in Nat
    PROVE  /\ Grown(marks, n) \in Seq(Nat)
           /\ n <= Len(Grown(marks, n))
           /\ \A i \in 1..Len(Grown(marks, n)) :
                 Grown(marks, n)[i] = IF i <= Len(marks) THEN marks[i] ELSE 0
<1> DEFINE len == IF n > Len(marks) THEN n ELSE Len(marks)
<1>1. len \in Nat /\ n <= len
  OBVIOUS
<1> HIDE DEF len
<1>2. Grown(marks, n) = [i \in 1..len |-> IF i <= Len(marks) THEN marks[i] ELSE 0]
  BY DEF Grown, len
<1>3. \A i \in 1..len : (IF i <= Len(marks) THEN marks[i] ELSE 0) \in Nat
  BY <1>1
<1>4. Grown(marks, n) \in Seq(Nat) /\ Len(Grown(marks, n)) = len
  BY <1>1, <1>2, <1>3
<1> QED BY <1>1, <1>2, <1>4

\* A context whose marks were grown is one, with no mark of a later epoch.
LEMMA GrownContext ==
    ASSUME NEW c \in AContext, Past(c), NEW n \in Nat, NEW r \in Nat
    PROVE  LET p == [marks |-> Grown(c.marks, n), epoch |-> c.epoch, results |-> r] IN
           p \in AContext /\ Past(p) /\ n <= Len(p.marks)
<1> DEFINE g == Grown(c.marks, n)
<1>1. c.marks \in Seq(Nat) /\ c.epoch \in 1..EpochMax /\ EpochMax \in Nat
  BY RequestsAssumption DEF AContext
<1>2. /\ g \in Seq(Nat) /\ n <= Len(g)
      /\ \A i \in 1..Len(g) : g[i] = IF i <= Len(c.marks) THEN c.marks[i] ELSE 0
  BY <1>1, GrownIs
<1> HIDE DEF g
<1>3. \A i \in 1..Len(g) : g[i] <= c.epoch
  BY <1>1, <1>2 DEF Past
<1>4. [marks |-> g, epoch |-> c.epoch, results |-> r] \in AContext
  BY <1>1, <1>2 DEF AContext
<1> QED BY <1>2, <1>3, <1>4 DEF Past, g

\* After reset() no row counts as visited, also when the epoch wraps.
LEMMA ResetIs ==
    ASSUME NEW c \in AContext, Past(c)
    PROVE  /\ Reset(c) \in AContext /\ Past(Reset(c))
           /\ Len(Reset(c).marks) = Len(c.marks) /\ Reset(c).results = c.results
           /\ \A i \in 1..Len(Reset(c).marks) : Reset(c).marks[i] # Reset(c).epoch
<1>1. c.marks \in Seq(Nat) /\ c.epoch \in 1..EpochMax /\ EpochMax \in Nat /\ c.results \in Nat
  BY RequestsAssumption DEF AContext
<1>2. CASE c.epoch = EpochMax
  <2> DEFINE z == [i \in DOMAIN c.marks |-> 0]
  <2>1. Reset(c) = [marks |-> z, epoch |-> 1, results |-> c.results]
    BY <1>2 DEF Reset, AContext
  <2>2. z \in Seq(Nat) /\ Len(z) = Len(c.marks) /\ \A i \in 1..Len(z) : z[i] = 0
    BY <1>1
  <2> HIDE DEF z
  <2>3. Reset(c) \in AContext
    BY <2>1, <2>2, <1>1 DEF AContext
  <2> QED BY <2>1, <2>2, <2>3 DEF Past
<1>3. CASE c.epoch # EpochMax
  <2>1. Reset(c) = [marks |-> c.marks, epoch |-> c.epoch + 1, results |-> c.results]
    BY <1>3 DEF Reset, AContext
  <2>2. Reset(c) \in AContext
    BY <2>1, <1>1, <1>3 DEF AContext
  <2>3. \A i \in 1..Len(c.marks) : c.marks[i] \in Nat /\ c.marks[i] <= c.epoch
    BY <1>1 DEF Past
  <2>4. \A i \in 1..Len(c.marks) : c.marks[i] # c.epoch + 1 /\ c.marks[i] <= c.epoch + 1
    BY <2>3, <1>1
  <2> QED BY <2>1, <2>2, <2>4 DEF Past
<1> QED BY <1>2, <1>3

\* One more thread holds a registered context.
LEMMA OneMore ==
    ASSUME NEW S, NEW T, NEW t, IsFiniteSet(S), t \notin S, T = S \cup {t}
    PROVE  IsFiniteSet(T) /\ Cardinality(T) = Cardinality(S) + 1 /\ Cardinality(S) \in Nat
BY FS_AddElement, FS_CardinalityType

\* One thread less.
LEMMA OneLess ==
    ASSUME NEW S, NEW T, NEW t, IsFiniteSet(S), t \in S, T = S \ {t}
    PROVE  /\ IsFiniteSet(T) /\ Cardinality(T) = Cardinality(S) - 1
           /\ Cardinality(T) \in Nat /\ Cardinality(S) \in Nat
BY FS_RemoveElement, FS_CardinalityType
-----------------------------------------------------------------------------
\* In the beginning nobody searches and the pool is empty.
LEMMA InitInv == Init => IndInv
<1> SUFFICES ASSUME Init PROVE IndInv
  OBVIOUS
<1> USE DEF Init
<1>1. TypeOK
  <2>1. NewContext \in AContext
    BY RequestsAssumption DEF NewContext, AContext
  <2>2. context \in [Contexts -> AContext]
    BY <2>1
  <2> QED BY <2>2 DEF TypeOK, AContext
<1>2. LeasesFollow
  BY DEF LeasesFollow, Holding
<1>3. OneHolder
  BY DEF OneHolder
<1>4. Counted
  <2>1. Holders = {}
    BY DEF Holders
  <2> QED BY <2>1, FS_EmptySet DEF Counted
<1>5. MarksArePast
  BY DEF MarksArePast, NewContext
<1>6. SeenIsFresh /\ VisitsAreFresh /\ AnswerIsDecoded
  BY DEF SeenIsFresh, VisitsAreFresh, AnswerIsDecoded
<1> QED BY <1>1, <1>2, <1>3, <1>4, <1>5, <1>6 DEF IndInv, PoolInv

\* A step that changes nothing but the answer.
LEMMA Quiet ==
    ASSUME IndInv, UNCHANGED <<pc, beam, lease, pool, context, rows, seen>>, AnswerIsDecoded'
    PROVE  IndInv'
<1> USE DEF IndInv, PoolInv, pool
<1>1. TypeOK' /\ LeasesFollow' /\ OneHolder' /\ MarksArePast' /\ SeenIsFresh'
  BY DEF TypeOK, LeasesFollow, OneHolder, MarksArePast, SeenIsFresh
<1>2. Counted'
  BY DEF Counted, Holders
<1>3. VisitsAreFresh'
  BY DEF VisitsAreFresh
<1> QED BY <1>1, <1>2, <1>3
-----------------------------------------------------------------------------
\* A thread that starts or ends without a context, or goes on with the one it
\* has, disturbs no other: only its pc and its beam change.
LEMMA Moved ==
    ASSUME IndInv, NEW t \in Threads, NEW to, NEW b \in Nat,
           (pc[t] = "idle" /\ to = "acquire") \/ (pc[t] = "search" /\ to = "release"),
           pc' = [pc EXCEPT ![t] = to], beam' = [beam EXCEPT ![t] = b],
           UNCHANGED <<lease, pool, context, rows, seen, answered>>
    PROVE  IndInv'
<1> USE DEF IndInv, PoolInv, pool
<1>1. TypeOK'
  BY DEF TypeOK
<1>2. LeasesFollow'
  BY DEF LeasesFollow, Holding, TypeOK
<1>3. OneHolder' /\ MarksArePast' /\ AnswerIsDecoded'
  BY DEF OneHolder, MarksArePast, AnswerIsDecoded
<1>4. Counted'
  <2>1. Holders' = Holders
    BY DEF Holders, TypeOK
  <2> QED BY <2>1 DEF Counted
<1>5. SeenIsFresh'
  BY DEF SeenIsFresh, TypeOK
<1>6. VisitsAreFresh'
  <2> SUFFICES ASSUME NEW u \in Threads, pc'[u] = "search"
               PROVE  u # t /\ pc[u] = "search" /\ beam'[u] = beam[u]
    BY DEF VisitsAreFresh
  <2> QED BY DEF TypeOK
<1> QED BY <1>1, <1>2, <1>3, <1>4, <1>5, <1>6

\* The beam of an accepted search is a number.
LEMMA StartInv ==
    ASSUME IndInv, NEW t \in Threads, NEW body \in SearchBodies, Start(t, body)
    PROVE  IndInv'
<1> DEFINE answer == Decode(body)
           k      == IF answer.value.k < rows THEN answer.value.k ELSE rows
           ef     == IF answer.value.ef_search # 0 THEN answer.value.ef_search ELSE DefaultEf
           b      == IF ef < k THEN k ELSE ef
<1>1. body.route \in {"search", "batch"}
  BY BodiesAssumption
<1>2. SearchOk(body.doc, body.route, answer)
  BY <1>1, BodyDecoded
<1>3. /\ answer.status = 200 /\ pc[t] = "idle"
      /\ beam' = [beam EXCEPT ![t] = b]
      /\ pc' = [pc EXCEPT ![t] = "acquire"]
      /\ UNCHANGED <<lease, pool, context, rows, seen, answered>>
  BY DEF Start
<1>4. answer.value.k \in Nat /\ answer.value.ef_search \in Nat
  BY <1>2, <1>3 DEF SearchOk
<1>5. rows \in Nat /\ DefaultEf \in Nat
  BY RequestsAssumption DEF IndInv, PoolInv, TypeOK
<1>6. b \in Nat
  BY <1>4, <1>5
<1> HIDE DEF b
<1> QED BY <1>3, <1>6, Moved

\* What is left when the last element is taken.
LEMMA Popped ==
    ASSUME NEW S, NEW s \in Seq(S), Len(s) # 0
    PROVE  /\ SubSeq(s, 1, Len(s) - 1) \in Seq(S)
           /\ Len(SubSeq(s, 1, Len(s) - 1)) = Len(s) - 1
           /\ \A i \in 1..Len(s) - 1 : SubSeq(s, 1, Len(s) - 1)[i] = s[i]
<1> DEFINE n == Len(s) - 1
<1>1. n \in Nat /\ \A i \in 1..n : s[i] \in S
  OBVIOUS
<1> HIDE DEF n
<1>2. SubSeq(s, 1, n) \in Seq(S) /\ Len(SubSeq(s, 1, n)) = n
  BY <1>1
<1>3. \A i \in 1..n : SubSeq(s, 1, n)[i] = s[i]
  BY <1>1
<1> QED BY <1>2, <1>3 DEF n

\* An idle context goes from the pool to one thread.
LEMMA AcquireFreeInv ==
    ASSUME IndInv, NEW t \in Threads, AcquireFree(t)
    PROVE  IndInv'
<1> USE DEF IndInv, PoolInv
<1> DEFINE n == Len(free)
<1>1. /\ pc[t] = "acquire" /\ free # <<>> /\ lease' = [lease EXCEPT ![t] = free[n]]
      /\ free' = SubSeq(free, 1, n - 1) /\ pc' = [pc EXCEPT ![t] = "prepare"]
      /\ UNCHANGED <<beam, capacity, created, context, rows, seen, answered>>
  BY DEF AcquireFree
<1>2. free \in Seq(Contexts) /\ n \in Nat \ {0} /\ free[n] \in Contexts /\ lease[t] = None
  <2>1. free \in Seq(Contexts) /\ lease[t] = None
    BY <1>1 DEF TypeOK, LeasesFollow, Holding
  <2>2. Len(free) # 0
    BY <2>1, <1>1
  <2> QED BY <2>1, <2>2
<1>3. free' \in Seq(Contexts) /\ Len(free') = n - 1 /\ \A i \in 1..n - 1 : free'[i] = free[i]
  BY <1>1, <1>2, Popped
<1> HIDE DEF n
<1>4. TypeOK'
  BY <1>1, <1>2, <1>3 DEF TypeOK
<1>5. LeasesFollow'
  BY <1>1, <1>2, RequestsAssumption DEF LeasesFollow, Holding, TypeOK
<1>6. OneHolder'
  <2>1. DOMAIN free = 1..n /\ DOMAIN free' = 1..n - 1
    BY <1>2, <1>3 DEF n
  <2>2. \A u \in Threads : u # t => lease'[u] = lease[u]
    BY <1>1 DEF TypeOK
  <2>3. lease'[t] = free[n] /\ \A u \in Threads : lease[u] # free[n]
    BY <1>1, <1>2, <2>1 DEF TypeOK, OneHolder
  <2>4. \A u, w \in Threads : u # w /\ lease'[u] # None => lease'[u] # lease'[w]
    BY <2>2, <2>3 DEF OneHolder
  <2>5. \A i, j \in 1..n - 1 : i # j => free'[i] # free'[j]
    BY <1>2, <1>3, <2>1 DEF OneHolder
  <2>6. \A u \in Threads, i \in 1..n - 1 : lease'[u] # free'[i]
    BY <1>2, <1>3, <2>1, <2>2, <2>3 DEF OneHolder
  <2> QED BY <2>1, <2>4, <2>5, <2>6 DEF OneHolder
<1>7. Counted'
  <2>1. Holders' = Holders \cup {t} /\ t \notin Holders
    BY <1>1 DEF Holders, TypeOK
  <2>2. IsFiniteSet(Holders') /\ Cardinality(Holders') = Cardinality(Holders) + 1
        /\ Cardinality(Holders) \in Nat
    BY <2>1, OneMore DEF Counted
  <2> QED BY <2>2, <1>1, <1>2, <1>3 DEF Counted, n
<1>8. MarksArePast' /\ AnswerIsDecoded'
  BY <1>1 DEF MarksArePast, AnswerIsDecoded
<1>9. SeenIsFresh'
  BY <1>1 DEF SeenIsFresh, TypeOK
<1>10. VisitsAreFresh'
  <2> SUFFICES ASSUME NEW u \in Threads, pc'[u] = "search"
               PROVE  pc[u] = "search" /\ lease'[u] = lease[u]
    BY <1>1 DEF VisitsAreFresh
  <2> QED BY <1>1 DEF TypeOK
<1> QED BY <1>4, <1>5, <1>6, <1>7, <1>8, <1>9, <1>10

\* A new context is at an address nobody uses.
LEMMA AcquireNewInv ==
    ASSUME IndInv, NEW t \in Threads, AcquireNew(t)
    PROVE  IndInv'
<1> USE DEF IndInv, PoolInv
<1>1. PICK c \in Contexts \ InUse :
         /\ lease' = [lease EXCEPT ![t] = c] /\ context' = [context EXCEPT ![c] = NewContext]
  BY DEF AcquireNew
<1>2. /\ pc[t] = "acquire" /\ pc' = [pc EXCEPT ![t] = "register"]
      /\ UNCHANGED <<beam, free, capacity, created, rows, seen, answered>>
  BY DEF AcquireNew, pool
<1>3. /\ c \in Contexts /\ \A u \in Threads : lease[u] # c
      /\ \A i \in DOMAIN free : free[i] # c
  BY <1>1 DEF InUse
<1>4. NewContext \in AContext /\ NewContext.marks = <<>> /\ lease[t] = None
  BY <1>2, RequestsAssumption DEF NewContext, AContext, LeasesFollow, Holding
<1>5. TypeOK'
  <2>1. context' \in [Contexts -> AContext]
    BY <1>1, <1>4 DEF TypeOK, AContext
  <2> QED BY <2>1, <1>1, <1>2, <1>3 DEF TypeOK, AContext
<1>6. LeasesFollow'
  BY <1>1, <1>2, <1>3, RequestsAssumption DEF LeasesFollow, Holding, TypeOK
<1>7. OneHolder'
  <2>1. lease'[t] = c /\ \A u \in Threads : u # t => lease'[u] = lease[u]
    BY <1>1 DEF TypeOK
  <2> QED BY <2>1, <1>2, <1>3 DEF OneHolder
<1>8. Counted'
  <2>1. Holders' = Holders
    BY <1>2 DEF Holders, TypeOK
  <2> QED BY <2>1, <1>2 DEF Counted
<1>9. MarksArePast'
  BY <1>1, <1>4 DEF MarksArePast, TypeOK
<1>10. SeenIsFresh' /\ AnswerIsDecoded'
  BY <1>2 DEF SeenIsFresh, AnswerIsDecoded, TypeOK
<1>11. VisitsAreFresh'
  <2> SUFFICES ASSUME NEW u \in Threads, pc'[u] = "search"
               PROVE  /\ pc[u] = "search" /\ lease'[u] = lease[u]
                      /\ context'[lease[u]] = context[lease[u]]
    BY <1>2 DEF VisitsAreFresh
  <2>1. u # t /\ pc[u] = "search"
    BY <1>2 DEF TypeOK
  <2>2. lease'[u] = lease[u] /\ lease[u] \in Contexts /\ lease[u] # c
    BY <2>1, <1>1, <1>3 DEF TypeOK, LeasesFollow, Holding
  <2> QED BY <2>1, <2>2, <1>1 DEF TypeOK
<1> QED BY <1>5, <1>6, <1>7, <1>8, <1>9, <1>10, <1>11

\* reserve() makes room for the context before it is counted.
LEMMA RegisterInv ==
    ASSUME IndInv, NEW t \in Threads, Register(t)
    PROVE  IndInv'
<1> USE DEF IndInv, PoolInv, Register
<1>1. TypeOK'
  BY DEF TypeOK
<1>2. LeasesFollow'
  BY DEF LeasesFollow, Holding, TypeOK
<1>3. OneHolder' /\ MarksArePast' /\ AnswerIsDecoded'
  BY DEF OneHolder, MarksArePast, AnswerIsDecoded
<1>4. Counted'
  <2>1. Holders' = Holders \cup {t} /\ t \notin Holders
    BY DEF Holders, TypeOK
  <2>2. IsFiniteSet(Holders') /\ Cardinality(Holders') = Cardinality(Holders) + 1
        /\ Cardinality(Holders) \in Nat
    BY <2>1, OneMore DEF Counted
  <2>3. created' = created + 1 /\ created' <= capacity' /\ Len(free') = Len(free) /\ Len(free) \in Nat
    BY DEF TypeOK
  <2> QED BY <2>2, <2>3 DEF Counted
<1>5. SeenIsFresh'
  BY DEF SeenIsFresh, TypeOK
<1>6. VisitsAreFresh'
  <2> SUFFICES ASSUME NEW u \in Threads, pc'[u] = "search"
               PROVE  pc[u] = "search"
    BY DEF VisitsAreFresh
  <2> QED BY DEF TypeOK
<1> QED BY <1>1, <1>2, <1>3, <1>4, <1>5, <1>6

\* An acquire() that throws leaves no trace in the pool.
LEMMA AcquireFailsInv ==
    ASSUME IndInv, NEW t \in Threads, AcquireFails(t)
    PROVE  IndInv'
<1> USE DEF IndInv, PoolInv
<1>1. /\ pc[t] \in {"acquire", "register"} /\ lease' = [lease EXCEPT ![t] = None]
      /\ pc' = [pc EXCEPT ![t] = "idle"]
      /\ UNCHANGED <<beam, free, capacity, created, context, rows, seen, answered>>
  BY DEF AcquireFails, pool
<1>2. TypeOK'
  BY <1>1 DEF TypeOK
<1>3. LeasesFollow'
  BY <1>1 DEF LeasesFollow, Holding, TypeOK
<1>4. OneHolder'
  <2>1. \A i \in DOMAIN free : free[i] \in Contexts
    BY DEF TypeOK
  <2>2. lease'[t] = None /\ \A u \in Threads : u # t => lease'[u] = lease[u]
    BY <1>1 DEF TypeOK
  <2> QED BY <2>1, <2>2, <1>1, RequestsAssumption DEF OneHolder
<1>5. Counted'
  <2>1. Holders' = Holders
    BY <1>1 DEF Holders, TypeOK
  <2> QED BY <2>1, <1>1 DEF Counted
<1>6. MarksArePast' /\ AnswerIsDecoded' /\ SeenIsFresh'
  BY <1>1 DEF MarksArePast, AnswerIsDecoded, SeenIsFresh, TypeOK
<1>7. VisitsAreFresh'
  <2> SUFFICES ASSUME NEW u \in Threads, pc'[u] = "search"
               PROVE  pc[u] = "search" /\ lease'[u] = lease[u]
    BY <1>1 DEF VisitsAreFresh
  <2> QED BY <1>1 DEF TypeOK
<1> QED BY <1>2, <1>3, <1>4, <1>5, <1>6, <1>7
-----------------------------------------------------------------------------
\* A thread changes only the context it holds: whoever searches on another one
\* finds it as it was.
LEMMA OthersKeepTheirs ==
    ASSUME IndInv, NEW t \in Threads, NEW c \in AContext, Past(c), pc[t] \in Holding,
           context' = [context EXCEPT ![lease[t]] = c]
    PROVE  /\ lease[t] \in Contexts /\ context' \in [Contexts -> AContext]
           /\ context'[lease[t]] = c
           /\ \A d \in Contexts : Past(context'[d])
           /\ \A u \in Threads : u # t /\ pc[u] \in Holding =>
                 lease[u] \in Contexts /\ context'[lease[u]] = context[lease[u]]
<1> USE DEF IndInv, PoolInv
<1>1. \A u \in Threads : pc[u] \in Holding => lease[u] \in Contexts /\ lease[u] # None
  BY DEF TypeOK, LeasesFollow
<1>2. context \in [Contexts -> AContext] /\ \A d \in Contexts : Past(context[d])
  BY DEF TypeOK, AContext, MarksArePast, Past
<1>3. \A u \in Threads : u # t /\ pc[u] \in Holding => lease[u] # lease[t]
  BY <1>1 DEF OneHolder
<1>4. \A d \in Contexts : context'[d] = IF d = lease[t] THEN c ELSE context[d]
  BY <1>1, <1>2
<1>5. context' \in [Contexts -> AContext]
  BY <1>2
<1> QED BY <1>1, <1>2, <1>3, <1>4, <1>5

\* What VisitsAreFresh says of a search on context c that has met some rows.
OwnSearch(c, b, met) ==
    /\ rows <= Len(c.marks) /\ b <= c.results
    /\ \A id \in 1..Len(c.marks) : c.marks[id] = c.epoch <=> id \in met

\* The invariant after a thread has changed its context: what is left to show is
\* about its own search.
LEMMA ContextStep ==
    ASSUME IndInv, NEW t \in Threads, NEW c \in AContext, Past(c), NEW to, NEW met \in SUBSET Nat,
           pc[t] \in {"prepare", "search"}, to \in {"search", "release"},
           context' = [context EXCEPT ![lease[t]] = c], pc' = [pc EXCEPT ![t] = to],
           seen' = [seen EXCEPT ![t] = met],
           UNCHANGED <<beam, lease, pool, rows, answered>>,
           to = "search" => OwnSearch(c, beam[t], met)
    PROVE  IndInv'
<1> USE DEF IndInv, PoolInv, pool
<1>1. pc[t] \in Holding
  BY DEF Holding
<1>2. /\ lease[t] \in Contexts /\ context' \in [Contexts -> AContext]
      /\ context'[lease[t]] = c /\ \A d \in Contexts : Past(context'[d])
      /\ \A u \in Threads : u # t /\ pc[u] \in Holding =>
            lease[u] \in Contexts /\ context'[lease[u]] = context[lease[u]]
  BY <1>1, OthersKeepTheirs
<1>3. TypeOK'
  BY <1>2 DEF TypeOK, AContext
<1>4. LeasesFollow'
  BY DEF LeasesFollow, Holding, TypeOK
<1>5. OneHolder' /\ AnswerIsDecoded'
  BY DEF OneHolder, AnswerIsDecoded
<1>6. Counted'
  <2>1. Holders' = Holders
    BY DEF Holders, TypeOK
  <2> QED BY <2>1 DEF Counted
<1>7. MarksArePast'
  BY <1>2 DEF MarksArePast, Past
<1>8. SeenIsFresh'
  BY DEF SeenIsFresh, TypeOK
<1>9. VisitsAreFresh'
  <2> SUFFICES ASSUME NEW u \in Threads, pc'[u] = "search"
               PROVE  LET k == context'[lease[u]] IN
                      /\ rows <= Len(k.marks)
                      /\ \A id \in 1..Len(k.marks) : k.marks[id] = k.epoch <=> id \in seen'[u]
                      /\ beam[u] <= k.results
    BY DEF VisitsAreFresh
  <2>1. CASE u = t
    <3>1. to = "search" /\ seen'[u] = met
      BY <2>1 DEF TypeOK
    <3> QED BY <3>1, <2>1, <1>2 DEF OwnSearch
  <2>2. CASE u # t
    <3>1. pc[u] = "search" /\ seen'[u] = seen[u]
      BY <2>2 DEF TypeOK
    <3>2. context'[lease[u]] = context[lease[u]]
      BY <3>1, <2>2, <1>2 DEF Holding
    <3> QED BY <3>1, <3>2 DEF VisitsAreFresh
  <2> QED BY <2>1, <2>2
<1> QED BY <1>3, <1>4, <1>5, <1>6, <1>7, <1>8, <1>9

\* The context a thread holds.
LEMMA HeldContext ==
    ASSUME IndInv, NEW t \in Threads, pc[t] \in Holding
    PROVE  /\ lease[t] \in Contexts /\ context[lease[t]] \in AContext
           /\ Past(context[lease[t]]) /\ rows \in Nat /\ beam[t] \in Nat
<1> USE DEF IndInv, PoolInv
<1>1. lease[t] \in Contexts
  BY DEF TypeOK, LeasesFollow
<1> QED BY <1>1 DEF TypeOK, AContext, MarksArePast, Past

\* prepare() and reset() leave no row visited and make room for rows and beam.
LEMMA PrepareInv ==
    ASSUME IndInv, NEW t \in Threads, Prepare(t)
    PROVE  IndInv'
<1> DEFINE c == context[lease[t]]
           r == IF c.results < beam[t] THEN beam[t] ELSE c.results
           p == [marks |-> Grown(c.marks, rows), epoch |-> c.epoch, results |-> r]
           q == Reset(p)
<1>1. /\ pc[t] = "prepare" /\ pc' = [pc EXCEPT ![t] = "search"]
      /\ UNCHANGED <<beam, lease, pool, rows, seen, answered>>
      /\ context' = [context EXCEPT ![lease[t]] = q]
  BY DEF Prepare
<1>2. c \in AContext /\ Past(c) /\ rows \in Nat /\ beam[t] \in Nat /\ lease[t] \in Contexts
  BY <1>1, HeldContext DEF Holding
<1>3. c.results \in Nat /\ r \in Nat /\ beam[t] <= r
  BY <1>2 DEF AContext
<1> HIDE DEF c, r
<1>4. p \in AContext /\ Past(p) /\ rows <= Len(p.marks)
  BY <1>2, <1>3, GrownContext
<1>5. p.results = r
  OBVIOUS
<1> HIDE DEF p
<1>6. /\ q \in AContext /\ Past(q) /\ Len(q.marks) = Len(p.marks) /\ q.results = r
      /\ \A i \in 1..Len(q.marks) : q.marks[i] # q.epoch
  BY <1>4, <1>5, ResetIs
<1> HIDE DEF q
<1>7. seen' = [seen EXCEPT ![t] = {}]
  BY <1>1 DEF IndInv, PoolInv, TypeOK, SeenIsFresh
<1>8. OwnSearch(q, beam[t], {})
  BY <1>3, <1>4, <1>6 DEF OwnSearch
<1> QED BY <1>1, <1>6, <1>7, <1>8, ContextStep

\* A prepare() that throws leaves a context that can be used again.
LEMMA PrepareFailsInv ==
    ASSUME IndInv, NEW t \in Threads, PrepareFails(t)
    PROVE  IndInv'
<1> DEFINE c == context[lease[t]]
           p == [marks |-> Grown(c.marks, rows), epoch |-> c.epoch, results |-> c.results]
<1>1. /\ pc[t] = "prepare" /\ pc' = [pc EXCEPT ![t] = "release"]
      /\ UNCHANGED <<beam, lease, pool, rows, seen, answered>>
      /\ \/ context' = [context EXCEPT ![lease[t]].marks = Grown(@, rows)]
         \/ context' = context
  BY DEF PrepareFails
<1>2. c \in AContext /\ Past(c) /\ rows \in Nat /\ lease[t] \in Contexts
  BY <1>1, HeldContext DEF Holding
<1>3. p \in AContext /\ Past(p)
  BY <1>2, GrownContext DEF AContext
<1>4. seen' = [seen EXCEPT ![t] = {}]
  BY <1>1 DEF IndInv, PoolInv, TypeOK, SeenIsFresh
<1>5. CASE context' = [context EXCEPT ![lease[t]].marks = Grown(@, rows)]
  <2>1. context' = [context EXCEPT ![lease[t]] = [c EXCEPT !.marks = Grown(@, rows)]]
    BY <1>5
  <2>2. [c EXCEPT !.marks = Grown(@, rows)] = p
    BY <1>2 DEF AContext
  <2> HIDE DEF p
  <2>3. context' = [context EXCEPT ![lease[t]] = p]
    BY <2>1, <2>2
  <2> QED BY <2>3, <1>1, <1>3, <1>4, ContextStep
<1>6. CASE context' = context
  <2>1. context' = [context EXCEPT ![lease[t]] = c]
    BY <1>6, <1>2 DEF IndInv, PoolInv, TypeOK
  <2> HIDE DEF c
  <2> QED BY <2>1, <1>1, <1>2, <1>4, ContextStep
<1> QED BY <1>1, <1>5, <1>6

\* visit() marks the row with the epoch of this search.
LEMMA VisitInv ==
    ASSUME IndInv, NEW t \in Threads, NEW id \in 1..rows, Visit(t, id)
    PROVE  IndInv'
<1> DEFINE c == context[lease[t]]
           m == [c.marks EXCEPT ![id] = c.epoch]
           p == [marks |-> m, epoch |-> c.epoch, results |-> c.results]
           met == seen[t] \cup {id}
<1>1. /\ pc[t] = "search" /\ context' = [context EXCEPT ![lease[t]].marks[id] = c.epoch]
      /\ seen' = [seen EXCEPT ![t] = @ \cup {id}]
      /\ UNCHANGED <<pc, beam, lease, pool, rows, answered>>
  BY DEF Visit
<1>2. c \in AContext /\ Past(c) /\ rows \in Nat /\ lease[t] \in Contexts
  BY <1>1, HeldContext DEF Holding
<1>3. /\ rows <= Len(c.marks) /\ beam[t] <= c.results
      /\ \A i \in 1..Len(c.marks) : c.marks[i] = c.epoch <=> i \in seen[t]
  BY <1>1 DEF IndInv, VisitsAreFresh
<1>4. context' = [context EXCEPT ![lease[t]] = [c EXCEPT !.marks[id] = c.epoch]]
  BY <1>1
<1> HIDE DEF c
<1>5. [c EXCEPT !.marks[id] = c.epoch] = p
  <2>1. c = [marks |-> c.marks, epoch |-> c.epoch, results |-> c.results]
    BY <1>2 DEF AContext
  <2>2. [c EXCEPT !.marks[id] = c.epoch] = [c EXCEPT !.marks = m]
    OBVIOUS
  <2> HIDE DEF m
  <2> QED BY <2>1, <2>2
<1>6. c.marks \in Seq(Nat) /\ c.epoch \in 1..EpochMax /\ EpochMax \in Nat /\ id \in 1..Len(c.marks)
  BY <1>2, <1>3, RequestsAssumption DEF AContext
<1>7. met \in SUBSET Nat /\ seen' = [seen EXCEPT ![t] = met]
  BY <1>1, <1>6 DEF IndInv, PoolInv, TypeOK
<1>8. pc' = [pc EXCEPT ![t] = "search"]
  BY <1>1 DEF IndInv, PoolInv, TypeOK
<1> HIDE DEF met
<1>9. /\ m \in Seq(Nat) /\ Len(m) = Len(c.marks)
      /\ \A i \in 1..Len(m) : m[i] = IF i = id THEN c.epoch ELSE c.marks[i]
  BY <1>6
<1> HIDE DEF m
<1>10. p \in AContext
  BY <1>2, <1>9 DEF AContext
<1>11. Past(p)
  <2>1. \A i \in 1..Len(c.marks) : c.marks[i] <= c.epoch
    BY <1>2 DEF Past
  <2>2. \A i \in 1..Len(m) : m[i] <= c.epoch
    BY <2>1, <1>6, <1>9, SMTT(30)
  <2> QED BY <2>2 DEF Past
<1>12. OwnSearch(p, beam[t], met)
  BY <1>3, <1>9 DEF met, OwnSearch
<1> HIDE DEF p
<1>13. context' = [context EXCEPT ![lease[t]] = p]
  BY <1>4, <1>5 DEF p, m
<1>14. UNCHANGED <<beam, lease, pool, rows, answered>> /\ pc[t] = "search"
  BY <1>1
<1> QED BY <1>7, <1>8, <1>10, <1>11, <1>12, <1>13, <1>14, ContextStep

\* The search is over; the context stays leased.
LEMMA FinishInv ==
    ASSUME IndInv, NEW t \in Threads, Finish(t)
    PROVE  IndInv'
<1>1. beam[t] \in Nat /\ beam' = [beam EXCEPT ![t] = beam[t]]
  BY DEF Finish, IndInv, PoolInv, TypeOK
<1>2. /\ pc[t] = "search" /\ pc' = [pc EXCEPT ![t] = "release"]
      /\ UNCHANGED <<lease, pool, context, rows, seen, answered>>
  BY DEF Finish
<1> QED BY <1>1, <1>2, Moved

\* The context goes back to the pool and its holder forgets it.
LEMMA ReleaseInv ==
    ASSUME IndInv, NEW t \in Threads, Release(t)
    PROVE  IndInv'
<1> USE DEF IndInv, PoolInv
<1> DEFINE n == Len(free)
<1>1. /\ pc[t] = "release" /\ free' = Append(free, lease[t])
      /\ lease' = [lease EXCEPT ![t] = None] /\ seen' = [seen EXCEPT ![t] = {}]
      /\ pc' = [pc EXCEPT ![t] = "idle"] /\ beam' = [beam EXCEPT ![t] = 0]
      /\ UNCHANGED <<capacity, created, context, rows, answered>>
  BY DEF Release
<1>2. free \in Seq(Contexts) /\ n \in Nat /\ lease[t] \in Contexts /\ lease[t] # None
  BY <1>1 DEF TypeOK, LeasesFollow, Holding
<1>3. /\ free' \in Seq(Contexts) /\ Len(free') = n + 1
      /\ free'[n + 1] = lease[t] /\ \A i \in 1..n : free'[i] = free[i]
  BY <1>1, <1>2
<1>4. DOMAIN free = 1..n /\ DOMAIN free' = 1..n + 1
  BY <1>2, <1>3
<1> HIDE DEF n
<1>5. TypeOK'
  BY <1>1, <1>3 DEF TypeOK
<1>6. LeasesFollow'
  BY <1>1 DEF LeasesFollow, Holding, TypeOK
<1>7. OneHolder'
  <2>1. lease'[t] = None /\ \A u \in Threads : u # t => lease'[u] = lease[u]
    BY <1>1 DEF TypeOK
  <2>2. \A i \in 1..n : free[i] # lease[t] /\ free[i] \in Contexts
    BY <1>2, <1>4 DEF OneHolder
  <2>3. \A i \in 1..n + 1 : i = n + 1 \/ i \in 1..n
    BY <1>2
  <2>4. \A i, j \in 1..n + 1 : i # j => free'[i] # free'[j]
    BY <1>3, <1>4, <2>2, <2>3 DEF OneHolder
  <2>5. \A u \in Threads, i \in 1..n + 1 : lease'[u] # free'[i]
    BY <1>2, <1>3, <1>4, <2>1, <2>2, <2>3, RequestsAssumption DEF OneHolder
  <2>6. \A u, w \in Threads : u # w /\ lease'[u] # None => lease'[u] # lease'[w]
    BY <2>1 DEF OneHolder
  <2> QED BY <1>4, <2>4, <2>5, <2>6 DEF OneHolder
<1>8. Counted'
  <2>1. Holders' = Holders \ {t} /\ t \in Holders
    BY <1>1 DEF Holders, TypeOK
  <2>2. /\ IsFiniteSet(Holders') /\ Cardinality(Holders') = Cardinality(Holders) - 1
        /\ Cardinality(Holders) \in Nat
    BY <2>1, OneLess DEF Counted
  <2> QED BY <2>2, <1>1, <1>2, <1>3 DEF Counted, n
<1>9. MarksArePast' /\ AnswerIsDecoded' /\ SeenIsFresh'
  BY <1>1 DEF MarksArePast, AnswerIsDecoded, SeenIsFresh, TypeOK
<1>10. VisitsAreFresh'
  <2> SUFFICES ASSUME NEW u \in Threads, pc'[u] = "search"
               PROVE  /\ pc[u] = "search" /\ lease'[u] = lease[u] /\ seen'[u] = seen[u]
                      /\ beam'[u] = beam[u]
    BY <1>1 DEF VisitsAreFresh
  <2> QED BY <1>1 DEF TypeOK
<1> QED BY <1>5, <1>6, <1>7, <1>8, <1>9, <1>10

\* Rows are added while nobody searches.
LEMMA AddRowInv ==
    ASSUME IndInv, AddRow
    PROVE  IndInv'
<1> USE DEF IndInv, PoolInv, AddRow, pool
<1>1. TypeOK' /\ LeasesFollow' /\ OneHolder' /\ MarksArePast' /\ SeenIsFresh'
  BY DEF TypeOK, LeasesFollow, OneHolder, MarksArePast, SeenIsFresh
<1>2. Counted' /\ AnswerIsDecoded'
  BY DEF Counted, Holders, AnswerIsDecoded
<1>3. VisitsAreFresh'
  BY DEF VisitsAreFresh
<1> QED BY <1>1, <1>2, <1>3

\* Every step keeps the invariant.
LEMMA NextInv == IndInv /\ [Next]_vars => IndInv'
<1> SUFFICES ASSUME IndInv, [Next]_vars PROVE IndInv'
  OBVIOUS
<1>1. CASE UNCHANGED vars
  BY <1>1, Quiet DEF vars, IndInv, AnswerIsDecoded
<1>2. ASSUME NEW body \in Bodies, Receive(body) PROVE IndInv'
  <2>1. AnswerIsDecoded'
    BY <1>2 DEF Receive, AnswerIsDecoded
  <2> QED BY <2>1, <1>2, Quiet DEF Receive
<1>3. CASE Done
  <2>1. AnswerIsDecoded'
    BY <1>3 DEF Done, AnswerIsDecoded
  <2> QED BY <2>1, <1>3, Quiet DEF Done
<1>4. CASE AddRow
  BY <1>4, AddRowInv
<1>5. ASSUME NEW t \in Threads,
             \/ \E body \in SearchBodies : Start(t, body)
             \/ AcquireFree(t) \/ AcquireNew(t) \/ Register(t) \/ AcquireFails(t)
             \/ Prepare(t) \/ PrepareFails(t)
             \/ \E id \in 1..rows : Visit(t, id)
             \/ Finish(t)
             \/ Release(t)
      PROVE  IndInv'
  BY <1>5, StartInv, AcquireFreeInv, AcquireNewInv, RegisterInv, AcquireFailsInv, PrepareInv,
     PrepareFailsInv, VisitInv, FinishInv, ReleaseInv
<1> QED BY <1>1, <1>2, <1>3, <1>4, <1>5 DEF Next

\* The invariant holds in every state: created_ counts the idle and the leased
\* contexts, no context has two holders and no mark is of an epoch to come.
THEOREM Invariance == Spec => []IndInv
BY InitInv, NextInv, PTL DEF Spec

\* release() never allocates and a context has one holder, for any number of
\* threads that race for the pool and whichever allocation fails.
THEOREM LeasesSafe == Spec => []LeasesAreSafe
<1>1. IndInv => LeasesAreSafe
  <2> SUFFICES ASSUME IndInv, NEW t \in Threads, pc[t] = "release"
               PROVE  Len(free) < capacity
    BY DEF IndInv, PoolInv, OneHolder, LeasesAreSafe
  <2> USE DEF IndInv, PoolInv
  <2>1. t \in Holders
    BY DEF Holders
  <2>2. Cardinality(Holders) - 1 \in Nat /\ Cardinality(Holders) \in Nat
    BY <2>1, OneLess DEF Counted
  <2>3. Len(free) \in Nat /\ capacity \in Nat
    BY DEF TypeOK
  <2> QED BY <2>2, <2>3 DEF Counted
<1> QED BY <1>1, Invariance, PTL

\* A search sees as visited exactly the rows it has visited, for any number of
\* searches before it on the same context and any width of the epoch.
THEOREM VisitsFresh == Spec => []VisitsAreFresh
<1>1. IndInv => VisitsAreFresh
  BY DEF IndInv
<1> QED BY <1>1, Invariance, PTL

\* Whatever a client sends, an accepted body means what it says.
THEOREM RequestsFaithful == Spec => []AcceptedRequestsAreFaithful
<1>1. IndInv => AcceptedRequestsAreFaithful
  <2> SUFFICES ASSUME AnswerIsDecoded, answered.route # "none"
               PROVE  AcceptedRequestsAreFaithful
    BY DEF IndInv, AcceptedRequestsAreFaithful
  <2>1. PICK body \in Bodies :
           answered = [route |-> body.route, body |-> body, answer |-> Decode(body)]
    BY DEF AnswerIsDecoded, NoRequest
  <2>2. answered.route = body.route /\ answered.body = body /\ answered.answer = Decode(body)
    BY <2>1
  <2>3. /\ body.route = "create" => CreateOk(body.doc, Decode(body))
        /\ body.route = "insert" => InsertOk(body.doc, Decode(body))
        /\ body.route = "bulk" => BulkOk(body.doc, Decode(body))
        /\ body.route \in {"search", "batch"} => SearchOk(body.doc, body.route, Decode(body))
        /\ body.route \in {"create", "insert", "bulk", "search", "batch"}
    BY BodyDecoded
  <2>4. CASE body.route = "create"
    BY <2>2, <2>3, <2>4 DEF AcceptedRequestsAreFaithful, CreateOk
  <2>5. CASE body.route = "insert"
    BY <2>2, <2>3, <2>5 DEF AcceptedRequestsAreFaithful, InsertOk
  <2>6. CASE body.route = "bulk"
    BY <2>2, <2>3, <2>6 DEF AcceptedRequestsAreFaithful, BulkOk
  <2>7. CASE body.route \in {"search", "batch"}
    BY <2>2, <2>3, <2>7 DEF AcceptedRequestsAreFaithful, SearchOk
  <2> QED BY <2>3, <2>4, <2>5, <2>6, <2>7
<1> QED BY <1>1, Invariance, PTL
=============================================================================

---------------------------- MODULE ServerProofs ----------------------------
(***************************************************************************)
(* Proofs about Server, for any finite set of workers, any number of batch *)
(* slots, requests and incarnations, and any routes.                       *)
(***************************************************************************)
EXTENDS Server, FiniteSetTheorems, SequenceTheorems, TLAPS

\* Where a request is counted in in_flight, and where a handler may be.
Counted == {"prepare", "slot", "call", "count_out"}
Handling == Counted \cup {"gate", "count_in", "finish"}
Points == Handling \cup {"idle", "answer"}

\* The type of a request, field by field.
IsRequest(r) ==
    /\ DOMAIN r = {"route", "number", "inc", "slot", "status", "body", "seen", "escaped"}
    /\ r.inc \in 0..MaxIncs
    /\ r.slot \in BOOLEAN
    /\ r.body \in BOOLEAN
    /\ r.escaped \in BOOLEAN

\* The type of the state, as far as the proofs need it.
TypeOK ==
    /\ leaked \in Nat /\ slots \in Nat
    /\ pc \in [Workers -> Points]
    /\ DOMAIN req = Workers
    /\ \A w \in Workers : IsRequest(req[w])
    /\ current \in 0..MaxIncs /\ created \in 0..MaxIncs
    /\ DOMAIN contents = Incs /\ DOMAIN saved = Incs

\* What a request may carry at each point: only a call holds a slot, nothing is
\* recorded before the handler has finished, and a handler that did not throw out of
\* wrap() has given its response a body.
RequestInOrder(w) ==
    /\ req[w].slot => pc[w] = "call"
    /\ pc[w] \in Handling => req[w].seen = <<>>
    /\ pc[w] \in {"count_out", "finish"} => req[w].escaped \/ req[w].body
    /\ pc[w] = "answer" => RightlyRecorded(req[w])

\* The listener runs only until stop(); when it has been joined nobody handles a
\* request; the last snapshot holds what the collection holds.
LifeInOrder ==
    /\ listening => life \in {"serving", "drain"}
    /\ life \in {"stopped", "exited"} => \A w \in Workers : pc[w] = "idle"
    /\ life = "exited" /\ current # NoInc => saved[current] = contents[current]

IndInv ==
    /\ TypeOK
    /\ \A w \in Workers : RequestInOrder(w)
    /\ LifeInOrder
    /\ ResourcesAccounted
-----------------------------------------------------------------------------
\* What a change of one worker does to a set of workers and to its size.
LEMMA OneWorker ==
    ASSUME NEW S \in SUBSET Workers, NEW T \in SUBSET Workers, NEW w \in Workers,
           \A v \in Workers \ {w} : v \in T <=> v \in S
    PROVE  /\ Cardinality(S) \in Nat /\ Cardinality(T) \in Nat
           /\ w \in T /\ w \notin S => Cardinality(T) = Cardinality(S) + 1
           /\ w \notin T /\ w \in S => Cardinality(T) = Cardinality(S) - 1
           /\ (w \in T <=> w \in S) => T = S
<1>1. IsFiniteSet(S) /\ IsFiniteSet(T)
  BY FS_Subset, ServerAssumption
<1>2. Cardinality(S) \in Nat /\ Cardinality(T) \in Nat
  BY <1>1, FS_CardinalityType
<1>3. CASE w \in T
  <2>1. T = S \cup {w}
    BY <1>3
  <2> QED
    BY <2>1, <1>1, <1>2, <1>3, FS_AddElement
<1>4. CASE w \notin T
  <2>1. T = S \ {w}
    BY <1>4
  <2> QED
    BY <2>1, <1>1, <1>2, <1>4, FS_RemoveElement
<1> QED
  BY <1>2, <1>3, <1>4

\* The counted workers when worker w moves to point b.
LEMMA Recount ==
    ASSUME TypeOK, NEW w \in Workers, NEW b, pc' = [pc EXCEPT ![w] = b]
    PROVE  /\ Cardinality(Busy) \in Nat /\ Cardinality(Busy') \in Nat
           /\ b \in Counted /\ pc[w] \notin Counted => Cardinality(Busy') = Cardinality(Busy) + 1
           /\ b \notin Counted /\ pc[w] \in Counted => Cardinality(Busy') = Cardinality(Busy) - 1
           /\ (b \in Counted <=> pc[w] \in Counted) => Busy' = Busy
<1>1. /\ Busy \in SUBSET Workers /\ Busy' \in SUBSET Workers
      /\ w \in Busy <=> pc[w] \in Counted
      /\ w \in Busy' <=> b \in Counted
      /\ \A v \in Workers \ {w} : v \in Busy' <=> v \in Busy
  BY DEF Busy, Counted, TypeOK
<1> QED
  BY <1>1, OneWorker

\* The slot holders when only the request of worker w changes.
LEMMA Rehold ==
    ASSUME NEW w \in Workers, \A v \in Workers \ {w} : req'[v] = req[v]
    PROVE  /\ Cardinality(Holders) \in Nat /\ Cardinality(Holders') \in Nat
           /\ req'[w].slot /\ ~req[w].slot => Cardinality(Holders') = Cardinality(Holders) + 1
           /\ ~req'[w].slot /\ req[w].slot => Cardinality(Holders') = Cardinality(Holders) - 1
           /\ (req'[w].slot <=> req[w].slot) => Holders' = Holders
<1>1. /\ Holders \in SUBSET Workers /\ Holders' \in SUBSET Workers
      /\ w \in Holders <=> req[w].slot
      /\ w \in Holders' <=> req'[w].slot
      /\ \A v \in Workers \ {w} : v \in Holders' <=> v \in Holders
  BY DEF Holders
<1>2. /\ Cardinality(Holders) \in Nat /\ Cardinality(Holders') \in Nat
      /\ w \in Holders' /\ w \notin Holders =>
            Cardinality(Holders') = Cardinality(Holders) + 1
      /\ w \notin Holders' /\ w \in Holders =>
            Cardinality(Holders') = Cardinality(Holders) - 1
      /\ (w \in Holders' <=> w \in Holders) => Holders' = Holders
  BY <1>1, OneWorker
<1> QED
  BY <1>1, <1>2

\* A step of worker w that neither counts a request nor moves a slot preserves
\* the invariant if it leaves the worker's request in order.
LEMMA QuietStep ==
    ASSUME IndInv, NEW w \in Workers, NEW b \in Points,
           life \notin {"stopped", "exited"},
           pc' = [pc EXCEPT ![w] = b],
           b \in Counted <=> pc[w] \in Counted,
           DOMAIN req' = Workers, \A v \in Workers \ {w} : req'[v] = req[v],
           IsRequest(req'[w]), RequestInOrder(w)', req'[w].slot = req[w].slot,
           UNCHANGED <<server, counters, catalog>>
    PROVE  IndInv'
<1> USE DEF IndInv
<1>1. TypeOK'
  BY DEF TypeOK, IsRequest, counters, catalog
<1>2. \A v \in Workers : RequestInOrder(v)'
  BY DEF RequestInOrder, TypeOK
<1>3. LifeInOrder'
  BY DEF LifeInOrder, server, catalog
<1>4. Busy' = Busy
  BY Recount
<1>5. Holders' = Holders
  BY Rehold
<1>6. ResourcesAccounted'
  BY <1>4, <1>5 DEF ResourcesAccounted, counters
<1> QED
  BY <1>1, <1>2, <1>3, <1>6
-----------------------------------------------------------------------------
\* A request as it begins.
LEMMA NewRequestFields ==
    ASSUME NEW route, NEW n
    PROVE  /\ IsRequest(NewRequest(route, n))
           /\ NewRequest(route, n).route = route
           /\ NewRequest(route, n).slot = FALSE
           /\ NewRequest(route, n).seen = <<>>
<1>1. IsRequest(NewRequest(route, n))
  BY ServerAssumption DEF NewRequest, IsRequest, NoInc
<1> QED
  BY <1>1 DEF NewRequest

\* What Metrics::observe adds to a request.
LEMMA RecordedFields ==
    ASSUME NEW r, IsRequest(r)
    PROVE  /\ IsRequest(Recorded(r))
           /\ Recorded(r).slot = r.slot /\ Recorded(r).body = r.body
           /\ Recorded(r).status = r.status /\ Recorded(r).escaped = r.escaped
           /\ Recorded(r).seen = Append(r.seen, StatusClass(r.status))
  BY DEF IsRequest, Recorded

\* A second record goes behind the first.
LEMMA AppendPair ==
    ASSUME NEW a \in Int, NEW b \in Int
    PROVE  Append(<<a>>, b) = <<a, b>>
<1>1. /\ <<a>> \in Seq(Int) /\ Len(<<a>>) = 1 /\ <<a>>[1] = a
      /\ <<a, b>> \in Seq(Int) /\ Len(<<a, b>>) = 2 /\ <<a, b>>[1] = a /\ <<a, b>>[2] = b
  OBVIOUS
<1>2. /\ Append(<<a>>, b) \in Seq(Int) /\ Len(Append(<<a>>, b)) = 2
      /\ Append(<<a>>, b)[1] = a /\ Append(<<a>>, b)[2] = b
  BY <1>1, AppendProperties
<1>3. \A i \in 1..2 : Append(<<a>>, b)[i] = <<a, b>>[i]
  BY <1>1, <1>2
<1> QED
  BY <1>1, <1>2, <1>3, SeqEqual

\* A response without a body and with an error status: the error handler records it.
LEMMA ErrorHandled ==
    ASSUME NEW r, IsRequest(r), r.slot = FALSE, r.status >= 400, r.body = FALSE
    PROVE  /\ IsRequest(ErrorHandler(r)) /\ ErrorHandler(r).slot = FALSE
           /\ ErrorHandler(r).status = r.status
           /\ ErrorHandler(r).seen = Append(r.seen, StatusClass(r.status))
<1>1. ErrorHandler(r) = [Recorded(r) EXCEPT !.body = TRUE]
  BY DEF ErrorHandler
<1> QED
  BY <1>1, RecordedFields DEF IsRequest

\* What httplib makes of a response when a handler has returned or thrown: one that
\* kept its body is left alone, one that lost it is recorded again.
LEMMA Delivered ==
    ASSUME NEW q, IsRequest(q), q.slot = FALSE, q.seen = <<>>, q.escaped \/ q.body,
           NEW r \in AfterRangeCheck(ExceptionHandler(Recorded(q)))
    PROVE  /\ IsRequest(ErrorHandler(r)) /\ ErrorHandler(r).slot = FALSE
           /\ RightlyRecorded(ErrorHandler(r))
<1>1. PICK p : p = Recorded(q)
  OBVIOUS
<1>2. /\ IsRequest(p) /\ p.slot = FALSE /\ p.body = q.body /\ p.escaped = q.escaped
      /\ p.seen = <<StatusClass(p.status)>>
  BY <1>1, RecordedFields
<1>3. PICK e : e = ExceptionHandler(p)
  OBVIOUS
<1>4. /\ IsRequest(e) /\ e.slot = FALSE /\ e.body = TRUE /\ e.escaped = q.escaped
      /\ e.seen = p.seen
      /\ e.escaped => e.status = 500
      /\ ~e.escaped => e.seen = <<StatusClass(e.status)>>
  <2>1. CASE q.escaped
    <3>1. e = [p EXCEPT !.status = 500, !.body = TRUE]
      BY <1>2, <1>3, <2>1 DEF ExceptionHandler
    <3> QED
      BY <1>2, <2>1, <3>1 DEF IsRequest
  <2>2. CASE ~q.escaped
    <3>1. e = p
      BY <1>2, <1>3, <2>2 DEF ExceptionHandler
    <3> QED
      BY <1>2, <2>2, <3>1 DEF IsRequest
  <2> QED
    BY <2>1, <2>2
<1>5. Len(e.seen) <= 1
  BY <1>2, <1>4
<1>6. RightlyRecorded(e)
  BY <1>4, <1>5, Zenon DEF RightlyRecorded
<1>7. CASE r = e
  <2>1. ErrorHandler(r) = e
    BY <1>4, <1>7 DEF ErrorHandler
  <2> QED
    BY <1>4, <1>6, <2>1
<1>8. CASE e.status \in 200..299 /\ r = [e EXCEPT !.status = 416, !.body = FALSE]
  <2>1. e.seen = <<2>>
    <3>1. ASSUME NEW n \in 200..299
          PROVE  n # 500 /\ StatusClass(n) = 2
      BY DEF StatusClass
    <3> QED
      BY <1>4, <1>8, <3>1, Zenon
  <2>2. IsRequest(r) /\ r.slot = FALSE /\ r.status = 416 /\ r.body = FALSE /\ r.seen = e.seen
    BY <1>4, <1>8 DEF IsRequest
  <2>3. /\ IsRequest(ErrorHandler(r)) /\ ErrorHandler(r).slot = FALSE
        /\ ErrorHandler(r).status = 416
        /\ ErrorHandler(r).seen = Append(r.seen, StatusClass(416))
    <3>1. r.status >= 400
      BY <2>2
    <3>2. /\ IsRequest(ErrorHandler(r)) /\ ErrorHandler(r).slot = FALSE
          /\ ErrorHandler(r).status = r.status
          /\ ErrorHandler(r).seen = Append(r.seen, StatusClass(r.status))
      BY <2>2, <3>1, ErrorHandled
    <3> QED
      BY <2>2, <3>2
  <2>4. Append(<<2>>, StatusClass(416)) = <<2, 4>>
    BY AppendPair DEF StatusClass
  <2> QED
    BY <2>1, <2>2, <2>3, <2>4 DEF RightlyRecorded
<1> QED
  BY <1>1, <1>3, <1>7, <1>8 DEF AfterRangeCheck

\* A request arrives, for a handler or for nobody.
LEMMA ReceiveInv ==
    ASSUME IndInv, NEW w \in Workers, Receive(w) \/ ReceiveUnmatched(w)
    PROVE  IndInv'
<1> USE DEF IndInv
<1>1. /\ life \notin {"stopped", "exited"} /\ pc[w] = "idle" /\ req[w].slot = FALSE
      /\ UNCHANGED <<server, counters, catalog>>
  BY DEF Receive, ReceiveUnmatched, LifeInOrder, RequestInOrder, TypeOK, IsRequest
<1>2. CASE Receive(w)
  <2>1. PICK route \in Routes :
          \/ /\ req' = [req EXCEPT ![w] = NewRequest(route, received')]
             /\ pc' = [pc EXCEPT ![w] = IF route \in OpenRoutes THEN "count_in" ELSE "gate"]
          \/ /\ req' = [req EXCEPT ![w] =
                   ExceptionHandler([NewRequest(route, received') EXCEPT !.escaped = TRUE])]
             /\ pc' = [pc EXCEPT ![w] = "answer"]
    BY <1>2 DEF Receive, Goto
  <2>2. PICK n : n = NewRequest(route, received')
    OBVIOUS
  <2>3. IsRequest(n) /\ n.slot = FALSE /\ n.seen = <<>>
    BY <2>2, NewRequestFields
  <2>4. PICK e : e = ExceptionHandler([n EXCEPT !.escaped = TRUE])
    OBVIOUS
  <2>5. IsRequest(e) /\ e.slot = FALSE /\ e.seen = <<>> /\ e.escaped = TRUE
    <3>1. PICK x : x = [n EXCEPT !.escaped = TRUE]
      OBVIOUS
    <3>2. IsRequest(x) /\ x.slot = FALSE /\ x.seen = <<>> /\ x.escaped = TRUE
      BY <2>3, <3>1 DEF IsRequest
    <3>3. e = [x EXCEPT !.status = 500, !.body = TRUE]
      BY <2>4, <3>1, <3>2 DEF ExceptionHandler
    <3> QED
      BY <3>2, <3>3 DEF IsRequest
  <2>6. CASE /\ req' = [req EXCEPT ![w] = n]
             /\ pc' = [pc EXCEPT ![w] = IF route \in OpenRoutes THEN "count_in" ELSE "gate"]
    <3>1. /\ req'[w] = n /\ DOMAIN req' = Workers
          /\ \A v \in Workers \ {w} : req'[v] = req[v]
      BY <2>6 DEF TypeOK
    <3>2. PICK b \in {"count_in", "gate"} : pc' = [pc EXCEPT ![w] = b]
      BY <2>6
    <3>3. RequestInOrder(w)'
      BY <2>3, <3>1, <3>2 DEF RequestInOrder, TypeOK
    <3> QED
      BY <1>1, <2>3, <3>1, <3>2, <3>3, QuietStep DEF Counted, Handling, Points
  <2>7. CASE req' = [req EXCEPT ![w] = e] /\ pc' = [pc EXCEPT ![w] = "answer"]
    <3>1. /\ req'[w] = e /\ DOMAIN req' = Workers
          /\ \A v \in Workers \ {w} : req'[v] = req[v]
      BY <2>7 DEF TypeOK
    <3>2. RightlyRecorded(e)
      BY <2>5 DEF RightlyRecorded
    <3>3. RequestInOrder(w)'
      BY <2>5, <2>7, <3>1, <3>2 DEF RequestInOrder, TypeOK, Handling, Counted
    <3> QED
      BY <1>1, <2>5, <2>7, <3>1, <3>3, QuietStep DEF Counted, Handling, Points
  <2> QED
    BY <2>1, <2>2, <2>4, <2>6, <2>7
<1>3. CASE ReceiveUnmatched(w)
  <2>1. PICK status \in {404, 413, 416} :
          req' = [req EXCEPT ![w] = ErrorHandler([NewRequest("none", received') EXCEPT
                                                     !.status = status])]
    BY <1>3 DEF ReceiveUnmatched
  <2>2. PICK r : r = [NewRequest("none", received') EXCEPT !.status = status]
    OBVIOUS
  <2>3. /\ IsRequest(r) /\ r.status = status /\ r.body = FALSE
        /\ r.slot = FALSE /\ r.seen = <<>>
    <3>1. IsRequest(r)
      BY <2>2, ServerAssumption DEF NewRequest, IsRequest, NoInc
    <3>2. r.status = status /\ r.body = FALSE /\ r.slot = FALSE /\ r.seen = <<>>
      BY <2>2 DEF NewRequest
    <3> QED
      BY <3>1, <3>2
  <2>4. /\ IsRequest(ErrorHandler(r)) /\ ErrorHandler(r).slot = FALSE
        /\ ErrorHandler(r).seen = <<StatusClass(ErrorHandler(r).status)>>
    <3>1. r.status >= 400
      BY <2>3
    <3>2. Append(<<>>, StatusClass(status)) = <<StatusClass(status)>>
      OBVIOUS
    <3>3. /\ IsRequest(ErrorHandler(r)) /\ ErrorHandler(r).slot = FALSE
          /\ ErrorHandler(r).status = r.status
          /\ ErrorHandler(r).seen = Append(r.seen, StatusClass(r.status))
      BY <2>3, <3>1, ErrorHandled
    <3> QED
      BY <2>3, <3>2, <3>3
  <2>5. /\ pc' = [pc EXCEPT ![w] = "answer"]
        /\ req'[w] = ErrorHandler(r)
        /\ DOMAIN req' = Workers /\ \A v \in Workers \ {w} : req'[v] = req[v]
    BY <1>3, <2>1, <2>2 DEF ReceiveUnmatched, Goto, TypeOK
  <2>6. RightlyRecorded(req'[w])
    BY <2>4, <2>5 DEF RightlyRecorded
  <2>7. RequestInOrder(w)'
    BY <2>4, <2>5, <2>6 DEF RequestInOrder, TypeOK, Handling, Counted
  <2> QED
    BY <1>1, <2>4, <2>5, <2>7, QuietStep DEF Counted, Handling, Points
<1> QED
  BY <1>2, <1>3

\* The readiness and authentication checks, and the part of a handler before its
\* call.
LEMMA GateInv ==
    ASSUME IndInv, NEW w \in Workers, Gate(w) \/ Prepare(w)
    PROVE  IndInv'
<1> USE DEF IndInv
<1>1. /\ life \notin {"stopped", "exited"} /\ pc[w] \in {"gate", "prepare"}
      /\ req[w].slot = FALSE /\ req[w].seen = <<>>
      /\ UNCHANGED <<server, counters, catalog>>
  BY DEF Gate, Prepare, LifeInOrder, RequestInOrder, TypeOK, IsRequest, Handling, Counted
<1> DEFINE Fine ==
      /\ req'[w].slot = FALSE /\ req'[w].seen = <<>>
      /\ IsRequest(req'[w])
      /\ DOMAIN req' = Workers /\ \A v \in Workers \ {w} : req'[v] = req[v]
<1> DEFINE Answered == req'[w].escaped \/ req'[w].body
<1>2. ASSUME NEW b, pc' = [pc EXCEPT ![w] = b],
             \/ pc[w] = "gate" /\ b \in {"count_in", "finish"}
             \/ pc[w] = "prepare" /\ b \in {"slot", "call", "count_out"},
             Fine, b \in {"finish", "count_out"} => Answered
      PROVE  IndInv'
  <2>1. b \in Handling /\ b \in Points /\ (b \in Counted <=> pc[w] \in Counted)
    BY <1>2 DEF Handling, Counted, Points
  <2>2. RequestInOrder(w)'
    BY <1>2 DEF RequestInOrder, TypeOK, Handling, Counted
  <2> QED
    BY <1>1, <1>2, <2>1, <2>2, QuietStep
<1>3. ASSUME req' = req
      PROVE  Fine
  BY <1>1, <1>3 DEF TypeOK
<1>4. ASSUME NEW s, req' = [req EXCEPT ![w].status = s, ![w].body = TRUE]
      PROVE  Fine /\ Answered
  BY <1>1, <1>4 DEF TypeOK, IsRequest
<1>5. ASSUME NEW s, req' = [req EXCEPT ![w].status = s, ![w].escaped = TRUE]
      PROVE  Fine /\ Answered
  BY <1>1, <1>5 DEF TypeOK, IsRequest
<1>6. ASSUME req' = [req EXCEPT ![w].inc = current]
      PROVE  Fine
  BY <1>1, <1>6 DEF TypeOK, IsRequest
<1>7. CASE Gate(w)
  <2>1. CASE pc' = [pc EXCEPT ![w] = "count_in"] /\ req' = req
    BY <1>2, <1>3, <1>7, <2>1 DEF Gate
  <2>2. CASE pc' = [pc EXCEPT ![w] = "finish"] /\ Fine /\ Answered
    BY <1>2, <1>7, <2>2 DEF Gate
  <2> HIDE DEF Fine, Answered
  <2> QED
    BY <1>4, <1>5, <1>7, <2>1, <2>2 DEF Gate, Send, Goto
<1>8. CASE Prepare(w)
  <2>1. CASE pc' = [pc EXCEPT ![w] = "count_out"] /\ Fine /\ Answered
    BY <1>2, <1>8, <2>1 DEF Prepare
  <2>2. ASSUME NEW b \in {"slot", "call"}, pc' = [pc EXCEPT ![w] = b],
               req' = req \/ req' = [req EXCEPT ![w].inc = current]
        PROVE  IndInv'
    BY <1>2, <1>3, <1>6, <1>8, <2>2 DEF Prepare
  <2> HIDE DEF Fine, Answered
  <2> QED
    BY <1>4, <1>8, <2>1, <2>2 DEF Prepare, Send, Goto
<1> QED
  BY <1>7, <1>8

\* The end of a handler and of its answer.
LEMMA FinishInv ==
    ASSUME IndInv, NEW w \in Workers, Finish(w) \/ Answer(w)
    PROVE  IndInv'
<1> USE DEF IndInv
<1>1. /\ life \notin {"stopped", "exited"} /\ pc[w] \in {"finish", "answer"}
      /\ IsRequest(req[w]) /\ req[w].slot = FALSE
      /\ UNCHANGED <<server, counters, catalog>>
  BY DEF Finish, Answer, LifeInOrder, RequestInOrder, TypeOK, IsRequest
<1>2. CASE Finish(w)
  <2>1. req[w].seen = <<>> /\ (req[w].escaped \/ req[w].body)
    BY <1>2 DEF Finish, RequestInOrder, Handling
  <2>2. PICK r \in AfterRangeCheck(ExceptionHandler(Recorded(req[w]))) :
          req' = [req EXCEPT ![w] = ErrorHandler(r)]
    BY <1>2 DEF Finish
  <2>3. /\ IsRequest(ErrorHandler(r)) /\ ErrorHandler(r).slot = FALSE
        /\ RightlyRecorded(ErrorHandler(r))
    BY <1>1, <2>1, Delivered
  <2>4. /\ pc' = [pc EXCEPT ![w] = "answer"]
        /\ req'[w] = ErrorHandler(r)
        /\ DOMAIN req' = Workers /\ \A v \in Workers \ {w} : req'[v] = req[v]
    BY <1>2, <2>2 DEF Finish, Goto, TypeOK
  <2>5. RequestInOrder(w)'
    BY <2>3, <2>4 DEF RequestInOrder, TypeOK, Handling, Counted
  <2> QED
    BY <1>1, <1>2, <2>3, <2>4, <2>5, QuietStep DEF Finish, Counted, Handling, Points
<1>3. CASE Answer(w)
  <2>1. /\ pc' = [pc EXCEPT ![w] = "idle"]
        /\ IsRequest(req'[w]) /\ req'[w].slot = FALSE
        /\ DOMAIN req' = Workers /\ \A v \in Workers \ {w} : req'[v] = req[v]
    BY <1>3, NewRequestFields DEF Answer, Goto, NoRequest, TypeOK
  <2>2. RequestInOrder(w)'
    BY <2>1 DEF RequestInOrder, TypeOK, Handling, Counted
  <2> QED
    BY <1>1, <1>3, <2>1, <2>2, QuietStep DEF Answer, Counted, Handling, Points
<1> QED
  BY <1>2, <1>3

\* The counter of requests in flight goes up and down with the requests.
LEMMA CountInv ==
    ASSUME IndInv, NEW w \in Workers, CountIn(w) \/ CountOut(w) \/ Escape(w)
    PROVE  IndInv'
<1> USE DEF IndInv
<1>1. /\ pc[w] \in {"count_in", "count_out"} /\ life \notin {"stopped", "exited"}
      /\ req[w].slot = FALSE /\ req[w].seen = <<>>
      /\ UNCHANGED <<server, slots, catalog>>
  BY DEF CountIn, CountOut, Escape, LifeInOrder, RequestInOrder, TypeOK, IsRequest, Handling,
         Counted
<1>2. /\ req'[w].slot = FALSE /\ req'[w].seen = <<>>
      /\ IsRequest(req'[w])
      /\ DOMAIN req' = Workers /\ \A v \in Workers \ {w} : req'[v] = req[v]
      /\ pc[w] = "count_out" => req'[w].escaped \/ req'[w].body
  <2>1. CASE Escape(w)
    BY <1>1, <2>1, ServerAssumption DEF Escape, TypeOK, IsRequest, NoInc
  <2>2. CASE CountOut(w)
    <3>1. req[w].escaped \/ req[w].body
      BY <2>2 DEF CountOut, RequestInOrder
    <3> QED
      BY <1>1, <2>2, <3>1, ServerAssumption DEF CountOut, TypeOK, IsRequest, NoInc
  <2>3. CASE CountIn(w)
    BY <1>1, <2>3 DEF CountIn, TypeOK
  <2> QED
    BY <2>1, <2>2, <2>3
<1>3. PICK b \in {"prepare", "finish"} :
        /\ pc' = [pc EXCEPT ![w] = b]
        /\ b = "prepare" => /\ pc[w] = "count_in"
                            /\ in_flight' = in_flight + 1 /\ leaked' = leaked
        /\ b = "finish" => /\ pc[w] = "count_out"
                           /\ \/ in_flight' = in_flight - 1 /\ leaked' = leaked
                              \/ in_flight' = in_flight /\ leaked' = leaked + 1
        /\ gauge' = in_flight'
  BY DEF CountIn, CountOut, Escape, Goto, ResourcesAccounted
<1>4. TypeOK'
  BY <1>1, <1>2, <1>3 DEF TypeOK, catalog, Points, Handling, Counted
<1>5. \A v \in Workers : RequestInOrder(v)'
  BY <1>2, <1>3 DEF RequestInOrder, TypeOK
<1>6. LifeInOrder'
  BY <1>1 DEF LifeInOrder, server, catalog
<1>7. Holders' = Holders
  BY <1>1, <1>2, Rehold
<1>8. /\ Cardinality(Busy) \in Nat /\ Cardinality(Busy') \in Nat
      /\ b = "prepare" => Cardinality(Busy') = Cardinality(Busy) + 1
      /\ b = "finish" => Cardinality(Busy') = Cardinality(Busy) - 1
  BY <1>3, Recount DEF Counted
<1>9. ResourcesAccounted'
  BY <1>1, <1>3, <1>7, <1>8 DEF ResourcesAccounted, TypeOK
<1> QED
  BY <1>4, <1>5, <1>6, <1>9
\* with_pool() takes a slot, or goes on without one.
LEMMA TakeSlotInv ==
    ASSUME IndInv, NEW w \in Workers, TakeSlot(w)
    PROVE  IndInv'
<1> USE DEF IndInv
<1>1. /\ pc[w] = "slot" /\ life \notin {"stopped", "exited"}
      /\ IsRequest(req[w])
      /\ req[w].slot = FALSE /\ req[w].seen = <<>>
      /\ pc' = [pc EXCEPT ![w] = "call"]
      /\ UNCHANGED <<server, in_flight, gauge, leaked, catalog>>
  BY DEF TakeSlot, Goto, LifeInOrder, RequestInOrder, TypeOK, IsRequest, Handling, Counted
<1>2. CASE UNCHANGED <<slots, req>>
  <2>1. RequestInOrder(w)'
    BY <1>1, <1>2 DEF RequestInOrder, TypeOK
  <2> QED
    BY <1>1, <1>2, <2>1, QuietStep DEF counters, TypeOK, Counted, Handling, Points
<1>3. CASE slots > 0 /\ slots' = slots - 1 /\ req' = [req EXCEPT ![w].slot = TRUE]
  <2>1. /\ DOMAIN req' = Workers /\ \A v \in Workers \ {w} : req'[v] = req[v]
        /\ IsRequest(req'[w]) /\ req'[w].slot = TRUE
        /\ req'[w].seen = <<>>
    BY <1>1, <1>3 DEF TypeOK, IsRequest
  <2>2. TypeOK'
    BY <1>1, <1>3, <2>1 DEF TypeOK, catalog, Points, Handling, Counted
  <2>3. \A v \in Workers : RequestInOrder(v)'
    BY <1>1, <2>1 DEF RequestInOrder, TypeOK
  <2>4. LifeInOrder'
    BY <1>1 DEF LifeInOrder, server, catalog
  <2>5. Busy' = Busy
    BY <1>1, Recount DEF Counted
  <2>6. /\ Cardinality(Holders) \in Nat /\ Cardinality(Holders') \in Nat
        /\ Cardinality(Holders') = Cardinality(Holders) + 1
    BY <1>1, <2>1, Rehold
  <2>7. ResourcesAccounted'
    BY <1>1, <1>3, <2>5, <2>6, ServerAssumption DEF ResourcesAccounted, TypeOK
  <2> QED
    BY <2>2, <2>3, <2>4, <2>7
<1> QED
  BY <1>2, <1>3 DEF TakeSlot

\* What a call does to the catalog keeps it in its type.
LEMMA CatalogType ==
    ASSUME TypeOK, NEW w \in Workers, Call(w)
    PROVE  /\ current' \in 0..MaxIncs /\ created' \in 0..MaxIncs
           /\ DOMAIN contents' = Incs /\ DOMAIN saved' = Incs
<1>1. PICK status :
        \/ Insert(w, status) \/ Create(status) \/ Drop(status) \/ Snapshot(status)
        \/ UNCHANGED catalog
  BY DEF Call
<1>2. CASE Insert(w, status)
  BY <1>2 DEF Insert, TypeOK
<1>3. CASE Create(status)
  BY <1>3, ServerAssumption DEF Create, TypeOK, catalog
<1>4. CASE Drop(status)
  BY <1>4, ServerAssumption DEF Drop, TypeOK, catalog, NoInc
<1>5. CASE Snapshot(status)
  BY <1>5 DEF Snapshot, TypeOK, catalog
<1>6. CASE UNCHANGED catalog
  BY <1>6 DEF TypeOK, catalog
<1> QED
  BY <1>1, <1>2, <1>3, <1>4, <1>5, <1>6

\* The call of a route, and the release of the slot it was made under.
LEMMA CallInv ==
    ASSUME IndInv, NEW w \in Workers, Call(w)
    PROVE  IndInv'
<1> USE DEF IndInv
<1>1. /\ pc[w] = "call" /\ life \notin {"stopped", "exited"}
      /\ IsRequest(req[w]) /\ req[w].seen = <<>>
      /\ pc' = [pc EXCEPT ![w] = "count_out"]
      /\ slots' = IF req[w].slot THEN slots + 1 ELSE slots
      /\ UNCHANGED <<server, in_flight, gauge, leaked>>
  BY DEF Call, ReleaseSlot, Goto, LifeInOrder, RequestInOrder, TypeOK, Handling, Counted
<1>2. PICK status : req' = [req EXCEPT ![w].status = status, ![w].body = TRUE,
                                       ![w].slot = FALSE]
  BY DEF Call
<1>3. /\ DOMAIN req' = Workers /\ \A v \in Workers \ {w} : req'[v] = req[v]
      /\ IsRequest(req'[w]) /\ req'[w].slot = FALSE
      /\ req'[w].seen = <<>> /\ req'[w].body = TRUE
  BY <1>1, <1>2 DEF TypeOK, IsRequest
<1>4. TypeOK'
  BY <1>1, <1>3, CatalogType DEF TypeOK, Points, Handling, Counted
<1>5. \A v \in Workers : RequestInOrder(v)'
  BY <1>1, <1>3 DEF RequestInOrder, TypeOK
<1>6. LifeInOrder'
  BY <1>1 DEF LifeInOrder, server
<1>7. Busy' = Busy
  BY <1>1, Recount DEF Counted
<1>8. /\ Cardinality(Holders) \in Nat /\ Cardinality(Holders') \in Nat
      /\ req[w].slot => Cardinality(Holders') = Cardinality(Holders) - 1
      /\ ~req[w].slot => Cardinality(Holders') = Cardinality(Holders)
  BY <1>1, <1>3, Rehold DEF IsRequest
<1>9. ResourcesAccounted'
  BY <1>1, <1>7, <1>8, ServerAssumption DEF ResourcesAccounted, TypeOK
<1> QED
  BY <1>4, <1>5, <1>6, <1>9

\* Every step of a worker.
LEMMA WorkerInv ==
    ASSUME IndInv, NEW w \in Workers,
           Receive(w) \/ ReceiveUnmatched(w) \/ HandlerStep(w)
    PROVE  IndInv'
  BY ReceiveInv, GateInv, FinishInv, CountInv, TakeSlotInv, CallInv DEF HandlerStep

\* Every step of the main thread: start(), stop() and the snapshot on exit.
LEMMA MainInv ==
    ASSUME IndInv, Start \/ RequestStop \/ StopStep
    PROVE  IndInv'
<1> USE DEF IndInv
<1>1. /\ UNCHANGED <<counters, pc, req, current, created, contents>>
      /\ saved' = saved \/ saved' = SavedAll
  <2>1. CASE Start \/ RequestStop
    BY <2>1 DEF Start, RequestStop, catalog
  <2>2. CASE Drained \/ DrainTimeout \/ Join
    BY <2>2 DEF Drained, DrainTimeout, Join, catalog
  <2>3. CASE SnapshotAll
    BY <2>3 DEF SnapshotAll
  <2> QED
    BY <2>1, <2>2, <2>3 DEF StopStep
<1>2. TypeOK'
  BY <1>1 DEF TypeOK, counters, SavedAll
<1>3. \A v \in Workers : RequestInOrder(v)'
  BY <1>1 DEF RequestInOrder
<1>4. ResourcesAccounted'
  BY <1>1 DEF ResourcesAccounted, Busy, Holders, counters
<1>5. LifeInOrder'
  <2>1. CASE Start \/ RequestStop
    BY <2>1 DEF LifeInOrder, Start, RequestStop
  <2>2. CASE Drained \/ DrainTimeout \/ Join
    BY <2>2 DEF LifeInOrder, Drained, DrainTimeout, Join
  <2>3. CASE SnapshotAll
    <3>1. /\ ~listening'
          /\ \A w \in Workers : pc'[w] = "idle"
      BY <1>1, <2>3 DEF LifeInOrder, SnapshotAll
    <3>2. ASSUME saved' = SavedAll, current # NoInc
          PROVE  saved'[current] = contents[current]
      BY <3>2 DEF SavedAll, TypeOK, Incs, NoInc
    <3>3. life' = "exited" /\ current' # NoInc => saved'[current'] = contents'[current']
      BY <1>1, <2>3, <3>2 DEF SnapshotAll
    <3> QED
      BY <3>1, <3>3 DEF LifeInOrder
  <2> QED
    BY <2>1, <2>2, <2>3 DEF StopStep
<1> QED
  BY <1>2, <1>3, <1>4, <1>5

\* The invariant holds when the process has opened its catalog.
LEMMA InitInv == Init => IndInv
<1> SUFFICES ASSUME Init PROVE IndInv
  OBVIOUS
<1>1. IsRequest(NoRequest) /\ NoRequest.slot = FALSE
  BY ServerAssumption DEF NoRequest, NewRequest, IsRequest, NoInc
<1>2. TypeOK
  BY <1>1, ServerAssumption DEF Init, TypeOK, Points, NoInc
<1>3. \A w \in Workers : RequestInOrder(w)
  BY <1>1 DEF Init, RequestInOrder, Handling, Counted
<1>4. LifeInOrder
  BY DEF Init, LifeInOrder
<1>5. Busy = {} /\ Holders = {}
  BY <1>1 DEF Init, Busy, Holders
<1>6. ResourcesAccounted
  BY <1>5, FS_EmptySet, ServerAssumption DEF Init, ResourcesAccounted
<1> QED
  BY <1>2, <1>3, <1>4, <1>6 DEF IndInv

\* Every step preserves the invariant.
LEMMA Inductive == IndInv /\ [Next]_vars => IndInv'
<1> SUFFICES ASSUME IndInv, [Next]_vars PROVE IndInv'
  OBVIOUS
<1>1. CASE UNCHANGED vars
  BY <1>1 DEF IndInv, vars, server, counters, catalog, TypeOK, RequestInOrder, LifeInOrder,
              ResourcesAccounted, Busy, Holders
<1>2. CASE Next
  BY <1>1, <1>2, WorkerInv, MainInv DEF Next, Ended
<1> QED
  BY <1>1, <1>2

\* The invariant holds in every reachable state.
LEMMA Invariant == Spec => []IndInv
  BY InitInv, Inductive, PTL DEF Spec
-----------------------------------------------------------------------------
\* in_flight is the number of requests between their two counting steps plus the
\* requests whose error answer threw, the gauge is in_flight, and no batch slot is
\* lost or given out twice, whatever throws in a handler.
THEOREM ResourcesSafe == Spec => []ResourcesAccounted
  BY Invariant, PTL DEF IndInv

\* When stop() has returned no worker is in a handler: the catalog and the server
\* outlive every request, also one that was counted in after stop() had seen none
\* in flight, or that outlasted drain_timeout.
THEOREM StopWaitsForRequests == Spec => []NoRequestOutlivesStop
<1>1. IndInv => NoRequestOutlivesStop
  BY DEF IndInv, LifeInOrder, NoRequestOutlivesStop
<1> QED
  BY <1>1, Invariant, PTL

\* After a shutdown that reports no error the last snapshot of the collection in
\* the catalog holds every insert that was answered with 200: nothing is inserted
\* between the snapshot on exit and the end.
THEOREM ShutdownSaves == Spec => []AcknowledgedInsertsAreSaved
<1>1. IndInv => AcknowledgedInsertsAreSaved
  BY DEF IndInv, LifeInOrder, AcknowledgedInsertsAreSaved
<1> QED
  BY <1>1, Invariant, PTL

\* Every response is recorded, once and under the class of the status that is sent,
\* but for a handler that threw out of wrap() (at most once) and a success httplib
\* turned into a 416 (twice): whatever the routes and their errors, an error response
\* of a handler reaches the error handler with a body.
THEOREM ResponsesSafe == Spec => []ResponsesRecorded
<1>1. IndInv => ResponsesRecorded
  BY DEF IndInv, RequestInOrder, ResponsesRecorded
<1> QED
  BY <1>1, Invariant, PTL
=============================================================================

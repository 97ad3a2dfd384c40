------------------------------- MODULE Server -------------------------------
(***************************************************************************)
(* src/server/server.cpp under apps/cli/cmd_serve.cpp: the life of the     *)
(* HTTP server from start() to the exit of `vectorforge serve`, and the    *)
(* requests its threads handle meanwhile.                                  *)
(*                                                                         *)
(* A request is its route and the point its handler has reached; bodies    *)
(* and answers are reduced to the status they lead to.  The catalog is     *)
(* reduced to one name: the incarnation in the catalog, and for each       *)
(* incarnation the inserts it holds and those in its last snapshot (module *)
(* Catalog is about the rest).  Any allocation of a handler may fail.      *)
(* cpp-httplib is external: threads that take requests until stop(), a     *)
(* listener that ends when they have finished, the exception and error     *)
(* handlers called on a response, and the answer to a Range that the       *)
(* response cannot satisfy.                                                *)
(***************************************************************************)
EXTENDS Naturals, Sequences, FiniteSets

CONSTANTS
    Workers,      \* http_threads: the threads of httplib's task queue
    BatchSlots,   \* kBatchSlots
    MaxRequests,  \* bound: requests received
    MaxIncs,      \* bound: incarnations of the collection
    Routes        \* bound: the routes that are called

ASSUME ServerAssumption ==
    IsFiniteSet(Workers) /\ BatchSlots \in Nat /\ MaxRequests \in Nat /\ MaxIncs \in Nat \ {0}

Incs == 1..MaxIncs
Requests == 1..MaxRequests
NoInc == 0

VARIABLES
    life,       \* where run_serve() is
    accepting, listening,
    in_flight,
    gauge,      \* Metrics::in_flight_
    slots,      \* batch_slots: free slots
    pc, req,    \* the request each worker handles
    received,   \* requests received so far
    current,    \* the incarnation in the catalog, or NoInc
    created,    \* incarnations created so far
    contents,   \* per incarnation, the inserts it holds
    saved,      \* per incarnation, the inserts in its last snapshot
    acked,      \* history: inserts answered with 200
    leaked      \* history: requests whose error answer threw inside wrap()

server == <<life, accepting, listening>>
counters == <<in_flight, gauge, slots, leaked>>
catalog == <<current, created, contents, saved>>
vars == <<server, counters, pc, req, received, catalog, acked>>
-----------------------------------------------------------------------------
\* Who answers without readiness and authentication.
OpenRoutes == {"healthz", "readyz"}

\* Routes that need no collection object.
GlobalRoutes == {"status", "metrics", "list", "create", "drop", "snapshot"}

\* insert() and the batch search run through with_pool().
PoolRoutes == {"insert", "bulk", "search_batch"}

\* find() first; the object is held until the handler returns.
FindRoutes ==
    PoolRoutes \cup {"info", "get", "remove", "search", "stats", "compact"}

kRoutes == OpenRoutes \cup GlobalRoutes \cup FindRoutes

ASSUME RoutesAssumption == Routes \subseteq kRoutes

\* The routes that require a content type, decode a body, or parse an id.
TypedRoutes == {"create", "insert", "bulk", "search", "search_batch"}

IdRoutes == {"get", "remove"}

\* to_api_error: the status of each ErrorCode.
HttpStatus ==
    [Ok |-> 200,
     InvalidArgument |-> 400, DimensionMismatch |-> 400,
     NotFound |-> 404,
     AlreadyExists |-> 409, FailedPrecondition |-> 409,
     ResourceExhausted |-> 507,
     Unavailable |-> 503,
     CorruptData |-> 500, UnsupportedVersion |-> 500, IoError |-> 500, Internal |-> 500]

\* What decode_create, decode_insert, decode_bulk and decode_search answer to a
\* body they refuse: not JSON or a wrong field, or a limit exceeded.
DecodeErrors == {400, 422}

\* The answers a handler may give before it touches a collection: wrong content
\* type, a refused body or query parameter, an id that is not one.
Refusals(route) ==
    (IF route \in TypedRoutes THEN {415} \cup DecodeErrors ELSE {})
    \cup (IF route \in IdRoutes THEN {HttpStatus.InvalidArgument} ELSE {})

\* The errors of the collection or catalog call of a route that do not come from
\* the state modelled here.
CallErrors(route) ==
    {HttpStatus[code] : code \in
        CASE route \in {"insert", "bulk"} ->
                 {"InvalidArgument", "AlreadyExists", "ResourceExhausted"}
          [] route \in {"get", "remove"} -> {"NotFound"}
          [] route \in {"search", "search_batch"} -> {"InvalidArgument"}
          [] route \in {"create", "drop", "snapshot"} -> {"IoError"}
          [] OTHER -> {}}

\* Metrics::observe: status classes 1xx to 5xx, clamped.
StatusClass(status) ==
    IF status < 100 THEN 1 ELSE IF status > 599 THEN 5 ELSE status \div 100

NoStatus == 0        \* httplib's status before a handler sets one

NewRequest(route, n) ==
    [route |-> route, number |-> n, inc |-> NoInc, slot |-> FALSE, status |-> NoStatus,
     body |-> FALSE, seen |-> <<>>, escaped |-> FALSE]

NoRequest == NewRequest("none", 0)

Init ==
    /\ life = "start"
    /\ accepting = FALSE
    /\ listening = FALSE
    /\ in_flight = 0 /\ gauge = 0 /\ slots = BatchSlots /\ leaked = 0
    /\ pc = [w \in Workers |-> "idle"]
    /\ req = [w \in Workers |-> NoRequest]
    /\ received = 0
    /\ current \in {NoInc, 1}           \* what Catalog::open() found
    /\ created = current
    /\ contents = [i \in Incs |-> {}]
    /\ saved = [i \in Incs |-> {}]
    /\ acked = {}
-----------------------------------------------------------------------------
Goto(w, where) == pc' = [pc EXCEPT ![w] = where]

\* send_error, send_status, send_json and on to `where`.
Send(w, status, where) ==
    /\ req' = [req EXCEPT ![w].status = status, ![w].body = TRUE]
    /\ Goto(w, where)

\* finish(): Metrics::observe of a request under its status.
Recorded(r) == [r EXCEPT !.seen = Append(@, StatusClass(r.status))]

\* Mutant of ErrorHandler: it does not look for a body.
MutErrorHandlerAlways(r) ==
    IF r.status >= 400 THEN [Recorded(r) EXCEPT !.body = TRUE] ELSE r

\* httplib calls it for every error answer; it leaves alone one that has a body and
\* records any other, which it gives one (as unmatched, whatever the route).  Its own
\* allocations are taken to succeed: nothing catches what it throws.
ErrorHandler(r) ==
    IF r.status >= 400 /\ ~r.body THEN [Recorded(r) EXCEPT !.body = TRUE] ELSE r

\* httplib's answer when a handler has thrown.
ExceptionHandler(r) == IF r.escaped THEN [r EXCEPT !.status = 500, !.body = TRUE] ELSE r

\* httplib turns a successful answer to a request with a Range it cannot satisfy
\* into a 416 without a body; `r` otherwise stays as it is.
AfterRangeCheck(r) ==
    {r} \cup (IF r.status \in 200..299 THEN {[r EXCEPT !.status = 416, !.body = FALSE]}
              ELSE {})

\* httplib hands a request of a registered route to a worker.  request_id() may
\* throw before anything is recorded; httplib's exception handler answers 500.
Receive(w) ==
    /\ pc[w] = "idle" /\ listening /\ received < MaxRequests
    /\ received' = received + 1
    /\ \E route \in Routes :
         \/ /\ req' = [req EXCEPT ![w] = NewRequest(route, received')]
            /\ Goto(w, IF route \in OpenRoutes THEN "count_in" ELSE "gate")
         \/ /\ req' = [req EXCEPT ![w] =
                  ExceptionHandler([NewRequest(route, received') EXCEPT !.escaped = TRUE])]
            /\ Goto(w, "answer")
    /\ UNCHANGED <<server, counters, catalog, acked>>

\* A request httplib refuses itself (no route, body too large, a Range that is not
\* one): error handler.
ReceiveUnmatched(w) ==
    /\ pc[w] = "idle" /\ listening /\ received < MaxRequests
    /\ received' = received + 1
    /\ \E status \in {404, 413, 416} :
         req' = [req EXCEPT ![w] =
                    ErrorHandler([NewRequest("none", received') EXCEPT !.status = status])]
    /\ Goto(w, "answer")
    /\ UNCHANGED <<server, counters, catalog, acked>>

\* wrap(): readiness, then authentication.  If the answer itself cannot be
\* built, the exception leaves the handler with the status set or not yet.
Gate(w) ==
    /\ pc[w] = "gate"
    /\ \/ accepting /\ Goto(w, "count_in") /\ UNCHANGED req
       \/ \E status \in IF accepting THEN {401} ELSE {503} :
            \/ Send(w, status, "finish")
            \/ \E set \in {status, NoStatus} :
                 /\ req' = [req EXCEPT ![w].status = set, ![w].escaped = TRUE]
                 /\ Goto(w, "finish")
    /\ UNCHANGED <<server, counters, received, catalog, acked>>

CountIn(w) ==
    /\ pc[w] = "count_in"
    /\ in_flight' = in_flight + 1
    /\ gauge' = in_flight'
    /\ Goto(w, "prepare")
    /\ UNCHANGED <<server, slots, leaked, req, received, catalog, acked>>

\* The handler up to its collection or catalog call: content type, find(),
\* decoding, the id.
Prepare(w) ==
    LET route == req[w].route IN
    /\ pc[w] = "prepare"
    /\ \/ \E status \in Refusals(route) : Send(w, status, "count_out")
       \/ /\ route \in FindRoutes /\ current = NoInc
          /\ Send(w, HttpStatus.NotFound, "count_out")
       \/ /\ route \in FindRoutes /\ current # NoInc
          /\ req' = [req EXCEPT ![w].inc = current]
          /\ Goto(w, IF route \in PoolRoutes THEN "slot" ELSE "call")
       \/ /\ route \notin FindRoutes
          /\ Goto(w, "call")
          /\ UNCHANGED req
    /\ UNCHANGED <<server, counters, received, catalog, acked>>

\* with_pool(): try_acquire, or run without the pool (also when there is none).
TakeSlot(w) ==
    /\ pc[w] = "slot"
    /\ \/ /\ slots > 0
          /\ slots' = slots - 1
          /\ req' = [req EXCEPT ![w].slot = TRUE]
       \/ UNCHANGED <<slots, req>>
    /\ Goto(w, "call")
    /\ UNCHANGED <<server, in_flight, gauge, leaked, received, catalog, acked>>

\* Mutant of ReleaseSlot: kept when the body throws.
MutReleaseSlotOnSuccess(w) ==
    slots' = IF req[w].slot /\ req'[w].status < 500 THEN slots + 1 ELSE slots

\* ~Release of with_pool().
ReleaseSlot(w) == slots' = IF req[w].slot THEN slots + 1 ELSE slots
-----------------------------------------------------------------------------
\* Somebody still holds an incarnation that was dropped.
Held(i) == \E w \in Workers : req[w].inc = i

\* wrap()'s answers to an exception: bad_alloc, any other.  It may come from the call,
\* or after it from building the answer.
Thrown == {507, 500}

\* What the call of each route does when it succeeds or fails on the state.
Insert(w, status) ==
    /\ \/ status = 200 /\ contents' = [contents EXCEPT ![req[w].inc] = @ \cup {req[w].number}]
       \/ status # 200 /\ contents' \in
             {contents, [contents EXCEPT ![req[w].inc] = @ \cup {req[w].number}]}
    /\ UNCHANGED <<current, created, saved>>

Create(status) ==
    \/ /\ status \in {201} \cup Thrown
       /\ current = NoInc /\ ~Held(created) /\ created < MaxIncs
       /\ created' = created + 1
       /\ current' = created'
       /\ UNCHANGED <<contents, saved>>
    \/ /\ \/ status = HttpStatus.AlreadyExists /\ current # NoInc
          \/ status = HttpStatus.Unavailable /\ current = NoInc /\ created # 0 /\ Held(created)
       /\ UNCHANGED catalog

Drop(status) ==
    \/ status = HttpStatus.NotFound /\ current = NoInc /\ UNCHANGED catalog
    \/ /\ status \in {200} \cup Thrown /\ current # NoInc
       /\ current' = NoInc
       /\ UNCHANGED <<created, contents, saved>>

Snapshot(status) ==
    \/ status = HttpStatus.NotFound /\ current = NoInc /\ UNCHANGED catalog
    \/ /\ status \in {200} \cup Thrown /\ current # NoInc
       /\ saved' = [saved EXCEPT ![current] = contents[current]]
       /\ UNCHANGED <<current, created, contents>>

\* The call, the release of the slot, and the answer.
Call(w) ==
    LET route == req[w].route IN
    /\ pc[w] = "call"
    /\ \E status \in {200, 201, 404, 409, 503} \cup Thrown \cup CallErrors(route) :
         /\ req' = [req EXCEPT ![w].status = status, ![w].body = TRUE,
                               ![w].slot = FALSE]
         /\ \/ route \in {"insert", "bulk"} /\ Insert(w, status)
                  /\ status \in {200} \cup Thrown \cup CallErrors(route)
            \/ route = "create" /\ Create(status)
            \/ route = "drop" /\ Drop(status)
            \/ route = "snapshot" /\ Snapshot(status)
            \/ /\ route = "readyz" /\ status = (IF accepting THEN 200 ELSE 503)
               /\ UNCHANGED catalog
            \/ /\ route \notin {"insert", "bulk", "create", "drop", "snapshot", "readyz"}
               /\ status = 200
               /\ UNCHANGED catalog
            \/ /\ route \notin {"insert", "bulk"}
               /\ status \in Thrown \cup CallErrors(route)
               /\ UNCHANGED catalog
    /\ ReleaseSlot(w)
    /\ Goto(w, "count_out")
    /\ UNCHANGED <<server, in_flight, gauge, leaked, received, acked>>

\* An exception whose error answer cannot be built either leaves wrap() before
\* the request is counted out.  The handler's reference is gone by then.
Escape(w) ==
    /\ pc[w] = "count_out" /\ req[w].status \in Thrown
    /\ req' = [req EXCEPT ![w].escaped = TRUE, ![w].inc = NoInc]
    /\ leaked' = leaked + 1
    /\ Goto(w, "finish")
    /\ UNCHANGED <<server, in_flight, gauge, slots, received, catalog, acked>>

\* The handler returns, which drops its reference, and the request is counted out.
CountOut(w) ==
    /\ pc[w] = "count_out"
    /\ req' = [req EXCEPT ![w].inc = NoInc]
    /\ in_flight' = in_flight - 1
    /\ gauge' = in_flight'
    /\ Goto(w, "finish")
    /\ UNCHANGED <<server, slots, leaked, received, catalog, acked>>

\* wrap() returns or throws: ~Finish records the status set by then, and httplib
\* makes the response ready to be sent.
Finish(w) ==
    /\ pc[w] = "finish"
    /\ \E r \in AfterRangeCheck(ExceptionHandler(Recorded(req[w]))) :
         req' = [req EXCEPT ![w] = ErrorHandler(r)]
    /\ Goto(w, "answer")
    /\ UNCHANGED <<server, counters, received, catalog, acked>>

\* httplib writes the answer and takes the next request.
Answer(w) ==
    /\ pc[w] = "answer"
    /\ acked' = IF req[w].route \in {"insert", "bulk"} /\ req[w].status = 200
                THEN acked \cup {req[w].number} ELSE acked
    /\ req' = [req EXCEPT ![w] = NoRequest]
    /\ Goto(w, "idle")
    /\ UNCHANGED <<server, counters, received, catalog>>
-----------------------------------------------------------------------------
\* Server::start(): bind, accept, listen.  A port in use ends run_serve().
Start ==
    /\ life = "start"
    /\ \/ /\ accepting' = TRUE /\ listening' = TRUE
          /\ life' = "serving"
       \/ life' = "failed" /\ UNCHANGED <<accepting, listening>>
    /\ UNCHANGED <<counters, pc, req, received, catalog, acked>>

\* A signal: run_serve() calls stop().
RequestStop ==
    /\ life = "serving"
    /\ accepting' = FALSE
    /\ life' = "drain"
    /\ UNCHANGED <<listening, counters, pc, req, received, catalog, acked>>

\* wait_for(drain_timeout, in_flight == 0), then http.stop().
Drained ==
    /\ life = "drain" /\ in_flight = 0
    /\ listening' = FALSE
    /\ life' = "join"
    /\ UNCHANGED <<accepting, counters, pc, req, received, catalog, acked>>

\* Mutant of DrainTimeout: wait() instead of wait_for().
MutDrainTimeoutNever ==
    /\ life = "drain" /\ in_flight = 0
    /\ listening' = FALSE
    /\ life' = "join"
    /\ UNCHANGED <<accepting, counters, pc, req, received, catalog, acked>>

DrainTimeout ==
    /\ life = "drain" /\ in_flight # 0
    /\ listening' = FALSE
    /\ life' = "join"
    /\ UNCHANGED <<accepting, counters, pc, req, received, catalog, acked>>

\* Mutant of Join: stop() returns without waiting for the listener.
MutJoinDetaches ==
    /\ life = "join"
    /\ life' = "stopped"
    /\ UNCHANGED <<accepting, listening, counters, pc, req, received, catalog, acked>>

\* Mutant of Join: it trusts the count of requests in flight.
MutJoinTrustsInFlight ==
    /\ life = "join" /\ in_flight = leaked
    /\ life' = "stopped"
    /\ UNCHANGED <<accepting, listening, counters, pc, req, received, catalog, acked>>

\* listener.join(): httplib's listener ends when its threads have finished.
Join ==
    /\ life = "join"
    /\ \A w \in Workers : pc[w] = "idle"
    /\ life' = "stopped"
    /\ UNCHANGED <<accepting, listening, counters, pc, req, received, catalog, acked>>

\* Catalog::snapshot_all(): every collection of the catalog is snapshotted.
SavedAll ==
    IF current = NoInc THEN saved ELSE [saved EXCEPT ![current] = contents[current]]

\* snapshot_all() on exit; its first error is run_serve()'s.
SnapshotAll ==
    /\ life = "stopped"
    /\ \/ saved' = SavedAll /\ life' = "exited"
       \/ life' = "failed" /\ UNCHANGED saved
    /\ UNCHANGED <<accepting, listening, counters, pc, req, received, current, created,
                   contents, acked>>

\* The process is gone.
Ended == life \in {"exited", "failed"} /\ UNCHANGED vars
-----------------------------------------------------------------------------
HandlerStep(w) ==
    \/ Gate(w) \/ CountIn(w) \/ Prepare(w) \/ TakeSlot(w) \/ Call(w)
    \/ Escape(w) \/ CountOut(w) \/ Finish(w) \/ Answer(w)

StopStep == Drained \/ DrainTimeout \/ Join \/ SnapshotAll

Next ==
    \/ \E w \in Workers : Receive(w) \/ ReceiveUnmatched(w) \/ HandlerStep(w)
    \/ Start \/ RequestStop \/ StopStep \/ Ended

Spec == Init /\ [][Next]_vars

\* Handlers return, and the main thread goes on once it has been told to stop.
\* Nobody has to send a request or a signal.
Fairness == WF_vars(StopStep) /\ \A w \in Workers : WF_vars(HandlerStep(w))

FairSpec == Spec /\ Fairness
-----------------------------------------------------------------------------
\* The workers whose request is counted in in_flight; those that hold a slot.
Busy == {w \in Workers : pc[w] \in {"prepare", "slot", "call", "count_out"}}
Holders == {w \in Workers : req[w].slot}

\* in_flight counts the requests being handled and those whose error answer
\* threw (each makes every later stop() wait for the whole drain_timeout); the
\* gauge of /metrics follows it, and every batch slot is free or held.
ResourcesAccounted ==
    /\ in_flight = Cardinality(Busy) + leaked
    /\ gauge = in_flight
    /\ slots + Cardinality(Holders) = BatchSlots

\* docs/DESIGN.md:188: the catalog and the server outlive every request.  A
\* request may pass the readiness check before stop() and be counted after
\* stop() has seen no request in flight, and it may outlast drain_timeout.
NoRequestOutlivesStop ==
    life \in {"stopped", "exited"} => \A w \in Workers : pc[w] = "idle"

\* docs/http-api.md:40: inserts live in memory until a snapshot or
\* --snapshot-on-exit: after a shutdown without error, every insert that was
\* answered with 200, into a collection that has not been dropped, is saved.
AcknowledgedInsertsAreSaved ==
    life = "exited" /\ current # NoInc =>
        acked \cap contents[current] \subseteq saved[current]

\* A response that is ready to be sent has been recorded once, under the class of its
\* status; or it is that of a handler that threw out of wrap(), recorded at most once
\* under the status set by then; or it is a success httplib has turned into a 416,
\* recorded by wrap() as the success and again by the error handler.
RightlyRecorded(r) ==
    \/ r.seen = <<StatusClass(r.status)>>
    \/ r.escaped /\ Len(r.seen) <= 1
    \/ r.status = 416 /\ r.seen = <<2, 4>>

\* docs/DESIGN.md:2132: every response is recorded, 401, 503 and exceptions included.
\* It is recorded once and as what is sent but for the two kinds RightlyRecorded
\* names: every return of wrap() leaves a body for server.cpp:576 to find, and the
\* error handler alone records what httplib refuses.
ResponsesRecorded ==
    \A w \in Workers : pc[w] = "answer" => RightlyRecorded(req[w])

\* A signal ends the server, whatever its requests do meanwhile.
ShutdownCompletes == life = "drain" ~> life \in {"exited", "failed"}
=============================================================================

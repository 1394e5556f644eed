--------------------------- MODULE RequestMetrics ---------------------------
(***************************************************************************)
(* A request on its way through one API process, and the counters that     *)
(* Prometheus reads of it: RequestIdMiddleware and the router, then        *)
(* UserThrottlerGuard, the interceptors around the handler, and            *)
(* HttpExceptionToApiResponseFilter.  Guard and interceptor both count in  *)
(* http_requests_total, before the filter has set the status.  What the    *)
(* handlers do is the matter of OrderApi; here each may succeed or throw.  *)
(***************************************************************************)
EXTENDS Naturals, FiniteSets, FiniteSetsExt

CONSTANTS
    Requests,
    Handlers,    \* the templated routes, as /orders/:id/confirm
    RouteOf,     \* RouteOf[r]: the handler the router finds, or NoRoute
    NoRoute,
    PathOf,      \* PathOf[r]: the path as it was sent
    UserOf,      \* UserOf[r]: the trimmed header X-User-Id, or NoHeader
    NoHeader,
    IpOf,        \* IpOf[r]: the address of the client
    Created,     \* the handlers that answer 201, the POST ones
    ThrownBy,    \* ThrownBy[h]: the exceptions of h and its ValidationPipe
    Limit,       \* THROTTLE_LIMIT
    Unexpected,  \* an exception that is not an HttpException
    None         \* no exception, no answer

\* The code of the envelope: that of an error, or none for a success.
Codes == {"none", "ERR_VALIDATION", "ERR_NOT_FOUND", "ERR_CONFLICT", "ERR_INTERNAL"}

ASSUME RequestConstants ==
    /\ IsFiniteSet(Requests) /\ IsFiniteSet(Handlers)
    /\ RouteOf \in [Requests -> Handlers \cup {NoRoute}]
    /\ NoRoute \notin Handlers
    /\ DOMAIN PathOf = Requests
    /\ ThrownBy \in [Handlers -> SUBSET {400, 409, Unexpected}]
    /\ Limit \in Nat \ {0}
    /\ {None, Unexpected} \cap Nat = {} /\ None # Unexpected
    /\ None \notin [status : Nat, code : Codes]

VARIABLES
    pc,        \* where r is: unsent, guard, handler, finalize, respond, done
    error,     \* error[r]: the status of what was thrown, Unexpected, or None
    status,    \* status[r]: statusCode of its Response object
    answer,    \* answer[r]: what the client received, or None
    counter,   \* http_requests_total by route and status
    observed,  \* how often http_request_duration_seconds was observed, by route
    hits,      \* the throttler's storage: hits of a key in its window
    blocked    \* and the keys that are blocked

vars == <<pc, error, status, answer, counter, observed, hits, blocked>>

Routes == Handlers \cup {PathOf[r] : r \in Requests}
Statuses == {200, 201, 400, 404, 409, 429, 500}

\* What a guard that knew only addresses would use.
Address(r) == IpOf[r]

\* getTracker: the user, or else the address, in one space of keys: nothing
\* marks which of the two it is.
Tracker(r) == IF UserOf[r] # NoHeader THEN UserOf[r] ELSE IpOf[r]

\* The framework counts hits by handler and tracker.
Key(r) == <<RouteOf[r], Tracker(r)>>
Keys == {Key(r) : r \in Requests}

Init ==
    /\ pc = [r \in Requests |-> "unsent"]
    /\ error = [r \in Requests |-> None]
    /\ status = [r \in Requests |-> 200]
    /\ answer = [r \in Requests |-> None]
    /\ counter = [s \in Routes \X Statuses |-> 0]
    /\ observed = [h \in Handlers |-> 0]
    /\ hits = [k \in Keys |-> 0]
    /\ blocked = {}

Goto(r, there) == pc' = [pc EXCEPT ![r] = there]

Throw(r, e) == error' = [error EXCEPT ![r] = e]

Count(route, s) == counter' = [counter EXCEPT ![<<route, s>>] = @ + 1]

\* An unknown path is a 404 of the router: neither guard nor interceptor runs.
Receive(r) ==
    /\ pc[r] = "unsent"
    /\ IF RouteOf[r] = NoRoute
       THEN Throw(r, 404) /\ Goto(r, "respond")
       ELSE UNCHANGED error /\ Goto(r, "guard")
    /\ UNCHANGED <<status, answer, counter, observed, hits, blocked>>

\* The storage's increment: a blocked key is not counted any more, and one hit
\* more than Limit blocks it.
Increment(k) ==
    IF k \in blocked THEN UNCHANGED <<hits, blocked>>
    ELSE /\ hits' = [hits EXCEPT ![k] = @ + 1]
         /\ blocked' = IF hits[k] + 1 > Limit THEN blocked \cup {k} ELSE blocked

\* A throw that leaves the counting to the interceptor.
ThrottleUncounted(r) ==
    /\ Throw(r, 429)
    /\ Goto(r, "respond")
    /\ UNCHANGED <<status, counter>>

\* throwThrottlingException: its getRoute takes the path, not the template.
Throttle(r) ==
    /\ Count(PathOf[r], 429)
    /\ Throw(r, 429)
    /\ Goto(r, "respond")
    /\ UNCHANGED status

\* The framework sets the status of a success before the interceptors run.
Admit(r) ==
    /\ status' = [status EXCEPT ![r] = IF RouteOf[r] \in Created THEN 201 ELSE 200]
    /\ Goto(r, "handler")
    /\ UNCHANGED <<error, counter>>

Guard(r) ==
    /\ pc[r] = "guard"
    /\ Increment(Key(r))
    /\ IF Key(r) \in blocked' THEN Throttle(r) ELSE Admit(r)
    /\ UNCHANGED <<answer, observed>>

\* The ValidationPipe throws 400 and orders throw ConflictException; any other
\* exception, of the database for one, is Unexpected.
Handle(r) ==
    /\ pc[r] = "handler"
    /\ \E e \in ThrownBy[RouteOf[r]] \cup {None} : Throw(r, e)
    /\ Goto(r, "finalize")
    /\ UNCHANGED <<status, answer, counter, observed, hits, blocked>>

\* tap instead of finalize: what throws is not counted.
FinalizeIfSuccess(r) ==
    /\ pc[r] = "finalize"
    /\ IF error[r] = None
       THEN /\ Count(RouteOf[r], status[r])
            /\ observed' = [observed EXCEPT ![RouteOf[r]] = @ + 1]
       ELSE UNCHANGED <<counter, observed>>
    /\ Goto(r, "respond")
    /\ UNCHANGED <<error, status, answer, hits, blocked>>

\* finalize of MetricsInterceptor, on success and on error.
Finalize(r) ==
    /\ pc[r] = "finalize"
    /\ Count(RouteOf[r], status[r])
    /\ observed' = [observed EXCEPT ![RouteOf[r]] = @ + 1]
    /\ Goto(r, "respond")
    /\ UNCHANGED <<error, status, answer, hits, blocked>>

\* The envelope of a success: data, and no error.
Respond(r) ==
    /\ pc[r] = "respond" /\ error[r] = None
    /\ answer' = [answer EXCEPT ![r] = [status |-> status[r], code |-> "none"]]
    /\ Goto(r, "done")
    /\ UNCHANGED <<error, status, counter, observed, hits, blocked>>

CodeOf(s) == CASE s = 400 -> "ERR_VALIDATION"
               [] s = 404 -> "ERR_NOT_FOUND"
               [] s = 409 -> "ERR_CONFLICT"
               [] OTHER   -> "ERR_INTERNAL"

\* getStatus() of whatever was thrown.
FilterUnchecked(r) ==
    /\ pc[r] = "respond" /\ error[r] # None
    /\ status' = [status EXCEPT ![r] = error[r]]
    /\ answer' = [answer EXCEPT ![r] = [status |-> error[r], code |-> CodeOf(error[r])]]
    /\ Goto(r, "done")
    /\ UNCHANGED <<error, counter, observed, hits, blocked>>

\* @Catch(HttpException) instead of @Catch().
FilterHttpOnly(r) ==
    /\ pc[r] = "respond" /\ error[r] \notin {None, Unexpected}
    /\ status' = [status EXCEPT ![r] = error[r]]
    /\ answer' = [answer EXCEPT ![r] = [status |-> error[r], code |-> CodeOf(error[r])]]
    /\ Goto(r, "done")
    /\ UNCHANGED <<error, counter, observed, hits, blocked>>

\* The filter catches everything; what is no HttpException is a 500.
Filter(r) ==
    /\ pc[r] = "respond" /\ error[r] # None
    /\ LET s == IF error[r] = Unexpected THEN 500 ELSE error[r] IN
       /\ status' = [status EXCEPT ![r] = s]
       /\ answer' = [answer EXCEPT ![r] = [status |-> s, code |-> CodeOf(s)]]
    /\ Goto(r, "done")
    /\ UNCHANGED <<error, counter, observed, hits, blocked>>

\* A hit leaves the window, or the block of a key ends and it starts afresh.
\* Nothing notices when no request with the key is to come.
WindowMoves(k) ==
    /\ hits[k] > 0
    /\ \E r \in Requests : Key(r) = k /\ pc[r] \in {"unsent", "guard"}
    /\ \/ /\ hits' = [hits EXCEPT ![k] = @ - 1]
          /\ UNCHANGED blocked
       \/ /\ k \in blocked
          /\ hits' = [hits EXCEPT ![k] = 0]
          /\ blocked' = blocked \ {k}
    /\ UNCHANGED <<pc, error, status, answer, counter, observed>>

Step(r) == Guard(r) \/ Handle(r) \/ Finalize(r) \/ Respond(r) \/ Filter(r)

Next == \/ \E r \in Requests : Receive(r) \/ Step(r)
        \/ \E k \in Keys : WindowMoves(k)

\* The event loop goes on with a request that it has received.
Fairness == \A r \in Requests : WF_vars(Step(r))

Spec == Init /\ [][Next]_vars
FairSpec == Spec /\ Fairness

-----------------------------------------------------------------------------
(* Properties *)

TypeOK ==
    /\ pc \in [Requests -> {"unsent", "guard", "handler", "finalize", "respond", "done"}]
    /\ error \in [Requests -> (Statuses \ {200, 201}) \cup {Unexpected, None}]
    /\ status \in [Requests -> Statuses]
    /\ answer \in [Requests -> [status : Statuses, code : Codes] \cup {None}]
    /\ counter \in [Routes \X Statuses -> Nat]
    /\ observed \in [Handlers -> Nat]
    /\ hits \in [Keys -> 0..Limit + 1]
    /\ blocked \subseteq Keys

Total(S) == MapThenSumSet(LAMBDA s : counter[s], S)

Throttled == {r \in Requests : error[r] = 429}

\* The requests that the interceptor has let go.
Served(h) == {r \in Requests : RouteOf[r] = h /\ pc[r] \in {"respond", "done"}} \ Throttled

\* Every request to a handler is counted once under its template and observed
\* once, whether it succeeds or throws, or else was throttled.
CountedOnce ==
    \A h \in Handlers :
       /\ Total({h} \X (Statuses \ {429})) = Cardinality(Served(h))
       /\ observed[h] = Cardinality(Served(h))

\* Throttling is visible: http_requests_total{status="429"} counts every
\* throttled request once, although the interceptor never sees it.
ThrottledAreVisible == Total(Routes \X {429}) = Cardinality(Throttled)

\* The requests under r's name: those that carry it, and those that carry none
\* from an address that reads like it, which getTracker does not tell apart.
UnderNameOf(r) ==
    {q \in Requests : \/ UserOf[q] = UserOf[r]
                      \/ UserOf[q] = NoHeader /\ IpOf[q] = UserOf[r]}

\* A user is throttled for requests under his name only: who gets 429 has had
\* Limit others of them past the guard, to the same handler.  Others
\* behind his address take nothing from his limit.
ThrottledOnOwnAccount ==
    \A r \in Throttled : UserOf[r] # NoHeader =>
       Cardinality({q \in UnderNameOf(r) \ {r} : /\ pc[q] \notin {"unsent", "guard"}
                                                 /\ RouteOf[q] = RouteOf[r]}) >= Limit

\* Every request is answered, whatever its handler throws.
EveryRequestIsAnswered == \A r \in Requests : (pc[r] # "unsent") ~> (answer[r] # None)

\* The error rate: http_requests_total{status=~"5.."} counts every request
\* that was answered with a 5xx status.
EveryServerErrorIsCounted ==
    Total(Routes \X {500}) >=
       Cardinality({r \in Requests : answer[r] # None /\ answer[r].status = 500})
=============================================================================

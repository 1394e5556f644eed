------------------------------ MODULE OrderApi ------------------------------
(***************************************************************************)
(* OrdersController and IdempotencyService: POST /orders and POST          *)
(* /orders/:id/confirm, served concurrently by any number of API pods over *)
(* one database.  A request is a process; each awaited database call is an *)
(* action.  Any of them may throw, before or after it took effect, and     *)
(* turn the request into a 500.                                            *)
(*                                                                         *)
(* An order is named by the request that created it and an outbox event by *)
(* the request that confirmed the order, so that both stay traceable.      *)
(***************************************************************************)
EXTENDS Naturals, FiniteSets

CONSTANTS
    Requests,   \* requests a client may send
    Keys,       \* values of the Idempotency-Key header
    NoKey,      \* the header is missing
    Bodies,     \* bodies of POST /orders
    Seeded,     \* orders that were in the database before
    Nothing     \* no event, no body, no saved response

CONSTANT MaxFailures  \* bound of the exploration: calls that fail

Orders == Requests \cup Seeded
Status == {"ABSENT", "CREATED", "CONFIRMED", "CANCELLED"}
Scopes == Orders \cup {"POST:/orders"}

\* An answer: a status and what the client learns, an order id from a create,
\* the outboxEventId (or Nothing, for null) from a confirm.
Answers == [code : {"ok", "conflict", "error"}, value : Requests \cup {Nothing}]

\* A saved response: the hash of the request it answers, and the answer.
Responses == [hash : Bodies \cup {Nothing}, answer : Answers]

ASSUME ApiConstants ==
    /\ Requests \cap Seeded = {}
    /\ NoKey \notin Keys
    /\ Nothing \notin Requests \cup Bodies \cup Orders
    /\ Nothing \notin Responses
    /\ "POST:/orders" \notin Orders
    /\ MaxFailures \in Nat

VARIABLES
    orders,    \* status of each order
    outbox,    \* outbox[r]: the order of the event request r wrote, or Nothing
    saved,     \* IdempotencyKey: saved[key, scope]
    req,       \* where each request is, what it asks, what it was answered
    prior,     \* prior[r]: the requests already answered when r arrived
    failures   \* how many calls have failed

vars == <<orders, outbox, saved, req, prior, failures>>

Pending == [code |-> "pending", value |-> Nothing]
Conflict == [code |-> "conflict", value |-> Nothing]
Error == [code |-> "error", value |-> Nothing]
Ok(v) == [code |-> "ok", value |-> v]

Asked == [op : {"create"}, key : Keys \cup {NoKey}, arg : Bodies]
            \cup [op : {"confirm"}, key : Keys \cup {NoKey}, arg : Orders]

NotSent == [pc |-> "unsent", op |-> "none", key |-> NoKey, arg |-> Nothing,
            answer |-> Pending]

Done(r) == req[r].pc = "done"

\* Both requests name the same operation on the same resource.
Scope(q) == IF q.op = "create" THEN "POST:/orders" ELSE q.arg

\* hashRequest: method and path are fixed by the scope, the body is not.
Hash(q) == IF q.op = "create" THEN q.arg ELSE Nothing

Init ==
    /\ orders \in [Orders -> Status]
    /\ \A r \in Requests : orders[r] = "ABSENT"
    /\ \A s \in Seeded : orders[s] \in {"CREATED", "CANCELLED"}
    /\ outbox = [r \in Requests |-> Nothing]
    /\ saved = [k \in Keys \X Scopes |-> Nothing]
    /\ req = [r \in Requests |-> NotSent]
    /\ prior = [r \in Requests |-> {}]
    /\ failures = 0

Goto(r, pc) == req' = [req EXCEPT ![r].pc = pc]
Answer(r, a) == req' = [req EXCEPT ![r].pc = "done", ![r].answer = a]

\* The first call after the cache: the insert, or the transaction's read.
Work(q) == IF q.op = "create" THEN "insert" ELSE "read"

\* A keyed request saves its answer before it gives it.
Deliver(r, a) ==
    IF req[r].key = NoKey THEN Answer(r, a)
    ELSE req' = [req EXCEPT ![r].pc = "save", ![r].answer = a]

\* The call the request waits for throws, or its pod dies: the client is told
\* nothing but that.
Throw(r) ==
    /\ failures < MaxFailures
    /\ failures' = failures + 1
    /\ Answer(r, Error)

\* A call that has changed the database goes on to the answer a, or throws all
\* the same: the connection, or the pod, is lost after the commit.
Committed(r, a) ==
    \/ Deliver(r, a) /\ UNCHANGED failures
    \/ Throw(r)

Arrive(r, q) ==
    /\ req[r].pc = "unsent"
    /\ req' = [req EXCEPT ![r] = [pc |-> IF q.key = NoKey THEN Work(q) ELSE "lookup",
                                  op |-> q.op, key |-> q.key, arg |-> q.arg,
                                  answer |-> Pending]]
    /\ prior' = [prior EXCEPT ![r] = {p \in Requests : Done(p)}]
    /\ UNCHANGED <<orders, outbox, saved, failures>>

\* A cache that does not compare the hash.
AnyBody(row, q) == TRUE

\* cached.requestHash === requestHash
SameBody(row, q) == row.hash = Hash(q)

\* getCachedResponse.  Whatever was saved is used: expiresAt is not read.
Lookup(r) ==
    LET q == req[r]
        row == saved[<<q.key, Scope(q)>>]
    IN  /\ q.pc = "lookup"
        /\ IF row = Nothing THEN Goto(r, Work(q))
           ELSE Answer(r, IF SameBody(row, q) THEN row.answer ELSE Conflict)
        /\ UNCHANGED <<orders, outbox, saved, prior, failures>>

\* order.create
Insert(r) ==
    /\ req[r].pc = "insert"
    /\ orders' = [orders EXCEPT ![r] = "CREATED"]
    /\ Committed(r, Ok(r))
    /\ UNCHANGED <<outbox, saved, prior>>

\* A confirm that takes a CONFIRMED order for one still to be confirmed.
ReadForgetful(r) ==
    LET status == orders[req[r].arg] IN
    /\ req[r].pc = "read"
    /\ IF status \in {"ABSENT", "CANCELLED"} THEN Answer(r, Conflict)
       ELSE Goto(r, "confirm")
    /\ UNCHANGED <<orders, outbox, saved, prior, failures>>

\* A confirm that takes any order it finds in order for a confirmed one.
ReadHasty(r) ==
    LET status == orders[req[r].arg] IN
    /\ req[r].pc = "read"
    /\ \/ status \in {"ABSENT", "CANCELLED"} /\ Answer(r, Conflict)
       \/ status \in {"CREATED", "CONFIRMED"} /\ Deliver(r, Ok(Nothing))
    /\ UNCHANGED <<orders, outbox, saved, prior, failures>>

\* confirmAndOutbox, the transaction's read and the decision on it.
Read(r) ==
    LET status == orders[req[r].arg] IN
    /\ req[r].pc = "read"
    /\ \/ status \in {"ABSENT", "CANCELLED"} /\ Answer(r, Conflict)
       \/ status = "CONFIRMED" /\ Deliver(r, Ok(Nothing))
       \/ status = "CREATED" /\ Goto(r, "confirm")
    /\ UNCHANGED <<orders, outbox, saved, prior, failures>>

\* The status is updated and the event left for a later call.
ConfirmOnly(r) ==
    /\ req[r].pc = "confirm"
    /\ orders' = [orders EXCEPT ![req[r].arg] = "CONFIRMED"]
    /\ Committed(r, Ok(Nothing))
    /\ UNCHANGED <<outbox, saved, prior>>

\* The transaction's two writes and its commit.  The update asks only for the
\* id: it does not look at the status again.
Confirm(r) ==
    /\ req[r].pc = "confirm"
    /\ orders' = [orders EXCEPT ![req[r].arg] = "CONFIRMED"]
    /\ outbox' = [outbox EXCEPT ![r] = req[r].arg]
    /\ Committed(r, Ok(r))
    /\ UNCHANGED <<saved, prior>>

\* The answer goes out, the upsert is never awaited.
SaveSkipped(r) ==
    /\ req[r].pc = "save"
    /\ Goto(r, "done")
    /\ UNCHANGED <<orders, outbox, saved, prior, failures>>

\* The answer is stored without the hash of its request.
SaveBare(r) ==
    LET q == req[r] IN
    /\ q.pc = "save"
    /\ saved' = [saved EXCEPT ![<<q.key, Scope(q)>>] = q.answer]
    /\ \/ Goto(r, "done") /\ UNCHANGED failures
       \/ Throw(r)
    /\ UNCHANGED <<orders, outbox, prior>>

\* saveResponse: an upsert, the last writer of a key wins.
Save(r) ==
    LET q == req[r] IN
    /\ q.pc = "save"
    /\ saved' = [saved EXCEPT ![<<q.key, Scope(q)>>] = [hash |-> Hash(q), answer |-> q.answer]]
    /\ \/ Goto(r, "done") /\ UNCHANGED failures
       \/ Throw(r)
    /\ UNCHANGED <<orders, outbox, prior>>

\* A call throws without having changed anything.
CallFails(r) ==
    /\ req[r].pc \in {"lookup", "insert", "read", "confirm", "save"}
    /\ Throw(r)
    /\ UNCHANGED <<orders, outbox, saved, prior>>

Next == \E r \in Requests :
    \/ \E q \in Asked : Arrive(r, q)
    \/ Lookup(r) \/ Insert(r) \/ Read(r) \/ Confirm(r) \/ Save(r)
    \/ CallFails(r)

Spec == Init /\ [][Next]_vars

-----------------------------------------------------------------------------
(* Properties *)

\* Types; in particular a saved response always carries a hash and an answer.
TypeOK ==
    /\ orders \in [Orders -> Status]
    /\ outbox \in [Requests -> Orders \cup {Nothing}]
    /\ saved \in [Keys \X Scopes -> Responses \cup {Nothing}]
    /\ req \in [Requests ->
                  [pc : {"unsent", "lookup", "insert", "read", "confirm", "save", "done"},
                   op : {"none", "create", "confirm"},
                   key : Keys \cup {NoKey},
                   arg : Bodies \cup Orders \cup {Nothing},
                   answer : Answers \cup {Pending}]]
    /\ prior \in [Requests -> SUBSET Requests]
    /\ failures \in Nat

\* r2 repeats r1: same key, same operation, same body, sent after the answer.
Repeats(r1, r2) ==
    /\ r1 \in prior[r2]
    /\ req[r1].key # NoKey /\ req[r1].key = req[r2].key
    /\ req[r1].op = req[r2].op /\ req[r1].arg = req[r2].arg

\* r has changed the database.
HasEffect(r) == orders[r] # "ABSENT" \/ outbox[r] # Nothing

\* An order is CONFIRMED exactly if an event for it was committed to the
\* outbox: neither half of the transaction is ever seen alone.
ConfirmedIffEvent ==
    \A o \in Orders :
       orders[o] = "CONFIRMED" <=> \E r \in Requests : outbox[r] = o

\* A request that repeats one that was answered 2xx has no effect, whatever
\* requests with the same key were in flight around either.
AnsweredIsNotRepeated ==
    \A r1, r2 \in Requests :
       Repeats(r1, r2) /\ req[r1].answer.code = "ok" => ~HasEffect(r2)

\* Two events for one order come only from confirmations that overlapped.
DoubleConfirmOverlaps ==
    \A r1, r2 \in Requests :
       outbox[r1] # Nothing /\ outbox[r1] = outbox[r2] => r1 \notin prior[r2]

\* The order a create request is answered with exists, and was created from
\* the body the request carries, by it or by another one.
AnswerMatchesBody ==
    \A r \in Requests :
       Done(r) /\ req[r].op = "create" /\ req[r].answer.code = "ok" =>
          LET o == req[r].answer.value IN
          orders[o] # "ABSENT" /\ req[o].op = "create" /\ req[o].arg = req[r].arg

\* The API as its clients see it: a request has an answer when it is done.
Service == INSTANCE OrderService
    WITH asked <- [r \in Requests |-> [op |-> req[r].op, key |-> req[r].key, arg |-> req[r].arg]],
         answer <- [r \in Requests |-> IF Done(r) THEN req[r].answer ELSE Pending]

\* Calls of the database and races are invisible: every request is served at
\* once or not at all, repetitions are not served again, and answers are true.
ServiceSpec == Service!Spec
=============================================================================

---------------------------- MODULE OrderService ----------------------------
(***************************************************************************)
(* What the API promises its clients, whatever is in flight together and   *)
(* whichever calls fail: a request takes effect in one step, between its   *)
(* arrival and its answer, or not at all; one that repeats an answered     *)
(* request takes none; and every answer is true when it is given.          *)
(***************************************************************************)
CONSTANTS
    Requests, Orders, NoKey, Nothing,
    Asked,      \* what can be asked: operation, key, and body or order
    Answers,    \* what can be answered
    Pending     \* no answer yet

VARIABLES
    orders,     \* status of each order; a request names the order it creates
    outbox,     \* outbox[r]: the order whose confirmation r recorded, or Nothing
    asked,      \* asked[r]: what r asks
    answer,     \* answer[r]: what r was answered, or Pending
    prior       \* prior[r]: the requests already answered when r arrived

vars == <<orders, outbox, asked, answer, prior>>

Unasked == [op |-> "none", key |-> NoKey, arg |-> Nothing]

Init ==
    /\ orders \in [Orders -> {"ABSENT", "CREATED", "CANCELLED"}]
    /\ \A r \in Requests : orders[r] = "ABSENT"
    /\ outbox = [r \in Requests |-> Nothing]
    /\ asked = [r \in Requests |-> Unasked]
    /\ answer = [r \in Requests |-> Pending]
    /\ prior = [r \in Requests |-> {}]

Arrive(r, q) ==
    /\ asked[r] = Unasked
    /\ asked' = [asked EXCEPT ![r] = q]
    /\ prior' = [prior EXCEPT ![r] = {p \in Requests : answer[p] # Pending}]
    /\ UNCHANGED <<orders, outbox, answer>>

\* r asks, under a key, what was answered 2xx before it arrived.
Repeated(r) ==
    \E p \in prior[r] :
       asked[r].key # NoKey /\ asked[p] = asked[r] /\ answer[p].code = "ok"

Create(r) ==
    /\ asked[r].op = "create" /\ orders[r] = "ABSENT"
    /\ orders' = [orders EXCEPT ![r] = "CREATED"]
    /\ UNCHANGED outbox

\* An order is confirmed and its event recorded in one step.  A second event is
\* recorded only next to a confirmation that is still in flight.
Confirm(r) ==
    LET o == asked[r].arg IN
    /\ asked[r].op = "confirm" /\ outbox[r] = Nothing
    /\ orders[o] \in {"CREATED", "CONFIRMED"}
    /\ \A p \in prior[r] : outbox[p] # o
    /\ orders' = [orders EXCEPT ![o] = "CONFIRMED"]
    /\ outbox' = [outbox EXCEPT ![r] = o]

\* v is the id of an order that was created from the body q carries.
TrueCreate(q, v) ==
    /\ v \in Requests /\ orders[v] # "ABSENT"
    /\ asked[v].op = "create" /\ asked[v].arg = q.arg

\* The order is CONFIRMED, and v an event of it, or null.
TrueConfirm(q, v) ==
    /\ orders[q.arg] = "CONFIRMED"
    /\ v # Nothing => v \in Requests /\ outbox[v] = q.arg

\* A create conflicts with another body under its key, a confirm with the
\* status of its order.
TrueConflict(q) ==
    \/ q.op = "create" /\ \E p \in Requests :
          asked[p].op = "create" /\ asked[p].key = q.key /\ asked[p].arg # q.arg
    \/ q.op = "confirm" /\ orders[q.arg] \in {"ABSENT", "CANCELLED"}

Truthful(r, a) ==
    CASE a.code = "error"    -> TRUE
      [] a.code = "conflict" -> TrueConflict(asked[r])
      [] a.code = "ok"       -> \/ asked[r].op = "create" /\ TrueCreate(asked[r], a.value)
                                \/ asked[r].op = "confirm" /\ TrueConfirm(asked[r], a.value)

Open(r) == asked[r] # Unasked /\ answer[r] = Pending

\* r takes effect, or is answered, or both.
Serve(r) ==
    /\ Open(r)
    /\ UNCHANGED <<asked, prior>>
    /\ \/ ~Repeated(r) /\ (Create(r) \/ Confirm(r))
       \/ UNCHANGED <<orders, outbox>>
    /\ \/ \E a \in Answers : Truthful(r, a)' /\ answer' = [answer EXCEPT ![r] = a]
       \/ UNCHANGED answer

Next == \E r \in Requests : Serve(r) \/ \E q \in Asked : Arrive(r, q)

Spec == Init /\ [][Next]_vars
=============================================================================

--------------------------- MODULE OrderApiProofs ---------------------------
(***************************************************************************)
(* Theorems about OrderApi, for any number of concurrent requests, orders, *)
(* keys and bodies, and any number of failing calls.                       *)
(***************************************************************************)
EXTENDS OrderApi, TLAPS

-----------------------------------------------------------------------------
(* What a request at each place in its handler knows.                      *)

RequestType ==
    [pc : {"unsent", "lookup", "insert", "read", "confirm", "save", "done"},
     op : {"none", "create", "confirm"},
     key : Keys \cup {NoKey},
     arg : Bodies \cup Orders \cup {Nothing},
     answer : Answers \cup {Pending}]

\* q asks for one of the two operations of the controller.
IsAsked(q) == \/ q.op = "create" /\ q.arg \in Bodies
              \/ q.op = "confirm" /\ q.arg \in Orders

\* What the request record says by itself.
Shape(q) ==
    /\ q \in RequestType
    /\ q.pc = "unsent" => q.op = "none"
    /\ q.pc # "unsent" => IsAsked(q)
    /\ q.pc \in {"lookup", "save"} => q.key \in Keys
    /\ q.pc = "insert" => q.op = "create"
    /\ q.pc \in {"read", "confirm"} => q.op = "confirm"
    /\ q.pc = "save" => q.answer.code = "ok"
    /\ q.pc = "done" => q.answer \in Answers

RequestsOK == req \in [Requests -> RequestType] /\ \A r \in Requests : Shape(req[r])

StoreOK ==
    /\ orders \in [Orders -> Status]
    /\ outbox \in [Requests -> Orders \cup {Nothing}]
    /\ saved \in [Keys \X Scopes -> Responses \cup {Nothing}]
    /\ prior \in [Requests -> SUBSET Requests]
    /\ failures \in Nat

TypeInv == RequestsOK /\ StoreOK


\* A step of request r touches the record of r only.
LEMMA OneRequest ==
    ASSUME RequestsOK, NEW r \in Requests, NEW q, Shape(q), req' = [req EXCEPT ![r] = q]
    PROVE  RequestsOK'
  BY DEF RequestsOK, Shape

LEMMA Replies ==
    /\ Conflict \in Answers /\ Error \in Answers
    /\ \A v \in Requests \cup {Nothing} : Ok(v) \in Answers /\ Ok(v).code = "ok"
  BY DEF Conflict, Error, Ok, Answers

\* Where Goto, Answer, Committed and Throw leave a request that has arrived.
LEMMA RequestMoves ==
    ASSUME RequestsOK, NEW r \in Requests, req[r].pc \notin {"unsent", "done"}
    PROVE  /\ \A v \in Answers : Answer(r, v) => RequestsOK'
           /\ \A v \in Answers : v.code = "ok" /\ Deliver(r, v) => RequestsOK'
           /\ \A v \in Answers : v.code = "ok" /\ Committed(r, v) => RequestsOK'
           /\ Throw(r) => RequestsOK'
           /\ Goto(r, Work(req[r])) => RequestsOK'
           /\ Goto(r, "confirm") /\ req[r].op = "confirm" => RequestsOK'
           /\ Goto(r, "done") /\ req[r].pc = "save" => RequestsOK'
<1> DEFINE q == req[r]
<1>1. Shape(q) /\ IsAsked(q) /\ q \in RequestType
  BY DEF RequestsOK, Shape
<1>2. ASSUME NEW v \in Answers, Answer(r, v) PROVE RequestsOK'
  <2>1. Shape([q EXCEPT !.pc = "done", !.answer = v])
    BY <1>1 DEF Shape, RequestType, IsAsked
  <2>2. req' = [req EXCEPT ![r] = [q EXCEPT !.pc = "done", !.answer = v]]
    BY <1>2 DEF Answer, RequestsOK
  <2> QED
    BY <2>1, <2>2, OneRequest
<1>3. ASSUME NEW v \in Answers, v.code = "ok", Deliver(r, v) PROVE RequestsOK'
  <2>1. CASE q.key = NoKey
    BY <1>2, <1>3, <2>1 DEF Deliver
  <2>2. CASE q.key # NoKey
    <3>1. Shape([q EXCEPT !.pc = "save", !.answer = v])
      BY <1>1, <1>3, <2>2 DEF Shape, RequestType, IsAsked
    <3>2. req' = [req EXCEPT ![r] = [q EXCEPT !.pc = "save", !.answer = v]]
      BY <1>3, <2>2 DEF Deliver, RequestsOK
    <3> QED
      BY <3>1, <3>2, OneRequest
  <2> QED
    BY <2>1, <2>2
<1>4. ASSUME NEW pc, Goto(r, pc), Shape([q EXCEPT !.pc = pc]) PROVE RequestsOK'
  <2>1. req' = [req EXCEPT ![r] = [q EXCEPT !.pc = pc]]
    BY <1>4 DEF Goto, RequestsOK
  <2> QED
    BY <1>4, <2>1, OneRequest
<1>5. Shape([q EXCEPT !.pc = Work(q)])
  BY <1>1 DEF Shape, RequestType, IsAsked, Work
<1>6. q.op = "confirm" => Shape([q EXCEPT !.pc = "confirm"])
  BY <1>1 DEF Shape, RequestType, IsAsked
<1>7. q.pc = "save" => Shape([q EXCEPT !.pc = "done"])
  BY <1>1 DEF Shape, RequestType, IsAsked, Answers, Pending
<1>8. Throw(r) => RequestsOK'
  BY <1>2, Replies DEF Throw
<1>9. ASSUME NEW v \in Answers, v.code = "ok", Committed(r, v) PROVE RequestsOK'
  BY <1>3, <1>8, <1>9 DEF Committed
<1> QED
  BY <1>2, <1>3, <1>4, <1>5, <1>6, <1>7, <1>8, <1>9

\* A request that has arrived asks within the bounds of the cache's key.
LEMMA CacheSlot ==
    ASSUME NEW q, Shape(q), q.pc # "unsent"
    PROVE  /\ Scope(q) \in Scopes
           /\ Hash(q) \in Bodies \cup {Nothing}
           /\ q.op = "create" <=> Scope(q) = "POST:/orders"
           /\ q.pc \in {"lookup", "save"} => <<q.key, Scope(q)>> \in Keys \X Scopes
  BY ApiConstants DEF Shape, IsAsked, Scope, Scopes, Hash

LEMMA InitTypeInv == Init => TypeInv
<1> SUFFICES ASSUME Init PROVE TypeInv
  OBVIOUS
<1>1. Shape(NotSent)
  BY DEF Shape, NotSent, RequestType, Pending
<1>2. RequestsOK
  BY <1>1 DEF Init, RequestsOK, Shape
<1>3. StoreOK
  BY DEF Init, StoreOK
<1> QED
  BY <1>2, <1>3 DEF TypeInv

LEMMA StepTypeInv == TypeInv /\ [Next]_vars => TypeInv'
<1> SUFFICES ASSUME RequestsOK, StoreOK, [Next]_vars PROVE RequestsOK' /\ StoreOK'
  BY DEF TypeInv
<1>req. \A r \in Requests : Shape(req[r]) /\ req[r] \in RequestType
  BY DEF RequestsOK, Shape
<1>1. ASSUME NEW r \in Requests, NEW q \in Asked, Arrive(r, q) PROVE RequestsOK' /\ StoreOK'
  <2> DEFINE new == [pc |-> IF q.key = NoKey THEN Work(q) ELSE "lookup",
                     op |-> q.op, key |-> q.key, arg |-> q.arg, answer |-> Pending]
  <2>1. Shape(new)
    BY DEF Asked, Shape, RequestType, IsAsked, Work
  <2>2. req' = [req EXCEPT ![r] = new]
    BY <1>1 DEF Arrive
  <2> HIDE DEF new
  <2>3. RequestsOK'
    BY <2>1, <2>2, OneRequest
  <2>4. prior' \in [Requests -> SUBSET Requests]
    BY <1>1 DEF Arrive, StoreOK
  <2> QED
    BY <1>1, <2>3, <2>4 DEF Arrive, StoreOK
<1>2. ASSUME NEW r \in Requests, Lookup(r) PROVE RequestsOK' /\ StoreOK'
  <2> DEFINE q == req[r]
             row == saved[<<q.key, Scope(q)>>]
  <2>1. /\ q.pc = "lookup"
        /\ IF row = Nothing THEN Goto(r, Work(q))
           ELSE Answer(r, IF SameBody(row, q) THEN row.answer ELSE Conflict)
        /\ UNCHANGED <<orders, outbox, saved, prior, failures>>
    BY <1>2 DEF Lookup
  <2>2. row \in Responses \cup {Nothing}
    BY <1>req, <2>1, CacheSlot DEF StoreOK
  <2>3. row # Nothing => (IF SameBody(row, q) THEN row.answer ELSE Conflict) \in Answers
    BY <2>2, Replies DEF Responses
  <2>4. RequestsOK'
    BY <2>1, <2>3, RequestMoves
  <2> QED
    BY <2>1, <2>4 DEF StoreOK
<1>3. ASSUME NEW r \in Requests, Insert(r) PROVE RequestsOK' /\ StoreOK'
  <2>1. RequestsOK'
    BY <1>3, RequestMoves, Replies DEF Insert
  <2> QED
    BY <1>3, <2>1 DEF Insert, Committed, Throw, StoreOK, Orders, Status
<1>4. ASSUME NEW r \in Requests, Read(r) PROVE RequestsOK' /\ StoreOK'
  <2>1. req[r].pc = "read" /\ req[r].op = "confirm"
    BY <1>4, <1>req DEF Read, Shape
  <2>2. RequestsOK'
    BY <1>4, <2>1, RequestMoves, Replies DEF Read
  <2> QED
    BY <1>4, <2>2 DEF Read, StoreOK
<1>5. ASSUME NEW r \in Requests, Confirm(r) PROVE RequestsOK' /\ StoreOK'
  <2>1. req[r].arg \in Orders
    BY <1>5, <1>req DEF Confirm, Shape, IsAsked
  <2>2. RequestsOK'
    BY <1>5, RequestMoves, Replies DEF Confirm
  <2> QED
    BY <1>5, <2>1, <2>2 DEF Confirm, Committed, Throw, StoreOK, Status
<1>6. ASSUME NEW r \in Requests, Save(r) PROVE RequestsOK' /\ StoreOK'
  <2> DEFINE q == req[r]
             row == [hash |-> Hash(q), answer |-> q.answer]
  <2>1. /\ q.pc = "save" /\ (Goto(r, "done") \/ Throw(r))
        /\ saved' = [saved EXCEPT ![<<q.key, Scope(q)>>] = row]
        /\ UNCHANGED <<orders, outbox, prior>>
        /\ failures' \in {failures, failures + 1}
    BY <1>6 DEF Save, Throw
  <2>2. q.answer \in Answers
    BY <1>req, <2>1 DEF Shape, RequestType, Pending
  <2>3. Hash(q) \in Bodies \cup {Nothing}
    BY <1>req, <2>1, CacheSlot
  <2>4. row \in Responses
    BY <2>2, <2>3 DEF Responses
  <2>5. saved' \in [Keys \X Scopes -> Responses \cup {Nothing}]
    BY <2>1, <2>4 DEF StoreOK
  <2>6. RequestsOK'
    BY <2>1, RequestMoves
  <2> QED
    BY <2>1, <2>5, <2>6 DEF StoreOK
<1>7. ASSUME NEW r \in Requests, CallFails(r) PROVE RequestsOK' /\ StoreOK'
  <2>1. RequestsOK'
    BY <1>7, RequestMoves, Replies DEF CallFails
  <2> QED
    BY <1>7, <2>1 DEF CallFails, Throw, StoreOK
<1>8. ASSUME UNCHANGED vars PROVE RequestsOK' /\ StoreOK'
  BY <1>8 DEF vars, RequestsOK, StoreOK
<1> QED
  BY <1>1, <1>2, <1>3, <1>4, <1>5, <1>6, <1>7, <1>8 DEF Next

\* Every reachable state of the API is well typed: whatever interleaves,
\* a saved response carries the hash and the answer of a finished request.
THEOREM TypeCorrect == Spec => []TypeOK
<1>1. TypeInv => TypeOK
  BY DEF TypeInv, RequestsOK, StoreOK, TypeOK, RequestType
<1> QED
  BY <1>1, InitTypeInv, StepTypeInv, PTL DEF Spec

-----------------------------------------------------------------------------
(* The transaction of confirm: what a request may still do to the order it *)
(* created and to its event, and what it knows of the order it confirms.   *)

EffectOK ==
    \A r \in Requests :
       /\ req[r].pc \in {"unsent", "lookup", "insert"} => orders[r] = "ABSENT"
       /\ req[r].op = "confirm" => orders[r] = "ABSENT"
       /\ req[r].pc \in {"unsent", "lookup", "insert", "read", "confirm"}
            => outbox[r] = Nothing
       /\ req[r].pc = "confirm" => orders[req[r].arg] \in {"CREATED", "CONFIRMED"}

\* A request whose answer was out when r arrived is finished for good.
PriorOK == \A r \in Requests : \A p \in prior[r] : Done(p) /\ p # r

\* A request about to confirm an order overlaps every request that has.
OverlapOK ==
    \A r1, r2 \in Requests :
       r1 \in prior[r2] /\ req[r2].pc = "confirm" => outbox[r1] # req[r2].arg

ConfirmInv == EffectOK /\ PriorOK /\ ConfirmedIffEvent /\ OverlapOK /\ DoubleConfirmOverlaps

\* A request that leaves the orders and the outbox alone, stays away from the
\* transaction's writes and does not change what it asks.
LEMMA ConfirmFrame ==
    ASSUME TypeInv, ConfirmInv, UNCHANGED <<orders, outbox, prior>>,
           NEW r \in Requests, NEW q \in RequestType, req' = [req EXCEPT ![r] = q],
           req[r].pc # "done",
           q.pc \notin {"unsent", "confirm"},
           q.op = req[r].op, q.pc = "lookup" => req[r].pc = "lookup",
           q.pc = "insert" => req[r].pc \in {"lookup", "insert"},
           q.pc = "read" => req[r].pc \in {"lookup", "read"}
    PROVE  ConfirmInv'
<1>1. /\ req'[r] = q
      /\ \A v \in Requests : v # r => req'[v] = req[v]
      /\ \A v \in Requests : Done(v) => v # r /\ Done(v)'
  BY DEF TypeInv, RequestsOK, Done
<1>2. EffectOK'
  BY <1>1 DEF ConfirmInv, EffectOK
<1>3. PriorOK'
  BY <1>1 DEF ConfirmInv, PriorOK, TypeInv, StoreOK
<1>4. OverlapOK'
  BY <1>1 DEF ConfirmInv, OverlapOK
<1>5. ConfirmedIffEvent' /\ DoubleConfirmOverlaps'
  BY DEF ConfirmInv, ConfirmedIffEvent, DoubleConfirmOverlaps
<1> QED
  BY <1>2, <1>3, <1>4, <1>5 DEF ConfirmInv

\* What Answer, Deliver, Committed, Throw and Goto change: the place and the
\* answer of request r, never what it asks.
Same(r) ==
    /\ req' = [req EXCEPT ![r] = req'[r]]
    /\ \A v \in Requests : v # r => req'[v] = req[v]
    /\ req'[r].op = req[r].op /\ req'[r].key = req[r].key /\ req'[r].arg = req[r].arg

LEMMA MoveFacts ==
    ASSUME TypeInv, NEW r \in Requests
    PROVE  /\ \A v : Answer(r, v) => Same(r) /\ req'[r].pc = "done" /\ req'[r].answer = v
           /\ \A v : Deliver(r, v) =>
                 /\ Same(r) /\ req'[r].answer = v
                 /\ req'[r].pc = IF req[r].key = NoKey THEN "done" ELSE "save"
           /\ Throw(r) => Same(r) /\ req'[r].pc = "done" /\ req'[r].answer = Error
           /\ \A v : Committed(r, v) =>
                 /\ Same(r)
                 /\ \/ req'[r].answer = v /\ req'[r].pc = IF req[r].key = NoKey THEN "done" ELSE "save"
                    \/ req'[r].answer = Error /\ req'[r].pc = "done"
           /\ \A pc : Goto(r, pc) => Same(r) /\ req'[r].pc = pc /\ req'[r].answer = req[r].answer
<1>1. req \in [Requests -> RequestType] /\ req[r] \in RequestType
  BY DEF TypeInv, RequestsOK
<1>2. ASSUME NEW v, Answer(r, v)
      PROVE  Same(r) /\ req'[r].pc = "done" /\ req'[r].answer = v
  BY <1>1, <1>2 DEF Answer, Same, RequestType
<1>3. ASSUME NEW pc, Goto(r, pc)
      PROVE  Same(r) /\ req'[r].pc = pc /\ req'[r].answer = req[r].answer
  BY <1>1, <1>3 DEF Goto, Same, RequestType
<1>4. ASSUME NEW v, Deliver(r, v)
      PROVE  /\ Same(r) /\ req'[r].answer = v
             /\ req'[r].pc = IF req[r].key = NoKey THEN "done" ELSE "save"
  <2>1. CASE req[r].key = NoKey
    BY <1>2, <1>4, <2>1 DEF Deliver
  <2>2. CASE req[r].key # NoKey
    BY <1>1, <1>4, <2>2 DEF Deliver, Same, RequestType
  <2> QED
    BY <2>1, <2>2
<1>5. Throw(r) => Same(r) /\ req'[r].pc = "done" /\ req'[r].answer = Error
  BY <1>2 DEF Throw
<1>6. ASSUME NEW v, Committed(r, v)
      PROVE  /\ Same(r)
             /\ \/ req'[r].answer = v /\ req'[r].pc = IF req[r].key = NoKey THEN "done" ELSE "save"
                \/ req'[r].answer = Error /\ req'[r].pc = "done"
  BY <1>4, <1>5, <1>6 DEF Committed
<1> QED
  BY <1>2, <1>3, <1>4, <1>5, <1>6

LEMMA InitConfirmInv == Init => ConfirmInv
<1> SUFFICES ASSUME Init PROVE ConfirmInv
  OBVIOUS
<1>1. EffectOK /\ PriorOK /\ OverlapOK
  BY DEF Init, EffectOK, PriorOK, OverlapOK, NotSent
<1>2. \A o \in Orders : orders[o] # "CONFIRMED"
  BY DEF Init, Orders
<1>3. ConfirmedIffEvent /\ DoubleConfirmOverlaps
  BY <1>2, ApiConstants DEF Init, ConfirmedIffEvent, DoubleConfirmOverlaps
<1> QED
  BY <1>1, <1>3 DEF ConfirmInv

LEMMA StepConfirmInv == TypeInv /\ TypeInv' /\ ConfirmInv /\ [Next]_vars => ConfirmInv'
<1> SUFFICES ASSUME TypeInv, TypeInv', ConfirmInv, [Next]_vars PROVE ConfirmInv'
  OBVIOUS
<1>req. \A r \in Requests : /\ Shape(req[r]) /\ req[r] \in RequestType
                            /\ req'[r] \in RequestType
  BY DEF TypeInv, RequestsOK, Shape
<1>typ. /\ req \in [Requests -> RequestType]
        /\ orders \in [Orders -> Status]
        /\ outbox \in [Requests -> Orders \cup {Nothing}]
        /\ prior \in [Requests -> SUBSET Requests]
  BY DEF TypeInv, RequestsOK, StoreOK
<1>1. ASSUME NEW r \in Requests, NEW q \in Asked, Arrive(r, q) PROVE ConfirmInv'
  <2>1. /\ req[r].pc = "unsent"
        /\ req'[r].pc \in {"lookup", "insert", "read"}
        /\ \A v \in Requests : v # r => req'[v] = req[v]
        /\ req'[r].op = q.op /\ (req'[r].pc = "insert" => q.op = "create")
        /\ prior'[r] = {p \in Requests : Done(p)}
        /\ \A v \in Requests : v # r => prior'[v] = prior[v]
        /\ UNCHANGED <<orders, outbox>>
    BY <1>1, <1>typ DEF Arrive, Work, Asked
  <2>2. \A v \in Requests : Done(v) => v # r /\ Done(v)'
    BY <2>1 DEF Done
  <2>3. EffectOK'
    BY <2>1 DEF ConfirmInv, EffectOK
  <2>4. PriorOK'
    BY <2>1, <2>2, <1>typ DEF ConfirmInv, PriorOK
  <2>5. OverlapOK'
    BY <2>1 DEF ConfirmInv, OverlapOK
  <2>6. outbox[r] = Nothing /\ \A v \in Requests : r \notin prior[v]
    BY <2>1 DEF ConfirmInv, EffectOK, PriorOK, Done
  <2>7. ConfirmedIffEvent' /\ DoubleConfirmOverlaps'
    BY <2>1, <2>6 DEF ConfirmInv, ConfirmedIffEvent, DoubleConfirmOverlaps
  <2> QED
    BY <2>3, <2>4, <2>5, <2>7 DEF ConfirmInv
<1>2. ASSUME NEW r \in Requests, Lookup(r) PROVE ConfirmInv'
  <2>1. /\ req'[r].op = req[r].op
        /\ req'[r].pc \in {"done", "insert", "read"}
        /\ req' = [req EXCEPT ![r] = req'[r]]
    BY <1>2, MoveFacts DEF Lookup, Same, Work
  <2> QED
    BY <1>2, <1>req, <2>1, ConfirmFrame DEF Lookup
<1>3. ASSUME NEW r \in Requests, Insert(r) PROVE ConfirmInv'
  <2>1. /\ req[r].pc = "insert" /\ req[r].op = "create"
        /\ req'[r].pc \in {"save", "done"} /\ req'[r].op = "create"
        /\ \A v \in Requests : v # r => req'[v] = req[v]
    BY <1>3, <1>req, MoveFacts DEF Insert, Shape, Same
  <2>2. /\ orders[r] = "ABSENT" /\ orders'[r] = "CREATED"
        /\ \A o \in Orders : o # r => orders'[o] = orders[o]
        /\ UNCHANGED <<outbox, prior>>
    BY <1>3, <1>typ DEF Insert, ConfirmInv, EffectOK, Orders
  <2>3. \A v \in Requests : req[v].pc = "confirm" => req[v].arg \in Orders
    BY <1>req DEF Shape, IsAsked
  <2>4. EffectOK'
    BY <2>1, <2>2, <2>3 DEF ConfirmInv, EffectOK, Orders
  <2>5. PriorOK'
    BY <1>typ, <2>1, <2>2 DEF ConfirmInv, PriorOK, Done
  <2>6. OverlapOK' /\ DoubleConfirmOverlaps'
    BY <2>1, <2>2 DEF ConfirmInv, OverlapOK, DoubleConfirmOverlaps
  <2>7. ConfirmedIffEvent'
    BY <2>2 DEF ConfirmInv, ConfirmedIffEvent
  <2> QED
    BY <2>4, <2>5, <2>6, <2>7 DEF ConfirmInv
<1>4. ASSUME NEW r \in Requests, Read(r) PROVE ConfirmInv'
  <2> DEFINE o == req[r].arg
  <2>1. /\ req[r].pc = "read" /\ req[r].op = "confirm" /\ o \in Orders
        /\ UNCHANGED <<orders, outbox, prior>>
    BY <1>4, <1>req DEF Read, Shape, IsAsked
  <2>2. CASE orders[o] # "CREATED"
    <3>1. /\ req'[r].op = req[r].op
          /\ req'[r].pc \in {"done", "save"}
          /\ req' = [req EXCEPT ![r] = req'[r]]
      BY <1>4, <2>2, MoveFacts DEF Read, Same
    <3> QED
      BY <1>req, <2>1, <3>1, ConfirmFrame
  <2>3. CASE orders[o] = "CREATED"
    <3>1. /\ req'[r].pc = "confirm" /\ req'[r].op = "confirm" /\ req'[r].arg = o
          /\ \A v \in Requests : v # r => req'[v] = req[v]
      <4>1. Goto(r, "confirm")
        BY <1>4, <2>3 DEF Read
      <4> QED
        BY <2>1, <4>1, MoveFacts DEF Same
    <3>2. EffectOK'
      BY <2>1, <2>3, <3>1 DEF ConfirmInv, EffectOK
    <3>3. PriorOK'
      BY <1>typ, <2>1, <3>1 DEF ConfirmInv, PriorOK, Done
    <3>4. \A v \in Requests : outbox[v] # o
      BY <2>1, <2>3 DEF ConfirmInv, ConfirmedIffEvent
    <3>5. OverlapOK'
      BY <1>typ, <2>1, <3>1, <3>4 DEF ConfirmInv, OverlapOK
    <3>6. ConfirmedIffEvent' /\ DoubleConfirmOverlaps'
      BY <2>1 DEF ConfirmInv, ConfirmedIffEvent, DoubleConfirmOverlaps
    <3> QED
      BY <3>2, <3>3, <3>5, <3>6 DEF ConfirmInv
  <2> QED
    BY <2>2, <2>3
<1>5. ASSUME NEW r \in Requests, Confirm(r) PROVE ConfirmInv'
  <2> DEFINE o == req[r].arg
  <2>1. /\ req[r].pc = "confirm" /\ req[r].op = "confirm" /\ o \in Orders
        /\ req'[r].pc \in {"save", "done"} /\ req'[r].op = "confirm"
        /\ \A v \in Requests : v # r => req'[v] = req[v]
    <3>1. req[r].pc = "confirm" /\ Committed(r, Ok(r))
      BY <1>5 DEF Confirm
    <3> QED
      BY <1>req, <3>1, MoveFacts DEF Shape, IsAsked, Same
  <2>2. /\ orders[o] \in {"CREATED", "CONFIRMED"} /\ outbox[r] = Nothing
        /\ orders'[o] = "CONFIRMED" /\ outbox'[r] = o
        /\ \A p \in Orders : p # o => orders'[p] = orders[p]
        /\ \A v \in Requests : v # r => outbox'[v] = outbox[v]
        /\ UNCHANGED prior
    BY <1>5, <1>typ, <2>1 DEF Confirm, ConfirmInv, EffectOK
  <2>3. \A v \in Requests : /\ v \in Orders
                            /\ req[v].pc = "confirm" => req[v].arg \in Orders
    BY <1>req DEF Shape, IsAsked, Orders
  <2>4. EffectOK'
    BY <2>1, <2>2, <2>3 DEF ConfirmInv, EffectOK
  <2>5. PriorOK' /\ \A v \in Requests : r \notin prior[v]
    BY <1>typ, <2>1, <2>2 DEF ConfirmInv, PriorOK, Done
  <2>6. OverlapOK'
    BY <1>typ, <2>1, <2>2, <2>5 DEF ConfirmInv, OverlapOK
  <2>7. ConfirmedIffEvent'
    BY <1>typ, <2>1, <2>2, ApiConstants DEF ConfirmInv, ConfirmedIffEvent
  <2>8. DoubleConfirmOverlaps'
    <3>1. \A p \in prior[r] : outbox[p] # o
      BY <1>typ, <2>1 DEF ConfirmInv, OverlapOK
    <3> QED
      BY <1>typ, <2>2, <2>5, <3>1 DEF ConfirmInv, DoubleConfirmOverlaps
  <2> QED
    BY <2>4, <2>5, <2>6, <2>7, <2>8 DEF ConfirmInv
<1>6. ASSUME NEW r \in Requests, Save(r) PROVE ConfirmInv'
  <2>1. /\ req'[r].op = req[r].op
        /\ req[r].pc = "save" /\ req'[r].pc = "done"
        /\ req' = [req EXCEPT ![r] = req'[r]]
    BY <1>6, MoveFacts DEF Save, Same
  <2> QED
    BY <1>6, <1>req, <2>1, ConfirmFrame DEF Save
<1>7. ASSUME NEW r \in Requests, CallFails(r) PROVE ConfirmInv'
  <2>1. /\ req'[r].op = req[r].op
        /\ req[r].pc # "done" /\ req'[r].pc = "done"
        /\ req' = [req EXCEPT ![r] = req'[r]]
    BY <1>7, MoveFacts DEF CallFails, Same
  <2> QED
    BY <1>7, <1>req, <2>1, ConfirmFrame DEF CallFails
<1>8. ASSUME UNCHANGED vars PROVE ConfirmInv'
  BY <1>8 DEF vars, ConfirmInv, EffectOK, PriorOK, OverlapOK, Done,
     ConfirmedIffEvent, DoubleConfirmOverlaps
<1> QED
  BY <1>1, <1>2, <1>3, <1>4, <1>5, <1>6, <1>7, <1>8 DEF Next

\* confirmAndOutbox keeps an order and its event together, whatever interleaves
\* and whichever calls fail: CONFIRMED exactly if an event was committed.
THEOREM TransactionIsAtomic == Spec => []ConfirmedIffEvent
<1>1. ConfirmInv => ConfirmedIffEvent
  BY DEF ConfirmInv
<1> QED
  BY <1>1, InitTypeInv, StepTypeInv, InitConfirmInv, StepConfirmInv, PTL DEF Spec

\* The missing status guard of the update costs no more than this: two events
\* for one order come only from confirmations that were in flight together.
THEOREM DoubleConfirmNeedsOverlap == Spec => []DoubleConfirmOverlaps
<1>1. ConfirmInv => DoubleConfirmOverlaps
  BY DEF ConfirmInv
<1> QED
  BY <1>1, InitTypeInv, StepTypeInv, InitConfirmInv, StepConfirmInv, PTL DEF Spec

-----------------------------------------------------------------------------
(* The idempotency cache: what is saved, and what a request that finds it  *)
(* may still do.                                                           *)

Slot(q) == <<q.key, Scope(q)>>

\* Order o was created from the given body.
CreatedFrom(o, body) ==
    /\ o \in Requests /\ orders[o] # "ABSENT"
    /\ req[o].op = "create" /\ req[o].arg = body

\* A keyed request that was answered 2xx has left a response behind.
AnsweredIsSaved ==
    \A r \in Requests :
       Done(r) /\ req[r].key # NoKey /\ req[r].answer.code = "ok" => saved[Slot(req[r])] # Nothing

\* A repeated request is still in front of the cache, or was answered from it.
RepeatIsCached ==
    \A r1, r2 \in Requests :
       Repeats(r1, r2) /\ req[r1].answer.code = "ok" =>
          req[r2].pc \in {"lookup", "done"} /\ ~HasEffect(r2)

\* A saved answer to a create names an order created from the hashed body.
SavedIsTrue ==
    \A k \in Keys :
       LET row == saved[<<k, "POST:/orders">>] IN
       row # Nothing /\ row.answer.code = "ok" => CreatedFrom(row.answer.value, row.hash)

\* So does the answer a create is about to save or has given.
AnswerIsTrue ==
    \A r \in Requests :
       req[r].pc \in {"save", "done"} /\ req[r].op = "create" /\ req[r].answer.code = "ok" =>
          CreatedFrom(req[r].answer.value, req[r].arg)

CacheInv == AnsweredIsSaved /\ RepeatIsCached
TruthInv == SavedIsTrue /\ AnswerIsTrue

\* What every step respects: orders stay, a request asks one thing only.
Monotone ==
    /\ \A o \in Orders : orders[o] # "ABSENT" => orders'[o] # "ABSENT"
    /\ \A r \in Requests : req[r].pc # "unsent" =>
          req'[r].op = req[r].op /\ req'[r].arg = req[r].arg /\ req'[r].key = req[r].key
    /\ \A r \in Requests : Done(r) => req'[r] = req[r]
    /\ \A s \in Keys \X Scopes : saved[s] # Nothing => saved'[s] # Nothing

LEMMA StepMonotone == TypeInv /\ [Next]_vars => Monotone
<1> SUFFICES ASSUME TypeInv, [Next]_vars PROVE Monotone
  OBVIOUS
<1>typ. /\ req \in [Requests -> RequestType]
        /\ orders \in [Orders -> Status]
        /\ saved \in [Keys \X Scopes -> Responses \cup {Nothing}]
        /\ \A r \in Requests : Shape(req[r])
  BY DEF TypeInv, RequestsOK, StoreOK
<1>0. ASSUME NEW r \in Requests, Same(r), ~Done(r), UNCHANGED <<orders, saved>>
      PROVE  Monotone
  BY <1>0 DEF Same, Monotone
<1>1. ASSUME NEW r \in Requests, NEW q \in Asked, Arrive(r, q) PROVE Monotone
  BY <1>1, <1>typ DEF Arrive, Monotone, Done
<1>2. ASSUME NEW r \in Requests, Lookup(r) PROVE Monotone
  BY <1>0, <1>2, MoveFacts DEF Lookup, Done
<1>3. ASSUME NEW r \in Requests, Insert(r) PROVE Monotone
  <2>1. Same(r) /\ ~Done(r)
    BY <1>3, MoveFacts DEF Insert, Done
  <2> QED
    BY <1>3, <1>typ, <2>1 DEF Insert, Same, Monotone
<1>4. ASSUME NEW r \in Requests, Read(r) PROVE Monotone
  BY <1>0, <1>4, MoveFacts DEF Read, Done
<1>5. ASSUME NEW r \in Requests, Confirm(r) PROVE Monotone
  <2>1. Same(r) /\ ~Done(r)
    BY <1>5, MoveFacts DEF Confirm, Done
  <2> QED
    BY <1>5, <1>typ, <2>1 DEF Confirm, Same, Monotone
<1>6. ASSUME NEW r \in Requests, Save(r) PROVE Monotone
  <2> DEFINE row == [hash |-> Hash(req[r]), answer |-> req[r].answer]
  <2>1. Same(r) /\ ~Done(r) /\ req[r].pc = "save"
    BY <1>6, MoveFacts DEF Save, Done
  <2>2. row \in Responses
    <3>1. req[r].answer \in Answers
      BY <1>typ, <2>1 DEF Shape, RequestType, Pending
    <3>2. Hash(req[r]) \in Bodies \cup {Nothing}
      BY <1>typ, <2>1, CacheSlot
    <3> QED
      BY <3>1, <3>2 DEF Responses
  <2>3. saved' = [saved EXCEPT ![Slot(req[r])] = row] /\ UNCHANGED orders
    BY <1>6 DEF Save, Slot
  <2>4. \A s \in Keys \X Scopes : saved[s] # Nothing => saved'[s] # Nothing
    BY <1>typ, <2>2, <2>3, ApiConstants
  <2> QED
    BY <2>1, <2>3, <2>4 DEF Same, Monotone
<1>7. ASSUME NEW r \in Requests, CallFails(r) PROVE Monotone
  BY <1>0, <1>7, MoveFacts DEF CallFails, Done
<1>8. ASSUME UNCHANGED vars PROVE Monotone
  BY <1>8 DEF vars, Monotone
<1> QED
  BY <1>1, <1>2, <1>3, <1>4, <1>5, <1>6, <1>7, <1>8 DEF Next

\* The order a true answer names stays the one it named.
LEMMA StillCreated ==
    ASSUME TypeInv, Monotone, NEW o, NEW body, CreatedFrom(o, body)
    PROVE  CreatedFrom(o, body)'
<1>1. req[o].pc # "unsent" /\ o \in Orders
  BY DEF CreatedFrom, TypeInv, RequestsOK, Shape, Orders
<1> QED
  BY <1>1 DEF CreatedFrom, Monotone

LEMMA InitTruthInv == Init => TruthInv
<1> SUFFICES ASSUME Init PROVE TruthInv
  OBVIOUS
<1>1. \A k \in Keys : saved[<<k, "POST:/orders">>] = Nothing
  BY DEF Init, Scopes
<1> QED
  BY <1>1 DEF Init, TruthInv, SavedIsTrue, AnswerIsTrue, NotSent

\* What AnswerIsTrue says of one request.
TrueAnswer(r) ==
    req[r].pc \in {"save", "done"} /\ req[r].op = "create" /\ req[r].answer.code = "ok" =>
       CreatedFrom(req[r].answer.value, req[r].arg)

\* Steps that save nothing and whose answer, if any, is true.
LEMMA TruthFrame ==
    ASSUME TypeInv, TruthInv, Monotone, UNCHANGED saved, NEW r \in Requests,
           \A v \in Requests : v # r => req'[v] = req[v],
           TrueAnswer(r)'
    PROVE  TruthInv'
<1>1. SavedIsTrue'
  <2> SUFFICES ASSUME NEW k \in Keys, saved[<<k, "POST:/orders">>] # Nothing,
                      saved[<<k, "POST:/orders">>].answer.code = "ok"
               PROVE  CreatedFrom(saved[<<k, "POST:/orders">>].answer.value,
                                  saved[<<k, "POST:/orders">>].hash)'
    BY DEF SavedIsTrue
  <2> DEFINE o == saved[<<k, "POST:/orders">>].answer.value
             body == saved[<<k, "POST:/orders">>].hash
  <2>1. CreatedFrom(o, body)
    BY DEF TruthInv, SavedIsTrue
  <2>2. o' = o /\ body' = body
    OBVIOUS
  <2> HIDE DEF o, body
  <2>3. \A p, b : CreatedFrom(p, b) => CreatedFrom(p, b)'
    BY StillCreated
  <2> QED
    BY <2>1, <2>2, <2>3 DEF o, body, CreatedFrom
<1>2. ASSUME NEW v \in Requests PROVE TrueAnswer(v)'
  <2>1. CASE v = r
    BY <2>1
  <2>2. CASE v # r
    <3>1. TrueAnswer(v) /\ req'[v] = req[v]
      BY <2>2 DEF TruthInv, AnswerIsTrue, TrueAnswer
    <3>2. \A p, b : CreatedFrom(p, b) => CreatedFrom(p, b)'
      BY StillCreated
    <3> QED
      BY <3>1, <3>2 DEF TrueAnswer, CreatedFrom
  <2> QED
    BY <2>1, <2>2
<1>3. AnswerIsTrue'
  BY <1>2 DEF AnswerIsTrue, TrueAnswer
<1> QED
  BY <1>1, <1>3 DEF TruthInv

LEMMA StepTruthInv == TypeInv /\ TypeInv' /\ TruthInv /\ [Next]_vars => TruthInv'
<1> SUFFICES ASSUME TypeInv, TypeInv', TruthInv, [Next]_vars PROVE TruthInv'
  OBVIOUS
<1>mon. Monotone
  BY StepMonotone
<1>typ. /\ req \in [Requests -> RequestType]
        /\ orders \in [Orders -> Status]
        /\ saved \in [Keys \X Scopes -> Responses \cup {Nothing}]
        /\ \A r \in Requests : Shape(req[r])
  BY DEF TypeInv, RequestsOK, StoreOK
<1>cre. \A p, b : CreatedFrom(p, b) => CreatedFrom(p, b)'
  BY <1>mon, StillCreated
<1>1. ASSUME NEW r \in Requests, NEW q \in Asked, Arrive(r, q) PROVE TruthInv'
  <2>1. /\ \A v \in Requests : v # r => req'[v] = req[v]
        /\ req'[r].pc \notin {"save", "done"}
    BY <1>1, <1>typ DEF Arrive, Work
  <2>2. TrueAnswer(r)'
    BY <2>1 DEF TrueAnswer
  <2> QED
    BY <1>1, <1>mon, <2>1, <2>2, TruthFrame DEF Arrive
<1>2. ASSUME NEW r \in Requests, Lookup(r) PROVE TruthInv'
  <2> DEFINE q == req[r]
             row == saved[<<q.key, Scope(q)>>]
  <2>1. q.pc = "lookup" /\ Same(r) /\ UNCHANGED saved
    BY <1>2, MoveFacts DEF Lookup
  <2>2. TrueAnswer(r)'
    <3>1. CASE row = Nothing
      <4>1. req'[r].pc \notin {"save", "done"}
        BY <1>2, <3>1, MoveFacts DEF Lookup, Work
      <4> QED
        BY <4>1 DEF TrueAnswer
    <3>2. CASE row # Nothing /\ ~SameBody(row, q)
      <4>1. req'[r].answer = Conflict
        BY <1>2, <3>2, MoveFacts DEF Lookup
      <4> QED
        BY <4>1 DEF TrueAnswer, Conflict
    <3>3. CASE row # Nothing /\ SameBody(row, q)
      <4>1. req'[r].answer = row.answer
        BY <1>2, <3>3, MoveFacts DEF Lookup
      <4>2. CASE q.op = "create" /\ row.answer.code = "ok"
        <5>1. q.key \in Keys /\ Scope(q) = "POST:/orders" /\ row.hash = q.arg
          BY <1>typ, <2>1, <3>3, <4>2 DEF Shape, SameBody, Hash, Scope
        <5>2. CreatedFrom(row.answer.value, q.arg)
          BY <3>3, <4>2, <5>1 DEF TruthInv, SavedIsTrue
        <5>3. req'[r].answer.value = row.answer.value /\ req'[r].arg = q.arg
          BY <2>1, <4>1 DEF Same
        <5> QED
          BY <1>cre, <5>2, <5>3 DEF TrueAnswer, CreatedFrom
      <4>3. CASE ~(q.op = "create" /\ row.answer.code = "ok")
        BY <2>1, <4>1, <4>3 DEF TrueAnswer, Same
      <4> QED
        BY <4>2, <4>3
    <3> QED
      BY <3>1, <3>2, <3>3
  <2> QED
    BY <1>mon, <2>1, <2>2, TruthFrame DEF Same
<1>3. ASSUME NEW r \in Requests, Insert(r) PROVE TruthInv'
  <2>1. /\ Same(r) /\ UNCHANGED saved /\ req'[r].answer \in {Ok(r), Error}
        /\ req[r].op = "create" /\ orders'[r] = "CREATED"
    BY <1>3, <1>typ, MoveFacts DEF Insert, Shape, Orders
  <2>2. TrueAnswer(r)'
    BY <2>1 DEF TrueAnswer, CreatedFrom, Same, Ok, Error
  <2> QED
    BY <1>mon, <2>1, <2>2, TruthFrame DEF Same
<1>4. ASSUME NEW r \in Requests, Read(r) PROVE TruthInv'
  <2>1. Same(r) /\ UNCHANGED saved /\ req[r].op = "confirm"
    BY <1>4, <1>typ, MoveFacts DEF Read, Shape
  <2>2. TrueAnswer(r)'
    BY <2>1 DEF TrueAnswer, Same
  <2> QED
    BY <1>mon, <2>1, <2>2, TruthFrame DEF Same
<1>5. ASSUME NEW r \in Requests, Confirm(r) PROVE TruthInv'
  <2>1. Same(r) /\ UNCHANGED saved /\ req[r].op = "confirm"
    BY <1>5, <1>typ, MoveFacts DEF Confirm, Shape
  <2>2. TrueAnswer(r)'
    BY <2>1 DEF TrueAnswer, Same
  <2> QED
    BY <1>mon, <2>1, <2>2, TruthFrame DEF Same
<1>6. ASSUME NEW r \in Requests, Save(r) PROVE TruthInv'
  <2> DEFINE q == req[r]
             row == [hash |-> Hash(q), answer |-> q.answer]
  <2>1. /\ q.pc = "save" /\ q.key \in Keys /\ Scope(q) \in Scopes
        /\ q.op = "create" <=> Scope(q) = "POST:/orders"
        /\ Same(r) /\ req'[r].answer \in {q.answer, Error}
        /\ saved' = [saved EXCEPT ![<<q.key, Scope(q)>>] = row]
    BY <1>6, <1>typ, MoveFacts, CacheSlot DEF Save, Shape
  <2>2. TrueAnswer(r)
    BY DEF TruthInv, AnswerIsTrue, TrueAnswer
  <2>3. \A v \in Requests : TrueAnswer(v) => TrueAnswer(v)'
    BY <1>cre, <2>1, <2>2 DEF TrueAnswer, CreatedFrom, Same, Error
  <2>4. AnswerIsTrue'
    BY <2>3 DEF TruthInv, AnswerIsTrue, TrueAnswer
  <2>5. SavedIsTrue'
    <3> SUFFICES ASSUME NEW k \in Keys, saved'[<<k, "POST:/orders">>] # Nothing,
                        saved'[<<k, "POST:/orders">>].answer.code = "ok"
                 PROVE  CreatedFrom(saved[<<k, "POST:/orders">>].answer.value,
                                    saved[<<k, "POST:/orders">>].hash)'
      BY DEF SavedIsTrue
    <3>1. <<k, "POST:/orders">> \in Keys \X Scopes
      BY DEF Scopes
    <3>2. CASE k = q.key /\ q.op = "create"
      <4>1. saved'[<<k, "POST:/orders">>] = row
        BY <1>typ, <2>1, <3>1, <3>2
      <4>2. CreatedFrom(q.answer.value, q.arg) /\ row.hash = q.arg
        BY <2>1, <2>2, <3>2, <4>1 DEF TrueAnswer, Hash
      <4> QED
        BY <1>cre, <4>1, <4>2 DEF CreatedFrom
    <3>3. CASE ~(k = q.key /\ q.op = "create")
      <4>1. saved'[<<k, "POST:/orders">>] = saved[<<k, "POST:/orders">>]
        BY <1>typ, <2>1, <3>1, <3>3
      <4>2. CreatedFrom(saved[<<k, "POST:/orders">>].answer.value,
                        saved[<<k, "POST:/orders">>].hash)
        BY <4>1 DEF TruthInv, SavedIsTrue
      <4> QED
        BY <1>cre, <4>1, <4>2 DEF CreatedFrom
    <3> QED
      BY <3>2, <3>3
  <2> QED
    BY <2>4, <2>5 DEF TruthInv
<1>7. ASSUME NEW r \in Requests, CallFails(r) PROVE TruthInv'
  <2>1. Same(r) /\ UNCHANGED saved /\ req'[r].answer = Error
    BY <1>7, MoveFacts DEF CallFails
  <2>2. TrueAnswer(r)'
    BY <2>1 DEF TrueAnswer, Error
  <2> QED
    BY <1>mon, <2>1, <2>2, TruthFrame DEF Same
<1>8. ASSUME UNCHANGED vars PROVE TruthInv'
  BY <1>8 DEF vars, TruthInv, SavedIsTrue, AnswerIsTrue, CreatedFrom
<1> QED
  BY <1>1, <1>2, <1>3, <1>4, <1>5, <1>6, <1>7, <1>8 DEF Next

\* A create that is answered 2xx is answered with an order that exists and was
\* created from the body it carries: neither the cache nor a race between
\* requests with one key ever hands out the order of another body.
THEOREM AnswersAreTrue == Spec => []AnswerMatchesBody
<1>1. TruthInv => AnswerMatchesBody
  BY DEF TruthInv, AnswerIsTrue, AnswerMatchesBody, CreatedFrom, Done
<1> QED
  BY <1>1, InitTypeInv, StepTypeInv, InitTruthInv, StepTruthInv, PTL DEF Spec

-----------------------------------------------------------------------------
(* A repetition of an answered request.                                    *)

\* What AnsweredIsSaved says of one request.
SavedIfAnswered(r) ==
    Done(r) /\ req[r].key # NoKey /\ req[r].answer.code = "ok" => saved[Slot(req[r])] # Nothing

LEMMA StepAnsweredIsSaved ==
    TypeInv /\ TypeInv' /\ AnsweredIsSaved /\ [Next]_vars => AnsweredIsSaved'
<1> SUFFICES ASSUME TypeInv, TypeInv', AnsweredIsSaved, [Next]_vars
             PROVE  AnsweredIsSaved'
  OBVIOUS
<1>mon. Monotone
  BY StepMonotone
<1>typ. /\ req \in [Requests -> RequestType]
        /\ saved \in [Keys \X Scopes -> Responses \cup {Nothing}]
        /\ \A r \in Requests : Shape(req[r])
  BY DEF TypeInv, RequestsOK, StoreOK
\* What is saved for a request that was done before stays saved.
<1>old. ASSUME NEW r \in Requests, Done(r) PROVE SavedIfAnswered(r)'
  <2>1. req'[r] = req[r]
    BY <1>mon, <1>old DEF Monotone
  <2> SUFFICES ASSUME req[r].key # NoKey, req[r].answer.code = "ok"
               PROVE  saved'[Slot(req[r])] # Nothing
    BY <2>1 DEF SavedIfAnswered, Slot, Scope
  <2>2. saved[Slot(req[r])] # Nothing
    BY <1>old DEF AnsweredIsSaved
  <2>3. Slot(req[r]) \in Keys \X Scopes
    BY <1>typ, <1>old, CacheSlot DEF Slot, Done, Shape, RequestType
  <2> QED
    BY <1>mon, <2>2, <2>3 DEF Monotone
\* It is enough to look at the request that moves, if that one gets done.
<1>one. ASSUME NEW r \in Requests, \A v \in Requests : v # r => req'[v] = req[v],
               SavedIfAnswered(r)'
        PROVE  AnsweredIsSaved'
  <2>1. ASSUME NEW v \in Requests PROVE SavedIfAnswered(v)'
    <3>1. CASE v = r
      BY <1>one, <3>1
    <3>2. CASE Done(v)
      BY <1>old, <3>2
    <3>3. CASE v # r /\ ~Done(v)
      BY <1>one, <3>3 DEF SavedIfAnswered, Done
    <3> QED
      BY <3>1, <3>2, <3>3
  <2> QED
    BY <2>1 DEF AnsweredIsSaved, SavedIfAnswered
<1>1. ASSUME NEW r \in Requests, NEW q \in Asked, Arrive(r, q) PROVE AnsweredIsSaved'
  <2>1. /\ \A v \in Requests : v # r => req'[v] = req[v]
        /\ req'[r].pc # "done"
    BY <1>1, <1>typ DEF Arrive, Work
  <2> QED
    BY <1>one, <2>1 DEF SavedIfAnswered, Done
<1>2. ASSUME NEW r \in Requests, Lookup(r) PROVE AnsweredIsSaved'
  <2>1. Same(r) /\ UNCHANGED saved
    BY <1>2, MoveFacts DEF Lookup
  <2>2. Slot(req[r])' = Slot(req[r])
    BY <2>1 DEF Same, Slot, Scope
  <2>3. req'[r].pc = "done" => saved[Slot(req[r])] # Nothing
    BY <1>2, MoveFacts DEF Lookup, Work, Slot
  <2>4. SavedIfAnswered(r)'
    BY <2>1, <2>2, <2>3 DEF SavedIfAnswered, Done
  <2> QED
    BY <1>one, <2>1, <2>4 DEF Same
<1>3. ASSUME NEW r \in Requests, NEW v, Deliver(r, v) PROVE AnsweredIsSaved'
  <2>1. Same(r) /\ (req'[r].key # NoKey => req'[r].pc = "save")
    BY <1>3, MoveFacts DEF Same
  <2>2. SavedIfAnswered(r)'
    BY <2>1 DEF SavedIfAnswered, Done
  <2> QED
    BY <1>one, <2>1, <2>2 DEF Same
<1>4. ASSUME NEW r \in Requests, NEW v, v.code # "ok", Answer(r, v) PROVE AnsweredIsSaved'
  <2>1. Same(r) /\ req'[r].answer = v
    BY <1>4, MoveFacts
  <2>2. SavedIfAnswered(r)'
    BY <1>4, <2>1 DEF SavedIfAnswered
  <2> QED
    BY <1>one, <2>1, <2>2 DEF Same
<1>5. ASSUME NEW r \in Requests, Goto(r, "confirm") PROVE AnsweredIsSaved'
  <2>1. Same(r) /\ req'[r].pc = "confirm"
    BY <1>5, MoveFacts
  <2>2. SavedIfAnswered(r)'
    BY <2>1 DEF SavedIfAnswered, Done
  <2> QED
    BY <1>one, <2>1, <2>2 DEF Same
<1>6. ASSUME NEW r \in Requests, Save(r) PROVE AnsweredIsSaved'
  <2> DEFINE row == [hash |-> Hash(req[r]), answer |-> req[r].answer]
  <2>1. Same(r) /\ req[r].pc = "save" /\ saved' = [saved EXCEPT ![Slot(req[r])] = row]
    BY <1>6, MoveFacts DEF Save, Slot
  <2>2. Slot(req[r]) \in Keys \X Scopes
    BY <1>typ, <2>1, CacheSlot DEF Slot
  <2>3. row # Nothing
    <3>1. req[r].answer \in Answers
      BY <1>typ, <2>1 DEF Shape, RequestType, Pending
    <3>2. Hash(req[r]) \in Bodies \cup {Nothing}
      BY <1>typ, <2>1, CacheSlot
    <3> QED
      BY <3>1, <3>2, ApiConstants DEF Responses
  <2>4. Slot(req[r])' = Slot(req[r])
    BY <2>1 DEF Same, Slot, Scope
  <2>5. saved'[Slot(req[r])] = row
    BY <1>typ, <2>1, <2>2
  <2>6. SavedIfAnswered(r)'
    BY <2>3, <2>4, <2>5 DEF SavedIfAnswered
  <2> QED
    BY <1>one, <2>1, <2>6 DEF Same
<1>7. ASSUME UNCHANGED vars PROVE AnsweredIsSaved'
  BY <1>7 DEF vars, AnsweredIsSaved, Done, Slot, Scope
<1>8. Conflict.code # "ok" /\ Error.code # "ok"
  BY DEF Conflict, Error
<1> QED
  <2>1. ASSUME NEW r \in Requests, Read(r) PROVE AnsweredIsSaved'
    BY <1>3, <1>4, <1>5, <1>8, <2>1 DEF Read
  <2>2. ASSUME NEW r \in Requests, Insert(r) \/ Confirm(r) PROVE AnsweredIsSaved'
    BY <1>3, <1>4, <1>8, <2>2 DEF Insert, Confirm, Committed, Throw
  <2>3. ASSUME NEW r \in Requests, CallFails(r) PROVE AnsweredIsSaved'
    BY <1>4, <1>8, <2>3 DEF CallFails, Throw
  <2> QED
    BY <1>1, <1>2, <1>6, <1>7, <2>1, <2>2, <2>3 DEF Next

\* A request still in front of the cache has had no effect, and nobody else
\* gives it one.
LEMMA EffectsAreOwn ==
    ASSUME TypeInv, ConfirmInv, NEW r \in Requests,
           \E p \in Requests : \/ Lookup(p) \/ Insert(p) \/ Read(p) \/ Confirm(p) \/ Save(p)
                               \/ CallFails(p) \/ \E q \in Asked : Arrive(p, q),
           ~HasEffect(r), req[r].pc \notin {"insert", "confirm"}
    PROVE  ~HasEffect(r)'
<1>1. PICK p \in Requests : \/ Lookup(p) \/ Insert(p) \/ Read(p) \/ Confirm(p) \/ Save(p)
                            \/ CallFails(p) \/ \E q \in Asked : Arrive(p, q)
  OBVIOUS
<1>2. /\ orders \in [Orders -> Status] /\ r \in Orders
      /\ outbox \in [Requests -> Orders \cup {Nothing}]
  BY DEF TypeInv, StoreOK, Orders
<1>3. CASE Insert(p)
  BY <1>2, <1>3 DEF Insert, HasEffect
<1>4. CASE Confirm(p)
  <2>1. req[p].arg # r /\ p # r
    BY <1>4 DEF Confirm, ConfirmInv, EffectOK, HasEffect
  <2> QED
    BY <1>2, <1>4, <2>1 DEF Confirm, HasEffect
<1>5. CASE Lookup(p) \/ Read(p) \/ Save(p) \/ CallFails(p) \/ \E q \in Asked : Arrive(p, q)
  BY <1>5 DEF Lookup, Read, Save, CallFails, Arrive, HasEffect
<1> QED
  BY <1>1, <1>3, <1>4, <1>5

LEMMA StepRepeatIsCached ==
    TypeInv /\ ConfirmInv /\ CacheInv /\ [Next]_vars => RepeatIsCached'
<1> SUFFICES ASSUME TypeInv, ConfirmInv, CacheInv, Next PROVE RepeatIsCached'
  BY DEF vars, CacheInv, RepeatIsCached, Repeats, HasEffect
<1> SUFFICES ASSUME NEW r1 \in Requests, NEW r2 \in Requests, Repeats(r1, r2)',
                    req'[r1].answer.code = "ok"
             PROVE  req'[r2].pc \in {"lookup", "done"} /\ ~HasEffect(r2)'
  BY DEF RepeatIsCached
<1>mon. Monotone
  BY StepMonotone
<1>typ. /\ req \in [Requests -> RequestType]
        /\ prior \in [Requests -> SUBSET Requests]
        /\ \A r \in Requests : Shape(req[r])
  BY DEF TypeInv, RequestsOK, StoreOK
<1>act. PICK p \in Requests : \/ Lookup(p) \/ Insert(p) \/ Read(p) \/ Confirm(p) \/ Save(p)
                              \/ CallFails(p) \/ \E q \in Asked : Arrive(p, q)
  BY DEF Next
<1>1. CASE p = r2 /\ \E q \in Asked : Arrive(r2, q)
  <2>1. req'[r2].pc = "lookup"
    BY <1>1, <1>typ DEF Arrive, Repeats
  <2>2. ~HasEffect(r2)
    BY <1>1 DEF Arrive, ConfirmInv, EffectOK, HasEffect
  <2>3. ~HasEffect(r2)'
    BY <1>1, <2>2 DEF Arrive, HasEffect
  <2> QED
    BY <2>1, <2>3
<1>2. CASE ~(p = r2 /\ \E q \in Asked : Arrive(r2, q))
  <2>1. /\ r1 \in prior[r2]
        /\ req[r2].pc # "unsent" \/ req'[r2] = req[r2]
    <3>1. CASE \E q \in Asked : Arrive(p, q)
      BY <1>2, <1>typ, <3>1 DEF Repeats, Arrive
    <3>2. CASE ~\E q \in Asked : Arrive(p, q)
      <4>1. UNCHANGED prior /\ req[p].pc # "unsent" /\ Same(p)
        BY <1>act, <3>2, MoveFacts
           DEF Lookup, Insert, Read, Confirm, Save, CallFails
      <4> QED
        BY <4>1 DEF Repeats, Same
    <3> QED
      BY <3>1, <3>2
  <2>2. Done(r1) /\ req'[r1] = req[r1]
    BY <1>mon, <2>1 DEF ConfirmInv, PriorOK, Monotone
  <2>3. Repeats(r1, r2) /\ req[r1].answer.code = "ok"
    BY <1>mon, <2>1, <2>2 DEF Repeats, Monotone
  <2>4. req[r2].pc \in {"lookup", "done"} /\ ~HasEffect(r2)
    BY <2>3 DEF CacheInv, RepeatIsCached
  <2>5. ~HasEffect(r2)'
    BY <1>act, <2>4, EffectsAreOwn
  <2>6. CASE p # r2
    <3>1. req'[r2] = req[r2]
      BY <1>act, <1>typ, <2>6, MoveFacts
         DEF Arrive, Lookup, Insert, Read, Confirm, Save, CallFails, Same
    <3> QED
      BY <2>4, <2>5, <3>1
  <2>7. CASE p = r2 /\ Lookup(r2)
    <3>1. Slot(req[r1]) = Slot(req[r2])
      BY <2>3 DEF Repeats, Slot, Scope
    <3>2. saved[Slot(req[r2])] # Nothing
      BY <2>2, <2>3, <3>1 DEF CacheInv, AnsweredIsSaved, Repeats
    <3>3. req'[r2].pc = "done"
      BY <2>7, <3>2, MoveFacts DEF Lookup, Slot
    <3> QED
      BY <2>5, <3>3
  <2>8. CASE p = r2 /\ CallFails(r2)
    <3>1. req'[r2].pc = "done"
      BY <2>8, MoveFacts DEF CallFails
    <3> QED
      BY <2>5, <3>1
  <2> QED
    BY <1>act, <1>2, <2>4, <2>6, <2>7, <2>8 DEF Insert, Read, Confirm, Save
<1> QED
  BY <1>1, <1>2

\* A repetition of a request that has been answered 2xx, under the same key and
\* with the same body, changes nothing, whatever else is in flight with the key
\* and whichever calls fail: it finds the answer in the cache.
THEOREM RepetitionHasNoEffect == Spec => []AnsweredIsNotRepeated
<1>1. Init => CacheInv
  BY DEF Init, CacheInv, AnsweredIsSaved, RepeatIsCached, Done, Repeats, NotSent
<1>2. CacheInv => AnsweredIsNotRepeated
  BY DEF CacheInv, RepeatIsCached, AnsweredIsNotRepeated
<1>3. TypeInv /\ TypeInv' /\ ConfirmInv /\ CacheInv /\ [Next]_vars => CacheInv'
  BY StepAnsweredIsSaved, StepRepeatIsCached DEF CacheInv
<1> QED
  BY <1>1, <1>2, <1>3, InitTypeInv, StepTypeInv, InitConfirmInv, StepConfirmInv, PTL DEF Spec

-----------------------------------------------------------------------------
(* The API implements OrderService: what clients see is one step a request. *)

\* Order o is CONFIRMED, and v an event of it or null.
Notified(o, v) ==
    /\ orders[o] = "CONFIRMED"
    /\ v # Nothing => v \in Requests /\ outbox[v] = o

\* Somebody has asked under this slot, with this hash.
AskedFor(slot, hash) ==
    \E p \in Requests : req[p].op # "none" /\ Slot(req[p]) = slot /\ Hash(req[p]) = hash

\* Only answers 2xx are saved, under the slot and the hash of a request; what is
\* saved of a confirm is true of its order.
SavedIsAsked ==
    \A s \in Keys \X Scopes : saved[s] # Nothing =>
       /\ saved[s].answer.code = "ok"
       /\ AskedFor(s, saved[s].hash)
       /\ s[2] \in Orders => Notified(s[2], saved[s].answer.value)

\* So is what a confirm is about to save or has answered.
TrueNotice(r) ==
    req[r].pc \in {"save", "done"} /\ req[r].op = "confirm" /\ req[r].answer.code = "ok" =>
       Notified(req[r].arg, req[r].answer.value)

NoticeIsTrue == \A r \in Requests : TrueNotice(r)

UnsentIsBlank == \A r \in Requests : req[r].pc = "unsent" => req[r] = NotSent

NoticeInv == SavedIsAsked /\ NoticeIsTrue /\ UnsentIsBlank

LEMMA InitNoticeInv == Init => NoticeInv
  BY DEF Init, NoticeInv, SavedIsAsked, NoticeIsTrue, TrueNotice, UnsentIsBlank, NotSent

\* Nobody takes a confirmation back, or an event.
LEMMA NoticeStays ==
    ASSUME TypeInv, ConfirmInv, [Next]_vars, NEW o \in Orders, NEW v, Notified(o, v)
    PROVE  Notified(o, v)'
<1>typ. /\ orders \in [Orders -> Status] /\ Requests \subseteq Orders
        /\ outbox \in [Requests -> Orders \cup {Nothing}]
        /\ \A r \in Requests : Shape(req[r])
        /\ Nothing \notin Orders
  BY ApiConstants DEF TypeInv, RequestsOK, StoreOK, Orders
<1>1. ASSUME NEW r \in Requests, Insert(r) PROVE Notified(o, v)'
  <2>1. orders[r] = "ABSENT"
    BY <1>1 DEF Insert, ConfirmInv, EffectOK
  <2> QED
    BY <1>1, <1>typ, <2>1 DEF Insert, Notified
<1>2. ASSUME NEW r \in Requests, Confirm(r) PROVE Notified(o, v)'
  <2>1. outbox[r] = Nothing /\ req[r].arg \in Orders
    BY <1>2, <1>typ DEF Confirm, ConfirmInv, EffectOK, Shape, IsAsked
  <2> QED
    BY <1>2, <1>typ, <2>1 DEF Confirm, Notified
<1>3. ASSUME UNCHANGED <<orders, outbox>> PROVE Notified(o, v)'
  BY <1>3 DEF Notified
<1> QED
  BY <1>1, <1>2, <1>3 DEF Next, vars, Arrive, Lookup, Read, Save, CallFails

\* What has been asked stays asked.
LEMMA AskedStays ==
    ASSUME TypeInv, Monotone, NEW slot, NEW hash, AskedFor(slot, hash)
    PROVE  AskedFor(slot, hash)'
<1>1. PICK p \in Requests : req[p].op # "none" /\ Slot(req[p]) = slot /\ Hash(req[p]) = hash
  BY DEF AskedFor
<1>2. req[p].pc # "unsent"
  BY <1>1 DEF TypeInv, RequestsOK, Shape
<1>3. req'[p].op = req[p].op /\ req'[p].key = req[p].key /\ req'[p].arg = req[p].arg
  BY <1>2 DEF Monotone
<1>4. Slot(req'[p]) = slot /\ Hash(req'[p]) = hash
  BY <1>1, <1>3 DEF Slot, Scope, Hash
<1> QED
  BY <1>1, <1>3, <1>4 DEF AskedFor, Slot, Scope, Hash

\* It is enough to look at the request that moves, and at what is saved.
LEMMA NoticeFrame ==
    ASSUME TypeInv, ConfirmInv, NoticeInv, [Next]_vars, NEW r \in Requests,
           \A v \in Requests : v # r => req'[v] = req[v],
           req'[r].pc # "unsent", TrueNotice(r)'
    PROVE  /\ NoticeIsTrue' /\ UnsentIsBlank'
           /\ UNCHANGED saved => SavedIsAsked'
<1>mon. Monotone
  BY StepMonotone
<1>typ. \A v \in Requests : Shape(req[v])
  BY DEF TypeInv, RequestsOK
<1>1. ASSUME NEW v \in Requests PROVE TrueNotice(v)'
  <2>1. CASE v = r
    BY <2>1
  <2>2. CASE v # r
    <3>1. req'[v] = req[v] /\ TrueNotice(v)
      BY <2>2 DEF NoticeInv, NoticeIsTrue
    <3>2. req[v].op = "confirm" /\ req[v].pc \in {"save", "done"} => req[v].arg \in Orders
      BY <1>typ DEF Shape, IsAsked
    <3> QED
      BY <3>1, <3>2, NoticeStays DEF TrueNotice, Notified
  <2> QED
    BY <2>1, <2>2
<1>2. UnsentIsBlank'
  BY DEF NoticeInv, UnsentIsBlank, NotSent
<1>3. ASSUME UNCHANGED saved PROVE SavedIsAsked'
  <2> SUFFICES ASSUME NEW s \in Keys \X Scopes, saved[s] # Nothing
               PROVE  /\ saved[s].answer.code = "ok"
                      /\ AskedFor(s, saved[s].hash)'
                      /\ s[2] \in Orders => Notified(s[2], saved[s].answer.value)'
    BY <1>3 DEF SavedIsAsked, AskedFor, Notified
  <2> DEFINE hash == saved[s].hash
             v == saved[s].answer.value
  <2>1. /\ saved[s].answer.code = "ok" /\ AskedFor(s, hash)
        /\ s[2] \in Orders => Notified(s[2], v)
    BY DEF NoticeInv, SavedIsAsked
  <2>2. hash' = hash /\ v' = v
    BY <1>3
  <2> HIDE DEF hash, v
  <2>3. \A h : AskedFor(s, h) => AskedFor(s, h)'
    BY <1>mon, AskedStays
  <2>4. \A x : s[2] \in Orders /\ Notified(s[2], x) => Notified(s[2], x)'
    BY NoticeStays
  <2> QED
    BY <2>1, <2>2, <2>3, <2>4 DEF hash, v, AskedFor, Notified
<1> QED
  BY <1>1, <1>2, <1>3 DEF NoticeIsTrue

LEMMA StepNoticeInv == TypeInv /\ TypeInv' /\ ConfirmInv /\ NoticeInv /\ [Next]_vars => NoticeInv'
<1> SUFFICES ASSUME TypeInv, TypeInv', ConfirmInv, NoticeInv, [Next]_vars PROVE NoticeInv'
  OBVIOUS
<1>typ. /\ req \in [Requests -> RequestType]
        /\ orders \in [Orders -> Status]
        /\ saved \in [Keys \X Scopes -> Responses \cup {Nothing}]
        /\ \A r \in Requests : Shape(req[r])
  BY DEF TypeInv, RequestsOK, StoreOK
<1>one. ASSUME NEW r \in Requests, UNCHANGED saved, Same(r), req'[r].pc # "unsent", TrueNotice(r)'
        PROVE  NoticeInv'
  BY <1>one, NoticeFrame DEF Same, NoticeInv
<1>1. ASSUME NEW r \in Requests, NEW q \in Asked, Arrive(r, q) PROVE NoticeInv'
  <2>1. /\ \A v \in Requests : v # r => req'[v] = req[v]
        /\ req'[r].pc \notin {"unsent", "save", "done"}
        /\ UNCHANGED saved
    BY <1>1, <1>typ DEF Arrive, Work
  <2>2. TrueNotice(r)'
    BY <2>1 DEF TrueNotice
  <2> QED
    BY <2>1, <2>2, NoticeFrame DEF NoticeInv
<1>2. ASSUME NEW r \in Requests, Lookup(r) PROVE NoticeInv'
  <2> DEFINE q == req[r]
             row == saved[<<q.key, Scope(q)>>]
  <2>1. q.pc = "lookup" /\ Same(r) /\ UNCHANGED <<saved, orders, outbox>> /\ req'[r].pc # "unsent"
    BY <1>2, MoveFacts DEF Lookup, Work
  <2>2. TrueNotice(r)'
    <3>1. CASE row = Nothing
      <4>1. req'[r].pc \notin {"save", "done"}
        BY <1>2, <3>1, MoveFacts DEF Lookup, Work
      <4> QED
        BY <4>1 DEF TrueNotice
    <3>2. CASE row # Nothing /\ ~SameBody(row, q)
      <4>1. req'[r].answer = Conflict
        BY <1>2, <3>2, MoveFacts DEF Lookup
      <4> QED
        BY <4>1 DEF TrueNotice, Conflict
    <3>3. CASE row # Nothing /\ SameBody(row, q) /\ q.op = "confirm"
      <4>1. req'[r].answer = row.answer
        BY <1>2, <3>3, MoveFacts DEF Lookup
      <4>2. <<q.key, Scope(q)>> \in Keys \X Scopes /\ Scope(q) = q.arg /\ q.arg \in Orders
        BY <1>typ, <2>1, <3>3, CacheSlot DEF Scope, Shape, IsAsked
      <4>3. Notified(q.arg, row.answer.value)
        BY <3>3, <4>2 DEF NoticeInv, SavedIsAsked
      <4> QED
        BY <2>1, <4>1, <4>3 DEF TrueNotice, Notified, Same
    <3>4. CASE q.op # "confirm"
      BY <2>1, <3>4 DEF TrueNotice, Same
    <3> QED
      BY <3>1, <3>2, <3>3, <3>4
  <2> QED
    BY <1>one, <2>1, <2>2
<1>3. ASSUME NEW r \in Requests, Insert(r) PROVE NoticeInv'
  <2>1. /\ Same(r) /\ UNCHANGED saved /\ req[r].op = "create" /\ req'[r].pc # "unsent"
    BY <1>3, <1>typ, MoveFacts DEF Insert, Shape
  <2>2. TrueNotice(r)'
    BY <2>1 DEF TrueNotice, Same
  <2> QED
    BY <1>one, <2>1, <2>2
<1>4. ASSUME NEW r \in Requests, Read(r) PROVE NoticeInv'
  <2>1. Same(r) /\ UNCHANGED <<saved, orders, outbox>> /\ req'[r].pc # "unsent"
    BY <1>4, MoveFacts DEF Read
  <2>2. TrueNotice(r)'
    <3>1. CASE orders[req[r].arg] \in {"ABSENT", "CANCELLED"} /\ Answer(r, Conflict)
      <4>1. req'[r].answer = Conflict
        BY <3>1, MoveFacts
      <4> QED
        BY <4>1 DEF TrueNotice, Conflict
    <3>2. CASE orders[req[r].arg] = "CONFIRMED" /\ Deliver(r, Ok(Nothing))
      <4>1. req'[r].answer = Ok(Nothing)
        BY <3>2, MoveFacts
      <4> QED
        BY <2>1, <3>2, <4>1 DEF TrueNotice, Notified, Ok, Same
    <3>3. CASE orders[req[r].arg] = "CREATED" /\ Goto(r, "confirm")
      <4>1. req'[r].pc = "confirm"
        BY <3>3, MoveFacts
      <4> QED
        BY <4>1 DEF TrueNotice
    <3> QED
      BY <1>4, <3>1, <3>2, <3>3 DEF Read
  <2> QED
    BY <1>one, <2>1, <2>2
<1>5. ASSUME NEW r \in Requests, Confirm(r) PROVE NoticeInv'
  <2>1. /\ Same(r) /\ UNCHANGED saved /\ req'[r].pc # "unsent"
        /\ req'[r].answer \in {Ok(r), Error} /\ req[r].arg \in Orders
    BY <1>5, <1>typ, MoveFacts DEF Confirm, Shape, IsAsked
  <2>2. orders'[req[r].arg] = "CONFIRMED" /\ outbox'[r] = req[r].arg
    BY <1>5, <1>typ, <2>1 DEF Confirm, TypeInv, StoreOK
  <2>3. TrueNotice(r)'
    BY <2>1, <2>2 DEF TrueNotice, Notified, Ok, Error, Same
  <2> QED
    BY <1>one, <2>1, <2>3
<1>6. ASSUME NEW r \in Requests, Save(r) PROVE NoticeInv'
  <2> DEFINE q == req[r]
             row == [hash |-> Hash(q), answer |-> q.answer]
             slot == <<q.key, Scope(q)>>
  <2>1. /\ q.pc = "save" /\ q.answer.code = "ok" /\ q.op # "none"
        /\ slot \in Keys \X Scopes /\ (q.op = "create" <=> Scope(q) = "POST:/orders")
        /\ Same(r) /\ req'[r].answer \in {q.answer, Error} /\ req'[r].pc = "done"
        /\ saved' = [saved EXCEPT ![slot] = row]
        /\ UNCHANGED <<orders, outbox>>
    BY <1>6, <1>typ, MoveFacts, CacheSlot DEF Save, Shape, IsAsked
  <2>2. TrueNotice(r)
    BY DEF NoticeInv, NoticeIsTrue
  <2>3. TrueNotice(r)'
    BY <2>1, <2>2 DEF TrueNotice, Notified, Same, Error
  <2>4. NoticeIsTrue' /\ UnsentIsBlank'
    BY <2>1, <2>3, NoticeFrame DEF Same
  <2>5. AskedFor(slot, row.hash)
    BY <2>1 DEF AskedFor, Slot
  <2>6. slot[2] \in Orders => Notified(slot[2], q.answer.value)
    BY <1>typ, <2>1, <2>2, ApiConstants DEF TrueNotice, Scope, Shape, IsAsked
  <2>7. SavedIsAsked'
    <3> SUFFICES ASSUME NEW s \in Keys \X Scopes, saved'[s] # Nothing
                 PROVE  /\ saved'[s].answer.code = "ok"
                        /\ AskedFor(s, saved[s].hash)'
                        /\ s[2] \in Orders => Notified(s[2], saved[s].answer.value)'
      BY DEF SavedIsAsked, AskedFor, Notified
    <3>1. PICK new \in {row, saved[s]} :
             /\ saved'[s] = new
             /\ new.answer.code = "ok" /\ AskedFor(s, new.hash)
             /\ s[2] \in Orders => Notified(s[2], new.answer.value)
      <4>1. CASE s = slot
        <5>1. saved'[s] = row
          BY <1>typ, <2>1, <4>1
        <5> QED
          BY <2>1, <2>5, <2>6, <4>1, <5>1
      <4>2. CASE s # slot
        <5>1. saved'[s] = saved[s]
          BY <1>typ, <2>1, <4>2
        <5> QED
          BY <5>1 DEF NoticeInv, SavedIsAsked
      <4> QED
        BY <4>1, <4>2
    <3>2. \A h : AskedFor(s, h) => AskedFor(s, h)'
      BY StepMonotone, AskedStays
    <3>3. \A v : s[2] \in Orders /\ Notified(s[2], v) => Notified(s[2], v)'
      BY NoticeStays
    <3> QED
      BY <3>1, <3>2, <3>3 DEF AskedFor, Notified
  <2> QED
    BY <2>4, <2>7 DEF NoticeInv
<1>7. ASSUME NEW r \in Requests, CallFails(r) PROVE NoticeInv'
  <2>1. Same(r) /\ UNCHANGED saved /\ req'[r].answer = Error /\ req'[r].pc # "unsent"
    BY <1>7, MoveFacts DEF CallFails
  <2>2. TrueNotice(r)'
    BY <2>1 DEF TrueNotice, Error
  <2> QED
    BY <1>one, <2>1, <2>2
<1>8. ASSUME UNCHANGED vars PROVE NoticeInv'
  BY <1>8 DEF vars, NoticeInv, SavedIsAsked, AskedFor, Slot, Scope, Hash, NoticeIsTrue, TrueNotice,
     Notified, UnsentIsBlank, NotSent
<1> QED
  BY <1>1, <1>2, <1>3, <1>4, <1>5, <1>6, <1>7, <1>8 DEF Next

\* An answer 2xx is true when it is given: of the invariants, after the step.
LEMMA OkIsTruthful ==
    ASSUME TypeInv', TruthInv', NoticeInv', NEW r \in Requests,
           NEW a, a = req'[r].answer, Done(r)', a.code = "ok"
    PROVE  Service!Truthful(r, a)'
<1>1. /\ req'[r].pc = "done" /\ req'[r].op \in {"create", "confirm"}
      /\ req'[r].op = "confirm" => req'[r].arg \in Orders
  BY DEF Done, TypeInv, RequestsOK, Shape, IsAsked
<1>2. CASE req'[r].op = "create"
  <2>1. /\ a.value \in Requests /\ orders'[a.value] # "ABSENT"
        /\ req'[a.value].op = "create" /\ req'[a.value].arg = req'[r].arg
    BY <1>1, <1>2 DEF TruthInv, AnswerIsTrue, CreatedFrom
  <2> QED
    BY <1>2, <2>1 DEF Service!Truthful, Service!TrueCreate
<1>3. CASE req'[r].op = "confirm"
  <2>1. /\ orders'[req'[r].arg] = "CONFIRMED"
        /\ a.value # Nothing => a.value \in Requests /\ outbox'[a.value] = req'[r].arg
    BY <1>1, <1>3 DEF NoticeInv, NoticeIsTrue, TrueNotice, Notified
  <2> QED
    BY <1>3, <2>1 DEF Service!Truthful, Service!TrueConfirm
<1> QED
  BY <1>1, <1>2, <1>3

\* A 409 is deserved: of a step that answers without touching the database.
LEMMA ConflictIsTruthful ==
    ASSUME TypeInv, NoticeInv, NEW r \in Requests, Lookup(r) \/ Read(r),
           req'[r].pc = "done", req'[r].answer.code = "conflict"
    PROVE  Service!Truthful(r, Conflict)'
<1>typ. /\ \A v \in Requests : Shape(req[v])
        /\ saved \in [Keys \X Scopes -> Responses \cup {Nothing}]
  BY DEF TypeInv, RequestsOK, StoreOK
<1>1. /\ Same(r) /\ UNCHANGED <<orders, outbox>>
      /\ \A v \in Requests : /\ req'[v].op = req[v].op
                             /\ req'[v].key = req[v].key
                             /\ req'[v].arg = req[v].arg
  BY MoveFacts DEF Lookup, Read, Same
<1> SUFFICES \/ req[r].op = "create" /\ \E p \in Requests :
                   req[p].op = "create" /\ req[p].key = req[r].key /\ req[p].arg # req[r].arg
             \/ req[r].op = "confirm" /\ orders[req[r].arg] \in {"ABSENT", "CANCELLED"}
  BY <1>1 DEF Service!Truthful, Service!TrueConflict, Conflict
<1>2. CASE Lookup(r)
  <2> DEFINE q == req[r]
             row == saved[<<q.key, Scope(q)>>]
  <2>1. /\ q.pc = "lookup" /\ <<q.key, Scope(q)>> \in Keys \X Scopes
        /\ q.op = "create" <=> Scope(q) = "POST:/orders"
    BY <1>2, <1>typ, CacheSlot DEF Lookup
  <2>2. row # Nothing /\ (SameBody(row, q) => req'[r].answer = row.answer)
    BY <1>2, MoveFacts DEF Lookup, Work
  <2>3. row.answer.code = "ok" /\ AskedFor(<<q.key, Scope(q)>>, row.hash)
    BY <2>1, <2>2 DEF NoticeInv, SavedIsAsked
  <2>4. row.hash # Hash(q)
    BY <2>2, <2>3 DEF SameBody
  <2>5. PICK p \in Requests : /\ req[p].op # "none" /\ Slot(req[p]) = <<q.key, Scope(q)>>
                              /\ Hash(req[p]) = row.hash
    BY <2>3 DEF AskedFor
  <2>6. req[p].key = q.key /\ Scope(req[p]) = Scope(q)
    BY <2>5 DEF Slot
  <2>7. (req[p].op = "create" <=> Scope(req[p]) = "POST:/orders") /\ req[p].pc # "unsent"
    BY <1>typ, <2>5, CacheSlot DEF Shape
  <2>8. CASE q.op = "create"
    BY <2>1, <2>4, <2>5, <2>6, <2>7, <2>8 DEF Hash
  <2>9. CASE q.op # "create"
    BY <2>1, <2>4, <2>5, <2>6, <2>7, <2>9 DEF Hash
  <2> QED
    BY <2>8, <2>9
<1>3. CASE Read(r)
  <2>1. req[r].op = "confirm"
    BY <1>3, <1>typ DEF Read, Shape
  <2>2. orders[req[r].arg] \in {"ABSENT", "CANCELLED"}
    BY <1>3, MoveFacts DEF Read, Ok
  <2> QED
    BY <2>1, <2>2
<1> QED
  BY <1>2, <1>3

\* What clients see of a request that is served.
Asks(r) == [op |-> req[r].op, key |-> req[r].key, arg |-> req[r].arg]
Told(r) == IF Done(r) THEN req[r].answer ELSE Pending

\* A step that moves one request that has arrived and is not done serves it, if
\* what it does to the database is an effect, and what it answers is true.
LEMMA ServiceFrame ==
    ASSUME TypeInv, TypeInv', NoticeInv, NEW r \in Requests, Same(r), UNCHANGED prior,
           req[r].pc \notin {"unsent", "done"},
           \/ UNCHANGED <<orders, outbox>>
           \/ ~Service!Repeated(r) /\ (Service!Create(r) \/ Service!Confirm(r)),
           \A a : Done(r)' /\ a = req'[r].answer => Service!Truthful(r, a)'
    PROVE  Service!Next
<1>typ. \A v \in Requests : Shape(req[v]) /\ req'[v] \in RequestType /\ Shape(req'[v])
  BY DEF TypeInv, RequestsOK, Shape
<1>1. \A v \in Requests : Asks(v)' = Asks(v)
  BY DEF Same, Asks
<1>2. \A v \in Requests : v # r => Told(v)' = Told(v)
  BY DEF Same, Told, Done
<1>3. Told(r) = Pending
  BY DEF Told, Done
<1>4. Asks(r) # Service!Unasked
  BY <1>typ DEF Asks, Service!Unasked, Shape, IsAsked
<1>5. Service!Open(r)
  BY <1>3, <1>4 DEF Service!Open, Asks, Told
<1>6. UNCHANGED [v \in Requests |-> Asks(v)]
  BY <1>1
<1>7. CASE Done(r)'
  <2>1. PICK a : a = req'[r].answer
    OBVIOUS
  <2>2. a \in Answers /\ Service!Truthful(r, a)'
    BY <1>7, <1>typ, <2>1 DEF Done, Shape
  <2>3. [v \in Requests |-> Told(v)'] = [[v \in Requests |-> Told(v)] EXCEPT ![r] = a]
    BY <1>2, <1>7, <2>1 DEF Told
  <2>4. Service!Serve(r)
    BY <1>5, <1>6, <2>2, <2>3 DEF Service!Serve, Asks, Told
  <2> QED
    BY <2>4 DEF Service!Next
<1>8. CASE ~Done(r)'
  <2>1. Told(r)' = Pending
    BY <1>8 DEF Told
  <2>2. UNCHANGED [v \in Requests |-> Told(v)]
    BY <1>2, <1>3, <2>1
  <2>3. Service!Serve(r)
    BY <1>5, <1>6, <2>2 DEF Service!Serve, Asks, Told
  <2> QED
    BY <2>3 DEF Service!Next
<1> QED
  BY <1>7, <1>8

\* A request that has passed the cache repeats nothing that was answered 2xx.
LEMMA ServedIsNew ==
    ASSUME TypeInv, ConfirmInv, CacheInv, NEW r \in Requests,
           req[r].pc \notin {"lookup", "done"}
    PROVE  ~Service!Repeated(r)
<1> SUFFICES ASSUME NEW p \in prior[r], Asks(r).key # NoKey, Asks(p) = Asks(r),
                    Told(p).code = "ok"
             PROVE  FALSE
  <2>1. prior[r] \subseteq Requests
    BY DEF TypeInv, StoreOK
  <2> QED
    BY <2>1 DEF Service!Repeated, Asks, Told
<1>1. p \in Requests /\ Done(p)
  BY DEF TypeInv, StoreOK, ConfirmInv, PriorOK
<1>2. req[p].answer.code = "ok"
  BY <1>1 DEF Told
<1>3. Repeats(p, r)
  BY <1>1 DEF Repeats, Asks
<1> QED
  BY <1>1, <1>2, <1>3 DEF CacheInv, RepeatIsCached

\* A request arrives: what it asks is new, and so is what it knows of others.
LEMMA ArriveIsArrive ==
    ASSUME TypeInv, NoticeInv, NEW r \in Requests, NEW q \in Asked, Arrive(r, q)
    PROVE  Service!Arrive(r, q)
<1>typ. /\ req \in [Requests -> RequestType]
        /\ prior \in [Requests -> SUBSET Requests]
        /\ \A v \in Requests : Shape(req[v])
  BY DEF TypeInv, RequestsOK, StoreOK
<1>1. /\ req[r] = NotSent /\ req'[r].pc \in {"lookup", "insert", "read"}
      /\ req'[r].op = q.op /\ req'[r].key = q.key /\ req'[r].arg = q.arg
      /\ \A v \in Requests : v # r => req'[v] = req[v]
      /\ UNCHANGED <<orders, outbox>>
  BY <1>typ DEF Arrive, NoticeInv, UnsentIsBlank, Work
<1>2. Asks(r) = Service!Unasked
  BY <1>1 DEF Asks, Service!Unasked, NotSent
<1>3. [v \in Requests |-> Asks(v)'] = [[v \in Requests |-> Asks(v)] EXCEPT ![r] = q]
  <2>1. Asks(r)' = q
    BY <1>1 DEF Asks, Asked
  <2>2. \A v \in Requests : v # r => Asks(v)' = Asks(v)
    BY <1>1 DEF Asks
  <2> QED
    BY <2>1, <2>2
<1>4. UNCHANGED [v \in Requests |-> Told(v)]
  <2>1. \A v \in Requests : Told(v)' = Told(v)
    BY <1>1 DEF Told, Done, NotSent
  <2> QED
    BY <2>1
<1>5. \A p \in Requests : Done(p) <=> Told(p) # Pending
  BY <1>typ DEF Told, Done, Shape, Answers, Pending
<1>6. prior' = [prior EXCEPT ![r] = {p \in Requests : Told(p) # Pending}]
  <2>1. {p \in Requests : Done(p)} = {p \in Requests : Told(p) # Pending}
    BY <1>5
  <2> QED
    BY <2>1 DEF Arrive
<1> QED
  BY <1>1, <1>2, <1>3, <1>4, <1>6 DEF Service!Arrive, Asks, Told

LEMMA StepService ==
    ASSUME TypeInv, TypeInv', ConfirmInv, CacheInv, TruthInv', NoticeInv, NoticeInv', [Next]_vars
    PROVE  [Service!Next]_(Service!vars)
<1>typ. /\ \A v \in Requests : Shape(req[v])
        /\ \A v \in Requests : req'[v].pc = "done" => req'[v].answer \in Answers
  BY DEF TypeInv, RequestsOK, Shape
<1>ok. ASSUME NEW r \in Requests, Done(r)', req'[r].answer.code = "ok"
       PROVE  \A a : a = req'[r].answer => Service!Truthful(r, a)'
  BY <1>ok, OkIsTruthful
<1>err. ASSUME NEW r \in Requests, req'[r].answer = Error
        PROVE  \A a : a = req'[r].answer => Service!Truthful(r, a)'
  BY <1>err DEF Service!Truthful, Error
<1>1. ASSUME NEW r \in Requests, NEW q \in Asked, Arrive(r, q) PROVE Service!Next
  BY <1>1, ArriveIsArrive DEF Service!Next
<1>2. ASSUME NEW r \in Requests, Lookup(r) \/ Read(r) PROVE Service!Next
  <2>1. Same(r) /\ UNCHANGED <<orders, outbox, prior>> /\ req[r].pc \notin {"unsent", "done"}
    BY <1>2, MoveFacts DEF Lookup, Read
  <2>2. ASSUME NEW a, Done(r)', a = req'[r].answer PROVE Service!Truthful(r, a)'
    <3>1. CASE a.code = "ok"
      BY <1>ok, <2>2, <3>1
    <3>2. CASE a.code = "conflict"
      <4>1. Service!Truthful(r, Conflict)'
        BY <1>2, <2>2, <3>2, ConflictIsTruthful DEF Done
      <4> QED
        BY <3>2, <4>1 DEF Service!Truthful, Conflict
    <3>3. CASE a.code = "error"
      BY <3>3 DEF Service!Truthful
    <3>4. a.code \in {"ok", "conflict", "error"}
      BY <1>typ, <2>2 DEF Done, Answers
    <3> QED
      BY <3>1, <3>2, <3>3, <3>4
  <2> QED
    BY <2>1, <2>2, ServiceFrame
<1>3. ASSUME NEW r \in Requests, Insert(r) PROVE Service!Next
  <2>1. /\ Same(r) /\ UNCHANGED prior /\ req[r].pc = "insert"
        /\ req'[r].answer \in {Ok(r), Error} /\ req[r].op = "create"
    BY <1>3, <1>typ, MoveFacts DEF Insert, Shape
  <2>2. Service!Create(r)
    BY <1>3, <2>1 DEF Insert, ConfirmInv, EffectOK, Service!Create
  <2>3. ~Service!Repeated(r)
    BY <2>1, ServedIsNew
  <2>4. \A a : Done(r)' /\ a = req'[r].answer => Service!Truthful(r, a)'
    BY <1>ok, <1>err, <2>1 DEF Ok
  <2> QED
    BY <2>1, <2>2, <2>3, <2>4, ServiceFrame
<1>4. ASSUME NEW r \in Requests, Confirm(r) PROVE Service!Next
  <2>1. /\ Same(r) /\ UNCHANGED prior /\ req[r].pc = "confirm"
        /\ req'[r].answer \in {Ok(r), Error} /\ req[r].op = "confirm"
    BY <1>4, <1>typ, MoveFacts DEF Confirm, Shape
  <2>2. /\ outbox[r] = Nothing /\ orders[req[r].arg] \in {"CREATED", "CONFIRMED"}
        /\ \A p \in prior[r] : outbox[p] # req[r].arg
    BY <2>1 DEF ConfirmInv, EffectOK, OverlapOK, TypeInv, StoreOK
  <2>3. Service!Confirm(r)
    BY <1>4, <2>1, <2>2 DEF Confirm, Service!Confirm
  <2>4. ~Service!Repeated(r)
    BY <2>1, ServedIsNew
  <2>5. \A a : Done(r)' /\ a = req'[r].answer => Service!Truthful(r, a)'
    BY <1>ok, <1>err, <2>1 DEF Ok
  <2> QED
    BY <2>1, <2>3, <2>4, <2>5, ServiceFrame
<1>5. ASSUME NEW r \in Requests, Save(r) PROVE Service!Next
  <2>1. /\ Same(r) /\ UNCHANGED <<orders, outbox, prior>> /\ req[r].pc = "save"
        /\ req'[r].answer.code = "ok" \/ req'[r].answer = Error
    BY <1>5, <1>typ, MoveFacts DEF Save, Shape
  <2> QED
    BY <1>ok, <1>err, <2>1, ServiceFrame
<1>6. ASSUME NEW r \in Requests, CallFails(r) PROVE Service!Next
  <2>1. /\ Same(r) /\ UNCHANGED <<orders, outbox, prior>> /\ req'[r].answer = Error
        /\ req[r].pc \notin {"unsent", "done"}
    BY <1>6, MoveFacts DEF CallFails
  <2> QED
    BY <1>err, <2>1, ServiceFrame
<1>7. ASSUME UNCHANGED vars PROVE UNCHANGED Service!vars
  BY <1>7 DEF vars, Service!vars, Done
<1> QED
  BY <1>1, <1>2, <1>3, <1>4, <1>5, <1>6, <1>7 DEF Next

LEMMA InitService == Init => Service!Init
  BY ApiConstants DEF Init, Service!Init, Service!Unasked, NotSent, Done, Orders, Status, Pending

\* Clients see a service that takes each request up in one step or not at all,
\* never takes up again what it has answered, and answers only what is true of
\* the database: the cache, the two calls of a confirmation, the races between
\* requests and the calls that fail are invisible.
THEOREM ImplementsService == Spec => ServiceSpec
<1>1. Init => CacheInv
  BY DEF Init, CacheInv, AnsweredIsSaved, RepeatIsCached, Done, Repeats, NotSent
<1>2. TypeInv /\ TypeInv' /\ ConfirmInv /\ CacheInv /\ [Next]_vars => CacheInv'
  BY StepAnsweredIsSaved, StepRepeatIsCached DEF CacheInv
<1>3. TypeInv /\ TypeInv' /\ ConfirmInv /\ CacheInv /\ TruthInv' /\ NoticeInv /\ NoticeInv'
         /\ [Next]_vars => [Service!Next]_(Service!vars)
  BY StepService
<1> QED
  BY <1>1, <1>2, <1>3, InitService, InitTypeInv, StepTypeInv, InitConfirmInv, StepConfirmInv,
     InitTruthInv, StepTruthInv, InitNoticeInv, StepNoticeInv, PTL
     DEF Spec, ServiceSpec, Service!Spec
=============================================================================

------------------------ MODULE RequestMetricsProofs ------------------------
(***************************************************************************)
(* Theorems about RequestMetrics, for any finite set of requests, any      *)
(* handlers, users and addresses, and any limit.                           *)
(***************************************************************************)
EXTENDS RequestMetrics, SumTheorems

-----------------------------------------------------------------------------
(* Types. *)

Places == {"unsent", "guard", "handler", "finalize", "respond", "done"}
Errors == (Statuses \ {200, 201}) \cup {Unexpected, None}

\* What a step may do to a request, one conjunct of TypeOK at a time.
LEMMA MoveTypes ==
    ASSUME NEW r \in Requests, NEW there \in Places, Goto(r, there),
           pc \in [Requests -> Places]
    PROVE  pc' \in [Requests -> Places]
  BY DEF Goto

LEMMA ThrowTypes ==
    ASSUME NEW r \in Requests, NEW e \in Errors, Throw(r, e),
           error \in [Requests -> Errors]
    PROVE  error' \in [Requests -> Errors]
  BY DEF Throw

LEMMA CountTypes ==
    ASSUME NEW route \in Routes, NEW s \in Statuses, Count(route, s),
           counter \in [Routes \X Statuses -> Nat]
    PROVE  counter' \in [Routes \X Statuses -> Nat]
  <1>1. <<route, s>> \in Routes \X Statuses
    OBVIOUS
  <1>2. counter[<<route, s>>] + 1 \in Nat
    BY <1>1
  <1>3. QED
    BY <1>1, <1>2 DEF Count

\* A key that has reached the limit is blocked by its next hit, so hits stay
\* within it, if a key that is over the limit is blocked.
OverIsBlocked == \A k \in Keys : hits[k] > Limit => k \in blocked

StorageOK == /\ hits \in [Keys -> 0..Limit + 1]
             /\ blocked \subseteq Keys
             /\ OverIsBlocked

LEMMA IncrementKeepsStorage ==
    ASSUME StorageOK, NEW k \in Keys, Increment(k)
    PROVE  StorageOK'
  <1>1. Limit \in Nat
    BY RequestConstants
  <1>2. CASE k \in blocked
    BY <1>2 DEF Increment, StorageOK, OverIsBlocked
  <1>3. CASE k \notin blocked
    <2>1. hits[k] \in Nat /\ hits[k] <= Limit
      BY <1>1, <1>3 DEF StorageOK, OverIsBlocked
    <2>2. hits[k] + 1 \in 0..Limit + 1
      BY <1>1, <2>1
    <2>3. hits' = [hits EXCEPT ![k] = hits[k] + 1]
      BY <1>3 DEF Increment
    <2>4. blocked' = IF hits[k] + 1 > Limit THEN blocked \cup {k} ELSE blocked
      BY <1>3 DEF Increment
    <2>5. hits' \in [Keys -> 0..Limit + 1]
      BY <2>2, <2>3 DEF StorageOK
    <2>6. blocked' \subseteq Keys
      BY <2>4 DEF StorageOK
    <2>7. \A m \in Keys : hits'[m] > Limit => m \in blocked'
      <3>1. TAKE m \in Keys
      <3>2. CASE m = k
        BY <2>3, <2>4, <3>2 DEF StorageOK
      <3>3. CASE m # k
        BY <2>3, <2>4, <3>3 DEF StorageOK, OverIsBlocked
      <3>4. QED
        BY <3>2, <3>3
    <2>8. QED
      BY <2>5, <2>6, <2>7 DEF StorageOK, OverIsBlocked
  <1>4. QED
    BY <1>2, <1>3

LEMMA WindowKeepsStorage ==
    ASSUME StorageOK, NEW k \in Keys, WindowMoves(k)
    PROVE  /\ StorageOK'
           /\ blocked' \subseteq blocked
           /\ \A m \in Keys : hits'[m] <= hits[m]
  <1>1. Limit \in Nat
    BY RequestConstants
  <1>2. hits[k] \in Nat /\ hits[k] <= Limit + 1 /\ hits[k] > 0
    BY <1>1 DEF StorageOK, WindowMoves
  <1>3. PICK h \in 0..Limit + 1 : h <= hits[k] /\ hits' = [hits EXCEPT ![k] = h]
                                 /\ (h = 0 \/ blocked' = blocked)
    <2>1. hits[k] - 1 \in 0..Limit + 1 /\ hits[k] - 1 <= hits[k] /\ 0 \in 0..Limit + 1
      BY <1>1, <1>2
    <2>2. QED
      BY <1>2, <2>1 DEF WindowMoves
  <1>4. blocked' = blocked \/ (blocked' = blocked \ {k} /\ h = 0)
    <2>1. CASE blocked' = blocked
      BY <2>1
    <2>2. CASE blocked' # blocked
      <3>1. blocked' = blocked \ {k}
        BY <2>2 DEF WindowMoves
      <3>2. QED
        BY <1>3, <2>2, <3>1
    <2>3. QED
      BY <2>1, <2>2
  <1>5. \A m \in Keys : hits'[m] = IF m = k THEN h ELSE hits[m]
    BY <1>3 DEF StorageOK
  <1>6. \A m \in Keys : hits'[m] <= hits[m]
    BY <1>1, <1>3, <1>5 DEF StorageOK
  <1>7. hits' \in [Keys -> 0..Limit + 1]
    BY <1>3 DEF StorageOK
  <1>8. OverIsBlocked'
    <2>1. SUFFICES ASSUME NEW m \in Keys, hits'[m] > Limit PROVE m \in blocked'
      BY DEF OverIsBlocked
    <2>2. hits[m] > Limit /\ hits'[m] # 0
      BY <1>1, <1>6, <1>7, <2>1 DEF StorageOK
    <2>3. m \in blocked
      BY <2>2 DEF StorageOK, OverIsBlocked
    <2>4. CASE blocked' = blocked
      BY <2>3, <2>4
    <2>5. CASE blocked' = blocked \ {k} /\ h = 0
      BY <1>5, <2>2, <2>3, <2>5
    <2>6. QED
      BY <1>4, <2>4, <2>5
  <1>9. QED
    BY <1>4, <1>6, <1>7, <1>8 DEF StorageOK

\* Only requests with a route get as far as the guard.
Routed == \A r \in Requests : pc[r] \in {"guard", "handler", "finalize"} => RouteOf[r] \in Handlers

IInv == TypeOK /\ OverIsBlocked /\ Routed

LEMMA StorageOfIInv == IInv => StorageOK
  BY DEF IInv, TypeOK, StorageOK

LEMMA InitIInv == Init => IInv
  <1>1. SUFFICES ASSUME Init PROVE IInv
    OBVIOUS
  <1>2. 0 \in 0..Limit + 1 /\ Limit \in Nat
    BY RequestConstants
  <1>3. StorageOK
    BY <1>1, <1>2 DEF Init, StorageOK, OverIsBlocked
  <1>4. QED
    BY <1>1, <1>3 DEF Init, IInv, TypeOK, StorageOK, Routed, Statuses

LEMMA ReceiveStep ==
    ASSUME IInv, NEW r \in Requests, Receive(r)
    PROVE  IInv'
  <1>1. error' \in [Requests -> Errors]
    <2>1. error \in [Requests -> Errors] /\ 404 \in Errors
      BY DEF IInv, TypeOK, Errors, Statuses
    <2>2. QED
      BY <2>1, ThrowTypes DEF Receive
  <1>2. pc' \in [Requests -> Places]
    BY MoveTypes DEF Receive, IInv, TypeOK, Places
  <1>3. Routed'
    BY RequestConstants DEF Receive, Goto, IInv, TypeOK, Routed
  <1>4. TypeOK'
    BY <1>1, <1>2 DEF Receive, IInv, TypeOK, Errors, Places
  <1>5. OverIsBlocked'
    BY DEF Receive, IInv, OverIsBlocked
  <1>6. QED
    BY <1>3, <1>4, <1>5 DEF IInv

LEMMA GuardStep ==
    ASSUME IInv, NEW r \in Requests, Guard(r)
    PROVE  IInv'
  <1>1. Key(r) \in Keys
    BY DEF Keys
  <1>2. StorageOK'
    BY <1>1, StorageOfIInv, IncrementKeepsStorage DEF Guard
  <1>3. RouteOf[r] \in Handlers /\ PathOf[r] \in Routes
    BY DEF Guard, IInv, Routed, Routes
  <1>4. CASE Throttle(r)
    <2>1. counter' \in [Routes \X Statuses -> Nat]
      BY <1>3, <1>4, CountTypes DEF Throttle, IInv, TypeOK, Statuses
    <2>2. error' \in [Requests -> Errors]
      <3>1. error \in [Requests -> Errors] /\ 429 \in Errors
        BY DEF IInv, TypeOK, Errors, Statuses
      <3>2. QED
        BY <1>4, <3>1, ThrowTypes DEF Throttle
    <2>3. pc' \in [Requests -> Places]
      BY <1>4, MoveTypes DEF Throttle, IInv, TypeOK, Places
    <2>4. TypeOK'
      BY <1>2, <1>4, <2>1, <2>2, <2>3 DEF Guard, Throttle, IInv, TypeOK, StorageOK, Errors, Places
    <2>5. Routed'
      BY <1>4 DEF Throttle, Goto, IInv, TypeOK, Routed
    <2>6. QED
      BY <1>2, <2>4, <2>5 DEF IInv, StorageOK
  <1>5. CASE Admit(r)
    <2>1. status' \in [Requests -> Statuses]
      BY <1>5 DEF Admit, IInv, TypeOK, Statuses
    <2>2. pc' \in [Requests -> Places]
      BY <1>5, MoveTypes DEF Admit, IInv, TypeOK, Places
    <2>3. TypeOK'
      BY <1>2, <1>5, <2>1, <2>2 DEF Guard, Admit, IInv, TypeOK, StorageOK, Places
    <2>4. Routed'
      BY <1>3, <1>5 DEF Admit, Goto, IInv, TypeOK, Routed
    <2>5. QED
      BY <1>2, <2>3, <2>4 DEF IInv, StorageOK
  <1>6. QED
    BY <1>4, <1>5 DEF Guard

LEMMA HandleStep ==
    ASSUME IInv, NEW r \in Requests, Handle(r)
    PROVE  IInv' /\ error'[r] # 429
  <1>1. RouteOf[r] \in Handlers
    BY DEF Handle, IInv, Routed
  <1>2. PICK e \in ThrownBy[RouteOf[r]] \cup {None} : Throw(r, e)
    BY DEF Handle
  <1>3. e \in {400, 409, Unexpected, None}
    BY <1>1, RequestConstants
  <1>4. e \in Errors /\ e # 429
    BY <1>3, RequestConstants DEF Errors, Statuses
  <1>5. error \in [Requests -> Errors]
    BY DEF IInv, TypeOK, Errors
  <1>6. error' \in [Requests -> Errors]
    BY <1>2, <1>4, <1>5, ThrowTypes
  <1>7. error'[r] # 429
    BY <1>2, <1>4, <1>5 DEF Throw
  <1>8. pc' \in [Requests -> Places]
    BY MoveTypes DEF Handle, IInv, TypeOK, Places
  <1>9. TypeOK'
    BY <1>6, <1>8 DEF Handle, IInv, TypeOK, Errors, Places
  <1>10. Routed' /\ OverIsBlocked'
    BY <1>1 DEF Handle, Goto, IInv, TypeOK, Routed, OverIsBlocked
  <1>11. QED
    BY <1>7, <1>9, <1>10 DEF IInv

LEMMA FinalizeStep ==
    ASSUME IInv, NEW r \in Requests, Finalize(r)
    PROVE  IInv'
  <1>1. RouteOf[r] \in Handlers /\ RouteOf[r] \in Routes /\ status[r] \in Statuses
    BY DEF Finalize, IInv, TypeOK, Routed, Routes
  <1>2. counter' \in [Routes \X Statuses -> Nat]
    BY <1>1, CountTypes DEF Finalize, IInv, TypeOK
  <1>3. observed' \in [Handlers -> Nat]
    BY <1>1 DEF Finalize, IInv, TypeOK
  <1>4. pc' \in [Requests -> Places]
    BY MoveTypes DEF Finalize, IInv, TypeOK, Places
  <1>5. TypeOK'
    BY <1>2, <1>3, <1>4 DEF Finalize, IInv, TypeOK, Places
  <1>6. Routed' /\ OverIsBlocked'
    BY DEF Finalize, Goto, IInv, TypeOK, Routed, OverIsBlocked
  <1>7. QED
    BY <1>5, <1>6 DEF IInv

\* The end of a request, whichever way it is answered.
LEMMA AnswerStep ==
    ASSUME IInv, NEW r \in Requests, NEW s \in Statuses, NEW code \in Codes,
           answer' = [answer EXCEPT ![r] = [status |-> s, code |-> code]],
           status' \in [Requests -> Statuses],
           Goto(r, "done"),
           UNCHANGED <<error, counter, observed, hits, blocked>>
    PROVE  IInv'
  <1>1. answer' \in [Requests -> [status : Statuses, code : Codes] \cup {None}]
    BY DEF IInv, TypeOK
  <1>2. pc' \in [Requests -> Places]
    BY MoveTypes DEF IInv, TypeOK, Places
  <1>3. TypeOK'
    BY <1>1, <1>2 DEF IInv, TypeOK, Places
  <1>4. Routed' /\ OverIsBlocked'
    BY DEF Goto, IInv, TypeOK, Routed, OverIsBlocked
  <1>5. QED
    BY <1>3, <1>4 DEF IInv

LEMMA RespondStep ==
    ASSUME IInv, NEW r \in Requests, Respond(r)
    PROVE  IInv'
  <1>1. status[r] \in Statuses /\ status' \in [Requests -> Statuses]
    BY DEF Respond, IInv, TypeOK
  <1>2. "none" \in Codes
    BY DEF Codes
  <1>3. QED
    BY <1>1, <1>2, AnswerStep DEF Respond

LEMMA FilterStep ==
    ASSUME IInv, NEW r \in Requests, Filter(r)
    PROVE  IInv'
  <1> DEFINE s == IF error[r] = Unexpected THEN 500 ELSE error[r]
  <1>1. s \in Statuses
    BY DEF Filter, IInv, TypeOK, Statuses
  <1>2. CodeOf(s) \in Codes
    BY <1>1 DEF CodeOf, Codes, Statuses
  <1>3. /\ status' = [status EXCEPT ![r] = s]
        /\ answer' = [answer EXCEPT ![r] = [status |-> s, code |-> CodeOf(s)]]
        /\ Goto(r, "done")
        /\ UNCHANGED <<error, counter, observed, hits, blocked>>
    BY DEF Filter
  <1> HIDE DEF s
  <1>4. status' \in [Requests -> Statuses]
    BY <1>1, <1>3 DEF IInv, TypeOK
  <1>5. QED
    BY <1>1, <1>2, <1>3, <1>4, AnswerStep

LEMMA WindowStep ==
    ASSUME IInv, NEW k \in Keys, WindowMoves(k)
    PROVE  IInv'
  <1>1. StorageOK'
    BY StorageOfIInv, WindowKeepsStorage
  <1>2. QED
    BY <1>1 DEF WindowMoves, IInv, TypeOK, StorageOK, Routed

LEMMA StepIInv == IInv /\ [Next]_vars => IInv'
  <1>1. SUFFICES ASSUME IInv, [Next]_vars PROVE IInv'
    OBVIOUS
  <1>2. ASSUME NEW r \in Requests, Receive(r) \/ Step(r) PROVE IInv'
    BY <1>1, <1>2, ReceiveStep, GuardStep, HandleStep, FinalizeStep, RespondStep, FilterStep
       DEF Step
  <1>3. ASSUME NEW k \in Keys, WindowMoves(k) PROVE IInv'
    BY <1>1, <1>3, WindowStep
  <1>4. CASE UNCHANGED vars
    BY <1>1, <1>4 DEF vars, IInv, TypeOK, OverIsBlocked, Routed
  <1>5. QED
    BY <1>1, <1>2, <1>3, <1>4 DEF Next

\* Types; the throttler's storage never counts more than one hit over the limit.
THEOREM TypeCorrect == Spec => []TypeOK
  <1>1. IInv => TypeOK
    BY DEF IInv
  <1>2. QED
    BY <1>1, InitIInv, StepIInv, PTL DEF Spec

-----------------------------------------------------------------------------
(* A user is throttled for his own requests only. *)

\* The requests under a key that the guard has let through or thrown at.
Past(k) == {q \in Requests : Key(q) = k /\ pc[q] \notin {"unsent", "guard"}}

\* A hit is a request, a key is blocked at the limit, and whoever is throttled
\* found it so.
HitsArePast == \A k \in Keys : hits[k] <= Cardinality(Past(k))
BlockedWasFull == \A k \in blocked : Cardinality(Past(k)) >= Limit
ThrottledWasFull == \A r \in Throttled : Cardinality(Past(Key(r)) \ {r}) >= Limit

AccountInv == HitsArePast /\ BlockedWasFull /\ ThrottledWasFull

LEMMA PastIsFinite ==
    ASSUME NEW k
    PROVE  IsFiniteSet(Past(k)) /\ Cardinality(Past(k)) \in Nat
  <1>1. Past(k) \subseteq Requests
    BY DEF Past
  <1>2. QED
    BY <1>1, RequestConstants, FS_Subset, FS_CardinalityType

LEMMA MoreRequests ==
    ASSUME NEW S, NEW T \in SUBSET Requests, S \subseteq T
    PROVE  Cardinality(S) <= Cardinality(T) /\ Cardinality(S) \in Nat /\ Cardinality(T) \in Nat
  <1>1. IsFiniteSet(T)
    BY RequestConstants, FS_Subset
  <1>2. QED
    BY <1>1, FS_Subset, FS_CardinalityType

\* A step that counts no hit and throttles nobody.
LEMMA AccountFrame ==
    ASSUME AccountInv, StorageOK, StorageOK',
           \A q \in Requests : pc[q] \notin {"unsent", "guard"} => pc'[q] \notin {"unsent", "guard"},
           \A k \in Keys : hits'[k] <= hits[k],
           blocked' \subseteq blocked,
           Throttled' \subseteq Throttled
    PROVE  AccountInv'
  <1>1. \A k : Past(k) \subseteq Past(k)'
    BY DEF Past
  <1>2. \A k : Past(k)' \in SUBSET Requests
    BY DEF Past
  <1>3. Limit \in Nat
    BY RequestConstants
  <1>4. HitsArePast'
    <2>1. SUFFICES ASSUME NEW k \in Keys PROVE hits'[k] <= Cardinality(Past(k)')
      BY DEF HitsArePast
    <2>2. hits[k] <= Cardinality(Past(k)) /\ hits'[k] <= hits[k] /\ hits[k] \in Nat /\ hits'[k] \in Nat
      BY <1>3 DEF AccountInv, HitsArePast, StorageOK
    <2>3. /\ Cardinality(Past(k)) <= Cardinality(Past(k)')
          /\ Cardinality(Past(k)) \in Nat /\ Cardinality(Past(k)') \in Nat
      BY <1>1, <1>2, MoreRequests
    <2>4. QED
      BY <2>2, <2>3
  <1>5. BlockedWasFull'
    <2>1. SUFFICES ASSUME NEW k \in blocked' PROVE Cardinality(Past(k)') >= Limit
      BY DEF BlockedWasFull
    <2>2. Cardinality(Past(k)) >= Limit
      BY <2>1 DEF AccountInv, BlockedWasFull
    <2>3. /\ Cardinality(Past(k)) <= Cardinality(Past(k)')
          /\ Cardinality(Past(k)) \in Nat /\ Cardinality(Past(k)') \in Nat
      BY <1>1, <1>2, MoreRequests
    <2>4. QED
      BY <1>3, <2>2, <2>3
  <1>6. ThrottledWasFull'
    <2>1. SUFFICES ASSUME NEW r \in Throttled' PROVE Cardinality(Past(Key(r))' \ {r}) >= Limit
      BY DEF ThrottledWasFull, Key, Tracker
    <2>2. Cardinality(Past(Key(r)) \ {r}) >= Limit
      BY <2>1 DEF AccountInv, ThrottledWasFull
    <2>3. /\ Past(Key(r)) \ {r} \subseteq Past(Key(r))' \ {r}
          /\ Past(Key(r))' \ {r} \in SUBSET Requests
      BY <1>1, <1>2
    <2>4. /\ Cardinality(Past(Key(r)) \ {r}) <= Cardinality(Past(Key(r))' \ {r})
          /\ Cardinality(Past(Key(r)) \ {r}) \in Nat /\ Cardinality(Past(Key(r))' \ {r}) \in Nat
      BY <2>3, MoreRequests
    <2>5. QED
      BY <1>3, <2>2, <2>4
  <1>7. QED
    BY <1>4, <1>5, <1>6 DEF AccountInv

LEMMA HitsOfStorage ==
    ASSUME StorageOK, NEW k \in Keys
    PROVE  hits[k] \in Nat /\ Limit \in Nat
  BY RequestConstants DEF StorageOK

\* What the guard does to the requests past it: its own joins them.
LEMMA GuardMoves ==
    ASSUME IInv, NEW r \in Requests, Guard(r)
    PROVE  /\ r \notin Past(Key(r))
           /\ Past(Key(r))' = Past(Key(r)) \cup {r}
           /\ \A k : k # Key(r) => Past(k)' = Past(k)
           /\ Throttled' \subseteq Throttled \cup {r}
           /\ r \in Throttled' => r \in Throttled \/ Key(r) \in blocked'
  <1>1. pc \in [Requests -> Places] /\ error \in [Requests -> Errors]
    BY DEF IInv, TypeOK, Places, Errors
  <1>2. pc[r] = "guard"
    BY DEF Guard
  <1>3. pc'[r] \in {"respond", "handler"} /\ \A q \in Requests \ {r} : pc'[q] = pc[q]
    BY <1>1 DEF Guard, Throttle, Admit, Goto
  <1>4. \A k, q : Key(q) = k <=> (Key(q) = k)'
    BY DEF Key, Tracker
  <1>5. r \notin Past(Key(r))
    BY <1>2 DEF Past
  <1>6. Past(Key(r))' = Past(Key(r)) \cup {r}
    BY <1>3 DEF Past, Key, Tracker
  <1>7. \A k : k # Key(r) => Past(k)' = Past(k)
    BY <1>3 DEF Past, Key, Tracker
  <1>8. CASE Throttle(r)
    <2>1. \A q \in Requests \ {r} : error'[q] = error[q]
      BY <1>1, <1>8 DEF Throttle, Throw
    <2>2. Key(r) \in blocked'
      BY <1>3, <1>8, <1>1 DEF Guard, Throttle, Admit, Goto
    <2>3. QED
      BY <1>5, <1>6, <1>7, <2>1, <2>2 DEF Throttled
  <1>9. CASE Admit(r)
    BY <1>5, <1>6, <1>7, <1>9 DEF Admit, Throttled
  <1>10. QED
    BY <1>5, <1>6, <1>7, <1>8, <1>9 DEF Guard

\* The guard counts a hit and lets the request pass, in one step, and throttles
\* it only when the key was full without it.
LEMMA GuardAccount ==
    ASSUME IInv, AccountInv, NEW r \in Requests, Guard(r)
    PROVE  AccountInv'
  <1> DEFINE k == Key(r)
             P == Past(k)
  <1>1. k \in Keys
    BY DEF Keys
  <1>2. StorageOK /\ StorageOK'
    BY <1>1, StorageOfIInv, IncrementKeepsStorage DEF Guard
  <1>3. Increment(k)
    BY DEF Guard
  <1>4. IsFiniteSet(P) /\ Cardinality(P) \in Nat
    BY PastIsFinite
  <1>5. /\ r \notin P
        /\ Past(k)' = P \cup {r}
        /\ \A m : m # k => Past(m)' = Past(m)
        /\ Throttled' \subseteq Throttled \cup {r}
        /\ r \in Throttled' => r \in Throttled \/ k \in blocked'
    BY GuardMoves
  <1>6. Cardinality(Past(k)') = Cardinality(P) + 1
    BY <1>4, <1>5, FS_AddElement
  <1>7. hits[k] \in Nat /\ Limit \in Nat /\ hits[k] <= Cardinality(P)
    BY <1>1, <1>2, HitsOfStorage DEF AccountInv, HitsArePast
  <1>8. k \in blocked' => Cardinality(P) >= Limit
    <2>1. CASE k \in blocked
      BY <2>1 DEF AccountInv, BlockedWasFull
    <2>2. CASE k \notin blocked
      <3>1. k \in blocked' => hits[k] + 1 > Limit
        BY <1>3, <2>2 DEF Increment
      <3>2. QED
        BY <1>4, <1>7, <3>1
    <2>3. QED
      BY <2>1, <2>2
  <1>9. \A m \in Keys : m # k => hits'[m] = hits[m]
    BY <1>2, <1>3 DEF Increment, StorageOK
  <1>10. hits'[k] <= hits[k] + 1
    BY <1>1, <1>2, <1>3, <1>7 DEF Increment, StorageOK
  <1>11. blocked' \subseteq blocked \cup {k}
    BY <1>3 DEF Increment
  <1>12. hits'[k] \in Nat
    BY <1>1, <1>2, <1>7 DEF StorageOK
  <1>13. \A m : Past(m) \subseteq Past(m)'
    <2>1. TAKE m
    <2>2. CASE m = k
      BY <1>5, <2>2
    <2>3. CASE m # k
      BY <1>5, <2>3
    <2>4. QED
      BY <2>2, <2>3
  <1> HIDE DEF k, P
  <1>14. HitsArePast'
    <2>1. SUFFICES ASSUME NEW m \in Keys PROVE hits'[m] <= Cardinality(Past(m)')
      BY DEF HitsArePast, Keys, Key, Tracker
    <2>2. CASE m = k
      BY <1>4, <1>6, <1>7, <1>10, <1>12, <2>2
    <2>3. CASE m # k
      BY <1>5, <1>9, <2>3 DEF AccountInv, HitsArePast
    <2>4. QED
      BY <2>2, <2>3
  <1>15. BlockedWasFull'
    <2>1. SUFFICES ASSUME NEW m \in blocked' PROVE Cardinality(Past(m)') >= Limit
      BY DEF BlockedWasFull
    <2>2. CASE m = k
      BY <1>4, <1>6, <1>7, <1>8, <2>1, <2>2
    <2>3. CASE m # k
      BY <1>5, <1>11, <2>1, <2>3 DEF AccountInv, BlockedWasFull
    <2>4. QED
      BY <2>2, <2>3
  <1>16. ThrottledWasFull'
    <2>1. SUFFICES ASSUME NEW q \in Throttled' PROVE Cardinality(Past(Key(q))' \ {q}) >= Limit
      BY DEF ThrottledWasFull, Key, Tracker
    <2>2. CASE q \in Throttled
      <3>1. Cardinality(Past(Key(q)) \ {q}) >= Limit
        BY <2>2 DEF AccountInv, ThrottledWasFull
      <3>2. Past(Key(q)) \subseteq Past(Key(q))'
        BY <1>13 DEF Key, Tracker
      <3>3. Past(Key(q))' \ {q} \in SUBSET Requests
        BY DEF Past
      <3>4. /\ Cardinality(Past(Key(q)) \ {q}) <= Cardinality(Past(Key(q))' \ {q})
            /\ Cardinality(Past(Key(q)) \ {q}) \in Nat /\ Cardinality(Past(Key(q))' \ {q}) \in Nat
        BY <3>2, <3>3, MoreRequests
      <3>5. QED
        BY <1>7, <3>1, <3>4
    <2>3. CASE q \notin Throttled
      <3>1. q = r /\ k \in blocked'
        BY <1>5, <2>1, <2>3
      <3>2. Past(Key(q))' \ {q} = P
        BY <1>5, <3>1 DEF k
      <3>3. QED
        BY <1>8, <3>1, <3>2
    <2>4. QED
      BY <2>2, <2>3
  <1>17. QED
    BY <1>14, <1>15, <1>16 DEF AccountInv

LEMMA InitAccount == Init => AccountInv
  <1>1. SUFFICES ASSUME Init PROVE AccountInv
    OBVIOUS
  <1>2. HitsArePast
    <2>1. SUFFICES ASSUME NEW k \in Keys PROVE hits[k] <= Cardinality(Past(k))
      BY DEF HitsArePast
    <2>2. hits[k] = 0
      BY <1>1 DEF Init
    <2>3. QED
      BY <2>2, PastIsFinite
  <1>3. Throttled = {}
    <2>1. None # 429
      BY RequestConstants
    <2>2. \A r \in Requests : error[r] = None
      BY <1>1 DEF Init
    <2>3. QED
      BY <2>1, <2>2 DEF Throttled
  <1>4. QED
    BY <1>1, <1>2, <1>3 DEF Init, AccountInv, BlockedWasFull, ThrottledWasFull

\* Only the guard throttles: the router, the handler and the rest throw other
\* errors, or none.
LEMMA OthersDoNotThrottle ==
    ASSUME IInv, NEW r \in Requests,
           Receive(r) \/ Handle(r) \/ Finalize(r) \/ Respond(r) \/ Filter(r)
    PROVE  /\ Throttled' \subseteq Throttled
           /\ \A q \in Requests : pc[q] \notin {"unsent", "guard"} => pc'[q] \notin {"unsent", "guard"}
           /\ UNCHANGED <<hits, blocked>>
  <1>1. pc \in [Requests -> Places] /\ error \in [Requests -> Errors]
    BY DEF IInv, TypeOK, Places, Errors
  <1>2. CASE Receive(r)
    BY <1>1, <1>2 DEF Receive, Throw, Goto, Throttled
  <1>3. CASE Handle(r)
    <2>1. error'[r] # 429
      BY <1>3, HandleStep
    <2>2. \A q \in Requests \ {r} : error'[q] = error[q]
      BY <1>1, <1>3 DEF Handle, Throw
    <2>3. QED
      BY <1>1, <1>3, <2>1, <2>2 DEF Handle, Goto, Throttled
  <1>4. CASE Finalize(r)
    BY <1>1, <1>4 DEF Finalize, Goto, Throttled
  <1>5. CASE Respond(r)
    BY <1>1, <1>5 DEF Respond, Goto, Throttled
  <1>6. CASE Filter(r)
    BY <1>1, <1>6 DEF Filter, Goto, Throttled
  <1>7. QED
    BY <1>2, <1>3, <1>4, <1>5, <1>6

LEMMA StepAccount == IInv /\ AccountInv /\ [Next]_vars => AccountInv'
  <1>1. SUFFICES ASSUME IInv, AccountInv, [Next]_vars PROVE AccountInv'
    OBVIOUS
  <1>2. StorageOK /\ StorageOK'
    BY <1>1, StepIInv, StorageOfIInv DEF IInv, TypeOK, StorageOK
  <1>3. \A k \in Keys : hits[k] <= hits[k]
    BY <1>2, HitsOfStorage
  <1>4. ASSUME NEW r \in Requests, Receive(r) \/ Step(r) PROVE AccountInv'
    <2>1. CASE Guard(r)
      BY <1>1, <2>1, GuardAccount
    <2>2. CASE Receive(r) \/ Handle(r) \/ Finalize(r) \/ Respond(r) \/ Filter(r)
      <3>1. /\ Throttled' \subseteq Throttled
            /\ \A q \in Requests : pc[q] \notin {"unsent", "guard"} => pc'[q] \notin {"unsent", "guard"}
            /\ UNCHANGED <<hits, blocked>>
        BY <1>1, <2>2, OthersDoNotThrottle
      <3>2. QED
        BY <1>1, <1>2, <1>3, <3>1, AccountFrame
    <2>3. QED
      BY <1>4, <2>1, <2>2 DEF Step
  <1>5. ASSUME NEW k \in Keys, WindowMoves(k) PROVE AccountInv'
    <2>1. blocked' \subseteq blocked /\ \A m \in Keys : hits'[m] <= hits[m]
      BY <1>2, <1>5, WindowKeepsStorage
    <2>2. UNCHANGED <<pc, error>>
      BY <1>5 DEF WindowMoves
    <2>3. QED
      BY <1>1, <1>2, <2>1, <2>2, AccountFrame DEF Throttled
  <1>6. CASE UNCHANGED vars
    <2>1. UNCHANGED <<pc, error, hits, blocked>>
      BY <1>6 DEF vars
    <2>2. QED
      BY <1>1, <1>2, <1>3, <2>1, AccountFrame DEF Throttled
  <1>7. QED
    BY <1>1, <1>4, <1>5, <1>6 DEF Next

\* The key of a user holds no request that is not under his name.
LEMMA AccountOfKey ==
    ASSUME AccountInv
    PROVE  ThrottledOnOwnAccount
  <1>1. SUFFICES ASSUME NEW r \in Throttled, UserOf[r] # NoHeader
                 PROVE  Cardinality({q \in UnderNameOf(r) \ {r} :
                                        /\ pc[q] \notin {"unsent", "guard"}
                                        /\ RouteOf[q] = RouteOf[r]}) >= Limit
    BY DEF ThrottledOnOwnAccount
  <1> DEFINE Own == {q \in UnderNameOf(r) \ {r} : /\ pc[q] \notin {"unsent", "guard"}
                                                   /\ RouteOf[q] = RouteOf[r]}
  <1>2. r \in Requests
    BY DEF Throttled
  <1>3. Past(Key(r)) \ {r} \subseteq Own
    <2>1. SUFFICES ASSUME NEW q \in Past(Key(r)), q # r PROVE q \in Own
      OBVIOUS
    <2>2. q \in Requests /\ pc[q] \notin {"unsent", "guard"} /\ Key(q) = Key(r)
      BY DEF Past
    <2>3. RouteOf[q] = RouteOf[r] /\ Tracker(q) = Tracker(r)
      BY <2>2 DEF Key
    <2>4. Tracker(q) = UserOf[r]
      BY <1>1, <2>3 DEF Tracker
    <2>5. q \in UnderNameOf(r)
      BY <2>2, <2>4 DEF Tracker, UnderNameOf
    <2>6. QED
      BY <2>1, <2>2, <2>3, <2>5
  <1>4. Own \in SUBSET Requests
    BY DEF UnderNameOf
  <1> HIDE DEF Own
  <1>5. /\ Cardinality(Past(Key(r)) \ {r}) <= Cardinality(Own)
        /\ Cardinality(Past(Key(r)) \ {r}) \in Nat /\ Cardinality(Own) \in Nat
    BY <1>3, <1>4, MoreRequests
  <1>6. Cardinality(Past(Key(r)) \ {r}) >= Limit
    BY DEF AccountInv, ThrottledWasFull
  <1>7. Cardinality(Own) >= Limit
    BY <1>5, <1>6, RequestConstants
  <1>8. QED
    BY <1>7 DEF Own

\* Whatever the users are called and wherever they send from, a user gets 429
\* only after Limit other requests under his name to the same handler, however
\* the window moves.
THEOREM ThrottledOnOwnAccountCorrect == Spec => []ThrottledOnOwnAccount
  <1> DEFINE Inv == IInv /\ AccountInv
  <1>1. Init => Inv
    BY InitIInv, InitAccount
  <1>2. Inv /\ [Next]_vars => Inv'
    BY StepIInv, StepAccount
  <1>3. Inv => ThrottledOnOwnAccount
    BY AccountOfKey
  <1>4. QED
    BY <1>1, <1>2, <1>3, PTL DEF Spec

-----------------------------------------------------------------------------
(* Every request is counted once, by the interceptor or by the guard. *)

\* The series the interceptor counts in, of one handler, and the guard's.
Interceptors(h) == {h} \X (Statuses \ {429})
Guards == Routes \X {429}

\* What is known of a request before it is counted: nothing has been thrown as
\* far as its handler, which does not throttle, and its status is a success.
NotThrown == \A r \in Requests : pc[r] \in {"unsent", "guard", "handler"} => error[r] = None
NotThrottled == \A r \in Requests : pc[r] = "finalize" => error[r] # 429
Succeeding == \A r \in Requests : pc[r] \in {"handler", "finalize"} => status[r] \in {200, 201}

CountInv == /\ NotThrown /\ NotThrottled /\ Succeeding
            /\ CountedOnce
            /\ ThrottledAreVisible

LEMMA SeriesAreFinite ==
    /\ IsFiniteSet(Guards) /\ Guards \subseteq Routes \X Statuses
    /\ \A h \in Handlers : /\ IsFiniteSet(Interceptors(h))
                           /\ Interceptors(h) \subseteq Routes \X Statuses
  <1>1. IsFiniteSet({PathOf[r] : r \in Requests})
    BY RequestConstants, ImageIsFinite
  <1>2. IsFiniteSet(Routes)
    BY <1>1, RequestConstants, FS_Union DEF Routes
  <1>3. IsFiniteSet(Statuses \ {429})
    <2>1. 200 \in Int /\ 500 \in Int
      OBVIOUS
    <2>2. IsFiniteSet(200..500)
      BY <2>1, FS_Interval, Zenon
    <2>3. Statuses \ {429} \subseteq 200..500
      BY DEF Statuses
    <2>4. QED
      BY <2>2, <2>3, FS_Subset
  <1>4. IsFiniteSet({429})
    BY FS_Singleton
  <1>5. IsFiniteSet(Guards)
    BY <1>2, <1>4, FS_Product DEF Guards
  <1>6. \A h \in Handlers : IsFiniteSet(Interceptors(h))
    BY <1>3, FS_Singleton, FS_Product DEF Interceptors
  <1>7. QED
    BY <1>5, <1>6 DEF Guards, Interceptors, Routes, Statuses

LEMMA TotalIsSum ==
    ASSUME NEW S
    PROVE  Total(S) = SumOver(counter, S) /\ Total(S)' = SumOver(counter', S)
  BY DEF Total, SumOver, MapThenSumSet, MapThenFoldSet

\* One more in one series adds one to the totals it is part of.
LEMMA CountAdds ==
    ASSUME TypeOK, NEW route \in Routes, NEW s \in Statuses, Count(route, s),
           NEW S, IsFiniteSet(S), S \subseteq Routes \X Statuses
    PROVE  /\ Total(S) \in Nat
           /\ <<route, s>> \in S => Total(S)' = Total(S) + 1
           /\ <<route, s>> \notin S => Total(S)' = Total(S)
  <1> DEFINE z == <<route, s>>
  <1>1. counter \in [Routes \X Statuses -> Nat] /\ counter' \in [Routes \X Statuses -> Nat]
    BY CountTypes DEF TypeOK
  <1>2. z \in Routes \X Statuses
    OBVIOUS
  <1>3. counter' = [counter EXCEPT ![z] = counter[z] + 1]
    BY DEF Count
  <1> HIDE DEF z
  <1>4. counter'[z] = counter[z] + 1 /\ \A x \in S : x # z => counter'[x] = counter[x]
    BY <1>1, <1>2, <1>3
  <1>5. \A x \in S : counter[x] \in Nat /\ counter'[x] \in Nat
    BY <1>1
  <1>6. SumOver(counter, S) \in Nat /\ SumOver(counter', S) \in Nat
    BY <1>5, SumType
  <1>7. CASE z \in S
    <2>1. SumOver(counter', S) + counter[z] = SumOver(counter, S) + counter'[z]
      BY <1>4, <1>5, <1>7, SumChange
    <2>2. counter[z] \in Nat
      BY <1>5, <1>7
    <2>3. SumOver(counter', S) = SumOver(counter, S) + 1
      BY <1>4, <1>6, <2>1, <2>2
    <2>4. QED
      BY <1>6, <1>7, <2>3, TotalIsSum DEF z
  <1>8. CASE z \notin S
    <2>1. SumOver(counter, S) = SumOver(counter', S)
      BY <1>4, <1>8, SumSame
    <2>2. QED
      BY <1>6, <1>8, <2>1, TotalIsSum DEF z
  <1>9. QED
    BY <1>7, <1>8

LEMMA SetsOfRequests ==
    /\ IsFiniteSet(Throttled) /\ Cardinality(Throttled) \in Nat
    /\ \A h : IsFiniteSet(Served(h)) /\ Cardinality(Served(h)) \in Nat
  <1>1. Throttled \in SUBSET Requests /\ \A h : Served(h) \in SUBSET Requests
    BY DEF Throttled, Served
  <1>2. QED
    BY <1>1, RequestConstants, FS_Subset, FS_CardinalityType

\* A step that neither counts nor lets a request go.
LEMMA CountFrame ==
    ASSUME CountInv, UNCHANGED <<counter, observed>>, Throttled' = Throttled,
           \A h \in Handlers : Served(h)' = Served(h)
    PROVE  CountedOnce' /\ ThrottledAreVisible'
  <1>1. \A S : Total(S)' = Total(S)
    BY TotalIsSum
  <1>2. CountedOnce'
    <2>1. SUFFICES ASSUME NEW h \in Handlers
                   PROVE  /\ Total({h} \X (Statuses \ {429}))' = Cardinality(Served(h)')
                          /\ observed'[h] = Cardinality(Served(h)')
      BY DEF CountedOnce, Statuses
    <2>2. QED
      BY <1>1 DEF CountInv, CountedOnce
  <1>3. ThrottledAreVisible'
    <2>1. SUFFICES Total(Routes \X {429})' = Cardinality(Throttled')
      BY DEF ThrottledAreVisible, Routes
    <2>2. QED
      BY <1>1 DEF CountInv, ThrottledAreVisible
  <1>4. QED
    BY <1>2, <1>3

\* Each request is at one place and has its own status and error.
LEMMA FactsOfOthers ==
    ASSUME CountInv, NEW r \in Requests,
           \A q \in Requests \ {r} : /\ pc'[q] = pc[q]
                                     /\ error'[q] = error[q]
                                     /\ status'[q] = status[q],
           pc'[r] \in {"unsent", "guard", "handler"} => error'[r] = None,
           pc'[r] = "finalize" => error'[r] # 429,
           pc'[r] \in {"handler", "finalize"} => status'[r] \in {200, 201}
    PROVE  NotThrown' /\ NotThrottled' /\ Succeeding'
  BY DEF CountInv, NotThrown, NotThrottled, Succeeding

\* The interceptor lets a request go, and counts it.
LEMMA FinalizeCounts ==
    ASSUME IInv, CountInv, NEW r \in Requests, Finalize(r)
    PROVE  CountInv'
  <1> DEFINE h == RouteOf[r]
             s == status[r]
  <1>1. pc \in [Requests -> Places] /\ error \in [Requests -> Errors]
        /\ status \in [Requests -> Statuses] /\ observed \in [Handlers -> Nat]
    BY DEF IInv, TypeOK, Places, Errors
  <1>2. /\ h \in Handlers /\ h \in Routes
        /\ s \in Statuses /\ s # 429
        /\ error[r] # 429
    BY DEF Finalize, IInv, Routed, CountInv, Succeeding, NotThrottled, Routes, Statuses
  <1>3. /\ pc[r] = "finalize" /\ pc'[r] = "respond"
        /\ \A q \in Requests \ {r} : pc'[q] = pc[q]
        /\ UNCHANGED <<error, status>>
    BY <1>1 DEF Finalize, Goto
  <1>4. NotThrown' /\ NotThrottled' /\ Succeeding'
    BY <1>3, FactsOfOthers
  <1>5. Throttled' = Throttled /\ r \notin Throttled
    BY <1>2, <1>3 DEF Throttled
  <1>6. r \notin Served(h) /\ Served(h)' = Served(h) \cup {r}
    BY <1>3, <1>5 DEF Served
  <1>7. \A g \in Handlers : g # h => Served(g)' = Served(g)
    BY <1>3, <1>5 DEF Served
  <1>8. Cardinality(Served(h)') = Cardinality(Served(h)) + 1
    BY <1>6, SetsOfRequests, FS_AddElement
  <1>9. Count(h, s) /\ observed' = [observed EXCEPT ![h] = observed[h] + 1]
    BY DEF Finalize
  <1> HIDE DEF h, s
  <1>10. TypeOK
    BY DEF IInv
  <1>11. CountedOnce'
    <2>1. SUFFICES ASSUME NEW g \in Handlers
                   PROVE  /\ Total(Interceptors(g))' = Cardinality(Served(g)')
                          /\ observed'[g] = Cardinality(Served(g)')
      BY DEF CountedOnce, Interceptors, Statuses
    <2>2. Total(Interceptors(g)) = Cardinality(Served(g)) /\ observed[g] = Cardinality(Served(g))
      BY DEF CountInv, CountedOnce, Interceptors
    <2>3. /\ <<h, s>> \in Interceptors(g) => Total(Interceptors(g))' = Total(Interceptors(g)) + 1
          /\ <<h, s>> \notin Interceptors(g) => Total(Interceptors(g))' = Total(Interceptors(g))
      BY <1>2, <1>9, <1>10, SeriesAreFinite, CountAdds
    <2>4. CASE g = h
      <3>1. <<h, s>> \in Interceptors(g)
        BY <1>2, <2>4 DEF Interceptors
      <3>2. QED
        BY <1>1, <1>2, <1>8, <1>9, <2>2, <2>3, <2>4, <3>1
    <2>5. CASE g # h
      <3>1. <<h, s>> \notin Interceptors(g)
        BY <2>5 DEF Interceptors
      <3>2. QED
        BY <1>1, <1>7, <1>9, <2>2, <2>3, <2>5, <3>1
    <2>6. QED
      BY <2>4, <2>5
  <1>12. ThrottledAreVisible'
    <2>1. SUFFICES Total(Guards)' = Cardinality(Throttled')
      BY DEF ThrottledAreVisible, Guards, Routes
    <2>2. <<h, s>> \notin Guards
      BY <1>2 DEF Guards
    <2>3. Total(Guards)' = Total(Guards)
      BY <1>2, <1>9, <1>10, <2>2, SeriesAreFinite, CountAdds
    <2>4. QED
      BY <1>5, <2>3 DEF CountInv, ThrottledAreVisible, Guards
  <1>13. QED
    BY <1>4, <1>11, <1>12 DEF CountInv

\* The guard counts the request that it throttles, for the interceptor will
\* not see it.
LEMMA ThrottleCounts ==
    ASSUME IInv, CountInv, NEW r \in Requests, Guard(r), Throttle(r)
    PROVE  CountInv'
  <1> DEFINE p == PathOf[r]
  <1>1. pc \in [Requests -> Places] /\ error \in [Requests -> Errors]
    BY DEF IInv, TypeOK, Places, Errors
  <1>2. p \in Routes /\ 429 \in Statuses
    BY DEF Routes, Statuses
  <1>3. /\ pc[r] = "guard" /\ pc'[r] = "respond" /\ error[r] # 429 /\ error'[r] = 429
        /\ \A q \in Requests \ {r} : pc'[q] = pc[q] /\ error'[q] = error[q]
        /\ UNCHANGED <<status, observed>>
    <2>1. pc[r] = "guard"
      BY DEF Guard
    <2>2. error[r] = None /\ None # 429
      BY <2>1, RequestConstants DEF CountInv, NotThrown
    <2>3. QED
      BY <1>1, <2>1, <2>2 DEF Guard, Throttle, Throw, Goto
  <1>4. NotThrown' /\ NotThrottled' /\ Succeeding'
    BY <1>3, FactsOfOthers
  <1>5. r \notin Throttled /\ Throttled' = Throttled \cup {r}
    BY <1>3 DEF Throttled
  <1>6. \A h : Served(h)' = Served(h)
    BY <1>3, <1>5 DEF Served
  <1>7. Cardinality(Throttled') = Cardinality(Throttled) + 1
    BY <1>5, SetsOfRequests, FS_AddElement
  <1>8. Count(p, 429)
    BY DEF Throttle
  <1> HIDE DEF p
  <1>9. TypeOK
    BY DEF IInv
  <1>10. CountedOnce'
    <2>1. SUFFICES ASSUME NEW h \in Handlers
                   PROVE  /\ Total(Interceptors(h))' = Cardinality(Served(h)')
                          /\ observed'[h] = Cardinality(Served(h)')
      BY DEF CountedOnce, Interceptors, Statuses
    <2>2. <<p, 429>> \notin Interceptors(h)
      BY DEF Interceptors
    <2>3. Total(Interceptors(h))' = Total(Interceptors(h))
      BY <1>2, <1>8, <1>9, <2>2, SeriesAreFinite, CountAdds
    <2>4. QED
      BY <1>3, <1>6, <2>3 DEF CountInv, CountedOnce, Interceptors
  <1>11. ThrottledAreVisible'
    <2>1. SUFFICES Total(Guards)' = Cardinality(Throttled')
      BY DEF ThrottledAreVisible, Guards, Routes
    <2>2. <<p, 429>> \in Guards
      BY <1>2 DEF Guards
    <2>3. Total(Guards)' = Total(Guards) + 1
      BY <1>2, <1>8, <1>9, <2>2, SeriesAreFinite, CountAdds
    <2>4. QED
      BY <1>7, <2>3 DEF CountInv, ThrottledAreVisible, Guards
  <1>12. QED
    BY <1>4, <1>10, <1>11 DEF CountInv

\* All other steps of a request leave the counters and who is in them alone.
LEMMA OthersDoNotCount ==
    ASSUME IInv, CountInv, NEW r \in Requests,
           \/ Receive(r) \/ Handle(r) \/ Respond(r) \/ Filter(r)
           \/ Guard(r) /\ Admit(r)
    PROVE  CountInv'
  <1>1. pc \in [Requests -> Places] /\ error \in [Requests -> Errors]
        /\ status \in [Requests -> Statuses]
    BY DEF IInv, TypeOK, Places, Errors
  <1>2. None # 429
    BY RequestConstants
  <1>3. /\ \A q \in Requests \ {r} : /\ pc'[q] = pc[q]
                                     /\ error'[q] = error[q]
                                     /\ status'[q] = status[q]
        /\ UNCHANGED <<counter, observed>>
        /\ (r \notin Throttled /\ error'[r] # 429) \/ error'[r] = error[r]
        /\ RouteOf[r] \in Handlers =>
              (pc[r] \in {"respond", "done"} <=> pc'[r] \in {"respond", "done"})
        /\ pc'[r] \in {"unsent", "guard", "handler"} => error'[r] = None
        /\ pc'[r] = "finalize" => error'[r] # 429
        /\ pc'[r] \in {"handler", "finalize"} => status'[r] \in {200, 201}
    <2>1. CASE Receive(r)
      BY <1>1, <1>2, <2>1, RequestConstants
         DEF Receive, Throw, Goto, Throttled, CountInv, NotThrown
    <2>2. CASE Handle(r)
      <3>1. error'[r] # 429 /\ error[r] = None
        BY <2>2, HandleStep DEF Handle, CountInv, NotThrown
      <3>2. status[r] \in {200, 201}
        BY <2>2 DEF Handle, CountInv, Succeeding
      <3>3. \A q \in Requests \ {r} : error'[q] = error[q]
        BY <1>1, <2>2 DEF Handle, Throw
      <3>4. pc[r] = "handler" /\ pc'[r] = "finalize" /\ \A q \in Requests \ {r} : pc'[q] = pc[q]
        BY <1>1, <2>2 DEF Handle, Goto
      <3>5. UNCHANGED <<status, counter, observed>>
        BY <2>2 DEF Handle
      <3>6. QED
        BY <1>2, <3>1, <3>2, <3>3, <3>4, <3>5 DEF Throttled
    <2>3. CASE Respond(r)
      BY <1>1, <2>3 DEF Respond, Goto
    <2>4. CASE Filter(r)
      BY <1>1, <2>4 DEF Filter, Goto
    <2>5. CASE Guard(r) /\ Admit(r)
      BY <1>1, <2>5 DEF Guard, Admit, Goto, CountInv, NotThrown
    <2>6. QED
      BY <2>1, <2>2, <2>3, <2>4, <2>5
  <1>4. NotThrown' /\ NotThrottled' /\ Succeeding'
    BY <1>3, FactsOfOthers
  <1>5. Throttled' = Throttled
    BY <1>3 DEF Throttled
  <1>6. \A h \in Handlers : Served(h)' = Served(h)
    BY <1>3, <1>5 DEF Served
  <1>7. QED
    BY <1>3, <1>4, <1>5, <1>6, CountFrame DEF CountInv

LEMMA InitCount == Init => CountInv
  <1>1. SUFFICES ASSUME Init PROVE CountInv
    OBVIOUS
  <1>2. NotThrown /\ NotThrottled /\ Succeeding
    BY <1>1 DEF Init, NotThrown, NotThrottled, Succeeding
  <1>3. None # 429
    BY RequestConstants
  <1>4. Throttled = {} /\ \A h : Served(h) = {}
    BY <1>1, <1>3 DEF Init, Throttled, Served
  <1>5. \A x \in Routes \X Statuses : counter[x] = 0
    BY <1>1 DEF Init
  <1>6. ASSUME NEW S, IsFiniteSet(S), S \subseteq Routes \X Statuses
        PROVE  Total(S) = 0
    BY <1>5, <1>6, SumZero, TotalIsSum
  <1>7. ThrottledAreVisible
    BY <1>4, <1>6, SeriesAreFinite, FS_EmptySet DEF ThrottledAreVisible, Guards
  <1>8. \A h \in Handlers : observed[h] = 0
    BY <1>1 DEF Init
  <1>x. \A h \in Handlers : Total(Interceptors(h)) = 0
    BY <1>6, SeriesAreFinite
  <1>9. CountedOnce
    BY <1>4, <1>8, <1>x, FS_EmptySet DEF CountedOnce, Interceptors
  <1>10. QED
    BY <1>2, <1>7, <1>9 DEF CountInv

LEMMA StepCount == IInv /\ CountInv /\ [Next]_vars => CountInv'
  <1>1. SUFFICES ASSUME IInv, CountInv, [Next]_vars PROVE CountInv'
    OBVIOUS
  <1>2. ASSUME NEW r \in Requests, Receive(r) \/ Step(r) PROVE CountInv'
    <2>1. Guard(r) => Throttle(r) \/ Admit(r)
      BY DEF Guard
    <2>2. QED
      BY <1>1, <1>2, <2>1, FinalizeCounts, ThrottleCounts, OthersDoNotCount DEF Step
  <1>3. ASSUME UNCHANGED <<pc, error, status, answer, counter, observed>> PROVE CountInv'
    <2>1. NotThrown' /\ NotThrottled' /\ Succeeding'
      BY <1>1, <1>3 DEF CountInv, NotThrown, NotThrottled, Succeeding
    <2>2. Throttled' = Throttled /\ \A h : Served(h)' = Served(h)
      BY <1>3 DEF Throttled, Served
    <2>3. QED
      BY <1>1, <1>3, <2>1, <2>2, CountFrame DEF CountInv
  <1>4. ASSUME NEW k \in Keys, WindowMoves(k) PROVE CountInv'
    BY <1>3, <1>4 DEF WindowMoves
  <1>5. CASE UNCHANGED vars
    BY <1>3, <1>5 DEF vars
  <1>6. QED
    BY <1>1, <1>2, <1>4, <1>5 DEF Next

LEMMA CountsHold == Spec => []CountInv
  <1>1. QED
    BY InitIInv, StepIInv, InitCount, StepCount, PTL DEF Spec

\* Every request to a handler is counted once under its template and observed
\* once when the interceptor lets it go, unless it was throttled.
THEOREM EveryRequestIsCounted == Spec => []CountedOnce
  <1>1. CountInv => CountedOnce
    BY DEF CountInv
  <1>2. QED
    BY <1>1, CountsHold, PTL

\* The status 429 counts every throttled request once, under whatever path.
THEOREM ThrottlingIsVisible == Spec => []ThrottledAreVisible
  <1>1. CountInv => ThrottledAreVisible
    BY DEF CountInv
  <1>2. QED
    BY <1>1, CountsHold, PTL
=============================================================================

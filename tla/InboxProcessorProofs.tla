------------------------ MODULE InboxProcessorProofs ------------------------
(***************************************************************************)
(* Theorems about InboxProcessor, for any number of workers, orders and    *)
(* events and any value of the bounds.                                     *)
(***************************************************************************)
EXTENDS InboxProcessor, FiniteSetTheorems, TLAPS

Statuses == {"PENDING", "PROCESSED", "FAILED"}
Table == [Events -> RowType(Statuses)]

\* A new row is a row: its place in creation order is a number because only
\* finitely many events exist.
LEMMA NewRowType ==
    ASSUME NEW tab \in Table
    PROVE  NewRow(tab) \in RowType(Statuses) /\ NewRow(tab).status = "PENDING"
<1>1. Existing(tab) \subseteq Events
  BY DEF Existing, Table
<1>2. IsFiniteSet(Existing(tab))
  BY <1>1, FS_Subset, ConstantsAssumption
<1>3. Cardinality(Existing(tab)) \in Nat
  BY <1>2, FS_CardinalityType
<1> QED
  BY <1>3 DEF NewRow, RowType, Statuses

\* A row that has been updated in any column but keeps a real status is a row,
\* and no row disappears from the table.
LEMMA RowUpdate ==
    ASSUME NEW tab \in Table, NEW e \in Events, NEW row \in RowType(Statuses),
           row.status # "ABSENT" \/ tab[e].status = "ABSENT"
    PROVE  /\ [tab EXCEPT ![e] = row] \in Table
           /\ Existing(tab) \subseteq Existing([tab EXCEPT ![e] = row])
<1>1. [tab EXCEPT ![e] = row] \in Table
  BY DEF Table
<1>2. Existing(tab) = {f \in Events : tab[f].status # "ABSENT"}
  BY DEF Existing, Table
<1>3. Existing([tab EXCEPT ![e] = row]) =
        {f \in Events : [tab EXCEPT ![e] = row][f].status # "ABSENT"}
  BY DEF Existing, Table
<1> QED
  BY <1>1, <1>2, <1>3 DEF Table

\* The rows the two queries return are rows of the table.
LEMMA QueriesExist ==
    ASSUME NEW tab \in Table, NEW S, NEW n
    PROVE  /\ Oldest(tab, S, n) \subseteq S
           /\ Due(tab) \subseteq Existing(tab)
           /\ \A st \in Statuses : WithStatus(tab, st) \subseteq Existing(tab)
           /\ Existing(tab) \subseteq Events
  BY DEF Oldest, Due, WithStatus, Existing, Table, Statuses

-----------------------------------------------------------------------------
(* Type correctness. *)

\* The part of TypeOK that speaks of the threads.
ControlOK ==
    /\ pos \in [Workers -> Nat]
    /\ at \in [Threads -> Ctl]
    /\ \A t \in Threads : at[t].pc = "idle" <=> at[t].ev = None

\* The part of TypeOK that speaks of the inbox and of who holds its rows.
TableOK ==
    /\ inbox \in Table
    /\ batch \in [Workers -> SUBSET Existing(inbox)]
    /\ DOMAIN cli \subseteq Existing(inbox)
    /\ \A e \in DOMAIN cli : cli[e] \in Nat

\* The part of TypeOK that speaks of the rest.
RestOK ==
    /\ confirmed \subseteq Orders
    /\ topic \in Seq(Messages)
    /\ committed \in Nat
    /\ owner \in Workers \cup {NoWorker}
    /\ ledger \in [Orders -> Nat]
    /\ dlq \in [Events -> Nat]
    /\ faults \in Nat
    /\ replays \in Nat
    /\ abandoned \subseteq Events

LEMMA TypeParts == /\ TypeOK <=> ControlOK /\ TableOK /\ RestOK
                   /\ TypeOK' <=> ControlOK' /\ TableOK' /\ RestOK'
  BY DEF TypeOK, ControlOK, TableOK, RestOK, Table, Statuses

\* A thread that moves on within its event, finishes it or raises an
\* exception keeps a well-formed control state.
LEMMA ControlMoves ==
    ASSUME ControlOK, NEW t \in Threads, at[t].pc # "idle"
    PROVE  /\ at[t].ev \in Events
           /\ Finish(t) => ControlOK'
           /\ Raise(t) => ControlOK'
           /\ \A pc \in Calls \cup {"giveup", "dlq", "backoff"} :
                 Goto(t, pc) /\ UNCHANGED pos => ControlOK'
<1>1. at[t].ev \in Events
  BY DEF ControlOK, Ctl
<1>2. ASSUME NEW pc \in Calls \cup {"failed", "giveup", "dlq", "backoff"},
             Goto(t, pc), UNCHANGED pos
      PROVE  ControlOK'
  BY <1>2 DEF ControlOK, Goto, Ctl, Calls
<1>3. ASSUME Finish(t) PROVE ControlOK'
  <2>1. at' \in [Threads -> Ctl]
    BY <1>3 DEF Finish, ControlOK, Ctl, Idle
  <2>2. \A u \in Threads : at'[u].pc = "idle" <=> at'[u].ev = None
    BY <1>3 DEF Finish, ControlOK, Idle
  <2>3. pos' \in [Workers -> Nat]
    BY <1>3 DEF Finish, ControlOK, Threads
  <2> QED
    BY <2>1, <2>2, <2>3 DEF ControlOK
<1>4. Raise(t) => ControlOK'
  BY <1>2, <1>3 DEF Raise
<1> QED
  BY <1>1, <1>2, <1>3, <1>4

\* An update of one row of the inbox keeps every row anybody holds.
LEMMA TableUpdate ==
    ASSUME TableOK, NEW e \in Events, NEW row \in RowType(Statuses),
           row.status # "ABSENT" \/ inbox[e].status = "ABSENT",
           inbox' = [inbox EXCEPT ![e] = row],
           batch' \in [Workers -> SUBSET Existing(inbox)],
           DOMAIN cli' \subseteq DOMAIN cli,
           \A f \in DOMAIN cli' : cli'[f] = cli[f]
    PROVE  TableOK'
<1>1. inbox' \in Table /\ Existing(inbox) \subseteq Existing(inbox')
  BY RowUpdate DEF TableOK
<1> QED
  BY <1>1 DEF TableOK

LEMMA TypeInit == Init => TypeOK
<1> SUFFICES ASSUME Init PROVE TypeOK
  OBVIOUS
<1>1. ControlOK
  BY ConstantsAssumption DEF Init, ControlOK, Ctl, Idle, Threads
<1>2. TableOK
  BY DEF Init, TableOK, Table, RowType, NoRow, Statuses, Existing
<1>3. RestOK
  BY DEF Init, RestOK
<1> QED
  BY <1>1, <1>2, <1>3, TypeParts

\* Steps of the worker that leave inbox, batch and cli alone.
LEMMA TableUnchanged == TableOK /\ UNCHANGED <<inbox, batch, cli>> => TableOK'
  BY DEF TableOK

LEMMA TypeStep == TypeOK /\ [Next]_vars => TypeOK'
<1> SUFFICES ASSUME ControlOK, TableOK, RestOK, [Next]_vars
             PROVE  ControlOK' /\ TableOK' /\ RestOK'
  BY TypeParts
<1> USE DEF outside, kafka
<1>rows. \A e \in Events : inbox[e] \in RowType(Statuses)
  BY DEF TableOK, Table
<1>1. ASSUME NEW o \in Orders, ConfirmOrder(o)
      PROVE  ControlOK' /\ TableOK' /\ RestOK'
  BY <1>1, TableUnchanged DEF ConfirmOrder, ControlOK, RestOK
<1>2. ASSUME NEW m \in Messages, Produce(m)
      PROVE  ControlOK' /\ TableOK' /\ RestOK'
  BY <1>2, TableUnchanged DEF Produce, ControlOK, RestOK
<1>3. ASSUME NEW w \in Workers, Assign(w)
      PROVE  ControlOK' /\ TableOK' /\ RestOK'
  BY <1>3, TableUnchanged DEF Assign, ControlOK, RestOK
<1>4. ASSUME NEW w \in Workers, CommitOffset(w)
      PROVE  ControlOK' /\ TableOK' /\ RestOK'
  BY <1>4, TableUnchanged DEF CommitOffset, ControlOK, RestOK
<1>5. ASSUME NEW w \in Workers, Crash(w)
      PROVE  ControlOK' /\ TableOK' /\ RestOK'
  <2>1. ControlOK'
    BY <1>5, ConstantsAssumption DEF Crash, ControlOK, Ctl, Idle
  <2>2. TableOK'
    BY <1>5 DEF Crash, TableOK
  <2>3. RestOK'
    BY <1>5 DEF Crash, RestOK
  <2> QED
    BY <2>1, <2>2, <2>3
<1>6. ASSUME Revoke
      PROVE  ControlOK' /\ TableOK' /\ RestOK'
  BY <1>6, TableUnchanged DEF Revoke, ControlOK, RestOK
<1>7. ASSUME NEW w \in Workers, Fetch(w)
      PROVE  ControlOK' /\ TableOK' /\ RestOK'
  <2> DEFINE t == <<"consumer", w>>
             m == topic[pos[w] + 1]
  <2>1. t \in Threads
    BY DEF Threads, Loops
  <2>2. m \in Messages
    BY <1>7 DEF Fetch, ControlOK, RestOK
  <2>3. CASE m = Noise
    <3>1. at' = [at EXCEPT ![t] = Idle] /\ pos' = [pos EXCEPT ![w] = @ + 1]
      BY <1>7, <2>3 DEF Fetch, Finish
    <3> QED
      BY <1>7, <2>1, <3>1, TableUnchanged DEF Fetch, ControlOK, RestOK, Idle, Ctl
  <2>4. CASE m # Noise
    <3>1. m \in Events
      BY <2>2, <2>4 DEF Messages
    <3>2. at' = [at EXCEPT ![t] = [pc |-> "upsert", ev |-> m]] /\ UNCHANGED pos
      BY <1>7, <2>4 DEF Fetch
    <3>3. ControlOK'
      BY <2>1, <3>1, <3>2, ConstantsAssumption DEF ControlOK, Ctl, Calls
    <3> QED
      BY <1>7, <3>3, TableUnchanged DEF Fetch, RestOK
  <2> QED
    BY <2>3, <2>4
<1>8. ASSUME NEW w \in Workers, UpsertInbox(w)
      PROVE  ControlOK' /\ TableOK' /\ RestOK'
  <2> DEFINE t == <<"consumer", w>>
             e == at[t].ev
  <2>1. t \in Threads
    BY DEF Threads, Loops
  <2>2. ControlOK' /\ e \in Events
    BY <1>8, <2>1, ControlMoves DEF UpsertInbox, Calls
  <2>3. TableOK'
    <3>1. CASE e \in Existing(inbox)
      BY <1>8, <3>1, TableUnchanged DEF UpsertInbox
    <3>2. CASE e \notin Existing(inbox)
      <4>1. NewRow(inbox) \in RowType(Statuses) /\ NewRow(inbox).status # "ABSENT"
        BY NewRowType DEF TableOK
      <4>2. inbox' = [inbox EXCEPT ![e] = NewRow(inbox)] /\ UNCHANGED <<batch, cli>>
        BY <1>8, <3>2 DEF UpsertInbox
      <4> QED
        BY <2>2, <4>1, <4>2, TableUpdate DEF TableOK
    <3> QED
      BY <3>1, <3>2
  <2> QED
    BY <1>8, <2>2, <2>3 DEF UpsertInbox, RestOK
<1>9. ASSUME NEW t \in Threads, HandlerRead(t)
      PROVE  ControlOK' /\ TableOK' /\ RestOK'
  <2>1. ControlOK'
    BY <1>9, ControlMoves DEF HandlerRead, Calls
  <2> QED
    BY <1>9, <2>1, TableUnchanged DEF HandlerRead, RestOK
<1>10. ASSUME NEW t \in Threads, HandlerCredit(t)
       PROVE  ControlOK' /\ TableOK' /\ RestOK'
  <2>1. ControlOK'
    BY <1>10, ControlMoves DEF HandlerCredit, Calls
  <2>2. ledger' \in [Orders -> Nat]
    BY <1>10 DEF HandlerCredit, RestOK
  <2> QED
    BY <1>10, <2>1, <2>2, TableUnchanged DEF HandlerCredit, RestOK
<1>11. ASSUME NEW t \in Threads, MarkProcessed(t)
       PROVE  ControlOK' /\ TableOK' /\ RestOK'
  <2> DEFINE row == [inbox[at[t].ev] EXCEPT !.status = "PROCESSED"]
  <2>1. ControlOK' /\ at[t].ev \in Events
    BY <1>11, ControlMoves DEF MarkProcessed
  <2>2. row \in RowType(Statuses) /\ row.status # "ABSENT"
    BY <2>1, <1>rows DEF RowType, Statuses
  <2>3. inbox' = [inbox EXCEPT ![at[t].ev] = row] /\ UNCHANGED <<batch, cli>>
    BY <1>11 DEF MarkProcessed
  <2>4. TableOK'
    BY <2>1, <2>2, <2>3, TableUpdate DEF TableOK
  <2> QED
    BY <1>11, <2>1, <2>4 DEF MarkProcessed, RestOK
<1>12. ASSUME NEW t \in Threads, CallThrows(t)
       PROVE  ControlOK' /\ TableOK' /\ RestOK'
  <2>1. ControlOK'
    BY <1>12, ControlMoves, ConstantsAssumption DEF CallThrows, Calls
  <2> QED
    BY <1>12, <2>1, TableUnchanged DEF CallThrows, RestOK
<1>13. ASSUME NEW w \in Workers, Scan(w)
       PROVE  ControlOK' /\ TableOK' /\ RestOK'
  <2>1. Oldest(inbox, Due(inbox), BatchSize) \subseteq Existing(inbox)
    BY QueriesExist DEF TableOK
  <2> QED
    BY <1>13, <2>1 DEF Scan, ControlOK, TableOK, RestOK
<1>14. ASSUME NEW w \in Workers, Take(w)
       PROVE  ControlOK' /\ TableOK' /\ RestOK'
  <2> DEFINE t == <<"retry", w>>
  <2>1. t \in Threads
    BY DEF Threads, Loops
  <2>2. PICK e \in Oldest(inbox, batch[w], 1) :
           /\ batch' = [batch EXCEPT ![w] = @ \ {e}]
           /\ at' = [at EXCEPT ![t] =
                        [pc |-> IF OrderOf[e] = NoOrder THEN "failed" ELSE "read", ev |-> e]]
    BY <1>14 DEF Take
  <2>3. e \in Events /\ e # None
    BY QueriesExist, ConstantsAssumption DEF TableOK
  <2>4. ControlOK'
    BY <1>14, <2>1, <2>2, <2>3 DEF Take, ControlOK, Ctl, Calls
  <2>5. TableOK'
    BY <1>14, <2>2 DEF Take, TableOK
  <2> QED
    BY <1>14, <2>4, <2>5 DEF Take, RestOK
<1>15. ASSUME NEW w \in Workers, CountAttempt(w)
       PROVE  ControlOK' /\ TableOK' /\ RestOK'
  <2> DEFINE t == <<"retry", w>>
             row == Bumped(inbox[at[t].ev])
  <2>1. t \in Threads
    BY DEF Threads, Loops
  <2>2. ControlOK' /\ at[t].ev \in Events
    BY <1>15, <2>1, ControlMoves DEF CountAttempt
  <2>3. row \in RowType(Statuses) /\ row.status = inbox[at[t].ev].status
    BY <2>2, <1>rows DEF RowType, Statuses, Bumped
  <2>4. TableOK'
    BY <1>15, <2>2, <2>3, TableUpdate DEF CountAttempt, TableOK
  <2> QED
    BY <1>15, <2>2, <2>4 DEF CountAttempt, RestOK
<1>16. ASSUME NEW w \in Workers, GiveUp(w)
       PROVE  ControlOK' /\ TableOK' /\ RestOK'
  <2> DEFINE t == <<"retry", w>>
             row == [inbox[at[t].ev] EXCEPT !.status = "FAILED"]
  <2>1. t \in Threads
    BY DEF Threads, Loops
  <2>2. ControlOK' /\ at[t].ev \in Events
    BY <1>16, <2>1, ControlMoves DEF GiveUp
  <2>3. row \in RowType(Statuses) /\ row.status # "ABSENT"
    BY <2>2, <1>rows DEF RowType, Statuses
  <2>4. inbox' = [inbox EXCEPT ![at[t].ev] = row] /\ UNCHANGED <<batch, cli>>
    BY <1>16 DEF GiveUp
  <2>5. TableOK'
    BY <2>2, <2>3, <2>4, TableUpdate DEF TableOK
  <2> QED
    BY <1>16, <2>2, <2>5 DEF GiveUp, RestOK
<1>17. ASSUME NEW w \in Workers, SendDlq(w)
       PROVE  ControlOK' /\ TableOK' /\ RestOK'
  <2>1. <<"retry", w>> \in Threads
    BY DEF Threads, Loops
  <2>2. ControlOK' /\ at[<<"retry", w>>].ev \in Events
    BY <1>17, <2>1, ControlMoves DEF SendDlq
  <2>3. dlq' \in [Events -> Nat]
    <3>1. dlq' = [dlq EXCEPT ![at[<<"retry", w>>].ev] = @ + 1]
      BY <1>17 DEF SendDlq
    <3> QED
      BY <2>2, <3>1 DEF RestOK
  <2>4. UNCHANGED <<confirmed, topic, committed, owner, ledger, faults, replays,
                    abandoned, inbox, batch, cli>>
    BY <1>17 DEF SendDlq
  <2>5. RestOK'
    BY <2>3, <2>4 DEF RestOK
  <2> QED
    BY <2>2, <2>4, <2>5, TableUnchanged
<1>18. ASSUME NEW w \in Workers, BackOff(w)
       PROVE  ControlOK' /\ TableOK' /\ RestOK'
  <2> DEFINE t == <<"retry", w>>
             row == [inbox[at[t].ev] EXCEPT !.due = FALSE]
  <2>1. t \in Threads
    BY DEF Threads, Loops
  <2>2. ControlOK' /\ at[t].ev \in Events
    BY <1>18, <2>1, ControlMoves DEF BackOff
  <2>3. row \in RowType(Statuses) /\ row.status = inbox[at[t].ev].status
    BY <2>2, <1>rows DEF RowType, Statuses
  <2>4. inbox' = [inbox EXCEPT ![at[t].ev] = row] /\ UNCHANGED <<batch, cli>>
    BY <1>18 DEF BackOff
  <2>5. TableOK'
    BY <2>2, <2>3, <2>4, TableUpdate DEF TableOK
  <2> QED
    BY <1>18, <2>2, <2>5 DEF BackOff, RestOK
<1>19. ASSUME NEW e \in Events, Elapse(e)
       PROVE  ControlOK' /\ TableOK' /\ RestOK'
  <2> DEFINE row == [inbox[e] EXCEPT !.due = TRUE]
  <2>1. row \in RowType(Statuses) /\ row.status = inbox[e].status
    BY <1>rows DEF RowType, Statuses
  <2>2. inbox' = [inbox EXCEPT ![e] = row] /\ UNCHANGED <<batch, cli>>
    BY <1>19 DEF Elapse
  <2>3. TableOK'
    BY <2>1, <2>2, TableUpdate DEF TableOK
  <2> QED
    BY <1>19, <2>3 DEF Elapse, ControlOK, RestOK
<1>20. ASSUME NEW S \in Selections, NEW r \in BOOLEAN, ReplayStart(S, r)
       PROVE  ControlOK' /\ TableOK' /\ RestOK'
  <2>1. S \subseteq Existing(inbox) /\ Existing(inbox) \subseteq Events
    <3>1. /\ \A st \in Statuses, n \in {ReplayLimit} :
                Oldest(inbox, WithStatus(inbox, st), n) \subseteq Existing(inbox)
          /\ Existing(inbox) \subseteq Events
      BY QueriesExist DEF TableOK
    <3> QED
      BY <1>20, <3>1 DEF Selections, Statuses
  <2>2. \A e \in S : (IF r THEN 0 ELSE inbox[e].attempts) \in Nat
    BY <2>1, <1>rows DEF RowType
  <2>3. TableOK'
    BY <1>20, <2>1, <2>2 DEF ReplayStart, TableOK
  <2> QED
    BY <1>20, <2>3 DEF ReplayStart, ControlOK, RestOK
<1>21. ASSUME NEW e \in Events, ReplayRow(e)
       PROVE  ControlOK' /\ TableOK' /\ RestOK'
  <2> DEFINE row == [inbox[e] EXCEPT !.status = "PENDING", !.due = TRUE,
                                     !.attempts = cli[e]]
  <2>1. cli[e] \in Nat
    BY <1>21, QueriesExist DEF ReplayRow, TableOK
  <2>2. row \in RowType(Statuses) /\ row.status # "ABSENT"
    BY <2>1, <1>rows DEF RowType, Statuses
  <2>3. inbox' = [inbox EXCEPT ![e] = row] /\ UNCHANGED batch
    BY <1>21 DEF ReplayRow
  <2>4. TableOK'
    BY <1>21, <2>2, <2>3, TableUpdate DEF ReplayRow, TableOK
  <2> QED
    BY <1>21, <2>4 DEF ReplayRow, ControlOK, RestOK
<1>22. ASSUME NEW t \in Threads, AnswerLost(t)
       PROVE  ControlOK' /\ TableOK' /\ RestOK'
  <2> DEFINE e == at[t].ev
             row == [inbox[e] EXCEPT !.status = "PROCESSED"]
  <2>1. /\ ControlOK' /\ e \in Events
        /\ UNCHANGED <<batch, cli>>
    BY <1>22, ControlMoves, ConstantsAssumption DEF AnswerLost, Calls
  <2>2. ledger' \in [Orders -> Nat]
    BY <1>22 DEF AnswerLost, RestOK
  <2>6. /\ batch' \in [Workers -> SUBSET Existing(inbox)]
        /\ DOMAIN cli' \subseteq DOMAIN cli /\ \A f \in DOMAIN cli' : cli'[f] = cli[f]
    BY <2>1 DEF TableOK
  <2> HIDE DEF e, row
  <2>3. ASSUME e \notin Existing(inbox), inbox' = [inbox EXCEPT ![e] = NewRow(inbox)]
        PROVE  TableOK'
    <3>1. NewRow(inbox) \in RowType(Statuses) /\ inbox[e].status = "ABSENT"
      BY <2>1, <2>3, NewRowType DEF TableOK, Table, Existing
    <3> QED
      BY <2>1, <2>3, <2>6, <3>1, TableUpdate
  <2>4. ASSUME inbox' = [inbox EXCEPT ![e].status = "PROCESSED"]
        PROVE  TableOK'
    <3>1. row \in RowType(Statuses) /\ row.status # "ABSENT"
      BY <2>1, <1>rows DEF row, RowType, Statuses
    <3>2. inbox' = [inbox EXCEPT ![e] = row]
      BY <2>4 DEF row
    <3> QED
      BY <2>1, <2>6, <3>1, <3>2, TableUpdate
  <2>5. TableOK'
    BY <1>22, <2>1, <2>3, <2>4, TableUnchanged DEF e, AnswerLost
  <2> QED
    BY <1>22, <2>1, <2>2, <2>5 DEF AnswerLost, RestOK
<1>23. CASE UNCHANGED vars
  BY <1>23, TableUnchanged DEF vars, ControlOK, RestOK
<1> QED
  BY <1>1, <1>2, <1>3, <1>4, <1>5, <1>6, <1>7, <1>8, <1>9, <1>10, <1>11, <1>12,
     <1>13, <1>14, <1>15, <1>16, <1>17, <1>18, <1>19, <1>20, <1>21, <1>22, <1>23
     DEF Next, ConsumerStep, RetryStep, HandlerStep, Replay, Threads, Loops

\* Every reachable state is well typed: the worker never holds an event that
\* has no inbox row, whatever is thrown, killed or replayed.
THEOREM TypeCorrect == Spec => []TypeOK
<1> QED
  BY TypeInit, TypeStep, PTL DEF Spec

-----------------------------------------------------------------------------
(* The ledger. *)

\* Why OneCreditPerOrder and ProcessedIsCredited hold: a thread about to
\* credit has seen its order CONFIRMED, and a thread about to mark its row
\* has seen the credit, its own or the one it collided with.  Nothing takes
\* back either fact, so they survive whatever the other threads do between.
CreditInv ==
    /\ OneCreditPerOrder
    /\ ProcessedIsCredited
    /\ \A t \in Threads : at[t].pc = "credit" => OrderOf[at[t].ev] \in confirmed
    /\ \A t \in Threads : at[t].pc = "mark" => Credited(at[t].ev)

LEMMA CreditInit == Init => CreditInv
  BY DEF Init, CreditInv, OneCreditPerOrder, ProcessedIsCredited, Idle, NoRow

\* The steps that move no thread to a claim it has not earned.
Quiet ==
    /\ confirmed \subseteq confirmed'
    /\ ledger' = ledger
    /\ \A t \in Threads : at'[t] = at[t] \/ at'[t].pc \notin {"credit", "mark"}
    /\ \A e \in Events : inbox'[e].status = "PROCESSED" => inbox[e].status = "PROCESSED"

LEMMA QuietStep == CreditInv /\ Quiet => CreditInv'
  BY DEF CreditInv, Quiet, OneCreditPerOrder, ProcessedIsCredited, Credited

\* An exception earns nothing.
LEMMA RaiseIsQuiet ==
    ASSUME ControlOK, NEW t \in Threads, Raise(t) \/ Finish(t)
    PROVE  \A u \in Threads : at'[u] = at[u] \/ at'[u].pc \notin {"credit", "mark"}
<1>1. CASE at' = [at EXCEPT ![t] = Idle]
  BY <1>1 DEF ControlOK, Idle
<1>2. CASE at' = [at EXCEPT ![t].pc = "failed"]
  BY <1>2 DEF ControlOK, Ctl
<1> QED
  BY <1>1, <1>2 DEF Raise, Finish, Goto

LEMMA CreditStep == TypeOK /\ CreditInv /\ [Next]_vars => CreditInv'
<1> SUFFICES ASSUME TypeOK, ControlOK, TableOK, RestOK, CreditInv, [Next]_vars
             PROVE  CreditInv'
  BY TypeParts
<1> USE DEF outside, kafka
<1>1. ASSUME NEW o \in Orders, ConfirmOrder(o)
      PROVE  CreditInv'
  BY <1>1, QuietStep DEF Quiet, ConfirmOrder
<1>2. ASSUME NEW m \in Messages, Produce(m)
      PROVE  CreditInv'
  BY <1>2, QuietStep DEF Quiet, Produce
<1>3. ASSUME NEW w \in Workers, Assign(w) \/ CommitOffset(w) \/ Revoke \/ Scan(w)
      PROVE  CreditInv'
  BY <1>3, QuietStep DEF Quiet, Assign, CommitOffset, Revoke, Scan
<1>4. ASSUME NEW w \in Workers, Crash(w)
      PROVE  CreditInv'
  BY <1>4, QuietStep DEF Quiet, Crash, Idle
<1>5. ASSUME NEW w \in Workers, Fetch(w)
      PROVE  CreditInv'
  <2>1. <<"consumer", w>> \in Threads
    BY DEF Threads, Loops
  <2>2. \A u \in Threads : at'[u] = at[u] \/ at'[u].pc \notin {"credit", "mark"}
    <3>1. CASE Finish(<<"consumer", w>>)
      BY <2>1, <3>1, RaiseIsQuiet
    <3>2. CASE at' = [at EXCEPT ![<<"consumer", w>>] =
                        [pc |-> "upsert", ev |-> topic[pos[w] + 1]]]
      BY <3>2 DEF ControlOK
    <3> QED
      BY <1>5, <3>1, <3>2 DEF Fetch
  <2> QED
    BY <1>5, <2>2, QuietStep DEF Quiet, Fetch
<1>6. ASSUME NEW w \in Workers, UpsertInbox(w)
      PROVE  CreditInv'
  <2>1. \A u \in Threads : at'[u] = at[u] \/ at'[u].pc \notin {"credit", "mark"}
    BY <1>6 DEF UpsertInbox, Goto, ControlOK, Ctl
  <2>2. \A e \in Events : inbox'[e].status = "PROCESSED" => inbox[e].status = "PROCESSED"
    <3>1. NewRow(inbox).status = "PENDING"
      BY NewRowType DEF TableOK
    <3> QED
      BY <1>6, <3>1 DEF UpsertInbox, TableOK, Table
  <2> QED
    BY <1>6, <2>1, <2>2, QuietStep DEF Quiet, UpsertInbox
<1>7. ASSUME NEW t \in Threads, HandlerRead(t)
      PROVE  CreditInv'
  <2>1. CASE OrderOf[at[t].ev] \in confirmed
    <3>1. at' = [at EXCEPT ![t].pc = "credit"]
      BY <1>7, <2>1 DEF HandlerRead, Goto
    <3>2. UNCHANGED <<confirmed, ledger, inbox>>
      BY <1>7 DEF HandlerRead
    <3>3. \A u \in Threads : \/ at'[u] = at[u]
                             \/ u = t /\ at'[u].pc = "credit" /\ at'[u].ev = at[u].ev
      BY <3>1 DEF ControlOK, Ctl
    <3> QED
      BY <2>1, <3>2, <3>3 DEF CreditInv, OneCreditPerOrder, ProcessedIsCredited, Credited
  <2>2. CASE OrderOf[at[t].ev] \notin confirmed
    <3>1. Raise(t)
      BY <1>7, <2>2 DEF HandlerRead
    <3> QED
      BY <1>7, <3>1, RaiseIsQuiet, QuietStep DEF Quiet, HandlerRead
  <2> QED
    BY <2>1, <2>2
<1>8. ASSUME NEW t \in Threads, HandlerCredit(t)
      PROVE  CreditInv'
  <2> DEFINE o == OrderOf[at[t].ev]
  <2>1. o \in confirmed /\ o \in Orders
    BY <1>8 DEF HandlerCredit, CreditInv, RestOK
  <2>2. UNCHANGED <<confirmed, inbox>>
    BY <1>8 DEF HandlerCredit
  <2>3. CASE at' = [at EXCEPT ![t].pc = "mark"] /\ ledger'[o] = 1
                /\ \A p \in Orders : p # o => ledger'[p] = ledger[p]
    <3>1. \A u \in Threads : \/ at'[u] = at[u]
                             \/ u = t /\ at'[u].pc = "mark" /\ at'[u].ev = at[u].ev
      BY <2>3 DEF ControlOK, Ctl
    <3>2. \A e \in Events \cup {None} : Credited(e) => Credited(e)'
      BY <2>3 DEF Credited
    <3>3. Credited(at[t].ev)'
      BY <1>8, <2>1, <2>3, <3>1 DEF Credited
    <3>4. OneCreditPerOrder'
      BY <2>3 DEF CreditInv, OneCreditPerOrder
    <3>5. ProcessedIsCredited'
      BY <2>2, <3>2 DEF CreditInv, ProcessedIsCredited
    <3>6. \A u \in Threads : at'[u].pc = "mark" => Credited(at[u].ev)'
      <4> SUFFICES ASSUME NEW u \in Threads, at'[u].pc = "mark"
                   PROVE  Credited(at[u].ev)'
        OBVIOUS
      <4>1. CASE at'[u] = at[u]
        <5>1. Credited(at[u].ev) /\ at[u].ev \in Events \cup {None}
          BY <4>1 DEF CreditInv, ControlOK, Ctl
        <5> QED
          BY <4>1, <2>3, <5>1 DEF Credited
      <4>2. CASE u = t
        BY <3>3, <4>2
      <4> QED
        BY <3>1, <4>1, <4>2
    <3>8. \A u \in Threads : at'[u].pc = "credit" => OrderOf[at'[u].ev] \in confirmed'
      BY <2>2, <3>1 DEF CreditInv
    <3> QED
      BY <3>4, <3>5, <3>6, <3>8 DEF CreditInv
  <2>4. CASE Raise(t) /\ ledger' = ledger
    BY <2>2, <2>4, RaiseIsQuiet, QuietStep DEF Quiet
  <2>5. ledger[o] \in Nat /\ ledger[o] <= 1
    BY <2>1 DEF CreditInv, OneCreditPerOrder, RestOK
  <2>6. CASE ~UniqueViolation(o) /\ ledger' = [ledger EXCEPT ![o] = @ + 1] /\ Goto(t, "mark")
    BY <2>1, <2>3, <2>5, <2>6 DEF UniqueViolation, Goto, RestOK
  <2>7. CASE UniqueViolation(o) /\ ledger' = ledger /\ Goto(t, "mark")
    BY <2>1, <2>3, <2>5, <2>7 DEF UniqueViolation, Goto, RestOK
  <2> QED
    BY <1>8, <2>4, <2>6, <2>7 DEF HandlerCredit
<1>9. ASSUME NEW t \in Threads, MarkProcessed(t)
      PROVE  CreditInv'
  <2>1. Credited(at[t].ev)
    BY <1>9 DEF MarkProcessed, CreditInv
  <2>2. \A e \in Events : inbox'[e].status = "PROCESSED"
                             => inbox[e].status = "PROCESSED" \/ e = at[t].ev
    BY <1>9 DEF MarkProcessed, TableOK, Table
  <2>3. \A u \in Threads : at'[u] = at[u] \/ at'[u].pc \notin {"credit", "mark"}
    BY <1>9, RaiseIsQuiet DEF MarkProcessed
  <2>4. UNCHANGED <<confirmed, ledger>>
    BY <1>9 DEF MarkProcessed
  <2> QED
    BY <2>1, <2>2, <2>3, <2>4
       DEF CreditInv, OneCreditPerOrder, ProcessedIsCredited, Credited
<1>10. ASSUME NEW t \in Threads, CallThrows(t)
       PROVE  CreditInv'
  BY <1>10, RaiseIsQuiet, QuietStep DEF Quiet, CallThrows
<1>11. ASSUME NEW w \in Workers, Take(w)
       PROVE  CreditInv'
  <2>1. \A u \in Threads : at'[u] = at[u] \/ at'[u].pc \notin {"credit", "mark"}
    BY <1>11 DEF Take, ControlOK
  <2> QED
    BY <1>11, <2>1, QuietStep DEF Quiet, Take
<1>12. ASSUME NEW w \in Workers, CountAttempt(w) \/ GiveUp(w)
       PROVE  CreditInv'
  <2>1. \A u \in Threads : at'[u] = at[u] \/ at'[u].pc \notin {"credit", "mark"}
    <3>1. PICK pc \in {"giveup", "backoff", "dlq"} :
             at' = [at EXCEPT ![<<"retry", w>>].pc = pc]
      BY <1>12 DEF CountAttempt, GiveUp, Goto
    <3> QED
      BY <3>1 DEF ControlOK, Ctl
  <2>2. \A e \in Events : inbox'[e].status = "PROCESSED" => inbox[e].status = "PROCESSED"
    BY <1>12 DEF CountAttempt, GiveUp, Bumped, TableOK, Table, RowType
  <2> QED
    BY <1>12, <2>1, <2>2, QuietStep DEF Quiet, CountAttempt, GiveUp
<1>13. ASSUME NEW w \in Workers, SendDlq(w) \/ BackOff(w)
       PROVE  CreditInv'
  <2>1. <<"retry", w>> \in Threads
    BY DEF Threads, Loops
  <2>2. \A u \in Threads : at'[u] = at[u] \/ at'[u].pc \notin {"credit", "mark"}
    BY <1>13, <2>1, RaiseIsQuiet DEF SendDlq, BackOff
  <2>3. \A e \in Events : inbox'[e].status = "PROCESSED" => inbox[e].status = "PROCESSED"
    BY <1>13 DEF SendDlq, BackOff, TableOK, Table, RowType
  <2> QED
    BY <1>13, <2>2, <2>3, QuietStep DEF Quiet, SendDlq, BackOff
<1>14. ASSUME NEW e \in Events, Elapse(e) \/ ReplayRow(e)
       PROVE  CreditInv'
  <2>1. \A f \in Events : inbox'[f].status = "PROCESSED" => inbox[f].status = "PROCESSED"
    BY <1>14 DEF Elapse, ReplayRow, TableOK, Table, RowType
  <2> QED
    BY <1>14, <2>1, QuietStep DEF Quiet, Elapse, ReplayRow
<1>15. ASSUME NEW S \in Selections, NEW r \in BOOLEAN, ReplayStart(S, r)
       PROVE  CreditInv'
  BY <1>15, QuietStep DEF Quiet, ReplayStart
<1>16. CASE UNCHANGED vars
  BY <1>16, QuietStep DEF Quiet, vars
<1>17. CASE Revoke
  BY <1>17, QuietStep DEF Quiet, Revoke
<1>18. ASSUME NEW t \in Threads, AnswerLost(t)
       PROVE  CreditInv'
  <2> DEFINE e == at[t].ev
             o == OrderOf[e]
  <2>1. \A u \in Threads : at'[u] = at[u] \/ at'[u].pc \notin {"credit", "mark"}
    BY <1>18, RaiseIsQuiet DEF AnswerLost
  <2>2. UNCHANGED confirmed
    BY <1>18 DEF AnswerLost
  <2>3. CASE UNCHANGED ledger
    <3>1. NewRow(inbox).status = "PENDING"
      BY NewRowType DEF TableOK
    <3>2. at[t].pc = "mark" => Credited(e)
      BY <1>18 DEF CreditInv
    <3>4. \A f \in Events : f # e => inbox'[f] = inbox[f]
      BY <1>18 DEF AnswerLost, TableOK, Table
    <3>5. e \in Events /\ inbox'[e].status = "PROCESSED" =>
             inbox[e].status = "PROCESSED" \/ at[t].pc = "mark"
      BY <1>18, <3>1 DEF AnswerLost, TableOK, Table
    <3>3. \A f \in Events : inbox'[f].status = "PROCESSED" =>
              inbox[f].status = "PROCESSED" \/ (f = e /\ at[t].pc = "mark")
      BY <3>4, <3>5
    <3> QED
      BY <2>1, <2>2, <2>3, <3>2, <3>3
         DEF CreditInv, OneCreditPerOrder, ProcessedIsCredited, Credited
  <2>4. CASE ledger' # ledger
    <3>1. at[t].pc = "credit" /\ ~UniqueViolation(o) /\ inbox' = inbox
          /\ ledger' = [ledger EXCEPT ![o] = @ + 1]
      BY <1>18, <2>4 DEF AnswerLost
    <3>2. o \in Orders /\ ledger[o] = 0
      BY <3>1 DEF CreditInv, RestOK, UniqueViolation
    <3>3. ledger'[o] = 1 /\ \A p \in Orders : p # o => ledger'[p] = ledger[p]
      BY <3>1, <3>2 DEF RestOK
    <3>4. \A f : Credited(f) => Credited(f)'
      BY <3>3 DEF Credited
    <3> QED
      BY <2>1, <2>2, <3>1, <3>3, <3>4 DEF CreditInv, OneCreditPerOrder, ProcessedIsCredited
  <2> QED
    BY <2>3, <2>4
<1> QED
  BY <1>1, <1>2, <1>3, <1>4, <1>5, <1>6, <1>7, <1>8, <1>9, <1>10, <1>11, <1>12,
     <1>13, <1>14, <1>15, <1>16, <1>17, <1>18
     DEF Next, ConsumerStep, RetryStep, HandlerStep, Replay, Threads, Loops

\* No order is ever credited twice: not by a redelivered message, not by the
\* consumer and the retry loop at once, not by two workers, not by a replay.
THEOREM CreditedOnce == Spec => []OneCreditPerOrder
<1>1. CreditInv => OneCreditPerOrder
  BY DEF CreditInv
<1> QED
  BY <1>1, TypeInit, TypeStep, CreditInit, CreditStep, PTL DEF Spec

\* A row the worker has marked PROCESSED has its credit in the ledger.
THEOREM ProcessedMeansCredited == Spec => []ProcessedIsCredited
<1>1. CreditInv => ProcessedIsCredited
  BY DEF CreditInv
<1> QED
  BY <1>1, TypeInit, TypeStep, CreditInit, CreditStep, PTL DEF Spec

LEMMA LedgerStep == TypeOK /\ CreditInv /\ [Next]_vars => [Ledger!Next]_(Ledger!vars)
<1> SUFFICES ASSUME RestOK, CreditInv, [Next]_vars
             PROVE  [Ledger!Next]_(Ledger!vars)
  BY TypeParts
<1> USE DEF outside, kafka
<1>1. ASSUME NEW o \in Orders, ConfirmOrder(o)
      PROVE  Ledger!Confirm(o)
  BY <1>1 DEF ConfirmOrder, Ledger!Confirm
<1>2. ASSUME NEW t \in Threads, HandlerCredit(t) \/ AnswerLost(t), ledger' # ledger
      PROVE  OrderOf[at[t].ev] \in Orders /\ Ledger!Credit(OrderOf[at[t].ev])
  <2> DEFINE o == OrderOf[at[t].ev]
  <2>1. o \in confirmed /\ o \in Orders
    BY <1>2 DEF HandlerCredit, AnswerLost, CreditInv, RestOK
  <2>2. ledger[o] = 0
    BY <1>2, <2>1 DEF HandlerCredit, AnswerLost, UniqueViolation, RestOK
  <2>3. ledger' = [ledger EXCEPT ![o] = 1] /\ UNCHANGED confirmed
    BY <1>2, <2>2 DEF HandlerCredit, AnswerLost
  <2> QED
    BY <2>1, <2>2, <2>3 DEF Ledger!Credit
<1>3. ASSUME NEW t \in Threads, HandlerCredit(t) \/ AnswerLost(t), ledger' = ledger
      PROVE  UNCHANGED <<confirmed, ledger>>
  BY <1>3 DEF HandlerCredit, AnswerLost
<1>4. ASSUME NEW w \in Workers,
             \/ Assign(w) \/ CommitOffset(w) \/ Crash(w) \/ Fetch(w) \/ UpsertInbox(w)
             \/ Scan(w) \/ Take(w) \/ CountAttempt(w) \/ GiveUp(w) \/ SendDlq(w)
             \/ BackOff(w)
      PROVE  UNCHANGED <<confirmed, ledger>>
  BY <1>4 DEF Assign, CommitOffset, Crash, Fetch, UpsertInbox, Scan, Take,
              CountAttempt, GiveUp, SendDlq, BackOff
<1>5. ASSUME NEW t \in Threads, HandlerRead(t) \/ MarkProcessed(t) \/ CallThrows(t)
      PROVE  UNCHANGED <<confirmed, ledger>>
  BY <1>5 DEF HandlerRead, MarkProcessed, CallThrows
<1>6. CASE Revoke \/ (\E m \in Messages : Produce(m)) \/ (\E e \in Events : Elapse(e))
  BY <1>6 DEF Revoke, Produce, Elapse, Ledger!vars
<1>7. CASE Replay \/ UNCHANGED vars
  BY <1>7 DEF Replay, ReplayStart, ReplayRow, vars, Ledger!vars
<1> QED
  BY <1>1, <1>2, <1>3, <1>4, <1>5, <1>6, <1>7
     DEF Next, ConsumerStep, RetryStep, HandlerStep, Threads, Loops, Ledger!Next, Ledger!vars

\* The worker implements the ledger's promise: seen from the orders and the
\* ledger alone, its every step is a confirmation, the one credit of a
\* confirmed order, or nothing.
THEOREM ImplementsLedger == Spec => LedgerSpec
<1>1. Init => Ledger!Init
  BY DEF Init, Ledger!Init
<1> QED
  BY <1>1, TypeInit, TypeStep, CreditInit, CreditStep, LedgerStep, PTL
     DEF Spec, LedgerSpec, Ledger!Spec

-----------------------------------------------------------------------------
(* The offset. *)

\* The relevant messages before offset n have a row.
RowsUpTo(n) == \A i \in 1..n : topic[i] # Noise => topic[i] \in Existing(inbox)

\* Why ConsumedHasRow holds when the upsert does not throw: a worker resolves
\* an offset only past a message it holds, and it holds it until the row is
\* there; what it resolved bounds what it commits.
HoldsOn(w, c) ==
    /\ pos[w] <= Len(topic) /\ RowsUpTo(pos[w])
    /\ c.pc \in {"idle", "upsert", "read", "credit", "mark"}
    /\ c.pc # "idle" => pos[w] < Len(topic) /\ c.ev = topic[pos[w] + 1]
    /\ c.pc \in {"read", "credit", "mark"} => c.ev \in Existing(inbox)

OffsetInv ==
    /\ committed <= Len(topic) /\ RowsUpTo(committed)
    /\ \A w \in Workers : HoldsOn(w, at[<<"consumer", w>>])

LEMMA OffsetInit == Init => OffsetInv
  BY DEF Init, OffsetInv, HoldsOn, RowsUpTo, Idle, Threads, Loops

\* No step removes a row from the inbox.
LEMMA RowsStay == TypeOK /\ [Next]_vars => Existing(inbox) \subseteq Existing(inbox')
<1> SUFFICES ASSUME TypeOK, TableOK, [Next]_vars, NEW e \in Existing(inbox)
             PROVE  e \in Existing(inbox')
  BY TypeParts
<1> USE DEF outside, kafka
<1>1. e \in Events /\ inbox[e].status # "ABSENT" /\ DOMAIN inbox = Events
  BY DEF TableOK, Table, Existing
<1>2. TableOK'
  BY TypeStep, TypeParts
<1>3. inbox'[e].status # "ABSENT"
  <2>1. ASSUME NEW w \in Workers, UpsertInbox(w)
        PROVE  inbox'[e].status # "ABSENT"
    BY <2>1, <1>1, NewRowType DEF UpsertInbox, TableOK
  <2>2. ASSUME NEW t \in Threads, MarkProcessed(t) \/ AnswerLost(t)
        PROVE  inbox'[e].status # "ABSENT"
    BY <2>2, <1>1 DEF MarkProcessed, AnswerLost, TableOK, Table, RowType
  <2>3. ASSUME NEW w \in Workers, CountAttempt(w) \/ GiveUp(w) \/ BackOff(w)
        PROVE  inbox'[e].status # "ABSENT"
    <3>1. \A f \in Events : inbox[f] \in RowType(Statuses)
      BY DEF TableOK, Table
    <3>2. PICK f : inbox' = [inbox EXCEPT ![f] = Bumped(inbox[f])]
                   \/ inbox' = [inbox EXCEPT ![f].status = "FAILED"]
                   \/ inbox' = [inbox EXCEPT ![f].due = FALSE]
      BY <2>3 DEF CountAttempt, GiveUp, BackOff
    <3> QED
      BY <1>1, <3>1, <3>2 DEF Bumped, RowType
  <2>4. ASSUME NEW f \in Events, Elapse(f) \/ ReplayRow(f)
        PROVE  inbox'[e].status # "ABSENT"
    BY <2>4, <1>1 DEF Elapse, ReplayRow, TableOK, Table, RowType
  <2>5. CASE inbox' = inbox
    BY <2>5, <1>1
  <2> QED
    BY <2>1, <2>2, <2>3, <2>4, <2>5
       DEF Next, ConsumerStep, RetryStep, HandlerStep, Replay, Threads, Loops, vars,
           ConfirmOrder, Produce, Assign, CommitOffset, Crash, Revoke, Fetch,
           HandlerRead, HandlerCredit, CallThrows, Scan, Take, SendDlq, ReplayStart
<1> QED
  BY <1>1, <1>2, <1>3 DEF TableOK, Table, Existing

\* Steps that resolve and commit nothing.
LEMMA OffsetKept ==
    ASSUME OffsetInv, Existing(inbox) \subseteq Existing(inbox'),
           UNCHANGED <<topic, committed, pos>>,
           \A w \in Workers : at'[<<"consumer", w>>] \in {at[<<"consumer", w>>], Idle}
    PROVE  OffsetInv'
  BY DEF OffsetInv, HoldsOn, RowsUpTo, Idle

\* The consumer returns, normally or with a swallowed exception.
LEMMA OffsetResolved ==
    ASSUME TypeOK, OffsetInv, Existing(inbox) \subseteq Existing(inbox'),
           UNCHANGED <<topic, committed>>, NEW w \in Workers,
           Finish(<<"consumer", w>>),
           pos[w] < Len(topic),
           topic[pos[w] + 1] # Noise => topic[pos[w] + 1] \in Existing(inbox)
    PROVE  OffsetInv'
<1>1. <<"consumer", w>> \in Threads
  BY DEF Threads, Loops
<1>2. pos' = [pos EXCEPT ![w] = @ + 1] /\ at' = [at EXCEPT ![<<"consumer", w>>] = Idle]
  BY DEF Finish
<1>3. RowsUpTo(committed)' /\ committed' <= Len(topic')
  BY DEF OffsetInv, RowsUpTo
<1>4. ASSUME NEW v \in Workers, v # w
      PROVE  HoldsOn(v, at[<<"consumer", v>>])'
  <2>1. pos'[v] = pos[v] /\ at'[<<"consumer", v>>] = at[<<"consumer", v>>]
    BY <1>1, <1>2, <1>4 DEF TypeOK, Threads, Loops
  <2> QED
    BY <2>1 DEF OffsetInv, HoldsOn, RowsUpTo
<1>5. HoldsOn(w, at[<<"consumer", w>>])'
  <2>1. pos'[w] = pos[w] + 1 /\ pos[w] \in Nat /\ at'[<<"consumer", w>>] = Idle
    BY <1>1, <1>2 DEF TypeOK
  <2>2. RowsUpTo(pos[w])
    BY DEF OffsetInv, HoldsOn
  <2>3. Len(topic) \in Nat
    BY DEF TypeOK
  <2>4. ASSUME NEW i \in 1..(pos[w] + 1), topic[i] # Noise
        PROVE  topic[i] \in Existing(inbox')
    <3>1. CASE i = pos[w] + 1
      BY <3>1, <2>4
    <3>2. CASE i \in 1..pos[w]
      BY <3>2, <2>2, <2>4 DEF RowsUpTo
    <3> QED
      BY <2>1, <3>1, <3>2
  <2> QED
    BY <2>1, <2>3, <2>4 DEF HoldsOn, RowsUpTo, Idle
<1> QED
  BY <1>3, <1>4, <1>5 DEF OffsetInv

\* The consumer moves on within a message whose row is there.
LEMMA OffsetMoved ==
    ASSUME TypeOK, OffsetInv, Existing(inbox) \subseteq Existing(inbox'),
           UNCHANGED <<topic, committed, pos>>, NEW w \in Workers,
           NEW pc \in {"read", "credit", "mark"},
           at' = [at EXCEPT ![<<"consumer", w>>].pc = pc],
           at[<<"consumer", w>>].pc # "idle",
           at[<<"consumer", w>>].ev \in Existing(inbox')
    PROVE  OffsetInv'
<1>1. <<"consumer", w>> \in Threads
  BY DEF Threads, Loops
<1>2. ASSUME NEW v \in Workers, v # w
      PROVE  HoldsOn(v, at[<<"consumer", v>>])'
  <2>1. at'[<<"consumer", v>>] = at[<<"consumer", v>>]
    BY <1>1, <1>2 DEF TypeOK, Threads, Loops
  <2> QED
    BY <2>1 DEF OffsetInv, HoldsOn, RowsUpTo
<1>3. HoldsOn(w, at[<<"consumer", w>>])'
  <2>1. at'[<<"consumer", w>>].pc = pc /\ at'[<<"consumer", w>>].ev = at[<<"consumer", w>>].ev
    BY <1>1 DEF TypeOK, Ctl
  <2> QED
    BY <2>1 DEF OffsetInv, HoldsOn, RowsUpTo
<1> QED
  BY <1>2, <1>3 DEF OffsetInv, RowsUpTo

\* Whatever a retry thread does, no consumer moves.
LEMMA RetryMovesRetry ==
    ASSUME TypeOK, NEW w \in Workers, NEW x, NEW pc,
           at' \in {[at EXCEPT ![<<"retry", w>>] = x], [at EXCEPT ![<<"retry", w>>].pc = pc]}
    PROVE  \A v \in Workers : at'[<<"consumer", v>>] = at[<<"consumer", v>>]
  BY DEF TypeOK, Threads, Loops

LEMMA OffsetStep ==
    ASSUME "upsert" \notin ThrowAt, TypeOK, OffsetInv, [Next]_vars
    PROVE  OffsetInv'
<1> USE DEF outside, kafka
<1>rows. Existing(inbox) \subseteq Existing(inbox')
  BY RowsStay
<1>1. CASE \/ \E o \in Orders : ConfirmOrder(o)
           \/ Revoke
           \/ \E e \in Events : Elapse(e)
           \/ Replay
           \/ UNCHANGED vars
  BY <1>1, <1>rows, OffsetKept
     DEF ConfirmOrder, Revoke, Elapse, Replay, ReplayStart, ReplayRow, vars
<1>2. ASSUME NEW m \in Messages, Produce(m)
      PROVE  OffsetInv'
  <2>1. topic' = Append(topic, m) /\ topic \in Seq(Messages)
    BY <1>2 DEF Produce, TypeOK
  <2>2. Len(topic') = Len(topic) + 1 /\ \A i \in 1..Len(topic) : topic'[i] = topic[i]
    BY <2>1
  <2>3. UNCHANGED <<committed, pos, at, inbox>>
    BY <1>2 DEF Produce
  <2> QED
    BY <2>1, <2>2, <2>3 DEF OffsetInv, HoldsOn, RowsUpTo, TypeOK
<1>3. ASSUME NEW w \in Workers, Assign(w)
      PROVE  OffsetInv'
  <2>1. /\ pos' = [pos EXCEPT ![w] = committed] /\ at[<<"consumer", w>>].pc = "idle"
        /\ UNCHANGED <<topic, committed, at, inbox>>
    BY <1>3 DEF Assign
  <2>2. \A v \in Workers : pos'[v] = IF v = w THEN committed ELSE pos[v]
    BY <2>1 DEF TypeOK
  <2> QED
    BY <2>1, <2>2 DEF OffsetInv, HoldsOn, RowsUpTo
<1>4. ASSUME NEW w \in Workers, CommitOffset(w)
      PROVE  OffsetInv'
  BY <1>4 DEF CommitOffset, OffsetInv, HoldsOn, RowsUpTo
<1>5. ASSUME NEW w \in Workers, Crash(w)
      PROVE  OffsetInv'
  <2>1. \A v \in Workers : at'[<<"consumer", v>>] \in {at[<<"consumer", v>>], Idle}
    BY <1>5 DEF Crash, Threads, Loops
  <2> QED
    BY <1>5, <1>rows, <2>1, OffsetKept DEF Crash
<1>6. ASSUME NEW w \in Workers, Fetch(w)
      PROVE  OffsetInv'
  <2> DEFINE t == <<"consumer", w>>
  <2>1. /\ pos[w] < Len(topic) /\ UNCHANGED <<topic, committed, inbox>>
    BY <1>6 DEF Fetch
  <2>2. CASE topic[pos[w] + 1] = Noise
    BY <1>6, <1>rows, <2>1, <2>2, OffsetResolved DEF Fetch
  <2>3. CASE topic[pos[w] + 1] # Noise
    <3>1. at' = [at EXCEPT ![t] = [pc |-> "upsert", ev |-> topic[pos[w] + 1]]] /\ pos' = pos
      BY <1>6, <2>3 DEF Fetch
    <3>2. t \in Threads /\ \A v \in Workers : <<"consumer", v>> \in Threads
      BY DEF Threads, Loops
    <3>3. \A v \in Workers : v # w => at'[<<"consumer", v>>] = at[<<"consumer", v>>]
      BY <3>1, <3>2 DEF TypeOK
    <3>4. at'[t] = [pc |-> "upsert", ev |-> topic[pos[w] + 1]]
      BY <3>1, <3>2 DEF TypeOK
    <3>5. \A v \in Workers : HoldsOn(v, at[<<"consumer", v>>])'
      <4>1. ASSUME NEW v \in Workers, v # w
            PROVE  HoldsOn(v, at[<<"consumer", v>>])'
        BY <2>1, <3>1, <3>3, <4>1 DEF OffsetInv, HoldsOn, RowsUpTo
      <4>2. HoldsOn(w, at[t])'
        BY <2>1, <3>1, <3>4 DEF OffsetInv, HoldsOn, RowsUpTo
      <4> QED
        BY <4>1, <4>2
    <3> QED
      BY <2>1, <3>5 DEF OffsetInv, RowsUpTo
  <2> QED
    BY <2>2, <2>3
<1>7. ASSUME NEW w \in Workers, UpsertInbox(w)
      PROVE  OffsetInv'
  <2> DEFINE t == <<"consumer", w>>
             e == at[t].ev
  <2>1. t \in Threads /\ e \in Events
    BY <1>7, ControlMoves, TypeParts DEF Threads, Loops, UpsertInbox
  <2>2. e \in Existing(inbox')
    <3>1. CASE e \in Existing(inbox)
      BY <3>1, <1>rows
    <3>2. CASE e \notin Existing(inbox)
      <4>1. inbox' = [inbox EXCEPT ![e] = NewRow(inbox)] /\ inbox \in Table
        BY <1>7, <3>2, TypeParts DEF UpsertInbox, TableOK
      <4> QED
        BY <2>1, <4>1, NewRowType DEF Table, Existing
    <3> QED
      BY <3>1, <3>2
  <2> QED
    BY <1>7, <1>rows, <2>2, OffsetMoved DEF UpsertInbox, Goto
<1>8. ASSUME NEW w \in Workers, NEW t \in {<<"consumer", w>>},
             \/ HandlerRead(t) \/ HandlerCredit(t) \/ MarkProcessed(t) \/ CallThrows(t) \/ AnswerLost(t)
      PROVE  OffsetInv'
  <2>1. /\ at[t].pc \in {"read", "credit", "mark"}
        /\ UNCHANGED <<topic, committed>>
    BY <1>8, ConstantsAssumption
       DEF HandlerRead, HandlerCredit, MarkProcessed, CallThrows, AnswerLost, Calls
  <2>2. pos[w] < Len(topic) /\ at[t].ev = topic[pos[w] + 1] /\ at[t].ev \in Existing(inbox)
    BY <2>1 DEF OffsetInv, HoldsOn
  <2>3. CASE Finish(t)
    BY <1>rows, <2>1, <2>2, <2>3, OffsetResolved
  <2>4. CASE (Goto(t, "credit") \/ Goto(t, "mark")) /\ UNCHANGED pos
    BY <1>rows, <2>1, <2>2, <2>4, OffsetMoved DEF Goto
  <2> QED
    BY <1>8, <2>3, <2>4
       DEF HandlerRead, HandlerCredit, MarkProcessed, CallThrows, AnswerLost, Raise
<1>9. ASSUME NEW w \in Workers, NEW t \in {<<"retry", w>>},
             \/ HandlerRead(t) \/ HandlerCredit(t) \/ MarkProcessed(t) \/ CallThrows(t) \/ AnswerLost(t)
      PROVE  OffsetInv'
  <2>1. UNCHANGED <<topic, committed, pos>>
    BY <1>9 DEF HandlerRead, HandlerCredit, MarkProcessed, CallThrows, AnswerLost, Raise, Finish
  <2>2. \E pc \in {"credit", "mark", "failed"} :
           at' \in {[at EXCEPT ![t] = Idle], [at EXCEPT ![t].pc = pc]}
    BY <1>9 DEF HandlerRead, HandlerCredit, MarkProcessed, CallThrows, AnswerLost, Raise,
                Finish, Goto
  <2>3. \A v \in Workers : at'[<<"consumer", v>>] = at[<<"consumer", v>>]
    BY <2>2, RetryMovesRetry
  <2> QED
    BY <1>rows, <2>1, <2>3, OffsetKept
<1>10. ASSUME NEW w \in Workers,
              \/ Scan(w) \/ Take(w) \/ CountAttempt(w) \/ GiveUp(w) \/ SendDlq(w) \/ BackOff(w)
       PROVE  OffsetInv'
  <2>1. UNCHANGED <<topic, committed, pos>>
    BY <1>10 DEF Scan, Take, CountAttempt, GiveUp, SendDlq, BackOff, Finish
  <2>2. \/ at' = at
        \/ \E x, pc : at' \in {[at EXCEPT ![<<"retry", w>>] = x],
                               [at EXCEPT ![<<"retry", w>>].pc = pc]}
    <3>1. CASE Scan(w) \/ GiveUp(w) \/ SendDlq(w) \/ BackOff(w)
      BY <3>1 DEF Scan, GiveUp, SendDlq, BackOff, Finish, Goto
    <3>2. CASE Take(w)
      BY <3>2 DEF Take
    <3>3. CASE CountAttempt(w)
      BY <3>3 DEF CountAttempt, Goto
    <3> QED
      BY <1>10, <3>1, <3>2, <3>3
  <2>3. \A v \in Workers : at'[<<"consumer", v>>] = at[<<"consumer", v>>]
    BY <2>2, RetryMovesRetry
  <2> QED
    BY <1>rows, <2>1, <2>3, OffsetKept
<1>11. ASSUME NEW t \in Threads,
              \/ HandlerRead(t) \/ HandlerCredit(t) \/ MarkProcessed(t) \/ CallThrows(t) \/ AnswerLost(t)
       PROVE  OffsetInv'
  <2>1. PICK w \in Workers : t = <<"consumer", w>> \/ t = <<"retry", w>>
    BY DEF Threads, Loops
  <2> QED
    BY <2>1, <1>8, <1>9, <1>11
<1>12. ASSUME NEW w \in Workers, ConsumerStep(w) \/ RetryStep(w)
       PROVE  OffsetInv'
  <2>1. <<"consumer", w>> \in Threads /\ <<"retry", w>> \in Threads
    BY DEF Threads, Loops
  <2> QED
    BY <2>1, <1>6, <1>7, <1>10, <1>11, <1>12 DEF ConsumerStep, RetryStep, HandlerStep
<1> QED
  BY <1>1, <1>2, <1>3, <1>4, <1>5, <1>11, <1>12 DEF Next

\* As long as the upsert itself does not throw, no OrderConfirmed message is
\* committed without an inbox row, under any crash, rebalance and redelivery.
THEOREM ConsumedIsDurable ==
    ASSUME "upsert" \notin ThrowAt
    PROVE  Spec => []ConsumedHasRow
<1>1. OffsetInv => ConsumedHasRow
  BY DEF OffsetInv, RowsUpTo, ConsumedHasRow
<1>2. TypeOK /\ OffsetInv /\ [Next]_vars => OffsetInv'
  BY OffsetStep
<1> QED
  BY <1>1, <1>2, TypeInit, TypeStep, OffsetInit, PTL DEF Spec

-----------------------------------------------------------------------------
(* Giving up. *)

\* The retry loop of a worker.
Loop(w) == at[<<"retry", w>>]

\* The retry loop only handles rows that exist.
HeldExist == \A w \in Workers : Loop(w).pc # "idle" => Loop(w).ev \in Existing(inbox)

\* Why FailedOnlyWhenExhausted holds: the loop decides on the attempts it has
\* just counted, and without a replay nobody lowers them again.
FailedInv ==
    replays = 0 =>
       /\ DOMAIN cli = {}
       /\ \A e \in Events : inbox[e].status = "FAILED" => inbox[e].attempts >= MaxAttempts
       /\ \A w \in Workers : Loop(w).pc = "giveup" => inbox[Loop(w).ev].attempts >= MaxAttempts

GiveUpInv == HeldExist /\ FailedInv

\* A loop that stays where it is, drops its row, or goes on with it and does
\* not decide to give it up.
Onward(w) == \/ Loop(w)' = Loop(w)
             \/ Loop(w)'.pc = "idle"
             \/ Loop(w).pc # "idle" /\ Loop(w)'.pc # "giveup" /\ Loop(w)'.ev = Loop(w).ev

LEMMA ThreadGoesOnward ==
    ASSUME TypeOK, NEW t \in Threads, at[t].pc # "idle",
           \/ Finish(t) \/ Raise(t)
           \/ \E pc \in {"read", "credit", "mark", "failed", "dlq", "backoff"} : Goto(t, pc)
    PROVE  \A w \in Workers : Onward(w)
<1>1. at \in [Threads -> Ctl]
  BY DEF TypeOK
<1>2. \A u \in Threads : u # t => at'[u] = at[u]
  BY <1>1 DEF Finish, Raise, Goto
<1>3. \/ at'[t].pc = "idle"
      \/ at'[t].pc # "giveup" /\ at'[t].ev = at[t].ev
  BY <1>1 DEF Finish, Raise, Goto, Idle, Ctl
<1>4. \A w \in Workers : <<"retry", w>> \in Threads
  BY DEF Threads, Loops
<1> QED
  BY <1>2, <1>3, <1>4 DEF Onward, Loop

\* Steps after which no row that exists has fewer attempts, none is newly
\* FAILED, and no loop newly handles a row or gives one up.
LEMMA GiveUpFrame ==
    ASSUME TypeOK, TypeOK', GiveUpInv, UNCHANGED <<cli, replays>>,
           \A e \in Existing(inbox) :
              e \in Existing(inbox)' /\ inbox'[e].attempts >= inbox[e].attempts,
           \A e \in Events : inbox'[e].status = "FAILED" => inbox[e].status = "FAILED",
           \A w \in Workers : Onward(w)
    PROVE  GiveUpInv'
<1>1. /\ \A e \in Events : inbox[e].attempts \in Nat /\ inbox'[e].attempts \in Nat
      /\ Existing(inbox) = {e \in Events : inbox[e].status # "ABSENT"}
      /\ MaxAttempts \in Nat
  BY ConstantsAssumption DEF TypeOK, RowType, Existing
<1>2. HeldExist'
  BY DEF GiveUpInv, HeldExist, Onward
<1>3. ASSUME replays = 0, NEW e \in Events, inbox'[e].status = "FAILED"
      PROVE  inbox'[e].attempts >= MaxAttempts
  <2>1. e \in Existing(inbox) /\ inbox[e].attempts >= MaxAttempts
    BY <1>1, <1>3 DEF GiveUpInv, FailedInv
  <2> QED
    BY <1>1, <2>1
<1>4. ASSUME replays = 0, NEW w \in Workers, Loop(w)'.pc = "giveup"
      PROVE  inbox'[Loop(w)'.ev].attempts >= MaxAttempts
  <2>1. Loop(w)' = Loop(w)
    BY <1>4 DEF Onward
  <2>2. Loop(w).ev \in Existing(inbox)
    BY <1>4, <2>1 DEF GiveUpInv, HeldExist
  <2>3. inbox[Loop(w).ev].attempts >= MaxAttempts
    BY <1>4, <2>1 DEF GiveUpInv, FailedInv
  <2> QED
    BY <1>1, <2>1, <2>2, <2>3
<1> QED
  BY <1>2, <1>3, <1>4 DEF GiveUpInv, FailedInv

LEMMA GiveUpStep == TypeOK /\ GiveUpInv /\ [Next]_vars => GiveUpInv'
<1> SUFFICES ASSUME TypeOK, GiveUpInv, [Next]_vars PROVE GiveUpInv'
  OBVIOUS
<1> USE DEF outside, kafka
<1>typ. TypeOK' /\ Existing(inbox) \subseteq Existing(inbox)'
  BY TypeStep, RowsStay
<1>row. /\ \A e \in Events : /\ inbox[e] \in RowType(Statuses)
                             /\ inbox[e].attempts \in Nat
                             /\ inbox[e].attempts >= inbox[e].attempts
        /\ inbox \in [Events -> RowType(Statuses)]
        /\ Existing(inbox) \subseteq Events
        /\ \A e \in Existing(inbox) : inbox[e].status # "ABSENT"
  BY DEF TypeOK, RowType, Statuses, Existing
<1>at. at \in [Threads -> Ctl] /\ \A w \in Workers : <<"retry", w>> \in Threads
  BY DEF TypeOK, Threads, Loops
<1>same. ASSUME UNCHANGED <<inbox, cli, replays>>, \A w \in Workers : Onward(w)
         PROVE  GiveUpInv'
  BY <1>same, <1>typ, <1>row, GiveUpFrame
<1>1. CASE \/ \E o \in Orders : ConfirmOrder(o)
           \/ \E m \in Messages : Produce(m)
           \/ \E w \in Workers : Assign(w) \/ CommitOffset(w) \/ Scan(w)
           \/ Revoke
           \/ UNCHANGED vars
  <2>1. UNCHANGED <<inbox, cli, replays, at>>
    BY <1>1 DEF ConfirmOrder, Produce, Assign, CommitOffset, Scan, Revoke, vars
  <2> QED
    BY <2>1, <1>same DEF Onward, Loop
<1>2. ASSUME NEW w \in Workers, Crash(w) PROVE GiveUpInv'
  <2>1. UNCHANGED <<inbox, cli, replays>> /\ \A v \in Workers : Loop(v)' \in {Loop(v), Idle}
    BY <1>2, <1>at DEF Crash, Loop
  <2> QED
    BY <2>1, <1>same DEF Onward, Idle
<1>3. ASSUME NEW w \in Workers, Fetch(w) PROVE GiveUpInv'
  <2>1. UNCHANGED <<inbox, cli, replays>>
    BY <1>3 DEF Fetch
  <2>2. \A v \in Workers : Loop(v)' = Loop(v)
    BY <1>3, <1>at DEF Fetch, Finish, Loop
  <2> QED
    BY <2>1, <2>2, <1>same DEF Onward
<1>4. ASSUME NEW w \in Workers, UpsertInbox(w) PROVE GiveUpInv'
  <2>1. \A v \in Workers : Loop(v)' = Loop(v)
    BY <1>4, <1>at DEF UpsertInbox, Goto, Loop
  <2>2. /\ \A e \in Existing(inbox) : inbox'[e] = inbox[e]
        /\ \A e \in Events : inbox'[e].status = "FAILED" => inbox[e].status = "FAILED"
    BY <1>4, <1>row DEF UpsertInbox, NewRow
  <2>3. UNCHANGED <<cli, replays>>
    BY <1>4 DEF UpsertInbox
  <2> QED
    BY <2>1, <2>2, <2>3, <1>typ, <1>row, GiveUpFrame DEF Onward
<1>5. ASSUME NEW t \in Threads, HandlerRead(t) \/ HandlerCredit(t) \/ CallThrows(t)
      PROVE  GiveUpInv'
  <2>1. UNCHANGED <<inbox, cli, replays>>
    BY <1>5 DEF HandlerRead, HandlerCredit, CallThrows
  <2>2. at[t].pc # "idle"
    BY <1>5, ConstantsAssumption DEF HandlerRead, HandlerCredit, CallThrows, Calls
  <2>3. Raise(t) \/ Goto(t, "credit") \/ Goto(t, "mark")
    BY <1>5 DEF HandlerRead, HandlerCredit, CallThrows
  <2> QED
    BY <2>1, <2>2, <2>3, <1>same, ThreadGoesOnward
<1>6. ASSUME NEW t \in Threads, MarkProcessed(t) PROVE GiveUpInv'
  <2>1. UNCHANGED <<cli, replays>> /\ at[t].pc # "idle" /\ Finish(t)
    BY <1>6 DEF MarkProcessed
  <2>2. \A e \in Events : /\ inbox'[e].attempts = inbox[e].attempts
                          /\ inbox'[e].status = "FAILED" => inbox[e].status = "FAILED"
    BY <1>6, <1>row DEF MarkProcessed, RowType
  <2> QED
    BY <2>1, <2>2, <1>typ, <1>row, GiveUpFrame, ThreadGoesOnward
<1>7. ASSUME NEW w \in Workers, Take(w) PROVE GiveUpInv'
  <2>1. PICK e \in batch[w] :
           at' = [at EXCEPT ![<<"retry", w>>] =
                     [pc |-> IF OrderOf[e] = NoOrder THEN "failed" ELSE "read", ev |-> e]]
    BY <1>7, QueriesExist DEF Take, TypeOK, Oldest
  <2>2. e \in Existing(inbox) /\ UNCHANGED <<inbox, cli, replays>>
    BY <1>7 DEF Take, TypeOK
  <2>3. \A v \in Workers : IF v = w THEN Loop(v)'.ev = e /\ Loop(v)'.pc # "giveup"
                                    ELSE Loop(v)' = Loop(v)
    BY <1>at, <2>1 DEF Loop
  <2> QED
    BY <2>2, <2>3 DEF GiveUpInv, HeldExist, FailedInv
<1>8. ASSUME NEW w \in Workers, CountAttempt(w) PROVE GiveUpInv'
  <2> DEFINE e == Loop(w).ev
             row == Bumped(inbox[e])
  <2>1. e \in Existing(inbox) /\ e \in Events
    BY <1>8, <1>row DEF CountAttempt, Loop, GiveUpInv, HeldExist
  <2>2. /\ inbox' = [inbox EXCEPT ![e] = row]
        /\ at' = [at EXCEPT ![<<"retry", w>>].pc = IF Exhausted(row) THEN "giveup" ELSE "backoff"]
        /\ UNCHANGED <<cli, replays>>
    BY <1>8 DEF CountAttempt, Goto, Loop
  <2>3. row.status = inbox[e].status /\ row.attempts = inbox[e].attempts + 1
    BY <1>row, <2>1 DEF Bumped, RowType
  <2>4. \A v \in Workers : /\ Loop(v)'.ev = Loop(v).ev
                           /\ v # w => Loop(v)' = Loop(v)
    BY <1>at, <2>2 DEF Loop, Ctl
  <2>5. Loop(w)'.pc = "giveup" => row.attempts >= MaxAttempts
    BY <1>at, <2>2 DEF Loop, Ctl, Exhausted
  <2>6. HeldExist'
    BY <1>typ, <1>8, <2>4 DEF GiveUpInv, HeldExist, CountAttempt, Loop
  <2>7. \A f \in Events : /\ inbox'[f].status = inbox[f].status
                          /\ inbox'[f].attempts >= inbox[f].attempts
                          /\ inbox'[f].attempts \in Nat
    BY <1>row, <2>1, <2>2, <2>3
  <2>8. inbox'[e].attempts = row.attempts
    BY <1>row, <2>1, <2>2
  <2>9. \A v \in Workers : Loop(v).pc = "giveup" => Loop(v).ev \in Events
    BY <1>row DEF GiveUpInv, HeldExist
  <2>10. MaxAttempts \in Nat
    BY ConstantsAssumption
  <2> HIDE DEF e, row
  <2>11. FailedInv'
    <3> SUFFICES ASSUME replays = 0
                 PROVE  /\ DOMAIN cli' = {}
                        /\ \A f \in Events : inbox'[f].status = "FAILED"
                                                => inbox'[f].attempts >= MaxAttempts
                        /\ \A v \in Workers : Loop(v)'.pc = "giveup"
                                                => inbox'[Loop(v)'.ev].attempts >= MaxAttempts
      BY <2>2 DEF FailedInv
    <3>1. DOMAIN cli' = {}
      BY <2>2 DEF GiveUpInv, FailedInv
    <3>2. \A f \in Events : inbox'[f].status = "FAILED" => inbox'[f].attempts >= MaxAttempts
      BY <2>7, <2>10, <1>row DEF GiveUpInv, FailedInv
    <3>3. ASSUME NEW v \in Workers, Loop(v)'.pc = "giveup"
          PROVE  inbox'[Loop(v)'.ev].attempts >= MaxAttempts
      <4>1. CASE v = w
        BY <2>4, <2>5, <2>8, <3>3, <4>1 DEF e
      <4>2. CASE v # w
        <5>1. Loop(v).pc = "giveup" /\ Loop(v)'.ev = Loop(v).ev /\ Loop(v).ev \in Events
          BY <2>4, <2>9, <3>3, <4>2
        <5>2. inbox[Loop(v).ev].attempts >= MaxAttempts
          BY <5>1 DEF GiveUpInv, FailedInv
        <5> QED
          BY <2>7, <2>10, <1>row, <5>1, <5>2
      <4> QED
        BY <4>1, <4>2
    <3> QED
      BY <3>1, <3>2, <3>3
  <2> QED
    BY <2>6, <2>11 DEF GiveUpInv
<1>9. ASSUME NEW w \in Workers, GiveUp(w) PROVE GiveUpInv'
  <2> DEFINE e == Loop(w).ev
  <2>1. /\ inbox' = [inbox EXCEPT ![e].status = "FAILED"]
        /\ at' = [at EXCEPT ![<<"retry", w>>].pc = "dlq"]
        /\ UNCHANGED <<cli, replays>> /\ Loop(w).pc = "giveup"
    BY <1>9 DEF GiveUp, Goto, Loop
  <2>2. e \in Existing(inbox) /\ e \in Events
    BY <1>row, <2>1 DEF GiveUpInv, HeldExist
  <2>3. \A f \in Events : /\ inbox'[f].attempts = inbox[f].attempts
                          /\ f # e => inbox'[f].status = inbox[f].status
    BY <1>row, <2>1 DEF RowType
  <2>4. \A v \in Workers : /\ Loop(v)'.ev = Loop(v).ev
                           /\ v # w => Loop(v)' = Loop(v)
    BY <1>at, <2>1 DEF Loop, Ctl
  <2>5. Loop(w)'.pc = "dlq"
    BY <1>at, <2>1 DEF Loop, Ctl
  <2>6. replays = 0 => inbox[e].attempts >= MaxAttempts
    BY <2>1 DEF GiveUpInv, FailedInv
  <2>7. \A v \in Workers : Loop(v).pc = "giveup" => Loop(v).ev \in Events
    BY <1>row DEF GiveUpInv, HeldExist
  <2>8. HeldExist'
    BY <1>typ, <2>1, <2>4 DEF GiveUpInv, HeldExist
  <2> HIDE DEF e
  <2>9. FailedInv'
    BY <2>1, <2>3, <2>4, <2>5, <2>6, <2>7 DEF GiveUpInv, FailedInv
  <2> QED
    BY <2>8, <2>9 DEF GiveUpInv
<1>10. ASSUME NEW w \in Workers, SendDlq(w) PROVE GiveUpInv'
  BY <1>10, <1>at, <1>same, ThreadGoesOnward DEF SendDlq
<1>11. ASSUME NEW w \in Workers, BackOff(w) PROVE GiveUpInv'
  <2>1. UNCHANGED <<cli, replays>> /\ \A v \in Workers : Onward(v)
    BY <1>11, <1>at, ThreadGoesOnward DEF BackOff
  <2>2. \A e \in Events : /\ inbox'[e].attempts = inbox[e].attempts
                          /\ inbox'[e].status = inbox[e].status
    BY <1>11, <1>row DEF BackOff, RowType
  <2> QED
    BY <2>1, <2>2, <1>typ, <1>row, GiveUpFrame
<1>12. ASSUME NEW e \in Events, Elapse(e) PROVE GiveUpInv'
  <2>1. UNCHANGED <<cli, replays, at>>
    BY <1>12 DEF Elapse
  <2>2. \A f \in Events : /\ inbox'[f].attempts = inbox[f].attempts
                          /\ inbox'[f].status = inbox[f].status
    BY <1>12, <1>row DEF Elapse, RowType
  <2> QED
    BY <2>1, <2>2, <1>typ, <1>row, GiveUpFrame DEF Onward, Loop
<1>13. CASE Replay
  <2>1. UNCHANGED at
    BY <1>13 DEF Replay, ReplayStart, ReplayRow
  <2>2. HeldExist'
    BY <1>typ, <2>1 DEF GiveUpInv, HeldExist, Loop
  <2>3. ASSUME NEW S \in Selections, NEW r \in BOOLEAN, ReplayStart(S, r) PROVE replays' # 0
    BY <2>3 DEF ReplayStart, TypeOK
  <2>4. ASSUME NEW e \in Events, ReplayRow(e) PROVE replays' # 0
    <3>1. e \in DOMAIN cli /\ UNCHANGED replays
      BY <2>4, QueriesExist DEF ReplayRow, TypeOK, Oldest
    <3> QED
      BY <3>1 DEF GiveUpInv, FailedInv
  <2> QED
    BY <1>13, <2>2, <2>3, <2>4 DEF Replay, GiveUpInv, FailedInv
<1>14. ASSUME NEW t \in Threads, AnswerLost(t) PROVE GiveUpInv'
  <2>1. UNCHANGED <<cli, replays>> /\ at[t].pc # "idle" /\ Raise(t)
    BY <1>14, ConstantsAssumption DEF AnswerLost, Calls
  <2>2. /\ \A e \in Existing(inbox) : inbox'[e].attempts = inbox[e].attempts
        /\ \A e \in Events : inbox'[e].status = "FAILED" => inbox[e].status = "FAILED"
    BY <1>14, <1>row DEF AnswerLost, NewRow, RowType
  <2> QED
    BY <2>1, <2>2, <1>typ, <1>row, GiveUpFrame, ThreadGoesOnward
<1> QED
  BY <1>1, <1>2, <1>3, <1>4, <1>5, <1>6, <1>7, <1>8, <1>9, <1>10, <1>11, <1>12, <1>13, <1>14
     DEF Next, ConsumerStep, RetryStep, HandlerStep, Threads, Loops

\* Unless somebody replays, the retry loop gives an event up only after
\* MAX_ATTEMPTS failures have been counted, by whichever workers.
THEOREM GivesUpOnlyWhenExhausted == Spec => []FailedOnlyWhenExhausted
<1>1. Init => GiveUpInv
  BY DEF Init, GiveUpInv, HeldExist, FailedInv, Loop, Idle, NoRow, Threads, Loops
<1>2. GiveUpInv => FailedOnlyWhenExhausted
  BY DEF GiveUpInv, FailedInv, FailedOnlyWhenExhausted
<1> QED
  BY <1>1, <1>2, TypeInit, TypeStep, GiveUpStep, PTL DEF Spec

-----------------------------------------------------------------------------
(* How far attempts can run past MaxAttempts. *)

\* The workers that may still count a failure of e with what they have read,
\* and those that have counted the last one and not yet said so.
MayCount(e) == {w \in Workers : \/ e \in batch[w]
                                \/ Loop(w).ev = e /\ Loop(w).pc \in Calls \cup {"failed"}}
GivingUp(e) == {w \in Workers : Loop(w).ev = e /\ Loop(w).pc = "giveup"}

\* Why AttemptsBounded holds.  While the row is PENDING every count at or over
\* the limit has a worker at GiveUp to show for it, or the fault that took it
\* away.  From then on only those can count that still hold the row, and no
\* worker that gives a row up holds it a second time.
Room(e) ==
    IF Settled(e)
    THEN inbox[e].attempts + 1 + Cardinality(MayCount(e))
            <= MaxAttempts + faults + Cardinality(Workers)
    ELSE inbox[e].attempts + 1 <= MaxAttempts + faults + Cardinality(GivingUp(e))

Dropped == \A w \in Workers : Loop(w).pc # "idle" => Loop(w).ev \notin batch[w]

BoundInv == Dropped /\ (replays = 0 => \A e \in Events : Room(e))

LEMMA SomeWorkers ==
    ASSUME NEW S \in SUBSET Workers, NEW T \in SUBSET Workers
    PROVE  /\ Cardinality(S) \in Nat /\ Cardinality(T) \in Nat /\ Cardinality(Workers) \in Nat
           /\ S \subseteq T => Cardinality(S) <= Cardinality(T)
           /\ S \cap T = {} => Cardinality(S) + Cardinality(T) <= Cardinality(Workers)
<1>1. IsFiniteSet(S) /\ IsFiniteSet(T) /\ IsFiniteSet(Workers)
  BY ConstantsAssumption, FS_Subset
<1>2. Cardinality(S) \in Nat /\ Cardinality(T) \in Nat /\ Cardinality(Workers) \in Nat
  BY <1>1, FS_CardinalityType
<1>3. S \subseteq T => Cardinality(S) <= Cardinality(T)
  BY <1>1, FS_Subset
<1>4. ASSUME S \cap T = {} PROVE Cardinality(S) + Cardinality(T) <= Cardinality(Workers)
  <2>1. Cardinality(S \cup T) = Cardinality(S) + Cardinality(T) - Cardinality({})
    BY <1>1, <1>4, FS_Union
  <2>2. Cardinality(S \cup T) <= Cardinality(Workers)
    BY <1>1, FS_Subset
  <2>3. Cardinality({}) = 0
    BY FS_EmptySet
  <2> QED
    BY <1>2, <2>1, <2>2, <2>3
<1> QED
  BY <1>2, <1>3, <1>4

\* The numbers Room speaks of.
LEMMA RoomNumbers ==
    ASSUME TypeOK, NEW e \in Events
    PROVE  /\ inbox[e].attempts \in Nat /\ faults \in Nat /\ MaxAttempts \in Nat
           /\ Cardinality(MayCount(e)) \in Nat
           /\ Cardinality(GivingUp(e)) \in Nat /\ Cardinality(Workers) \in Nat
           /\ Cardinality(MayCount(e)) <= Cardinality(Workers)
           /\ Cardinality(GivingUp(e)) <= Cardinality(Workers)
<1>1. MayCount(e) \in SUBSET Workers /\ GivingUp(e) \in SUBSET Workers
  BY DEF MayCount, GivingUp
<1> QED
  BY <1>1, SomeWorkers, ConstantsAssumption DEF TypeOK, RowType

\* Steps that neither count a failure of e nor settle it.
LEMMA RoomFrame ==
    ASSUME TypeOK, TypeOK', NEW e \in Events, Room(e), faults' >= faults,
           inbox'[e].attempts = inbox[e].attempts,
           Settled(e)' = Settled(e),
           Settled(e) => MayCount(e)' \subseteq MayCount(e),
           GivingUp(e) \subseteq GivingUp(e)'
    PROVE  Room(e)'
<1>1. /\ MayCount(e) \in SUBSET Workers /\ MayCount(e)' \in SUBSET Workers
      /\ GivingUp(e) \in SUBSET Workers /\ GivingUp(e)' \in SUBSET Workers
  BY DEF MayCount, GivingUp
<1>2. /\ inbox[e].attempts \in Nat /\ faults \in Nat /\ faults' \in Nat /\ MaxAttempts \in Nat
  BY ConstantsAssumption DEF TypeOK, RowType
<1>3. CASE Settled(e)
  <2>1. /\ Cardinality(MayCount(e)') <= Cardinality(MayCount(e))
        /\ Cardinality(MayCount(e)') \in Nat /\ Cardinality(MayCount(e)) \in Nat
        /\ Cardinality(Workers) \in Nat
    BY <1>1, <1>3, SomeWorkers
  <2> QED
    BY <1>2, <1>3, <2>1 DEF Room
<1>4. CASE ~Settled(e)
  <2>1. /\ Cardinality(GivingUp(e)) <= Cardinality(GivingUp(e)')
        /\ Cardinality(GivingUp(e)') \in Nat /\ Cardinality(GivingUp(e)) \in Nat
    BY <1>1, SomeWorkers
  <2> QED
    BY <1>2, <1>4, <2>1 DEF Room
<1> QED
  BY <1>3, <1>4

\* The step that settles e: who gives it up does not also hold it.
LEMMA RoomSettles ==
    ASSUME TypeOK, TypeOK', NEW e \in Events, Room(e), ~Settled(e), Settled(e)',
           inbox'[e].attempts = inbox[e].attempts, faults' >= faults,
           MayCount(e)' \cap GivingUp(e) = {}
    PROVE  Room(e)'
<1>1. MayCount(e)' \in SUBSET Workers /\ GivingUp(e) \in SUBSET Workers
  BY DEF MayCount, GivingUp
<1>2. /\ Cardinality(MayCount(e)') + Cardinality(GivingUp(e)) <= Cardinality(Workers)
      /\ Cardinality(MayCount(e)') \in Nat /\ Cardinality(GivingUp(e)) \in Nat
      /\ Cardinality(Workers) \in Nat
  BY <1>1, SomeWorkers
<1>3. inbox[e].attempts + 1 <= MaxAttempts + faults + Cardinality(GivingUp(e))
  BY DEF Room
<1>4. /\ inbox[e].attempts \in Nat /\ faults \in Nat /\ faults' \in Nat /\ MaxAttempts \in Nat
  BY ConstantsAssumption DEF TypeOK, RowType
<1>5. inbox[e].attempts + 1 + Cardinality(MayCount(e)')
         <= MaxAttempts + faults + Cardinality(Workers)
  BY <1>2, <1>3, <1>4
<1>6. inbox'[e].attempts + 1 + Cardinality(MayCount(e)')
         <= MaxAttempts + faults' + Cardinality(Workers)
  BY <1>2, <1>4, <1>5
<1> QED
  BY <1>6 DEF Room

\* Steps of threads that start on no row and settle none they gave up.
Fewer ==
    \A w \in Workers :
       /\ batch'[w] \subseteq batch[w]
       /\ Loop(w)'.pc \in Calls \cup {"failed"} =>
             \/ Loop(w).pc \in Calls \cup {"failed"} /\ Loop(w)'.ev = Loop(w).ev
             \/ Loop(w)'.ev \in batch[w]
Insisting == \A w \in Workers : Loop(w).pc = "giveup" => Loop(w)' = Loop(w)

LEMMA FewerCount == Fewer => \A e : MayCount(e)' \subseteq MayCount(e)
  BY DEF Fewer, MayCount

LEMMA NobodyLeaves == Insisting => \A e : GivingUp(e) \subseteq GivingUp(e)'
  BY DEF Insisting, GivingUp

LEMMA ThreadKeepsRoom ==
    ASSUME TypeOK, Dropped, NEW t \in Threads, at[t].pc \in Calls, UNCHANGED batch,
           Finish(t) \/ Raise(t) \/ \E pc \in Calls : Goto(t, pc)
    PROVE  Fewer /\ Insisting /\ Dropped'
<1>1. at \in [Threads -> Ctl] /\ \A w \in Workers : <<"retry", w>> \in Threads
  BY DEF TypeOK, Threads, Loops
<1>2. \A u \in Threads : u # t => at'[u] = at[u]
  BY <1>1 DEF Finish, Raise, Goto
<1>3. \/ at'[t].pc = "idle"
      \/ at'[t].pc \in Calls \cup {"failed"} /\ at'[t].ev = at[t].ev
  BY <1>1 DEF Finish, Raise, Goto, Idle, Ctl
<1>4. ASSUME NEW w \in Workers
      PROVE  \/ Loop(w)' = Loop(w)
             \/ /\ Loop(w).pc \in Calls
                /\ \/ Loop(w)'.pc = "idle"
                   \/ Loop(w)'.pc \in Calls \cup {"failed"} /\ Loop(w)'.ev = Loop(w).ev
  BY <1>1, <1>2, <1>3 DEF Loop
<1>5. "giveup" \notin Calls /\ "idle" \notin Calls \cup {"failed"}
  BY DEF Calls
<1> QED
  BY <1>4, <1>5 DEF Fewer, Insisting, Dropped

\* Steps of the first kind keep everything.
LEMMA BoundFrame ==
    ASSUME TypeOK, TypeOK', BoundInv, Fewer, Insisting, Dropped',
           replays' = replays, faults' >= faults,
           \A e \in Events : inbox'[e].attempts = inbox[e].attempts /\ Settled(e)' = Settled(e)
    PROVE  BoundInv'
<1>1. ASSUME replays = 0, NEW e \in Events PROVE Room(e)'
  <2>1. Room(e)
    BY <1>1 DEF BoundInv
  <2>2. MayCount(e)' \subseteq MayCount(e) /\ GivingUp(e) \subseteq GivingUp(e)'
    BY FewerCount, NobodyLeaves
  <2> QED
    BY <2>1, <2>2, RoomFrame
<1> QED
  BY <1>1 DEF BoundInv

\* A count: below the limit there is always room, at the limit the worker
\* goes to give up, and after that it has used the row it held.
LEMMA BoundCount ==
    ASSUME TypeOK, TypeOK', GiveUpInv, BoundInv, NEW w \in Workers, CountAttempt(w),
           NEW e, e = Loop(w).ev
    PROVE  BoundInv'
<1> DEFINE row == Bumped(inbox[e])
           pc == IF Exhausted(row) THEN "giveup" ELSE "backoff"
<1> USE DEF outside, kafka
<1>1. /\ at \in [Threads -> Ctl] /\ \A v \in Workers : <<"retry", v>> \in Threads
      /\ inbox \in [Events -> RowType(Statuses)]
  BY DEF TypeOK, Threads, Loops, Statuses
<1>2. e \in Events
  BY DEF CountAttempt, GiveUpInv, HeldExist, Loop, Existing, TypeOK
<1>3. /\ inbox' = [inbox EXCEPT ![e] = row]
      /\ at' = [at EXCEPT ![<<"retry", w>>].pc = pc]
      /\ UNCHANGED <<batch, replays, faults>> /\ Loop(w).pc = "failed"
  BY DEF CountAttempt, Goto, Loop
<1>4. row.status = inbox[e].status /\ row.attempts = inbox[e].attempts + 1
  BY <1>1, <1>2 DEF Bumped, RowType
<1>5. /\ inbox'[e] = row /\ \A f \in Events : f # e => inbox'[f] = inbox[f]
      /\ \A f \in Events : Settled(f)' = Settled(f)
  BY <1>1, <1>2, <1>3, <1>4 DEF Settled
<1>6. \A v \in Workers : /\ Loop(v)'.ev = Loop(v).ev
                         /\ v # w => Loop(v)' = Loop(v)
  BY <1>1, <1>3 DEF Loop, Ctl
<1>7. Loop(w)'.pc = pc
  BY <1>1, <1>3 DEF Loop, Ctl
<1>8. Dropped'
  BY <1>3, <1>6 DEF BoundInv, Dropped
<1>9. Fewer
  BY <1>3, <1>6, <1>7 DEF Fewer, Calls
<1>10. \A f : GivingUp(f) \subseteq GivingUp(f)' /\ (f # e => GivingUp(f)' = GivingUp(f))
  BY <1>3, <1>6 DEF GivingUp
<1>11. ASSUME replays = 0, NEW f \in Events, f # e PROVE Room(f)'
  BY <1>3, <1>5, <1>9, <1>10, <1>11, FewerCount, RoomFrame, RoomNumbers DEF BoundInv
<1>12. w \notin GivingUp(e) /\ (pc = "giveup" => GivingUp(e)' = GivingUp(e) \cup {w})
  BY <1>3, <1>6, <1>7 DEF GivingUp
<1>13. w \in MayCount(e) /\ MayCount(e)' \subseteq MayCount(e) \ {w}
  <2>1. w \notin MayCount(e)'
    BY <1>3, <1>6, <1>7, <1>8 DEF MayCount, Dropped, Calls
  <2>2. w \in MayCount(e)
    BY <1>3 DEF MayCount
  <2> QED
    BY <1>9, <2>1, <2>2, FewerCount
<1>14. pc = "backoff" => inbox[e].attempts + 1 < MaxAttempts
  BY <1>2, <1>4, RoomNumbers DEF Exhausted
<1>15. /\ MayCount(e) \in SUBSET Workers /\ MayCount(e)' \in SUBSET Workers
       /\ GivingUp(e) \in SUBSET Workers /\ IsFiniteSet(Workers)
       /\ Cardinality(GivingUp(e)') \in Nat /\ Cardinality(MayCount(e)') \in Nat
  BY <1>2, ConstantsAssumption, RoomNumbers, SomeWorkers DEF MayCount, GivingUp
<1>16. /\ inbox[e].attempts \in Nat /\ faults \in Nat /\ MaxAttempts \in Nat
       /\ Cardinality(MayCount(e)) \in Nat /\ Cardinality(GivingUp(e)) \in Nat
       /\ Cardinality(Workers) \in Nat
  BY <1>2, RoomNumbers
<1>17. Cardinality(MayCount(e)') <= Cardinality(MayCount(e)) - 1
  <2>1. IsFiniteSet(MayCount(e)) /\ Cardinality(MayCount(e) \ {w}) = Cardinality(MayCount(e)) - 1
    BY <1>13, <1>15, FS_Subset, FS_RemoveElement
  <2>2. MayCount(e) \ {w} \in SUBSET Workers
    BY <1>15
  <2> QED
    BY <1>13, <1>15, <2>1, <2>2, SomeWorkers
<1>18. pc = "giveup" => Cardinality(GivingUp(e)') = Cardinality(GivingUp(e)) + 1
  BY <1>12, <1>15, FS_Subset, FS_AddElement
<1>19. inbox'[e].attempts = inbox[e].attempts + 1
  BY <1>4, <1>5
<1>20. pc \in {"giveup", "backoff"}
  OBVIOUS
<1> HIDE DEF row, pc
<1>21. ASSUME replays = 0 PROVE Room(e)'
  <2>1. Room(e)
    BY <1>2, <1>21 DEF BoundInv
  <2>2. CASE Settled(e)
    BY <1>2, <1>3, <1>5, <1>15, <1>16, <1>17, <1>19, <2>1, <2>2 DEF Room
  <2>3. CASE ~Settled(e) /\ pc = "giveup"
    BY <1>2, <1>3, <1>5, <1>16, <1>18, <1>19, <2>1, <2>3 DEF Room
  <2>4. CASE ~Settled(e) /\ pc = "backoff"
    BY <1>2, <1>3, <1>5, <1>14, <1>15, <1>16, <1>19, <2>4 DEF Room
  <2> QED
    BY <1>20, <2>2, <2>3, <2>4
<1> QED
  BY <1>2, <1>3, <1>8, <1>11, <1>21 DEF BoundInv

\* A status that settles the row, or settles it once more.
LEMMA BoundSettles ==
    ASSUME TypeOK, TypeOK', BoundInv, NEW e \in Events, Settled(e)',
           \A f \in Events : /\ inbox'[f].attempts = inbox[f].attempts
                             /\ f # e => Settled(f)' = Settled(f),
           faults' >= faults, replays' = replays,
           Fewer, Dropped',
           \A f \in Events : f # e => GivingUp(f) \subseteq GivingUp(f)'
    PROVE  BoundInv'
<1>1. ASSUME replays = 0, NEW f \in Events PROVE Room(f)'
  <2>1. Room(f) /\ MayCount(f)' \subseteq MayCount(f)
    BY <1>1, FewerCount DEF BoundInv
  <2>3. CASE f # e
    BY <2>1, <2>3, RoomFrame
  <2>4. CASE f = e /\ ~Settled(e)
    <3>1. MayCount(f)' \cap GivingUp(f) = {}
      BY <2>1 DEF MayCount, GivingUp, BoundInv, Dropped, Calls
    <3> QED
      BY <2>1, <2>4, <3>1, RoomSettles
  <2>5. CASE f = e /\ Settled(e)
    <3>1. /\ Cardinality(MayCount(e)') <= Cardinality(MayCount(e))
          /\ Cardinality(MayCount(e)') \in Nat
      BY <2>1, <2>5, SomeWorkers DEF MayCount
    <3>2. faults' \in Nat
      BY DEF TypeOK
    <3> QED
      BY <2>1, <2>5, <3>1, <3>2, RoomNumbers DEF Room
  <2> QED
    BY <2>3, <2>4, <2>5
<1> QED
  BY <1>1 DEF BoundInv

\* A crash may take away a worker that was giving up, and is a fault.
LEMMA BoundCrash ==
    ASSUME TypeOK, TypeOK', BoundInv, NEW w \in Workers, Crash(w)
    PROVE  BoundInv'
<1>1. /\ UNCHANGED <<inbox, replays>> /\ faults' = faults + 1
      /\ batch' = [batch EXCEPT ![w] = {}]
      /\ at' = [t \in Threads |-> IF t[2] = w THEN Idle ELSE at[t]]
  BY DEF Crash
<1>2. \A v \in Workers : Loop(v)' = IF v = w THEN Idle ELSE Loop(v)
  BY <1>1 DEF Loop, Threads, Loops
<1>3. \A v \in Workers : batch'[v] = IF v = w THEN {} ELSE batch[v]
  BY <1>1 DEF TypeOK
<1>4. Dropped' /\ Fewer
  BY <1>2, <1>3 DEF BoundInv, Dropped, Fewer, Idle, Calls
<1>5. ASSUME replays = 0, NEW e \in Events PROVE Room(e)'
  <2>1. Room(e) /\ MayCount(e)' \subseteq MayCount(e)
    BY <1>4, <1>5, FewerCount DEF BoundInv
  <2>2. GivingUp(e) \subseteq GivingUp(e)' \cup {w}
    BY <1>2 DEF GivingUp
  <2>3. /\ GivingUp(e) \in SUBSET Workers /\ GivingUp(e)' \in SUBSET Workers
        /\ GivingUp(e)' \cup {w} \in SUBSET Workers /\ IsFiniteSet(Workers)
        /\ MayCount(e) \in SUBSET Workers /\ MayCount(e)' \in SUBSET Workers
    BY ConstantsAssumption DEF GivingUp, MayCount
  <2>4. /\ Cardinality(GivingUp(e)') \in Nat
        /\ Cardinality(GivingUp(e)) <= Cardinality(GivingUp(e)' \cup {w})
    BY <2>2, <2>3, SomeWorkers
  <2>5. Cardinality(GivingUp(e)' \cup {w}) <= Cardinality(GivingUp(e)') + 1
    <3>1. IsFiniteSet(GivingUp(e)')
      BY <2>3, FS_Subset
    <3> QED
      BY <2>4, <3>1, FS_AddElement
  <2>6. Cardinality(MayCount(e)') <= Cardinality(MayCount(e)) /\ Cardinality(MayCount(e)') \in Nat
    BY <2>1, <2>3, SomeWorkers
  <2>7. /\ inbox[e].attempts \in Nat /\ faults \in Nat /\ MaxAttempts \in Nat
        /\ Cardinality(MayCount(e)) \in Nat /\ Cardinality(GivingUp(e)) \in Nat
        /\ Cardinality(Workers) \in Nat /\ Cardinality(GivingUp(e)' \cup {w}) \in Nat
    BY <2>3, RoomNumbers, SomeWorkers
  <2>8. CASE Settled(e)
    BY <1>1, <2>1, <2>6, <2>7, <2>8 DEF Room, Settled
  <2>9. CASE ~Settled(e)
    <3>1. Cardinality(GivingUp(e)) <= Cardinality(GivingUp(e)') + 1
      BY <2>4, <2>5, <2>7
    <3> QED
      BY <1>1, <2>1, <2>4, <2>7, <2>9, <3>1 DEF Room, Settled
  <2> QED
    BY <2>8, <2>9
<1> QED
  BY <1>1, <1>4, <1>5 DEF BoundInv

LEMMA BoundStep == TypeOK /\ GiveUpInv /\ BoundInv /\ [Next]_vars => BoundInv'
<1> SUFFICES ASSUME TypeOK, GiveUpInv, BoundInv, [Next]_vars PROVE BoundInv'
  OBVIOUS
<1> USE DEF outside, kafka
<1>typ. TypeOK'
  BY TypeStep
<1>row. inbox \in [Events -> RowType(Statuses)] /\ faults \in Nat /\ faults >= faults
  BY DEF TypeOK, Statuses
<1>at. at \in [Threads -> Ctl] /\ \A w \in Workers : <<"retry", w>> \in Threads
  BY DEF TypeOK, Threads, Loops
<1>same. ASSUME UNCHANGED <<inbox, replays>>, faults' >= faults, Fewer, Insisting, Dropped'
         PROVE  BoundInv'
  BY <1>same, <1>typ, BoundFrame DEF Settled
<1>still. ASSUME \A w \in Workers : Loop(w)' = Loop(w), UNCHANGED batch
          PROVE  Fewer /\ Insisting /\ Dropped'
  BY <1>still DEF Fewer, Insisting, BoundInv, Dropped
<1>1. CASE \/ \E o \in Orders : ConfirmOrder(o)
           \/ \E m \in Messages : Produce(m)
           \/ \E w \in Workers : Assign(w) \/ CommitOffset(w)
           \/ Revoke
           \/ UNCHANGED vars
  <2>1. UNCHANGED <<inbox, replays, at, batch>> /\ faults' \in {faults, faults + 1}
    BY <1>1 DEF ConfirmOrder, Produce, Assign, CommitOffset, Revoke, vars
  <2>2. faults' >= faults
    BY <1>row, <2>1
  <2> QED
    BY <2>1, <2>2, <1>same, <1>still DEF Loop
<1>2. ASSUME NEW w \in Workers, Crash(w) PROVE BoundInv'
  BY <1>2, <1>typ, BoundCrash
<1>3. ASSUME NEW w \in Workers, Scan(w) PROVE BoundInv'
  <2>1. /\ UNCHANGED <<inbox, replays, faults, at>> /\ Loop(w).pc = "idle"
        /\ batch' = [batch EXCEPT ![w] = Oldest(inbox, Due(inbox), BatchSize)]
    BY <1>3 DEF Scan, Loop
  <2>2. \A v \in Workers : Loop(v)' = Loop(v)
    BY <2>1 DEF Loop
  <2>3. \A v \in Workers :
           batch'[v] = IF v = w THEN Oldest(inbox, Due(inbox), BatchSize) ELSE batch[v]
    BY <2>1 DEF TypeOK
  <2>4. Dropped'
    BY <2>1, <2>2, <2>3 DEF BoundInv, Dropped
  <2>5. \A e \in Events : e \in Oldest(inbox, Due(inbox), BatchSize) => ~Settled(e)
    BY DEF Oldest, Due, WithStatus, Settled
  <2>6. ASSUME replays = 0, NEW e \in Events PROVE Room(e)'
    <3>1. Settled(e)' = Settled(e) /\ GivingUp(e)' = GivingUp(e)
      BY <2>1, <2>2 DEF Settled, GivingUp
    <3>2. Settled(e) => MayCount(e)' \subseteq MayCount(e)
      BY <2>2, <2>3, <2>5 DEF MayCount
    <3>3. Room(e)
      BY <2>6 DEF BoundInv
    <3> QED
      BY <1>row, <1>typ, <2>1, <3>1, <3>2, <3>3, RoomFrame
  <2> QED
    BY <2>1, <2>4, <2>6 DEF BoundInv
<1>new. ASSUME NEW e \in Events, inbox' = [inbox EXCEPT ![e] = NewRow(inbox)],
               replays' = replays, faults' >= faults, Fewer, Insisting, Dropped'
        PROVE  BoundInv'
  <2>1. inbox'[e].status = "PENDING" /\ inbox'[e].attempts = 0
    BY <1>row, <1>new DEF NewRow
  <2>2. \A f \in Events : f # e => inbox'[f] = inbox[f]
    BY <1>row, <1>new
  <2>3. ASSUME replays = 0, NEW f \in Events PROVE Room(f)'
    <3>1. CASE f = e
      <4>1. /\ faults' \in Nat /\ MaxAttempts \in Nat \ {0} /\ GivingUp(f)' \in SUBSET Workers
            /\ inbox'[f].attempts = 0
        BY <2>1, <3>1, <1>typ, ConstantsAssumption DEF TypeOK, GivingUp
      <4>2. Cardinality(GivingUp(f)') \in Nat
        BY <4>1, SomeWorkers
      <4>3. inbox'[f].attempts + 1 <= MaxAttempts + faults' + Cardinality(GivingUp(f)')
        BY <4>1, <4>2
      <4>4. ~Settled(f)'
        BY <2>1, <3>1 DEF Settled
      <4> QED
        BY <4>3, <4>4 DEF Room
    <3>2. CASE f # e
      <4>1. Room(f) /\ Settled(f)' = Settled(f) /\ inbox'[f].attempts = inbox[f].attempts
        BY <2>2, <2>3, <3>2 DEF BoundInv, Settled
      <4>2. MayCount(f)' \subseteq MayCount(f) /\ GivingUp(f) \subseteq GivingUp(f)'
        BY <1>new, FewerCount, NobodyLeaves
      <4> QED
        BY <1>typ, <1>new, <4>1, <4>2, RoomFrame
    <3> QED
      BY <3>1, <3>2
  <2> QED
    BY <1>new, <2>3 DEF BoundInv
<1>mark. ASSUME NEW e \in Events, inbox' = [inbox EXCEPT ![e].status = "PROCESSED"],
                replays' = replays, faults' >= faults, Fewer, Insisting, Dropped'
         PROVE  BoundInv'
  <2> DEFINE row == [inbox[e] EXCEPT !.status = "PROCESSED"]
  <2>1. inbox' = [inbox EXCEPT ![e] = row]
    BY <1>mark
  <2>2. \A f \in Events : GivingUp(f) \subseteq GivingUp(f)'
    BY <1>mark, NobodyLeaves
  <2>3. /\ inbox'[e].status = "PROCESSED"
        /\ \A f \in Events : /\ inbox'[f].attempts = inbox[f].attempts
                             /\ f # e => inbox'[f] = inbox[f]
    BY <1>row, <2>1 DEF RowType
  <2>4. Settled(e)' /\ \A f \in Events : f # e => Settled(f)' = Settled(f)
    BY <2>3 DEF Settled
  <2> QED
    BY <1>typ, <1>mark, <2>2, <2>3, <2>4, BoundSettles
<1>4. ASSUME NEW w \in Workers, Fetch(w) \/ UpsertInbox(w) PROVE BoundInv'
  <2>1. UNCHANGED <<replays, faults, batch>>
    BY <1>4 DEF Fetch, UpsertInbox
  <2>2. \A v \in Workers : Loop(v)' = Loop(v)
    BY <1>4, <1>at DEF Fetch, UpsertInbox, Finish, Goto, Loop
  <2>3. Fewer /\ Insisting /\ Dropped'
    BY <2>1, <2>2, <1>still
  <2>4. CASE UNCHANGED inbox
    BY <2>1, <2>3, <2>4, <1>row, <1>same
  <2>5. ASSUME NEW e \in Events, inbox' = [inbox EXCEPT ![e] = NewRow(inbox)]
        PROVE  BoundInv'
    BY <2>1, <2>3, <2>5, <1>row, <1>new
  <2>6. UpsertInbox(w) => at[<<"consumer", w>>].ev \in Events
    BY <1>typ, ConstantsAssumption DEF UpsertInbox, TypeOK, Threads, Loops, Ctl
  <2> QED
    BY <1>4, <2>4, <2>5, <2>6 DEF Fetch, UpsertInbox
<1>5. ASSUME NEW t \in Threads, HandlerRead(t) \/ HandlerCredit(t) \/ CallThrows(t)
      PROVE  BoundInv'
  <2>1. UNCHANGED <<inbox, replays, batch>> /\ faults' \in {faults, faults + 1}
    BY <1>5 DEF HandlerRead, HandlerCredit, CallThrows
  <2>2. at[t].pc \in Calls /\ (Raise(t) \/ \E pc \in Calls : Goto(t, pc))
    BY <1>5, ConstantsAssumption DEF HandlerRead, HandlerCredit, CallThrows, Calls
  <2>3. faults' >= faults
    BY <1>row, <2>1
  <2>4. Fewer /\ Insisting /\ Dropped'
    BY <2>1, <2>2, ThreadKeepsRoom DEF BoundInv
  <2> QED
    BY <2>1, <2>3, <2>4, <1>same
<1>6. ASSUME NEW t \in Threads, MarkProcessed(t) PROVE BoundInv'
  <2>1. /\ UNCHANGED <<replays, batch, faults>> /\ at[t].pc \in Calls /\ Finish(t)
        /\ inbox' = [inbox EXCEPT ![at[t].ev].status = "PROCESSED"]
    BY <1>6 DEF MarkProcessed, Calls
  <2>2. at[t].ev \in Events
    BY <2>1, ConstantsAssumption DEF TypeOK, Ctl, Calls
  <2>3. Fewer /\ Insisting /\ Dropped'
    BY <2>1, ThreadKeepsRoom DEF BoundInv
  <2> QED
    BY <2>1, <2>2, <2>3, <1>row, <1>mark
<1>7. ASSUME NEW w \in Workers, Take(w) PROVE BoundInv'
  <2>1. PICK e \in batch[w] :
           /\ batch' = [batch EXCEPT ![w] = @ \ {e}]
           /\ at' = [at EXCEPT ![<<"retry", w>>] =
                        [pc |-> IF OrderOf[e] = NoOrder THEN "failed" ELSE "read", ev |-> e]]
    BY <1>7 DEF Take, Oldest
  <2>2. UNCHANGED <<inbox, replays, faults>> /\ Loop(w).pc = "idle"
    BY <1>7 DEF Take, Loop
  <2>3. \A v \in Workers : IF v = w THEN Loop(v)'.ev = e /\ Loop(v)'.pc \in {"failed", "read"}
                                    ELSE Loop(v)' = Loop(v)
    BY <1>at, <2>1 DEF Loop
  <2>4. \A v \in Workers : batch'[v] = IF v = w THEN batch[v] \ {e} ELSE batch[v]
    BY <2>1 DEF TypeOK
  <2>5. Fewer
    BY <2>3, <2>4 DEF Fewer, Calls
  <2>6. Insisting
    BY <2>2, <2>3 DEF Insisting
  <2>7. Dropped'
    BY <2>3, <2>4 DEF BoundInv, Dropped
  <2> QED
    BY <1>row, <2>2, <2>5, <2>6, <2>7, <1>same
<1>8. ASSUME NEW w \in Workers, CountAttempt(w) PROVE BoundInv'
  BY <1>8, <1>typ, BoundCount
<1>9. ASSUME NEW w \in Workers, GiveUp(w) PROVE BoundInv'
  <2>1. /\ UNCHANGED <<replays, batch, faults>> /\ Loop(w).pc = "giveup"
        /\ inbox' = [inbox EXCEPT ![Loop(w).ev].status = "FAILED"]
        /\ at' = [at EXCEPT ![<<"retry", w>>].pc = "dlq"]
    BY <1>9 DEF GiveUp, Goto, Loop
  <2>2. PICK e \in Events : e = Loop(w).ev
    BY <2>1 DEF GiveUpInv, HeldExist, Existing, TypeOK
  <2>3. \A v \in Workers : /\ Loop(v)'.ev = Loop(v).ev
                           /\ IF v = w THEN Loop(v)'.pc = "dlq" ELSE Loop(v)' = Loop(v)
    BY <1>at, <2>1 DEF Loop, Ctl
  <2>4. Fewer /\ Dropped'
    BY <2>1, <2>3 DEF Fewer, BoundInv, Dropped, Calls
  <2>5. \A f \in Events : f # e => GivingUp(f) \subseteq GivingUp(f)'
    BY <2>2, <2>3 DEF GivingUp
  <2>6. /\ inbox'[e].status = "FAILED"
        /\ \A f \in Events : /\ inbox'[f].attempts = inbox[f].attempts
                             /\ f # e => inbox'[f] = inbox[f]
    BY <1>row, <2>1, <2>2 DEF RowType
  <2>7. Settled(e)' /\ \A f \in Events : f # e => Settled(f)' = Settled(f)
    BY <2>6 DEF Settled
  <2> QED
    BY <1>typ, <1>row, <2>1, <2>4, <2>5, <2>6, <2>7, BoundSettles
<1>10. ASSUME NEW w \in Workers, SendDlq(w) \/ BackOff(w) PROVE BoundInv'
  <2>1. /\ UNCHANGED <<replays, batch, faults>> /\ Loop(w).pc \in {"dlq", "backoff"}
        /\ at' = [at EXCEPT ![<<"retry", w>>] = Idle]
    BY <1>10 DEF SendDlq, BackOff, Finish, Loop
  <2>2. \A v \in Workers : Loop(v)' = IF v = w THEN Idle ELSE Loop(v)
    BY <1>at, <2>1 DEF Loop
  <2>3. Fewer /\ Insisting /\ Dropped'
    BY <2>1, <2>2 DEF Fewer, Insisting, BoundInv, Dropped, Idle, Calls
  <2>4. \A f \in Events : /\ inbox'[f].attempts = inbox[f].attempts
                          /\ inbox'[f].status = inbox[f].status
    BY <1>10, <1>row DEF SendDlq, BackOff, RowType
  <2> QED
    BY <1>typ, <1>row, <2>1, <2>3, <2>4, BoundFrame DEF Settled
<1>11. ASSUME NEW e \in Events, Elapse(e) PROVE BoundInv'
  <2>1. UNCHANGED <<replays, batch, faults, at>>
    BY <1>11 DEF Elapse
  <2>2. \A f \in Events : /\ inbox'[f].attempts = inbox[f].attempts
                          /\ inbox'[f].status = inbox[f].status
    BY <1>11, <1>row DEF Elapse, RowType
  <2>3. Fewer /\ Insisting /\ Dropped'
    BY <2>1, <1>still DEF Loop
  <2> QED
    BY <1>typ, <1>row, <2>1, <2>2, <2>3, BoundFrame DEF Settled
<1>12. CASE Replay
  <2>1. UNCHANGED <<at, batch>>
    BY <1>12 DEF Replay, ReplayStart, ReplayRow
  <2>2. Dropped'
    BY <2>1, <1>still DEF Loop
  <2>3. ASSUME NEW S \in Selections, NEW r \in BOOLEAN, ReplayStart(S, r) PROVE replays' # 0
    BY <2>3 DEF ReplayStart, TypeOK
  <2>4. ASSUME NEW e \in Events, ReplayRow(e) PROVE replays' # 0
    <3>1. e \in DOMAIN cli /\ UNCHANGED replays
      BY <2>4, QueriesExist DEF ReplayRow, TypeOK, Oldest
    <3> QED
      BY <3>1 DEF GiveUpInv, FailedInv
  <2> QED
    BY <1>12, <2>2, <2>3, <2>4 DEF Replay, BoundInv
<1>13. ASSUME NEW t \in Threads, AnswerLost(t) PROVE BoundInv'
  <2>1. /\ UNCHANGED <<replays, batch>> /\ faults' = faults + 1
        /\ at[t].pc \in Calls /\ Raise(t)
    BY <1>13, ConstantsAssumption DEF AnswerLost, Calls
  <2>2. at[t].ev \in Events
    BY <2>1, ConstantsAssumption DEF TypeOK, Ctl, Calls
  <2>3. Fewer /\ Insisting /\ Dropped'
    BY <2>1, ThreadKeepsRoom DEF BoundInv
  <2>4. faults' >= faults
    BY <2>1, <1>row
  <2>5. \/ UNCHANGED inbox
        \/ inbox' = [inbox EXCEPT ![at[t].ev] = NewRow(inbox)]
        \/ inbox' = [inbox EXCEPT ![at[t].ev].status = "PROCESSED"]
    BY <1>13 DEF AnswerLost
  <2> QED
    BY <2>1, <2>2, <2>3, <2>4, <2>5, <1>same, <1>new, <1>mark
<1> QED
  BY <1>1, <1>2, <1>3, <1>4, <1>5, <1>6, <1>7, <1>8, <1>9, <1>10, <1>11, <1>12, <1>13
     DEF Next, ConsumerStep, RetryStep, HandlerStep, Threads, Loops

LEMMA BoundInit == Init => BoundInv
<1> SUFFICES ASSUME Init PROVE BoundInv
  OBVIOUS
<1>1. Dropped
  BY DEF Init, Dropped, Loop, Idle, Threads, Loops
<1>2. ASSUME NEW e \in Events PROVE Room(e)
  <2>1. inbox[e].attempts = 0 /\ ~Settled(e) /\ faults = 0
    BY DEF Init, NoRow, Settled
  <2>2. Cardinality(GivingUp(e)) \in Nat /\ MaxAttempts \in Nat \ {0}
    BY TypeInit, RoomNumbers, ConstantsAssumption
  <2>3. inbox[e].attempts + 1 <= MaxAttempts + faults + Cardinality(GivingUp(e))
    BY <2>1, <2>2
  <2> QED
    BY <2>1, <2>3 DEF Room
<1> QED
  BY <1>1, <1>2 DEF BoundInv

\* Without a replay, no row is tried more than MAX_ATTEMPTS times, but for one
\* count per other worker that has read it and one per fault.
THEOREM AttemptsAreBounded == Spec => []AttemptsBounded
<1>1. TypeOK /\ BoundInv => AttemptsBounded
  <2> SUFFICES ASSUME TypeOK, BoundInv, replays = 0, NEW e \in Events
               PROVE  inbox[e].attempts < MaxAttempts + Cardinality(Workers) + faults
    BY DEF AttemptsBounded
  <2>1. Room(e)
    BY DEF BoundInv
  <2> QED
    BY <2>1, RoomNumbers DEF Room
<1>2. Init => GiveUpInv
  BY DEF Init, GiveUpInv, HeldExist, FailedInv, Loop, Idle, NoRow, Threads, Loops
<1> QED
  BY <1>1, <1>2, TypeInit, TypeStep, GiveUpStep, BoundInit, BoundStep, PTL DEF Spec

-----------------------------------------------------------------------------
(* The dead letter topic is told of every row that is given up.            *)

\* What FailedReachesDlq waits for is in sight: the message is out, or a loop
\* is about to send it, or the worker that was about to has died.
FailedIsTold ==
    \A e \in Events : inbox[e].status = "FAILED" =>
       \/ dlq[e] > 0 \/ e \in abandoned
       \/ \E w \in Workers : at[<<"retry", w>>] = [pc |-> "dlq", ev |-> e]

\* A step that gives up no row and keeps every loop that is about to send, every
\* message and every death that is on record.
Discreet ==
    /\ \A e \in Events : inbox'[e].status = "FAILED" => inbox[e].status = "FAILED"
    /\ \A w \in Workers : at[<<"retry", w>>].pc = "dlq" => at'[<<"retry", w>>] = at[<<"retry", w>>]
    /\ \A e \in Events : dlq'[e] >= dlq[e]
    /\ abandoned \subseteq abandoned'

LEMMA DiscreetStep ==
    ASSUME RestOK, RestOK', FailedIsTold, Discreet
    PROVE  FailedIsTold'
<1> SUFFICES ASSUME NEW e \in Events, inbox'[e].status = "FAILED"
             PROVE  \/ dlq'[e] > 0 \/ e \in abandoned'
                    \/ \E w \in Workers : at'[<<"retry", w>>] = [pc |-> "dlq", ev |-> e]
  BY DEF FailedIsTold
<1>1. \/ dlq[e] > 0 \/ e \in abandoned
      \/ \E w \in Workers : at[<<"retry", w>>] = [pc |-> "dlq", ev |-> e]
  BY DEF FailedIsTold, Discreet
<1>2. dlq[e] > 0 => dlq'[e] > 0
  BY DEF RestOK, Discreet
<1>3. \A w \in Workers : at[<<"retry", w>>] = [pc |-> "dlq", ev |-> e] =>
         at'[<<"retry", w>>] = [pc |-> "dlq", ev |-> e]
  BY DEF Discreet
<1> QED
  BY <1>1, <1>2, <1>3 DEF Discreet

\* A thread that is not about to send leaves those alone that are.
LEMMA OthersStillSend ==
    ASSUME ControlOK, NEW t \in Threads, at[t].pc # "dlq",
           Finish(t) \/ Raise(t) \/ \E pc : Goto(t, pc)
    PROVE  \A w \in Workers : at[<<"retry", w>>].pc = "dlq" =>
              at'[<<"retry", w>>] = at[<<"retry", w>>]
<1>1. \A u \in Threads : u # t => at'[u] = at[u]
  BY DEF Finish, Raise, Goto, ControlOK
<1> QED
  BY <1>1 DEF Threads, Loops

LEMMA FailedIsToldStep == TypeOK /\ TypeOK' /\ FailedIsTold /\ [Next]_vars => FailedIsTold'
<1> SUFFICES ASSUME ControlOK, TableOK, RestOK, RestOK', FailedIsTold, [Next]_vars
             PROVE  FailedIsTold'
  BY TypeParts
<1> USE DEF outside, kafka
<1>dlq. \A e \in Events : dlq[e] \in Nat
  BY DEF RestOK
<1>new. NewRow(inbox).status = "PENDING"
  BY NewRowType DEF TableOK
<1>thr. \A w \in Workers : <<"retry", w>> \in Threads /\ <<"consumer", w>> \in Threads
  BY DEF Threads, Loops
\* Steps of the environment leave the loops alone.
<1>1. ASSUME UNCHANGED <<at, dlq, abandoned>>,
             \A e \in Events : inbox'[e].status = "FAILED" => inbox[e].status = "FAILED"
      PROVE  FailedIsTold'
  <2>1. \A e \in Events : dlq'[e] >= dlq[e]
    BY <1>1, <1>dlq
  <2> QED
    BY <1>1, <2>1, DiscreetStep DEF Discreet
\* A thread moves that is not about to send.
<1>2. ASSUME NEW t \in Threads, at[t].pc # "dlq", UNCHANGED <<dlq, abandoned>>,
             Finish(t) \/ Raise(t) \/ \E pc : Goto(t, pc),
             \A e \in Events : inbox'[e].status = "FAILED" => inbox[e].status = "FAILED"
      PROVE  FailedIsTold'
  <2>1. \A e \in Events : dlq'[e] >= dlq[e]
    BY <1>2, <1>dlq
  <2> QED
    BY <1>2, <2>1, OthersStillSend, DiscreetStep DEF Discreet
<1>3. ASSUME NEW o \in Orders, ConfirmOrder(o) PROVE FailedIsTold'
  BY <1>1, <1>3 DEF ConfirmOrder
<1>4. ASSUME NEW m \in Messages, Produce(m) PROVE FailedIsTold'
  BY <1>1, <1>4 DEF Produce
<1>5. ASSUME NEW w \in Workers, Assign(w) \/ CommitOffset(w) \/ Revoke \/ Scan(w) PROVE FailedIsTold'
  BY <1>1, <1>5 DEF Assign, CommitOffset, Revoke, Scan
<1>6. ASSUME NEW w \in Workers, Crash(w) PROVE FailedIsTold'
  <2> SUFFICES ASSUME NEW e \in Events, inbox'[e].status = "FAILED"
               PROVE  \/ dlq'[e] > 0 \/ e \in abandoned'
                      \/ \E v \in Workers : at'[<<"retry", v>>] = [pc |-> "dlq", ev |-> e]
    BY DEF FailedIsTold
  <2>1. /\ UNCHANGED <<inbox, dlq>> /\ abandoned \subseteq abandoned'
        /\ at[<<"retry", w>>] = [pc |-> "dlq", ev |-> e] => e \in abandoned'
        /\ \A v \in Workers : v # w => at'[<<"retry", v>>] = at[<<"retry", v>>]
    BY <1>6, <1>thr DEF Crash
  <2>2. \/ dlq[e] > 0 \/ e \in abandoned
        \/ \E v \in Workers : at[<<"retry", v>>] = [pc |-> "dlq", ev |-> e]
    BY <2>1 DEF FailedIsTold
  <2> QED
    BY <2>1, <2>2
<1>7. ASSUME NEW w \in Workers, Fetch(w) PROVE FailedIsTold'
  <2>1. \A v \in Workers : at'[<<"retry", v>>] = at[<<"retry", v>>]
    BY <1>7, <1>thr DEF Fetch, Finish, ControlOK
  <2>2. UNCHANGED <<inbox, dlq, abandoned>> /\ \A e \in Events : dlq'[e] >= dlq[e]
    BY <1>7, <1>dlq DEF Fetch
  <2> QED
    BY <2>1, <2>2, DiscreetStep DEF Discreet
<1>8. ASSUME NEW w \in Workers, UpsertInbox(w) PROVE FailedIsTold'
  <2>1. \A e \in Events : inbox'[e].status = "FAILED" => inbox[e].status = "FAILED"
    BY <1>8, <1>new DEF UpsertInbox, TableOK, Table
  <2> QED
    BY <1>2, <1>8, <1>thr, <2>1 DEF UpsertInbox
<1>9. ASSUME NEW t \in Threads, HandlerRead(t) \/ HandlerCredit(t) \/ CallThrows(t) PROVE FailedIsTold'
  <2>1. /\ at[t].pc # "dlq" /\ UNCHANGED <<inbox, dlq, abandoned>>
        /\ Raise(t) \/ \E pc : Goto(t, pc)
    BY <1>9, ConstantsAssumption DEF HandlerRead, HandlerCredit, CallThrows, Calls
  <2> QED
    BY <1>2, <2>1
<1>10. ASSUME NEW t \in Threads, MarkProcessed(t) PROVE FailedIsTold'
  <2>1. \A e \in Events : inbox'[e].status = "FAILED" => inbox[e].status = "FAILED"
    BY <1>10 DEF MarkProcessed, TableOK, Table
  <2> QED
    BY <1>2, <1>10, <2>1 DEF MarkProcessed
<1>11. ASSUME NEW t \in Threads, AnswerLost(t) PROVE FailedIsTold'
  <2>1. at[t].pc # "dlq" /\ UNCHANGED <<dlq, abandoned>> /\ Raise(t)
    BY <1>11, ConstantsAssumption DEF AnswerLost, Calls
  <2>2. \A e \in Events : inbox'[e].status = "FAILED" => inbox[e].status = "FAILED"
    <3>1. \A f \in Events : f # at[t].ev => inbox'[f] = inbox[f]
      BY <1>11 DEF AnswerLost, TableOK, Table
    <3>2. at[t].ev \in Events =>
             (inbox'[at[t].ev].status = "FAILED" => inbox[at[t].ev].status = "FAILED")
      BY <1>11, <1>new DEF AnswerLost, TableOK, Table, RowType
    <3> QED
      BY <3>1, <3>2
  <2> QED
    BY <1>2, <2>1, <2>2
<1>12. ASSUME NEW w \in Workers, Take(w) PROVE FailedIsTold'
  <2>1. \A v \in Workers : at[<<"retry", v>>].pc = "dlq" => at'[<<"retry", v>>] = at[<<"retry", v>>]
    BY <1>12, <1>thr DEF Take, ControlOK
  <2>2. UNCHANGED <<inbox, dlq, abandoned>> /\ \A e \in Events : dlq'[e] >= dlq[e]
    BY <1>12, <1>dlq DEF Take
  <2> QED
    BY <2>1, <2>2, DiscreetStep DEF Discreet
<1>13. ASSUME NEW w \in Workers, CountAttempt(w) \/ BackOff(w) PROVE FailedIsTold'
  <2>1. /\ at[<<"retry", w>>].pc # "dlq" /\ UNCHANGED <<dlq, abandoned>>
        /\ Finish(<<"retry", w>>) \/ \E pc : Goto(<<"retry", w>>, pc)
    BY <1>13 DEF CountAttempt, BackOff
  <2>2. \A e \in Events : inbox'[e].status = "FAILED" => inbox[e].status = "FAILED"
    BY <1>13 DEF CountAttempt, BackOff, Bumped, TableOK, Table, RowType
  <2> QED
    BY <1>2, <1>thr, <2>1, <2>2
\* Who gives a row up goes on to tell the topic.
<1>14. ASSUME NEW w \in Workers, GiveUp(w) PROVE FailedIsTold'
  <2> DEFINE t == <<"retry", w>>
             g == at[t].ev
  <2>1. /\ at[t].pc = "giveup" /\ g \in Events /\ UNCHANGED <<dlq, abandoned>>
        /\ at'[t] = [pc |-> "dlq", ev |-> g]
        /\ \A v \in Workers : v # w => at'[<<"retry", v>>] = at[<<"retry", v>>]
    BY <1>14, <1>thr, ControlMoves DEF GiveUp, Goto, ControlOK, Ctl
  <2>2. \A e \in Events : e # g => inbox'[e] = inbox[e]
    BY <1>14 DEF GiveUp, TableOK, Table
  <2>3. ASSUME NEW e \in Events, e # g, inbox'[e].status = "FAILED"
        PROVE  \/ dlq'[e] > 0 \/ e \in abandoned'
               \/ \E v \in Workers : at'[<<"retry", v>>] = [pc |-> "dlq", ev |-> e]
    <3>1. \/ dlq[e] > 0 \/ e \in abandoned
          \/ \E v \in Workers : at[<<"retry", v>>] = [pc |-> "dlq", ev |-> e]
      BY <2>2, <2>3 DEF FailedIsTold
    <3> QED
      BY <2>1, <3>1
  <2> QED
    BY <2>1, <2>3 DEF FailedIsTold
<1>15. ASSUME NEW w \in Workers, SendDlq(w) PROVE FailedIsTold'
  <2> DEFINE t == <<"retry", w>>
             g == at[t].ev
  <2>1. /\ at[t].pc = "dlq" /\ g \in Events /\ UNCHANGED <<inbox, abandoned>>
        /\ dlq' = [dlq EXCEPT ![g] = @ + 1]
        /\ \A v \in Workers : v # w => at'[<<"retry", v>>] = at[<<"retry", v>>]
    BY <1>15, <1>thr, ControlMoves DEF SendDlq, Finish, ControlOK
  <2>2. dlq'[g] > 0 /\ \A e \in Events : e # g => dlq'[e] = dlq[e]
    BY <2>1, <1>dlq DEF RestOK
  <2>3. ASSUME NEW e \in Events, e # g, inbox[e].status = "FAILED"
        PROVE  \/ dlq'[e] > 0 \/ e \in abandoned
               \/ \E v \in Workers : at'[<<"retry", v>>] = [pc |-> "dlq", ev |-> e]
    <3>1. \A v \in Workers : at[<<"retry", v>>] = [pc |-> "dlq", ev |-> e] => v # w
      BY <2>3
    <3> QED
      BY <2>1, <2>2, <2>3, <3>1 DEF FailedIsTold
  <2> QED
    BY <2>1, <2>2, <2>3 DEF FailedIsTold
<1>16. ASSUME NEW e \in Events, Elapse(e) \/ ReplayRow(e) PROVE FailedIsTold'
  <2>1. \A f \in Events : inbox'[f].status = "FAILED" => inbox[f].status = "FAILED"
    BY <1>16 DEF Elapse, ReplayRow, TableOK, Table, RowType
  <2> QED
    BY <1>1, <1>16, <2>1 DEF Elapse, ReplayRow
<1>17. ASSUME NEW S \in Selections, NEW r \in BOOLEAN, ReplayStart(S, r) PROVE FailedIsTold'
  BY <1>1, <1>17 DEF ReplayStart
<1>18. CASE UNCHANGED vars
  BY <1>1, <1>18 DEF vars
<1>19. CASE Revoke
  BY <1>1, <1>19 DEF Revoke
<1> QED
  BY <1>3, <1>4, <1>5, <1>6, <1>7, <1>8, <1>9, <1>10, <1>11, <1>12, <1>13, <1>14, <1>15, <1>16,
     <1>17, <1>18, <1>19
     DEF Next, ConsumerStep, RetryStep, HandlerStep, Replay, Threads, Loops

\* Only a worker that dies between the FAILED update and the send keeps a dead
\* letter back: whatever other workers, the consumer and a replay do, and
\* whatever else fails, a FAILED row has its message or a loop about to send it.
THEOREM GivenUpIsTold == Spec => []FailedIsTold
<1>1. Init => FailedIsTold
  BY DEF Init, FailedIsTold, NoRow
<1> QED
  BY <1>1, TypeInit, TypeStep, FailedIsToldStep, PTL DEF Spec
=============================================================================

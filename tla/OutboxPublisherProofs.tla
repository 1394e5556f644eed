------------------------ MODULE OutboxPublisherProofs ------------------------
(***************************************************************************)
(* Theorems about OutboxPublisher, for any number of workers and rows and  *)
(* any value of the bounds.                                                *)
(***************************************************************************)
EXTENDS OutboxPublisher, FiniteSetTheorems, TLAPS

Statuses == {"PENDING", "SENT", "FAILED"}
Row == RowType(Statuses)
Table == [Events -> Row]

\* A new row is a row: only finitely many events exist before it.
LEMMA NewRowType ==
    ASSUME NEW tab \in Table
    PROVE  NewRow(tab) \in Row /\ NewRow(tab).status = "PENDING"
<1>1. Existing(tab) \subseteq Events
  BY DEF Existing, Table
<1>2. Cardinality(Existing(tab)) \in Nat
  BY <1>1, FS_Subset, FS_CardinalityType, PublisherConstants
<1> QED
  BY <1>2 DEF NewRow, Row, RowType, Statuses

\* Replacing a row by one that exists keeps the table, and every row in it.
LEMMA RowUpdate ==
    ASSUME NEW tab \in Table, NEW e \in Events, NEW row \in Row, row.status # "ABSENT"
    PROVE  /\ [tab EXCEPT ![e] = row] \in Table
           /\ Existing(tab) \subseteq Existing([tab EXCEPT ![e] = row])
           /\ e \in Existing([tab EXCEPT ![e] = row])
<1>1. [tab EXCEPT ![e] = row] \in Table
  BY DEF Table
<1>2. Existing(tab) = {f \in Events : tab[f].status # "ABSENT"}
  BY DEF Existing, Table
<1>3. Existing([tab EXCEPT ![e] = row]) =
        {f \in Events : [tab EXCEPT ![e] = row][f].status # "ABSENT"}
  BY DEF Existing, Table
<1> QED
  BY <1>1, <1>2, <1>3 DEF Table

\* The rows the queries return are rows of the table.
LEMMA QueriesExist ==
    ASSUME NEW tab \in Table, NEW S, NEW n
    PROVE  /\ Oldest(tab, S, n) \subseteq S
           /\ Due(tab) \subseteq Existing(tab)
           /\ \A st \in Statuses : WithStatus(tab, st) \subseteq Existing(tab)
           /\ Existing(tab) \subseteq Events
  BY DEF Oldest, Due, WithStatus, Existing, Table, Statuses

-----------------------------------------------------------------------------
(* The invariant: TypeOK, that the row a worker handles exists, and what    *)
(* each place in the loop of a worker remembers of the table.              *)

\* The part that speaks of the workers alone.
ControlOK ==
    /\ at \in [Workers -> Ctl]
    /\ \A w \in Workers : at[w].pc = "idle" <=> at[w].ev = None

\* The part that speaks of the table and of who holds its rows.
TableOK ==
    /\ outbox \in Table
    /\ batch \in [Workers -> SUBSET Existing(outbox)]
    /\ DOMAIN cli \subseteq Existing(outbox)
    /\ \A e \in DOMAIN cli : cli[e] \in Nat

RestOK ==
    /\ published \in [Events -> Nat]
    /\ faults \in Nat
    /\ replays \in Nat

\* A worker only handles rows that exist.
Held == \A w \in Workers : at[w].pc # "idle" => at[w].ev \in Existing(outbox)

LEMMA TypeParts == /\ TypeOK <=> ControlOK /\ TableOK /\ RestOK
                   /\ TypeOK' <=> ControlOK' /\ TableOK' /\ RestOK'
  BY DEF TypeOK, ControlOK, TableOK, RestOK, Table, Row, Statuses

IInv == ControlOK /\ TableOK /\ RestOK /\ Held

LEMMA InitIInv == Init => IInv
<1> SUFFICES ASSUME Init PROVE IInv
  OBVIOUS
<1>1. ControlOK /\ Held
  BY PublisherConstants DEF Init, ControlOK, Ctl, Idle, Held
<1>2. TableOK
  BY DEF Init, TableOK, Table, Row, RowType, NoRow, Statuses, Existing
<1> QED
  BY <1>1, <1>2 DEF Init, RestOK, IInv

\* Steps that leave the table alone and keep every worker at its row.
LEMMA TableUnchanged ==
    TableOK /\ UNCHANGED <<outbox, batch, cli>> => TableOK'
  BY DEF TableOK

\* A worker that holds a row and moves on within it, or lets go of it.
LEMMA ControlMoves ==
    ASSUME IInv, NEW w \in Workers, at[w].pc # "idle"
    PROVE  /\ at[w].ev \in Events /\ at[w].ev \in Existing(outbox)
           /\ \A pc \in {"send", "sent", "error", "fail", "retry"} :
                 Goto(w, pc) => ControlOK' /\ \A v \in Workers : at'[v].ev = at[v].ev
           /\ Finish(w) => /\ ControlOK'
                           /\ \A v \in Workers : v # w => at'[v] = at[v]
                           /\ at'[w] = Idle
<1>1. at[w].ev \in Events /\ at[w].ev \in Existing(outbox)
  BY DEF IInv, Held, Existing, TableOK, Table
<1>2. ASSUME NEW pc \in {"send", "sent", "error", "fail", "retry"}, Goto(w, pc)
      PROVE  ControlOK' /\ \A v \in Workers : at'[v].ev = at[v].ev
  BY <1>2 DEF IInv, ControlOK, Goto, Ctl
<1>3. ASSUME Finish(w)
      PROVE  /\ ControlOK'
             /\ \A v \in Workers : v # w => at'[v] = at[v]
             /\ at'[w] = Idle
  <2>1. /\ \A v \in Workers : v # w => at'[v] = at[v]
        /\ at'[w] = Idle
        /\ at' \in [Workers -> Ctl]
    BY <1>3 DEF IInv, ControlOK, Finish, Ctl, Idle
  <2> QED
    BY <2>1 DEF IInv, ControlOK, Idle
<1> QED
  BY <1>1, <1>2, <1>3

\* An update of one row of the outbox keeps every row anybody holds.
LEMMA TableUpdate ==
    ASSUME TableOK, NEW e \in Events, NEW row \in Row, row.status # "ABSENT",
           outbox' = [outbox EXCEPT ![e] = row],
           batch' \in [Workers -> SUBSET Existing(outbox)],
           DOMAIN cli' \subseteq DOMAIN cli,
           \A f \in DOMAIN cli' : cli'[f] = cli[f]
    PROVE  TableOK' /\ Existing(outbox) \subseteq Existing(outbox')
<1>1. outbox' \in Table /\ Existing(outbox) \subseteq Existing(outbox')
  BY RowUpdate DEF TableOK
<1> QED
  BY <1>1 DEF TableOK

LEMMA StepIInv == IInv /\ [Next]_vars => IInv'
<1> SUFFICES ASSUME IInv, [Next]_vars PROVE IInv'
  OBVIOUS
<1> USE DEF IInv
<1>rows. /\ \A e \in Events : outbox[e] \in Row
         /\ \A e \in Existing(outbox) : e \in Events /\ outbox[e].status # "ABSENT"
  BY DEF TableOK, Table, Existing
<1>1. ASSUME NEW e \in Events, Record(e) PROVE IInv'
  <2>1. NewRow(outbox) \in Row /\ NewRow(outbox).status # "ABSENT"
    BY NewRowType DEF TableOK
  <2>2. TableOK' /\ Existing(outbox) \subseteq Existing(outbox')
    BY <1>1, <2>1, TableUpdate DEF Record, TableOK
  <2> QED
    BY <1>1, <2>2 DEF Record, ControlOK, RestOK, Held
<1>2. ASSUME NEW w \in Workers, Scan(w) PROVE IInv'
  <2>1. Oldest(outbox, Due(outbox), BatchSize) \subseteq Existing(outbox)
    BY QueriesExist DEF TableOK
  <2> QED
    BY <1>2, <2>1 DEF Scan, ControlOK, TableOK, RestOK, Held
<1>3. ASSUME NEW w \in Workers, Claim(w) PROVE IInv'
  <2>1. PICK e \in Oldest(outbox, batch[w], 1) :
           /\ batch' = [batch EXCEPT ![w] = @ \ {e}]
           /\ IF outbox[e].status = "PENDING"
              THEN /\ outbox' = [outbox EXCEPT ![e] = Bumped(@)]
                   /\ at' = [at EXCEPT ![w] = [pc |-> "send", ev |-> e]]
              ELSE UNCHANGED <<outbox, at>>
    BY <1>3 DEF Claim
  <2>2. e \in Existing(outbox) /\ e \in Events /\ e # None
    BY <1>rows, QueriesExist, PublisherConstants DEF TableOK
  <2>3. batch' \in [Workers -> SUBSET Existing(outbox)]
    BY <2>1 DEF TableOK
  <2>4. RestOK' /\ UNCHANGED cli
    BY <1>3 DEF Claim, RestOK
  <2>5. CASE outbox[e].status = "PENDING"
    <3>1. Bumped(outbox[e]) \in Row /\ Bumped(outbox[e]).status # "ABSENT"
      BY <1>rows, <2>2, <2>5 DEF Row, RowType, Statuses, Bumped
    <3>2. outbox' = [outbox EXCEPT ![e] = Bumped(outbox[e])]
      BY <2>1, <2>5
    <3>3. TableOK' /\ Existing(outbox) \subseteq Existing(outbox')
      BY <2>2, <2>3, <2>4, <3>1, <3>2, TableUpdate
    <3>4. at' = [at EXCEPT ![w] = [pc |-> "send", ev |-> e]]
      BY <2>1, <2>5
    <3>5. ControlOK' /\ Held'
      BY <2>2, <3>3, <3>4 DEF ControlOK, Ctl, Held
    <3> QED
      BY <2>4, <3>3, <3>5
  <2>6. CASE outbox[e].status # "PENDING"
    BY <2>1, <2>3, <2>4, <2>6 DEF ControlOK, TableOK, Held
  <2> QED
    BY <2>5, <2>6
<1>4. ASSUME NEW w \in Workers, Send(w) PROVE IInv'
  <2>1. at[w].ev \in Events /\ ControlOK' /\ \A v \in Workers : at'[v].ev = at[v].ev
    BY <1>4, ControlMoves DEF Send
  <2>2. RestOK'
    BY <1>4, <2>1 DEF Send, RestOK
  <2>3. Held'
    BY <1>4, <2>1 DEF Send, Goto, ControlOK, Held
  <2> QED
    BY <1>4, <2>1, <2>2, <2>3, TableUnchanged DEF Send
<1>5. ASSUME NEW w \in Workers, MarkSent(w) PROVE IInv'
  <2> DEFINE row == [outbox[at[w].ev] EXCEPT !.status = "SENT"]
  <2>1. /\ at[w].ev \in Events /\ ControlOK'
        /\ \A v \in Workers : v # w => at'[v] = at[v]
        /\ at'[w] = Idle
    BY <1>5, ControlMoves DEF MarkSent
  <2>2. row \in Row /\ row.status # "ABSENT"
    BY <1>rows, <2>1 DEF Row, RowType, Statuses
  <2>3. outbox' = [outbox EXCEPT ![at[w].ev] = row] /\ UNCHANGED <<batch, cli>>
    BY <1>5 DEF MarkSent
  <2>4. TableOK' /\ Existing(outbox) \subseteq Existing(outbox')
    BY <2>1, <2>2, <2>3, TableUpdate DEF TableOK
  <2>5. Held'
    BY <2>1, <2>4 DEF Held, Idle
  <2> QED
    BY <1>5, <2>1, <2>4, <2>5 DEF MarkSent, RestOK
<1>6. ASSUME NEW w \in Workers, ClaimThrows(w) PROVE IInv'
  <2>1. PICK e \in Oldest(outbox, batch[w], 1) :
           /\ batch' = [batch EXCEPT ![w] = @ \ {e}]
           /\ at' = [at EXCEPT ![w] = [pc |-> "error", ev |-> e]]
    BY <1>6 DEF ClaimThrows
  <2>2. e \in Existing(outbox) /\ e \in Events /\ e # None
    BY <1>rows, QueriesExist, PublisherConstants DEF TableOK
  <2>3. ControlOK'
    BY <2>1, <2>2 DEF ControlOK, Ctl
  <2>4. TableOK' /\ Held'
    BY <1>6, <2>1, <2>2 DEF ClaimThrows, ControlOK, TableOK, Held
  <2> QED
    BY <1>6, <2>3, <2>4 DEF ClaimThrows, RestOK
<1>7. ASSUME NEW w \in Workers, SendThrows(w) PROVE IInv'
  <2>1. at[w].ev \in Events /\ ControlOK' /\ \A v \in Workers : at'[v].ev = at[v].ev
    BY <1>7, ControlMoves DEF SendThrows
  <2>2. published' \in [Events -> Nat]
    <3>1. [published EXCEPT ![at[w].ev] = @ + 1] \in [Events -> Nat]
      BY <2>1 DEF RestOK
    <3> QED
      BY <1>7, <3>1 DEF SendThrows, RestOK
  <2>3. Held'
    BY <1>7, <2>1 DEF SendThrows, Goto, ControlOK, Held
  <2> QED
    BY <1>7, <2>1, <2>2, <2>3, TableUnchanged DEF SendThrows, RestOK
<1>8. ASSUME NEW w \in Workers, MarkThrows(w) PROVE IInv'
  <2> DEFINE row == [outbox[at[w].ev] EXCEPT !.status = "SENT"]
  <2>1. /\ at[w].ev \in Events /\ ControlOK'
        /\ \A v \in Workers : at'[v].ev = at[v].ev
    BY <1>8, ControlMoves DEF MarkThrows
  <2>2. row \in Row /\ row.status # "ABSENT"
    BY <1>rows, <2>1 DEF Row, RowType, Statuses
  <2>3. /\ UNCHANGED <<batch, cli>>
        /\ outbox' = outbox \/ outbox' = [outbox EXCEPT ![at[w].ev] = row]
    BY <1>8 DEF MarkThrows
  <2>4. ASSUME outbox' = [outbox EXCEPT ![at[w].ev] = row]
        PROVE  TableOK' /\ Existing(outbox) \subseteq Existing(outbox')
    BY <2>1, <2>2, <2>3, <2>4, TableUpdate DEF TableOK
  <2>5. TableOK' /\ Existing(outbox) \subseteq Existing(outbox')
    BY <2>3, <2>4, TableUnchanged
  <2>6. Held'
    BY <1>8, <2>1, <2>5 DEF MarkThrows, Goto, ControlOK, Held
  <2> QED
    BY <1>8, <2>1, <2>5, <2>6 DEF MarkThrows, RestOK
<1>9. ASSUME NEW w \in Workers, Refresh(w) PROVE IInv'
  <2>1. ControlOK' /\ \A v \in Workers : at'[v].ev = at[v].ev
    BY <1>9, ControlMoves DEF Refresh
  <2>2. Held'
    BY <1>9, <2>1 DEF Refresh, Goto, ControlOK, Held
  <2> QED
    BY <1>9, <2>1, <2>2, TableUnchanged DEF Refresh, RestOK
<1>10. ASSUME NEW w \in Workers, Fail(w) PROVE IInv'
  <2> DEFINE row == [outbox[at[w].ev] EXCEPT !.status = "FAILED"]
  <2>1. /\ at[w].ev \in Events /\ ControlOK'
        /\ \A v \in Workers : v # w => at'[v] = at[v]
        /\ at'[w] = Idle
    BY <1>10, ControlMoves DEF Fail
  <2>2. row \in Row /\ row.status # "ABSENT"
    BY <1>rows, <2>1 DEF Row, RowType, Statuses
  <2>3. outbox' = [outbox EXCEPT ![at[w].ev] = row] /\ UNCHANGED <<batch, cli>>
    BY <1>10 DEF Fail
  <2>4. TableOK' /\ Existing(outbox) \subseteq Existing(outbox')
    BY <2>1, <2>2, <2>3, TableUpdate DEF TableOK
  <2>5. Held'
    BY <2>1, <2>4 DEF Held, Idle
  <2> QED
    BY <1>10, <2>1, <2>4, <2>5 DEF Fail, RestOK
<1>11. ASSUME NEW w \in Workers, Retry(w) PROVE IInv'
  <2> DEFINE row == [outbox[at[w].ev] EXCEPT !.status = "PENDING", !.due = FALSE]
  <2>1. /\ at[w].ev \in Events /\ ControlOK'
        /\ \A v \in Workers : v # w => at'[v] = at[v]
        /\ at'[w] = Idle
    BY <1>11, ControlMoves DEF Retry
  <2>2. row \in Row /\ row.status # "ABSENT"
    BY <1>rows, <2>1 DEF Row, RowType, Statuses
  <2>3. outbox' = [outbox EXCEPT ![at[w].ev] = row] /\ UNCHANGED <<batch, cli>>
    BY <1>11 DEF Retry
  <2>4. TableOK' /\ Existing(outbox) \subseteq Existing(outbox')
    BY <2>1, <2>2, <2>3, TableUpdate DEF TableOK
  <2>5. Held'
    BY <2>1, <2>4 DEF Held, Idle
  <2> QED
    BY <1>11, <2>1, <2>4, <2>5 DEF Retry, RestOK
<1>12. ASSUME NEW w \in Workers, Crash(w) PROVE IInv'
  <2>1. at' = [at EXCEPT ![w] = Idle]
    BY <1>12 DEF Crash, Finish
  <2>2. ControlOK' /\ Held'
    BY <1>12, <2>1, PublisherConstants DEF Crash, ControlOK, Ctl, Idle, Held
  <2> QED
    BY <1>12, <2>2 DEF Crash, TableOK, RestOK
<1>13. ASSUME NEW e \in Events, Elapse(e) PROVE IInv'
  <2> DEFINE row == [outbox[e] EXCEPT !.due = TRUE]
  <2>1. CASE e \in Existing(outbox)
    <3>1. row \in Row /\ row.status # "ABSENT"
      BY <1>rows, <2>1 DEF Row, RowType, Statuses
    <3>2. outbox' = [outbox EXCEPT ![e] = row] /\ UNCHANGED <<batch, cli>>
      BY <1>13 DEF Elapse
    <3>3. TableOK' /\ Existing(outbox) \subseteq Existing(outbox')
      BY <3>1, <3>2, TableUpdate DEF TableOK
    <3> QED
      BY <1>13, <3>3 DEF Elapse, ControlOK, RestOK, Held
  <2>2. CASE e \notin Existing(outbox)
    <3>1. row \in Row
      BY <1>rows DEF Row, RowType, Statuses
    <3>2. outbox' = [outbox EXCEPT ![e] = row] /\ UNCHANGED <<batch, cli>>
      BY <1>13 DEF Elapse
    <3>3. outbox' \in Table /\ \A f \in Events : outbox'[f].status = outbox[f].status
      BY <1>rows, <3>1, <3>2 DEF TableOK, Table, Row, RowType
    <3>4. Existing(outbox') = Existing(outbox)
      BY <3>3 DEF Existing, TableOK, Table
    <3> QED
      BY <1>13, <3>2, <3>3, <3>4 DEF Elapse, ControlOK, TableOK, RestOK, Held
  <2> QED
    BY <2>1, <2>2
<1>14. ASSUME NEW st \in Statuses, NEW r \in BOOLEAN, ReplayStart(st, r) PROVE IInv'
  <2> DEFINE S == Oldest(outbox, WithStatus(outbox, st), ReplayLimit)
  <2>1. S \subseteq Existing(outbox)
    BY QueriesExist DEF TableOK
  <2>2. \A e \in S : (IF r THEN 0 ELSE outbox[e].attempts) \in Nat
    BY <1>rows, <2>1 DEF Row, RowType
  <2>3. cli' = [e \in S |-> IF r THEN 0 ELSE outbox[e].attempts]
    BY <1>14 DEF ReplayStart
  <2>4. TableOK'
    BY <1>14, <2>1, <2>2, <2>3 DEF ReplayStart, TableOK
  <2> QED
    BY <1>14, <2>4 DEF ReplayStart, ControlOK, RestOK, Held
<1>15. ASSUME NEW e \in Events, ReplayRow(e) PROVE IInv'
  <2> DEFINE row == [outbox[e] EXCEPT !.status = "PENDING", !.due = TRUE,
                                      !.attempts = cli[e]]
  <2>1. cli[e] \in Nat
    BY <1>15, QueriesExist DEF ReplayRow, TableOK
  <2>2. row \in Row /\ row.status # "ABSENT"
    BY <1>rows, <2>1 DEF Row, RowType, Statuses
  <2>3. outbox' = [outbox EXCEPT ![e] = row] /\ UNCHANGED batch
    BY <1>15 DEF ReplayRow
  <2>4. TableOK' /\ Existing(outbox) \subseteq Existing(outbox')
    BY <1>15, <2>2, <2>3, TableUpdate DEF ReplayRow, TableOK
  <2> QED
    BY <1>15, <2>4 DEF ReplayRow, ControlOK, RestOK, Held
<1>16. ASSUME UNCHANGED vars PROVE IInv'
  BY <1>16 DEF vars, ControlOK, TableOK, RestOK, Held
<1> QED
  BY <1>1, <1>2, <1>3, <1>4, <1>5, <1>6, <1>7, <1>8, <1>9, <1>10, <1>11, <1>12,
     <1>13, <1>14, <1>15, <1>16 DEF Next, PublisherStep, Fault, Statuses

\* Every reachable state of the publisher is well typed: in particular no
\* batch and no replay in progress holds a row that does not exist.
THEOREM TypeCorrect == Spec => []TypeOK
<1>1. IInv => TypeOK
  BY TypeParts DEF IInv
<1> QED
  BY <1>1, InitIInv, StepIInv, PTL DEF Spec

THEOREM Invariance == Spec => []IInv
  BY InitIInv, StepIInv, PTL DEF Spec

-----------------------------------------------------------------------------
(* A row is SENT only if its event is in the topic: a worker reaches the    *)
(* update to SENT only through a send that returned.                       *)

SentInv ==
    /\ SentIsPublished
    /\ \A w \in Workers : at[w].pc = "sent" => published[at[w].ev] > 0

\* Steps that publish nothing, mark nothing SENT and take nobody to the update.
LEMMA SentFrame ==
    ASSUME IInv, SentInv, \A e \in Events : published'[e] >= published[e],
           published' \in [Events -> Nat],
           \A e \in Events : outbox'[e].status = "SENT" => outbox[e].status = "SENT",
           \A w \in Workers : at'[w].pc = "sent" => at'[w] = at[w]
    PROVE  SentInv'
<1>1. \A e \in Events : published[e] \in Nat /\ published'[e] \in Nat
  BY DEF IInv, RestOK
<1>2. SentIsPublished'
  BY <1>1 DEF SentInv, SentIsPublished
<1>3. ASSUME NEW w \in Workers, at'[w].pc = "sent" PROVE published'[at'[w].ev] > 0
  <2>1. at'[w] = at[w] /\ at[w].ev \in Events
    BY <1>3, ControlMoves
  <2> QED
    BY <1>1, <1>3, <2>1 DEF SentInv
<1> QED
  BY <1>2, <1>3 DEF SentInv

LEMMA StepSentInv == IInv /\ SentInv /\ [Next]_vars => SentInv'
<1> SUFFICES ASSUME IInv, SentInv, [Next]_vars PROVE SentInv'
  OBVIOUS
<1>pub. \A e \in Events : published[e] \in Nat /\ published[e] >= published[e]
  BY DEF IInv, RestOK
<1>typ. /\ published \in [Events -> Nat]
        /\ outbox \in [Events -> Row]
        /\ at \in [Workers -> Ctl]
  BY DEF IInv, RestOK, TableOK, Table, ControlOK
<1>row. \A e \in Events : outbox[e] \in RowType(Statuses)
  BY <1>typ DEF Row
<1>1. ASSUME NEW e \in Events, Record(e) PROVE SentInv'
  BY <1>1, <1>pub, <1>typ, SentFrame DEF Record, NewRow
<1>2. ASSUME NEW w \in Workers, Scan(w) PROVE SentInv'
  BY <1>2, <1>pub, <1>typ, SentFrame DEF Scan
<1>3. ASSUME NEW w \in Workers, Claim(w) PROVE SentInv'
  <2>1. UNCHANGED published /\ \A v \in Workers : at'[v].pc = "sent" => at'[v] = at[v]
    BY <1>3, <1>typ DEF Claim
  <2>2. \A e \in Events : outbox'[e].status = "SENT" => outbox[e].status = "SENT"
    BY <1>3, <1>typ, <1>row DEF Claim, Bumped, RowType
  <2> QED
    BY <1>pub, <1>typ, <2>1, <2>2, SentFrame
<1>4. ASSUME NEW w \in Workers, Send(w) PROVE SentInv'
  <2> DEFINE e == at[w].ev
  <2>1. e \in Events /\ published' = [published EXCEPT ![e] = @ + 1]
    BY <1>4, ControlMoves DEF Send
  <2>2. \A f \in Events : published'[f] \in Nat /\ published'[f] >= published[f]
    BY <1>pub, <1>typ, <2>1
  <2>3. published'[e] > 0
    BY <1>pub, <1>typ, <2>1
  <2>4. SentIsPublished'
    BY <1>4, <1>pub, <2>2 DEF Send, SentInv, SentIsPublished
  <2>5. ASSUME NEW v \in Workers, at'[v].pc = "sent" PROVE published'[at'[v].ev] > 0
    <3>1. CASE v = w
      BY <1>4, <1>typ, <2>3, <3>1 DEF Send, Goto, Ctl
    <3>2. CASE v # w
      <4>1. at'[v] = at[v] /\ at[v].pc = "sent"
        BY <1>4, <1>typ, <2>5, <3>2 DEF Send, Goto
      <4>2. at[v].ev \in Events
        BY <4>1, ControlMoves
      <4> QED
        BY <1>pub, <2>2, <4>1, <4>2 DEF SentInv
    <3> QED
      BY <3>1, <3>2
  <2> QED
    BY <2>4, <2>5 DEF SentInv
<1>5. ASSUME NEW w \in Workers, MarkSent(w) PROVE SentInv'
  <2>1. at[w].ev \in Events /\ published[at[w].ev] > 0
    BY <1>5, ControlMoves DEF MarkSent, SentInv
  <2>2. SentIsPublished'
    BY <1>5, <1>typ, <2>1 DEF MarkSent, SentInv, SentIsPublished
  <2>3. \A v \in Workers : at'[v].pc = "sent" => at'[v] = at[v]
    BY <1>5, <1>typ DEF MarkSent, Finish, Idle
  <2> QED
    BY <1>5, <2>2, <2>3 DEF MarkSent, SentInv
<1>6. ASSUME NEW w \in Workers, ClaimThrows(w) PROVE SentInv'
  BY <1>6, <1>pub, <1>typ, SentFrame DEF ClaimThrows
<1>7. ASSUME NEW w \in Workers, SendThrows(w) PROVE SentInv'
  <2>1. at[w].ev \in Events
    BY <1>7, ControlMoves DEF SendThrows
  <2>2. /\ published' \in [Events -> Nat]
        /\ \A e \in Events : published'[e] >= published[e]
    BY <1>7, <1>pub, <1>typ, <2>1 DEF SendThrows
  <2>3. \A v \in Workers : at'[v].pc = "sent" => at'[v] = at[v]
    BY <1>7, <1>typ DEF SendThrows, Goto, Ctl
  <2> QED
    BY <1>7, <2>2, <2>3, SentFrame DEF SendThrows
<1>8. ASSUME NEW w \in Workers, MarkThrows(w) PROVE SentInv'
  <2>1. at[w].ev \in Events /\ published[at[w].ev] > 0 /\ UNCHANGED published
    BY <1>8, ControlMoves DEF MarkThrows, SentInv
  <2>2. \A e \in Events : outbox'[e].status = "SENT"
                            => outbox[e].status = "SENT" \/ e = at[w].ev
    BY <1>8, <1>typ DEF MarkThrows
  <2>3. SentIsPublished'
    BY <2>1, <2>2 DEF SentInv, SentIsPublished
  <2>4. \A v \in Workers : at'[v].pc = "sent" => at'[v] = at[v]
    BY <1>8, <1>typ DEF MarkThrows, Goto, Ctl
  <2> QED
    BY <2>1, <2>3, <2>4 DEF SentInv
<1>9. ASSUME NEW w \in Workers, Refresh(w) PROVE SentInv'
  BY <1>9, <1>pub, <1>typ, SentFrame DEF Refresh, Goto, Ctl
<1>10. ASSUME NEW w \in Workers, Fail(w) PROVE SentInv'
  BY <1>10, <1>pub, <1>typ, <1>row, SentFrame DEF Fail, Finish, Idle, RowType
<1>11. ASSUME NEW w \in Workers, Retry(w) PROVE SentInv'
  BY <1>11, <1>pub, <1>typ, <1>row, SentFrame DEF Retry, Finish, Idle, RowType
<1>12. ASSUME NEW w \in Workers, Crash(w) PROVE SentInv'
  BY <1>12, <1>pub, <1>typ, SentFrame DEF Crash, Finish, Idle
<1>13. ASSUME NEW e \in Events, Elapse(e) PROVE SentInv'
  BY <1>13, <1>pub, <1>typ, <1>row, SentFrame DEF Elapse, RowType
<1>14. ASSUME NEW st \in Statuses, NEW r \in BOOLEAN, ReplayStart(st, r) PROVE SentInv'
  BY <1>14, <1>pub, <1>typ, SentFrame DEF ReplayStart
<1>15. ASSUME NEW e \in Events, ReplayRow(e) PROVE SentInv'
  BY <1>15, <1>pub, <1>typ, <1>row, SentFrame DEF ReplayRow, RowType
<1>16. ASSUME UNCHANGED vars PROVE SentInv'
  BY <1>16 DEF vars, SentInv, SentIsPublished
<1> QED
  BY <1>1, <1>2, <1>3, <1>4, <1>5, <1>6, <1>7, <1>8, <1>9, <1>10, <1>11, <1>12,
     <1>13, <1>14, <1>15, <1>16 DEF Next, PublisherStep, Fault, Statuses

\* However workers, faults and replays interleave, an outbox row is SENT only
\* if the broker has its event: publishOnce never loses a confirmation by
\* marking the row of an event that did not go out.
THEOREM SentMeansPublished == Spec => []SentIsPublished
<1>1. Init => SentInv
  BY DEF Init, SentInv, SentIsPublished, NoRow, Idle
<1>2. SentInv => SentIsPublished
  BY DEF SentInv
<1> QED
  BY <1>1, <1>2, InitIInv, StepIInv, StepSentInv, PTL DEF Spec

-----------------------------------------------------------------------------
(* Without a replay a row is given up only after MaxAttempts claims: the    *)
(* catch block decides on the attempts it reads, and nobody lowers them.   *)

FailedInv ==
    replays = 0 =>
       /\ DOMAIN cli = {}
       /\ \A e \in Events : outbox[e].status = "FAILED" => outbox[e].attempts >= MaxAttempts
       /\ \A w \in Workers : at[w].pc = "fail" => outbox[at[w].ev].attempts >= MaxAttempts

\* Steps after which no row has fewer attempts, none is newly FAILED and no
\* worker has newly decided to give its row up.
LEMMA FailedFrame ==
    ASSUME IInv, FailedInv, UNCHANGED <<cli, replays>>,
           \A e \in Events : /\ outbox'[e].attempts \in Nat
                             /\ \/ e \notin Existing(outbox)
                                \/ outbox'[e].attempts >= outbox[e].attempts,
           \A e \in Events : outbox'[e].status = "FAILED" => outbox[e].status = "FAILED",
           \A w \in Workers : at'[w].pc = "fail" => at'[w] = at[w]
    PROVE  FailedInv'
<1> SUFFICES ASSUME replays = 0
             PROVE  /\ DOMAIN cli' = {}
                    /\ \A e \in Events : outbox'[e].status = "FAILED"
                                           => outbox'[e].attempts >= MaxAttempts
                    /\ \A w \in Workers : at'[w].pc = "fail"
                                            => outbox'[at'[w].ev].attempts >= MaxAttempts
  BY DEF FailedInv
<1>1. \A e \in Events : outbox[e].attempts \in Nat
  BY DEF IInv, TableOK, Table, Row, RowType
<1>2. MaxAttempts \in Nat
  BY PublisherConstants
<1>3. ASSUME NEW e \in Events, outbox'[e].status = "FAILED"
      PROVE  outbox'[e].attempts >= MaxAttempts
  <2>1. outbox[e].status = "FAILED" /\ e \in Existing(outbox)
    BY <1>3 DEF Existing, IInv, TableOK, Table
  <2> QED
    BY <1>1, <1>2, <2>1 DEF FailedInv
<1>4. ASSUME NEW w \in Workers, at'[w].pc = "fail"
      PROVE  outbox'[at'[w].ev].attempts >= MaxAttempts
  <2>1. at'[w] = at[w] /\ at[w].ev \in Events /\ at[w].ev \in Existing(outbox)
    BY <1>4, ControlMoves
  <2> QED
    BY <1>1, <1>2, <1>4, <2>1 DEF FailedInv
<1> QED
  BY <1>3, <1>4 DEF FailedInv

LEMMA StepFailedInv == IInv /\ FailedInv /\ [Next]_vars => FailedInv'
<1> SUFFICES ASSUME IInv, FailedInv, [Next]_vars PROVE FailedInv'
  OBVIOUS
<1>typ. /\ outbox \in [Events -> Row]
        /\ at \in [Workers -> Ctl]
  BY DEF IInv, TableOK, Table, ControlOK
<1>row. \A e \in Events : /\ outbox[e] \in RowType(Statuses)
                          /\ outbox[e].attempts \in Nat
                          /\ outbox[e].attempts >= outbox[e].attempts
  BY <1>typ DEF Row, RowType
<1>1. ASSUME NEW e \in Events, Record(e) PROVE FailedInv'
  BY <1>1, <1>row, <1>typ, FailedFrame DEF Record, NewRow
<1>2. ASSUME NEW w \in Workers, Scan(w) PROVE FailedInv'
  BY <1>2, <1>row, FailedFrame DEF Scan
<1>3. ASSUME NEW w \in Workers, Claim(w) PROVE FailedInv'
  <2>1. UNCHANGED <<cli, replays>> /\ \A v \in Workers : at'[v].pc = "fail" => at'[v] = at[v]
    BY <1>3, <1>typ DEF Claim
  <2>2. \A e \in Events : Bumped(outbox[e]) = [outbox[e] EXCEPT !.attempts = outbox[e].attempts + 1]
    BY DEF Bumped
  <2>3. \A e \in Events : /\ outbox'[e].status = outbox[e].status
                          /\ outbox'[e].attempts \in Nat
                          /\ outbox'[e].attempts >= outbox[e].attempts
    BY <1>3, <1>typ, <1>row, <2>2 DEF Claim, RowType
  <2> QED
    BY <2>1, <2>3, FailedFrame
<1>4. ASSUME NEW w \in Workers, Send(w) PROVE FailedInv'
  BY <1>4, <1>row, <1>typ, FailedFrame DEF Send, Goto, Ctl
<1>5. ASSUME NEW w \in Workers, MarkSent(w) PROVE FailedInv'
  BY <1>5, <1>row, <1>typ, FailedFrame DEF MarkSent, Finish, Idle, RowType
<1>6. ASSUME NEW w \in Workers, ClaimThrows(w) PROVE FailedInv'
  BY <1>6, <1>row, <1>typ, FailedFrame DEF ClaimThrows
<1>7. ASSUME NEW w \in Workers, SendThrows(w) PROVE FailedInv'
  BY <1>7, <1>row, <1>typ, FailedFrame DEF SendThrows, Goto, Ctl
<1>8. ASSUME NEW w \in Workers, MarkThrows(w) PROVE FailedInv'
  BY <1>8, <1>row, <1>typ, FailedFrame DEF MarkThrows, Goto, Ctl, RowType
<1>9. ASSUME NEW w \in Workers, Refresh(w) PROVE FailedInv'
  <2>1. UNCHANGED <<outbox, cli, replays>>
    BY <1>9 DEF Refresh
  <2>2. ASSUME NEW v \in Workers, at'[v].pc = "fail", replays = 0
        PROVE  outbox[at'[v].ev].attempts >= MaxAttempts
    <3>1. CASE v = w
      BY <1>9, <1>typ, <2>2, <3>1 DEF Refresh, Goto, Ctl, Exhausted
    <3>2. CASE v # w
      BY <1>9, <1>typ, <2>2, <3>2 DEF Refresh, Goto, FailedInv
    <3> QED
      BY <3>1, <3>2
  <2> QED
    BY <2>1, <2>2 DEF FailedInv
<1>10. ASSUME NEW w \in Workers, Fail(w) PROVE FailedInv'
  <2> DEFINE e == at[w].ev
  <2>1. UNCHANGED <<cli, replays>> /\ \A v \in Workers : at'[v].pc = "fail" => at'[v] = at[v]
    BY <1>10, <1>typ DEF Fail, Finish, Idle
  <2>2. e \in Events /\ (replays = 0 => outbox[e].attempts >= MaxAttempts)
    BY <1>10, ControlMoves DEF Fail, FailedInv
  <2>3. /\ \A f \in Events : outbox'[f].attempts = outbox[f].attempts
        /\ \A f \in Events : f # e => outbox'[f].status = outbox[f].status
    BY <1>10, <1>row, <1>typ DEF Fail, RowType
  <2>4. \A v \in Workers : at[v].pc = "fail" => at[v].ev \in Events
    BY ControlMoves
  <2> QED
    BY <2>1, <2>2, <2>3, <2>4 DEF FailedInv
<1>11. ASSUME NEW w \in Workers, Retry(w) PROVE FailedInv'
  BY <1>11, <1>row, <1>typ, FailedFrame DEF Retry, Finish, Idle, RowType
<1>12. ASSUME NEW w \in Workers, Crash(w) PROVE FailedInv'
  BY <1>12, <1>row, <1>typ, FailedFrame DEF Crash, Finish, Idle
<1>13. ASSUME NEW e \in Events, Elapse(e) PROVE FailedInv'
  BY <1>13, <1>row, <1>typ, FailedFrame DEF Elapse, RowType
<1>14. ASSUME NEW st \in Statuses, NEW r \in BOOLEAN, ReplayStart(st, r) PROVE FailedInv'
  BY <1>14 DEF ReplayStart, FailedInv, IInv, RestOK
<1>15. ASSUME NEW e \in Events, ReplayRow(e) PROVE FailedInv'
  BY <1>15, QueriesExist DEF ReplayRow, FailedInv, IInv, TableOK
<1>16. ASSUME UNCHANGED vars PROVE FailedInv'
  BY <1>16 DEF vars, FailedInv
<1> QED
  BY <1>1, <1>2, <1>3, <1>4, <1>5, <1>6, <1>7, <1>8, <1>9, <1>10, <1>11, <1>12,
     <1>13, <1>14, <1>15, <1>16 DEF Next, PublisherStep, Fault, Statuses

\* Unless somebody replays, publishOnce gives a row up (FAILED, never polled
\* again) only after it has been claimed MAX_ATTEMPTS times.
THEOREM GivesUpOnlyWhenExhausted == Spec => []FailedOnlyWhenExhausted
<1>1. Init => FailedInv
  BY DEF Init, FailedInv, NoRow, Idle
<1>2. FailedInv => FailedOnlyWhenExhausted
  BY DEF FailedInv, FailedOnlyWhenExhausted
<1> QED
  BY <1>1, <1>2, InitIInv, StepIInv, StepFailedInv, PTL DEF Spec

-----------------------------------------------------------------------------
(* A lone worker, and no replay: every claim but the current one ended in a *)
(* fault or in SENT.                                                        *)

\* Worker w handles e at one of the places P.
Handles(w, e, P) == at[w].ev = e /\ at[w].pc \in P

InHand == {"send", "sent"}
InError == {"error", "retry", "fail"}

Charged(e) ==
    \/ outbox[e].attempts <= faults
    \/ outbox[e].attempts = faults + 1 /\ \/ outbox[e].status = "SENT"
                                          \/ \E w \in Workers : Handles(w, e, InHand)

Thrifty ==
    /\ DOMAIN cli = {}
    /\ \A e \in Events : Charged(e)
    /\ \A w \in Workers : at[w].pc \in InError => outbox[at[w].ev].attempts <= faults

Alone == Cardinality(Workers) = 1 /\ replays = 0

\* Steps without a fault that charge nothing to a row.
LEMMA ThriftyFrame ==
    ASSUME IInv, IInv', Thrifty, UNCHANGED <<faults, cli>>,
           \A e \in Events :
              \/ outbox'[e].attempts <= faults
              \/ /\ outbox'[e].attempts = outbox[e].attempts
                 /\ outbox[e].status = "SENT" => outbox'[e].status = "SENT"
                 /\ \A w \in Workers : Handles(w, e, InHand)
                       => Handles(w, e, InHand)' \/ outbox'[e].status = "SENT",
           \A w \in Workers : at'[w].pc \in InError
                                 => at[w].pc \in InError /\ at'[w].ev = at[w].ev
    PROVE  Thrifty'
<1>1. ASSUME NEW e \in Events PROVE Charged(e)'
  <2>1. Charged(e)
    BY DEF Thrifty
  <2> QED
    BY <2>1 DEF Charged
<1>2. ASSUME NEW w \in Workers, at'[w].pc \in InError
      PROVE  outbox'[at'[w].ev].attempts <= faults'
  <2>1. /\ at[w].pc \in InError /\ at'[w].ev = at[w].ev
        /\ outbox[at[w].ev].attempts <= faults
    BY <1>2 DEF Thrifty
  <2>2. at[w].ev \in Events
    BY <2>1, ControlMoves DEF InError
  <2> QED
    BY <2>1, <2>2
<1> QED
  BY <1>1, <1>2 DEF Thrifty

\* A fault pays for the claim it breaks off.
LEMMA ThriftyFault ==
    ASSUME IInv, IInv', Thrifty, faults' = faults + 1, UNCHANGED cli,
           \A e \in Events : outbox'[e].attempts = outbox[e].attempts
    PROVE  Thrifty'
<1>1. /\ faults \in Nat
      /\ \A e \in Events : outbox[e].attempts \in Nat
  BY DEF IInv, RestOK, TableOK, Table, Row, RowType
<1>2. ASSUME NEW e \in Events PROVE outbox'[e].attempts <= faults'
  <2>1. Charged(e)
    BY DEF Thrifty
  <2> QED
    BY <1>1, <2>1 DEF Charged
<1>3. \A w \in Workers : at'[w].pc \in InError => at'[w].ev \in Events
  BY DEF IInv, Held, TableOK, Table, Existing, InError
<1> QED
  BY <1>2, <1>3 DEF Thrifty, Charged

\* An idle worker, when it is alone, claims a row all of whose claims failed.
LEMMA ThriftyClaim ==
    ASSUME IInv, IInv', Thrifty, Cardinality(Workers) = 1, NEW w \in Workers, Claim(w)
    PROVE  Thrifty'
<1>typ. /\ outbox \in [Events -> Row] /\ at \in [Workers -> Ctl]
        /\ faults \in Nat
        /\ \A e \in Events : outbox[e] \in RowType(Statuses)
        /\ \A e \in Events : outbox[e].attempts \in Nat
        /\ \A v \in Workers : batch[v] \subseteq Events
  BY DEF IInv, RestOK, TableOK, Table, ControlOK, Row, RowType, Existing
<1>same. UNCHANGED <<faults, cli>>
  BY DEF Claim
<1>lone. \A v \in Workers : v = w
  BY PublisherConstants, FS_Singleton
<1>idle. \A v \in Workers, e \in Events : ~Handles(v, e, InHand)
  BY <1>lone DEF Claim, Handles, InHand
<1>1. PICK e \in Oldest(outbox, batch[w], 1) :
         IF outbox[e].status = "PENDING"
         THEN /\ outbox' = [outbox EXCEPT ![e] = Bumped(outbox[e])]
              /\ at' = [at EXCEPT ![w] = [pc |-> "send", ev |-> e]]
         ELSE UNCHANGED <<outbox, at>>
  BY DEF Claim
<1>2. e \in Events
  BY <1>typ DEF Oldest
<1>3. CASE outbox[e].status = "PENDING"
  <2>1. Bumped(outbox[e]) = [outbox[e] EXCEPT !.attempts = outbox[e].attempts + 1]
    BY DEF Bumped
  <2>2. /\ outbox' = [outbox EXCEPT ![e] = Bumped(outbox[e])]
        /\ at' = [at EXCEPT ![w] = [pc |-> "send", ev |-> e]]
    BY <1>1, <1>3
  <2>3. outbox'[e].attempts = outbox[e].attempts + 1
    BY <1>2, <1>typ, <2>1, <2>2 DEF RowType
  <2>4. outbox[e].attempts <= faults
    BY <1>2, <1>3, <1>idle DEF Thrifty, Charged
  <2>5. Handles(w, e, InHand)'
    BY <1>typ, <2>2 DEF Handles, InHand
  <2>6. outbox'[e].attempts <= faults' + 1
    BY <1>2, <1>same, <1>typ, <2>3, <2>4
  <2>7. outbox'[e].attempts \in Nat /\ faults' \in Nat
    BY <1>2, <1>same, <1>typ, <2>3
  <2>8. Charged(e)'
    BY <2>5, <2>6, <2>7 DEF Charged
  <2>9. ASSUME NEW f \in Events, f # e PROVE Charged(f)'
    <3>1. outbox'[f] = outbox[f] /\ Charged(f)
      BY <1>typ, <2>2, <2>9 DEF Thrifty
    <3> QED
      BY <1>idle, <1>same, <3>1 DEF Charged
  <2>10. \A v \in Workers : at'[v].pc \notin InError
    BY <1>lone, <1>typ, <2>2 DEF InError
  <2> QED
    BY <1>same, <2>8, <2>9, <2>10 DEF Thrifty
<1>4. CASE outbox[e].status # "PENDING"
  BY <1>1, <1>4, <1>same, ThriftyFrame DEF Handles
<1> QED
  BY <1>3, <1>4

LEMMA StepThrifty == IInv /\ (Alone => Thrifty) /\ [Next]_vars => (Alone => Thrifty)'
<1> SUFFICES ASSUME IInv, Alone => Thrifty, [Next]_vars, Alone' PROVE Thrifty'
  OBVIOUS
<1>next. IInv'
  BY StepIInv
<1>typ. /\ outbox \in [Events -> Row] /\ at \in [Workers -> Ctl]
        /\ replays \in Nat /\ faults \in Nat
  BY DEF IInv, RestOK, TableOK, Table, ControlOK
<1>row. \A e \in Events : outbox[e] \in RowType(Statuses)
  BY <1>typ DEF Row
<1>lone. replays' = replays => Alone /\ Thrifty
  BY DEF Alone
<1>1. ASSUME NEW e \in Events, Record(e) PROVE Thrifty'
  <2>1. Thrifty
    BY <1>1, <1>lone DEF Record
  <2>2. outbox'[e].attempts = 0 /\ \A f \in Events : f # e => outbox'[f] = outbox[f]
    BY <1>1, <1>typ DEF Record, NewRow
  <2>3. outbox'[e].attempts <= faults
    BY <1>typ, <2>2
  <2>4. at' = at /\ UNCHANGED <<faults, cli>>
    BY <1>1 DEF Record
  <2>5. \A f \in Events :
           \/ outbox'[f].attempts <= faults
           \/ /\ outbox'[f].attempts = outbox[f].attempts
              /\ outbox[f].status = "SENT" => outbox'[f].status = "SENT"
    BY <2>2, <2>3
  <2> QED
    BY <1>next, <2>1, <2>4, <2>5, ThriftyFrame DEF Handles
<1>2. ASSUME NEW w \in Workers, Scan(w) PROVE Thrifty'
  BY <1>2, <1>lone, <1>next, ThriftyFrame DEF Scan, Handles
<1>3. ASSUME NEW w \in Workers, Claim(w) PROVE Thrifty'
  <2>1. Thrifty /\ Cardinality(Workers) = 1
    BY <1>3, <1>lone DEF Claim, Alone
  <2> QED
    BY <1>3, <1>next, <2>1, ThriftyClaim
<1>4. ASSUME NEW w \in Workers, Send(w) PROVE Thrifty'
  <2>1. Thrifty
    BY <1>4, <1>lone DEF Send
  <2>2. \A v \in Workers : /\ at'[v].ev = at[v].ev
                           /\ at[v].pc \in InHand => at'[v].pc \in InHand
                           /\ at'[v].pc \in InError => at[v].pc \in InError
    BY <1>4, <1>typ DEF Send, Goto, Ctl, InHand, InError
  <2> QED
    BY <1>4, <1>next, <2>1, <2>2, ThriftyFrame DEF Send, Handles
<1>5. ASSUME NEW w \in Workers, MarkSent(w) PROVE Thrifty'
  <2>1. Thrifty
    BY <1>5, <1>lone DEF MarkSent
  <2>2. \A v \in Workers : v # w => at'[v] = at[v]
    BY <1>5, <1>typ DEF MarkSent, Finish
  <2>3. \A v \in Workers : at'[v].pc \in InError => at'[v] = at[v]
    BY <1>5, <1>typ, <2>2 DEF MarkSent, Finish, Idle, InError
  <2>4. \A e \in Events : /\ outbox'[e].attempts = outbox[e].attempts
                          /\ e # at[w].ev => outbox'[e] = outbox[e]
                          /\ e = at[w].ev => outbox'[e].status = "SENT"
    BY <1>5, <1>typ, <1>row DEF MarkSent, RowType
  <2>5. \A e \in Events, v \in Workers : Handles(v, e, InHand)
           => Handles(v, e, InHand)' \/ outbox'[e].status = "SENT"
    BY <2>2, <2>4 DEF Handles
  <2>6. \A e \in Events : outbox[e].status = "SENT" => outbox'[e].status = "SENT"
    BY <2>4
  <2> QED
    BY <1>5, <1>next, <2>1, <2>3, <2>4, <2>5, <2>6, ThriftyFrame DEF MarkSent
<1>6. ASSUME NEW w \in Workers, ClaimThrows(w) \/ SendThrows(w) \/ MarkThrows(w) \/ Crash(w)
      PROVE  Thrifty'
  <2>1. Thrifty /\ faults' = faults + 1 /\ UNCHANGED cli
    BY <1>6, <1>lone DEF ClaimThrows, SendThrows, MarkThrows, Crash
  <2>2. \A e \in Events : outbox'[e].attempts = outbox[e].attempts
    BY <1>6, <1>typ, <1>row DEF ClaimThrows, SendThrows, MarkThrows, Crash, RowType
  <2> QED
    BY <1>next, <2>1, <2>2, ThriftyFault
<1>7. ASSUME NEW w \in Workers, Refresh(w) PROVE Thrifty'
  <2>1. Thrifty
    BY <1>7, <1>lone DEF Refresh
  <2>2. \A v \in Workers : /\ at'[v].ev = at[v].ev
                           /\ at[v].pc \in InHand => at'[v].pc = at[v].pc
                           /\ at'[v].pc \in InError => at[v].pc \in InError
    BY <1>7, <1>typ DEF Refresh, Goto, Ctl, InHand, InError
  <2> QED
    BY <1>7, <1>next, <2>1, <2>2, ThriftyFrame DEF Refresh, Handles
<1>8. ASSUME NEW w \in Workers, Fail(w) \/ Retry(w) PROVE Thrifty'
  <2>1. Thrifty
    BY <1>8, <1>lone DEF Fail, Retry
  <2>2. \A v \in Workers : v # w => at'[v] = at[v]
    BY <1>8, <1>typ DEF Fail, Retry, Finish
  <2>3. /\ \A v \in Workers : at'[v].pc \in InError => at'[v] = at[v]
        /\ \A v \in Workers : at[v].pc \in InHand => at'[v] = at[v]
    BY <1>8, <1>typ, <2>2 DEF Fail, Retry, Finish, Idle, InError, InHand
  <2>4. outbox[at[w].ev].attempts <= faults
    BY <1>8, <2>1 DEF Thrifty, Fail, Retry, InError
  <2>5. \A e \in Events : /\ outbox'[e].attempts = outbox[e].attempts
                          /\ e # at[w].ev => outbox'[e] = outbox[e]
    BY <1>8, <1>typ, <1>row DEF Fail, Retry, RowType
  <2>6. \A e \in Events : \/ outbox'[e].attempts <= faults
                          \/ /\ outbox'[e].attempts = outbox[e].attempts
                             /\ outbox[e].status = "SENT" => outbox'[e].status = "SENT"
    BY <2>4, <2>5
  <2>7. \A e \in Events, v \in Workers : Handles(v, e, InHand) => Handles(v, e, InHand)'
    BY <2>3 DEF Handles
  <2> QED
    BY <1>8, <1>next, <2>1, <2>3, <2>6, <2>7, ThriftyFrame DEF Fail, Retry
<1>9. ASSUME NEW e \in Events, Elapse(e) PROVE Thrifty'
  <2>1. Thrifty
    BY <1>9, <1>lone DEF Elapse
  <2>2. \A f \in Events : /\ outbox'[f].attempts = outbox[f].attempts
                          /\ outbox'[f].status = outbox[f].status
    BY <1>9, <1>typ, <1>row DEF Elapse, RowType
  <2> QED
    BY <1>9, <1>next, <2>1, <2>2, ThriftyFrame DEF Elapse, Handles
<1>10. ASSUME NEW st \in Statuses, NEW r \in BOOLEAN, ReplayStart(st, r) PROVE Thrifty'
  <2>1. replays' = replays + 1 /\ replays' = 0
    BY <1>10 DEF ReplayStart, Alone
  <2> QED
    BY <1>typ, <2>1
<1>11. ASSUME NEW e \in Events, ReplayRow(e) PROVE Thrifty'
  <2>1. DOMAIN cli = {}
    BY <1>11, <1>lone DEF ReplayRow, Thrifty
  <2> QED
    BY <1>11, <2>1 DEF ReplayRow, Oldest
<1>12. CASE UNCHANGED vars
  BY <1>12, <1>lone, <1>next, ThriftyFrame DEF vars, Handles
<1> QED
  BY <1>1, <1>2, <1>3, <1>4, <1>5, <1>6, <1>7, <1>8, <1>9, <1>10, <1>11, <1>12
     DEF Next, PublisherStep, Fault, Statuses

\* A lone worker never charges a row for a claim that nothing went wrong with.
THEOREM ClaimsAreNotWasted == Spec => []AttemptsAreFaults
<1>1. Init => (Alone => Thrifty)
  BY DEF Init, NoRow, Idle, Alone, Thrifty, Charged, InError
<1>2. IInv /\ (Alone => Thrifty) => AttemptsAreFaults
  BY DEF Alone, Thrifty, Charged, Handles, AttemptsAreFaults
<1> QED
  BY <1>1, <1>2, StepThrifty, Invariance, PTL DEF Spec

-----------------------------------------------------------------------------
(* Every copy of an event is accounted for.                                 *)

\* How many workers handle e at one of the places P.
Num(e, P) == Cardinality({w \in Workers : Handles(w, e, P)})

N == Cardinality(Workers)
Open(e) == outbox[e].status \in {"PENDING", "ABSENT"}

\* Each fault and each replay pays for one copy from every worker, except
\* those whose row is yet to be opened again, by Retry or by ReplayRow.
Fund == N * (faults + replays)
Erring(e) == Num(e, {"error", "retry"})
Rights(e) == Erring(e) + (IF e \in DOMAIN cli THEN 1 ELSE 0)
Debt(e) == N * Rights(e)
Busy(e) == Num(e, {"sent", "error", "retry", "fail"})
Sending(e) == Num(e, {"send"})

\* Why DuplicatesAreExplained holds.  While a row is open, every copy has a
\* worker that sent it and has not come back, or has been paid for; once it is
\* closed nobody claims it, and only those can send that claimed it before.
Accounted(e) ==
    IF Open(e) THEN published[e] + Debt(e) <= Busy(e) + Fund
               ELSE published[e] + Sending(e) + Debt(e) <= N + Fund

LEMMA NumTypes ==
    ASSUME NEW e, NEW P
    PROVE  /\ N \in Nat /\ N' = N
           /\ Num(e, P) \in Nat /\ Num(e, P) <= N
           /\ Num(e, P)' \in Nat /\ Num(e, P)' <= N
<1>1. \A S \in SUBSET Workers : Cardinality(S) \in Nat /\ Cardinality(S) <= N
  BY PublisherConstants, FS_Subset, FS_CardinalityType DEF N
<1>2. {w \in Workers : Handles(w, e, P)} \subseteq Workers
  OBVIOUS
<1>3. {w \in Workers : Handles(w, e, P)'} \subseteq Workers
  OBVIOUS
<1>4. N \in Nat /\ N' = N
  BY PublisherConstants, FS_CardinalityType DEF N
<1>5. Num(e, P) \in Nat /\ Num(e, P) <= N
  BY <1>1, <1>2 DEF Num
<1>6. Num(e, P)' \in Nat /\ Num(e, P)' <= N
  BY <1>1, <1>3 DEF Num
<1> QED
  BY <1>4, <1>5, <1>6

\* Workers at different places are different workers.
LEMMA NumDisjoint ==
    ASSUME NEW e, NEW P, NEW Q, P \cap Q = {}
    PROVE  Num(e, P) + Num(e, Q) <= N
<1> DEFINE S == {w \in Workers : Handles(w, e, P)}
           T == {w \in Workers : Handles(w, e, Q)}
<1>1. S \cap T = {}
  BY DEF Handles
<1>2. S \in SUBSET Workers /\ T \in SUBSET Workers /\ S \cup T \in SUBSET Workers
  OBVIOUS
<1> HIDE DEF S, T
<1>3. IsFiniteSet(S) /\ IsFiniteSet(T) /\ Cardinality(S \cup T) <= N
  BY <1>2, PublisherConstants, FS_Subset DEF N
<1>4. Cardinality(S \cup T) = Cardinality(S) + Cardinality(T) - 0
  BY <1>1, <1>3, FS_Union, FS_EmptySet
<1>5. Cardinality(S) \in Nat /\ Cardinality(T) \in Nat
  BY <1>3, FS_CardinalityType
<1>6. Num(e, P) = Cardinality(S) /\ Num(e, Q) = Cardinality(T)
  BY DEF Num, S, T
<1> QED
  BY <1>3, <1>4, <1>5, <1>6

\* How the numbers change when one worker moves.
LEMMA NumMoves ==
    ASSUME NEW w \in Workers, \A v \in Workers : v # w => at'[v] = at[v], NEW e, NEW P
    PROVE  /\ (Handles(w, e, P) <=> Handles(w, e, P)') => Num(e, P)' = Num(e, P)
           /\ ~Handles(w, e, P) /\ Handles(w, e, P)' => Num(e, P)' = Num(e, P) + 1
           /\ Handles(w, e, P) /\ ~Handles(w, e, P)' => Num(e, P) = Num(e, P)' + 1
<1> DEFINE S == {v \in Workers : Handles(v, e, P)}
<1>1. S \subseteq Workers /\ S' \subseteq Workers
  OBVIOUS
<1>2. \A v \in Workers : v # w => (v \in S' <=> v \in S)
  BY DEF Handles
<1>3. (w \in S <=> Handles(w, e, P)) /\ (w \in S' <=> Handles(w, e, P)')
  OBVIOUS
<1>4. Num(e, P) = Cardinality(S) /\ Num(e, P)' = Cardinality(S')
  BY DEF Num
<1> HIDE DEF S
<1>5. IsFiniteSet(S) /\ IsFiniteSet(S')
  BY <1>1, PublisherConstants, FS_Subset
<1>6. CASE w \in S <=> w \in S'
  <2>1. S' = S
    BY <1>1, <1>2, <1>6
  <2> QED
    BY <1>3, <1>4, <1>6, <2>1
<1>7. CASE w \notin S /\ w \in S'
  <2>1. S' = S \cup {w}
    BY <1>1, <1>2, <1>7
  <2> QED
    BY <1>3, <1>4, <1>5, <1>7, <2>1, FS_AddElement
<1>8. CASE w \in S /\ w \notin S'
  <2>1. S = S' \cup {w}
    BY <1>1, <1>2, <1>8
  <2> QED
    BY <1>3, <1>4, <1>5, <1>8, <2>1, FS_AddElement
<1> QED
  BY <1>6, <1>7, <1>8

LEMMA NumSame == ASSUME at' = at, NEW e, NEW P PROVE Num(e, P)' = Num(e, P)
  BY DEF Num, Handles

LEMMA Times ==
    ASSUME NEW n \in Nat, NEW x \in Nat
    PROVE  n * x \in Nat /\ n * (x + 1) = n * x + n
  OBVIOUS

\* The numbers in Accounted, before and after a step.
LEMMA AccountTypes ==
    ASSUME IInv, IInv', NEW e \in Events
    PROVE  /\ N \in Nat /\ N' = N
           /\ published[e] \in Nat /\ Debt(e) \in Nat /\ Busy(e) \in Nat /\ Sending(e) \in Nat
           /\ published'[e] \in Nat /\ Debt(e)' \in Nat /\ Busy(e)' \in Nat /\ Sending(e)' \in Nat
           /\ Rights(e) \in Nat /\ Rights(e)' \in Nat /\ Fund \in Nat /\ Fund' \in Nat
           /\ Busy(e) + Sending(e) <= N /\ Busy(e) <= N /\ Sending(e) <= N
<1>1. /\ published[e] \in Nat /\ faults \in Nat /\ replays \in Nat
      /\ published'[e] \in Nat /\ faults' \in Nat /\ replays' \in Nat
  BY DEF IInv, RestOK
<1>2. N \in Nat /\ N' = N /\ Rights(e) \in Nat /\ Rights(e)' \in Nat
  BY NumTypes DEF Rights, Erring
<1>3. /\ Busy(e) \in Nat /\ Sending(e) \in Nat /\ Busy(e) <= N /\ Sending(e) <= N
      /\ Busy(e)' \in Nat /\ Sending(e)' \in Nat
  BY NumTypes DEF Busy, Sending
<1>4. Busy(e) + Sending(e) <= N
  BY NumDisjoint DEF Busy, Sending
<1>5. faults + replays \in Nat /\ faults' + replays' \in Nat
  <2>1. \A x, y \in Nat : x + y \in Nat
    OBVIOUS
  <2> QED
    BY <1>1, <2>1
<1>6. Debt(e) \in Nat /\ Fund \in Nat
  BY <1>2, <1>5, Times DEF Debt, Fund
<1>7. Debt(e)' \in Nat /\ Fund' \in Nat
  <2>1. Debt(e)' = N * Rights(e)' /\ Fund' = N * (faults' + replays')
    BY <1>2 DEF Debt, Fund
  <2> QED
    BY <1>2, <1>5, <2>1, Times
<1> QED
  BY <1>1, <1>2, <1>3, <1>4, <1>6, <1>7

\* What a fault, a replay and a row opened again do to the account.
LEMMA Payments ==
    ASSUME IInv, IInv', NEW e \in Events
    PROVE  /\ faults' = faults /\ replays' = replays => Fund' = Fund
           /\ faults' = faults + 1 /\ replays' = replays => Fund' = Fund + N
           /\ faults' = faults /\ replays' = replays + 1 => Fund' = Fund + N
           /\ Rights(e)' = Rights(e) => Debt(e)' = Debt(e)
           /\ Rights(e)' = Rights(e) + 1 => Debt(e)' = Debt(e) + N
           /\ Rights(e) = Rights(e)' + 1 => Debt(e) = Debt(e)' + N
<1>1. /\ N \in Nat /\ N' = N /\ Rights(e) \in Nat /\ Rights(e)' \in Nat
  BY AccountTypes
<1>2. faults \in Nat /\ replays \in Nat /\ faults + replays \in Nat
  BY DEF IInv, RestOK
<1>4. N * (faults + replays + 1) = N * (faults + replays) + N
  BY <1>1, <1>2, Times
<1>5. N * (Rights(e) + 1) = N * Rights(e) + N /\ N * (Rights(e)' + 1) = N * Rights(e)' + N
  BY <1>1, Times
<1>6. /\ faults' = faults + 1 /\ replays' = replays => faults' + replays' = faults + replays + 1
      /\ faults' = faults /\ replays' = replays + 1 => faults' + replays' = faults + replays + 1
  BY <1>2
<1>7. Fund' = N * (faults' + replays') /\ Debt(e)' = N * Rights(e)'
  BY <1>1 DEF Fund, Debt
<1> QED
  BY <1>4, <1>5, <1>6, <1>7 DEF Fund, Debt

\* A row that stays open, or stays closed.
LEMMA AccountKeeps ==
    ASSUME IInv, IInv', NEW e \in Events, Accounted(e), Open(e)' <=> Open(e),
           Open(e) => published'[e] + Debt(e)' + Busy(e) + Fund
                        <= published[e] + Debt(e) + Busy(e)' + Fund',
           ~Open(e) => published'[e] + Sending(e)' + Debt(e)' + Fund
                         <= published[e] + Sending(e) + Debt(e) + Fund'
    PROVE  Accounted(e)'
<1>1. CASE Open(e)
  <2>1. published[e] + Debt(e) <= Busy(e) + Fund
    BY <1>1 DEF Accounted
  <2>2. published'[e] + Debt(e)' <= Busy(e)' + Fund'
    BY <1>1, <2>1, AccountTypes
  <2> QED
    BY <1>1, <2>2 DEF Accounted
<1>2. CASE ~Open(e)
  <2>1. published[e] + Sending(e) + Debt(e) <= N + Fund
    BY <1>2 DEF Accounted
  <2>2. published'[e] + Sending(e)' + Debt(e)' <= N' + Fund'
    BY <1>2, <2>1, AccountTypes
  <2> QED
    BY <1>2, <2>2 DEF Accounted
<1> QED
  BY <1>1, <1>2

\* A row that is settled: those who claimed it while it was open can still send.
LEMMA AccountCloses ==
    ASSUME IInv, IInv', NEW e \in Events, Accounted(e), ~Open(e)',
           published'[e] = published[e], Sending(e)' = Sending(e),
           Debt(e)' + Fund <= Debt(e) + Fund'
    PROVE  Accounted(e)'
<1>2. published[e] + Sending(e) + Debt(e) <= N + Fund
  <2>1. CASE Open(e)
    <3>1. published[e] + Debt(e) <= Busy(e) + Fund
      BY <2>1 DEF Accounted
    <3> QED
      BY <3>1, AccountTypes
  <2>2. CASE ~Open(e)
    BY <2>2 DEF Accounted
  <2> QED
    BY <2>1, <2>2
<1>3. published'[e] + Sending(e)' + Debt(e)' <= N' + Fund'
  BY <1>2, AccountTypes
<1> QED
  BY <1>3 DEF Accounted

\* A row that is opened again, by a worker or the operator who had the right.
LEMMA AccountOpens ==
    ASSUME IInv, IInv', NEW e \in Events, Accounted(e), Open(e)',
           published'[e] = published[e], UNCHANGED <<faults, replays>>,
           Rights(e) = Rights(e)' + 1, Busy(e) <= Busy(e)' + N
    PROVE  Accounted(e)'
<1>1. Debt(e) = Debt(e)' + N /\ Fund' = Fund
  BY Payments
<1>2. published[e] + Debt(e)' <= Busy(e)' + Fund
  <2>1. CASE Open(e)
    <3>1. published[e] + Debt(e) <= Busy(e) + Fund
      BY <2>1 DEF Accounted
    <3> QED
      BY <1>1, <3>1, AccountTypes
  <2>2. CASE ~Open(e)
    <3>1. published[e] + Sending(e) + Debt(e) <= N + Fund
      BY <2>2 DEF Accounted
    <3> QED
      BY <1>1, <3>1, AccountTypes
  <2> QED
    BY <2>1, <2>2
<1> QED
  BY <1>1, <1>2 DEF Accounted

\* A row the step is not about; faults elsewhere only add to the fund.
LEMMA AccountOther ==
    ASSUME IInv, IInv', NEW e \in Events, Accounted(e), Open(e)' <=> Open(e),
           published'[e] = published[e], faults' \in {faults, faults + 1},
           UNCHANGED replays, e \in DOMAIN cli' <=> e \in DOMAIN cli,
           \A P : Num(e, P)' = Num(e, P)
    PROVE  Accounted(e)'
<1>1. Busy(e)' = Busy(e) /\ Sending(e)' = Sending(e) /\ Rights(e)' = Rights(e)
  BY DEF Busy, Sending, Rights, Erring
<1>2. Debt(e)' = Debt(e) /\ (Fund' = Fund \/ Fund' = Fund + N)
  BY <1>1, Payments
<1>3. Fund <= Fund'
  BY <1>2, AccountTypes
<1> QED
  BY <1>1, <1>2, <1>3, AccountTypes, AccountKeeps

\* The same for the rows a worker does not hold, before or after it moves.
LEMMA AccountElsewhere ==
    ASSUME IInv, IInv', NEW w \in Workers, \A v \in Workers : v # w => at'[v] = at[v],
           faults' \in {faults, faults + 1}, UNCHANGED <<replays, cli>>,
           NEW e \in Events, at[w].ev # e, at'[w].ev # e,
           outbox'[e].status = outbox[e].status, published'[e] = published[e], Accounted(e)
    PROVE  Accounted(e)'
<1>1. \A P : Num(e, P)' = Num(e, P)
  BY NumMoves DEF Handles
<1> QED
  BY <1>1, AccountOther DEF Open

AllAccounted == \A e \in Events : Accounted(e)

LEMMA StepAccounted == IInv /\ AllAccounted /\ [Next]_vars => AllAccounted'
<1> SUFFICES ASSUME IInv, AllAccounted, [Next]_vars, NEW e \in Events PROVE Accounted(e)'
  BY DEF AllAccounted
<1>inv. IInv' /\ Accounted(e)
  BY StepIInv DEF AllAccounted
<1>typ. /\ outbox \in [Events -> Row] /\ at \in [Workers -> Ctl]
        /\ published \in [Events -> Nat]
        /\ \A f \in Events : outbox[f] \in RowType(Statuses)
        /\ \A w \in Workers : at[w].pc = "idle" <=> at[w].ev = None
        /\ \A w \in Workers : batch[w] \subseteq Events
        /\ \A w \in Workers : at[w].pc # "idle" => at[w].ev \in Events
        /\ None \notin Events
  BY PublisherConstants
     DEF IInv, RestOK, TableOK, Table, ControlOK, Row, Existing, Held
<1>pub. published[e] \in Nat
  BY <1>typ
<1>same. at' = at => \A P : Num(e, P)' = Num(e, P)
  BY NumSame
<1>1. ASSUME NEW f \in Events, Record(f) PROVE Accounted(e)'
  <2>1. (Open(e)' <=> Open(e)) /\ UNCHANGED <<published, at, cli, faults, replays>>
    BY <1>1, <1>typ DEF Record, Open, NewRow, Existing
  <2> QED
    BY <1>inv, <1>same, <2>1, AccountOther
<1>2. ASSUME NEW w \in Workers, Scan(w) PROVE Accounted(e)'
  BY <1>2, <1>inv, <1>same, AccountOther DEF Scan, Open
<1>3. ASSUME NEW w \in Workers, Claim(w) PROVE Accounted(e)'
  <2>1. PICK f \in Oldest(outbox, batch[w], 1) :
           IF outbox[f].status = "PENDING"
           THEN /\ outbox' = [outbox EXCEPT ![f] = Bumped(outbox[f])]
                /\ at' = [at EXCEPT ![w] = [pc |-> "send", ev |-> f]]
           ELSE UNCHANGED <<outbox, at>>
    BY <1>3 DEF Claim
  <2>2. f \in Events /\ UNCHANGED <<published, cli, faults, replays>> /\ at[w].ev # e
    BY <1>3, <1>typ DEF Claim, Oldest
  <2>3. CASE outbox[f].status = "PENDING"
    <3>1. Bumped(outbox[f]) = [outbox[f] EXCEPT !.attempts = outbox[f].attempts + 1]
      BY DEF Bumped
    <3>2. outbox'[e].status = outbox[e].status
      BY <1>typ, <2>1, <2>2, <2>3, <3>1 DEF RowType
    <3>3. at' = [at EXCEPT ![w] = [pc |-> "send", ev |-> f]]
      BY <2>1, <2>3
    <3>4. /\ \A v \in Workers : v # w => at'[v] = at[v]
          /\ at'[w].pc = "send" /\ at'[w].ev = f
      BY <1>typ, <3>3
    <3>5. CASE e # f
      BY <1>inv, <2>2, <3>2, <3>4, <3>5, AccountElsewhere
    <3>6. CASE e = f
      <4>1. /\ Busy(e)' = Busy(e) /\ Erring(e)' = Erring(e)
        BY <2>2, <3>4, NumMoves DEF Handles, Busy, Erring
      <4>2. Rights(e)' = Rights(e)
        BY <2>2, <4>1 DEF Rights
      <4>3. Debt(e)' = Debt(e) /\ Fund' = Fund
        BY <1>inv, <2>2, <4>2, Payments
      <4>4. Open(e) /\ Open(e)'
        BY <2>3, <3>2, <3>6 DEF Open
      <4> QED
        BY <1>inv, <2>2, <4>1, <4>3, <4>4, AccountTypes, AccountKeeps
    <3> QED
      BY <3>5, <3>6
  <2>4. CASE outbox[f].status # "PENDING"
    BY <1>inv, <1>same, <2>1, <2>2, <2>4, AccountOther DEF Open
  <2> QED
    BY <2>3, <2>4
<1>4. ASSUME NEW w \in Workers, Send(w) PROVE Accounted(e)'
  <2>1. /\ \A v \in Workers : v # w => at'[v] = at[v]
        /\ at[w].pc = "send" /\ at'[w].pc = "sent" /\ at'[w].ev = at[w].ev
        /\ Open(e)' <=> Open(e)
    BY <1>4, <1>typ DEF Send, Goto, Ctl, Open
  <2>2. UNCHANGED <<outbox, cli, faults, replays>>
    BY <1>4 DEF Send
  <2>3. CASE e # at[w].ev
    <3>1. published'[e] = published[e]
      BY <1>4, <1>typ, <2>3 DEF Send
    <3> QED
      BY <1>inv, <2>1, <2>2, <2>3, <3>1, AccountElsewhere
  <2>4. CASE e = at[w].ev
    <3>1. published'[e] = published[e] + 1
      BY <1>4, <1>typ, <2>4 DEF Send
    <3>2. /\ Sending(e) = Sending(e)' + 1 /\ Busy(e)' = Busy(e) + 1
          /\ Erring(e)' = Erring(e)
      BY <2>1, <2>4, NumMoves DEF Handles, Busy, Erring, Sending
    <3>3. Rights(e)' = Rights(e)
      BY <2>2, <3>2 DEF Rights
    <3>4. Debt(e)' = Debt(e) /\ Fund' = Fund
      BY <1>inv, <2>2, <3>3, Payments
    <3> QED
      BY <1>inv, <2>1, <3>1, <3>2, <3>4, AccountTypes, AccountKeeps
  <2> QED
    BY <2>3, <2>4
<1>5. ASSUME NEW w \in Workers, MarkSent(w) \/ Fail(w) PROVE Accounted(e)'
  <2>1. /\ \A v \in Workers : v # w => at'[v] = at[v]
        /\ at[w].pc \in {"sent", "fail"} /\ at'[w] = Idle
    BY <1>5, <1>typ DEF MarkSent, Fail, Finish
  <2>2. UNCHANGED <<published, cli, faults, replays>>
    BY <1>5 DEF MarkSent, Fail
  <2>3. CASE e # at[w].ev
    <3>1. outbox'[e].status = outbox[e].status
      BY <1>5, <1>typ, <2>3 DEF MarkSent, Fail
    <3> QED
      BY <1>inv, <1>typ, <2>1, <2>2, <2>3, <3>1, AccountElsewhere DEF Idle
  <2>4. CASE e = at[w].ev
    <3>1. ~Open(e)'
      BY <1>5, <1>typ, <2>4 DEF MarkSent, Fail, Open, RowType
    <3>2. Sending(e)' = Sending(e) /\ Erring(e)' = Erring(e)
      BY <1>typ, <2>1, <2>4, NumMoves DEF Handles, Idle, Erring, Sending
    <3>3. Rights(e)' = Rights(e)
      BY <2>2, <3>2 DEF Rights
    <3>4. Debt(e)' + Fund <= Debt(e) + Fund'
      BY <1>inv, <2>2, <3>3, Payments, AccountTypes
    <3> QED
      BY <1>inv, <2>2, <3>1, <3>2, <3>4, AccountCloses
  <2> QED
    BY <2>3, <2>4
<1>6. ASSUME NEW w \in Workers, Retry(w) PROVE Accounted(e)'
  <2>1. /\ \A v \in Workers : v # w => at'[v] = at[v]
        /\ at[w].pc = "retry" /\ at'[w] = Idle
    BY <1>6, <1>typ DEF Retry, Finish
  <2>2. UNCHANGED <<published, cli, faults, replays>>
    BY <1>6 DEF Retry
  <2>3. CASE e # at[w].ev
    <3>1. outbox'[e].status = outbox[e].status
      BY <1>6, <1>typ, <2>3 DEF Retry
    <3> QED
      BY <1>inv, <1>typ, <2>1, <2>2, <2>3, <3>1, AccountElsewhere DEF Idle
  <2>4. CASE e = at[w].ev
    <3>1. Open(e)'
      BY <1>6, <1>typ, <2>4 DEF Retry, Open, RowType
    <3>2. Busy(e) = Busy(e)' + 1 /\ Erring(e) = Erring(e)' + 1
      BY <1>typ, <2>1, <2>4, NumMoves DEF Handles, Idle, Erring, Busy
    <3>3. Erring(e) \in Nat /\ Erring(e)' \in Nat
      BY NumTypes DEF Erring
    <3>4. Rights(e) = Rights(e)' + 1
      BY <2>2, <3>2, <3>3 DEF Rights
    <3>5. Busy(e) <= Busy(e)' + N
      BY <1>inv, <3>2, AccountTypes
    <3> QED
      BY <1>inv, <2>2, <3>1, <3>4, <3>5, AccountOpens
  <2> QED
    BY <2>3, <2>4
<1>7. ASSUME NEW w \in Workers, Refresh(w) PROVE Accounted(e)'
  <2>1. /\ \A v \in Workers : v # w => at'[v] = at[v]
        /\ at[w].pc = "error" /\ at'[w].pc \in {"fail", "retry"} /\ at'[w].ev = at[w].ev
    BY <1>7, <1>typ DEF Refresh, Goto, Ctl
  <2>2. UNCHANGED <<outbox, published, cli, faults, replays>>
    BY <1>7 DEF Refresh
  <2>3. CASE e # at[w].ev
    BY <1>inv, <2>1, <2>2, <2>3, AccountElsewhere
  <2>4. CASE e = at[w].ev
    <3>1. /\ Sending(e)' = Sending(e) /\ Busy(e)' = Busy(e)
          /\ Erring(e)' = Erring(e) \/ Erring(e) = Erring(e)' + 1
      BY <2>1, <2>4, NumMoves DEF Handles, Busy, Erring, Sending
    <3>2. Erring(e) \in Nat /\ Erring(e)' \in Nat
      BY NumTypes DEF Erring
    <3>3. Rights(e)' = Rights(e) \/ Rights(e) = Rights(e)' + 1
      BY <2>2, <3>1, <3>2 DEF Rights
    <3>4. (Debt(e)' = Debt(e) \/ Debt(e) = Debt(e)' + N) /\ Fund' = Fund
      BY <1>inv, <2>2, <3>3, Payments
    <3> QED
      BY <1>inv, <2>2, <3>1, <3>4, AccountTypes, AccountKeeps DEF Open
  <2> QED
    BY <2>3, <2>4
<1>8. ASSUME NEW w \in Workers, ClaimThrows(w) PROVE Accounted(e)'
  <2>1. PICK f \in Oldest(outbox, batch[w], 1) :
           at' = [at EXCEPT ![w] = [pc |-> "error", ev |-> f]]
    BY <1>8 DEF ClaimThrows
  <2>2. /\ UNCHANGED <<outbox, published, cli, replays>> /\ faults' = faults + 1
        /\ f \in Events /\ at[w].ev # e
    BY <1>8, <1>typ DEF ClaimThrows, Oldest
  <2>3. /\ \A v \in Workers : v # w => at'[v] = at[v]
        /\ at'[w].pc = "error" /\ at'[w].ev = f
    BY <1>typ, <2>1
  <2>4. CASE e # f
    BY <1>inv, <2>2, <2>3, <2>4, AccountElsewhere
  <2>5. CASE e = f
    <3>1. /\ Busy(e)' = Busy(e) + 1 /\ Erring(e)' = Erring(e) + 1 /\ Sending(e)' = Sending(e)
      BY <2>2, <2>3, <2>5, NumMoves DEF Handles, Busy, Erring, Sending
    <3>2. Erring(e) \in Nat
      BY NumTypes DEF Erring
    <3>3. Rights(e)' = Rights(e) + 1
      BY <2>2, <3>1, <3>2 DEF Rights
    <3>4. Debt(e)' = Debt(e) + N /\ Fund' = Fund + N
      BY <1>inv, <2>2, <3>3, Payments
    <3> QED
      BY <1>inv, <2>2, <3>1, <3>4, AccountTypes, AccountKeeps DEF Open
  <2> QED
    BY <2>4, <2>5
<1>9. ASSUME NEW w \in Workers, SendThrows(w) \/ MarkThrows(w) PROVE Accounted(e)'
  <2>1. /\ \A v \in Workers : v # w => at'[v] = at[v]
        /\ at'[w].pc = "error" /\ at'[w].ev = at[w].ev
    BY <1>9, <1>typ DEF SendThrows, MarkThrows, Goto, Ctl
  <2>2. UNCHANGED <<cli, replays>> /\ faults' = faults + 1
    BY <1>9 DEF SendThrows, MarkThrows
  <2>3. CASE e # at[w].ev
    <3>1. published'[e] = published[e] /\ outbox'[e].status = outbox[e].status
      BY <1>9, <1>typ, <2>3 DEF SendThrows, MarkThrows
    <3> QED
      BY <1>inv, <2>1, <2>2, <2>3, <3>1, AccountElsewhere
  <2>4. CASE e = at[w].ev
    <3>1. at[w].pc # "error" /\ at[w].pc # "retry"
      BY <1>9 DEF SendThrows, MarkThrows
    <3>2. Erring(e)' = Erring(e) + 1
      BY <2>1, <2>4, <3>1, NumMoves DEF Handles, Erring
    <3>3. Erring(e) \in Nat
      BY NumTypes DEF Erring
    <3>4. Rights(e)' = Rights(e) + 1
      BY <2>2, <3>2, <3>3 DEF Rights
    <3>5. Debt(e)' = Debt(e) + N /\ Fund' = Fund + N
      BY <1>inv, <2>2, <3>4, Payments
    <3>6. CASE SendThrows(w)
      <4>1. at[w].pc = "send" /\ UNCHANGED outbox
            /\ published'[e] \in {published[e], published[e] + 1}
        BY <1>typ, <2>4, <3>6 DEF SendThrows
      <4>2. Sending(e) = Sending(e)' + 1 /\ Busy(e)' = Busy(e) + 1
        BY <2>1, <2>4, <4>1, NumMoves DEF Handles, Busy, Sending
      <4>3. published'[e] <= published[e] + 1
        BY <1>pub, <4>1
      <4> QED
        BY <1>inv, <3>5, <4>1, <4>2, <4>3, AccountTypes, AccountKeeps DEF Open
    <3>7. CASE MarkThrows(w)
      <4>1. /\ at[w].pc = "sent" /\ UNCHANGED published
            /\ outbox'[e].status \in {outbox[e].status, "SENT"}
        BY <1>typ, <2>4, <3>7 DEF MarkThrows, RowType
      <4>2. Sending(e)' = Sending(e) /\ Busy(e)' = Busy(e)
        BY <2>1, <2>4, <4>1, NumMoves DEF Handles, Busy, Sending
      <4>3. Debt(e)' + Fund <= Debt(e) + Fund'
        BY <1>inv, <3>5, AccountTypes
      <4>4. CASE outbox'[e].status = "SENT"
        <5>1. ~Open(e)'
          BY <4>4 DEF Open
        <5> QED
          BY <1>inv, <4>1, <4>2, <4>3, <5>1, AccountCloses
      <4>5. CASE outbox'[e].status = outbox[e].status
        BY <1>inv, <3>5, <4>1, <4>2, <4>5, AccountTypes, AccountKeeps DEF Open
      <4> QED
        BY <4>1, <4>4, <4>5
    <3> QED
      BY <1>9, <3>6, <3>7
  <2> QED
    BY <2>3, <2>4
<1>10. ASSUME NEW w \in Workers, Crash(w) PROVE Accounted(e)'
  <2>1. /\ \A v \in Workers : v # w => at'[v] = at[v]
        /\ at'[w] = Idle /\ at[w] \in Ctl
    BY <1>10, <1>typ DEF Crash, Finish
  <2>2. UNCHANGED <<outbox, published, cli, replays>> /\ faults' = faults + 1
    BY <1>10 DEF Crash
  <2>3. /\ Busy(e)' = Busy(e) \/ Busy(e) = Busy(e)' + 1
        /\ Sending(e)' = Sending(e) \/ Sending(e) = Sending(e)' + 1
        /\ Erring(e)' = Erring(e) \/ Erring(e) = Erring(e)' + 1
    BY <1>typ, <2>1, NumMoves DEF Handles, Idle, Busy, Sending, Erring
  <2>4. Erring(e) \in Nat /\ Erring(e)' \in Nat
    BY NumTypes DEF Erring
  <2>5. Rights(e)' = Rights(e) \/ Rights(e) = Rights(e)' + 1
    BY <2>2, <2>3, <2>4 DEF Rights
  <2>6. (Debt(e)' = Debt(e) \/ Debt(e) = Debt(e)' + N) /\ Fund' = Fund + N
    BY <1>inv, <2>2, <2>5, Payments
  <2>7. Busy(e) <= Busy(e)' + N
    BY <1>inv, <2>3, AccountTypes
  <2>8. Debt(e)' <= Debt(e) /\ Sending(e)' <= Sending(e)
    BY <1>inv, <2>3, <2>6, AccountTypes
  <2> QED
    BY <1>inv, <2>2, <2>6, <2>7, <2>8, AccountTypes, AccountKeeps DEF Open
<1>11. ASSUME NEW f \in Events, Elapse(f) PROVE Accounted(e)'
  <2>1. (Open(e)' <=> Open(e)) /\ UNCHANGED <<published, at, cli, faults, replays>>
    BY <1>11, <1>typ DEF Elapse, Open, RowType
  <2> QED
    BY <1>inv, <1>same, <2>1, AccountOther
<1>12. ASSUME NEW st \in Statuses, NEW r \in BOOLEAN, ReplayStart(st, r) PROVE Accounted(e)'
  <2>1. /\ UNCHANGED <<outbox, published, at, faults>> /\ replays' = replays + 1
        /\ e \notin DOMAIN cli
    BY <1>12 DEF ReplayStart
  <2>2. Erring(e)' = Erring(e) /\ Busy(e)' = Busy(e) /\ Sending(e)' = Sending(e)
    BY <2>1, NumSame DEF Erring, Busy, Sending
  <2>3. Erring(e) \in Nat
    BY NumTypes DEF Erring
  <2>4. Rights(e)' = Rights(e) \/ Rights(e)' = Rights(e) + 1
    BY <2>1, <2>2, <2>3 DEF Rights
  <2>5. (Debt(e)' = Debt(e) \/ Debt(e)' = Debt(e) + N) /\ Fund' = Fund + N
    BY <1>inv, <2>1, <2>4, Payments
  <2>6. Debt(e)' + Fund <= Debt(e) + Fund'
    BY <1>inv, <2>5, AccountTypes
  <2> QED
    BY <1>inv, <2>1, <2>2, <2>6, AccountTypes, AccountKeeps DEF Open
<1>13. ASSUME NEW f \in Events, ReplayRow(f) PROVE Accounted(e)'
  <2>1. /\ UNCHANGED <<published, at, faults, replays>>
        /\ f \in DOMAIN cli /\ DOMAIN cli' = DOMAIN cli \ {f}
    BY <1>13 DEF ReplayRow, Oldest
  <2>2. CASE e # f
    <3>1. outbox'[e] = outbox[e]
      BY <1>13, <1>typ, <2>2 DEF ReplayRow
    <3> QED
      BY <1>inv, <1>same, <2>1, <2>2, <3>1, AccountOther DEF Open
  <2>3. CASE e = f
    <3>1. Open(e)'
      BY <1>13, <1>typ, <2>3 DEF ReplayRow, Open, RowType
    <3>2. Erring(e)' = Erring(e) /\ Busy(e)' = Busy(e)
      BY <2>1, NumSame DEF Erring, Busy
    <3>3. Erring(e) \in Nat
      BY NumTypes DEF Erring
    <3>4. Rights(e) = Rights(e)' + 1
      BY <2>1, <2>3, <3>2, <3>3 DEF Rights
    <3>5. Busy(e) <= Busy(e)' + N
      BY <1>inv, <3>2, AccountTypes
    <3> QED
      BY <1>inv, <2>1, <3>1, <3>4, <3>5, AccountOpens
  <2> QED
    BY <2>2, <2>3
<1>14. CASE UNCHANGED vars
  BY <1>14, <1>inv, <1>same, AccountOther DEF vars, Open
<1> QED
  BY <1>1, <1>2, <1>3, <1>4, <1>5, <1>6, <1>7, <1>8, <1>9, <1>10, <1>11, <1>12, <1>13, <1>14
     DEF Next, PublisherStep, Fault, Statuses

\* Whatever the workers do to each other: each publishes an event at most
\* once, and once more for every fault and every replay.
THEOREM CopiesAreBounded == Spec => []DuplicatesAreExplained
<1>1. Init => AllAccounted
  <2> SUFFICES ASSUME Init, NEW e \in Events PROVE Accounted(e)
    BY DEF AllAccounted
  <2>1. /\ Open(e) /\ published[e] = 0 /\ faults = 0 /\ replays = 0
        /\ \A w \in Workers : at[w].pc = "idle"
        /\ DOMAIN cli = {}
    BY DEF Init, Open, NoRow, Idle
  <2>2. {w \in Workers : Handles(w, e, {"error", "retry"})} = {}
    BY <2>1 DEF Handles
  <2>3. Rights(e) = 0
    <3>1. Erring(e) = Cardinality({})
      BY <2>2 DEF Erring, Num
    <3>2. Erring(e) = 0
      BY <3>1, FS_EmptySet
    <3> QED
      BY <2>1, <3>2 DEF Rights
  <2>4. N \in Nat /\ Busy(e) \in Nat
    BY NumTypes DEF Busy
  <2>5. Debt(e) = 0 /\ Fund = 0
    BY <2>1, <2>3, <2>4 DEF Debt, Fund
  <2> QED
    BY <2>1, <2>4, <2>5 DEF Accounted
<1>2. IInv /\ AllAccounted => DuplicatesAreExplained
  <2> SUFFICES ASSUME IInv, NEW e \in Events, Accounted(e)
               PROVE  published[e] <= N * (1 + faults + replays)
    BY DEF AllAccounted, DuplicatesAreExplained, N
  <2>1. /\ published[e] \in Nat /\ faults \in Nat /\ replays \in Nat
        /\ faults + replays \in Nat
    BY DEF IInv, RestOK
  <2>2. /\ N \in Nat /\ Busy(e) \in Nat /\ Busy(e) <= N /\ Sending(e) \in Nat
        /\ Rights(e) \in Nat
    BY NumTypes DEF Busy, Sending, Rights, Erring
  <2>3. Debt(e) \in Nat /\ Fund \in Nat /\ N * (faults + replays + 1) = Fund + N
    BY <2>1, <2>2, Times DEF Debt, Fund
  <2>4. published[e] <= N + Fund
    BY <2>1, <2>2, <2>3 DEF Accounted
  <2>5. 1 + faults + replays = faults + replays + 1
    BY <2>1
  <2> QED
    BY <2>1, <2>2, <2>3, <2>4, <2>5
<1> QED
  BY <1>1, <1>2, StepAccounted, Invariance, PTL DEF Spec

-----------------------------------------------------------------------------
(* What the composition with the consuming half relies on.                  *)

\* The steps of the workers, of the operator and of time.
Handling ==
    \/ \E e \in Events : Elapse(e) \/ ReplayRow(e)
    \/ \E w \in Workers : PublisherStep(w) \/ Fault(w)
    \/ \E st \in Statuses, r \in BOOLEAN : ReplayStart(st, r)

\* None of them gives an event a row, or publishes one that has none: only the
\* transaction of the API, Record, creates rows.
LEMMA OnlyRecordCreates ==
    ASSUME IInv, NEW e \in Events, e \notin Existing(outbox), Handling
    PROVE  e \notin Existing(outbox)' /\ published'[e] = published[e]
<1>typ. /\ outbox \in [Events -> Row]
        /\ published \in [Events -> Nat]
  BY DEF IInv, TableOK, Table, RestOK
<1>ex. /\ Existing(outbox) = {f \in Events : outbox[f].status # "ABSENT"}
       /\ outbox[e].status = "ABSENT"
  BY <1>typ DEF Existing
<1>held. \A w \in Workers : at[w].pc # "idle" => at[w].ev # e
  BY DEF IInv, Held
<1>row. \A f \in Events : outbox[f] \in RowType(Statuses)
  BY <1>typ DEF Row
<1>1. SUFFICES outbox'[e].status = outbox[e].status /\ published'[e] = published[e]
  BY <1>ex DEF Existing
<1>2. ASSUME NEW f \in Events, Elapse(f)
      PROVE  outbox'[e].status = outbox[e].status /\ UNCHANGED published
  BY <1>2, <1>typ, <1>row DEF Elapse, RowType
<1>3. ASSUME NEW f \in Events, ReplayRow(f) PROVE UNCHANGED <<outbox[e], published>>
  <2>1. f # e
    BY <1>3, QueriesExist DEF ReplayRow, IInv, TableOK
  <2> QED
    BY <1>3, <1>typ, <2>1 DEF ReplayRow
<1>4. ASSUME NEW w \in Workers, Claim(w) PROVE UNCHANGED <<outbox[e], published>>
  BY <1>4, <1>ex, <1>typ DEF Claim
<1>5. ASSUME NEW w \in Workers, Send(w) \/ SendThrows(w)
      PROVE  UNCHANGED outbox /\ published'[e] = published[e]
  BY <1>5, <1>held, <1>typ DEF Send, SendThrows
<1>6. ASSUME NEW w \in Workers, MarkSent(w) \/ MarkThrows(w) \/ Fail(w) \/ Retry(w)
      PROVE  UNCHANGED <<outbox[e], published>>
  BY <1>6, <1>held, <1>typ DEF MarkSent, MarkThrows, Fail, Retry
<1>7. ASSUME NEW w \in Workers,
             Scan(w) \/ Refresh(w) \/ ClaimThrows(w) \/ Crash(w)
      PROVE  UNCHANGED <<outbox, published>>
  BY <1>7 DEF Scan, Refresh, ClaimThrows, Crash
<1>8. ASSUME NEW st \in Statuses, NEW r \in BOOLEAN, ReplayStart(st, r)
      PROVE  UNCHANGED <<outbox, published>>
  BY <1>8 DEF ReplayStart
<1> QED
  BY <1>2, <1>3, <1>4, <1>5, <1>6, <1>7, <1>8 DEF Handling, PublisherStep, Fault

\* No step removes a row.
LEMMA RowsStay == IInv /\ [Next]_vars => Existing(outbox) \subseteq Existing(outbox)'
<1> SUFFICES ASSUME IInv, [Next]_vars, NEW e \in Existing(outbox) PROVE e \in Existing(outbox)'
  OBVIOUS
<1>typ. /\ outbox \in [Events -> Row] /\ e \in Events /\ outbox[e].status # "ABSENT"
        /\ \A f \in Events : outbox[f] \in RowType(Statuses)
  BY DEF IInv, TableOK, Table, Existing, Row
<1>0. SUFFICES DOMAIN outbox' = Events /\ outbox'[e].status # "ABSENT"
  BY <1>typ DEF Existing
<1>1. ASSUME NEW f \in Events, Record(f) PROVE DOMAIN outbox' = Events /\ outbox'[e] = outbox[e]
  BY <1>1, <1>typ DEF Record
<1>2. ASSUME NEW f \in Events, Elapse(f) \/ ReplayRow(f)
      PROVE  DOMAIN outbox' = Events /\ outbox'[e].status # "ABSENT"
  BY <1>2, <1>typ DEF Elapse, ReplayRow, RowType
<1>3. ASSUME NEW w \in Workers, Claim(w)
      PROVE  DOMAIN outbox' = Events /\ outbox'[e].status = outbox[e].status
  BY <1>3, <1>typ DEF Claim, Bumped, RowType
<1>4. ASSUME NEW w \in Workers, MarkSent(w) \/ MarkThrows(w) \/ Fail(w) \/ Retry(w)
      PROVE  DOMAIN outbox' = Events /\ outbox'[e].status # "ABSENT"
  BY <1>4, <1>typ DEF MarkSent, MarkThrows, Fail, Retry, RowType
<1>5. ASSUME NEW w \in Workers, \/ Scan(w) \/ Send(w) \/ Refresh(w) \/ ClaimThrows(w)
                               \/ SendThrows(w) \/ Crash(w)
      PROVE  UNCHANGED outbox
  BY <1>5 DEF Scan, Send, Refresh, ClaimThrows, SendThrows, Crash
<1>6. ASSUME NEW st \in Statuses, NEW r \in BOOLEAN, ReplayStart(st, r) PROVE UNCHANGED outbox
  BY <1>6 DEF ReplayStart
<1>7. CASE UNCHANGED vars
  BY <1>7, <1>typ DEF vars
<1> QED
  BY <1>typ, <1>1, <1>2, <1>3, <1>4, <1>5, <1>6, <1>7
     DEF Next, PublisherStep, Fault, Statuses
=============================================================================

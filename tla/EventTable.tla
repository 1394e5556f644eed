----------------------------- MODULE EventTable -----------------------------
(***************************************************************************)
(* What the tables OutboxEvent and InboxEvent have in common, and the      *)
(* query both polling loops make of them:                                  *)
(*                                                                         *)
(*   findMany({ where: { status: PENDING, availableAt: { lte: now } },     *)
(*              orderBy: { createdAt: 'asc' }, take: batchSize })          *)
(*                                                                         *)
(* A table is a function from event ids to rows.  availableAt is           *)
(* abstracted to "due", whether the back-off of the row has elapsed, and   *)
(* createdAt to "seq", the place of the row in creation order.             *)
(***************************************************************************)
EXTENDS Naturals, FiniteSets

RowType(statuses) ==
    [status : statuses \cup {"ABSENT"}, attempts : Nat, due : BOOLEAN, seq : Nat]

NoRow == [status |-> "ABSENT", attempts |-> 0, due |-> TRUE, seq |-> 0]

Existing(tab) == {e \in DOMAIN tab : tab[e].status # "ABSENT"}

WithStatus(tab, st) == {e \in DOMAIN tab : tab[e].status = st}

\* The column defaults of a row that has just been created.
NewRow(tab) == [status |-> "PENDING", attempts |-> 0, due |-> TRUE,
                seq |-> Cardinality(Existing(tab))]

\* A query that only finds rows nobody has tried yet.
NeverTried(tab) == {e \in WithStatus(tab, "PENDING") : tab[e].attempts = 0}

\* where status is PENDING and availableAt <= now
Due(tab) == {e \in WithStatus(tab, "PENDING") : tab[e].due}

\* orderBy createdAt asc, take n
Oldest(tab, S, n) ==
    {e \in S : Cardinality({f \in S : tab[f].seq < tab[e].seq}) < n}

\* A loop that forgets to count: the row comes back as it was.
UncountedBump(row) == row

\* attempts: { increment: 1 }
Bumped(row) == [row EXCEPT !.attempts = @ + 1]
=============================================================================

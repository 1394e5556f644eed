-------------------------- MODULE OutboxPublisher --------------------------
(***************************************************************************)
(* The publishing half of the worker: publishOnce of apps/worker/src,      *)
(* called in a loop by every worker process, and replay.ts for the outbox. *)
(* The loop reads a batch of PENDING rows, claims each with a conditional  *)
(* update, sends it to the broker and marks it SENT; a failure is counted  *)
(* by the claim, and ends in a back-off or in FAILED.                      *)
(***************************************************************************)
EXTENDS Naturals, FiniteSets, EventTable

CONSTANTS
    Workers,    \* worker processes
    Events,     \* ids of outbox rows
    None,       \* a worker that holds no event
    MaxAttempts, BatchSize, ReplayLimit

\* Bounds of the exploration, not of the program.
CONSTANTS MaxFaults, MaxReplays

ASSUME PublisherConstants ==
    /\ IsFiniteSet(Events)
    /\ IsFiniteSet(Workers)
    /\ None \notin Events
    /\ MaxAttempts \in Nat \ {0}
    /\ BatchSize \in Nat \ {0}
    /\ ReplayLimit \in Nat \ {0}
    /\ MaxFaults \in Nat /\ MaxReplays \in Nat

VARIABLES
    outbox,     \* OutboxEvent, by id
    published,  \* published[e]: messages with id e in the topic
    at,         \* at[w]: where publishOnce of w is, and the row it handles
    batch,      \* batch[w]: rows of w's last findMany still to handle
    cli,        \* rows replay.ts has read and not yet written: e -> attempts
    faults,     \* how many calls threw and workers crashed so far
    replays     \* how many replays so far

vars == <<outbox, published, at, batch, cli, faults, replays>>

Idle == [pc |-> "idle", ev |-> None]

Init ==
    /\ outbox = [e \in Events |-> NoRow]
    /\ published = [e \in Events |-> 0]
    /\ at = [w \in Workers |-> Idle]
    /\ batch = [w \in Workers |-> {}]
    /\ cli = [e \in {} |-> 0]
    /\ faults = 0
    /\ replays = 0

Goto(w, pc) == at' = [at EXCEPT ![w].pc = pc]

\* A worker that keeps hold of the row it is done with.
FinishKeeping(w) == at' = [at EXCEPT ![w].pc = "idle"]

Finish(w) == at' = [at EXCEPT ![w] = Idle]

\* The API commits an event together with the confirmation of its order.
Record(e) ==
    /\ e \notin Existing(outbox)
    /\ outbox' = [outbox EXCEPT ![e] = NewRow(outbox)]
    /\ UNCHANGED <<published, at, batch, cli, faults, replays>>

Scan(w) ==
    /\ at[w].pc = "idle"
    /\ batch[w] = {}
    /\ batch' = [batch EXCEPT ![w] = Oldest(outbox, Due(outbox), BatchSize)]
    /\ UNCHANGED <<outbox, published, at, cli, faults, replays>>

\* updateMany where status is PENDING: it counts the attempt, and it passes
\* over a row somebody else has settled since the query.  The row stays
\* PENDING, so another worker can claim it too.
Claim(w) ==
    /\ at[w].pc = "idle"
    /\ \E e \in Oldest(outbox, batch[w], 1) :
          /\ batch' = [batch EXCEPT ![w] = @ \ {e}]
          /\ IF outbox[e].status = "PENDING"
             THEN /\ outbox' = [outbox EXCEPT ![e] = Bumped(@)]
                  /\ at' = [at EXCEPT ![w] = [pc |-> "send", ev |-> e]]
             ELSE UNCHANGED <<outbox, at>>
    /\ UNCHANGED <<published, cli, faults, replays>>

\* A producer that does not wait for the broker.
SendUnconfirmed(w) ==
    /\ at[w].pc = "send"
    /\ Goto(w, "sent")
    /\ UNCHANGED <<outbox, published, batch, cli, faults, replays>>

Send(w) ==
    /\ at[w].pc = "send"
    /\ published' = [published EXCEPT ![at[w].ev] = @ + 1]
    /\ Goto(w, "sent")
    /\ UNCHANGED <<outbox, batch, cli, faults, replays>>

\* An update that sets sentAt and forgets the status.
MarkSentAtOnly(w) ==
    /\ at[w].pc = "sent"
    /\ Finish(w)
    /\ UNCHANGED <<outbox, published, batch, cli, faults, replays>>

MarkSent(w) ==
    /\ at[w].pc = "sent"
    /\ outbox' = [outbox EXCEPT ![at[w].ev].status = "SENT"]
    /\ Finish(w)
    /\ UNCHANGED <<published, batch, cli, faults, replays>>

\* The claim throws before it counts anything.  If it has counted, it is a
\* Claim and a SendThrows that sends nothing.
ClaimThrows(w) ==
    /\ faults < MaxFaults
    /\ at[w].pc = "idle"
    /\ \E e \in Oldest(outbox, batch[w], 1) :
          /\ batch' = [batch EXCEPT ![w] = @ \ {e}]
          /\ at' = [at EXCEPT ![w] = [pc |-> "error", ev |-> e]]
    /\ faults' = faults + 1
    /\ UNCHANGED <<outbox, published, cli, replays>>

\* The send throws; the message may be in the topic all the same.
SendThrows(w) ==
    /\ faults < MaxFaults
    /\ at[w].pc = "send"
    /\ published' \in {published, [published EXCEPT ![at[w].ev] = @ + 1]}
    /\ Goto(w, "error")
    /\ faults' = faults + 1
    /\ UNCHANGED <<outbox, batch, cli, replays>>

\* The message is out, and the update to SENT throws, before or after it has
\* been committed.
MarkThrows(w) ==
    /\ faults < MaxFaults
    /\ at[w].pc = "sent"
    /\ outbox' \in {outbox, [outbox EXCEPT ![at[w].ev].status = "SENT"]}
    /\ Goto(w, "error")
    /\ faults' = faults + 1
    /\ UNCHANGED <<published, batch, cli, replays>>

\* A comparison that is off by one.
ExhaustedEarly(row) == row.attempts + 1 >= MaxAttempts

Exhausted(row) == row.attempts >= MaxAttempts

\* The catch block reads the row again and decides on its attempts.
Refresh(w) ==
    /\ at[w].pc = "error"
    /\ Goto(w, IF Exhausted(outbox[at[w].ev]) THEN "fail" ELSE "retry")
    /\ UNCHANGED <<outbox, published, batch, cli, faults, replays>>

Fail(w) ==
    /\ at[w].pc = "fail"
    /\ outbox' = [outbox EXCEPT ![at[w].ev].status = "FAILED"]
    /\ Finish(w)
    /\ UNCHANGED <<published, batch, cli, faults, replays>>

Retry(w) ==
    /\ at[w].pc = "retry"
    /\ outbox' = [outbox EXCEPT ![at[w].ev].status = "PENDING", ![at[w].ev].due = FALSE]
    /\ Finish(w)
    /\ UNCHANGED <<published, batch, cli, faults, replays>>

\* Time passes: availableAt of e is reached.
Elapse(e) ==
    /\ ~outbox[e].due
    /\ outbox' = [outbox EXCEPT ![e].due = TRUE]
    /\ UNCHANGED <<published, at, batch, cli, faults, replays>>

\* The process dies and is restarted, or the catch block throws: then main
\* logs the error and calls publishOnce afresh, and the batch is forgotten.
Crash(w) ==
    /\ faults < MaxFaults
    /\ at[w].pc # "idle" \/ batch[w] # {}
    /\ Finish(w)
    /\ batch' = [batch EXCEPT ![w] = {}]
    /\ faults' = faults + 1
    /\ UNCHANGED <<outbox, published, cli, replays>>

\* replay.ts outbox: the oldest rows of a status, whatever the workers do.
ReplayStart(st, resetAttempts) ==
    /\ replays < MaxReplays
    /\ DOMAIN cli = {}
    /\ cli' = [e \in Oldest(outbox, WithStatus(outbox, st), ReplayLimit) |->
                  IF resetAttempts THEN 0 ELSE outbox[e].attempts]
    /\ replays' = replays + 1
    /\ UNCHANGED <<outbox, published, at, batch, faults>>

ReplayRow(e) ==
    /\ e \in Oldest(outbox, DOMAIN cli, 1)
    /\ outbox' = [outbox EXCEPT ![e].status = "PENDING", ![e].due = TRUE,
                                ![e].attempts = cli[e]]
    /\ cli' = [f \in DOMAIN cli \ {e} |-> cli[f]]
    /\ UNCHANGED <<published, at, batch, faults, replays>>

PublisherStep(w) ==
    Scan(w) \/ Claim(w) \/ Send(w) \/ MarkSent(w) \/ Refresh(w) \/ Fail(w) \/ Retry(w)
Fault(w) == ClaimThrows(w) \/ SendThrows(w) \/ MarkThrows(w) \/ Crash(w)

Next ==
    \/ \E e \in Events : Record(e) \/ Elapse(e) \/ ReplayRow(e)
    \/ \E w \in Workers : PublisherStep(w) \/ Fault(w)
    \/ \E st \in {"PENDING", "SENT", "FAILED"}, r \in BOOLEAN : ReplayStart(st, r)

\* Every worker keeps polling and time passes; nothing else is promised.
Fairness ==
    /\ \A w \in Workers : WF_vars(PublisherStep(w))
    /\ \A e \in Events : WF_vars(Elapse(e))

Spec == Init /\ [][Next]_vars
FairSpec == Spec /\ Fairness

-----------------------------------------------------------------------------
(* Properties *)

Ctl == [pc : {"idle", "send", "sent", "error", "fail", "retry"}, ev : Events \cup {None}]

\* Types, and: whoever is busy holds an event; rows that are held exist.
TypeOK ==
    /\ outbox \in [Events -> RowType({"PENDING", "SENT", "FAILED"})]
    /\ published \in [Events -> Nat]
    /\ at \in [Workers -> Ctl]
    /\ batch \in [Workers -> SUBSET Existing(outbox)]
    /\ DOMAIN cli \subseteq Existing(outbox)
    /\ \A e \in DOMAIN cli : cli[e] \in Nat
    /\ faults \in Nat
    /\ replays \in Nat
    /\ \A w \in Workers : at[w].pc = "idle" <=> at[w].ev = None

\* A row is SENT only if its event is in the topic.
SentIsPublished ==
    \A e \in Events : outbox[e].status = "SENT" => published[e] > 0

\* Every copy of an event beyond the first is accounted for: each worker
\* publishes it at most once, and once more for each fault and each replay.
DuplicatesAreExplained ==
    \A e \in Events :
       published[e] <= Cardinality(Workers) * (1 + faults + replays)

\* Without a replay, a row is FAILED only after MaxAttempts claims.
FailedOnlyWhenExhausted ==
    replays = 0 =>
       \A e \in Events : outbox[e].status = "FAILED" => outbox[e].attempts >= MaxAttempts

\* A single worker gives a row up only after MaxAttempts faults: no claim of
\* its own is ever charged to the row unless something went wrong.
AttemptsAreFaults ==
    Cardinality(Workers) = 1 /\ replays = 0 =>
       \A e \in Events :
          \/ outbox[e].attempts <= faults
          \/ outbox[e].attempts = faults + 1 /\ \/ outbox[e].status = "SENT"
                                                \/ \E w \in Workers : at[w].ev = e

\* A committed event is published, if it fails fewer than MaxAttempts times.
EveryRowIsPublished ==
    \A e \in Events : (e \in Existing(outbox)) ~> (published[e] > 0)

\* Every row ends up SENT or FAILED.
EveryRowSettles ==
    \A e \in Events : (e \in Existing(outbox)) ~> (outbox[e].status \in {"SENT", "FAILED"})
=============================================================================

--------------------------- MODULE InboxProcessor ---------------------------
(***************************************************************************)
(* The consuming half of the worker: every worker process runs two         *)
(* threads of control against one PostgreSQL database,                     *)
(*                                                                         *)
(*   "consumer"  startConsumer, called by kafkajs for each message of the  *)
(*               topic: upsert the inbox row, credit, mark PROCESSED;      *)
(*   "retry"     retryInboxLoop: poll the PENDING rows that are due and    *)
(*               credit them again, count a failure, back off, give up,    *)
(*                                                                         *)
(* and an operator may run replay.ts beside them.  Every awaited call is   *)
(* an action of its own, so the steps of all threads interleave, any call  *)
(* may throw, and a worker may die between two of them.                    *)
(***************************************************************************)
EXTENDS Naturals, Sequences, FiniteSets, EventTable

CONSTANTS
    Workers,    \* worker processes (a rolling update runs two at a time)
    Orders,     \* the orders the ledger may credit
    Events,     \* ids of OrderConfirmed events, the key of the inbox
    OrderOf,    \* OrderOf[e]: the order in the payload of event e ...
    NoOrder,    \* ... or NoOrder: the payload has none, or one not in the DB
    Noise,      \* a message of another type, which the consumer skips
    NoWorker,   \* nobody owns the partition
    None        \* a thread that handles no event

CONSTANTS
    MaxAttempts,         \* MAX_ATTEMPTS
    BatchSize,           \* RETRY_BATCH_SIZE
    ReplayLimit,         \* --limit of replay.ts
    TxSurvivesConflict,  \* may a transaction go on after a P2002 ?
    ThrowAt              \* the calls that may throw for want of a database

\* Bounds of the exploration, not of the program.
CONSTANTS MaxTopic, MaxFaults, MaxReplays

Loops == {"consumer", "retry"}
Threads == Loops \X Workers
Messages == Events \cup {Noise}
Calls == {"upsert", "read", "credit", "mark"}

ASSUME ConstantsAssumption ==
    /\ IsFiniteSet(Workers) /\ IsFiniteSet(Events)
    /\ OrderOf \in [Events -> Orders \cup {NoOrder}]
    /\ NoOrder \notin Orders
    /\ Noise \notin Events
    /\ None \notin Events
    /\ NoWorker \notin Workers
    /\ MaxAttempts \in Nat \ {0}
    /\ BatchSize \in Nat \ {0}
    /\ ReplayLimit \in Nat \ {0}
    /\ TxSurvivesConflict \in BOOLEAN
    /\ ThrowAt \subseteq Calls
    /\ MaxTopic \in Nat /\ MaxFaults \in Nat /\ MaxReplays \in Nat

VARIABLES
    confirmed,  \* orders whose row has status CONFIRMED
    topic,      \* the single partition of order.events
    committed,  \* the consumer group's committed offset
    owner,      \* the worker the partition is assigned to
    pos,        \* pos[w]: messages of the topic w has resolved
    at,         \* at[t]: where thread t is, and the event it handles
    batch,      \* batch[w]: rows read by w's last findMany, still to handle
    inbox,      \* InboxEvent, by sourceEventId
    ledger,     \* ledger[o]: number of CREDIT rows of order o
    dlq,        \* dlq[e]: messages about e in the dead letter topic
    cli,        \* rows replay.ts has read and not yet written: e -> attempts
    faults,     \* how many throws, crashes and rebalances so far
    replays,    \* how many replays so far
    abandoned   \* history: events whose worker died at their DLQ send

vars == <<confirmed, topic, committed, owner, pos, at, batch, inbox, ledger,
          dlq, cli, faults, replays, abandoned>>

kafka == <<topic, committed, owner>>
outside == <<confirmed, topic, committed, owner, cli, replays, abandoned>>

Idle == [pc |-> "idle", ev |-> None]

\* The worker starts with any set of orders already confirmed.
Init ==
    /\ confirmed \in SUBSET Orders
    /\ topic = <<>>
    /\ committed = 0
    /\ owner = NoWorker
    /\ pos = [w \in Workers |-> 0]
    /\ at = [t \in Threads |-> Idle]
    /\ batch = [w \in Workers |-> {}]
    /\ inbox = [e \in Events |-> NoRow]
    /\ ledger = [o \in Orders |-> 0]
    /\ dlq = [e \in Events |-> 0]
    /\ cli = [e \in {} |-> 0]
    /\ faults = 0
    /\ replays = 0
    /\ abandoned = {}

Goto(t, pc) == at' = [at EXCEPT ![t].pc = pc]

\* A thread that keeps hold of the event it is done with.
FinishKeeping(t) ==
    /\ at' = [at EXCEPT ![t].pc = "idle"]
    /\ pos' = IF t[1] = "consumer" THEN [pos EXCEPT ![t[2]] = @ + 1] ELSE pos

\* eachMessage returns, whatever happened, and kafkajs resolves the offset;
\* the retry loop takes up the next row.
Finish(t) ==
    /\ at' = [at EXCEPT ![t] = Idle]
    /\ pos' = IF t[1] = "consumer" THEN [pos EXCEPT ![t[2]] = @ + 1] ELSE pos

\* A handler that loses the exception and goes on as if it had credited.
RaiseUnseen(t) == Goto(t, "mark") /\ UNCHANGED pos

\* An exception: the consumer swallows it, the retry loop counts it.
Raise(t) ==
    IF t[1] = "consumer" THEN Finish(t) ELSE Goto(t, "failed") /\ UNCHANGED pos

-----------------------------------------------------------------------------
(* The orders, the broker and the consumer group. *)

ConfirmOrder(o) ==
    /\ o \notin confirmed
    /\ confirmed' = confirmed \cup {o}
    /\ UNCHANGED <<kafka, pos, at, batch, inbox, ledger, dlq, cli, faults, replays,
                   abandoned>>

\* Somebody appends a message: at least once, in any order, of any kind.
Produce(m) ==
    /\ Len(topic) < MaxTopic
    /\ topic' = Append(topic, m)
    /\ UNCHANGED <<confirmed, committed, owner, pos, at, batch, inbox, ledger,
                   dlq, cli, faults, replays, abandoned>>

\* The group coordinator gives w the partition, at the committed offset.  A
\* worker joins the new generation when its handler has returned.
Assign(w) ==
    /\ owner = NoWorker
    /\ at[<<"consumer", w>>].pc = "idle"
    /\ owner' = w
    /\ pos' = [pos EXCEPT ![w] = committed]
    /\ UNCHANGED <<confirmed, topic, committed, at, batch, inbox, ledger, dlq,
                   cli, faults, replays, abandoned>>

\* A rebalance: the owner left, or was too slow; its handler still runs.
Revoke ==
    /\ faults < MaxFaults
    /\ owner # NoWorker
    /\ owner' = NoWorker
    /\ faults' = faults + 1
    /\ UNCHANGED <<confirmed, topic, committed, pos, at, batch, inbox, ledger,
                   dlq, cli, replays, abandoned>>

\* An offset commit that runs ahead, as if the message in flight were done.
CommitInFlight(w) ==
    /\ owner = w
    /\ committed # pos[w] /\ pos[w] < Len(topic)
    /\ committed' = pos[w] + 1
    /\ UNCHANGED <<confirmed, topic, owner, pos, at, batch, inbox, ledger, dlq,
                   cli, faults, replays, abandoned>>

\* autoCommit: the resolved offsets, at any time the broker still takes them.
CommitOffset(w) ==
    /\ owner = w
    /\ committed # pos[w]
    /\ committed' = pos[w]
    /\ UNCHANGED <<confirmed, topic, owner, pos, at, batch, inbox, ledger, dlq,
                   cli, faults, replays, abandoned>>

-----------------------------------------------------------------------------
(* consumer.ts *)

\* eachMessage is called.  A message of another type returns at once.
Fetch(w) ==
    LET t == <<"consumer", w>>
        m == topic[pos[w] + 1]
    IN  /\ owner = w
        /\ at[t].pc = "idle"
        /\ pos[w] < Len(topic)
        /\ IF m = Noise
           THEN Finish(t)
           ELSE at' = [at EXCEPT ![t] = [pc |-> "upsert", ev |-> m]] /\ UNCHANGED pos
        /\ UNCHANGED <<outside, batch, inbox, ledger, dlq, faults>>

UpsertInbox(w) ==
    LET t == <<"consumer", w>>
        e == at[t].ev
    IN  /\ at[t].pc = "upsert"
        /\ inbox' = IF e \in Existing(inbox) THEN inbox
                    ELSE [inbox EXCEPT ![e] = NewRow(inbox)]
        /\ Goto(t, "read")
        /\ UNCHANGED <<outside, pos, batch, ledger, dlq, faults>>

-----------------------------------------------------------------------------
(* handlers/process-order-confirmed.ts, called by both threads. *)

\* A handler that credits without looking at the status.
HandlerReadUnchecked(t) ==
    /\ at[t].pc = "read"
    /\ Goto(t, "credit")
    /\ UNCHANGED <<outside, pos, batch, inbox, ledger, dlq, faults>>

\* The transaction reads the order and refuses one that is not CONFIRMED.
HandlerRead(t) ==
    /\ at[t].pc = "read"
    /\ IF OrderOf[at[t].ev] \in confirmed
       THEN Goto(t, "credit") /\ UNCHANGED pos
       ELSE Raise(t)
    /\ UNCHANGED <<outside, batch, inbox, ledger, dlq, faults>>

\* The ledger without its unique index.
NoUniqueIndex(o) == FALSE

\* @@unique([orderId, type])
UniqueViolation(o) == ledger[o] > 0

\* The insert and the commit.  A duplicate raises P2002; the handler catches
\* it and queries on in the same transaction, which PostgreSQL has aborted
\* by then, unless TxSurvivesConflict.
HandlerCredit(t) ==
    LET o == OrderOf[at[t].ev] IN
    /\ at[t].pc = "credit"
    /\ \/ /\ ~UniqueViolation(o)
          /\ ledger' = [ledger EXCEPT ![o] = @ + 1]
          /\ Goto(t, "mark")
          /\ UNCHANGED pos
       \/ /\ UniqueViolation(o)
          /\ TxSurvivesConflict
          /\ Goto(t, "mark")
          /\ UNCHANGED <<ledger, pos>>
       \/ /\ UniqueViolation(o)
          /\ ~TxSurvivesConflict
          /\ Raise(t)
          /\ UNCHANGED ledger
    /\ UNCHANGED <<outside, batch, inbox, dlq, faults>>

MarkProcessed(t) ==
    /\ at[t].pc = "mark"
    /\ inbox' = [inbox EXCEPT ![at[t].ev].status = "PROCESSED"]
    /\ Finish(t)
    /\ UNCHANGED <<outside, batch, ledger, dlq, faults>>

\* A call throws and changes nothing: the database cannot be reached, the
\* transaction times out.
CallThrows(t) ==
    /\ at[t].pc \in ThrowAt
    /\ faults < MaxFaults
    /\ Raise(t)
    /\ faults' = faults + 1
    /\ UNCHANGED <<outside, batch, inbox, ledger, dlq>>

\* A call takes effect and throws all the same: the connection breaks after
\* the commit, the answer times out.
AnswerLost(t) ==
    LET e == at[t].ev IN
    /\ at[t].pc \in ThrowAt
    /\ faults < MaxFaults
    /\ \/ /\ at[t].pc = "upsert"
          /\ e \notin Existing(inbox)
          /\ inbox' = [inbox EXCEPT ![e] = NewRow(inbox)]
          /\ UNCHANGED ledger
       \/ /\ at[t].pc = "credit"
          /\ ~UniqueViolation(OrderOf[e])
          /\ ledger' = [ledger EXCEPT ![OrderOf[e]] = @ + 1]
          /\ UNCHANGED inbox
       \/ /\ at[t].pc = "mark"
          /\ inbox' = [inbox EXCEPT ![e].status = "PROCESSED"]
          /\ UNCHANGED ledger
    /\ Raise(t)
    /\ faults' = faults + 1
    /\ UNCHANGED <<outside, batch, dlq>>

-----------------------------------------------------------------------------
(* inbox-retry.ts *)

Scan(w) ==
    /\ at[<<"retry", w>>].pc = "idle"
    /\ batch[w] = {}
    /\ batch' = [batch EXCEPT ![w] = Oldest(inbox, Due(inbox), BatchSize)]
    /\ UNCHANGED <<outside, pos, at, inbox, ledger, dlq, faults>>

\* for (const e of events), in the order of the query
Take(w) ==
    /\ at[<<"retry", w>>].pc = "idle"
    /\ \E e \in Oldest(inbox, batch[w], 1) :
          /\ batch' = [batch EXCEPT ![w] = @ \ {e}]
          /\ at' = [at EXCEPT ![<<"retry", w>>] =
                       [pc |-> IF OrderOf[e] = NoOrder THEN "failed" ELSE "read", ev |-> e]]
    /\ UNCHANGED <<outside, pos, inbox, ledger, dlq, faults>>

\* Comparisons that are off by one.
ExhaustedLate(row) == row.attempts > MaxAttempts
ExhaustedEarly(row) == row.attempts + 1 >= MaxAttempts

Exhausted(row) == row.attempts >= MaxAttempts

CountAttempt(w) ==
    LET t == <<"retry", w>>
        row == Bumped(inbox[at[t].ev])
    IN  /\ at[t].pc = "failed"
        /\ inbox' = [inbox EXCEPT ![at[t].ev] = row]
        /\ Goto(t, IF Exhausted(row) THEN "giveup" ELSE "backoff")
        /\ UNCHANGED <<outside, pos, batch, ledger, dlq, faults>>

\* Giving up without telling the dead letter topic.
GiveUpSilently(w) ==
    LET t == <<"retry", w>> IN
    /\ at[t].pc = "giveup"
    /\ inbox' = [inbox EXCEPT ![at[t].ev].status = "FAILED"]
    /\ Finish(t)
    /\ UNCHANGED <<outside, batch, ledger, dlq, faults>>

GiveUp(w) ==
    LET t == <<"retry", w>> IN
    /\ at[t].pc = "giveup"
    /\ inbox' = [inbox EXCEPT ![at[t].ev].status = "FAILED"]
    /\ Goto(t, "dlq")
    /\ UNCHANGED <<outside, pos, batch, ledger, dlq, faults>>

SendDlq(w) ==
    LET t == <<"retry", w>> IN
    /\ at[t].pc = "dlq"
    /\ dlq' = [dlq EXCEPT ![at[t].ev] = @ + 1]
    /\ Finish(t)
    /\ UNCHANGED <<outside, batch, inbox, ledger, faults>>

BackOff(w) ==
    LET t == <<"retry", w>> IN
    /\ at[t].pc = "backoff"
    /\ inbox' = [inbox EXCEPT ![at[t].ev].due = FALSE]
    /\ Finish(t)
    /\ UNCHANGED <<outside, batch, ledger, dlq, faults>>

\* Time passes: availableAt of e is reached.
Elapse(e) ==
    /\ ~inbox[e].due
    /\ inbox' = [inbox EXCEPT ![e].due = TRUE]
    /\ UNCHANGED <<outside, pos, at, batch, ledger, dlq, faults>>

\* The process dies and is restarted: killed, or exited because the retry
\* loop threw outside its try (findMany, the catch block, the DLQ send).  A
\* call of these that took effect and then threw is its step, then this one.
Crash(w) ==
    /\ faults < MaxFaults
    /\ faults' = faults + 1
    /\ at' = [t \in Threads |-> IF t[2] = w THEN Idle ELSE at[t]]
    /\ batch' = [batch EXCEPT ![w] = {}]
    /\ owner' = IF owner = w THEN NoWorker ELSE owner
    /\ abandoned' = abandoned \cup {e \in Events : at[<<"retry", w>>] = [pc |-> "dlq", ev |-> e]}
    /\ UNCHANGED <<confirmed, topic, committed, pos, inbox, ledger, dlq, cli, replays>>

-----------------------------------------------------------------------------
(* replay.ts, run by an operator. *)

\* By sourceEventId, whatever the status, or the oldest rows of a status.
Selections ==
    {{e} : e \in Existing(inbox)}
       \cup {Oldest(inbox, WithStatus(inbox, st), ReplayLimit) :
                st \in {"PENDING", "PROCESSED", "FAILED"}}

ReplayStart(S, resetAttempts) ==
    /\ replays < MaxReplays
    /\ DOMAIN cli = {}
    /\ cli' = [e \in S |-> IF resetAttempts THEN 0 ELSE inbox[e].attempts]
    /\ replays' = replays + 1
    /\ UNCHANGED <<confirmed, kafka, pos, at, batch, inbox, ledger, dlq, faults, abandoned>>

\* One update: attempts is the value read when the replay started.
ReplayRow(e) ==
    /\ e \in Oldest(inbox, DOMAIN cli, 1)
    /\ inbox' = [inbox EXCEPT ![e].status = "PENDING", ![e].due = TRUE,
                              ![e].attempts = cli[e]]
    /\ cli' = [f \in DOMAIN cli \ {e} |-> cli[f]]
    /\ UNCHANGED <<confirmed, kafka, pos, at, batch, ledger, dlq, faults, replays,
                   abandoned>>

-----------------------------------------------------------------------------
HandlerStep(t) == HandlerRead(t) \/ HandlerCredit(t) \/ MarkProcessed(t)
ConsumerStep(w) == Fetch(w) \/ UpsertInbox(w) \/ HandlerStep(<<"consumer", w>>)
RetryStep(w) ==
    \/ Scan(w) \/ Take(w) \/ HandlerStep(<<"retry", w>>)
    \/ CountAttempt(w) \/ GiveUp(w) \/ SendDlq(w) \/ BackOff(w)
Replay == \/ \E S \in Selections, r \in BOOLEAN : ReplayStart(S, r)
          \/ \E e \in Events : ReplayRow(e)

Next ==
    \/ \E o \in Orders : ConfirmOrder(o)
    \/ \E m \in Messages : Produce(m)
    \/ \E w \in Workers : Assign(w) \/ CommitOffset(w) \/ Crash(w)
    \/ Revoke
    \/ \E w \in Workers : ConsumerStep(w) \/ RetryStep(w)
    \/ \E t \in Threads : CallThrows(t) \/ AnswerLost(t)
    \/ \E e \in Events : Elapse(e)
    \/ Replay

\* The workers keep polling, the group is rebalanced when it has no owner,
\* and time passes.  Faults, the operator, the producers and the offset
\* commits are under no obligation.
Fairness ==
    /\ WF_vars(\E w \in Workers : Assign(w))
    /\ \A w \in Workers : WF_vars(ConsumerStep(w)) /\ WF_vars(RetryStep(w))
    /\ \A e \in Events : WF_vars(Elapse(e))

Spec == Init /\ [][Next]_vars
FairSpec == Spec /\ Fairness

-----------------------------------------------------------------------------
(* Properties *)

Ctl == [pc : Calls \cup {"idle", "failed", "giveup", "dlq", "backoff"},
        ev : Events \cup {None}]

\* Types, and: a thread that is not idle has an event, a batch and a replay
\* only hold rows that exist (nothing ever deletes one).
TypeOK ==
    /\ confirmed \subseteq Orders
    /\ topic \in Seq(Messages)
    /\ committed \in Nat
    /\ owner \in Workers \cup {NoWorker}
    /\ pos \in [Workers -> Nat]
    /\ at \in [Threads -> Ctl]
    /\ batch \in [Workers -> SUBSET Existing(inbox)]
    /\ inbox \in [Events -> RowType({"PENDING", "PROCESSED", "FAILED"})]
    /\ ledger \in [Orders -> Nat]
    /\ dlq \in [Events -> Nat]
    /\ DOMAIN cli \subseteq Existing(inbox)
    /\ \A e \in DOMAIN cli : cli[e] \in Nat
    /\ faults \in Nat
    /\ replays \in Nat
    /\ abandoned \subseteq Events
    /\ \A t \in Threads : at[t].pc = "idle" <=> at[t].ev = None

Credited(e) == OrderOf[e] \in Orders /\ ledger[OrderOf[e]] > 0
Published(e) == \E i \in DOMAIN topic : topic[i] = e
Settled(e) == inbox[e].status \in {"PROCESSED", "FAILED"}

\* However often an event is delivered, retried, raced by another worker or
\* replayed, its order has at most one CREDIT entry.
OneCreditPerOrder == \A o \in Orders : ledger[o] <= 1

\* A row is PROCESSED only if the credit of its order is in the ledger: no
\* path that swallows an exception reaches the update of the status.
ProcessedIsCredited ==
    \A e \in Events : inbox[e].status = "PROCESSED" => Credited(e)

\* The offset of an OrderConfirmed message is not committed before the event
\* has an inbox row, so a restart cannot lose it.
ConsumedHasRow ==
    \A i \in 1..committed : topic[i] # Noise => topic[i] \in Existing(inbox)

\* The ledger of CashbackLedger is implemented: every step of every thread is
\* a confirmation, a first credit of a confirmed order, or invisible there.
Ledger == INSTANCE CashbackLedger WITH credits <- ledger
LedgerSpec == Ledger!Spec

\* Without a replay, a row is FAILED only after MaxAttempts counted failures,
\* whichever loops and workers counted them.
FailedOnlyWhenExhausted ==
    replays = 0 =>
       \A e \in Events : inbox[e].status = "FAILED" => inbox[e].attempts >= MaxAttempts

\* Without a replay, attempts exceeds MaxAttempts only by what the other
\* workers count with rows they had read before, and by one for each crash
\* between the count and the FAILED mark.
AttemptsBounded ==
    replays = 0 =>
       \A e \in Events :
          inbox[e].attempts < MaxAttempts + Cardinality(Workers) + faults

\* The retry loop charges no failure to the event of a credited order, and
\* never sends it to the dead letter topic: a duplicate is "already processed".
CreditedIsNeverDeadLettered == \A e \in Events : Credited(e) => dlq[e] = 0

\* Every OrderConfirmed message ends up PROCESSED or FAILED.
EveryEventSettles == \A e \in Events : Published(e) ~> Settled(e)

\* If the event of an order is published only once the order is confirmed,
\* the order is credited, whatever fails at most MaxAttempts times, the upsert
\* of the consumer apart: its own attempt to credit comes on top of those the
\* retry loop counts.
EveryConfirmedOrderIsCredited ==
    \A e \in Events :
       [](Published(e) => OrderOf[e] \in confirmed) => (Published(e) ~> Credited(e))

\* Whoever gives a row up tells the dead letter topic: a FAILED row has or gets
\* its message, unless the worker died between the two calls (or the send
\* itself threw, which ends the process).  No other fault excuses it.
FailedReachesDlq ==
    \A e \in Events : (inbox[e].status = "FAILED") ~> (dlq[e] > 0 \/ e \in abandoned)
=============================================================================

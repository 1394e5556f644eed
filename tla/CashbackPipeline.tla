-------------------------- MODULE CashbackPipeline --------------------------
(***************************************************************************)
(* The way of a confirmation from the API to the ledger: OutboxPublisher   *)
(* and InboxProcessor joined at the topic and at the worker process.       *)
(*                                                                         *)
(*   Confirm   the API's transaction, which both halves see: the order is  *)
(*             CONFIRMED and its event is in the outbox;                   *)
(*   Publish   a step of the publishing half; what it sends is appended to *)
(*             the topic the other half reads;                             *)
(*   Consume   a step of the consuming half;                               *)
(*   Crash     one process runs all loops of a worker and dies as a whole. *)
(*                                                                         *)
(* Neither half is modelled again.  What each assumes of its surroundings  *)
(* (that events appear, that orders are confirmed, that messages arrive)   *)
(* is here what the other half or the API does.                            *)
(***************************************************************************)
EXTENDS Naturals, Sequences, FiniteSets

CONSTANTS Workers, Orders, Events, OrderOf, NoOrder, Noise, NoWorker, None
CONSTANTS MaxAttempts, BatchSize, ReplayLimit, TxSurvivesConflict, ThrowAt

\* Bounds of the exploration, not of the program: faults of each half, replays
\* of both together, and messages, which the publisher stops sending when there
\* are MaxTopic.
CONSTANTS MaxTopic, MaxFaults, MaxReplays

\* The event of a confirmation names an order that exists.
ASSUME PipelineConstants ==
    /\ IsFiniteSet(Workers) /\ IsFiniteSet(Events)
    /\ OrderOf \in [Events -> Orders]
    /\ NoOrder \notin Orders
    /\ Noise \notin Events /\ None \notin Events /\ NoWorker \notin Workers
    /\ {MaxAttempts, BatchSize, ReplayLimit} \subseteq Nat \ {0}
    /\ TxSurvivesConflict \in BOOLEAN
    /\ ThrowAt \subseteq {"upsert", "read", "credit", "mark"}
    /\ {MaxTopic, MaxFaults, MaxReplays} \subseteq Nat

VARIABLES
    confirmed, topic,                                 \* shared
    outbox, sending, outboxBatch, outboxCli, sendFaults, outboxReplays,
    committed, owner, pos, at, batch, inbox, ledger, dlq, cli, faults, replays, abandoned

publishing == <<outbox, sending, outboxBatch, outboxCli, sendFaults, outboxReplays>>
consuming == <<committed, owner, pos, at, batch, inbox, ledger, dlq, cli, faults, replays,
               abandoned>>
vars == <<confirmed, topic, publishing, consuming>>

\* How many messages about e the topic has.
Copies(e) == Cardinality({i \in DOMAIN topic : topic[i] = e})

Outbox == INSTANCE OutboxPublisherProofs
    WITH published <- [e \in Events |-> Copies(e)],
         at <- sending, batch <- outboxBatch, cli <- outboxCli,
         faults <- sendFaults, replays <- outboxReplays

Inbox == INSTANCE InboxProcessorProofs

Init == /\ confirmed = {}
        /\ Inbox!Init
        /\ Outbox!Init

\* The event is committed in a transaction before that of its order.
ConfirmInTwo(e) ==
    \/ /\ UNCHANGED <<confirmed, topic, consuming>>
       /\ Outbox!Record(e)
    \/ /\ OrderOf[e] \notin confirmed
       /\ confirmed' = confirmed \cup {OrderOf[e]}
       /\ UNCHANGED <<topic, publishing, consuming>>

\* The transaction of confirmAndOutbox commits under the outbox id e.  A
\* second event of an order comes from a confirmation that overlapped.
Confirm(e) ==
    /\ UNCHANGED <<topic, consuming>>
    /\ confirmed' = confirmed \cup {OrderOf[e]}
    /\ Outbox!Record(e)

\* The topic is appended to by whatever the publisher sends.
Publish(step) ==
    /\ topic' \in {topic} \cup {Append(topic, e) : e \in Events}
    /\ Len(topic') <= MaxTopic
    /\ step
    /\ outboxReplays' + replays <= MaxReplays
    /\ UNCHANGED <<confirmed, consuming>>

PublisherStep(w) == Publish(Outbox!PublisherStep(w))

Publishing ==
    \/ \E w \in Workers : PublisherStep(w) \/ Publish(Outbox!Fault(w))
    \/ \E e \in Events : Publish(Outbox!Elapse(e)) \/ Publish(Outbox!ReplayRow(e))
    \/ \E st \in {"PENDING", "SENT", "FAILED"}, r \in BOOLEAN :
          Publish(Outbox!ReplayStart(st, r))

Consume(step) ==
    /\ step
    /\ outboxReplays + replays' <= MaxReplays
    /\ UNCHANGED publishing

Consuming ==
    \/ \E w \in Workers : Consume(Inbox!Assign(w)) \/ Consume(Inbox!CommitOffset(w))
    \/ Consume(Inbox!Revoke)
    \/ \E w \in Workers : Consume(Inbox!ConsumerStep(w)) \/ Consume(Inbox!RetryStep(w))
    \/ \E t \in Inbox!Threads : Consume(Inbox!CallThrows(t)) \/ Consume(Inbox!AnswerLost(t))
    \/ \E e \in Events : Consume(Inbox!Elapse(e))
    \/ Consume(Inbox!Replay)

Crash(w) ==
    /\ Inbox!Crash(w)
    /\ IF sending[w].pc = "idle" /\ outboxBatch[w] = {}
       THEN UNCHANGED publishing
       ELSE Outbox!Crash(w)

Next ==
    \/ \E e \in Events : Confirm(e)
    \/ Publishing
    \/ Consuming
    \/ \E w \in Workers : Crash(w)

\* What either half promises on its own: loops go on, a partition without an
\* owner is given to somebody, time passes.
Fairness ==
    /\ WF_vars(\E w \in Workers : Consume(Inbox!Assign(w)))
    /\ \A w \in Workers : /\ WF_vars(PublisherStep(w))
                          /\ WF_vars(Consume(Inbox!ConsumerStep(w)))
                          /\ WF_vars(Consume(Inbox!RetryStep(w)))
    /\ \A e \in Events : /\ WF_vars(Publish(Outbox!Elapse(e)))
                         /\ WF_vars(Consume(Inbox!Elapse(e)))

Spec == Init /\ [][Next]_vars
FairSpec == Spec /\ Fairness

-----------------------------------------------------------------------------
(* Properties *)

Credited(o) == ledger[o] > 0

\* A consumer never sees an order that is not CONFIRMED: what a worker reads
\* from the topic was committed together with the status.
PublishedIsConfirmed == \A i \in DOMAIN topic : OrderOf[topic[i]] \in confirmed

\* Between the confirmation and the credit there is always something left to
\* do it from, that survives a crash of every process: an outbox row that is
\* not SENT, a message after the committed offset, or an inbox row that is
\* not PROCESSED.  FAILED rows count: replay.ts brings them back.
NothingIsLost ==
    \A o \in confirmed : ~Credited(o) =>
       \E e \in Events :
          /\ OrderOf[e] = o
          /\ \/ outbox[e].status \in {"PENDING", "FAILED"}
             \/ \E i \in committed + 1 .. Len(topic) : topic[i] = e
             \/ inbox[e].status \in {"PENDING", "FAILED"}

\* With one worker, a claim is charged to a row only if something went wrong.
AttemptsAreFaults == Outbox!AttemptsAreFaults

\* The two halves and the API together implement the abstract ledger.
LedgerSpec == Inbox!LedgerSpec

\* Every confirmed order is credited, if the publishing half fails fewer than
\* MaxAttempts times and the consuming half at most MaxAttempts times, and the
\* upsert of the consumer does not throw.
EveryConfirmedOrderIsCredited == \A o \in Orders : (o \in confirmed) ~> Credited(o)
=============================================================================

----------------------- MODULE CashbackPipelineProofs -----------------------
(***************************************************************************)
(* Theorems about CashbackPipeline, for any number of workers and events.  *)
(* The pipeline implements each of its halves: what the halves are proved  *)
(* to promise in any surroundings holds of them in each other's.           *)
(***************************************************************************)
EXTENDS CashbackPipeline, FiniteSetTheorems, TLAPS

-----------------------------------------------------------------------------
(* Both halves run as they are. *)

\* The consuming half only reads what the other half and the API write.
LEMMA ConsumingReads == Consuming => UNCHANGED <<confirmed, topic, publishing>>
<1> USE DEF Consume, Inbox!outside, Inbox!kafka
<1>1. ASSUME NEW w \in Workers, Consume(Inbox!Assign(w)) \/ Consume(Inbox!CommitOffset(w))
      PROVE  UNCHANGED <<confirmed, topic, publishing>>
  BY <1>1 DEF Inbox!Assign, Inbox!CommitOffset
<1>2. ASSUME NEW w \in Workers, Consume(Inbox!ConsumerStep(w))
      PROVE  UNCHANGED <<confirmed, topic, publishing>>
  BY <1>2 DEF Inbox!ConsumerStep, Inbox!Fetch, Inbox!UpsertInbox, Inbox!HandlerStep,
              Inbox!HandlerRead, Inbox!HandlerCredit, Inbox!MarkProcessed
<1>3. ASSUME NEW w \in Workers, Consume(Inbox!RetryStep(w))
      PROVE  UNCHANGED <<confirmed, topic, publishing>>
  BY <1>3 DEF Inbox!RetryStep, Inbox!Scan, Inbox!Take, Inbox!CountAttempt, Inbox!GiveUp,
              Inbox!SendDlq, Inbox!BackOff, Inbox!HandlerStep,
              Inbox!HandlerRead, Inbox!HandlerCredit, Inbox!MarkProcessed
<1>4. ASSUME NEW t \in Inbox!Threads,
             Consume(Inbox!CallThrows(t)) \/ Consume(Inbox!AnswerLost(t))
      PROVE  UNCHANGED <<confirmed, topic, publishing>>
  BY <1>4 DEF Inbox!CallThrows, Inbox!AnswerLost
<1>5. ASSUME NEW e \in Events, Consume(Inbox!Elapse(e))
      PROVE  UNCHANGED <<confirmed, topic, publishing>>
  BY <1>5 DEF Inbox!Elapse
<1>6. ASSUME Consume(Inbox!Revoke) \/ Consume(Inbox!Replay)
      PROVE  UNCHANGED <<confirmed, topic, publishing>>
  BY <1>6 DEF Inbox!Revoke, Inbox!Replay, Inbox!ReplayStart, Inbox!ReplayRow
<1> HIDE DEF Consume
<1> QED
  BY <1>1, <1>2, <1>3, <1>4, <1>5, <1>6 DEF Consuming

\* To the publishing half, confirming records an event, and the other half is
\* not there.
LEMMA OutboxStep == [Next]_vars => [Outbox!Next]_(Outbox!vars)
<1> SUFFICES ASSUME [Next]_vars PROVE [Outbox!Next]_(Outbox!vars)
  OBVIOUS
<1>0. UNCHANGED <<topic, publishing>> => UNCHANGED Outbox!vars
  BY DEF publishing, Outbox!vars, Copies
<1>1. ASSUME NEW e \in Events, Confirm(e) PROVE Outbox!Next
  BY <1>1 DEF Confirm, Outbox!Next
<1>2. ASSUME Publishing PROVE Outbox!Next
  BY <1>2 DEF Publishing, PublisherStep, Publish, Outbox!Next
<1>3. ASSUME Consuming PROVE UNCHANGED <<topic, publishing>>
  BY <1>3, ConsumingReads
<1>4. ASSUME NEW w \in Workers, Crash(w) PROVE [Outbox!Next]_(Outbox!vars)
  BY <1>0, <1>4 DEF Crash, Inbox!Crash, Outbox!Next, Outbox!Fault
<1>5. CASE UNCHANGED vars
  BY <1>0, <1>5 DEF vars
<1> QED
  BY <1>0, <1>1, <1>2, <1>3, <1>4, <1>5 DEF Next

\* The events and orders a message or a row can speak of.
TopicOK == topic \in Seq(Events) /\ confirmed \subseteq Orders

LEMMA InitTopic == Init => TopicOK
  BY DEF Init, Inbox!Init, TopicOK

LEMMA StepTopic == TopicOK /\ [Next]_vars => TopicOK'
<1> SUFFICES ASSUME TopicOK, [Next]_vars PROVE TopicOK'
  OBVIOUS
<1>1. ASSUME NEW e \in Events, Confirm(e) PROVE TopicOK'
  BY <1>1, PipelineConstants DEF Confirm, TopicOK
<1>2. ASSUME NEW step, Publish(step) PROVE TopicOK'
  BY <1>2 DEF Publish, TopicOK
<1>3. ASSUME Publishing PROVE TopicOK'
  BY <1>2, <1>3 DEF Publishing, PublisherStep, Publish, TopicOK
<1>4. ASSUME Consuming PROVE TopicOK'
  BY <1>4, ConsumingReads DEF TopicOK
<1>5. ASSUME NEW w \in Workers, Crash(w) PROVE TopicOK'
  BY <1>5 DEF Crash, Inbox!Crash, TopicOK
<1>6. CASE UNCHANGED vars
  BY <1>6 DEF vars, TopicOK
<1> QED
  BY <1>1, <1>3, <1>4, <1>5, <1>6 DEF Next

\* To the consuming half, the API confirms orders, and the publishing half is
\* somebody who appends messages.
LEMMA InboxStep == TopicOK /\ [Next]_vars => [Inbox!Next]_(Inbox!vars)
<1> SUFFICES ASSUME TopicOK, [Next]_vars PROVE [Inbox!Next]_(Inbox!vars)
  OBVIOUS
<1>0. UNCHANGED <<confirmed, topic, consuming>> => UNCHANGED Inbox!vars
  BY DEF consuming, Inbox!vars
<1>1. ASSUME NEW e \in Events, Confirm(e) PROVE [Inbox!Next]_(Inbox!vars)
  <2>1. OrderOf[e] \in Orders
    BY PipelineConstants
  <2>2. CASE OrderOf[e] \in confirmed
    BY <1>0, <1>1, <2>2 DEF Confirm
  <2>3. CASE OrderOf[e] \notin confirmed
    <3>1. Inbox!ConfirmOrder(OrderOf[e])
      BY <1>1, <2>3 DEF Confirm, Inbox!ConfirmOrder, Inbox!kafka, consuming
    <3> QED
      BY <2>1, <3>1 DEF Inbox!Next
  <2> QED
    BY <2>2, <2>3
<1>2. ASSUME Publishing PROVE [Inbox!Next]_(Inbox!vars)
  <2>1. /\ topic' = topic \/ \E e \in Events : topic' = Append(topic, e)
        /\ Len(topic') <= MaxTopic
        /\ UNCHANGED <<confirmed, consuming>>
    BY <1>2 DEF Publishing, PublisherStep, Publish
  <2>2. CASE topic' = topic
    BY <1>0, <2>1, <2>2
  <2>3. ASSUME NEW e \in Events, topic' = Append(topic, e) PROVE Inbox!Next
    <3>1. Len(topic) < MaxTopic
      BY <2>1, <2>3, PipelineConstants DEF TopicOK
    <3>2. Inbox!Produce(e)
      BY <2>1, <2>3, <3>1 DEF Inbox!Produce, consuming
    <3> QED
      BY <3>2 DEF Inbox!Next, Inbox!Messages
  <2> QED
    BY <2>1, <2>2, <2>3
<1>3. ASSUME Consuming PROVE Inbox!Next
  BY <1>3 DEF Consuming, Consume, Inbox!Next
<1>4. ASSUME NEW w \in Workers, Crash(w) PROVE Inbox!Next
  BY <1>4 DEF Crash, Inbox!Next
<1>5. CASE UNCHANGED vars
  BY <1>0, <1>5 DEF vars
<1> QED
  BY <1>1, <1>2, <1>3, <1>4, <1>5 DEF Next

\* The pipeline implements the publishing half: a message in the topic is what
\* it counts as published.
THEOREM ImplementsOutbox == Spec => Outbox!Spec
<1>1. Init => Outbox!Init
  BY DEF Init
<1> QED
  BY <1>1, OutboxStep, PTL DEF Spec, Outbox!Spec

\* The pipeline implements the consuming half: the orders it finds confirmed
\* are those the API confirmed, its messages those that were published.
THEOREM ImplementsInbox == Spec => Inbox!Spec
<1>1. Init => Inbox!Init
  BY DEF Init
<1> QED
  BY <1>1, InitTopic, StepTopic, InboxStep, PTL DEF Spec, Inbox!Spec

\* The API, the publisher and the consumer together keep the promise of the
\* abstract ledger: one credit for an order, and none before its confirmation.
THEOREM ImplementsLedger == Spec => LedgerSpec
<1>1. Inbox!Spec => Inbox!LedgerSpec
  BY PipelineConstants, Inbox!ImplementsLedger DEF Inbox!Calls, Inbox!IsFiniteSet, IsFiniteSet
<1> QED
  BY <1>1, ImplementsInbox, PTL DEF LedgerSpec

-----------------------------------------------------------------------------
(* What is in the topic is confirmed. *)

\* Events get a row, and so a message, in the transaction of a confirmation.
Recorded == \A e \in Outbox!Existing(outbox) : e \in Events => OrderOf[e] \in confirmed

ConfirmedInv == TopicOK /\ Recorded /\ PublishedIsConfirmed

LEMMA InitConfirmed == Init => ConfirmedInv
  BY InitTopic DEF Init, Inbox!Init, Outbox!Init, Outbox!NoRow, Outbox!Existing,
                   ConfirmedInv, Recorded, PublishedIsConfirmed

\* One more message is one more copy of it.
LEMMA OneMoreCopy ==
    ASSUME TopicOK, NEW f \in Events, topic' = Append(topic, f)
    PROVE  Copies(f)' # Copies(f)
<1> DEFINE Is == {i \in DOMAIN topic : topic[i] = f}
           n == Len(topic) + 1
<1>1. topic \in Seq(Events) /\ Len(topic) \in Nat /\ DOMAIN topic = 1..Len(topic)
  BY DEF TopicOK
<1>2. {i \in DOMAIN topic' : topic'[i] = f} = Is \cup {n}
  BY <1>1
<1>3. n \notin Is
  BY <1>1
<1>4. IsFiniteSet(Is)
  <2>1. IsFiniteSet(1..Len(topic)) /\ Is \subseteq 1..Len(topic)
    BY <1>1, FS_Interval
  <2> QED
    BY <2>1, FS_Subset
<1>5. Cardinality(Is) \in Nat /\ Cardinality(Is \cup {n}) = Cardinality(Is) + 1
  BY <1>3, <1>4, FS_AddElement, FS_CardinalityType
<1>6. Copies(f) = Cardinality(Is) /\ Copies(f)' = Cardinality(Is \cup {n})
  <2>1. Copies(f)' = Cardinality({i \in DOMAIN topic' : topic'[i] = f})
    BY DEF Copies
  <2> QED
    BY <1>2, <2>1 DEF Copies
<1> HIDE DEF Is, n
<1> QED
  BY <1>5, <1>6

\* The publishing half appends what has a row, and creates no row.
LEMMA PublishingKeepsConfirmed ==
    ASSUME Outbox!IInv, ConfirmedInv, Publishing
    PROVE  Recorded' /\ PublishedIsConfirmed'
<1>1. Outbox!Handling
  BY DEF Publishing, PublisherStep, Publish, Outbox!Handling, Outbox!Statuses
<1>2. UNCHANGED confirmed /\ (topic' = topic \/ \E f \in Events : topic' = Append(topic, f))
  BY DEF Publishing, PublisherStep, Publish
<1>3. ASSUME NEW e \in Events, e \notin Outbox!Existing(outbox)
      PROVE  e \notin Outbox!Existing(outbox)' /\ Copies(e)' = Copies(e)
  BY <1>1, <1>3, PipelineConstants, Outbox!OnlyRecordCreates
     DEF Outbox!IsFiniteSet, IsFiniteSet
<1>4. Recorded'
  BY <1>2, <1>3 DEF ConfirmedInv, Recorded
<1>5. ASSUME NEW f \in Events, topic' = Append(topic, f) PROVE OrderOf[f] \in confirmed
  BY <1>3, <1>5, OneMoreCopy DEF ConfirmedInv, Recorded
<1>6. PublishedIsConfirmed'
  BY <1>2, <1>5 DEF ConfirmedInv, TopicOK, PublishedIsConfirmed
<1> QED
  BY <1>4, <1>6

LEMMA StepConfirmed == Outbox!IInv /\ ConfirmedInv /\ [Next]_vars => ConfirmedInv'
<1> SUFFICES ASSUME Outbox!IInv, ConfirmedInv, [Next]_vars
             PROVE  Recorded' /\ PublishedIsConfirmed'
  BY StepTopic DEF ConfirmedInv
<1>1. ASSUME NEW e \in Events, Confirm(e) PROVE Recorded' /\ PublishedIsConfirmed'
  <2>1. UNCHANGED topic /\ confirmed' = confirmed \cup {OrderOf[e]}
    BY <1>1 DEF Confirm
  <2>2. Outbox!Existing(outbox)' \subseteq Outbox!Existing(outbox) \cup {e}
    BY <1>1 DEF Confirm, Outbox!Record, Outbox!Existing
  <2>3. QED
    BY <2>1, <2>2 DEF ConfirmedInv, Recorded, PublishedIsConfirmed
<1>2. ASSUME UNCHANGED <<confirmed, topic, outbox>> PROVE Recorded' /\ PublishedIsConfirmed'
  BY <1>2 DEF ConfirmedInv, Recorded, PublishedIsConfirmed, Outbox!Existing
<1>3. CASE Publishing
  BY <1>3, PublishingKeepsConfirmed
<1>4. CASE Consuming
  BY <1>2, <1>4, ConsumingReads DEF publishing
<1>5. ASSUME NEW w \in Workers, Crash(w) PROVE Recorded' /\ PublishedIsConfirmed'
  BY <1>2, <1>5 DEF Crash, Inbox!Crash, Outbox!Crash, publishing
<1>6. CASE UNCHANGED vars
  BY <1>2, <1>6 DEF vars, publishing
<1> QED
  BY <1>1, <1>3, <1>4, <1>5, <1>6 DEF Next

\* A worker that reads an event from the topic finds its order CONFIRMED, for
\* the row it was sent from was committed with the status.
THEOREM TopicIsConfirmed == Spec => []PublishedIsConfirmed
<1>1. Outbox!Spec => []Outbox!IInv
  BY PipelineConstants, Outbox!Invariance DEF Outbox!IsFiniteSet, IsFiniteSet
<1>2. ConfirmedInv => PublishedIsConfirmed
  BY DEF ConfirmedInv
<1> QED
  BY <1>1, <1>2, ImplementsOutbox, InitConfirmed, StepConfirmed, PTL DEF Spec

\* A lone worker charges a row for nothing but faults, whatever the API and the
\* consuming half do meanwhile.
THEOREM ClaimsAreNotWasted == Spec => []AttemptsAreFaults
<1>1. Outbox!Spec => []Outbox!AttemptsAreFaults
  BY PipelineConstants, Outbox!ClaimsAreNotWasted DEF Outbox!IsFiniteSet, IsFiniteSet
<1> QED
  BY <1>1, ImplementsOutbox, PTL DEF AttemptsAreFaults

-----------------------------------------------------------------------------
(* Nothing is lost. *)

\* What carries a confirmation further: its event has a row in the outbox.
HasEvent == \A o \in confirmed : \E e \in Outbox!Existing(outbox) : e \in Events /\ OrderOf[e] = o

LEMMA StepHasEvent == Outbox!IInv /\ Outbox!IInv' /\ HasEvent /\ [Next]_vars => HasEvent'
<1> SUFFICES ASSUME Outbox!IInv, Outbox!IInv', HasEvent, [Next]_vars PROVE HasEvent'
  OBVIOUS
<1>1. Outbox!Existing(outbox) \subseteq Outbox!Existing(outbox)'
  BY PipelineConstants, OutboxStep, Outbox!RowsStay DEF Outbox!IsFiniteSet, IsFiniteSet
<1>2. ASSUME UNCHANGED confirmed PROVE HasEvent'
  BY <1>1, <1>2 DEF HasEvent
<1>3. ASSUME NEW e \in Events, Confirm(e) PROVE HasEvent'
  <2>1. e \in Outbox!Existing(outbox)'
    BY <1>3 DEF Confirm, Outbox!Record, Outbox!Existing, Outbox!NewRow, Outbox!IInv,
                Outbox!TableOK, Outbox!Table
  <2>2. confirmed' = confirmed \cup {OrderOf[e]}
    BY <1>3 DEF Confirm
  <2> QED
    BY <1>1, <2>1, <2>2 DEF HasEvent
<1>4. CASE Publishing
  BY <1>2, <1>4 DEF Publishing, PublisherStep, Publish
<1>5. CASE Consuming
  BY <1>2, <1>5, ConsumingReads
<1>6. ASSUME NEW w \in Workers, Crash(w) PROVE HasEvent'
  BY <1>2, <1>6 DEF Crash, Inbox!Crash
<1>7. CASE UNCHANGED vars
  BY <1>2, <1>7 DEF vars
<1> QED
  BY <1>3, <1>4, <1>5, <1>6, <1>7 DEF Next

\* An event on its way is where the halves left it: the row is SENT only if
\* the message is there, the offset is past the message only if the inbox has
\* it, and the inbox is done with it only if the order is credited.
LEMMA SomethingIsLeft ==
    ASSUME TopicOK, HasEvent, Outbox!TypeOK, Outbox!SentIsPublished,
           Inbox!TypeOK, Inbox!ConsumedHasRow, Inbox!ProcessedIsCredited
    PROVE  NothingIsLost
<1> SUFFICES ASSUME NEW o \in confirmed, ~Credited(o)
             PROVE  \E e \in Events :
                       /\ OrderOf[e] = o
                       /\ \/ outbox[e].status \in {"PENDING", "FAILED"}
                          \/ \E i \in committed + 1 .. Len(topic) : topic[i] = e
                          \/ inbox[e].status \in {"PENDING", "FAILED"}
  BY DEF NothingIsLost
<1>1. PICK e \in Events : e \in Outbox!Existing(outbox) /\ OrderOf[e] = o
  BY DEF HasEvent
<1>2. outbox[e].status \in {"PENDING", "SENT", "FAILED"}
  BY <1>1 DEF Outbox!TypeOK, Outbox!RowType, Outbox!Existing
<1>3. ASSUME outbox[e].status = "SENT", ~(\E i \in committed + 1 .. Len(topic) : topic[i] = e)
      PROVE  inbox[e].status \in {"PENDING", "FAILED"}
  <2>1. Copies(e) > 0
    BY <1>3 DEF Outbox!SentIsPublished
  <2>2. PICK i \in DOMAIN topic : topic[i] = e
    <3>1. {i \in DOMAIN topic : topic[i] = e} # {}
      BY <2>1, FS_EmptySet DEF Copies
    <3> QED
      BY <3>1
  <2>3. i \in 1..committed
    BY <1>3, <2>2 DEF TopicOK, Inbox!TypeOK
  <2>4. inbox[e].status \in {"PENDING", "PROCESSED", "FAILED"}
    BY <2>2, <2>3, PipelineConstants
       DEF Inbox!ConsumedHasRow, Inbox!Existing, Inbox!TypeOK, Inbox!RowType
  <2>5. inbox[e].status # "PROCESSED"
    BY <1>1 DEF Inbox!ProcessedIsCredited, Inbox!Credited, Credited
  <2> QED
    BY <2>4, <2>5
<1> QED
  BY <1>1, <1>2, <1>3

\* If the upsert of the consumer never throws, a confirmed order without its
\* credit is in the outbox, in the topic or in the inbox, whatever else fails.
THEOREM ConfirmationIsDurable ==
    ASSUME "upsert" \notin ThrowAt
    PROVE  Spec => []NothingIsLost
<1>1. Outbox!Spec => []Outbox!IInv /\ []Outbox!SentIsPublished
  <2>1. Outbox!Spec => []Outbox!IInv
    BY PipelineConstants, Outbox!Invariance DEF Outbox!IsFiniteSet, IsFiniteSet
  <2>2. Outbox!Spec => []Outbox!SentIsPublished
    BY PipelineConstants, Outbox!SentMeansPublished DEF Outbox!IsFiniteSet, IsFiniteSet
  <2> QED
    BY <2>1, <2>2, PTL
<1>2. Outbox!Spec => []Outbox!TypeOK
  BY PipelineConstants, Outbox!TypeCorrect DEF Outbox!IsFiniteSet, IsFiniteSet
<1>3. Inbox!Spec => []Inbox!TypeOK
  BY PipelineConstants, Inbox!TypeCorrect DEF Inbox!Calls, Inbox!IsFiniteSet, IsFiniteSet
<1>4. Inbox!Spec => []Inbox!ProcessedIsCredited
  BY PipelineConstants, Inbox!ProcessedMeansCredited DEF Inbox!Calls, Inbox!IsFiniteSet, IsFiniteSet
<1>5. Inbox!Spec => []Inbox!ConsumedHasRow
  BY PipelineConstants, Inbox!ConsumedIsDurable DEF Inbox!Calls, Inbox!IsFiniteSet, IsFiniteSet
<1>6. Init => HasEvent
  BY DEF Init, HasEvent
<1> QED
  BY <1>1, <1>2, <1>3, <1>4, <1>5, <1>6, ImplementsOutbox, ImplementsInbox, InitTopic,
     StepTopic, StepHasEvent, SomethingIsLeft, PTL DEF Spec
=============================================================================

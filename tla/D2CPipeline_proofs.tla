------------------------- MODULE D2CPipeline_proofs -------------------------
(***************************************************************************)
(* Proofs about the whole D2C path, for any number of requests, pods,      *)
(* publishers, faults and crashes.  What ApprovalAPI_proofs and            *)
(* OutboxPublisher_proofs show of a component by itself holds of it in the *)
(* path too, because its neighbours only take steps its own specification  *)
(* allows.  The invariants of the components then meet in the two          *)
(* variables they share.                                                   *)
(***************************************************************************)
EXTENDS D2CPipeline, SequenceTheorems, TLAPS

Approvals == INSTANCE ApprovalAPI_proofs
Sending == INSTANCE OutboxPublisher_proofs WITH Events <- Requests, Refused <- {}

\* The path's assumptions are those of the components.
LEMMA ComponentAssumptions ==
    /\ Requests \subseteq Nat \ {0} /\ DrillPods \subseteq Pods
    /\ Requests \subseteq Nat /\ BatchSize \in Nat \ {0} /\ MaxFaults \in Nat
  BY PathAssumption

(***************************************************************************)
(* The path takes the steps of its components.                             *)
(***************************************************************************)
\* The API of the path is the API the proofs are about.
LEMMA ApiIsApprovals ==
    /\ API!Init => Approvals!Init
    /\ API!Next => Approvals!Next
  <1>1. API!Init => Approvals!Init
    BY DEF API!Init, Approvals!Init, API!NoRequest, Approvals!NoRequest, API!NoWrites,
           Approvals!NoWrites, API!NoApplication, Approvals!NoApplication
  <1>2. ASSUME NEW r \in Requests, API!Commit(r) \/ API!CommitUnacknowledged(r)
        PROVE  Approvals!Commit(r) \/ Approvals!CommitUnacknowledged(r)
    BY <1>2 DEF API!Commit, API!CommitUnacknowledged, API!ApplyWrites, API!Reply, API!NoWrites,
                API!NoApplication, Approvals!Commit, Approvals!CommitUnacknowledged,
                Approvals!ApplyWrites, Approvals!Reply, Approvals!NoWrites, Approvals!NoApplication
  <1>3. ASSUME NEW r \in Requests, API!InsertApplication(r)
        PROVE  Approvals!InsertApplication(r)
    BY <1>3 DEF API!InsertApplication, API!Conflicting, API!Collide, API!MustWait, API!RowOf,
                API!Goto, Approvals!InsertApplication, Approvals!Conflicting, Approvals!Collide,
                Approvals!MustWait, Approvals!RowOf, Approvals!Goto
  <1>4. ASSUME NEW r \in Requests, API!SelectByKey(r) \/ API!SelectByPair(r)
        PROVE  Approvals!SelectByKey(r) \/ Approvals!SelectByPair(r)
    BY <1>4 DEF API!SelectByKey, API!SelectByPair, API!Reply, API!Goto, API!NoApplication,
                Approvals!SelectByKey, Approvals!SelectByPair, Approvals!Reply, Approvals!Goto,
                Approvals!NoApplication
  <1>5. ASSUME NEW r \in Requests, API!BuildEvent(r) \/ API!InsertOutbox(r) \/ API!Fail(r)
        PROVE  Approvals!BuildEvent(r) \/ Approvals!InsertOutbox(r) \/ Approvals!Fail(r)
    BY <1>5 DEF API!BuildEvent, API!InsertOutbox, API!Fail, API!Active, API!RollBack, API!Reply,
                API!Goto, API!NoWrites, API!NoApplication, Approvals!BuildEvent,
                Approvals!InsertOutbox, Approvals!Fail, Approvals!Active, Approvals!RollBack,
                Approvals!Reply, Approvals!Goto, Approvals!NoWrites, Approvals!NoApplication
  <1>6. ASSUME NEW r \in Requests, NEW pod \in Pods, NEW key \in Keys, NEW pair \in Pairs,
               API!Begin(r, pod, key, pair)
        PROVE  Approvals!Begin(r, pod, key, pair)
    BY <1>6 DEF API!Begin, API!Goto, Approvals!Begin, Approvals!Goto
  <1>7. API!Next => Approvals!Next
    BY <1>2, <1>3, <1>4, <1>5, <1>6 DEF API!Next, API!Step, Approvals!Next, Approvals!Step
  <1> QED
    BY <1>1, <1>7

\* The publisher, too; it reads the outbox and appends to the topic.
LEMMA PublisherIsSending ==
    /\ Publisher!Init => Sending!Init
    /\ \A p \in Publishers : Publisher!PublisherNext(p) => Sending!PublisherNext(p)
  <1>1. Publisher!Init => Sending!Init
    BY DEF Publisher!Init, Sending!Init, Publisher!NonePending, Sending!NonePending
  <1> SUFFICES ASSUME NEW p \in Publishers, Publisher!PublisherNext(p)
               PROVE  Sending!PublisherNext(p)
    BY <1>1
  <1> USE DEF Publisher!tableVars, Publisher!localVars, Sending!tableVars, Sending!localVars
  <1>2. CASE Publisher!FetchBatch(p)
    <2>1. Publisher!LockedByOthers(p) = Sending!LockedByOthers(p)
      BY DEF Publisher!LockedByOthers, Sending!LockedByOthers
    <2>2. \A S, n : Publisher!Oldest(S, n) = Sending!Oldest(S, n)
      <3>1. \A S : Publisher!Cardinality(S) = Sending!Cardinality(S)
        BY DEF Publisher!Cardinality, Sending!Cardinality
      <3> QED
        BY <3>1 DEF Publisher!Oldest, Sending!Oldest
    <2>3. ASSUME NEW rows, Publisher!TakeBatch(p, rows)
          PROVE  Sending!TakeBatch(p, rows)
      BY <2>3 DEF Publisher!TakeBatch, Sending!TakeBatch
    <2> QED
      BY <1>2, <2>1, <2>2, <2>3 DEF Publisher!FetchBatch, Sending!FetchBatch, Sending!PublisherNext
  <1>3. CASE \/ Publisher!SendAcknowledged(p) \/ Publisher!SendRetriedInternally(p)
             \/ Publisher!SendFails(p) \/ Publisher!SendTimesOut(p)
    BY <1>3 DEF Publisher!SendAcknowledged, Publisher!SendRetriedInternally, Publisher!SendFails,
                Publisher!SendTimesOut, Publisher!Current, Publisher!Fault,
                Sending!SendAcknowledged, Sending!SendRetriedInternally, Sending!SendFails,
                Sending!SendTimesOut, Sending!Current, Sending!Fault, Sending!PublisherNext
  <1>4. CASE Publisher!DeliverLate(p) \/ Publisher!ExpireLate(p)
    BY <1>4 DEF Publisher!DeliverLate, Publisher!ExpireLate, Sending!DeliverLate,
                Sending!ExpireLate, Sending!PublisherNext
  <1>5. CASE Publisher!MarkPublished(p) \/ Publisher!MarkFailed(p)
    BY <1>5 DEF Publisher!MarkPublished, Publisher!MarkFailed, Publisher!Current,
                Sending!MarkPublished, Sending!MarkFailed, Sending!Current, Sending!PublisherNext
  <1>6. CASE \/ Publisher!CommitBatch(p) \/ Publisher!LoseSession(p)
             \/ Publisher!Abandon(p) \/ Publisher!Crash(p)
    BY <1>6 DEF Publisher!CommitBatch, Publisher!LoseSession, Publisher!Abandon, Publisher!Crash,
                Publisher!ClearBatch, Publisher!Fault, Publisher!NonePending, Sending!CommitBatch,
                Sending!LoseSession, Sending!Abandon, Sending!Crash, Sending!ClearBatch,
                Sending!Fault, Sending!NonePending, Sending!PublisherNext
  <1> QED
    BY <1>2, <1>3, <1>4, <1>5, <1>6 DEF Publisher!PublisherNext

\* What a publisher leaves alone, and how it changes the topic.
LEMMA SendingOnlyAppends ==
    ASSUME NEW p \in Publishers, Sending!PublisherNext(p)
    PROVE  /\ outbox' = outbox
           /\ \/ topic' = topic
              \/ \E e \in Requests \cup todo[p] :
                     topic' = Append(topic, e) \/ topic' = topic \o <<e, e>>
  BY DEF Sending!PublisherNext, Sending!FetchBatch, Sending!TakeBatch, Sending!SendAcknowledged,
         Sending!SendRetriedInternally, Sending!SendFails, Sending!SendTimesOut,
         Sending!DeliverLate, Sending!ExpireLate, Sending!MarkPublished, Sending!MarkFailed,
         Sending!CommitBatch, Sending!LoseSession, Sending!Abandon, Sending!Crash,
         Sending!tableVars, Sending!localVars

LEMMA PathStepsAreApiSteps ==
    ASSUME [Next]_vars
    PROVE  [Approvals!Next]_(Approvals!apiVars)
  <1> USE DEF Approvals!apiVars
  <1>1. CASE UNCHANGED vars
    BY <1>1 DEF vars, apiOnly
  <1>2. CASE ApiStep
    BY <1>2, ApiIsApprovals DEF ApiStep
  <1>3. CASE PublisherStep
    <2>1. outbox' = outbox
      BY <1>3, PublisherIsSending, SendingOnlyAppends DEF PublisherStep
    <2> QED
      BY <1>3, <2>1 DEF PublisherStep, apiOnly
  <1>4. CASE ConsumerStep
    BY <1>4 DEF ConsumerStep, apiOnly
  <1> QED
    BY <1>1, <1>2, <1>3, <1>4 DEF Next

LEMMA PathIsApi == Spec => Approvals!Spec
  <1>1. Init => Approvals!Init
    BY ApiIsApprovals DEF Init
  <1> QED
    BY <1>1, PathStepsAreApiSteps, PTL DEF Spec, Approvals!Spec

LEMMA ApiInvariant == Spec => [](Approvals!IInv /\ Approvals!RowsNameTheirRequest)
  BY PathIsApi, Approvals!Invariance, Approvals!RowsAreAsRequested, ComponentAssumptions, PTL

(***************************************************************************)
(* The inductive invariant of what reads the topic, and the two places     *)
(* where components meet: a commit of the API is a row that appears in the *)
(* publisher's table, a send of the publisher a record for the consumer.   *)
(***************************************************************************)
\* The consumer reads and commits records that are in the topic.
ReadsWhatIsThere ==
    /\ committed \in Nat /\ committed <= Len(topic)
    /\ cursor \in Nat /\ limit \in Nat /\ limit <= Len(topic)
    /\ stage \in {"handle", "commit"} => cursor < limit

StoredIsDelivered == store \subseteq Sending!Delivered

PathInv ==
    /\ Approvals!IInv /\ Approvals!RowsNameTheirRequest
    /\ Sending!IInv /\ Sending!OnlyRowsAreSent
    /\ ReadsWhatIsThere /\ StoredIsDelivered

LEMMA PathStepsAreSendingSteps ==
    ASSUME Approvals!IInv, (Approvals!IInv)', [Next]_vars
    PROVE  [Sending!Next]_(Sending!publisherVars)
  <1> USE DEF Sending!publisherVars, Sending!tableVars, Sending!localVars, publisherOnly
  <1>1. CASE UNCHANGED vars
    BY <1>1 DEF vars
  <1>2. CASE ApiStep
    <2>1. UNCHANGED outbox \/ \E r \in Requests : r \notin outbox /\ outbox' = outbox \cup {r}
      <3>1. [Approvals!Next]_(Approvals!apiVars) /\ (Approvals!TypeOK)'
        BY PathStepsAreApiSteps DEF Approvals!IInv
      <3> QED
        BY <3>1, Approvals!CommitsAreWhole, ComponentAssumptions
    <2>2. UNCHANGED <<publisherOnly, topic>>
      BY <1>2 DEF ApiStep
    <2>3. ASSUME NEW r \in Requests, r \notin outbox, outbox' = outbox \cup {r}
          PROVE  Sending!Next
      BY <2>2, <2>3 DEF Sending!Next, Sending!Persist
    <2> QED
      BY <2>1, <2>2, <2>3
  <1>3. CASE PublisherStep
    BY <1>3, PublisherIsSending DEF PublisherStep, Sending!Next
  <1>4. CASE ConsumerStep
    <2>1. topic' = topic
      BY <1>4 DEF ConsumerStep, Consumer!ConsumerNext, Consumer!Start, Consumer!Proceed,
                  Consumer!Poll, Consumer!Handle, Consumer!StoreEvent, Consumer!Quarantine,
                  Consumer!PollRaises, Consumer!MeetPoison, Consumer!CommitOffset, Consumer!Fault,
                  Consumer!QuarantineRetriedInternally, Consumer!QuarantineFails,
                  Consumer!CommitFails, Consumer!Crash
    <2> QED
      BY <1>4, <2>1 DEF ConsumerStep
  <1> QED
    BY <1>1, <1>2, <1>3, <1>4 DEF Next

LEMMA PathIsSending == Spec => Sending!Spec
  <1>1. Init => Sending!Init
    BY PublisherIsSending DEF Init
  <1>2. Approvals!IInv /\ (Approvals!IInv)' /\ [Next]_vars => [Sending!Next]_(Sending!publisherVars)
    BY PathStepsAreSendingSteps
  <1> QED
    BY <1>1, <1>2, ApiInvariant, PTL DEF Spec, Sending!Spec

LEMMA SendingInvariant == Spec => [](Sending!IInv /\ Sending!OnlyRowsAreSent)
  BY PathIsSending, Sending!PublisherInvariance, Sending!MessagesAreOfRows,
     ComponentAssumptions, PTL

\* The topic only grows, and what was delivered stays delivered.
LEMMA TopicGrows ==
    ASSUME Sending!IInv, [Sending!Next]_(Sending!publisherVars), [Next]_vars
    PROVE  /\ Len(topic) \in Nat /\ Len(topic') \in Nat /\ Len(topic) <= Len(topic')
           /\ Sending!Delivered \subseteq (Sending!Delivered)'
  <1>1. Sending!TypeOK /\ topic \in Seq(Requests) /\ Len(topic) \in Nat
    BY DEF Sending!IInv, Sending!TypeOK
  <1>2. Sending!Delivered \subseteq (Sending!Delivered)'
    BY <1>1, Sending!DeliveredGrows, ComponentAssumptions
  <1>3. CASE topic' = topic
    BY <1>1, <1>2, <1>3
  <1>4. CASE \E p \in Publishers : Sending!PublisherNext(p)
    <2>1. PICK p \in Publishers : Sending!PublisherNext(p)
      BY <1>4
    <2>2. todo[p] \subseteq Requests
      BY <1>1, <2>1 DEF Sending!TypeOK
    <2>3. ASSUME NEW e \in Requests, topic' = Append(topic, e)
          PROVE  Len(topic') = Len(topic) + 1
      BY <1>1, <2>3
    <2>4. ASSUME NEW e \in Requests, topic' = topic \o <<e, e>>
          PROVE  Len(topic') = Len(topic) + 2
      <3>1. <<e, e>> \in Seq(Requests) /\ Len(<<e, e>>) = 2
        OBVIOUS
      <3>2. Len(topic \o <<e, e>>) = Len(topic) + Len(<<e, e>>)
        BY <1>1, <3>1, ConcatProperties
      <3> QED
        BY <2>4, <3>1, <3>2
    <2>5. \/ topic' = topic
          \/ \E e \in Requests : topic' = Append(topic, e) \/ topic' = topic \o <<e, e>>
      BY <2>1, <2>2, SendingOnlyAppends
    <2>6. topic' = topic \/ Len(topic') = Len(topic) + 1 \/ Len(topic') = Len(topic) + 2
      BY <2>3, <2>4, <2>5
    <2> QED
      BY <1>1, <1>2, <1>3, <2>6
  <1>5. topic' = topic \/ \E p \in Publishers : Sending!PublisherNext(p)
    BY DEF Sending!Next, Sending!Persist, Sending!publisherVars
  <1> QED
    BY <1>3, <1>4, <1>5

\* A step of the consumer: it keeps to the topic, and stores at most the event
\* of the record it is at.  (No record is malformed or poison here.)
LEMMA ConsumerReads ==
    ASSUME ReadsWhatIsThere, Consumer!ConsumerNext, Len(topic) \in Nat
    PROVE  /\ topic' = topic
           /\ committed' \in Nat /\ committed' <= Len(topic)
           /\ cursor' \in Nat /\ limit' \in Nat /\ limit' <= Len(topic)
           /\ stage' \in {"handle", "commit"} => cursor' < limit'
           /\ \/ store' = store
              \/ /\ cursor + 1 \in 1..Len(topic) /\ topic[cursor + 1] \in Requests
                 /\ store' = store \cup {topic[cursor + 1]}
  <1> USE DEF ReadsWhatIsThere
  <1>1. CASE Consumer!Start
    BY <1>1 DEF Consumer!Start
  <1>2. CASE Consumer!Poll
    <2>1. PICK n \in 1..MaxPoll : cursor + n <= Len(topic) /\ limit' = cursor + n
      BY <1>2 DEF Consumer!Poll
    <2> QED
      BY <1>2, <2>1, PathAssumption DEF Consumer!Poll
  <1>3. CASE Consumer!StoreEvent
    <2>1. /\ stage = "handle" /\ Consumer!Record \in Requests
          /\ store' = store \/ store' = store \cup {Consumer!Record}
          /\ UNCHANGED <<topic, committed, cursor, limit>>
      BY <1>3 DEF Consumer!StoreEvent
    <2>2. Consumer!Record = topic[cursor + 1] /\ cursor + 1 \in 1..Len(topic) /\ cursor < limit
      BY <2>1 DEF Consumer!Record
    <2> QED
      BY <2>1, <2>2
  <1>4. CASE Consumer!CommitOffset
    <2>1. /\ stage = "commit" /\ committed' = cursor + 1 /\ cursor' = cursor + 1
          /\ stage' = IF cursor' = limit THEN "poll" ELSE "handle"
          /\ UNCHANGED <<topic, limit, store>>
      BY <1>4 DEF Consumer!CommitOffset
    <2> QED
      BY <2>1
  <1>5. CASE Consumer!CommitFails
    BY <1>5 DEF Consumer!CommitFails, Consumer!Exit
  <1>6. CASE Consumer!Crash
    BY <1>6 DEF Consumer!Crash, Consumer!Exit
  <1> QED
    BY <1>1, <1>2, <1>3, <1>4, <1>5, <1>6
    DEF Consumer!ConsumerNext, Consumer!Proceed, Consumer!Handle, Consumer!Fault,
        Consumer!Quarantine, Consumer!PollRaises, Consumer!MeetPoison,
        Consumer!QuarantineRetriedInternally,
        Consumer!QuarantineFails

LEMMA ReadingStep ==
    ASSUME PathInv, [Sending!Next]_(Sending!publisherVars), [Next]_vars
    PROVE  ReadsWhatIsThere' /\ StoredIsDelivered'
  <1>1. /\ Len(topic) \in Nat /\ Len(topic') \in Nat /\ Len(topic) <= Len(topic')
        /\ Sending!Delivered \subseteq (Sending!Delivered)'
    BY TopicGrows DEF PathInv
  <1>2. ReadsWhatIsThere /\ StoredIsDelivered
    BY DEF PathInv
  <1>3. CASE UNCHANGED consumerOnly
    <2>1. UNCHANGED <<committed, cursor, limit, stage, store>>
      BY <1>3 DEF consumerOnly
    <2>2. ReadsWhatIsThere'
      BY <1>1, <1>2, <2>1 DEF ReadsWhatIsThere
    <2>3. StoredIsDelivered'
      BY <1>1, <1>2, <2>1 DEF StoredIsDelivered
    <2> QED
      BY <2>2, <2>3
  <1>4. CASE Consumer!ConsumerNext
    <2>1. ReadsWhatIsThere'
      BY <1>1, <1>2, <1>4, ConsumerReads DEF ReadsWhatIsThere
    <2>2. StoredIsDelivered'
      <3>1. \A i \in 1..Len(topic) : topic[i] \in Sending!Delivered
        BY DEF PathInv, Sending!IInv, Sending!TypeOK, Sending!Delivered
      <3> QED
        BY <1>1, <1>2, <1>4, <3>1, ConsumerReads DEF StoredIsDelivered
    <2> QED
      BY <2>1, <2>2
  <1> QED
    BY <1>3, <1>4 DEF Next, ApiStep, PublisherStep, ConsumerStep, vars

LEMMA PathInvariant == Spec => []PathInv
  <1>1. Init => ReadsWhatIsThere /\ StoredIsDelivered
    BY DEF Init, Publisher!Init, Consumer!Init, ReadsWhatIsThere, StoredIsDelivered
  <1>2. /\ Approvals!IInv /\ (Approvals!IInv)' /\ Approvals!RowsNameTheirRequest
        /\ Sending!IInv /\ Sending!OnlyRowsAreSent
        /\ ReadsWhatIsThere /\ StoredIsDelivered /\ [Next]_vars
        => ReadsWhatIsThere' /\ StoredIsDelivered'
    BY PathStepsAreSendingSteps, ReadingStep DEF PathInv
  <1>3. Spec => [](ReadsWhatIsThere /\ StoredIsDelivered)
    BY <1>1, <1>2, ApiInvariant, SendingInvariant, PTL DEF Spec
  <1> QED
    BY <1>3, ApiInvariant, SendingInvariant, PTL DEF PathInv

(***************************************************************************)
(* Theorems                                                                *)
(***************************************************************************)
\* The committed events are the ids of the approved applications.
LEMMA OutboxIsApplications ==
    ASSUME PathInv
    PROVE  outbox = {a.id : a \in applications}
  BY DEF PathInv, Approvals!IInv, Approvals!OutboxParity

\* Nothing is announced or stored that was not approved, whichever copies are
\* sent late, twice, or by a process that has lost its transaction.
THEOREM OnlyApprovedEverTravels == Spec => []OnlyApprovedTravels
  <1>1. PathInv => OnlyApprovedTravels
    <2> SUFFICES ASSUME PathInv
                 PROVE  OnlyApprovedTravels
      OBVIOUS
    <2>1. Sending!Delivered \subseteq outbox /\ store \subseteq Sending!Delivered
      BY DEF PathInv, Sending!OnlyRowsAreSent, StoredIsDelivered
    <2>2. \A i \in DOMAIN topic : topic[i] \in Sending!Delivered
      BY DEF Sending!Delivered
    <2> QED
      BY <2>1, <2>2, OutboxIsApplications DEF OnlyApprovedTravels
  <1> QED
    BY <1>1, PathInvariant, PTL

\* What a client was told is approved is in the topic, or in a row that will be sent.
THEOREM AnsweredIsAlwaysOnItsWay == Spec => []AnsweredIsOnItsWay
  <1>1. PathInv => AnsweredIsOnItsWay
    <2> SUFFICES ASSUME PathInv, NEW r \in Requests, answer[r].code \in {"approved", "duplicate"}
                 PROVE  answer[r].id \in (outbox \ published) \cup Publisher!Delivered
      BY DEF AnsweredIsOnItsWay
    <2>1. answer[r].id \in outbox
      BY DEF PathInv, Approvals!IInv, Approvals!AnswersHold, Approvals!AnswerHolds
    <2>2. published \subseteq Publisher!Delivered
      BY DEF PathInv, Sending!IInv, Sending!PublishedIsDelivered, Sending!Delivered,
             Publisher!Delivered
    <2> QED
      BY <2>1, <2>2
  <1> QED
    BY <1>1, PathInvariant, PTL

\* A step of the API is the approval of one application, or none.
LEMMA ApprovalStep ==
    ASSUME PathInv, PathInv', [Next]_vars, ApiStep
    PROVE  [Delivery!Next]_(Delivery!deliveryVars)
  <1> USE DEF Delivery!deliveryVars
  <1>1. UNCHANGED store
    BY DEF ApiStep, consumerOnly
  <1>2. CASE UNCHANGED applications
    BY <1>1, <1>2
  <1>3. ASSUME NEW r \in Requests, Approvals!RowOf(r) \in Approvals!Row, r \notin outbox,
               applications' = applications \cup {Approvals!RowOf(r)},
               Approvals!RowOf(r) \notin applications,
               \A a \in applications : ~Approvals!Collide(a, Approvals!RowOf(r))
        PROVE  Delivery!Next
    <2> DEFINE row == Approvals!RowOf(r)
    <2>1. row \in API!Row /\ row.id = r
      BY <1>3 DEF Approvals!Row, Approvals!RowOf, API!Row
    <2>2. \A a \in applications : ~API!Collide(row, a)
      BY <1>3 DEF API!Collide, Approvals!Collide
    <2> HIDE DEF row
    <2>3. r \notin store
      BY <1>3 DEF PathInv, Sending!OnlyRowsAreSent, StoredIsDelivered
    <2>4. {a \in applications' : a.id \in store'} = {a \in applications : a.id \in store}
      BY <1>1, <1>3, <2>1, <2>3 DEF row
    <2>5. Delivery!Approve(row)
      BY <1>3, <2>2, <2>4 DEF Delivery!Approve, row
    <2> QED
      BY <2>1, <2>5 DEF Delivery!Next
  <1> QED
    BY <1>2, <1>3, PathStepsAreApiSteps, Approvals!CommitsAreWhole, ComponentAssumptions
    DEF PathInv, Approvals!IInv

\* A step of the consumer is the delivery of one application, or none: the ids of
\* the applications are distinct.
LEMMA DeliveryStep ==
    ASSUME PathInv, ConsumerStep
    PROVE  [Delivery!Next]_(Delivery!deliveryVars)
  <1> USE DEF Delivery!deliveryVars
  <1> DEFINE delivered(s) == {a \in applications : a.id \in s}
  <1>1. UNCHANGED applications
    BY DEF ConsumerStep, apiOnly
  <1>2. CASE UNCHANGED store
    BY <1>1, <1>2
  <1>3. ASSUME NEW i \in 1..Len(topic), store' = store \cup {topic[i]}, topic[i] \notin store
        PROVE  Delivery!Next
    <2>1. topic[i] \in outbox
      BY DEF PathInv, Sending!IInv, Sending!TypeOK, Sending!OnlyRowsAreSent, Sending!Delivered
    <2>2. PICK a \in applications : a.id = topic[i]
      BY <2>1, OutboxIsApplications
    <2>3. \A b \in applications : b.id = topic[i] => b = a
      BY <2>2 DEF PathInv, Approvals!RowsNameTheirRequest
    <2>4. delivered(store') = delivered(store) \cup {a} /\ a \notin delivered(store)
      BY <1>3, <2>2, <2>3
    <2>5. a \in API!Row
      BY DEF PathInv, Approvals!IInv, Approvals!TypeOK, Approvals!Row, API!Row
    <2>6. Delivery!Deliver(a)
      BY <1>1, <2>4 DEF Delivery!Deliver
    <2> QED
      BY <2>5, <2>6 DEF Delivery!Next
  <1>4. ReadsWhatIsThere /\ Consumer!ConsumerNext /\ Len(topic) \in Nat
    BY DEF PathInv, ConsumerStep, Sending!IInv, Sending!TypeOK
  <1> QED
    BY <1>2, <1>3, <1>4, ConsumerReads

\* The path keeps the promise of ApprovalDelivery: approvals are atomic and
\* exclusive, and each is delivered at most once.  (That each is delivered in the
\* end, the rest of ImplementsFairDelivery, needs fairness.)
THEOREM PathImplementsDelivery == Spec => ImplementsDelivery
  <1>1. Init => Delivery!Init
    BY DEF Init, API!Init, Delivery!Init
  <1>2. PathInv /\ PathInv' /\ [Next]_vars => [Delivery!Next]_(Delivery!deliveryVars)
    <2> SUFFICES ASSUME PathInv, PathInv', [Next]_vars
                 PROVE  [Delivery!Next]_(Delivery!deliveryVars)
      OBVIOUS
    <2>1. CASE UNCHANGED <<applications, store>>
      BY <2>1 DEF Delivery!deliveryVars
    <2>2. CASE ~UNCHANGED <<applications, store>>
      BY <2>2, ApprovalStep, DeliveryStep
      DEF Next, PublisherStep, vars, apiOnly, consumerOnly
    <2> QED
      BY <2>1, <2>2
  <1> QED
    BY <1>1, <1>2, PathInvariant, PTL DEF Spec, ImplementsDelivery, Delivery!Spec
=============================================================================

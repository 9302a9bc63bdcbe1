----------------------- MODULE OutboxPublisher_proofs -----------------------
(***************************************************************************)
(* Proofs about OutboxPublisher for any set of processes and rows, any     *)
(* batch size and any number of faults.                                    *)
(***************************************************************************)
EXTENDS OutboxPublisher, FiniteSetTheorems, TLAPS

(***************************************************************************)
(* The inductive invariant.  What is marked in an open transaction is      *)
(* already in the topic, and while the server keeps the transaction its    *)
(* rows are its own and nobody has published them.                         *)
(***************************************************************************)
\* The marks, the errors and the rows still to be sent split the batch.
BatchIsSplit ==
    \A p \in Publishers :
        /\ marks[p] \subseteq batch[p]
        /\ errs[p] \subseteq batch[p]
        /\ todo[p] \subseteq batch[p]
        /\ marks[p] \cap errs[p] = {}
        /\ todo[p] \cap (marks[p] \cup errs[p]) = {}
        /\ phase[p] = "idle" => marks[p] = {} /\ errs[p] = {}

\* A row is marked, or is about to be, only after its message was delivered.
MarksAreDelivered ==
    \A p \in Publishers :
        /\ marks[p] \subseteq Delivered
        /\ phase[p] = "markPublished" =>
               \A e \in todo[p] : Current(p, e) => e \in Delivered

\* No row is in the batches of two open transactions.
LocksExclude ==
    \A p, q \in Publishers :
        p # q /\ session[p] /\ session[q] => batch[p] \cap batch[q] = {}

\* No row of an open transaction has been published.
LockedIsUnpublished ==
    \A p \in Publishers : session[p] => batch[p] \cap published = {}

IInv ==
    /\ TypeOK
    /\ BatchIsSplit
    /\ MarksAreDelivered
    /\ LocksExclude
    /\ LockedIsUnpublished
    /\ PublishedIsDelivered
    /\ PublishedHasNoError

(***************************************************************************)
(* Lemmas about the operators                                              *)
(***************************************************************************)
\* The rows a LIMIT returns are rows of the table.
LEMMA OldestSubset ==
    ASSUME NEW S, NEW n PROVE Oldest(S, n) \subseteq S
  BY DEF Oldest

\* A batch takes only rows that are committed, unpublished and not locked.
LEMMA FetchedRows ==
    ASSUME NEW p \in Publishers
    PROVE  LET rows == Oldest((outbox \ published) \ LockedByOthers(p), BatchSize)
           IN  /\ rows \subseteq outbox
               /\ rows \cap published = {}
               /\ \A q \in Publishers \ {p} : session[q] => rows \cap batch[q] = {}
  <1> DEFINE free == (outbox \ published) \ LockedByOthers(p)
  <1>1. Oldest(free, BatchSize) \subseteq free
    BY OldestSubset
  <1>2. \A q \in Publishers \ {p} : session[q] => batch[q] \subseteq LockedByOthers(p)
    BY DEF LockedByOthers
  <1> QED BY <1>1, <1>2

\* Only one row is the current one.
LEMMA CurrentIsUnique ==
    ASSUME TypeOK, NEW p \in Publishers, NEW d, NEW e, Current(p, d), Current(p, e)
    PROVE  d = e
  <1>1. d \in Nat /\ e \in Nat
    BY PublisherAssumption DEF TypeOK, Current
  <1>2. d <= e /\ e <= d
    BY DEF Current
  <1> QED BY <1>1, <1>2

\* An acknowledged send adds its message to the log and keeps the others.
LEMMA AppendDelivers ==
    ASSUME TypeOK, NEW e \in Events, topic' = Append(topic, e)
    PROVE  topic' \in Seq(Events) /\ Delivered' = Delivered \cup {e}
  <1>1. topic \in Seq(Events)
    BY DEF TypeOK
  <1>2. /\ topic' \in Seq(Events)
        /\ DOMAIN topic = 1..Len(topic)
        /\ DOMAIN topic' = 1..(Len(topic) + 1)
        /\ \A i \in 1..Len(topic) : topic'[i] = topic[i]
        /\ topic'[Len(topic) + 1] = e
        /\ Len(topic) \in Nat
    BY <1>1
  <1>3. Delivered' \subseteq Delivered \cup {e}
    <2> SUFFICES ASSUME NEW i \in DOMAIN topic'
                 PROVE  topic'[i] \in Delivered \cup {e}
      BY DEF Delivered
    <2>1. i \in 1..Len(topic) \/ i = Len(topic) + 1
      BY <1>2
    <2> QED BY <1>2, <2>1 DEF Delivered
  <1>4. Delivered \subseteq Delivered'
    <2> SUFFICES ASSUME NEW i \in DOMAIN topic PROVE topic[i] \in Delivered'
      BY DEF Delivered
    <2>1. i \in DOMAIN topic' /\ topic'[i] = topic[i]
      BY <1>2
    <2> QED BY <2>1 DEF Delivered
  <1>5. e \in Delivered'
    <2>1. Len(topic) + 1 \in DOMAIN topic'
      BY <1>2
    <2> QED BY <1>2, <2>1 DEF Delivered
  <1> QED BY <1>2, <1>3, <1>4, <1>5

\* A send the producer repeats adds its message twice.
LEMMA RepeatDelivers ==
    ASSUME TypeOK, NEW e \in Events, topic' = topic \o <<e, e>>
    PROVE  topic' \in Seq(Events) /\ Delivered' = Delivered \cup {e}
  <1>1. topic \in Seq(Events) /\ <<e, e>> \in Seq(Events)
    BY DEF TypeOK
  <1>2. /\ topic' \in Seq(Events)
        /\ DOMAIN topic = 1..Len(topic)
        /\ DOMAIN topic' = 1..(Len(topic) + 2)
        /\ \A i \in 1..Len(topic) : topic'[i] = topic[i]
        /\ topic'[Len(topic) + 1] = e
        /\ topic'[Len(topic) + 2] = e
        /\ Len(topic) \in Nat
    BY <1>1
  <1>3. Delivered' \subseteq Delivered \cup {e}
    <2> SUFFICES ASSUME NEW i \in DOMAIN topic'
                 PROVE  topic'[i] \in Delivered \cup {e}
      BY DEF Delivered
    <2>1. i \in 1..Len(topic) \/ i = Len(topic) + 1 \/ i = Len(topic) + 2
      BY <1>2
    <2> QED BY <1>2, <2>1 DEF Delivered
  <1>4. Delivered \subseteq Delivered'
    <2> SUFFICES ASSUME NEW i \in DOMAIN topic PROVE topic[i] \in Delivered'
      BY DEF Delivered
    <2>1. i \in DOMAIN topic' /\ topic'[i] = topic[i]
      BY <1>2
    <2> QED BY <2>1 DEF Delivered
  <1>5. e \in Delivered'
    <2>1. Len(topic) + 1 \in DOMAIN topic'
      BY <1>2
    <2> QED BY <1>2, <2>1 DEF Delivered
  <1> QED BY <1>2, <1>3, <1>4, <1>5

\* Dropping a batch leaves the process with nothing.
LEMMA ClearedBatch ==
    ASSUME TypeOK, NEW p \in Publishers, ClearBatch(p)
    PROVE  /\ phase' \in [Publishers -> Phases]
           /\ session' \in [Publishers -> BOOLEAN]
           /\ batch' \in [Publishers -> SUBSET Events]
           /\ todo' \in [Publishers -> SUBSET Events]
           /\ marks' \in [Publishers -> SUBSET Events]
           /\ errs' \in [Publishers -> SUBSET Events]
           /\ phase'[p] = "idle" /\ ~session'[p]
           /\ batch'[p] = {} /\ todo'[p] = {} /\ marks'[p] = {} /\ errs'[p] = {}
           /\ \A q \in Publishers \ {p} :
                  /\ phase'[q] = phase[q] /\ session'[q] = session[q]
                  /\ batch'[q] = batch[q] /\ todo'[q] = todo[q]
                  /\ marks'[q] = marks[q] /\ errs'[q] = errs[q]
  BY DEF TypeOK, ClearBatch, Phases

(***************************************************************************)
(* Type correctness                                                        *)
(***************************************************************************)
\* The initial state satisfies the inductive invariant.
LEMMA InitIInv == Init => IInv
  <1> SUFFICES ASSUME Init PROVE IInv OBVIOUS
  <1>1. TypeOK
    BY PublisherAssumption DEF Init, TypeOK, Phases, NonePending
  <1>2. BatchIsSplit /\ LocksExclude /\ LockedIsUnpublished
    BY DEF Init, BatchIsSplit, LocksExclude, LockedIsUnpublished
  <1>3. MarksAreDelivered
    BY DEF Init, MarksAreDelivered
  <1>4. PublishedIsDelivered /\ PublishedHasNoError
    BY DEF Init, PublishedIsDelivered, PublishedHasNoError
  <1> QED BY <1>1, <1>2, <1>3, <1>4 DEF IInv

\* A fault is counted within its bound.
LEMMA FaultType == TypeOK /\ Fault => faults' \in 0..MaxFaults
  BY PublisherAssumption DEF TypeOK, Fault

\* Every step keeps the types.
LEMMA TypeStep == TypeOK /\ [Next]_publisherVars => TypeOK'
  <1> SUFFICES ASSUME TypeOK, [Next]_publisherVars PROVE TypeOK'
    OBVIOUS
  <1>1. CASE UNCHANGED publisherVars
    BY <1>1 DEF publisherVars, tableVars, localVars, TypeOK
  <1>2. ASSUME NEW e \in Events, Persist(e) PROVE TypeOK'
    BY <1>2 DEF Persist, localVars, TypeOK
  <1>3. ASSUME NEW p \in Publishers, PublisherNext(p) PROVE TypeOK'
    <2> USE DEF tableVars, localVars
    <2>1. CASE FetchBatch(p)
      <3> DEFINE rows == Oldest((outbox \ published) \ LockedByOthers(p), BatchSize)
      <3>1. rows \subseteq Events
        BY FetchedRows DEF TypeOK
      <3> HIDE DEF rows
      <3>2. TakeBatch(p, rows)
        BY <2>1 DEF FetchBatch, rows
      <3> QED BY <3>1, <3>2 DEF TakeBatch, TypeOK, Phases
    <2>2. CASE SendAcknowledged(p)
      BY <2>2, AppendDelivers DEF SendAcknowledged, TypeOK, Phases
    <2>3. CASE SendRetriedInternally(p)
      BY <2>3, RepeatDelivers, FaultType DEF SendRetriedInternally, TypeOK, Phases
    <2>4. CASE SendFails(p)
      BY <2>4 DEF SendFails, TypeOK, Phases
    <2>5. CASE SendTimesOut(p)
      BY <2>5, FaultType DEF SendTimesOut, TypeOK, Phases
    <2>6. CASE DeliverLate(p)
      BY <2>6, AppendDelivers DEF DeliverLate, TypeOK
    <2>7. CASE ExpireLate(p)
      BY <2>7 DEF ExpireLate, TypeOK
    <2>8. CASE MarkPublished(p)
      BY <2>8 DEF MarkPublished, TypeOK, Phases
    <2>9. CASE MarkFailed(p)
      BY <2>9 DEF MarkFailed, TypeOK, Phases
    <2>10. CASE CommitBatch(p)
      BY <2>10, ClearedBatch DEF CommitBatch, TypeOK
    <2>11. CASE LoseSession(p)
      BY <2>11, FaultType DEF LoseSession, TypeOK
    <2>12. CASE Abandon(p)
      BY <2>12, ClearedBatch DEF Abandon, TypeOK
    <2>13. CASE Crash(p)
      BY <2>13, ClearedBatch, FaultType DEF Crash, TypeOK, NonePending
    <2> QED BY <1>3, <2>1, <2>2, <2>3, <2>4, <2>5, <2>6, <2>7, <2>8, <2>9,
               <2>10, <2>11, <2>12, <2>13 DEF PublisherNext
  <1> QED BY <1>1, <1>2, <1>3 DEF Next

\* The variables keep their types in every reachable state.
THEOREM PublisherTypeCorrectness == Spec => []TypeOK
  <1>1. Init => TypeOK
    BY InitIInv DEF IInv
  <1> QED BY <1>1, TypeStep, PTL DEF Spec

(***************************************************************************)
(* The invariant is inductive                                              *)
(***************************************************************************)
\* A dropped batch is split, trivially.
LEMMA ClearingSplits ==
    ASSUME TypeOK, BatchIsSplit, NEW p \in Publishers, ClearBatch(p)
    PROVE  BatchIsSplit'
  <1> SUFFICES ASSUME NEW q \in Publishers
               PROVE  /\ marks'[q] \subseteq batch'[q]
                      /\ errs'[q] \subseteq batch'[q]
                      /\ todo'[q] \subseteq batch'[q]
                      /\ marks'[q] \cap errs'[q] = {}
                      /\ todo'[q] \cap (marks'[q] \cup errs'[q]) = {}
                      /\ phase'[q] = "idle" => marks'[q] = {} /\ errs'[q] = {}
    BY DEF BatchIsSplit
  <1>1. CASE q = p
    BY <1>1, ClearedBatch
  <1>2. CASE q # p
    BY <1>2, ClearedBatch DEF BatchIsSplit
  <1> QED BY <1>1, <1>2

\* A row leaves todo when it is marked, and for one of the two sets only.
LEMMA SplitStep ==
    ASSUME TypeOK, BatchIsSplit, [Next]_publisherVars
    PROVE  BatchIsSplit'
  <1>1. CASE UNCHANGED publisherVars
    BY <1>1 DEF publisherVars, tableVars, localVars, BatchIsSplit
  <1>2. ASSUME NEW e \in Events, Persist(e) PROVE BatchIsSplit'
    BY <1>2 DEF Persist, localVars, BatchIsSplit
  <1>3. ASSUME NEW p \in Publishers, PublisherNext(p) PROVE BatchIsSplit'
    <2> USE DEF tableVars, localVars, BatchIsSplit
    <2>1. CASE FetchBatch(p)
      <3> DEFINE rows == Oldest((outbox \ published) \ LockedByOthers(p), BatchSize)
      <3>1. rows \subseteq Events
        BY FetchedRows DEF TypeOK
      <3> HIDE DEF rows
      <3>2. TakeBatch(p, rows)
        BY <2>1 DEF FetchBatch, rows
      <3> QED BY <3>1, <3>2 DEF TakeBatch, TypeOK
    <2>2. CASE SendAcknowledged(p)
      BY <2>2 DEF SendAcknowledged, TypeOK
    <2>3. CASE SendRetriedInternally(p)
      BY <2>3 DEF SendRetriedInternally, TypeOK
    <2>4. CASE SendFails(p)
      BY <2>4 DEF SendFails, TypeOK
    <2>5. CASE SendTimesOut(p)
      BY <2>5 DEF SendTimesOut, TypeOK
    <2>6. CASE DeliverLate(p)
      BY <2>6 DEF DeliverLate, TypeOK
    <2>7. CASE ExpireLate(p)
      BY <2>7 DEF ExpireLate, TypeOK
    <2>8. CASE MarkPublished(p)
      BY <2>8 DEF MarkPublished, TypeOK
    <2>9. CASE MarkFailed(p)
      BY <2>9 DEF MarkFailed, TypeOK
    <2>10. CASE CommitBatch(p)
      BY <2>10, ClearingSplits DEF CommitBatch
    <2>11. CASE LoseSession(p)
      BY <2>11 DEF LoseSession, TypeOK
    <2>12. CASE Abandon(p)
      BY <2>12, ClearingSplits DEF Abandon
    <2>13. CASE Crash(p)
      BY <2>13, ClearingSplits DEF Crash
    <2> QED BY <1>3, <2>1, <2>2, <2>3, <2>4, <2>5, <2>6, <2>7, <2>8, <2>9,
               <2>10, <2>11, <2>12, <2>13 DEF PublisherNext
  <1> QED BY <1>1, <1>2, <1>3 DEF Next

\* SKIP LOCKED takes no row of another open transaction, and a batch does not
\* grow while its transaction is open.
LEMMA ExclusionStep ==
    ASSUME TypeOK, LocksExclude, [Next]_publisherVars
    PROVE  LocksExclude'
  <1>1. CASE UNCHANGED publisherVars
    BY <1>1 DEF publisherVars, tableVars, localVars, LocksExclude
  <1>2. ASSUME NEW e \in Events, Persist(e) PROVE LocksExclude'
    BY <1>2 DEF Persist, localVars, LocksExclude
  <1>3. ASSUME NEW p \in Publishers, PublisherNext(p) PROVE LocksExclude'
    <2> USE DEF tableVars, localVars, LocksExclude
    <2>1. CASE FetchBatch(p)
      <3> DEFINE rows == Oldest((outbox \ published) \ LockedByOthers(p), BatchSize)
      <3>1. /\ rows \subseteq Events
            /\ rows \cap published = {}
            /\ \A q \in Publishers \ {p} : session[q] => rows \cap batch[q] = {}
        BY FetchedRows DEF TypeOK
      <3> HIDE DEF rows
      <3>2. TakeBatch(p, rows)
        BY <2>1 DEF FetchBatch, rows
      <3> QED BY <3>1, <3>2 DEF TakeBatch, TypeOK
    <2>2. CASE SendAcknowledged(p)
      BY <2>2 DEF SendAcknowledged, TypeOK
    <2>3. CASE SendRetriedInternally(p)
      BY <2>3 DEF SendRetriedInternally, TypeOK
    <2>4. CASE SendFails(p)
      BY <2>4 DEF SendFails, TypeOK
    <2>5. CASE SendTimesOut(p)
      BY <2>5 DEF SendTimesOut, TypeOK
    <2>6. CASE DeliverLate(p)
      BY <2>6 DEF DeliverLate, TypeOK
    <2>7. CASE ExpireLate(p)
      BY <2>7 DEF ExpireLate, TypeOK
    <2>8. CASE MarkPublished(p)
      BY <2>8 DEF MarkPublished, TypeOK
    <2>9. CASE MarkFailed(p)
      BY <2>9 DEF MarkFailed, TypeOK
    <2>10. CASE CommitBatch(p)
      BY <2>10, ClearedBatch DEF CommitBatch, TypeOK
    <2>11. CASE LoseSession(p)
      BY <2>11 DEF LoseSession, TypeOK
    <2>12. CASE Abandon(p)
      BY <2>12, ClearedBatch DEF Abandon, TypeOK
    <2>13. CASE Crash(p)
      BY <2>13, ClearedBatch DEF Crash, TypeOK
    <2> QED BY <1>3, <2>1, <2>2, <2>3, <2>4, <2>5, <2>6, <2>7, <2>8, <2>9,
               <2>10, <2>11, <2>12, <2>13 DEF PublisherNext
  <1> QED BY <1>1, <1>2, <1>3 DEF Next

\* A commit publishes rows of its own batch only, and so of no other one.
LEMMA UnpublishedStep ==
    ASSUME TypeOK, BatchIsSplit, LocksExclude, LockedIsUnpublished, [Next]_publisherVars
    PROVE  LockedIsUnpublished'
  <1>1. CASE UNCHANGED publisherVars
    BY <1>1 DEF publisherVars, tableVars, localVars, LockedIsUnpublished
  <1>2. ASSUME NEW e \in Events, Persist(e) PROVE LockedIsUnpublished'
    BY <1>2 DEF Persist, localVars, LockedIsUnpublished
  <1>3. ASSUME NEW p \in Publishers, PublisherNext(p) PROVE LockedIsUnpublished'
    <2> USE DEF tableVars, localVars, LockedIsUnpublished
    <2>1. CASE FetchBatch(p)
      <3> DEFINE rows == Oldest((outbox \ published) \ LockedByOthers(p), BatchSize)
      <3>1. /\ rows \subseteq Events
            /\ rows \cap published = {}
            /\ \A q \in Publishers \ {p} : session[q] => rows \cap batch[q] = {}
        BY FetchedRows DEF TypeOK
      <3> HIDE DEF rows
      <3>2. TakeBatch(p, rows)
        BY <2>1 DEF FetchBatch, rows
      <3> QED BY <3>1, <3>2 DEF TakeBatch, TypeOK
    <2>2. CASE SendAcknowledged(p)
      BY <2>2 DEF SendAcknowledged, TypeOK
    <2>3. CASE SendRetriedInternally(p)
      BY <2>3 DEF SendRetriedInternally, TypeOK
    <2>4. CASE SendFails(p)
      BY <2>4 DEF SendFails, TypeOK
    <2>5. CASE SendTimesOut(p)
      BY <2>5 DEF SendTimesOut, TypeOK
    <2>6. CASE DeliverLate(p)
      BY <2>6 DEF DeliverLate, TypeOK
    <2>7. CASE ExpireLate(p)
      BY <2>7 DEF ExpireLate, TypeOK
    <2>8. CASE MarkPublished(p)
      BY <2>8 DEF MarkPublished, TypeOK
    <2>9. CASE MarkFailed(p)
      BY <2>9 DEF MarkFailed, TypeOK
    <2>10. CASE CommitBatch(p)
      <3> SUFFICES ASSUME NEW q \in Publishers, session'[q]
                   PROVE  batch'[q] \cap published' = {}
        OBVIOUS
      <3>1. q # p /\ session[q] /\ batch'[q] = batch[q]
        BY <2>10, ClearedBatch DEF CommitBatch
      <3>2. session[p] /\ published' = published \cup marks[p]
        BY <2>10 DEF CommitBatch
      <3>3. batch[q] \cap marks[p] = {}
        BY <3>1, <3>2 DEF BatchIsSplit, LocksExclude
      <3> QED BY <3>1, <3>2, <3>3
    <2>11. CASE LoseSession(p)
      BY <2>11 DEF LoseSession, TypeOK
    <2>12. CASE Abandon(p)
      BY <2>12, ClearedBatch DEF Abandon, TypeOK
    <2>13. CASE Crash(p)
      BY <2>13, ClearedBatch DEF Crash, TypeOK
    <2> QED BY <1>3, <2>1, <2>2, <2>3, <2>4, <2>5, <2>6, <2>7, <2>8, <2>9,
               <2>10, <2>11, <2>12, <2>13 DEF PublisherNext
  <1> QED BY <1>1, <1>2, <1>3 DEF Next

\* The log only grows.
LEMMA DeliveredGrows ==
    ASSUME TypeOK, [Next]_publisherVars PROVE Delivered \subseteq Delivered'
  <1>1. CASE UNCHANGED publisherVars
    BY <1>1 DEF publisherVars, Delivered
  <1>2. ASSUME NEW e \in Events, Persist(e) PROVE Delivered \subseteq Delivered'
    BY <1>2 DEF Persist, Delivered
  <1>3. ASSUME NEW p \in Publishers, PublisherNext(p)
        PROVE  Delivered \subseteq Delivered'
    <2>1. CASE SendAcknowledged(p)
      BY <2>1, AppendDelivers DEF SendAcknowledged, TypeOK
    <2>2. CASE SendRetriedInternally(p)
      BY <2>2, RepeatDelivers DEF SendRetriedInternally, TypeOK
    <2>3. CASE DeliverLate(p)
      BY <2>3, AppendDelivers DEF DeliverLate
    <2>4. CASE UNCHANGED topic
      BY <2>4 DEF Delivered
    <2> QED
      BY <1>3, <2>1, <2>2, <2>3, <2>4
      DEF PublisherNext, FetchBatch, TakeBatch, SendFails, SendTimesOut, ExpireLate,
          MarkPublished, MarkFailed, CommitBatch, LoseSession, Abandon, Crash
  <1> QED BY <1>1, <1>2, <1>3 DEF Next

\* The loop reaches the mark of a row only through an acknowledged send of
\* that same row.
LEMMA MarksStep ==
    ASSUME TypeOK, MarksAreDelivered, [Next]_publisherVars
    PROVE  MarksAreDelivered'
  <1>g. Delivered \subseteq Delivered'
    BY DeliveredGrows
  <1> DEFINE Good(q) ==
        /\ marks[q] \subseteq Delivered
        /\ phase[q] = "markPublished" =>
               \A e \in todo[q] : Current(q, e) => e \in Delivered
  <1>s. ASSUME NEW q \in Publishers, phase'[q] = phase[q], todo'[q] = todo[q],
               marks'[q] = marks[q]
        PROVE  Good(q)'
    BY <1>s, <1>g DEF MarksAreDelivered, Current
  <1>u. ASSUME phase' = phase, todo' = todo, marks' = marks
        PROVE  MarksAreDelivered'
    BY <1>s, <1>u DEF MarksAreDelivered
  <1>m. ASSUME NEW p \in Publishers, marks'[p] \subseteq Delivered',
               phase'[p] # "markPublished",
               \A q \in Publishers \ {p} : /\ phase'[q] = phase[q]
                                           /\ todo'[q] = todo[q]
                                           /\ marks'[q] = marks[q]
        PROVE  MarksAreDelivered'
    BY <1>m, <1>s DEF MarksAreDelivered
  <1>1. CASE UNCHANGED publisherVars
    BY <1>1, <1>u DEF publisherVars, localVars
  <1>2. ASSUME NEW e \in Events, Persist(e) PROVE MarksAreDelivered'
    BY <1>2, <1>u DEF Persist, localVars
  <1>3. ASSUME NEW p \in Publishers, PublisherNext(p) PROVE MarksAreDelivered'
    <2>d. marks[p] \subseteq Delivered'
      BY <1>g DEF MarksAreDelivered
    <2>c. ClearBatch(p) => MarksAreDelivered'
      BY <1>m, ClearedBatch
    <2>1. CASE FetchBatch(p)
      BY <2>1, <2>d, <1>m DEF FetchBatch, TakeBatch, TypeOK
    <2>a. ASSUME NEW e \in todo[p], Current(p, e), Delivered' = Delivered \cup {e},
                 phase' = [phase EXCEPT ![p] = "markPublished"],
                 UNCHANGED <<todo, marks>>
          PROVE  MarksAreDelivered'
      <3>1. \A d \in todo'[p] : Current(p, d)' => d = e
        BY <2>a, CurrentIsUnique DEF Current
      <3>2. Good(p)'
        BY <2>a, <2>d, <3>1
      <3>3. \A q \in Publishers \ {p} : phase'[q] = phase[q]
        BY <2>a DEF TypeOK
      <3>4. \A q \in Publishers \ {p} : Good(q)'
        BY <2>a, <3>3, <1>s
      <3> QED BY <3>2, <3>4 DEF MarksAreDelivered
    <2>2. CASE SendAcknowledged(p)
      <3>1. PICK e \in todo[p] :
                /\ Current(p, e)
                /\ topic' = Append(topic, e)
                /\ phase' = [phase EXCEPT ![p] = "markPublished"]
                /\ UNCHANGED <<todo, marks>>
        BY <2>2 DEF SendAcknowledged
      <3>2. e \in Events
        BY DEF TypeOK
      <3> QED BY <3>1, <3>2, <2>a, AppendDelivers
    <2>3. CASE SendRetriedInternally(p)
      <3>1. PICK e \in todo[p] :
                /\ Current(p, e)
                /\ topic' = topic \o <<e, e>>
                /\ phase' = [phase EXCEPT ![p] = "markPublished"]
                /\ UNCHANGED <<todo, marks>>
        BY <2>3 DEF SendRetriedInternally
      <3>2. e \in Events
        BY DEF TypeOK
      <3> QED BY <3>1, <3>2, <2>a, RepeatDelivers
    <2>4. CASE SendFails(p)
      BY <2>4, <2>d, <1>m DEF SendFails, TypeOK
    <2>5. CASE SendTimesOut(p)
      BY <2>5, <2>d, <1>m DEF SendTimesOut, TypeOK
    <2>6. CASE DeliverLate(p)
      BY <2>6, <1>u DEF DeliverLate, localVars
    <2>7. CASE ExpireLate(p)
      BY <2>7, <1>u DEF ExpireLate, localVars
    <2>8. CASE MarkPublished(p)
      <3>1. PICK e \in todo[p] :
                /\ Current(p, e)
                /\ phase[p] = "markPublished"
                /\ marks' = [marks EXCEPT ![p] = @ \cup {e}]
                /\ todo' = [todo EXCEPT ![p] = @ \ {e}]
                /\ phase' = [phase EXCEPT ![p] = "send"]
        BY <2>8 DEF MarkPublished
      <3>2. e \in Delivered'
        BY <3>1, <1>g DEF MarksAreDelivered
      <3>3. /\ marks'[p] = marks[p] \cup {e}
            /\ phase'[p] = "send"
            /\ \A q \in Publishers \ {p} : /\ phase'[q] = phase[q]
                                           /\ todo'[q] = todo[q]
                                           /\ marks'[q] = marks[q]
        BY <3>1 DEF TypeOK
      <3> QED BY <3>2, <3>3, <2>d, <1>m
    <2>9. CASE MarkFailed(p)
      BY <2>9, <2>d, <1>m DEF MarkFailed, TypeOK
    <2>10. CASE CommitBatch(p)
      BY <2>10, <2>c DEF CommitBatch
    <2>11. CASE LoseSession(p)
      BY <2>11, <1>u DEF LoseSession
    <2>12. CASE Abandon(p)
      BY <2>12, <2>c DEF Abandon
    <2>13. CASE Crash(p)
      BY <2>13, <2>c DEF Crash
    <2> QED BY <1>3, <2>1, <2>2, <2>3, <2>4, <2>5, <2>6, <2>7, <2>8, <2>9,
               <2>10, <2>11, <2>12, <2>13 DEF PublisherNext
  <1> QED BY <1>1, <1>2, <1>3 DEF Next

\* Only a commit changes the table's columns: it publishes what its process
\* marked, and writes a last_error only to rows of its own batch.
LEMMA TableStep ==
    ASSUME TypeOK, BatchIsSplit, MarksAreDelivered, LockedIsUnpublished,
           PublishedIsDelivered, PublishedHasNoError, [Next]_publisherVars
    PROVE  PublishedIsDelivered' /\ PublishedHasNoError'
  <1>g. Delivered \subseteq Delivered'
    BY DeliveredGrows
  <1>1. CASE \E p \in Publishers : CommitBatch(p)
    <2>1. PICK p \in Publishers : CommitBatch(p)
      BY <1>1
    <2>2. /\ session[p]
          /\ published' = published \cup marks[p]
          /\ failing' = (failing \ marks[p]) \cup errs[p]
      BY <2>1 DEF CommitBatch
    <2>3. PublishedIsDelivered'
      BY <1>g, <2>2 DEF PublishedIsDelivered, MarksAreDelivered
    <2>4. errs[p] \cap marks[p] = {} /\ errs[p] \cap published = {}
      BY <2>2 DEF BatchIsSplit, LockedIsUnpublished
    <2>5. PublishedHasNoError'
      BY <2>2, <2>4 DEF PublishedHasNoError
    <2> QED BY <2>3, <2>5
  <1>2. CASE UNCHANGED <<published, failing>>
    BY <1>g, <1>2 DEF PublishedIsDelivered, PublishedHasNoError
  <1>3. \/ \E p \in Publishers : CommitBatch(p)
        \/ UNCHANGED <<published, failing>>
    <2>1. CASE UNCHANGED publisherVars
      BY <2>1 DEF publisherVars, tableVars
    <2>2. ASSUME NEW e \in Events, Persist(e) PROVE UNCHANGED <<published, failing>>
      BY <2>2 DEF Persist
    <2>3. ASSUME NEW p \in Publishers, PublisherNext(p), ~CommitBatch(p)
          PROVE  UNCHANGED <<published, failing>>
      BY <2>3
      DEF PublisherNext, tableVars, FetchBatch, TakeBatch, SendAcknowledged,
          SendRetriedInternally, SendFails, SendTimesOut, DeliverLate, ExpireLate,
          MarkPublished, MarkFailed, LoseSession, Abandon, Crash
    <2> QED BY <2>1, <2>2, <2>3 DEF Next
  <1> QED BY <1>1, <1>2, <1>3

(***************************************************************************)
(* Theorems                                                                *)
(***************************************************************************)
\* The inductive invariant holds in every reachable state.
THEOREM PublisherInvariance == Spec => []IInv
  <1>1. IInv /\ [Next]_publisherVars => IInv'
    BY TypeStep, SplitStep, ExclusionStep, UnpublishedStep, MarksStep, TableStep
    DEF IInv
  <1> QED BY <1>1, InitIInv, PTL DEF Spec

\* No row is marked published without its message in the topic.
THEOREM PublishedAlwaysDelivered == Spec => []PublishedIsDelivered
  <1>1. IInv => PublishedIsDelivered
    BY DEF IInv
  <1> QED BY <1>1, PublisherInvariance, PTL

\* No published row carries a last_error.
THEOREM PublishedNeverHasError == Spec => []PublishedHasNoError
  <1>1. IInv => PublishedHasNoError
    BY DEF IInv
  <1> QED BY <1>1, PublisherInvariance, PTL

\* No row is in the batches of two open transactions.
THEOREM LocksAlwaysExclude == Spec => []LocksExclude
  <1>1. IInv => LocksExclude
    BY DEF IInv
  <1> QED BY <1>1, PublisherInvariance, PTL

\* Once a row is published, another copy of its message comes only from a send
\* that timed out or from a process that lost its transaction, whatever the two
\* processes' selects, sends, marks and commits interleave to.
THEOREM PublishedIsNeverSentAgain == Spec => PublishedIsNotSentAgain
  <1> DEFINE Explained(e) ==
          \E q \in Publishers : (e \in todo[q] /\ ~session[q]) \/ pending[q][e] > 0
  <1>1. ASSUME IInv, [Next]_publisherVars,
               NEW i \in (DOMAIN topic)' \ DOMAIN topic, topic'[i] \in published
        PROVE  Explained(topic'[i])
    <2>1. TypeOK /\ BatchIsSplit /\ LockedIsUnpublished
      BY <1>1 DEF IInv
    <2>2. ASSUME NEW p \in Publishers, NEW e \in todo[p], topic'[i] = e
          PROVE  Explained(e)
      <3>1. e \in batch[p] /\ e \in published
        BY <1>1, <2>1, <2>2 DEF BatchIsSplit
      <3> QED
        BY <2>1, <3>1 DEF LockedIsUnpublished
    <2>3. ASSUME NEW p \in Publishers, SendAcknowledged(p) PROVE Explained(topic'[i])
      <3>1. PICK e \in todo[p] : topic' = Append(topic, e)
        BY <2>3 DEF SendAcknowledged
      <3>2. topic \in Seq(Events) /\ e \in Events
        BY <2>1 DEF TypeOK
      <3>3. topic'[i] = e
        BY <1>1, <3>1, <3>2
      <3> QED
        BY <2>2, <3>3
    <2>4. ASSUME NEW p \in Publishers, SendRetriedInternally(p) PROVE Explained(topic'[i])
      <3>1. PICK e \in todo[p] : topic' = topic \o <<e, e>>
        BY <2>4 DEF SendRetriedInternally
      <3>2. topic \in Seq(Events) /\ e \in Events
        BY <2>1 DEF TypeOK
      <3>3. topic'[i] = e
        BY <1>1, <3>1, <3>2
      <3> QED
        BY <2>2, <3>3
    <2>5. ASSUME NEW p \in Publishers, DeliverLate(p) PROVE Explained(topic'[i])
      <3>1. PICK e \in Events : pending[p][e] > 0 /\ topic' = Append(topic, e)
        BY <2>5 DEF DeliverLate
      <3>2. topic'[i] = e
        BY <1>1, <2>1, <3>1 DEF TypeOK
      <3> QED
        BY <3>1, <3>2
    <2>6. topic' # topic
      BY <1>1
    <2>7. PICK p \in Publishers : PublisherNext(p)
      BY <1>1, <2>6 DEF Next, Persist, publisherVars
    <2> QED
      BY <2>3, <2>4, <2>5, <2>6, <2>7
      DEF PublisherNext, FetchBatch, TakeBatch, SendFails, SendTimesOut, ExpireLate,
          MarkPublished, MarkFailed, CommitBatch, LoseSession, Abandon, Crash
  <1>2. IInv /\ [Next]_publisherVars =>
            [\A i \in (DOMAIN topic)' \ DOMAIN topic :
                 topic'[i] \in published =>
                     \E p \in Publishers : \/ topic'[i] \in todo[p] /\ ~session[p]
                                           \/ pending[p][topic'[i]] > 0]_publisherVars
    BY <1>1
  <1> QED
    BY <1>2, PublisherInvariance, PTL DEF Spec, PublishedIsNotSentAgain

(***************************************************************************)
(* Copies.  Each copy of a message is counted together with those that can *)
(* still come of what has happened already: a send the producer holds, a   *)
(* process that lost its transaction and goes on sending, and the next     *)
(* transaction, while no open one has sent the row.  A step turns one of   *)
(* these into another, and only a fault adds one.                          *)
(***************************************************************************)
SentNow(p, e) == phase[p] = "markPublished" /\ Current(p, e)

\* The processes that lost their session and have not sent the row yet: they go
\* on to send it.
StaleSenders(e) == {p \in Publishers : ~session[p] /\ e \in todo[p] /\ ~SentNow(p, e)}

\* The next transaction may send the row.
Open(e) ==
    /\ e \notin published
    /\ \A p \in Publishers : session[p] => e \notin marks[p] /\ ~SentNow(p, e)

CopiesOf(e) == {i \in DOMAIN topic : topic[i] = e}
LateOf(e) == UNION {{p} \X (1..pending[p][e]) : p \in Publishers}

Sends(e) ==
    ({"copy"} \X CopiesOf(e)) \cup ({"late"} \X LateOf(e)) \cup ({"stale"} \X StaleSenders(e))
        \cup (IF Open(e) THEN {<<"open", e>>} ELSE {})

SendsAreExplained ==
    \A e \in Events : IsFiniteSet(Sends(e)) /\ Cardinality(Sends(e)) <= 1 + faults

\* A set that gains at most an element has at most one more.
LEMMA Extended ==
    ASSUME NEW S, NEW T, NEW y, NEW n \in Nat,
           IsFiniteSet(S), Cardinality(S) <= n, T \subseteq S \cup {y}
    PROVE  IsFiniteSet(T) /\ Cardinality(T) <= n + 1
  <1> DEFINE more == S \cup {y}
  <1>1. Cardinality(S) \in Nat
    BY FS_CardinalityType
  <1>2. IsFiniteSet(more) /\ Cardinality(more) <= Cardinality(S) + 1
    BY <1>1, FS_AddElement
  <1>3. IsFiniteSet(T) /\ Cardinality(T) <= Cardinality(more)
    BY <1>2, FS_Subset
  <1>4. Cardinality(T) \in Nat /\ Cardinality(more) \in Nat
    BY <1>2, <1>3, FS_CardinalityType
  <1> HIDE DEF more
  <1> QED
    BY <1>1, <1>2, <1>3, <1>4

\* One that loses an element and gains another has as many as before.
LEMMA Exchanged ==
    ASSUME NEW S, NEW T, NEW x \in S, NEW y, NEW n \in Nat,
           IsFiniteSet(S), Cardinality(S) <= n, T \subseteq (S \ {x}) \cup {y}
    PROVE  IsFiniteSet(T) /\ Cardinality(T) <= n
  <1>1. IsFiniteSet(S \ {x}) /\ Cardinality(S \ {x}) = Cardinality(S) - 1
    BY FS_RemoveElement
  <1>2. Cardinality(S) \in Nat /\ Cardinality(S \ {x}) \in Nat
    BY <1>1, FS_CardinalityType
  <1>3. n - 1 \in Nat /\ Cardinality(S \ {x}) <= n - 1
    BY <1>1, <1>2
  <1>4. IsFiniteSet(T) /\ Cardinality(T) <= (n - 1) + 1
    BY <1>1, <1>3, Extended
  <1> QED
    BY <1>4

\* A message appended to the log is a copy of its own row only.
LEMMA AppendedCopy ==
    ASSUME TypeOK, NEW d \in Events, NEW e \in Events, topic' = Append(topic, d)
    PROVE  CopiesOf(e)' = IF d = e THEN CopiesOf(e) \cup {Len(topic) + 1} ELSE CopiesOf(e)
  <1>1. /\ DOMAIN topic = 1..Len(topic)
        /\ DOMAIN topic' = 1..(Len(topic) + 1)
        /\ \A i \in 1..Len(topic) : topic'[i] = topic[i]
        /\ topic'[Len(topic) + 1] = d
        /\ Len(topic) \in Nat
    BY DEF TypeOK
  <1>2. DOMAIN topic' = DOMAIN topic \cup {Len(topic) + 1} /\ Len(topic) + 1 \notin DOMAIN topic
    BY <1>1
  <1> QED
    BY <1>1, <1>2 DEF CopiesOf

LEMMA RepeatedCopy ==
    ASSUME TypeOK, NEW d \in Events, NEW e \in Events, topic' = topic \o <<d, d>>
    PROVE  CopiesOf(e)' = IF d = e THEN CopiesOf(e) \cup {Len(topic) + 1, Len(topic) + 2}
                                   ELSE CopiesOf(e)
  <1>1. topic \in Seq(Events) /\ <<d, d>> \in Seq(Events)
    BY DEF TypeOK
  <1>2. /\ DOMAIN topic = 1..Len(topic)
        /\ DOMAIN topic' = 1..(Len(topic) + 2)
        /\ \A i \in 1..Len(topic) : topic'[i] = topic[i]
        /\ topic'[Len(topic) + 1] = d
        /\ topic'[Len(topic) + 2] = d
        /\ Len(topic) \in Nat
    BY <1>1
  <1>3. DOMAIN topic' = DOMAIN topic \cup {Len(topic) + 1, Len(topic) + 2}
    BY <1>2
  <1>4. \A i \in DOMAIN topic : topic'[i] = topic[i]
    BY <1>2
  <1> QED
    BY <1>2, <1>3, <1>4 DEF CopiesOf

\* The sends of a row are told apart by what they are.
LEMMA SendsByKind ==
    ASSUME NEW e
    PROVE  /\ \A i : <<"copy", i>> \in Sends(e) <=> i \in CopiesOf(e)
           /\ \A k : <<"late", k>> \in Sends(e) <=> k \in LateOf(e)
           /\ \A p : <<"stale", p>> \in Sends(e) <=> p \in StaleSenders(e)
           /\ <<"open", e>> \in Sends(e) <=> Open(e)
           /\ \A x \in Sends(e) : \/ \E i \in CopiesOf(e) : x = <<"copy", i>>
                                  \/ \E k \in LateOf(e) : x = <<"late", k>>
                                  \/ \E p \in StaleSenders(e) : x = <<"stale", p>>
                                  \/ Open(e) /\ x = <<"open", e>>
  <1>1. "copy" # "late" /\ "copy" # "stale" /\ "copy" # "open"
        /\ "late" # "stale" /\ "late" # "open" /\ "stale" # "open"
    OBVIOUS
  <1> QED
    BY <1>1 DEF Sends

\* What a process has sent depends on its own loop alone.
LEMMA SentBySelf ==
    ASSUME NEW p \in Publishers, NEW e,
           phase'[p] = phase[p], todo'[p] = todo[p]
    PROVE  SentNow(p, e)' <=> SentNow(p, e)
  BY DEF SentNow, Current

\* A step of one process leaves the loops of the others and their producers alone.
LEMMA OthersUntouched ==
    ASSUME TypeOK, NEW p \in Publishers, PublisherNext(p), NEW q \in Publishers \ {p}
    PROVE  /\ phase'[q] = phase[q] /\ session'[q] = session[q]
           /\ todo'[q] = todo[q] /\ marks'[q] = marks[q] /\ pending'[q] = pending[q]
  <1> USE DEF TypeOK, tableVars, localVars
  <1>1. CASE FetchBatch(p)
    BY <1>1 DEF FetchBatch, TakeBatch
  <1>2. CASE SendAcknowledged(p) \/ SendRetriedInternally(p) \/ SendFails(p) \/ SendTimesOut(p)
    BY <1>2 DEF SendAcknowledged, SendRetriedInternally, SendFails, SendTimesOut
  <1>3. CASE DeliverLate(p) \/ ExpireLate(p)
    BY <1>3 DEF DeliverLate, ExpireLate
  <1>4. CASE MarkPublished(p) \/ MarkFailed(p)
    BY <1>4 DEF MarkPublished, MarkFailed
  <1>5. CASE CommitBatch(p)
    BY <1>5, ClearedBatch DEF CommitBatch
  <1>6. CASE LoseSession(p)
    BY <1>6 DEF LoseSession
  <1>7. CASE Abandon(p) \/ Crash(p)
    BY <1>7, ClearedBatch DEF Abandon, Crash
  <1> QED
    BY <1>1, <1>2, <1>3, <1>4, <1>5, <1>6, <1>7 DEF PublisherNext

\* So its own loop decides whether a row gains a stale sender or a new transaction.
LEMMA StaleBySelf ==
    ASSUME TypeOK, NEW p \in Publishers, PublisherNext(p), NEW e \in Events
    PROVE  StaleSenders(e)' \subseteq (StaleSenders(e) \ {p})
               \cup {q \in {p} : ~session'[q] /\ e \in todo'[q] /\ ~SentNow(q, e)'}
  <1> SUFFICES ASSUME NEW q \in Publishers \ {p}, q \in StaleSenders(e)'
               PROVE  q \in StaleSenders(e)
    BY DEF StaleSenders
  <1>1. /\ phase'[q] = phase[q] /\ session'[q] = session[q] /\ todo'[q] = todo[q]
    BY OthersUntouched
  <1> QED
    BY <1>1, SentBySelf DEF StaleSenders

LEMMA OpenBySelf ==
    ASSUME TypeOK, NEW p \in Publishers, PublisherNext(p), NEW e \in Events,
           Open(e)', session[p] => e \notin marks[p] /\ ~SentNow(p, e)
    PROVE  Open(e)
  <1>1. e \notin published
    BY DEF Open, PublisherNext, FetchBatch, TakeBatch, SendAcknowledged,
       SendRetriedInternally, SendFails, SendTimesOut, DeliverLate, ExpireLate, MarkPublished,
       MarkFailed, CommitBatch, LoseSession, Abandon, Crash, tableVars
  <1>2. ASSUME NEW q \in Publishers \ {p}, session[q]
        PROVE  e \notin marks[q] /\ ~SentNow(q, e)
    <2>1. /\ phase'[q] = phase[q] /\ session'[q] = session[q]
          /\ todo'[q] = todo[q] /\ marks'[q] = marks[q]
      BY OthersUntouched
    <2> QED
      BY <1>2, <2>1, SentBySelf DEF Open
  <1> QED
    BY <1>1, <1>2 DEF Open

\* No open transaction of another process holds a row that is in the batch of one.
LEMMA BatchIsOpen ==
    ASSUME IInv, NEW p \in Publishers, session[p], NEW e \in todo[p], ~SentNow(p, e)
    PROVE  Open(e)
  <1>1. e \in batch[p] /\ e \notin marks[p] /\ e \notin published
    BY DEF IInv, BatchIsSplit, LockedIsUnpublished
  <1>2. ASSUME NEW q \in Publishers \ {p}, session[q]
        PROVE  e \notin marks[q] /\ ~SentNow(q, e)
    <2>1. e \notin batch[q]
      BY <1>1, <1>2 DEF IInv, LocksExclude
    <2> QED
      BY <2>1 DEF IInv, BatchIsSplit, SentNow, Current
  <1> QED
    BY <1>1, <1>2 DEF Open

\* What a row's sends become: none is added, one is with a fault, one is turned
\* into another, or one into two with a fault.
Same(e) == Sends(e)' \subseteq Sends(e) /\ faults' \in {faults, faults + 1}
More(e) == \E y : Sends(e)' \subseteq Sends(e) \cup {y} /\ faults' = faults + 1
Turned(e) ==
    \E x \in Sends(e) : \E y :
        Sends(e)' \subseteq (Sends(e) \ {x}) \cup {y} /\ faults' = faults
Doubled(e) ==
    \E x \in Sends(e) : \E y, z :
        Sends(e)' \subseteq ((Sends(e) \ {x}) \cup {y}) \cup {z} /\ faults' = faults + 1

\* An acknowledged send of a row uses up its new transaction, or its stale sender.
LEMMA SentTurns ==
    ASSUME IInv, NEW p \in Publishers, PublisherNext(p), NEW d \in todo[p], Current(p, d),
           phase[p] = "send", phase' = [phase EXCEPT ![p] = "markPublished"],
           UNCHANGED <<session, todo, marks, pending>>, NEW e \in Events
    PROVE  /\ e # d => /\ StaleSenders(e)' \subseteq StaleSenders(e) /\ (Open(e)' => Open(e))
           /\ e = d /\ session[p] =>
                  /\ StaleSenders(e)' \subseteq StaleSenders(e) /\ Open(e) /\ ~Open(e)'
           /\ e = d /\ ~session[p] =>
                  /\ p \in StaleSenders(e) /\ StaleSenders(e)' \subseteq StaleSenders(e) \ {p}
                  /\ (Open(e)' => Open(e))
           /\ LateOf(e)' = LateOf(e)
  <1>1. TypeOK /\ BatchIsSplit /\ LockedIsUnpublished
    BY DEF IInv
  <1>2. phase'[p] = "markPublished" /\ ~SentNow(p, e)
    BY <1>1 DEF SentNow, TypeOK
  <1>3. SentNow(p, e)' <=> e = d
    <2>1. Current(p, d)'
      BY DEF Current
    <2>2. Current(p, e)' => Current(p, e)
      BY DEF Current
    <2> QED
      BY <1>1, <1>2, <2>1, <2>2, CurrentIsUnique DEF SentNow
  <1>4. LateOf(e)' = LateOf(e)
    BY DEF LateOf
  <1>5. StaleSenders(e)' \subseteq (StaleSenders(e) \ {p})
            \cup {q \in {p} : ~session'[q] /\ e \in todo'[q] /\ ~SentNow(q, e)'}
    BY <1>1, StaleBySelf
  <1>6. CASE e # d
    <2>1. StaleSenders(e)' \subseteq StaleSenders(e)
      BY <1>2, <1>5 DEF StaleSenders
    <2>2. ASSUME Open(e)'
          PROVE  Open(e)
      <3>1. session[p] => e \notin marks[p] /\ ~SentNow(p, e)
        BY <1>2, <2>2 DEF Open
      <3> QED
        BY <1>1, <2>2, <3>1, OpenBySelf
    <2> QED
      BY <1>4, <1>6, <2>1, <2>2
  <1>7. CASE e = d /\ session[p]
    <2>1. Open(e)
      BY <1>2, <1>7, BatchIsOpen
    <2>2. ~Open(e)'
      BY <1>3, <1>7 DEF Open
    <2>3. StaleSenders(e)' \subseteq StaleSenders(e)
      BY <1>5, <1>7
    <2> QED
      BY <1>4, <1>7, <2>1, <2>2, <2>3
  <1>8. CASE e = d /\ ~session[p]
    <2>1. p \in StaleSenders(e)
      BY <1>2, <1>8 DEF StaleSenders
    <2>2. StaleSenders(e)' \subseteq StaleSenders(e) \ {p}
      BY <1>3, <1>5, <1>8
    <2>3. Open(e)' => Open(e)
      BY <1>1, <1>8, OpenBySelf
    <2> QED
      BY <1>4, <1>8, <2>1, <2>2, <2>3
  <1> QED
    BY <1>6, <1>7, <1>8

LEMMA SendsStep ==
    ASSUME IInv, NEW p \in Publishers, PublisherNext(p), NEW e \in Events
    PROVE  Same(e) \/ More(e) \/ Turned(e) \/ Doubled(e)
  <1>1. TypeOK /\ BatchIsSplit
    BY DEF IInv
  <1>2. faults \in Nat
    BY <1>1, PublisherAssumption DEF TypeOK
  <1>3. StaleSenders(e)' \subseteq (StaleSenders(e) \ {p})
            \cup {q \in {p} : ~session'[q] /\ e \in todo'[q] /\ ~SentNow(q, e)'}
    BY <1>1, StaleBySelf
  <1>4. topic' = topic => CopiesOf(e)' = CopiesOf(e)
    BY DEF CopiesOf
  <1>5. pending' = pending => LateOf(e)' = LateOf(e)
    BY DEF LateOf
  <1>6. ASSUME CopiesOf(e)' \subseteq CopiesOf(e), LateOf(e)' \subseteq LateOf(e),
               StaleSenders(e)' \subseteq StaleSenders(e), Open(e)' => Open(e),
               faults' \in {faults, faults + 1}
        PROVE  Same(e)
    BY <1>6 DEF Same, Sends
  <1>7. CASE FetchBatch(p)
    <2>1. /\ UNCHANGED <<topic, pending, marks, faults>> /\ phase[p] = "idle"
          /\ session'[p] /\ phase'[p] = "send"
      BY <1>1, <1>7 DEF FetchBatch, TakeBatch, TypeOK, tableVars
    <2>2. e \notin marks[p] /\ ~SentNow(p, e)
      BY <1>1, <2>1 DEF BatchIsSplit, SentNow
    <2>3. Open(e)' => Open(e)
      BY <1>1, <2>2, OpenBySelf
    <2> QED
      BY <1>3, <1>4, <1>5, <1>6, <2>1, <2>3
  <1>8. CASE SendAcknowledged(p)
    <2>1. PICK d \in todo[p] :
              /\ Current(p, d) /\ phase[p] = "send"
              /\ topic' = Append(topic, d) /\ phase' = [phase EXCEPT ![p] = "markPublished"]
              /\ UNCHANGED <<session, todo, marks, pending, faults>>
      BY <1>8 DEF SendAcknowledged
    <2>2. CopiesOf(e)' = IF d = e THEN CopiesOf(e) \cup {Len(topic) + 1} ELSE CopiesOf(e)
      BY <1>1, <2>1, AppendedCopy DEF TypeOK
    <2> DEFINE n == Len(topic) + 1
    <2> HIDE DEF n
    <2>3. CASE e # d
      BY <1>6, <2>1, <2>2, <2>3, SentTurns
    <2>4. CASE e = d /\ session[p]
      <3>1. /\ StaleSenders(e)' \subseteq StaleSenders(e) /\ Open(e) /\ ~Open(e)'
            /\ LateOf(e)' = LateOf(e)
        BY <2>1, <2>4, SentTurns
      <3>2. CopiesOf(e)' = CopiesOf(e) \cup {n}
        BY <2>2, <2>4 DEF n
      <3>3. Sends(e)' \subseteq (Sends(e) \ {<<"open", e>>}) \cup {<<"copy", n>>}
        BY <3>1, <3>2 DEF Sends
      <3> QED
        BY <2>1, <3>1, <3>3, SendsByKind DEF Turned
    <2>5. CASE e = d /\ ~session[p]
      <3>1. /\ p \in StaleSenders(e) /\ StaleSenders(e)' \subseteq StaleSenders(e) \ {p}
            /\ (Open(e)' => Open(e)) /\ LateOf(e)' = LateOf(e)
        BY <2>1, <2>5, SentTurns
      <3>2. CopiesOf(e)' = CopiesOf(e) \cup {n}
        BY <2>2, <2>5 DEF n
      <3>3. Sends(e)' \subseteq (Sends(e) \ {<<"stale", p>>}) \cup {<<"copy", n>>}
        BY <3>1, <3>2 DEF Sends
      <3> QED
        BY <2>1, <3>1, <3>3, SendsByKind DEF Turned
    <2> QED
      BY <2>3, <2>4, <2>5
  <1>9. CASE SendRetriedInternally(p)
    <2>1. PICK d \in todo[p] :
              /\ Current(p, d) /\ phase[p] = "send" /\ faults' = faults + 1
              /\ topic' = topic \o <<d, d>> /\ phase' = [phase EXCEPT ![p] = "markPublished"]
              /\ UNCHANGED <<session, todo, marks, pending>>
      BY <1>9 DEF SendRetriedInternally, Fault
    <2>2. CopiesOf(e)' = IF d = e THEN CopiesOf(e) \cup {Len(topic) + 1, Len(topic) + 2}
                                  ELSE CopiesOf(e)
      BY <1>1, <2>1, RepeatedCopy DEF TypeOK
    <2> DEFINE n == Len(topic) + 1
               m == Len(topic) + 2
    <2> HIDE DEF n, m
    <2>3. CASE e # d
      BY <1>6, <2>1, <2>2, <2>3, SentTurns
    <2>4. CASE e = d /\ session[p]
      <3>1. /\ StaleSenders(e)' \subseteq StaleSenders(e) /\ Open(e) /\ ~Open(e)'
            /\ LateOf(e)' = LateOf(e)
        BY <2>1, <2>4, SentTurns
      <3>2. CopiesOf(e)' = CopiesOf(e) \cup {n, m}
        BY <2>2, <2>4 DEF n, m
      <3>3. Sends(e)' \subseteq ((Sends(e) \ {<<"open", e>>}) \cup {<<"copy", n>>}) \cup {<<"copy", m>>}
        BY <3>1, <3>2 DEF Sends
      <3>4. <<"open", e>> \in Sends(e)
        BY <3>1, SendsByKind
      <3> QED
        BY <2>1, <3>3, <3>4 DEF Doubled
    <2>5. CASE e = d /\ ~session[p]
      <3>1. /\ p \in StaleSenders(e) /\ StaleSenders(e)' \subseteq StaleSenders(e) \ {p}
            /\ (Open(e)' => Open(e)) /\ LateOf(e)' = LateOf(e)
        BY <2>1, <2>5, SentTurns
      <3>2. CopiesOf(e)' = CopiesOf(e) \cup {n, m}
        BY <2>2, <2>5 DEF n, m
      <3>3. Sends(e)' \subseteq ((Sends(e) \ {<<"stale", p>>}) \cup {<<"copy", n>>}) \cup {<<"copy", m>>}
        BY <3>1, <3>2 DEF Sends
      <3>4. <<"stale", p>> \in Sends(e)
        BY <3>1, SendsByKind
      <3> QED
        BY <2>1, <3>3, <3>4 DEF Doubled
    <2> QED
      BY <2>3, <2>4, <2>5
  <1>10. CASE SendFails(p)
    <2>1. /\ UNCHANGED <<topic, session, todo, marks, pending, faults>>
          /\ phase[p] = "send" /\ phase'[p] = "markFailed"
      BY <1>1, <1>10 DEF SendFails, TypeOK
    <2>2. ~SentNow(p, e)
      BY <2>1 DEF SentNow
    <2>3. Open(e)' => Open(e)
      <3> SUFFICES ASSUME Open(e)' PROVE Open(e)
        OBVIOUS
      <3>1. session[p] => e \notin marks[p]
        BY <2>1 DEF Open
      <3> QED
        BY <1>1, <2>2, <3>1, OpenBySelf
    <2>4. StaleSenders(e)' \subseteq StaleSenders(e)
      BY <1>3, <2>1, <2>2 DEF StaleSenders
    <2> QED
      BY <1>4, <1>5, <1>6, <2>1, <2>3, <2>4
  <1>11. CASE SendTimesOut(p)
    <2>1. PICK d \in todo[p] :
              /\ UNCHANGED <<topic, session, todo, marks>> /\ faults' = faults + 1
              /\ phase[p] = "send" /\ phase'[p] = "markFailed"
              /\ pending' = [pending EXCEPT ![p][d] = @ + 1]
      BY <1>1, <1>11 DEF SendTimesOut, Fault, TypeOK
    <2>2. ~SentNow(p, e)
      BY <2>1 DEF SentNow
    <2>3. Open(e)' => Open(e)
      <3> SUFFICES ASSUME Open(e)' PROVE Open(e)
        OBVIOUS
      <3>1. session[p] => e \notin marks[p]
        BY <2>1 DEF Open
      <3> QED
        BY <1>1, <2>2, <3>1, OpenBySelf
    <2>4. StaleSenders(e)' \subseteq StaleSenders(e)
      BY <1>3, <2>1, <2>2 DEF StaleSenders
    <2> DEFINE k == <<p, pending[p][e] + 1>>
    <2>5. LateOf(e)' \subseteq LateOf(e) \cup {k}
      <3>1. /\ pending[p][e] \in Nat /\ pending'[p][e] \in Nat /\ pending'[p][e] <= pending[p][e] + 1
            /\ \A q \in Publishers \ {p} : pending'[q] = pending[q]
        BY <1>1, <2>1 DEF TypeOK
      <3>2. 1..pending'[p][e] \subseteq (1..pending[p][e]) \cup {pending[p][e] + 1}
        BY <3>1
      <3> QED
        BY <3>1, <3>2 DEF LateOf
    <2> HIDE DEF k
    <2>6. Sends(e)' \subseteq Sends(e) \cup {<<"late", k>>}
      BY <1>4, <2>1, <2>3, <2>4, <2>5 DEF Sends
    <2> QED
      BY <2>1, <2>6 DEF More
  <1>12. ASSUME NEW d \in Events, pending[p][d] > 0, pending' = [pending EXCEPT ![p][d] = @ - 1],
                UNCHANGED localVars
         PROVE  /\ StaleSenders(e)' \subseteq StaleSenders(e) /\ (Open(e)' => Open(e))
                /\ e # d => LateOf(e)' \subseteq LateOf(e)
                /\ e = d => <<p, pending[p][e]>> \in LateOf(e)
                            /\ LateOf(e)' \subseteq LateOf(e) \ {<<p, pending[p][e]>>}
    <2>1. UNCHANGED <<phase, session, todo, marks>>
      BY <1>12 DEF localVars
    <2>2. SentNow(p, e)' <=> SentNow(p, e)
      BY <2>1, SentBySelf
    <2>3. StaleSenders(e)' \subseteq StaleSenders(e)
      BY <1>3, <2>1, <2>2 DEF StaleSenders
    <2>4. Open(e)' => Open(e)
      <3> SUFFICES ASSUME Open(e)' PROVE Open(e)
        OBVIOUS
      <3>1. session[p] => e \notin marks[p] /\ ~SentNow(p, e)
        BY <2>1, <2>2 DEF Open
      <3> QED
        BY <1>1, <3>1, OpenBySelf
    <2>5. /\ pending[p][e] \in Nat
          /\ e # d => pending'[p][e] = pending[p][e]
          /\ e = d => pending'[p][e] = pending[p][e] - 1 /\ pending[p][e] > 0
          /\ \A q \in Publishers \ {p} : pending'[q] = pending[q]
      BY <1>1, <1>12 DEF TypeOK
    <2>6. e # d => LateOf(e)' \subseteq LateOf(e)
      BY <2>5 DEF LateOf
    <2>7. ASSUME e = d
          PROVE  /\ <<p, pending[p][e]>> \in LateOf(e)
                 /\ LateOf(e)' \subseteq LateOf(e) \ {<<p, pending[p][e]>>}
      <3>1. /\ pending[p][e] \in 1..pending[p][e]
            /\ 1..pending'[p][e] = (1..pending[p][e]) \ {pending[p][e]}
        BY <2>5, <2>7
      <3> QED
        BY <2>5, <3>1 DEF LateOf
    <2> QED
      BY <2>3, <2>4, <2>6, <2>7
  <1>13. CASE DeliverLate(p)
    <2>1. PICK d \in Events :
              /\ pending[p][d] > 0 /\ topic' = Append(topic, d)
              /\ pending' = [pending EXCEPT ![p][d] = @ - 1] /\ UNCHANGED <<localVars, faults>>
      BY <1>13 DEF DeliverLate
    <2>2. CopiesOf(e)' = IF d = e THEN CopiesOf(e) \cup {Len(topic) + 1} ELSE CopiesOf(e)
      BY <1>1, <2>1, AppendedCopy
    <2>3. CASE e # d
      BY <1>6, <1>12, <2>1, <2>2, <2>3
    <2>4. CASE e = d
      <3> DEFINE n == Len(topic) + 1
                 k == <<p, pending[p][e]>>
      <3>1. /\ StaleSenders(e)' \subseteq StaleSenders(e) /\ (Open(e)' => Open(e))
            /\ k \in LateOf(e) /\ LateOf(e)' \subseteq LateOf(e) \ {k}
        BY <1>12, <2>1, <2>4
      <3>2. CopiesOf(e)' = CopiesOf(e) \cup {n}
        BY <2>2, <2>4
      <3> HIDE DEF n, k
      <3>3. Sends(e)' \subseteq (Sends(e) \ {<<"late", k>>}) \cup {<<"copy", n>>}
        BY <3>1, <3>2 DEF Sends
      <3> QED
        BY <2>1, <3>1, <3>3, SendsByKind DEF Turned
    <2> QED
      BY <2>3, <2>4
  <1>14. CASE ExpireLate(p)
    <2>1. PICK d \in Events :
              /\ pending[p][d] > 0
              /\ pending' = [pending EXCEPT ![p][d] = @ - 1]
              /\ UNCHANGED <<topic, localVars, faults>>
      BY <1>14 DEF ExpireLate
    <2>2. LateOf(e)' \subseteq LateOf(e)
      BY <1>12, <2>1
    <2> QED
      BY <1>4, <1>6, <1>12, <2>1, <2>2
  <1>15. CASE MarkPublished(p)
    <2>1. PICK d \in todo[p] :
              /\ Current(p, d) /\ session[p] /\ session' = session
              /\ marks'[p] = marks[p] \cup {d}
              /\ UNCHANGED <<topic, pending, faults>>
      BY <1>1, <1>15 DEF MarkPublished, TypeOK
    <2>2. StaleSenders(e)' \subseteq StaleSenders(e)
      BY <1>3, <2>1
    <2>3. ASSUME Open(e)'
          PROVE  Open(e)
      <3>1. e \notin marks[p] /\ e # d
        BY <2>1, <2>3 DEF Open
      <3>2. ~SentNow(p, e)
        BY <1>1, <2>1, <3>1, CurrentIsUnique DEF SentNow
      <3> QED
        BY <1>1, <2>3, <3>1, <3>2, OpenBySelf
    <2> QED
      BY <1>4, <1>5, <1>6, <2>1, <2>2, <2>3
  <1>16. CASE MarkFailed(p)
    <2>1. /\ session[p] /\ session' = session /\ phase[p] = "markFailed"
          /\ UNCHANGED <<topic, pending, marks, faults>>
      BY <1>16 DEF MarkFailed
    <2>2. StaleSenders(e)' \subseteq StaleSenders(e)
      BY <1>3, <2>1
    <2>3. ASSUME Open(e)'
          PROVE  Open(e)
      <3>1. e \notin marks[p] /\ ~SentNow(p, e)
        BY <2>1, <2>3 DEF Open, SentNow
      <3> QED
        BY <1>1, <2>3, <3>1, OpenBySelf
    <2> QED
      BY <1>4, <1>5, <1>6, <2>1, <2>2, <2>3
  <1>17. CASE CommitBatch(p)
    <2>1. /\ phase[p] = "send" /\ published' = published \cup marks[p]
          /\ UNCHANGED <<topic, pending, faults>> /\ todo'[p] = {}
      BY <1>1, <1>17, ClearedBatch DEF CommitBatch
    <2>2. StaleSenders(e)' \subseteq StaleSenders(e)
      BY <1>3, <2>1
    <2>3. ASSUME Open(e)'
          PROVE  Open(e)
      <3>1. e \notin marks[p] /\ ~SentNow(p, e)
        BY <2>1, <2>3 DEF Open, SentNow
      <3> QED
        BY <1>1, <2>3, <3>1, OpenBySelf
    <2> QED
      BY <1>4, <1>5, <1>6, <2>1, <2>2, <2>3
  <1>18. CASE LoseSession(p)
    <2>1. /\ session[p] /\ faults' = faults + 1
          /\ UNCHANGED <<topic, pending, phase, todo, marks, published>>
      BY <1>18 DEF LoseSession, Fault, tableVars
    <2>2. SentNow(p, e)' <=> SentNow(p, e)
      BY <2>1, SentBySelf
    <2>3. CASE e \in todo[p] /\ ~SentNow(p, e)
      <3>1. Open(e)
        BY <2>1, <2>3, BatchIsOpen
      <3>2. StaleSenders(e)' \subseteq StaleSenders(e) \cup {p}
        BY <1>3
      <3>3. Sends(e)' \subseteq Sends(e) \cup {<<"stale", p>>}
        BY <1>4, <1>5, <2>1, <3>1, <3>2 DEF Sends
      <3> QED
        BY <2>1, <3>3 DEF More
    <2>4. CASE ~(e \in todo[p] /\ ~SentNow(p, e))
      <3>1. StaleSenders(e)' \subseteq StaleSenders(e)
        BY <1>3, <2>1, <2>2, <2>4
      <3>2. Sends(e)' \subseteq Sends(e) \cup {<<"open", e>>}
        BY <1>4, <1>5, <2>1, <3>1 DEF Sends
      <3> QED
        BY <2>1, <3>2 DEF More
    <2> QED
      BY <2>3, <2>4
  <1>19. CASE Abandon(p)
    <2>1. ~session[p] /\ UNCHANGED <<topic, pending, faults>> /\ todo'[p] = {}
      BY <1>1, <1>19, ClearedBatch DEF Abandon
    <2>2. StaleSenders(e)' \subseteq StaleSenders(e) /\ (Open(e)' => Open(e))
      BY <1>1, <1>3, <2>1, OpenBySelf
    <2> QED
      BY <1>4, <1>5, <1>6, <2>1, <2>2
  <1>20. CASE Crash(p)
    <2>1. /\ topic' = topic /\ faults' = faults + 1 /\ todo'[p] = {}
          /\ pending' = [pending EXCEPT ![p] = NonePending]
      BY <1>1, <1>20, ClearedBatch DEF Crash, Fault
    <2>2. StaleSenders(e)' \subseteq StaleSenders(e)
      BY <1>3, <2>1
    <2>3. LateOf(e)' \subseteq LateOf(e)
      <3>1. pending'[p][e] = 0 /\ \A q \in Publishers \ {p} : pending'[q] = pending[q]
        BY <1>1, <2>1 DEF TypeOK, NonePending
      <3>2. 1..pending'[p][e] = {}
        BY <3>1
      <3> QED
        BY <3>1, <3>2 DEF LateOf
    <2>4. Sends(e)' \subseteq Sends(e) \cup {<<"open", e>>}
      BY <1>4, <2>1, <2>2, <2>3 DEF Sends
    <2> QED
      BY <2>1, <2>4 DEF More
  <1> QED
    BY <1>7, <1>8, <1>9, <1>10, <1>11, <1>13, <1>14, <1>15, <1>16, <1>17, <1>18, <1>19, <1>20
    DEF PublisherNext

LEMMA ExplainedStep ==
    ASSUME IInv, SendsAreExplained, [Next]_publisherVars
    PROVE  SendsAreExplained'
  <1> SUFFICES ASSUME NEW e \in Events
               PROVE  IsFiniteSet(Sends(e)') /\ Cardinality(Sends(e)') <= 1 + faults'
    BY DEF SendsAreExplained
  <1>1. IsFiniteSet(Sends(e)) /\ Cardinality(Sends(e)) <= 1 + faults
    BY DEF SendsAreExplained
  <1>2. faults \in Nat /\ 1 + faults \in Nat
    BY PublisherAssumption DEF IInv, TypeOK
  <1>3. Cardinality(Sends(e)) \in Nat
    BY <1>1, FS_CardinalityType
  <1>4. CASE Same(e)
    <2>1. /\ IsFiniteSet(Sends(e)') /\ Cardinality(Sends(e)') <= Cardinality(Sends(e))
      BY <1>1, <1>4, FS_Subset DEF Same
    <2>2. Cardinality(Sends(e)') \in Nat
      BY <2>1, FS_CardinalityType
    <2> QED
      BY <1>1, <1>2, <1>3, <1>4, <2>1, <2>2 DEF Same
  <1>5. CASE More(e)
    <2>1. IsFiniteSet(Sends(e)') /\ Cardinality(Sends(e)') <= (1 + faults) + 1
      BY <1>1, <1>2, <1>5, Extended DEF More
    <2> QED
      BY <1>2, <1>5, <2>1 DEF More
  <1>6. CASE Turned(e)
    <2>1. IsFiniteSet(Sends(e)') /\ Cardinality(Sends(e)') <= 1 + faults
      BY <1>1, <1>2, <1>6, Exchanged DEF Turned
    <2> QED
      BY <1>6, <2>1 DEF Turned
  <1>7. CASE Doubled(e)
    <2>0. PICK x \in Sends(e) : \E y, z :
              Sends(e)' \subseteq ((Sends(e) \ {x}) \cup {y}) \cup {z} /\ faults' = faults + 1
      BY <1>7 DEF Doubled
    <2>1. PICK y, z :
              Sends(e)' \subseteq ((Sends(e) \ {x}) \cup {y}) \cup {z} /\ faults' = faults + 1
      BY <2>0
    <2>2. /\ IsFiniteSet((Sends(e) \ {x}) \cup {y})
          /\ Cardinality((Sends(e) \ {x}) \cup {y}) <= 1 + faults
      BY <1>1, <1>2, Exchanged
    <2>3. IsFiniteSet(Sends(e)') /\ Cardinality(Sends(e)') <= (1 + faults) + 1
      BY <1>2, <2>1, <2>2, Extended
    <2> QED
      BY <1>2, <2>1, <2>3
  <1>8. CASE UNCHANGED <<published, topic, session, phase, todo, marks, pending, faults>>
    <2>1. Same(e)
      BY <1>8 DEF Same, Sends, CopiesOf, LateOf, StaleSenders, Open, SentNow, Current
    <2> QED
      BY <1>4, <2>1
  <1>9. \/ UNCHANGED <<published, topic, session, phase, todo, marks, pending, faults>>
        \/ \E p \in Publishers : PublisherNext(p)
    BY DEF Next, Persist, publisherVars, tableVars, localVars
  <1> QED
    BY <1>4, <1>5, <1>6, <1>7, <1>8, <1>9, SendsStep

LEMMA InitExplained == Init => SendsAreExplained
  <1> SUFFICES ASSUME Init, NEW e \in Events
               PROVE  IsFiniteSet(Sends(e)) /\ Cardinality(Sends(e)) <= 1 + faults
    BY DEF SendsAreExplained
  <1>1. CopiesOf(e) = {} /\ StaleSenders(e) = {}
    BY DEF Init, CopiesOf, StaleSenders
  <1>2. LateOf(e) = {}
    BY DEF Init, LateOf, NonePending
  <1>3. Sends(e) \subseteq {} \cup {<<"open", e>>}
    BY <1>1, <1>2 DEF Sends
  <1>4. IsFiniteSet({}) /\ Cardinality({}) <= 0
    BY FS_EmptySet
  <1>5. IsFiniteSet(Sends(e)) /\ Cardinality(Sends(e)) <= 0 + 1
    BY <1>3, <1>4, Extended
  <1> QED
    BY <1>5 DEF Init

\* A message has a second copy only if a fault explains it: the copies in the log
\* are at most one more than the faults, however many processes share the table.
THEOREM CopiesAlwaysExplained == Spec => []CopiesAreExplained
  <1>1. IInv /\ SendsAreExplained => CopiesAreExplained
    <2> SUFFICES ASSUME IInv, SendsAreExplained, NEW e \in Events
                 PROVE  Cardinality(CopiesOf(e)) <= 1 + faults
      BY DEF CopiesAreExplained, Copies, CopiesOf
    <2>1. IsFiniteSet(Sends(e)) /\ Cardinality(Sends(e)) <= 1 + faults
      BY DEF SendsAreExplained
    <2> DEFINE send == [i \in CopiesOf(e) |-> <<"copy", i>>]
    <2>2. send \in Injection(CopiesOf(e), Sends(e))
      <3>1. \A i \in CopiesOf(e) : send[i] \in Sends(e)
        BY SendsByKind
      <3>2. \A i, j \in CopiesOf(e) : send[i] = send[j] => i = j
        OBVIOUS
      <3> QED
        BY <3>1, <3>2 DEF Injection, IsInjective
    <2>3. IsFiniteSet(CopiesOf(e)) /\ Cardinality(CopiesOf(e)) <= Cardinality(Sends(e))
      BY <2>1, <2>2, FS_Injection
    <2>4. /\ Cardinality(CopiesOf(e)) \in Nat /\ Cardinality(Sends(e)) \in Nat
          /\ faults \in Nat
      BY <2>1, <2>3, FS_CardinalityType, PublisherAssumption DEF IInv, TypeOK
    <2> QED
      BY <2>1, <2>3, <2>4
  <1>2. SendsAreExplained /\ IInv /\ [Next]_publisherVars => SendsAreExplained'
    BY ExplainedStep
  <1> QED
    BY <1>1, <1>2, InitExplained, PublisherInvariance, PTL DEF Spec

(***************************************************************************)
(* Only rows of the table are announced: a process sends what it selected, *)
(* and a row that was committed stays in the table.                        *)
(***************************************************************************)
OnlyRowsAreSent ==
    /\ \A p \in Publishers : batch[p] \subseteq outbox
    /\ \A p \in Publishers, e \in Events : pending[p][e] > 0 => e \in outbox
    /\ Delivered \subseteq outbox

LEMMA OnlyRowsStep ==
    ASSUME IInv, OnlyRowsAreSent, [Next]_publisherVars
    PROVE  OnlyRowsAreSent'
  <1>0. TypeOK /\ BatchIsSplit
    BY DEF IInv
  <1>1. CASE UNCHANGED publisherVars
    BY <1>1 DEF publisherVars, tableVars, localVars, OnlyRowsAreSent, Delivered
  <1>2. ASSUME NEW e \in Events, Persist(e) PROVE OnlyRowsAreSent'
    BY <1>2 DEF Persist, localVars, OnlyRowsAreSent, Delivered
  <1>3. ASSUME NEW p \in Publishers, PublisherNext(p) PROVE OnlyRowsAreSent'
    <2>1. outbox' = outbox
      BY <1>3 DEF PublisherNext, FetchBatch, TakeBatch, SendAcknowledged, SendRetriedInternally,
                  SendFails, SendTimesOut, DeliverLate, ExpireLate, MarkPublished, MarkFailed,
                  CommitBatch, LoseSession, Abandon, Crash, tableVars
    <2>2. \A q \in Publishers : batch'[q] \subseteq outbox
      <3>1. CASE FetchBatch(p)
        <4> DEFINE rows == Oldest((outbox \ published) \ LockedByOthers(p), BatchSize)
        <4>1. rows \subseteq outbox
          BY FetchedRows
        <4> HIDE DEF rows
        <4>2. batch' = [batch EXCEPT ![p] = rows]
          BY <3>1 DEF FetchBatch, TakeBatch, rows
        <4> QED
          BY <1>0, <4>1, <4>2 DEF OnlyRowsAreSent, TypeOK
      <3>2. CASE CommitBatch(p) \/ Abandon(p) \/ Crash(p)
        BY <1>0, <3>2 DEF CommitBatch, Abandon, Crash, ClearBatch, OnlyRowsAreSent, TypeOK
      <3>3. CASE UNCHANGED batch
        BY <3>3 DEF OnlyRowsAreSent
      <3> QED
        BY <1>3, <3>1, <3>2, <3>3
        DEF PublisherNext, SendAcknowledged, SendRetriedInternally, SendFails, SendTimesOut,
            DeliverLate, ExpireLate, MarkPublished, MarkFailed, LoseSession, localVars
    <2>3. \A q \in Publishers, e \in Events : pending'[q][e] > 0 => e \in outbox
      <3>1. ASSUME NEW d \in todo[p], d \in Events, pending' = [pending EXCEPT ![p][d] = @ + 1]
            PROVE  \A q \in Publishers, e \in Events : pending'[q][e] > 0 => e \in outbox
        <4>1. d \in outbox
          BY <1>0 DEF BatchIsSplit, OnlyRowsAreSent
        <4>2. \A q \in Publishers, e \in Events : e # d => pending'[q][e] = pending[q][e]
          BY <1>0, <3>1 DEF TypeOK
        <4> QED
          BY <4>1, <4>2 DEF OnlyRowsAreSent
      <3>2. CASE DeliverLate(p) \/ ExpireLate(p)
        <4>1. PICK d \in Events : pending[p][d] > 0 /\ pending' = [pending EXCEPT ![p][d] = @ - 1]
          BY <3>2 DEF DeliverLate, ExpireLate
        <4>2. \A q \in Publishers, e \in Events :
                  pending'[q][e] > 0 => pending[q][e] > 0
          BY <1>0, <4>1 DEF TypeOK
        <4> QED
          BY <4>2 DEF OnlyRowsAreSent
      <3>3. CASE Crash(p)
        BY <1>0, <3>3 DEF Crash, NonePending, OnlyRowsAreSent, TypeOK
      <3>4. CASE UNCHANGED pending
        BY <3>4 DEF OnlyRowsAreSent
      <3>5. CASE SendTimesOut(p)
        BY <1>0, <3>1, <3>5 DEF SendTimesOut, TypeOK
      <3> QED
        BY <1>3, <3>2, <3>3, <3>4, <3>5
        DEF PublisherNext, FetchBatch, TakeBatch, SendAcknowledged, SendRetriedInternally,
            SendFails, MarkPublished, MarkFailed, CommitBatch, LoseSession, Abandon
    <2>4. Delivered' \subseteq outbox
      <3>1. CASE UNCHANGED topic
        BY <3>1 DEF OnlyRowsAreSent, Delivered
      <3>2. ASSUME NEW e \in todo[p], topic' = Append(topic, e) \/ topic' = topic \o <<e, e>>
            PROVE  Delivered' \subseteq outbox
        <4>1. e \in Events /\ e \in outbox
          BY <1>0 DEF BatchIsSplit, OnlyRowsAreSent, TypeOK
        <4>2. Delivered' = Delivered \cup {e}
          BY <1>0, <3>2, <4>1, AppendDelivers, RepeatDelivers
        <4> QED
          BY <4>1, <4>2 DEF OnlyRowsAreSent
      <3>3. CASE SendAcknowledged(p) \/ SendRetriedInternally(p)
        BY <3>2, <3>3 DEF SendAcknowledged, SendRetriedInternally
      <3>4. CASE DeliverLate(p)
        <4>1. PICK e \in Events : pending[p][e] > 0 /\ topic' = Append(topic, e)
          BY <3>4 DEF DeliverLate
        <4>2. Delivered' = Delivered \cup {e}
          BY <1>0, <4>1, AppendDelivers
        <4> QED
          BY <4>1, <4>2 DEF OnlyRowsAreSent
      <3> QED
        BY <1>3, <3>1, <3>3, <3>4
        DEF PublisherNext, FetchBatch, TakeBatch, SendFails, SendTimesOut, ExpireLate,
            MarkPublished, MarkFailed, CommitBatch, LoseSession, Abandon, Crash
    <2> QED
      BY <2>1, <2>2, <2>3, <2>4 DEF OnlyRowsAreSent
  <1> QED
    BY <1>1, <1>2, <1>3 DEF Next

\* No message is of a row that was never committed, late and repeated ones included.
THEOREM MessagesAreOfRows == Spec => []OnlyRowsAreSent
  <1>1. Init => OnlyRowsAreSent
    BY DEF Init, OnlyRowsAreSent, NonePending, Delivered
  <1>2. IInv /\ OnlyRowsAreSent /\ [Next]_publisherVars => OnlyRowsAreSent'
    BY OnlyRowsStep
  <1> QED
    BY <1>1, <1>2, PublisherInvariance, PTL DEF Spec
=============================================================================

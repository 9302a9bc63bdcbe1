----------------------- MODULE ConsumerRollout_proofs -----------------------
(***************************************************************************)
(* Proofs about D2CEventConsumer under its rollout, for any payloads, any  *)
(* topic, any poll size and any number of failures.                        *)
(***************************************************************************)
EXTENDS ConsumerRollout, TLAPS

(***************************************************************************)
(* The inductive invariant                                                 *)
(***************************************************************************)
\* While a process runs, the record it handles is the one at the committed
\* offset, the rest of the batch is in the topic, and a poll comes only when
\* nothing of a batch is left.
BatchFollowsOffset ==
    /\ stage = "poll" => cursor = committed /\ limit = committed
    /\ stage \in {"handle", "commit"} =>
           /\ cursor = committed /\ cursor < limit
           /\ limit <= Len(topic) /\ limit <= committed + MaxPoll

\* An offset is about to be committed only over a record that is settled.
ToCommitIsSettled == stage = "commit" => Settled(cursor + 1)

IInv ==
    /\ TypeOK
    /\ BatchFollowsOffset
    /\ ToCommitIsSettled
    /\ CommittedIsSettled

\* The loop runs in the one process that holds the lock of the DuckDB file.
OneProcessConsumes ==
    /\ stage = "down" <=> LockHolders = {}
    /\ \A p, q \in LockHolders : p = q

PodInv == RolloutTypeOK /\ OneProcessConsumes

(***************************************************************************)
(* A step of the rollout, seen from the consumer                           *)
(***************************************************************************)
\* The pod is deleted, in whatever stage the process is.
Killed == Exit /\ UNCHANGED <<topic, committed, store, dlq, crashes>>

ConsumerStep == [Next \/ Killed]_consumerVars

\* Whatever the pods do is to the consumer a step of its own, its end, or
\* nothing.
LEMMA RolloutStepsAreConsumerSteps ==
    ASSUME [RolloutNext]_rolloutVars PROVE ConsumerStep
  <1> USE DEF ConsumerStep
  <1>1. CASE UNCHANGED rolloutVars
    BY <1>1 DEF rolloutVars
  <1>2. ASSUME NEW m \in Payloads, Produce(m) PROVE ConsumerStep
    BY <1>2 DEF Next
  <1>3. ASSUME NEW p \in Pods,
               Serve(p) \/ FindLocked(p) \/ Probe(p)
        PROVE  ConsumerStep
    BY <1>3 DEF Serve, FindLocked, Probe
  <1>4. ASSUME NEW p \in Pods, Connect(p) \/ Consume(p) \/ FailConsuming(p)
        PROVE  ConsumerStep
    BY <1>4 DEF Connect, Consume, FailConsuming, Next, ConsumerNext
  <1>5. CASE Surge \/ Delete
    BY <1>5 DEF Surge, Delete
  <1>6. CASE Terminate
    BY <1>6 DEF Terminate, Killed
  <1> QED BY <1>1, <1>2, <1>3, <1>4, <1>5, <1>6 DEF RolloutNext

(***************************************************************************)
(* Lemmas about the operators                                              *)
(***************************************************************************)
\* A record written to the topic moves no other.
LEMMA ProduceExtends ==
    ASSUME TypeOK, NEW m \in Payloads, topic' = Append(topic, m)
    PROVE  /\ topic' \in Seq(Payloads)
           /\ Len(topic') = Len(topic) + 1
           /\ \A i \in 1..Len(topic) : topic'[i] = topic[i]
           /\ SubSeq(topic', 1, Len(topic)) = topic
  <1>1. topic \in Seq(Payloads)
    BY DEF TypeOK
  <1>2. /\ topic' \in Seq(Payloads)
        /\ Len(topic') = Len(topic) + 1
        /\ Len(topic) \in Nat
        /\ \A i \in 1..Len(topic) : topic'[i] = topic[i]
    BY <1>1
  <1>3. SubSeq(topic', 1, Len(topic)) = [i \in 1..Len(topic) |-> topic'[i]]
    BY <1>2
  <1>4. topic = [i \in 1..Len(topic) |-> topic[i]]
    BY <1>1
  <1> QED BY <1>2, <1>3, <1>4

\* A dead-letter record for offset i adds i to what is quarantined.
LEMMA AppendQuarantines ==
    ASSUME TypeOK, NEW i \in Nat, dlq' = Append(dlq, i)
    PROVE  dlq' \in Seq(Nat) /\ Quarantined' = Quarantined \cup {i}
  <1>1. dlq \in Seq(Nat)
    BY DEF TypeOK
  <1>2. /\ dlq' \in Seq(Nat)
        /\ Len(dlq) \in Nat
        /\ DOMAIN dlq = 1..Len(dlq)
        /\ DOMAIN dlq' = 1..(Len(dlq) + 1)
        /\ \A k \in 1..Len(dlq) : dlq'[k] = dlq[k]
        /\ dlq'[Len(dlq) + 1] = i
    BY <1>1
  <1>3. DOMAIN dlq' = DOMAIN dlq \cup {Len(dlq) + 1}
    BY <1>2
  <1> QED BY <1>2, <1>3 DEF Quarantined

\* A request the producer repeats adds the offset twice.
LEMMA RepeatQuarantines ==
    ASSUME TypeOK, NEW i \in Nat, dlq' = dlq \o <<i, i>>
    PROVE  dlq' \in Seq(Nat) /\ Quarantined' = Quarantined \cup {i}
  <1>1. dlq \in Seq(Nat) /\ <<i, i>> \in Seq(Nat)
    BY DEF TypeOK
  <1>2. /\ dlq' \in Seq(Nat)
        /\ Len(dlq) \in Nat
        /\ DOMAIN dlq = 1..Len(dlq)
        /\ DOMAIN dlq' = 1..(Len(dlq) + 2)
        /\ \A k \in 1..Len(dlq) : dlq'[k] = dlq[k]
        /\ dlq'[Len(dlq) + 1] = i
        /\ dlq'[Len(dlq) + 2] = i
    BY <1>1
  <1>3. DOMAIN dlq' = DOMAIN dlq \cup {Len(dlq) + 1, Len(dlq) + 2}
    BY <1>2
  <1>4. Quarantined' \subseteq Quarantined \cup {i}
    BY <1>2, <1>3 DEF Quarantined
  <1>5. Quarantined \cup {i} \subseteq Quarantined'
    BY <1>2, <1>3 DEF Quarantined
  <1> QED BY <1>2, <1>4, <1>5

\* Of two payloads with one event_id the first is kept; the id is stored.
LEMMA StoringKeepsTheId ==
    ASSUME StoreEvent
    PROVE  store \subseteq store' /\ StoredIds' = StoredIds \cup {EventId[Record]}
  <1>1. CASE EventId[Record] \in StoredIds
    BY <1>1 DEF StoreEvent, StoredIds
  <1>2. CASE EventId[Record] \notin StoredIds
    BY <1>2 DEF StoreEvent, StoredIds
  <1> QED BY <1>1, <1>2

\* The record at the cursor exists while it is handled.
LEMMA RecordIsInTopic ==
    ASSUME IInv, stage \in {"handle", "commit"}
    PROVE  /\ committed = cursor /\ cursor \in Nat /\ cursor < Len(topic)
           /\ cursor + 1 \in 1..Len(topic) /\ topic[cursor + 1] \in Payloads
  <1>1. topic \in Seq(Payloads) /\ cursor \in Nat /\ limit \in Nat
    BY DEF IInv, TypeOK
  <1>2. committed = cursor /\ cursor < limit /\ limit <= Len(topic)
    BY DEF IInv, BatchFollowsOffset
  <1> QED BY <1>1, <1>2

(***************************************************************************)
(* Type correctness                                                        *)
(***************************************************************************)
\* A failure is counted within its bound.
LEMMA FailureType == TypeOK /\ Failure => crashes' \in 0..MaxCrashes
  BY ConsumerAssumption DEF TypeOK, Failure

\* Every step of the consumer keeps the types.
LEMMA TypeStep == ASSUME TypeOK, ConsumerStep PROVE TypeOK'
  <1> USE DEF Stages
  <1>1. CASE UNCHANGED consumerVars
    BY <1>1 DEF consumerVars, processVars, TypeOK
  <1>2. ASSUME NEW m \in Payloads, Produce(m) PROVE TypeOK'
    BY <1>2, ProduceExtends DEF Produce, processVars, TypeOK
  <1>3. CASE Start
    BY <1>3 DEF Start, TypeOK
  <1>4. CASE Poll
    <2> PICK n \in 1..MaxPoll : limit' = cursor + n
      BY <1>4 DEF Poll
    <2> QED BY <1>4, ConsumerAssumption DEF Poll, TypeOK
  <1>5. CASE StoreEvent
    BY <1>5 DEF StoreEvent, TypeOK
  <1>6. CASE Quarantine
    <2>1. cursor + 1 \in Nat
      BY DEF TypeOK
    <2> QED BY <1>6, <2>1, AppendQuarantines DEF Quarantine, TypeOK
  <1>7. CASE PollRaises \/ MeetPoison
    BY <1>7 DEF PollRaises, MeetPoison, Exit, TypeOK
  <1>8. CASE CommitOffset
    BY <1>8 DEF CommitOffset, TypeOK
  <1>9. CASE QuarantineRetriedInternally
    <2>1. cursor + 1 \in Nat
      BY DEF TypeOK
    <2> QED BY <1>9, <2>1, RepeatQuarantines, FailureType
            DEF QuarantineRetriedInternally, TypeOK
  <1>10. CASE QuarantineFails
    <2>1. cursor + 1 \in Nat
      BY DEF TypeOK
    <2> QED BY <1>10, <2>1, AppendQuarantines, FailureType
            DEF QuarantineFails, Exit, TypeOK
  <1>11. CASE CommitFails
    BY <1>11, FailureType DEF CommitFails, Exit, TypeOK
  <1>12. CASE Crash
    BY <1>12, FailureType DEF Crash, Exit, TypeOK
  <1>13. CASE Killed
    BY <1>13 DEF Killed, Exit, TypeOK
  <1> QED BY <1>1, <1>2, <1>3, <1>4, <1>5, <1>6, <1>7, <1>8, <1>9, <1>10,
             <1>11, <1>12, <1>13
          DEF ConsumerStep, Next, ConsumerNext, Proceed, Handle, Fault

(***************************************************************************)
(* The invariant is inductive                                              *)
(***************************************************************************)
\* The initial state satisfies it: nothing is in the topic.
LEMMA InitIInv == Init => IInv
  <1> SUFFICES ASSUME Init PROVE IInv OBVIOUS
  <1>1. TypeOK
    BY ConsumerAssumption DEF Init, TypeOK, Stages
  <1>2. BatchFollowsOffset /\ ToCommitIsSettled
    BY DEF Init, BatchFollowsOffset, ToCommitIsSettled
  <1>3. CommittedIsSettled
    BY DEF Init, CommittedIsSettled
  <1> QED BY <1>1, <1>2, <1>3 DEF IInv

\* A batch is polled from the committed offset, and each commit takes the
\* cursor and the offset one record further.
LEMMA BatchStep == ASSUME IInv, ConsumerStep PROVE BatchFollowsOffset'
  <1> USE DEF BatchFollowsOffset
  <1>0. TypeOK /\ BatchFollowsOffset
    BY DEF IInv
  <1>1. CASE UNCHANGED consumerVars
    BY <1>0, <1>1 DEF consumerVars, processVars
  <1>2. ASSUME NEW m \in Payloads, Produce(m) PROVE BatchFollowsOffset'
    <2>1. Len(topic') = Len(topic) + 1 /\ Len(topic) \in Nat
      BY <1>0, <1>2, ProduceExtends DEF Produce, TypeOK
    <2>2. UNCHANGED <<stage, cursor, limit, committed>>
      BY <1>2 DEF Produce, processVars
    <2> QED BY <1>0, <2>1, <2>2 DEF TypeOK
  <1>3. CASE Start
    BY <1>3 DEF Start
  <1>4. CASE Poll
    <2> PICK n \in 1..MaxPoll : cursor + n <= Len(topic) /\ limit' = cursor + n
      BY <1>4 DEF Poll
    <2>1. n \in Nat /\ n >= 1 /\ n <= MaxPoll /\ cursor \in Nat /\ MaxPoll \in Nat
      BY <1>0, ConsumerAssumption DEF TypeOK
    <2> QED BY <1>0, <1>4, <2>1 DEF Poll
  <1>5. CASE StoreEvent \/ Quarantine \/ QuarantineRetriedInternally
    BY <1>0, <1>5 DEF StoreEvent, Quarantine, QuarantineRetriedInternally
  <1>6. CASE CommitOffset
    <2>1. /\ cursor = committed /\ cursor < limit /\ cursor \in Nat /\ limit \in Nat
          /\ limit <= Len(topic) /\ limit <= committed + MaxPoll
          /\ MaxPoll \in Nat /\ Len(topic) \in Nat
      BY <1>0, <1>6, ConsumerAssumption DEF CommitOffset, TypeOK
    <2>2. /\ cursor' = cursor + 1 /\ committed' = cursor + 1
          /\ UNCHANGED <<topic, limit>>
          /\ stage' = IF cursor' = limit THEN "poll" ELSE "handle"
      BY <1>6 DEF CommitOffset
    <2>3. CASE cursor + 1 = limit
      BY <2>2, <2>3
    <2>4. CASE cursor + 1 # limit
      <3>1. cursor + 1 < limit
        BY <2>1, <2>4
      <3> QED BY <2>1, <2>2, <2>4, <3>1
    <2> QED BY <2>3, <2>4
  <1>7. CASE PollRaises \/ MeetPoison \/ QuarantineFails \/ CommitFails \/ Crash \/ Killed
    BY <1>7 DEF PollRaises, MeetPoison, QuarantineFails, CommitFails, Crash, Killed, Exit
  <1> QED BY <1>1, <1>2, <1>3, <1>4, <1>5, <1>6, <1>7
          DEF ConsumerStep, Next, ConsumerNext, Proceed, Handle, Fault

\* What is in the topic, in the table and in the dead-letter topic stays there.
LEMMA NothingIsTakenBack ==
    ASSUME IInv, ConsumerStep
    PROVE  /\ Len(topic) <= Len(topic')
           /\ \A i \in 1..Len(topic) : topic'[i] = topic[i]
           /\ StoredIds \subseteq StoredIds'
           /\ Quarantined \subseteq Quarantined'
  <1>0. TypeOK /\ topic \in Seq(Payloads) /\ Len(topic) \in Nat /\ cursor + 1 \in Nat
    BY DEF IInv, TypeOK
  <1>1. UNCHANGED dlq => Quarantined \subseteq Quarantined'
    BY DEF Quarantined
  <1>2. UNCHANGED store => StoredIds \subseteq StoredIds'
    BY DEF StoredIds
  <1>3. CASE UNCHANGED <<topic, store, dlq>>
    BY <1>0, <1>1, <1>2, <1>3
  <1>4. ASSUME NEW m \in Payloads, Produce(m)
        PROVE  /\ Len(topic) <= Len(topic')
               /\ \A i \in 1..Len(topic) : topic'[i] = topic[i]
               /\ UNCHANGED <<store, dlq>>
    BY <1>0, <1>4, ProduceExtends DEF Produce
  <1>5. CASE StoreEvent
    BY <1>0, <1>1, <1>5, StoringKeepsTheId DEF StoreEvent
  <1>6. CASE Quarantine
    BY <1>0, <1>2, <1>6, AppendQuarantines DEF Quarantine
  <1>7. CASE QuarantineRetriedInternally
    BY <1>0, <1>2, <1>7, RepeatQuarantines DEF QuarantineRetriedInternally
  <1>8. CASE QuarantineFails
    <2>1. dlq' = dlq \/ dlq' = Append(dlq, cursor + 1)
      BY <1>8 DEF QuarantineFails
    <2>2. UNCHANGED <<topic, store>>
      BY <1>8 DEF QuarantineFails
    <2> QED BY <1>0, <1>1, <1>2, <2>1, <2>2, AppendQuarantines
  <1>9. UNCHANGED consumerVars \/ Start \/ Poll \/ PollRaises \/ MeetPoison \/ CommitOffset
          \/ CommitFails \/ Crash \/ Killed
        => UNCHANGED <<topic, store, dlq>>
    BY DEF consumerVars, Start, Poll, PollRaises, MeetPoison, CommitOffset, CommitFails, Crash,
           Killed
  <1> QED BY <1>1, <1>2, <1>3, <1>4, <1>5, <1>6, <1>7, <1>8, <1>9
          DEF ConsumerStep, Next, ConsumerNext, Proceed, Handle, Fault

\* So a record that was settled once stays settled.
LEMMA SettledLasts ==
    ASSUME IInv, ConsumerStep, NEW i \in 1..Len(topic), Settled(i)
    PROVE  Settled(i)'
  <1>1. topic'[i] = topic[i]
    BY NothingIsTakenBack
  <1>2. StoredIds \subseteq StoredIds' /\ Quarantined \subseteq Quarantined'
    BY NothingIsTakenBack
  <1> QED BY <1>1, <1>2 DEF Settled

\* The record is stored or quarantined in the step that makes it the next to
\* be committed.
LEMMA ToCommitStep == ASSUME IInv, ConsumerStep PROVE ToCommitIsSettled'
  <1> SUFFICES ASSUME stage' = "commit" PROVE Settled(cursor + 1)'
    BY DEF ToCommitIsSettled
  <1>0. TypeOK
    BY DEF IInv
  <1>1. CASE stage = "commit" /\ UNCHANGED cursor
    <2>1. Settled(cursor + 1) /\ cursor + 1 \in 1..Len(topic)
      BY <1>1, RecordIsInTopic DEF IInv, ToCommitIsSettled
    <2> QED BY <1>1, <2>1, SettledLasts DEF Settled
  <1>2. CASE StoreEvent
    <2>1. EventId[Record] \in StoredIds'
      BY <1>2, StoringKeepsTheId
    <2> QED BY <1>2, <2>1 DEF StoreEvent, Settled, Record
  <1>3. CASE Quarantine \/ QuarantineRetriedInternally
    <2>1. cursor + 1 \in Nat
      BY <1>0 DEF TypeOK
    <2>2. cursor + 1 \in Quarantined'
      BY <1>0, <1>3, <2>1, AppendQuarantines, RepeatQuarantines
         DEF Quarantine, QuarantineRetriedInternally
    <2> QED BY <1>3, <2>2 DEF Quarantine, QuarantineRetriedInternally, Settled, Record
  <1>4. CASE UNCHANGED consumerVars \/ \E m \in Payloads : Produce(m)
    BY <1>1, <1>4 DEF consumerVars, processVars, Produce
  <1>5. ~(Start \/ Poll \/ PollRaises \/ MeetPoison \/ CommitOffset \/ QuarantineFails
          \/ CommitFails \/ Crash \/ Killed)
    BY DEF Start, Poll, PollRaises, MeetPoison, CommitOffset, QuarantineFails, CommitFails,
           Crash, Killed, Exit
  <1> QED BY <1>2, <1>3, <1>4, <1>5
          DEF ConsumerStep, Next, ConsumerNext, Proceed, Handle, Fault

\* The offset stays or moves over the settled record at the cursor, whether
\* the commit is acknowledged or not.
LEMMA OffsetMoves ==
    ASSUME IInv, ConsumerStep
    PROVE  \/ UNCHANGED committed
           \/ /\ stage = "commit" /\ committed' = committed + 1
              /\ UNCHANGED <<topic, store, dlq>>
  <1>1. CASE CommitOffset \/ CommitFails
    <2>1. stage = "commit" /\ UNCHANGED <<topic, store, dlq>>
      BY <1>1 DEF CommitOffset, CommitFails
    <2>2. committed' = committed \/ committed' = cursor + 1
      BY <1>1 DEF CommitOffset, CommitFails
    <2> QED BY <2>1, <2>2, RecordIsInTopic
  <1>2. ASSUME NEW m \in Payloads, Produce(m) PROVE UNCHANGED committed
    BY <1>2 DEF Produce
  <1>3. CASE UNCHANGED consumerVars \/ Start \/ Poll \/ PollRaises \/ Handle \/ Killed
             \/ QuarantineRetriedInternally \/ QuarantineFails \/ Crash
    BY <1>3 DEF consumerVars, Start, Poll, Handle, StoreEvent, Quarantine, PollRaises, MeetPoison,
                Killed, QuarantineRetriedInternally, QuarantineFails, Crash
  <1> QED BY <1>1, <1>2, <1>3 DEF ConsumerStep, Next, ConsumerNext, Proceed, Fault

\* The group never commits past a record that is not settled.
LEMMA CommittedStep == ASSUME IInv, ConsumerStep PROVE CommittedIsSettled'
  <1>0. /\ committed \in Nat /\ committed <= Len(topic) /\ Len(topic) \in Nat
        /\ \A i \in 1..committed : Settled(i)
    BY DEF IInv, TypeOK, CommittedIsSettled
  <1>1. CASE UNCHANGED committed
    <2>1. committed <= Len(topic') /\ Len(topic') \in Nat
      BY <1>0, <1>1, NothingIsTakenBack, TypeStep DEF IInv, TypeOK
    <2>2. ASSUME NEW i \in 1..committed PROVE Settled(i)'
      BY <1>0, SettledLasts
    <2> QED BY <1>1, <2>1, <2>2 DEF CommittedIsSettled
  <1>2. CASE /\ stage = "commit" /\ committed' = committed + 1
             /\ UNCHANGED <<topic, store, dlq>>
    <2>1. Settled(committed + 1) /\ committed + 1 <= Len(topic)
      BY <1>0, <1>2, RecordIsInTopic DEF IInv, ToCommitIsSettled
    <2>2. \A i \in 1..committed' : Settled(i)
      BY <1>0, <1>2, <2>1
    <2>3. ASSUME NEW i \in 1..committed' PROVE Settled(i)'
      BY <1>2, <2>2 DEF Settled, StoredIds, Quarantined
    <2> QED BY <1>2, <2>1, <2>3 DEF CommittedIsSettled
  <1> QED BY <1>1, <1>2, OffsetMoves

\* Every step of the consumer keeps the invariant.
LEMMA IInvStep == ASSUME IInv, ConsumerStep PROVE IInv'
  BY TypeStep, BatchStep, ToCommitStep, CommittedStep DEF IInv

\* Init => IInv, and the lemma above for a step of the rollout.
LEMMA IInvHolds == RolloutSpec => []IInv
  <1>1. RolloutInit => IInv
    BY InitIInv DEF RolloutInit
  <1>2. IInv /\ [RolloutNext]_rolloutVars => IInv'
    BY IInvStep, RolloutStepsAreConsumerSteps
  <1> QED BY <1>1, <1>2, PTL DEF RolloutSpec

\* The variables of the consumer and of its pods keep their types.
LEMMA PodTypes == TypeOK /\ RolloutTypeOK /\ [RolloutNext]_rolloutVars => RolloutTypeOK'
  <1> SUFFICES ASSUME TypeOK, RolloutTypeOK, [RolloutNext]_rolloutVars
               PROVE  RolloutTypeOK'
    OBVIOUS
  <1>0. TypeOK'
    BY RolloutStepsAreConsumerSteps, TypeStep
  <1> USE DEF ProcessStates, Pods
  <1>1. CASE UNCHANGED rolloutVars
    BY <1>0, <1>1 DEF rolloutVars, podVars, RolloutTypeOK
  <1>2. ASSUME NEW m \in Payloads, Produce(m) /\ UNCHANGED podVars PROVE RolloutTypeOK'
    BY <1>0, <1>2 DEF podVars, RolloutTypeOK
  <1>3. ASSUME NEW p \in Pods, Serve(p) \/ Connect(p) \/ FindLocked(p) \/ Probe(p)
        PROVE  RolloutTypeOK'
    BY <1>0, <1>3 DEF Serve, Connect, FindLocked, Probe, RolloutTypeOK
  <1>4. ASSUME NEW p \in Pods, EndWithLoop(p) PROVE RolloutTypeOK'
    BY <1>0, <1>4 DEF EndWithLoop, RolloutTypeOK
  <1>5. CASE Surge \/ Delete
    BY <1>0, <1>5 DEF Surge, Delete, RolloutTypeOK
  <1>6. CASE Terminate
    BY <1>0, <1>6 DEF Terminate, RolloutTypeOK
  <1> QED BY <1>1, <1>2, <1>3, <1>4, <1>5, <1>6
          DEF RolloutNext, Consume, FailConsuming

\* The variables of the consumer and of its pods keep their types.
THEOREM RolloutTypeCorrectness == RolloutSpec => []RolloutTypeOK
  <1>1. RolloutInit => TypeOK /\ RolloutTypeOK
    BY InitIInv DEF RolloutInit, RolloutTypeOK, ProcessStates, Pods, IInv
  <1>2. RolloutTypeOK => TypeOK
    BY DEF RolloutTypeOK
  <1> QED BY <1>1, <1>2, PodTypes, PTL DEF RolloutSpec

(***************************************************************************)
(* One process consumes                                                    *)
(***************************************************************************)
\* A step of a running loop is taken by the pod that holds the lock.
LEMMA LoopStepKeepsOne ==
    ASSUME PodInv, NEW p \in Pods, Consume(p) \/ FailConsuming(p)
    PROVE  OneProcessConsumes'
  <1>1. LockHolders = {p}
    BY DEF PodInv, OneProcessConsumes, LockHolders, Consume, FailConsuming
  <1>2. EndWithLoop(p) /\ stage' \in Stages
    BY RolloutStepsAreConsumerSteps, TypeStep
       DEF Consume, FailConsuming, PodInv, RolloutTypeOK, TypeOK, RolloutNext
  <1>3. CASE stage' = "down"
    <2>1. \A q \in Pods : process'[q] = IF q = p THEN "ended" ELSE process[q]
      BY <1>2, <1>3 DEF EndWithLoop, PodInv, RolloutTypeOK
    <2>2. LockHolders' = {}
      BY <1>1, <2>1 DEF LockHolders
    <2> QED BY <1>3, <2>2 DEF OneProcessConsumes
  <1>4. CASE stage' # "down"
    <2>1. LockHolders' = {p}
      BY <1>1, <1>2, <1>4 DEF EndWithLoop, LockHolders
    <2> QED BY <1>4, <2>1 DEF OneProcessConsumes
  <1> QED BY <1>3, <1>4

\* The lock is taken when it is free and given up with the loop.
LEMMA PodStep == PodInv /\ [RolloutNext]_rolloutVars => PodInv'
  <1> SUFFICES ASSUME PodInv, [RolloutNext]_rolloutVars PROVE OneProcessConsumes'
    BY PodTypes DEF PodInv, RolloutTypeOK
  <1>0. /\ OneProcessConsumes /\ process \in [Pods -> ProcessStates]
    BY DEF PodInv, RolloutTypeOK
  <1>1. CASE UNCHANGED <<stage, process>>
    BY <1>0, <1>1 DEF OneProcessConsumes, LockHolders
  <1>2. ASSUME NEW p \in Pods, Serve(p) \/ FindLocked(p)
        PROVE  OneProcessConsumes'
    <2>1. LockHolders' = LockHolders
      BY <1>0, <1>2 DEF Serve, FindLocked, LockHolders
    <2>2. UNCHANGED stage
      BY <1>2 DEF Serve, FindLocked, consumerVars, processVars
    <2> QED BY <1>0, <2>1, <2>2 DEF OneProcessConsumes
  <1>3. ASSUME NEW p \in Pods, Connect(p) PROVE OneProcessConsumes'
    <2>1. LockHolders' = {p}
      BY <1>0, <1>3 DEF Connect, LockHolders
    <2> QED BY <1>3, <2>1 DEF Connect, Start, OneProcessConsumes
  <1>4. ASSUME NEW p \in Pods, Consume(p) \/ FailConsuming(p) PROVE OneProcessConsumes'
    BY <1>4, LoopStepKeepsOne
  <1>5. CASE Surge
    <2>1. LockHolders' = LockHolders
      BY <1>0, <1>5 DEF Surge, LockHolders, Pods
    <2>2. UNCHANGED stage
      BY <1>5 DEF Surge, consumerVars, processVars
    <2> QED BY <1>0, <2>1, <2>2 DEF OneProcessConsumes
  <1>6. CASE Terminate
    <2>1. LockHolders' = LockHolders \ {"old"}
      BY <1>0, <1>6 DEF Terminate, LockHolders, Pods
    <2>2. IF "old" \in LockHolders THEN stage' = "down" ELSE UNCHANGED stage
      BY <1>6 DEF Terminate, LockHolders, Pods, Exit, consumerVars, processVars
    <2> QED BY <1>0, <2>1, <2>2 DEF OneProcessConsumes
  <1>7. CASE \/ UNCHANGED rolloutVars \/ Delete
             \/ \E m \in Payloads : Produce(m) /\ UNCHANGED podVars
             \/ \E p \in Pods : Probe(p)
    BY <1>1, <1>7 DEF rolloutVars, podVars, consumerVars, processVars, Delete, Produce, Probe
  <1> QED BY <1>2, <1>3, <1>4, <1>5, <1>6, <1>7 DEF RolloutNext

\* Through restarts and a rolling update at most one process runs the loop,
\* the one that holds the lock of the DuckDB file.
THEOREM RolloutKeepsOneConsumer == RolloutSpec => []OneProcessConsumes
  <1>1. RolloutInit => PodInv
    BY InitIInv DEF RolloutInit, PodInv, RolloutTypeOK, OneProcessConsumes, LockHolders,
                    ProcessStates, Pods, Init, IInv
  <1>2. PodInv => OneProcessConsumes
    BY DEF PodInv
  <1> QED BY <1>1, <1>2, PodStep, PTL DEF RolloutSpec

(***************************************************************************)
(* The properties                                                          *)
(***************************************************************************)
\* No record is lost: whichever step a process dies in and whichever pod goes
\* on, the committed offset is behind settled records only.
THEOREM ConsumerCommittedIsSettled == RolloutSpec => []CommittedIsSettled
  <1>1. IInv => CommittedIsSettled
    BY DEF IInv
  <1> QED BY <1>1, IInvHolds, PTL

\* The lag gauge is short of the backlog by one poll at most.
THEOREM LagGaugeIsWithinOnePoll == RolloutSpec => []LagIsWithinOnePoll
  <1>1. IInv => LagIsWithinOnePoll
    <2> SUFFICES ASSUME IInv, stage # "down"
                 PROVE  Len(topic) - committed <= Lag + MaxPoll
      BY DEF LagIsWithinOnePoll
    <2>1. /\ committed \in Nat /\ limit \in Nat /\ Len(topic) \in Nat /\ MaxPoll \in Nat
          /\ stage \in {"poll", "handle", "commit"}
      BY ConsumerAssumption DEF IInv, TypeOK, Stages
    <2>2. limit <= committed + MaxPoll
      BY <2>1 DEF IInv, BatchFollowsOffset
    <2> QED BY <2>1, <2>2 DEF Lag
  <1> QED BY <1>1, IInvHolds, PTL

(***************************************************************************)
(* The refinement                                                          *)
(***************************************************************************)
\* A step of the consumer is a step of RecordSettling or leaves what it
\* speaks of as it was.
LEMMA SettlingStep == ASSUME IInv, ConsumerStep PROVE [Settling!Next]_(Settling!vars)
  <1> USE DEF Settling!Next, Settling!vars
  <1>0. TypeOK /\ cursor + 1 \in Nat
    BY DEF IInv, TypeOK
  <1>1. CASE UNCHANGED <<topic, committed, store, dlq>>
    BY <1>1 DEF StoredIds, Quarantined
  <1>2. ASSUME NEW m \in Payloads, Produce(m) PROVE Settling!Produce
    <2>1. UNCHANGED <<committed, StoredIds, Quarantined>>
      BY <1>2 DEF Produce, StoredIds, Quarantined
    <2> QED BY <1>0, <1>2, <2>1, ProduceExtends DEF Produce, Settling!Produce
  <1>3. CASE StoreEvent
    <2>1. /\ topic[committed + 1] \in Valid /\ committed < Len(topic)
          /\ UNCHANGED <<topic, committed, dlq>>
      BY <1>3, RecordIsInTopic DEF StoreEvent, Record
    <2>2. StoredIds' = StoredIds \cup {EventId[topic[committed + 1]]}
      BY <1>3, StoringKeepsTheId, RecordIsInTopic DEF StoreEvent, Record
    <2> QED BY <2>1, <2>2
            DEF Settling!Keep, Settling!HasNext, Settling!NextRecord, Quarantined
  <1>4. ASSUME stage = "handle", Record \in Malformed, UNCHANGED <<topic, committed, store>>,
               Quarantined' = Quarantined \cup {cursor + 1}
        PROVE  Settling!SetAside
    <2>1. committed = cursor /\ committed < Len(topic) /\ topic[committed + 1] \in Malformed
      BY <1>4, RecordIsInTopic DEF Record
    <2> QED BY <1>4, <2>1
            DEF Settling!SetAside, Settling!HasNext, Settling!NextRecord, StoredIds
  <1>5. CASE Quarantine
    BY <1>0, <1>4, <1>5, AppendQuarantines DEF Quarantine
  <1>6. CASE QuarantineRetriedInternally
    BY <1>0, <1>4, <1>6, RepeatQuarantines DEF QuarantineRetriedInternally
  <1>7. CASE QuarantineFails
    <2>1. dlq' = dlq \/ dlq' = Append(dlq, cursor + 1)
      BY <1>7 DEF QuarantineFails
    <2> QED BY <1>0, <1>1, <1>4, <1>7, <2>1, AppendQuarantines DEF QuarantineFails
  <1>8. ASSUME stage = "commit", committed' = committed + 1, UNCHANGED <<topic, store, dlq>>
        PROVE  Settling!Advance
    <2>1. committed < Len(topic) /\ Settled(committed + 1)
      BY <1>8, RecordIsInTopic DEF IInv, ToCommitIsSettled
    <2> QED BY <1>8, <2>1
            DEF Settling!Advance, Settling!HasNext, Settling!Settled, Settling!NextRecord,
                Settled, StoredIds, Quarantined
  <1>9. CASE CommitOffset \/ CommitFails
    BY <1>1, <1>8, <1>9, OffsetMoves DEF CommitOffset, CommitFails
  <1>10. CASE UNCHANGED consumerVars \/ Start \/ Poll \/ PollRaises \/ MeetPoison \/ Crash \/ Killed
    BY <1>1, <1>10 DEF consumerVars, Start, Poll, PollRaises, MeetPoison, Crash, Killed
  <1> QED BY <1>2, <1>3, <1>5, <1>6, <1>7, <1>9, <1>10
          DEF ConsumerStep, Next, ConsumerNext, Proceed, Handle, Fault

\* The consumer under its rollout implements RecordSettling, its fairness left
\* to TLC: records are settled one after the other, an event once, and the
\* offset moves over a settled record.
THEOREM RolloutImplementsSettling == RolloutSpec => Settling!SafeSpec
  <1>1. RolloutInit => Settling!Init
    BY DEF RolloutInit, Init, Settling!Init, StoredIds, Quarantined
  <1>2. IInv /\ [RolloutNext]_rolloutVars => [Settling!Next]_(Settling!vars)
    BY SettlingStep, RolloutStepsAreConsumerSteps
  <1> QED BY <1>1, <1>2, IInvHolds, PTL DEF RolloutSpec, Settling!SafeSpec
=============================================================================

------------------------ MODULE SensorPipeline_proofs ------------------------
(***************************************************************************)
(* Proofs about the sensor path, for any raw topics and payloads, any      *)
(* number of records, polls of any size and any number of failures.        *)
(***************************************************************************)
EXTENDS SensorPipeline, Functions, TLAPS

(***************************************************************************)
(* The inductive invariant of the processor                                *)
(***************************************************************************)
RawTypes ==
    /\ raw \in [RawTopics -> Seq(Processor!Payloads)]
    /\ \A t \in RawTopics : Len(raw[t]) <= MaxRaw
    /\ committed \in [RawTopics -> Nat]
    /\ position \in [RawTopics -> Nat]
    /\ current \in RawTopics
    /\ cursor \in Nat
    /\ stage \in Processor!Stages
    /\ dlq \in Seq(Processor!Source)
    /\ faults \in 0..MaxFaults

\* Of the topic in hand the next record is the one at the committed offset; of
\* every other topic the fetch position is the committed offset.
BatchFollowsOffset ==
    /\ stage = "poll" => position = committed
    /\ stage \in {"handle", "commit"} =>
           /\ cursor = committed[current]
           /\ cursor < position[current] /\ position[current] <= Len(raw[current])
           /\ \A t \in RawTopics \ {current} : position[t] = committed[t]

\* An offset is about to be committed only over a record that is routed.
ToCommitIsRouted == stage = "commit" => Processor!Routed(current, cursor + 1)

\* What the sink accepts was made from the raw record it names.
IsTrue(m) ==
    LET s == m.source
    IN  /\ m \in CanonicalEvent /\ m \in Processor!CleanEvent
        /\ s.topic \in RawTopics /\ s.offset \in 1..Len(raw[s.topic])
        /\ raw[s.topic][s.offset] \in Good
        /\ Reading[raw[s.topic][s.offset]] = m.reading

CleanIsTrue ==
    \A i \in 1..Len(clean) : clean[i] \in Foreign \/ IsTrue(clean[i])

ProcessorInv ==
    /\ RawTypes
    /\ BatchFollowsOffset
    /\ ToCommitIsRouted
    /\ CommittedIsRouted
    /\ CleanIsTrue

(***************************************************************************)
(* The inductive invariant of the sink                                     *)
(***************************************************************************)
SinkBatchFollowsOffset ==
    /\ sinkStage = "poll" => handled = offset /\ fetched = offset
    /\ sinkStage \in {"handle", "commit"} =>
           /\ handled = offset /\ handled < fetched /\ fetched <= Len(clean)

\* What became of record i: its reading has a row, or the record is in the
\* sink's dead-letter topic.
SettledAt(i) ==
    \/ Accepted(clean[i]) /\ clean[i].reading \in StoredReadings
    \/ Rejected(clean[i]) /\ i \in SinkQuarantined

ToCommitIsSettled == sinkStage = "commit" => SettledAt(handled + 1)

SinkInv ==
    /\ SinkTypeOK
    /\ SinkBatchFollowsOffset
    /\ ToCommitIsSettled
    /\ CommittedIsSettled
    /\ StoredIsFirstCopy

IInv == ProcessorInv /\ SinkInv

(***************************************************************************)
(* Lemmas about the logs                                                   *)
(***************************************************************************)
\* r is the log s with more records at its end.
Extends(r, s) == Len(s) <= Len(r) /\ \A i \in 1..Len(s) : r[i] = s[i]

\* An acknowledged send adds its record at the end of the log.
LEMMA Appended ==
    ASSUME NEW S, NEW s \in Seq(S), NEW e \in S
    PROVE  /\ Append(s, e) \in Seq(S) /\ Extends(Append(s, e), s)
           /\ Range(Append(s, e)) = Range(s) \cup {e}
           /\ \A i \in 1..Len(Append(s, e)) : i \in 1..Len(s) \/ Append(s, e)[i] = e
  <1> DEFINE r == Append(s, e)
  <1>1. /\ r \in Seq(S) /\ Len(r) = Len(s) + 1 /\ Len(s) \in Nat
        /\ \A i \in 1..Len(s) : r[i] = s[i]
        /\ r[Len(s) + 1] = e
        /\ DOMAIN s = 1..Len(s) /\ DOMAIN r = 1..(Len(s) + 1)
    OBVIOUS
  <1> HIDE DEF r
  <1>2. \A i \in 1..Len(r) : i \in 1..Len(s) \/ r[i] = e
    BY <1>1
  <1>3. Range(r) \subseteq Range(s) \cup {e}
    BY <1>1, <1>2 DEF Range
  <1>4. Range(s) \cup {e} \subseteq Range(r)
    <2>1. DOMAIN s \subseteq DOMAIN r /\ Len(s) + 1 \in DOMAIN r
      BY <1>1
    <2> QED BY <1>1, <2>1 DEF Range
  <1>5. Extends(r, s)
    BY <1>1 DEF Extends
  <1>6. r \in Seq(S) /\ Range(r) = Range(s) \cup {e}
    BY <1>1, <1>3, <1>4
  <1> QED BY <1>2, <1>5, <1>6 DEF r

\* A send the producer repeats adds its record twice.
LEMMA Repeated ==
    ASSUME NEW S, NEW s \in Seq(S), NEW e \in S
    PROVE  /\ s \o <<e, e>> \in Seq(S) /\ Extends(s \o <<e, e>>, s)
           /\ Range(s \o <<e, e>>) = Range(s) \cup {e}
           /\ \A i \in 1..Len(s \o <<e, e>>) : i \in 1..Len(s) \/ (s \o <<e, e>>)[i] = e
  <1> DEFINE r == s \o <<e, e>>
  <1>0. <<e, e>> \in Seq(S)
    OBVIOUS
  <1>1. /\ r \in Seq(S) /\ Len(r) = Len(s) + 2 /\ Len(s) \in Nat
        /\ \A i \in 1..Len(s) : r[i] = s[i]
        /\ r[Len(s) + 1] = e /\ r[Len(s) + 2] = e
        /\ DOMAIN s = 1..Len(s) /\ DOMAIN r = 1..(Len(s) + 2)
    BY <1>0
  <1> HIDE DEF r
  <1>2. \A i \in 1..Len(r) : i \in 1..Len(s) \/ r[i] = e
    BY <1>1
  <1>3. Range(r) \subseteq Range(s) \cup {e}
    BY <1>1, <1>2 DEF Range
  <1>4. Range(s) \cup {e} \subseteq Range(r)
    <2>1. DOMAIN s \subseteq DOMAIN r /\ Len(s) + 1 \in DOMAIN r
      BY <1>1
    <2> QED BY <1>1, <2>1 DEF Range
  <1>5. Extends(r, s)
    BY <1>1 DEF Extends
  <1>6. r \in Seq(S) /\ Range(r) = Range(s) \cup {e}
    BY <1>1, <1>3, <1>4
  <1> QED BY <1>2, <1>5, <1>6 DEF r

(***************************************************************************)
(* Lemmas about the processor                                              *)
(***************************************************************************)
\* The record at the cursor is in the topic while it is handled.
LEMMA RecordIsInRaw ==
    ASSUME ProcessorInv, stage \in {"handle", "commit"}
    PROVE  /\ current \in RawTopics /\ cursor \in Nat /\ cursor = committed[current]
           /\ cursor + 1 \in 1..Len(raw[current])
           /\ cursor + 1 <= position[current]
           /\ raw[current][cursor + 1] \in Processor!Payloads
  <1>1. /\ current \in RawTopics /\ raw[current] \in Seq(Processor!Payloads)
        /\ cursor \in Nat /\ position[current] \in Nat /\ Len(raw[current]) \in Nat
    BY DEF ProcessorInv, RawTypes
  <1>2. /\ cursor = committed[current] /\ cursor < position[current]
        /\ position[current] <= Len(raw[current])
    BY DEF ProcessorInv, BatchFollowsOffset
  <1> QED BY <1>1, <1>2

\* The canonical event of a good record names that record.
LEMMA CanonicalIsTrue ==
    ASSUME ProcessorInv, stage = "handle", Processor!Payload \in Good
    PROVE  /\ IsTrue(Processor!Canonical)
           /\ Processor!Canonical \notin Foreign
           /\ Processor!Canonical.source = Processor!Here
  <1> USE DEF Processor!Canonical, Processor!Here, Processor!Payload
  <1>1. /\ current \in RawTopics /\ cursor + 1 \in Nat
        /\ cursor + 1 \in 1..Len(raw[current]) /\ Len(raw[current]) <= MaxRaw
        /\ Len(raw[current]) \in Nat /\ MaxRaw \in Nat
    BY RecordIsInRaw, PipelineAssumption
       DEF ProcessorInv, RawTypes, Processor!ProcessorAssumption
  <1>2. cursor + 1 \in 1..MaxRaw
    BY <1>1
  <1>3. Processor!Here \in Sources /\ Processor!Here \in Processor!Source
    BY <1>1, <1>2, PipelineAssumption DEF Processor!Source
  <1>4. Reading[Processor!Payload] \in Processor!Normalized
    BY DEF Processor!Normalized
  <1>5. Reading[Processor!Payload] \in Readings
    BY <1>4, PipelineAssumption
  <1>6. Processor!Canonical \in CanonicalEvent /\ Processor!Canonical \in Processor!CleanEvent
    BY <1>3, <1>4, <1>5 DEF CanonicalEvent, Processor!CleanEvent
  <1>7. Processor!Canonical \notin Foreign
    BY <1>6, SinkAssumption
  <1> QED BY <1>1, <1>6, <1>7 DEF IsTrue

\* What a step of the processor may do to the two outputs: nothing, or add the
\* output of the record in hand, once or twice.
OutputsStay == UNCHANGED <<clean, dlq>>

CleanGets ==
    /\ stage = "handle" /\ Processor!Payload \in Good
    /\ clean' = Append(clean, Processor!Canonical)
         \/ clean' = clean \o <<Processor!Canonical, Processor!Canonical>>
    /\ UNCHANGED <<raw, committed, dlq, cursor, current>>

DlqGets ==
    /\ stage = "handle" /\ Processor!Payload \in RawMalformed
    /\ dlq' = Append(dlq, Processor!Here)
         \/ dlq' = dlq \o <<Processor!Here, Processor!Here>>
    /\ UNCHANGED <<raw, committed, clean, cursor, current>>

LEMMA OutputsOfAStep ==
    ASSUME Processor!ProcessorNext
    PROVE  /\ OutputsStay \/ CleanGets \/ DlqGets
           /\ UNCHANGED raw
           /\ stage' = "commit" =>
                  \/ stage = "handle" /\ (CleanGets \/ DlqGets)
                  \/ stage = "commit" /\ OutputsStay /\ UNCHANGED <<cursor, current>>
  <1> USE DEF OutputsStay, CleanGets, DlqGets, Processor!Exit
  <1>1. CASE Processor!Start \/ \E t \in RawTopics : Processor!Poll(t)
    BY <1>1 DEF Processor!Start, Processor!Poll
  <1>2. CASE Processor!PublishClean
    BY <1>2 DEF Processor!PublishClean
  <1>3. CASE Processor!PublishDlq
    BY <1>3 DEF Processor!PublishDlq
  <1>4. CASE Processor!PublishRetriedInternally
    BY <1>4 DEF Processor!PublishRetriedInternally
  <1>5. CASE Processor!PublishFails
    BY <1>5 DEF Processor!PublishFails
  <1>6. CASE Processor!MeetPoison
    BY <1>6 DEF Processor!MeetPoison
  <1>7. CASE Processor!CommitOffset
    BY <1>7 DEF Processor!CommitOffset, Processor!NextRecord
  <1>8. CASE Processor!CommitFails \/ Processor!Crash
    BY <1>8 DEF Processor!CommitFails, Processor!Crash
  <1> QED BY <1>1, <1>2, <1>3, <1>4, <1>5, <1>6, <1>7, <1>8 DEF Processor!ProcessorNext

\* The dead-letter topic gets the coordinates of the record in hand.
LEMMA DlqGrows ==
    ASSUME ProcessorInv, DlqGets
    PROVE  /\ dlq' \in Seq(Processor!Source)
           /\ Processor!DlqSources' = Processor!DlqSources \cup {Processor!Here}
  <1>1. Processor!Here \in Processor!Source /\ dlq \in Seq(Processor!Source)
    BY RecordIsInRaw DEF DlqGets, Processor!Here, Processor!Source, ProcessorInv, RawTypes
  <1>2. dlq' \in Seq(Processor!Source) /\ Range(dlq') = Range(dlq) \cup {Processor!Here}
    <2> DEFINE h == Processor!Here
               S == Processor!Source
    <2>1. dlq \in Seq(S) /\ h \in S
      BY <1>1
    <2>2. dlq' = Append(dlq, h) \/ dlq' = dlq \o <<h, h>>
      BY DEF DlqGets
    <2> HIDE DEF h, S
    <2>3. dlq' \in Seq(S) /\ Range(dlq') = Range(dlq) \cup {h}
      <3>1. CASE dlq' = Append(dlq, h)
        BY <2>1, <3>1, Appended
      <3>2. CASE dlq' = dlq \o <<h, h>>
        BY <2>1, <3>2, Repeated
      <3> QED BY <2>2, <3>1, <3>2
    <2> QED BY <2>3 DEF h, S
  <1> QED BY <1>2 DEF Processor!DlqSources, Range

\* The clean topic gets the canonical event of the record in hand.
LEMMA CleanGrows ==
    ASSUME IInv, CleanGets
    PROVE  /\ clean' \in Seq(CanonicalEvent \cup Foreign)
           /\ Extends(clean', clean)
           /\ \A i \in 1..Len(clean') : i \in 1..Len(clean) \/ clean'[i] = Processor!Canonical
           /\ Processor!Outputs' = Processor!Outputs \cup {Processor!Canonical}
  <1>1. /\ clean \in Seq(CanonicalEvent \cup Foreign)
        /\ Processor!Canonical \in CanonicalEvent \cup Foreign
        /\ Processor!Canonical \in Processor!CleanEvent
    BY CanonicalIsTrue DEF CleanGets, IInv, IsTrue, SinkInv, SinkTypeOK
  <1> DEFINE c == Processor!Canonical
             Records == CanonicalEvent \cup Foreign
  <1>2. /\ clean' \in Seq(Records) /\ Extends(clean', clean)
        /\ Range(clean') = Range(clean) \cup {c}
        /\ \A i \in 1..Len(clean') : i \in 1..Len(clean) \/ clean'[i] = c
    <2>1. clean \in Seq(Records) /\ c \in Records
      BY <1>1
    <2>2. clean' = Append(clean, c) \/ clean' = clean \o <<c, c>>
      BY DEF CleanGets
    <2> HIDE DEF c, Records
    <2>3. CASE clean' = Append(clean, c)
      BY <2>1, <2>3, Appended
    <2>4. CASE clean' = clean \o <<c, c>>
      BY <2>1, <2>4, Repeated
    <2> QED BY <2>2, <2>3, <2>4
  <1> QED BY <1>1, <1>2 DEF Processor!Outputs, Range

\* A raw record is added at the end of its topic.
LEMMA CollectAdds ==
    ASSUME RawTypes, NEW t \in RawTopics, NEW m \in Processor!Payloads, Processor!Collect(t, m)
    PROVE  RawTypes' /\ \A u \in RawTopics : Extends(raw'[u], raw[u])
  <1> USE DEF RawTypes
  <1> DEFINE P == Processor!Payloads
  <1>1. /\ raw' = [raw EXCEPT ![t] = Append(raw[t], m)] /\ Len(raw[t]) < MaxRaw
        /\ UNCHANGED <<committed, position, current, cursor, stage, dlq, faults>>
    BY DEF Processor!Collect, Processor!loopVars
  <1>2. MaxRaw \in Nat
    BY PipelineAssumption DEF Processor!ProcessorAssumption
  <1>3. raw[t] \in Seq(P) /\ m \in P
    OBVIOUS
  <1> HIDE DEF P
  <1>4. /\ Append(raw[t], m) \in Seq(P) /\ Extends(Append(raw[t], m), raw[t])
        /\ Len(Append(raw[t], m)) <= MaxRaw
    BY <1>1, <1>2, <1>3, Appended
  <1>5. \A u \in RawTopics : raw[u] \in Seq(P) /\ Extends(raw[u], raw[u])
    BY DEF Extends, P
  <1>6. \A u \in RawTopics : raw'[u] = IF u = t THEN Append(raw[t], m) ELSE raw[u]
    BY <1>1
  <1>7. raw' \in [RawTopics -> Seq(P)]
    BY <1>1, <1>4, <1>5
  <1> QED BY <1>1, <1>4, <1>5, <1>6, <1>7 DEF P

\* A failure is counted within its bound.
LEMMA FaultType == RawTypes /\ Processor!Fault => faults' \in 0..MaxFaults
  BY PipelineAssumption DEF RawTypes, Processor!Fault, Processor!ProcessorAssumption

\* A step of the loop keeps the types.
LEMMA LoopTypes ==
    ASSUME ProcessorInv, Processor!ProcessorNext
    PROVE  RawTypes'
  <1> USE DEF RawTypes, Processor!Stages, Processor!Exit
  <1>0. RawTypes
    BY DEF ProcessorInv
  <1>1. dlq' \in Seq(Processor!Source) /\ UNCHANGED raw
    BY <1>0, OutputsOfAStep, DlqGrows DEF OutputsStay, CleanGets
  <1>2. CASE Processor!Start
    BY <1>0, <1>1, <1>2 DEF Processor!Start
  <1>3. ASSUME NEW t \in RawTopics, Processor!Poll(t) PROVE RawTypes'
    <2> PICK n \in 1..MaxPoll : position' = [position EXCEPT ![t] = @ + n]
      BY <1>3 DEF Processor!Poll
    <2>1. position[t] + n \in Nat /\ position[t] \in Nat
      BY <1>0, PipelineAssumption DEF Processor!ProcessorAssumption
    <2> QED BY <1>0, <1>1, <1>3, <2>1 DEF Processor!Poll
  <1>4. CASE Processor!PublishClean \/ Processor!PublishDlq \/ Processor!MeetPoison
    BY <1>0, <1>1, <1>4 DEF Processor!PublishClean, Processor!PublishDlq, Processor!MeetPoison
  <1>5. CASE Processor!PublishRetriedInternally \/ Processor!PublishFails
    BY <1>0, <1>1, <1>5, FaultType
       DEF Processor!PublishRetriedInternally, Processor!PublishFails
  <1>6. CASE Processor!CommitOffset
    BY <1>0, <1>1, <1>6 DEF Processor!CommitOffset, Processor!NextRecord
  <1>7. CASE Processor!CommitFails \/ Processor!Crash
    BY <1>0, <1>1, <1>7, FaultType DEF Processor!CommitFails, Processor!Crash
  <1> QED BY <1>2, <1>3, <1>4, <1>5, <1>6, <1>7 DEF Processor!ProcessorNext

\* The next record of the batch is the one at the committed offset.
LEMMA LoopBatch ==
    ASSUME ProcessorInv, Processor!ProcessorNext
    PROVE  BatchFollowsOffset'
  <1> USE DEF BatchFollowsOffset
  <1>0. RawTypes /\ BatchFollowsOffset /\ UNCHANGED raw
    BY OutputsOfAStep DEF ProcessorInv
  <1>1. CASE Processor!Start
    BY <1>1 DEF Processor!Start
  <1>2. ASSUME NEW t \in RawTopics, Processor!Poll(t) PROVE BatchFollowsOffset'
    <2> PICK n \in 1..MaxPoll : /\ position[t] + n <= Len(raw[t])
                                /\ position' = [position EXCEPT ![t] = @ + n]
      BY <1>2 DEF Processor!Poll
    <2>1. position = committed /\ current' = t /\ cursor' = position[t]
          /\ stage' = "handle" /\ UNCHANGED committed
      BY <1>0, <1>2 DEF Processor!Poll
    <2>2. n \in Nat /\ n >= 1 /\ position[t] \in Nat
      BY <1>0, PipelineAssumption DEF Processor!ProcessorAssumption, RawTypes
    <2>3. position'[t] = position[t] + n /\ \A u \in RawTopics \ {t} : position'[u] = position[u]
      BY <1>0 DEF RawTypes
    <2> QED BY <1>0, <2>1, <2>2, <2>3
  <1>3. CASE Processor!PublishClean \/ Processor!PublishDlq \/ Processor!PublishRetriedInternally
    BY <1>0, <1>3 DEF Processor!PublishClean, Processor!PublishDlq,
                      Processor!PublishRetriedInternally
  <1>4. CASE Processor!CommitOffset
    <2>1. /\ current \in RawTopics /\ cursor = committed[current] /\ cursor \in Nat
          /\ cursor < position[current] /\ position[current] <= Len(raw[current])
          /\ position[current] \in Nat
          /\ \A t \in RawTopics \ {current} : position[t] = committed[t]
      BY <1>0, <1>4 DEF Processor!CommitOffset, RawTypes
    <2>2. /\ committed' = [committed EXCEPT ![current] = cursor + 1]
          /\ cursor' = cursor + 1 /\ UNCHANGED <<position, current>>
          /\ stage' = IF cursor + 1 = position[current] THEN "poll" ELSE "handle"
      BY <1>4 DEF Processor!CommitOffset, Processor!NextRecord
    <2>3. /\ committed'[current] = cursor + 1
          /\ \A t \in RawTopics \ {current} : committed'[t] = committed[t]
      BY <1>0, <2>1, <2>2 DEF RawTypes
    <2>4. CASE cursor + 1 = position[current]
      <3>1. \A t \in RawTopics : position[t] = committed'[t]
        BY <2>1, <2>3, <2>4
      <3>2. position' = committed'
        BY <1>0, <2>2, <3>1 DEF RawTypes
      <3> QED BY <2>2, <2>4, <3>2
    <2>5. CASE cursor + 1 # position[current]
      <3>1. cursor + 1 < position[current]
        BY <2>1, <2>5
      <3> QED BY <1>0, <2>1, <2>2, <2>3, <2>5, <3>1
    <2> QED BY <2>4, <2>5
  <1>5. CASE Processor!PublishFails \/ Processor!MeetPoison \/ Processor!CommitFails
             \/ Processor!Crash
    BY <1>5 DEF Processor!PublishFails, Processor!MeetPoison, Processor!CommitFails,
                Processor!Crash, Processor!Exit
  <1> QED BY <1>1, <1>2, <1>3, <1>4, <1>5 DEF Processor!ProcessorNext

\* An offset stays or moves over the routed record in hand.
LEMMA OffsetMoves ==
    ASSUME ProcessorInv, Processor!ProcessorNext
    PROVE  \/ UNCHANGED committed
           \/ /\ stage = "commit"
              /\ committed' = [committed EXCEPT ![current] = cursor + 1]
              /\ UNCHANGED <<raw, clean, dlq>>
  <1> USE DEF Processor!Exit
  <1>1. CASE Processor!CommitOffset \/ Processor!CommitFails
    BY <1>1 DEF Processor!CommitOffset, Processor!CommitFails
  <1>2. CASE Processor!Start \/ \E t \in RawTopics : Processor!Poll(t)
    BY <1>2 DEF Processor!Start, Processor!Poll
  <1>3. CASE Processor!PublishClean \/ Processor!PublishDlq \/ Processor!MeetPoison
             \/ Processor!PublishRetriedInternally \/ Processor!PublishFails \/ Processor!Crash
    BY <1>3 DEF Processor!PublishClean, Processor!PublishDlq, Processor!MeetPoison,
                Processor!PublishRetriedInternally, Processor!PublishFails, Processor!Crash
  <1> QED BY <1>1, <1>2, <1>3 DEF Processor!ProcessorNext

(***************************************************************************)
(* A step of the path                                                      *)
(***************************************************************************)
\* The sink reads the clean topic and writes nothing of the processor.
LEMMA SinkKeepsClean == SinkNext => UNCHANGED clean
  BY DEF SinkNext, SinkStart, SinkPoll, StoreEvent, Store, SinkQuarantine, SinkQuarantineTwice,
         SinkQuarantineFails, SinkMeetPoison, SinkPollRaises, SinkCommit, SinkCommitFails, SinkCrash

\* A step is the sink's or none, a raw record, the processor's, or an intruder.
LEMMA StepKinds ==
    ASSUME [Next]_vars
    PROVE  \/ UNCHANGED <<processorOnly, clean>>
           \/ /\ \E t \in RawTopics, m \in Processor!Payloads : Processor!Collect(t, m)
              /\ UNCHANGED sinkOnly
           \/ Processor!ProcessorNext /\ UNCHANGED sinkOnly
           \/ /\ \E m \in Foreign : clean' = Append(clean, m)
              /\ UNCHANGED <<processorOnly, sinkOnly>>
  <1>1. CASE UNCHANGED vars
    BY <1>1 DEF vars
  <1>2. CASE ProcessorStep
    BY <1>2 DEF ProcessorStep, Processor!Next
  <1>3. CASE SinkStep
    BY <1>3, SinkKeepsClean DEF SinkStep
  <1>4. ASSUME NEW m \in Foreign, Intrude(m)
        PROVE  clean' = Append(clean, m) /\ UNCHANGED <<processorOnly, sinkOnly>>
    BY <1>4 DEF Intrude, Publish, sinkOnly, sinkLoop
  <1> QED BY <1>1, <1>2, <1>3, <1>4 DEF Next

\* A record of another producer is no output of the processor.
LEMMA IntruderIsNoOutput ==
    ASSUME SinkTypeOK, NEW m \in Foreign, clean' = Append(clean, m)
    PROVE  /\ clean' \in Seq(CanonicalEvent \cup Foreign)
           /\ Extends(clean', clean)
           /\ \A i \in 1..Len(clean') : i \in 1..Len(clean) \/ clean'[i] = m
           /\ Processor!Outputs' = Processor!Outputs
  <1> DEFINE Records == CanonicalEvent \cup Foreign
  <1>1. clean \in Seq(Records) /\ m \in Records
    BY DEF SinkTypeOK
  <1> HIDE DEF Records
  <1>2. /\ clean' \in Seq(Records) /\ Extends(clean', clean)
        /\ Range(clean') = Range(clean) \cup {m}
        /\ \A i \in 1..Len(clean') : i \in 1..Len(clean) \/ clean'[i] = m
    BY <1>1, Appended
  <1>3. m \notin Processor!CleanEvent
    BY PipelineAssumption
  <1> QED BY <1>2, <1>3 DEF Processor!Outputs, Range, Records

\* The logs only grow, so outputs once there stay there.
LEMMA NothingIsTakenBack ==
    ASSUME IInv, [Next]_vars
    PROVE  /\ \A t \in RawTopics : Extends(raw'[t], raw[t])
           /\ Extends(clean', clean)
           /\ clean' \in Seq(CanonicalEvent \cup Foreign)
           /\ Processor!Outputs \subseteq Processor!Outputs'
           /\ Processor!DlqSources \subseteq Processor!DlqSources'
  <1>0. /\ RawTypes /\ clean \in Seq(CanonicalEvent \cup Foreign)
        /\ SinkTypeOK /\ ProcessorInv
    BY DEF IInv, ProcessorInv, SinkInv, SinkTypeOK
  <1>1. \A t \in RawTopics : Extends(raw[t], raw[t])
    BY <1>0 DEF Extends, RawTypes
  <1>2. Extends(clean, clean)
    BY <1>0 DEF Extends
  <1>3. UNCHANGED clean => Processor!Outputs' = Processor!Outputs
    BY DEF Processor!Outputs
  <1>4. UNCHANGED dlq => Processor!DlqSources' = Processor!DlqSources
    BY DEF Processor!DlqSources
  <1>5. CASE UNCHANGED <<processorOnly, clean>>
    BY <1>0, <1>1, <1>2, <1>3, <1>4, <1>5 DEF processorOnly
  <1>6. ASSUME NEW t \in RawTopics, NEW m \in Processor!Payloads, Processor!Collect(t, m)
        PROVE  UNCHANGED <<clean, dlq>> /\ \A u \in RawTopics : Extends(raw'[u], raw[u])
    BY <1>0, <1>6, CollectAdds DEF Processor!Collect
  <1>7. CASE Processor!ProcessorNext
    <2>1. UNCHANGED raw /\ (OutputsStay \/ CleanGets \/ DlqGets)
      BY <1>7, OutputsOfAStep
    <2>2. CASE OutputsStay
      BY <1>0, <1>1, <1>2, <1>3, <1>4, <2>1, <2>2 DEF OutputsStay
    <2>3. CASE CleanGets
      BY <1>1, <1>4, <2>1, <2>3, CleanGrows DEF CleanGets
    <2>4. CASE DlqGets
      BY <1>0, <1>1, <1>2, <1>3, <2>1, <2>4, DlqGrows DEF DlqGets
    <2> QED BY <2>1, <2>2, <2>3, <2>4
  <1>8. ASSUME NEW m \in Foreign, clean' = Append(clean, m), UNCHANGED processorOnly
        PROVE  /\ Extends(clean', clean) /\ UNCHANGED <<raw, dlq>>
               /\ clean' \in Seq(CanonicalEvent \cup Foreign)
               /\ Processor!Outputs' = Processor!Outputs
    BY <1>0, <1>8, IntruderIsNoOutput DEF processorOnly
  <1> QED BY <1>0, <1>1, <1>2, <1>3, <1>4, <1>5, <1>6, <1>7, <1>8, StepKinds

\* So a record that was routed once stays routed.
LEMMA RoutedLasts ==
    ASSUME IInv, [Next]_vars, NEW t \in RawTopics, NEW i \in 1..Len(raw[t]),
           Processor!Routed(t, i)
    PROVE  Processor!Routed(t, i)'
  <1>1. raw'[t][i] = raw[t][i]
    BY NothingIsTakenBack DEF Extends
  <1>2. /\ Processor!CleanSources \subseteq Processor!CleanSources'
        /\ Processor!DlqSources \subseteq Processor!DlqSources'
    BY NothingIsTakenBack DEF Processor!CleanSources
  <1> QED BY <1>1, <1>2 DEF Processor!Routed

\* The variables of the processor keep their types.
LEMMA RawTypesStep == ASSUME IInv, [Next]_vars PROVE RawTypes'
  <1>1. CASE UNCHANGED processorOnly
    BY <1>1 DEF processorOnly, IInv, ProcessorInv, RawTypes
  <1>2. ASSUME NEW t \in RawTopics, NEW p \in Processor!Payloads, Processor!Collect(t, p)
        PROVE  RawTypes'
    BY <1>2, CollectAdds DEF IInv, ProcessorInv
  <1>3. CASE Processor!ProcessorNext
    BY <1>3, LoopTypes DEF IInv
  <1> QED BY <1>1, <1>2, <1>3, StepKinds

\* And a canonical event stays true.
LEMMA TrueLasts ==
    ASSUME IInv, [Next]_vars, NEW m, IsTrue(m)
    PROVE  IsTrue(m)'
  <1> DEFINE s == m.source
  <1>1. /\ s.topic \in RawTopics /\ s.offset \in 1..Len(raw[s.topic])
        /\ Len(raw[s.topic]) \in Nat
    BY DEF IsTrue, IInv, ProcessorInv, RawTypes
  <1>2. Extends(raw'[s.topic], raw[s.topic])
    BY <1>1, NothingIsTakenBack
  <1>3. RawTypes'
    BY RawTypesStep
  <1>4. Len(raw'[s.topic]) \in Nat
    BY <1>1, <1>3 DEF RawTypes
  <1>5. s.offset \in 1..Len(raw'[s.topic]) /\ raw'[s.topic][s.offset] = raw[s.topic][s.offset]
    BY <1>1, <1>2, <1>4 DEF Extends
  <1> QED BY <1>1, <1>5 DEF IsTrue

\* A raw record changes nothing for the batch in hand.
LEMMA BatchStep == ASSUME IInv, [Next]_vars PROVE BatchFollowsOffset'
  <1>0. ProcessorInv /\ RawTypes /\ BatchFollowsOffset
    BY DEF IInv, ProcessorInv
  <1>1. CASE UNCHANGED processorOnly
    BY <1>0, <1>1 DEF processorOnly, BatchFollowsOffset
  <1>2. ASSUME NEW t \in RawTopics, NEW p \in Processor!Payloads, Processor!Collect(t, p)
        PROVE  BatchFollowsOffset'
    <2>1. UNCHANGED <<committed, position, current, cursor, stage>>
      BY <1>2 DEF Processor!Collect, Processor!loopVars
    <2>2. /\ Len(raw[current]) <= Len(raw'[current])
          /\ Len(raw[current]) \in Nat /\ Len(raw'[current]) \in Nat
          /\ position[current] \in Nat
      BY <1>0, NothingIsTakenBack, RawTypesStep, <2>1 DEF RawTypes, Extends
    <2> QED BY <1>0, <2>1, <2>2 DEF BatchFollowsOffset
  <1>3. CASE Processor!ProcessorNext
    BY <1>0, <1>3, LoopBatch
  <1> QED BY <1>1, <1>2, <1>3, StepKinds

\* The record in hand is routed by the step that makes it the next to commit.
LEMMA ToCommitStep == ASSUME IInv, [Next]_vars PROVE ToCommitIsRouted'
  <1> SUFFICES ASSUME stage' = "commit" PROVE Processor!Routed(current, cursor + 1)'
    BY DEF ToCommitIsRouted
  <1>0. ProcessorInv
    BY DEF IInv
  <1>1. CASE stage = "commit" /\ UNCHANGED <<cursor, current>>
    <2>1. /\ current \in RawTopics /\ cursor + 1 \in 1..Len(raw[current])
          /\ Processor!Routed(current, cursor + 1)
      BY <1>0, <1>1, RecordIsInRaw DEF ProcessorInv, ToCommitIsRouted
    <2> QED BY <1>1, <2>1, RoutedLasts DEF Processor!Routed
  <1>2. CASE CleanGets
    <2>1. Processor!Canonical \in Processor!Outputs' /\ Processor!Canonical.source = Processor!Here
      BY <1>0, <1>2, CleanGrows, CanonicalIsTrue DEF CleanGets
    <2>2. Processor!Here \in Processor!CleanSources'
      BY <2>1 DEF Processor!CleanSources
    <2> QED BY <1>2, <2>2 DEF CleanGets, Processor!Routed, Processor!Here, Processor!Payload
  <1>3. CASE DlqGets
    <2>1. Processor!Here \in Processor!DlqSources'
      BY <1>0, <1>3, DlqGrows
    <2> QED BY <1>3, <2>1 DEF DlqGets, Processor!Routed, Processor!Here, Processor!Payload
  <1>4. CASE Processor!ProcessorNext
    BY <1>1, <1>2, <1>3, <1>4, OutputsOfAStep
  <1>5. CASE UNCHANGED processorOnly
    BY <1>1, <1>5 DEF processorOnly
  <1>6. CASE \E t \in RawTopics, m \in Processor!Payloads : Processor!Collect(t, m)
    BY <1>1, <1>6 DEF Processor!Collect, Processor!loopVars
  <1> QED BY <1>4, <1>5, <1>6, StepKinds

\* No offset is committed past a record that is not routed.
LEMMA CommittedStep == ASSUME IInv, [Next]_vars PROVE CommittedIsRouted'
  <1> USE DEF CommittedIsRouted, Processor!CommittedIsRouted
  <1>0. /\ RawTypes /\ RawTypes' /\ ProcessorInv
        /\ \A t \in RawTopics : /\ committed[t] \in Nat /\ committed[t] <= Len(raw[t])
                                /\ \A i \in 1..committed[t] : Processor!Routed(t, i)
    BY RawTypesStep DEF IInv, ProcessorInv, RawTypes
  <1>1. \A t \in RawTopics : /\ Len(raw[t]) <= Len(raw'[t])
                             /\ Len(raw[t]) \in Nat /\ Len(raw'[t]) \in Nat
    <2>1. \A t \in RawTopics : Len(raw[t]) <= Len(raw'[t])
      BY NothingIsTakenBack DEF Extends
    <2>2. \A t \in RawTopics : Len(raw[t]) \in Nat
      BY <1>0 DEF RawTypes
    <2>3. \A t \in RawTopics : Len(raw'[t]) \in Nat
      BY <1>0 DEF RawTypes
    <2> QED BY <2>1, <2>2, <2>3
  <1>2. CASE UNCHANGED committed
    <2> SUFFICES ASSUME NEW t \in RawTopics
                 PROVE  /\ committed[t] <= Len(raw'[t])
                        /\ \A i \in 1..committed[t] : Processor!Routed(t, i)'
      BY <1>2
    <2>1. committed[t] <= Len(raw'[t])
      BY <1>0, <1>1
    <2>2. ASSUME NEW i \in 1..committed[t] PROVE Processor!Routed(t, i)'
      <3>1. i \in 1..Len(raw[t]) /\ Processor!Routed(t, i)
        BY <1>0, <1>1
      <3> QED BY <3>1, RoutedLasts
    <2> QED BY <2>1, <2>2
  <1>3. CASE /\ stage = "commit"
             /\ committed' = [committed EXCEPT ![current] = cursor + 1]
             /\ UNCHANGED <<raw, clean, dlq>>
    <2>1. /\ current \in RawTopics /\ cursor = committed[current]
          /\ cursor + 1 \in 1..Len(raw[current]) /\ Processor!Routed(current, cursor + 1)
      BY <1>0, <1>3, RecordIsInRaw DEF ProcessorInv, ToCommitIsRouted
    <2>2. \A t \in RawTopics : committed'[t] = IF t = current THEN cursor + 1 ELSE committed[t]
      BY <1>0, <1>3 DEF RawTypes
    <2>3. \A t \in RawTopics, i \in Nat : Processor!Routed(t, i)' <=> Processor!Routed(t, i)
      BY <1>3 DEF Processor!Routed, Processor!CleanSources, Processor!DlqSources,
                  Processor!Outputs
    <2> SUFFICES ASSUME NEW t \in RawTopics
                 PROVE  /\ committed'[t] <= Len(raw'[t])
                        /\ \A i \in 1..committed'[t] : Processor!Routed(t, i)'
      OBVIOUS
    <2>4. CASE t = current
      <3>1. \A i \in 1..(cursor + 1) : Processor!Routed(t, i)
        BY <1>0, <2>1, <2>4
      <3> QED BY <1>0, <1>3, <2>1, <2>2, <2>3, <2>4, <3>1
    <2>5. CASE t # current
      BY <1>0, <1>3, <2>2, <2>3, <2>5
    <2> QED BY <2>4, <2>5
  <1>4. UNCHANGED committed
        \/ /\ stage = "commit"
           /\ committed' = [committed EXCEPT ![current] = cursor + 1]
           /\ UNCHANGED <<raw, clean, dlq>>
    BY <1>0, OffsetMoves, StepKinds DEF processorOnly, Processor!Collect
  <1> QED BY <1>2, <1>3, <1>4

\* Whatever enters the clean topic is true of its record or rejected.
LEMMA CleanStep == ASSUME IInv, [Next]_vars PROVE CleanIsTrue'
  <1> SUFFICES ASSUME NEW i \in 1..Len(clean'), NEW m, m = clean'[i]
               PROVE  m \in Foreign \/ IsTrue(m)'
    BY DEF CleanIsTrue, IsTrue
  <1>0. ProcessorInv /\ SinkTypeOK /\ CleanIsTrue
    BY DEF IInv, ProcessorInv, SinkInv
  <1>1. CASE i \in 1..Len(clean)
    <2>1. m = clean[i]
      BY <1>1, NothingIsTakenBack DEF Extends
    <2>2. m \in Foreign \/ IsTrue(m)
      BY <1>0, <1>1, <2>1 DEF CleanIsTrue
    <2> QED BY <2>2, TrueLasts
  <1>2. CASE i \notin 1..Len(clean)
    <2>1. ~UNCHANGED clean
      BY <1>2
    <2>2. CASE Processor!ProcessorNext
      <3>1. CleanGets /\ m = Processor!Canonical
        BY <1>0, <1>2, <2>1, <2>2, OutputsOfAStep, CleanGrows DEF OutputsStay, DlqGets
      <3>2. IsTrue(m)
        BY <1>0, <3>1, CanonicalIsTrue DEF CleanGets
      <3> QED BY <3>2, TrueLasts
    <2>3. ASSUME NEW n \in Foreign, clean' = Append(clean, n)
          PROVE  m \in Foreign
      BY <1>0, <1>2, <2>3, IntruderIsNoOutput
    <2> QED BY <2>1, <2>2, <2>3, StepKinds DEF Processor!Collect
  <1> QED BY <1>1, <1>2

\* Every step of the path keeps the processor's part of the invariant.
LEMMA ProcessorStepKeepsInv == ASSUME IInv, [Next]_vars PROVE ProcessorInv'
  BY RawTypesStep, BatchStep, ToCommitStep, CommittedStep, CleanStep DEF ProcessorInv

(***************************************************************************)
(* The sink                                                                *)
(***************************************************************************)
\* The record in hand is in the clean topic.
LEMMA RecordIsInClean ==
    ASSUME SinkInv, sinkStage \in {"handle", "commit"}
    PROVE  /\ handled = offset /\ handled \in Nat /\ handled + 1 \in 1..Len(clean)
           /\ handled + 1 <= fetched
           /\ InHand \in CanonicalEvent \cup Foreign
  <1>1. /\ clean \in Seq(CanonicalEvent \cup Foreign)
        /\ handled \in Nat /\ fetched \in Nat /\ Len(clean) \in Nat
    BY DEF SinkInv, SinkTypeOK
  <1>2. handled = offset /\ handled < fetched /\ fetched <= Len(clean)
    BY DEF SinkInv, SinkBatchFollowsOffset
  <1> QED BY <1>1, <1>2 DEF InHand

\* A dead-letter record for the record in hand quarantines it.
LEMMA SinkDlqGrows ==
    ASSUME SinkTypeOK,
           \/ sinkDlq' = Append(sinkDlq, handled + 1)
           \/ sinkDlq' = sinkDlq \o <<handled + 1, handled + 1>>
    PROVE  /\ sinkDlq' \in Seq(Nat)
           /\ SinkQuarantined' = SinkQuarantined \cup {handled + 1}
  <1> DEFINE h == handled + 1
  <1>1. sinkDlq \in Seq(Nat) /\ h \in Nat
    BY DEF SinkTypeOK
  <1>2. sinkDlq' = Append(sinkDlq, h) \/ sinkDlq' = sinkDlq \o <<h, h>>
    OBVIOUS
  <1> HIDE DEF h
  <1>3. sinkDlq' \in Seq(Nat) /\ Range(sinkDlq') = Range(sinkDlq) \cup {h}
    <2>1. CASE sinkDlq' = Append(sinkDlq, h)
      BY <1>1, <2>1, Appended
    <2>2. CASE sinkDlq' = sinkDlq \o <<h, h>>
      BY <1>1, <2>2, Repeated
    <2> QED BY <1>2, <2>1, <2>2
  <1> QED BY <1>3 DEF h, SinkQuarantined, Range

\* What a step of the sink may do to the table and its dead-letter topic:
\* nothing, keep the row of the record in hand, or quarantine it.
RowsStay == UNCHANGED <<stored, sinkDlq>>

RowIsKept ==
    /\ sinkStage = "handle" /\ Accepted(InHand)
    /\ stored' = IF InHand.reading \in StoredReadings THEN stored ELSE stored \cup {InHand}
    /\ UNCHANGED <<sinkDlq, offset, handled>>

RecordIsQuarantined ==
    /\ sinkStage = "handle" /\ Rejected(InHand)
    /\ \/ sinkDlq' = Append(sinkDlq, handled + 1)
       \/ sinkDlq' = sinkDlq \o <<handled + 1, handled + 1>>
    /\ UNCHANGED <<stored, offset, handled>>

LEMMA OutcomesOfAStep ==
    ASSUME SinkNext
    PROVE  /\ RowsStay \/ RowIsKept \/ RecordIsQuarantined
           /\ sinkStage' = "commit" => RowIsKept \/ RecordIsQuarantined
           /\ \/ UNCHANGED offset
              \/ sinkStage = "commit" /\ offset' = handled + 1 /\ RowsStay
  <1> USE DEF RowsStay, RowIsKept, RecordIsQuarantined, SinkExit
  <1>1. CASE SinkStart \/ SinkPoll
    BY <1>1 DEF SinkStart, SinkPoll
  <1>2. CASE StoreEvent
    BY <1>2 DEF StoreEvent, Store
  <1>3. CASE SinkQuarantine \/ SinkQuarantineTwice \/ SinkQuarantineFails
    BY <1>3 DEF SinkQuarantine, SinkQuarantineTwice, SinkQuarantineFails
  <1>4. CASE SinkPollRaises \/ SinkMeetPoison \/ SinkCrash
    BY <1>4 DEF SinkPollRaises, SinkMeetPoison, SinkCrash
  <1>5. CASE SinkCommit \/ SinkCommitFails
    BY <1>5 DEF SinkCommit, SinkCommitFails
  <1> QED BY <1>1, <1>2, <1>3, <1>4, <1>5 DEF SinkNext

\* A step of the sink keeps its types.
LEMMA SinkTypes == ASSUME SinkInv, SinkNext PROVE SinkTypeOK'
  <1> USE DEF SinkTypeOK, SinkExit
  <1>0. SinkTypeOK
    BY DEF SinkInv
  <1>1. clean' = clean
    BY SinkKeepsClean
  <1>2. stored' \subseteq CanonicalEvent
    <2>1. CASE RowIsKept
      <3>1. InHand \in CanonicalEvent
        BY <2>1, RecordIsInClean DEF RowIsKept, Accepted
      <3> QED BY <1>0, <2>1, <3>1 DEF RowIsKept
    <2> QED BY <1>0, <2>1, OutcomesOfAStep DEF RowsStay, RecordIsQuarantined
  <1>3. sinkDlq' \in Seq(Nat)
    BY <1>0, OutcomesOfAStep, SinkDlqGrows DEF RowsStay, RowIsKept, RecordIsQuarantined
  <1>4. SinkFault => sinkCrashes' \in 0..MaxCrashes
    BY <1>0, SinkAssumption DEF SinkFault
  <1>5. CASE SinkStart
    BY <1>0, <1>1, <1>2, <1>3, <1>5 DEF SinkStart
  <1>6. CASE SinkPoll
    <2> PICK n \in 1..MaxPoll : fetched' = fetched + n
      BY <1>6 DEF SinkPoll
    <2>1. fetched' \in Nat
      BY <1>0, SinkAssumption
    <2> QED BY <1>0, <1>1, <1>2, <1>3, <1>6, <2>1 DEF SinkPoll
  <1>7. CASE StoreEvent
    BY <1>0, <1>1, <1>2, <1>3, <1>7 DEF StoreEvent, Store
  <1>8. CASE SinkQuarantine \/ SinkQuarantineTwice \/ SinkQuarantineFails
    BY <1>0, <1>1, <1>2, <1>3, <1>4, <1>8
       DEF SinkQuarantine, SinkQuarantineTwice, SinkQuarantineFails
  <1>9. CASE SinkPollRaises \/ SinkMeetPoison \/ SinkCrash
    BY <1>0, <1>1, <1>2, <1>3, <1>4, <1>9 DEF SinkPollRaises, SinkMeetPoison, SinkCrash
  <1>10. CASE SinkCommit \/ SinkCommitFails
    BY <1>0, <1>1, <1>2, <1>3, <1>4, <1>10 DEF SinkCommit, SinkCommitFails
  <1> QED BY <1>5, <1>6, <1>7, <1>8, <1>9, <1>10 DEF SinkNext

\* The next record of the sink's batch is the one at its committed offset.
LEMMA SinkBatch == ASSUME SinkInv, SinkNext PROVE SinkBatchFollowsOffset'
  <1> USE DEF SinkBatchFollowsOffset
  <1>0. SinkTypeOK /\ SinkBatchFollowsOffset /\ UNCHANGED clean
    BY SinkKeepsClean DEF SinkInv
  <1>1. CASE SinkStart
    BY <1>1 DEF SinkStart
  <1>2. CASE SinkPoll
    <2> PICK n \in 1..MaxPoll : fetched + n <= Len(clean) /\ fetched' = fetched + n
      BY <1>2 DEF SinkPoll
    <2>1. n \in Nat /\ n >= 1 /\ fetched \in Nat
      BY <1>0, SinkAssumption DEF SinkTypeOK
    <2> QED BY <1>0, <1>2, <2>1 DEF SinkPoll
  <1>3. CASE StoreEvent \/ SinkQuarantine \/ SinkQuarantineTwice
    BY <1>0, <1>3 DEF StoreEvent, Store, SinkQuarantine, SinkQuarantineTwice
  <1>4. CASE SinkCommit
    <2>1. /\ handled = offset /\ handled < fetched /\ fetched <= Len(clean)
          /\ handled \in Nat /\ fetched \in Nat
      BY <1>0, <1>4 DEF SinkCommit, SinkTypeOK
    <2>2. /\ offset' = handled + 1 /\ handled' = handled + 1 /\ UNCHANGED fetched
          /\ sinkStage' = IF handled + 1 = fetched THEN "poll" ELSE "handle"
      BY <1>4 DEF SinkCommit
    <2>3. CASE handled + 1 = fetched
      BY <2>2, <2>3
    <2>4. CASE handled + 1 # fetched
      <3>1. handled + 1 < fetched
        BY <2>1, <2>4
      <3> QED BY <1>0, <2>1, <2>2, <2>4, <3>1
    <2> QED BY <2>3, <2>4
  <1>5. CASE SinkQuarantineFails \/ SinkPollRaises \/ SinkMeetPoison \/ SinkCommitFails \/ SinkCrash
    BY <1>5 DEF SinkQuarantineFails, SinkPollRaises, SinkMeetPoison, SinkCommitFails, SinkCrash, SinkExit
  <1> QED BY <1>1, <1>2, <1>3, <1>4, <1>5 DEF SinkNext

\* Rows and quarantined records stay; the record in hand joins one of the two.
LEMMA OutcomesLast ==
    ASSUME SinkInv, SinkNext
    PROVE  /\ StoredReadings \subseteq StoredReadings'
           /\ SinkQuarantined \subseteq SinkQuarantined'
           /\ RowIsKept => InHand.reading \in StoredReadings'
           /\ RecordIsQuarantined => handled + 1 \in SinkQuarantined'
  <1>0. SinkTypeOK
    BY DEF SinkInv
  <1>1. CASE RowsStay
    BY <1>1 DEF RowsStay, StoredReadings, SinkQuarantined, RowIsKept, RecordIsQuarantined
  <1>2. CASE RowIsKept
    <2>1. InHand.reading \in StoredReadings' /\ stored \subseteq stored'
      <3>1. CASE InHand.reading \in StoredReadings
        BY <1>2, <3>1 DEF RowIsKept, StoredReadings
      <3>2. CASE InHand.reading \notin StoredReadings
        BY <1>2, <3>2 DEF RowIsKept, StoredReadings
      <3> QED BY <3>1, <3>2
    <2> QED BY <1>2, <2>1 DEF RowIsKept, StoredReadings, SinkQuarantined,
                              RecordIsQuarantined, Accepted, Rejected
  <1>3. CASE RecordIsQuarantined
    <2>1. SinkQuarantined' = SinkQuarantined \cup {handled + 1}
      BY <1>0, <1>3, SinkDlqGrows DEF RecordIsQuarantined
    <2> QED BY <1>3, <2>1 DEF RecordIsQuarantined, StoredReadings, RowIsKept, Accepted, Rejected
  <1>4. RowsStay => ~RecordIsQuarantined \/ handled + 1 \in SinkQuarantined'
    BY <1>0, SinkDlqGrows DEF RecordIsQuarantined
  <1>5. RowsStay => ~RowIsKept \/ InHand.reading \in StoredReadings'
    BY <1>2
  <1> QED BY <1>1, <1>2, <1>3, <1>4, <1>5, OutcomesOfAStep

\* Nothing the sink does unsettles a record.
LEMMA SettledLasts ==
    ASSUME SinkInv, SinkNext, NEW i, SettledAt(i)
    PROVE  SettledAt(i)'
  BY OutcomesLast, SinkKeepsClean DEF SettledAt, Accepted, Rejected

\* The record in hand is stored or quarantined before its offset is committed.
LEMMA SinkToCommit == ASSUME SinkInv, SinkNext PROVE ToCommitIsSettled'
  <1> SUFFICES ASSUME sinkStage' = "commit" PROVE SettledAt(handled + 1)'
    BY DEF ToCommitIsSettled
  <1>1. (RowIsKept \/ RecordIsQuarantined) /\ UNCHANGED clean
    BY OutcomesOfAStep, SinkKeepsClean
  <1> QED BY <1>1, OutcomesLast
          DEF RowIsKept, RecordIsQuarantined, SettledAt, Accepted, Rejected, InHand

\* The sink commits no offset past a record that is not settled.
LEMMA SinkCommitted == ASSUME SinkInv, SinkNext PROVE CommittedIsSettled'
  <1>0. /\ offset \in Nat /\ offset <= Len(clean) /\ UNCHANGED clean
        /\ \A i \in 1..offset : SettledAt(i)
    BY SinkKeepsClean DEF SinkInv, SinkTypeOK, CommittedIsSettled, SettledAt
  <1>1. offset' <= Len(clean) /\ \A i \in 1..offset' : SettledAt(i)
    <2>1. CASE UNCHANGED offset
      BY <1>0, <2>1
    <2>2. CASE sinkStage = "commit" /\ offset' = handled + 1
      <3>1. handled = offset /\ handled + 1 <= Len(clean) /\ SettledAt(handled + 1)
        BY <2>2, RecordIsInClean DEF SinkInv, ToCommitIsSettled
      <3> QED BY <1>0, <2>2, <3>1
    <2> QED BY <2>1, <2>2, OutcomesOfAStep
  <1>2. \A i \in 1..offset' : SettledAt(i)'
    BY <1>1, SettledLasts
  <1> QED BY <1>0, <1>1, <1>2 DEF CommittedIsSettled, SettledAt

\* A row is added only for the first copy of its reading: the copies before it
\* are settled, so their reading would be in the table.
LEMMA SinkFirstCopy == ASSUME SinkInv, SinkNext PROVE StoredIsFirstCopy'
  <1>0. /\ SinkTypeOK /\ CommittedIsSettled /\ StoredIsFirstCopy /\ UNCHANGED clean
        /\ DOMAIN clean = 1..Len(clean)
    BY SinkKeepsClean DEF SinkInv, SinkTypeOK
  <1>1. CASE UNCHANGED stored
    BY <1>0, <1>1 DEF StoredIsFirstCopy, Accepted
  <1>2. CASE RowIsKept /\ ~UNCHANGED stored
    <2>1. stored' = stored \cup {InHand} /\ InHand.reading \notin StoredReadings
      BY <1>2 DEF RowIsKept
    <2>2. handled = offset /\ handled \in Nat /\ handled + 1 \in DOMAIN clean
      BY <1>0, <1>2, RecordIsInClean DEF RowIsKept
    <2>3. ASSUME NEW j \in 1..(handled + 1 - 1), Accepted(clean[j])
          PROVE  clean[j].reading # InHand.reading
      <3>1. j \in 1..offset
        BY <2>2
      <3>2. clean[j].reading \in StoredReadings
        BY <1>0, <2>3, <3>1 DEF CommittedIsSettled, Accepted, Rejected, Foreign
      <3> QED BY <2>1, <3>2
    <2>4. \E i \in DOMAIN clean :
              /\ clean[i] = InHand
              /\ \A j \in 1..(i - 1) : Accepted(clean[j]) => clean[j].reading # InHand.reading
      BY <2>2, <2>3 DEF InHand
    <2> QED BY <1>0, <2>1, <2>4 DEF StoredIsFirstCopy, Accepted
  <1> QED BY <1>1, <1>2, OutcomesOfAStep DEF RowsStay, RecordIsQuarantined

\* Records added to the clean topic take nothing from the sink.
LEMMA CleanMayGrow ==
    ASSUME SinkInv, UNCHANGED sinkOnly, Extends(clean', clean),
           clean' \in Seq(CanonicalEvent \cup Foreign)
    PROVE  SinkInv'
  <1>0. /\ SinkTypeOK /\ Len(clean) \in Nat /\ Len(clean') \in Nat
        /\ DOMAIN clean = 1..Len(clean) /\ DOMAIN clean' = 1..Len(clean')
        /\ Len(clean) <= Len(clean')
        /\ \A i \in 1..Len(clean) : clean'[i] = clean[i]
        /\ UNCHANGED <<stored, sinkDlq, offset, handled, fetched, sinkStage, sinkCrashes>>
    BY DEF SinkInv, SinkTypeOK, Extends, sinkOnly, sinkLoop
  <1>1. SinkTypeOK'
    BY <1>0 DEF SinkTypeOK
  <1>2. SinkBatchFollowsOffset'
    BY <1>0 DEF SinkInv, SinkBatchFollowsOffset, SinkTypeOK
  <1>3. \A i \in 1..Len(clean) : SettledAt(i) => SettledAt(i)'
    BY <1>0 DEF SettledAt, Accepted, Rejected, StoredReadings, SinkQuarantined
  <1>4. ToCommitIsSettled'
    <2> SUFFICES ASSUME sinkStage = "commit" PROVE SettledAt(handled + 1)'
      BY <1>0 DEF ToCommitIsSettled, SettledAt
    <2>1. handled + 1 \in 1..Len(clean) /\ SettledAt(handled + 1)
      BY RecordIsInClean DEF SinkInv, ToCommitIsSettled
    <2> QED BY <1>0, <1>3, <2>1 DEF SettledAt
  <1>5. CommittedIsSettled'
    <2>1. offset \in Nat /\ offset <= Len(clean) /\ \A i \in 1..offset : SettledAt(i)
      BY <1>0 DEF SinkInv, SinkTypeOK, CommittedIsSettled, SettledAt
    <2>2. \A i \in 1..offset : SettledAt(i)'
      BY <1>0, <1>3, <2>1
    <2> QED BY <1>0, <2>1, <2>2 DEF CommittedIsSettled, SettledAt
  <1>6. StoredIsFirstCopy'
    <2> SUFFICES ASSUME NEW row \in stored
                 PROVE  \E i \in DOMAIN clean' :
                            /\ clean'[i] = row
                            /\ \A j \in 1..(i - 1) :
                                   Accepted(clean[j])' => clean'[j].reading # row.reading
      BY <1>0 DEF StoredIsFirstCopy, Accepted
    <2> PICK i \in 1..Len(clean) :
                 /\ clean[i] = row
                 /\ \A j \in 1..(i - 1) : Accepted(clean[j]) => clean[j].reading # row.reading
      BY <1>0 DEF SinkInv, StoredIsFirstCopy
    <2>1. i \in DOMAIN clean' /\ clean'[i] = row
      BY <1>0
    <2>2. \A j \in 1..(i - 1) : j \in 1..Len(clean) /\ clean'[j] = clean[j]
      BY <1>0
    <2> QED BY <2>1, <2>2 DEF Accepted
  <1> QED BY <1>1, <1>2, <1>4, <1>5, <1>6 DEF SinkInv

\* Every step of the path keeps the sink's part of the invariant.
LEMMA SinkStepKeepsInv == ASSUME IInv, [Next]_vars PROVE SinkInv'
  <1>0. SinkInv
    BY DEF IInv
  <1>1. CASE SinkStep
    BY <1>0, <1>1, SinkTypes, SinkBatch, SinkToCommit, SinkCommitted, SinkFirstCopy
       DEF SinkStep, SinkInv
  <1>2. CASE UNCHANGED sinkOnly
    BY <1>0, <1>2, NothingIsTakenBack, CleanMayGrow
  <1>3. SinkStep \/ UNCHANGED sinkOnly
    BY DEF Next, ProcessorStep, Intrude, Publish, vars, sinkOnly, sinkLoop
  <1> QED BY <1>1, <1>2, <1>3

(***************************************************************************)
(* The properties                                                          *)
(***************************************************************************)
\* At the start every log is empty and both processes are down.
LEMMA InitIInv == Init => IInv
  <1> SUFFICES ASSUME Init PROVE IInv OBVIOUS
  <1> USE DEF Init, Processor!Init, SinkInit
  <1>1. RawTypes
    BY PipelineAssumption DEF RawTypes, Processor!ProcessorAssumption, Processor!Stages
  <1>2. BatchFollowsOffset /\ ToCommitIsRouted /\ CleanIsTrue
    BY DEF BatchFollowsOffset, ToCommitIsRouted, CleanIsTrue
  <1>3. CommittedIsRouted
    BY DEF CommittedIsRouted, Processor!CommittedIsRouted
  <1>4. SinkTypeOK
    BY SinkAssumption DEF SinkTypeOK
  <1>5. SinkBatchFollowsOffset /\ ToCommitIsSettled /\ CommittedIsSettled /\ StoredIsFirstCopy
    BY DEF SinkBatchFollowsOffset, ToCommitIsSettled, CommittedIsSettled, StoredIsFirstCopy
  <1> QED BY <1>1, <1>2, <1>3, <1>4, <1>5 DEF IInv, ProcessorInv, SinkInv

\* The invariant holds in every reachable state.
LEMMA IInvHolds == Spec => []IInv
  <1>1. IInv /\ [Next]_vars => IInv'
    BY ProcessorStepKeepsInv, SinkStepKeepsInv DEF IInv
  <1> QED BY <1>1, InitIInv, PTL DEF Spec

\* The rows of the table and the clean topic hold canonical events only.
THEOREM SinkTypeCorrectness == Spec => []SinkTypeOK
  <1>1. IInv => SinkTypeOK
    BY DEF IInv, SinkInv
  <1> QED BY <1>1, IInvHolds, PTL

\* No raw record is lost: the processor commits an offset only past records
\* whose clean or dead-letter output is acknowledged.
THEOREM ProcessorCommittedIsRouted == Spec => []CommittedIsRouted
  <1>1. IInv => CommittedIsRouted
    BY DEF IInv, ProcessorInv
  <1> QED BY <1>1, IInvHolds, PTL

\* No clean record is lost: the sink commits an offset only past records that
\* are stored or quarantined.
THEOREM SinkCommittedIsSettled == Spec => []CommittedIsSettled
  <1>1. IInv => CommittedIsSettled
    BY DEF IInv, SinkInv
  <1> QED BY <1>1, IInvHolds, PTL

\* A row is the first copy of its reading, however many copies and replays.
THEOREM SinkStoredIsFirstCopy == Spec => []StoredIsFirstCopy
  <1>1. IInv => StoredIsFirstCopy
    BY DEF IInv, SinkInv
  <1> QED BY <1>1, IInvHolds, PTL

\* Two rows of one reading would both be its first copy, and a row is a record
\* of the clean topic, which is true of the raw record it names.
LEMMA InvImpliesTrueAndUnique == IInv => RowsAreTrueAndUnique
  <1> SUFFICES ASSUME IInv PROVE RowsAreTrueAndUnique OBVIOUS
  <1>0. /\ SinkTypeOK /\ StoredIsFirstCopy /\ CleanIsTrue
        /\ DOMAIN clean = 1..Len(clean) /\ Len(clean) \in Nat
        /\ \A t \in RawTopics : DOMAIN raw[t] = 1..Len(raw[t])
    BY DEF IInv, ProcessorInv, RawTypes, SinkInv, SinkTypeOK
  <1>1. \A row \in stored : row \in CanonicalEvent /\ row \notin Foreign
    BY <1>0, SinkAssumption DEF SinkTypeOK
  <1>2. ASSUME NEW row \in stored PROVE IsTrue(row)
    BY <1>0, <1>1 DEF StoredIsFirstCopy, CleanIsTrue
  <1>3. ASSUME NEW a \in stored, NEW b \in stored, a.reading = b.reading
        PROVE  a = b
    <2> PICK i \in 1..Len(clean) :
                 /\ clean[i] = a
                 /\ \A j \in 1..(i - 1) : Accepted(clean[j]) => clean[j].reading # a.reading
      BY <1>0 DEF StoredIsFirstCopy
    <2> PICK k \in 1..Len(clean) :
                 /\ clean[k] = b
                 /\ \A j \in 1..(k - 1) : Accepted(clean[j]) => clean[j].reading # b.reading
      BY <1>0 DEF StoredIsFirstCopy
    <2>1. Accepted(clean[i]) /\ Accepted(clean[k])
      BY <1>1 DEF Accepted
    <2>2. ~(i < k) /\ ~(k < i)
      BY <1>0, <1>3, <2>1
    <2>3. i = k
      BY <1>0, <2>2
    <2> QED BY <2>3
  <1> QED BY <1>0, <1>2, <1>3 DEF RowsAreTrueAndUnique, IsTrue

\* Through both processes a row is true of the raw record it names, and no
\* reading has two rows.
THEOREM PathRowsAreTrueAndUnique == Spec => []RowsAreTrueAndUnique
  BY IInvHolds, InvImpliesTrueAndUnique, PTL

(***************************************************************************)
(* The refinement                                                          *)
(***************************************************************************)
\* The canonical event of the record in hand adds to its own topic's outputs
\* the effect of that record, and to no other topic's.
LEMMA CleanGetsKeeps ==
    ASSUME IInv, CleanGets, NEW t \in RawTopics
    PROVE  Processor!Routing(t)!Next \/ UNCHANGED Processor!Routing(t)!vars
  <1> DEFINE Kept(O) == {[reading |-> m.reading, offset |-> m.source.offset] :
                             m \in {n \in O : n.source.topic = t}}
             c == Processor!Canonical
  <1>0. /\ Processor!Outputs' = Processor!Outputs \cup {c}
        /\ c.source = [topic |-> current, offset |-> cursor + 1]
        /\ c.reading = Reading[raw[current][cursor + 1]]
        /\ raw[current][cursor + 1] \in Good
        /\ UNCHANGED <<raw, committed, dlq>>
    BY CleanGrows, CanonicalIsTrue
       DEF CleanGets, IInv, Processor!Canonical, Processor!Here, Processor!Payload
  <1>1. current \in RawTopics /\ cursor = committed[current] /\ cursor < Len(raw[current])
    BY RecordIsInRaw DEF IInv, ProcessorInv, BatchFollowsOffset, RawTypes, CleanGets
  <1>2. UNCHANGED Processor!DlqSources
    BY <1>0 DEF Processor!DlqSources
  <1> HIDE DEF c
  <1>3. CASE t = current
    <2>1. Kept(Processor!Outputs') = Kept(Processor!Outputs) \cup
              {[reading |-> Reading[raw[t][committed[t] + 1]], offset |-> committed[t] + 1]}
      BY <1>0, <1>1, <1>3
    <2> QED BY <1>0, <1>1, <1>2, <1>3, <2>1
            DEF Processor!Routing!Next, Processor!Routing!Keep, Processor!Routing!HasNext,
                Processor!Routing!NextRecord
  <1>4. CASE t # current
    <2>1. Kept(Processor!Outputs') = Kept(Processor!Outputs)
      BY <1>0, <1>4
    <2> QED BY <1>0, <1>2, <2>1 DEF Processor!Routing!vars
  <1> QED BY <1>3, <1>4

\* The dead-letter record of the record in hand sets it aside in its own topic.
LEMMA DlqGetsSetsAside ==
    ASSUME IInv, DlqGets, NEW t \in RawTopics
    PROVE  Processor!Routing(t)!Next \/ UNCHANGED Processor!Routing(t)!vars
  <1> DEFINE Aside(D) == {s.offset : s \in {d \in D : d.topic = t}}
             h == Processor!Here
  <1>0. /\ Processor!DlqSources' = Processor!DlqSources \cup {h}
        /\ h.topic = current /\ h.offset = cursor + 1
        /\ raw[current][cursor + 1] \in RawMalformed
        /\ UNCHANGED <<raw, committed, clean>>
    BY DlqGrows DEF DlqGets, IInv, Processor!Here, Processor!Payload
  <1>1. current \in RawTopics /\ cursor = committed[current] /\ cursor < Len(raw[current])
    BY RecordIsInRaw DEF IInv, ProcessorInv, BatchFollowsOffset, RawTypes, DlqGets
  <1>2. UNCHANGED Processor!Outputs
    BY <1>0 DEF Processor!Outputs
  <1> HIDE DEF h
  <1>3. CASE t = current
    <2>1. Aside(Processor!DlqSources') = Aside(Processor!DlqSources) \cup {committed[t] + 1}
      BY <1>0, <1>1, <1>3
    <2> QED BY <1>0, <1>1, <1>2, <1>3, <2>1
            DEF Processor!Routing!Next, Processor!Routing!SetAside, Processor!Routing!HasNext,
                Processor!Routing!NextRecord
  <1>4. CASE t # current
    <2>1. Aside(Processor!DlqSources') = Aside(Processor!DlqSources)
      BY <1>0, <1>4
    <2> QED BY <1>0, <1>2, <2>1 DEF Processor!Routing!vars
  <1> QED BY <1>3, <1>4

\* A commit moves the offset of the topic in hand over its settled record.
LEMMA CommitAdvances ==
    ASSUME IInv, stage = "commit", committed' = [committed EXCEPT ![current] = cursor + 1],
           UNCHANGED <<raw, clean, dlq>>, NEW t \in RawTopics
    PROVE  Processor!Routing(t)!Next \/ UNCHANGED Processor!Routing(t)!vars
  <1>0. /\ current \in RawTopics /\ cursor = committed[current] /\ cursor < Len(raw[current])
        /\ Processor!Routed(current, cursor + 1)
    BY RecordIsInRaw DEF IInv, ProcessorInv, BatchFollowsOffset, RawTypes, ToCommitIsRouted
  <1>1. UNCHANGED <<Processor!Outputs, Processor!DlqSources>>
    BY DEF Processor!Outputs, Processor!DlqSources
  <1>2. committed'[t] = IF t = current THEN cursor + 1 ELSE committed[t]
    BY DEF IInv, ProcessorInv, RawTypes
  <1>3. CASE t = current
    <2> DEFINE source == [topic |-> t, offset |-> cursor + 1]
    <2>1. CASE raw[t][cursor + 1] \in Good /\ source \in Processor!CleanSources
      <3> PICK m \in Processor!Outputs : m.source = source
        BY <2>1 DEF Processor!CleanSources
      <3>1. m.source.topic = t /\ m.source.offset = cursor + 1
        OBVIOUS
      <3>2. m.reading = Reading[raw[t][cursor + 1]]
        <4> PICK i \in 1..Len(clean) : clean[i] = m /\ m \in Processor!CleanEvent
          BY DEF Processor!Outputs, IInv, SinkInv, SinkTypeOK
        <4>1. m \notin Foreign
          BY PipelineAssumption
        <4>2. IsTrue(m)
          BY <4>1 DEF IInv, ProcessorInv, CleanIsTrue
        <4> QED BY <3>1, <4>2 DEF IsTrue
      <3> QED BY <1>0, <1>1, <1>2, <1>3, <2>1, <3>1, <3>2
              DEF Processor!Routing!Next, Processor!Routing!Advance, Processor!Routing!Settled,
                  Processor!Routing!HasNext, Processor!Routing!NextRecord
    <2>2. CASE raw[t][cursor + 1] \in RawMalformed /\ source \in Processor!DlqSources
      <3>1. cursor + 1 \in {s.offset : s \in {d \in Processor!DlqSources : d.topic = t}}
        BY <2>2
      <3> QED BY <1>0, <1>1, <1>2, <1>3, <2>2, <3>1
              DEF Processor!Routing!Next, Processor!Routing!Advance, Processor!Routing!Settled,
                  Processor!Routing!HasNext, Processor!Routing!NextRecord
    <2> QED BY <1>0, <1>3, <2>1, <2>2 DEF Processor!Routed
  <1>4. CASE t # current
    BY <1>1, <1>2, <1>4 DEF Processor!Routing!vars
  <1> QED BY <1>3, <1>4

\* A raw record is the next record of its own topic and of no other.
LEMMA CollectProduces ==
    ASSUME IInv, NEW u \in RawTopics, NEW p \in Processor!Payloads, Processor!Collect(u, p),
           NEW t \in RawTopics
    PROVE  Processor!Routing(t)!Next \/ UNCHANGED Processor!Routing(t)!vars
  <1>0. /\ raw' = [raw EXCEPT ![u] = Append(raw[u], p)]
        /\ UNCHANGED <<committed, clean, dlq>>
        /\ raw \in [RawTopics -> Seq(Processor!Payloads)]
    BY DEF Processor!Collect, IInv, ProcessorInv, RawTypes
  <1>1. UNCHANGED <<Processor!Outputs, Processor!DlqSources>>
    BY <1>0 DEF Processor!Outputs, Processor!DlqSources
  <1>2. CASE t = u
    <2>1. raw'[t] = Append(raw[t], p) /\ raw[t] \in Seq(Processor!Payloads)
      BY <1>0, <1>2
    <2>2. Len(raw'[t]) = Len(raw[t]) + 1
      BY <2>1
    <2>3. SubSeq(raw'[t], 1, Len(raw[t])) = raw[t]
      <3>1. /\ Len(raw'[t]) \in Nat /\ Len(raw[t]) \in Nat /\ raw'[t] \in Seq(Processor!Payloads)
            /\ \A i \in 1..Len(raw[t]) : raw'[t][i] = raw[t][i]
        BY <2>1
      <3>2. SubSeq(raw'[t], 1, Len(raw[t])) = [i \in 1..Len(raw[t]) |-> raw'[t][i]]
        BY <2>2, <3>1
      <3>3. raw[t] = [i \in 1..Len(raw[t]) |-> raw[t][i]]
        BY <2>1
      <3> QED BY <3>1, <3>2, <3>3
    <2> QED BY <1>0, <1>1, <2>2, <2>3 DEF Processor!Routing!Next, Processor!Routing!Produce
  <1>3. CASE t # u
    <2>1. raw'[t] = raw[t]
      BY <1>0, <1>3
    <2> QED BY <1>0, <1>1, <2>1 DEF Processor!Routing!vars
  <1> QED BY <1>2, <1>3

\* To every raw topic a step of the path is a step of RecordSettling or none.
LEMMA RoutingStep ==
    ASSUME IInv, [Next]_vars, NEW t \in RawTopics
    PROVE  Processor!Routing(t)!Next \/ UNCHANGED Processor!Routing(t)!vars
  <1>1. ASSUME UNCHANGED <<raw, committed, dlq>>, UNCHANGED Processor!Outputs
        PROVE  UNCHANGED Processor!Routing(t)!vars
    BY <1>1 DEF Processor!Routing!vars, Processor!DlqSources
  <1>2. CASE UNCHANGED <<processorOnly, clean>>
    BY <1>1, <1>2 DEF processorOnly, Processor!Outputs
  <1>3. CASE \E u \in RawTopics, p \in Processor!Payloads : Processor!Collect(u, p)
    BY <1>3, CollectProduces
  <1>4. CASE Processor!ProcessorNext
    <2>1. CASE CleanGets
      BY <2>1, CleanGetsKeeps
    <2>2. CASE DlqGets
      BY <2>2, DlqGetsSetsAside
    <2>3. CASE OutputsStay /\ UNCHANGED committed
      BY <1>1, <1>4, <2>3, OutputsOfAStep DEF OutputsStay, Processor!Outputs
    <2>4. CASE ~UNCHANGED committed
      BY <1>4, <2>4, OffsetMoves, CommitAdvances DEF IInv
    <2> QED BY <1>4, <2>1, <2>2, <2>3, <2>4, OutputsOfAStep
  <1>5. ASSUME NEW m \in Foreign, clean' = Append(clean, m), UNCHANGED processorOnly
        PROVE  UNCHANGED Processor!Routing(t)!vars
    BY <1>1, <1>5, IntruderIsNoOutput DEF processorOnly, IInv, SinkInv
  <1> QED BY <1>2, <1>3, <1>4, <1>5, StepKinds

\* To each raw topic the processor does what RecordSettling promises: outputs
\* carry the reading and coordinates of their record and come in order.
THEOREM PathImplementsRouting == Spec => ImplementsRouting
  <1>1. Init => \A t \in RawTopics : Processor!Routing(t)!Init
    BY DEF Init, Processor!Init, Processor!Routing!Init, Processor!Outputs,
           Processor!DlqSources
  <1>2. IInv /\ [Next]_vars =>
            [\A t \in RawTopics : Processor!Routing(t)!Next \/ UNCHANGED Processor!Routing(t)!vars
            ]_(Processor!processorVars)
    BY RoutingStep
  <1> QED BY <1>1, <1>2, IInvHolds, PTL
          DEF Spec, ImplementsRouting, Processor!ImplementsRouting
=============================================================================

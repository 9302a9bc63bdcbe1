--------------------------- MODULE SensorProcessor ---------------------------
(***************************************************************************)
(* The normalizer of raw sensor records (services/processor.py): for each  *)
(* record of the raw topics it publishes either the canonical event to the *)
(* clean topic or a quarantine record to the dead-letter topic, waits for  *)
(* the acknowledgement, and then commits the record's offset.              *)
(*                                                                         *)
(* The two raw topics (JSON and text) carry the same readings in different *)
(* shapes; the event_id is a hash of the reading (services/contract.py),   *)
(* so the reading stands for its event_id.  Each raw topic has one         *)
(* partition here.  A poll returns records of one topic: the code handles  *)
(* a batch topic by topic, which is the same as polling them in turn.      *)
(***************************************************************************)
EXTENDS Integers, Sequences, FiniteSets

CONSTANTS RawTopics,  \* RAW_TOPICS
          Good,       \* raw payloads normalize_sensor_event accepts
          Malformed,  \* payloads it rejects with TypeError, ValueError, KeyError
          Poison,     \* payloads for which it raises anything else
          Reading,    \* the reading each good payload is normalised to
          MaxPoll,    \* max_poll_records
          MaxRaw,     \* bound: records of a raw topic
          MaxFaults   \* bound: failures and crashes of the process

Payloads == Good \cup Malformed \cup Poison

\* Assumed of the constants by the module that instantiates this one.
ProcessorAssumption ==
    /\ Good \cap Malformed = {}
    /\ Good \cap Poison = {}
    /\ Malformed \cap Poison = {}
    /\ DOMAIN Reading = Good
    /\ MaxPoll \in Nat \ {0}
    /\ MaxRaw \in Nat
    /\ MaxFaults \in Nat

VARIABLES raw,        \* the log of each raw topic
          committed,  \* the group's committed offset of each topic
          position,   \* the consumer's fetch position in each topic
          current,    \* the topic of the polled batch
          cursor,     \* records of that topic handled before the next one
          stage,      \* what the process does next
          clean,      \* the clean topic: canonical events
          dlq,        \* the dead-letter topic: source coordinates
          faults      \* failures so far

loopVars == <<position, current, cursor, stage>>
processorVars == <<raw, committed, loopVars, clean, dlq, faults>>

(***************************************************************************)
(* Types and helpers                                                       *)
(***************************************************************************)
Stages == {"down", "poll", "handle", "commit"}
Normalized == {Reading[p] : p \in Good}

Source == [topic : RawTopics, offset : Nat]
CleanEvent == [reading : Normalized, source : Source]

TypeOK ==
    /\ raw \in [RawTopics -> Seq(Payloads)]
    /\ committed \in [RawTopics -> Nat]
    /\ position \in [RawTopics -> Nat]
    /\ current \in RawTopics
    /\ cursor \in Nat
    /\ stage \in Stages
    /\ clean \in Seq(CleanEvent)
    /\ dlq \in Seq(Source)
    /\ faults \in 0..MaxFaults

Payload == raw[current][cursor + 1]
Here == [topic |-> current, offset |-> cursor + 1]
Canonical == [reading |-> Reading[Payload], source |-> Here]

Fault == faults < MaxFaults /\ faults' = faults + 1

\* An exception leaves the loop; finally closes everything.
Exit ==
    /\ stage' = "down"
    /\ UNCHANGED <<position, current, cursor>>

Init ==
    /\ raw = [t \in RawTopics |-> <<>>]
    /\ committed = [t \in RawTopics |-> 0]
    /\ position = [t \in RawTopics |-> 0]
    /\ current \in RawTopics
    /\ cursor = 0
    /\ stage = "down"
    /\ clean = <<>>
    /\ dlq = <<>>
    /\ faults = 0

(***************************************************************************)
(* The loop of run()                                                       *)
(***************************************************************************)
\* auto_offset_reset="latest" for a topic without a committed offset.
StartAtLatest ==
    /\ stage = "down"
    /\ stage' = "poll"
    /\ position' = [t \in RawTopics |->
                       IF committed[t] = 0 THEN Len(raw[t]) ELSE committed[t]]
    /\ UNCHANGED <<raw, committed, current, cursor, clean, dlq, faults>>

\* A new process resumes each topic from the committed offset.
Start ==
    /\ stage = "down"
    /\ stage' = "poll"
    /\ position' = committed
    /\ UNCHANGED <<raw, committed, current, cursor, clean, dlq, faults>>

\* poll() returns a non-empty run of records and moves the position past them.
Poll(t) ==
    /\ stage = "poll"
    /\ \E n \in 1..MaxPoll :
          /\ position[t] + n <= Len(raw[t])
          /\ position' = [position EXCEPT ![t] = @ + n]
    /\ current' = t
    /\ cursor' = position[t]
    /\ stage' = "handle"
    /\ UNCHANGED <<raw, committed, clean, dlq, faults>>

\* The canonical event is sent and not waited for.
PublishCleanUnacknowledged ==
    /\ stage = "handle"
    /\ Payload \in Good
    /\ clean' \in {clean, Append(clean, Canonical)}
    /\ stage' = "commit"
    /\ UNCHANGED <<raw, committed, position, current, cursor, dlq, faults>>

\* The event keeps the coordinates of the end of the batch.
PublishCleanAtPosition ==
    /\ stage = "handle"
    /\ Payload \in Good
    /\ clean' = Append(clean, [Canonical EXCEPT !.source.offset = position[current]])
    /\ stage' = "commit"
    /\ UNCHANGED <<raw, committed, position, current, cursor, dlq, faults>>

\* normalize_sensor_event, then _publish to the clean topic is acknowledged.
PublishClean ==
    /\ stage = "handle"
    /\ Payload \in Good
    /\ clean' = Append(clean, Canonical)
    /\ stage' = "commit"
    /\ UNCHANGED <<raw, committed, position, current, cursor, dlq, faults>>

\* A record the contract rejects: _publish to the dead-letter topic.
PublishDlq ==
    /\ stage = "handle"
    /\ Payload \in Malformed
    /\ dlq' = Append(dlq, Here)
    /\ stage' = "commit"
    /\ UNCHANGED <<raw, committed, position, current, cursor, clean, faults>>

\* The producer repeats a request whose acknowledgement was lost.
PublishRetriedInternally ==
    /\ stage = "handle"
    /\ Fault
    /\ \/ Payload \in Good /\ clean' = clean \o <<Canonical, Canonical>> /\ UNCHANGED dlq
       \/ Payload \in Malformed /\ dlq' = dlq \o <<Here, Here>> /\ UNCHANGED clean
    /\ stage' = "commit"
    /\ UNCHANGED <<raw, committed, position, current, cursor>>

\* get(timeout=10) raises KafkaError and _publish raises it again; the flush in
\* finally may still deliver the record.
PublishFails ==
    /\ stage = "handle"
    /\ Payload \notin Poison
    /\ Fault
    /\ \/ UNCHANGED <<clean, dlq>>
       \/ Payload \in Good /\ clean' = Append(clean, Canonical) /\ UNCHANGED dlq
       \/ Payload \in Malformed /\ dlq' = Append(dlq, Here) /\ UNCHANGED clean
    /\ Exit
    /\ UNCHANGED <<raw, committed>>

\* OverflowError of astimezone or float: no handler takes it.
MeetPoison ==
    /\ stage = "handle"
    /\ Payload \in Poison
    /\ Exit
    /\ UNCHANGED <<raw, committed, clean, dlq, faults>>

NextRecord ==
    /\ cursor' = cursor + 1
    /\ stage' = IF cursor' = position[current] THEN "poll" ELSE "handle"
    /\ UNCHANGED <<position, current>>

\* Committing what was fetched instead of what was handled.
CommitPosition ==
    /\ stage = "commit"
    /\ committed' = [committed EXCEPT ![current] = position[current]]
    /\ NextRecord
    /\ UNCHANGED <<raw, clean, dlq, faults>>

\* _commit_message: offset + 1 of this record's topic and partition.
CommitOffset ==
    /\ stage = "commit"
    /\ committed' = [committed EXCEPT ![current] = cursor + 1]
    /\ NextRecord
    /\ UNCHANGED <<raw, clean, dlq, faults>>

\* The commit raises; the broker may have applied it.
CommitFails ==
    /\ stage = "commit"
    /\ Fault
    /\ \/ UNCHANGED committed
       \/ committed' = [committed EXCEPT ![current] = cursor + 1]
    /\ Exit
    /\ UNCHANGED <<raw, clean, dlq>>

Crash ==
    /\ stage # "down"
    /\ Fault
    /\ Exit
    /\ UNCHANGED <<raw, committed, clean, dlq>>

(***************************************************************************)
(* Specification                                                           *)
(***************************************************************************)
\* Fluent Bit, Logstash or Vector write a record.
Collect(t, payload) ==
    /\ Len(raw[t]) < MaxRaw
    /\ raw' = [raw EXCEPT ![t] = Append(@, payload)]
    /\ UNCHANGED <<committed, loopVars, clean, dlq, faults>>

Handle == PublishClean \/ PublishDlq \/ MeetPoison

ProcessorNext ==
    \/ Start
    \/ \E t \in RawTopics : Poll(t)
    \/ PublishClean
    \/ PublishDlq
    \/ PublishRetriedInternally
    \/ PublishFails
    \/ MeetPoison
    \/ CommitOffset
    \/ CommitFails
    \/ Crash

Next ==
    \/ \E t \in RawTopics, payload \in Payloads : Collect(t, payload)
    \/ ProcessorNext

Spec == Init /\ [][Next]_processorVars

\* The container is restarted, a running process takes its next step, and
\* poll() neglects no topic for ever.
ProcessorFairness ==
    /\ WF_processorVars(Start)
    /\ \A t \in RawTopics : SF_processorVars(Poll(t))
    /\ WF_processorVars(Handle)
    /\ WF_processorVars(CommitOffset)

FairSpec == Spec /\ ProcessorFairness

(***************************************************************************)
(* Safety                                                                  *)
(***************************************************************************)
\* The canonical events in the clean topic, which others may write to.
Outputs == {clean[k] : k \in DOMAIN clean} \cap CleanEvent
CleanSources == {m.source : m \in Outputs}
DlqSources == {dlq[k] : k \in DOMAIN dlq}

\* Record i of topic t has reached the output its payload belongs to.
Routed(t, i) ==
    LET source == [topic |-> t, offset |-> i]
    IN  \/ raw[t][i] \in Good /\ source \in CleanSources
        \/ raw[t][i] \in Malformed /\ source \in DlqSources

\* No raw record is lost: whatever fails, an offset is committed only past
\* records whose clean or dead-letter output Kafka has acknowledged.
CommittedIsRouted ==
    \A t \in RawTopics :
        committed[t] <= Len(raw[t]) /\ \A i \in 1..committed[t] : Routed(t, i)

\* To each raw topic the processor does what RecordSettling promises: an
\* output has the reading and the coordinates of the record it was made from,
\* however often it is made; first copies come in the order of the topic.
Routing(t) == INSTANCE RecordSettling
                WITH Accepted <- Good, Rejected <- Malformed,
                     Unreadable <- {}, Reach <- 0,
                     Effect <- LAMBDA p, i : [reading |-> Reading[p], offset |-> i],
                     log <- raw[t], done <- committed[t],
                     kept <- {[reading |-> m.reading, offset |-> m.source.offset] :
                                  m \in {n \in Outputs : n.source.topic = t}},
                     aside <- {s.offset : s \in {d \in DlqSources : d.topic = t}}
ImplementsRouting ==
    /\ \A t \in RawTopics : Routing(t)!Init
    /\ [][\A t \in RawTopics : Routing(t)!Next \/ UNCHANGED Routing(t)!vars]_processorVars

(***************************************************************************)
(* Liveness                                                                *)
(***************************************************************************)
\* A record whose normalization raises OverflowError is sent nowhere, and with it
\* everything waits that the process polls before it dies at that record again.
Blocked == \E t \in RawTopics : \E i \in DOMAIN raw[t] : raw[t][i] \in Poison
=============================================================================

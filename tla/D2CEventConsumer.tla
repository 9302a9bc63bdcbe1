-------------------------- MODULE D2CEventConsumer --------------------------
(***************************************************************************)
(* The operational consumer of approval events                             *)
(* (services/d2c_event_consumer.py): it polls a batch, stores each valid   *)
(* record in DuckDB under its event_id, sends each record the contract     *)
(* rejects to the dead-letter topic, and commits the record's offset after *)
(* the one or the other is durable.  Any exception it does not handle ends *)
(* the process, which its Deployment restarts.                             *)
(*                                                                         *)
(* One process runs: duckdb.connect takes the file's single-writer lock    *)
(* before the Kafka consumer is created.  The topic has one partition, the *)
(* unit the code processes and commits independently of the others.        *)
(***************************************************************************)
EXTENDS Integers, Sequences, FiniteSets

CONSTANTS Valid,      \* payloads validate_application_approved_event accepts
          Malformed,  \* payloads it rejects with TypeError, ValueError, KeyError
          Poison,     \* payloads whose handling raises anything else
          Undecodable,\* payloads for which _decode raises, inside poll()
          EventId,    \* the event_id of each valid payload
          MaxPoll,    \* max_poll_records
          MaxFetch,   \* bound: records behind the position that poll() decodes
          MaxTopic,   \* bound: records other producers write to the topic
          MaxCrashes  \* bound: failures and crashes of the process

Payloads == Valid \cup Malformed \cup Poison \cup Undecodable

ASSUME ConsumerAssumption ==
    /\ Valid \cap Malformed = {}
    /\ Valid \cap Poison = {}
    /\ Malformed \cap Poison = {}
    /\ Undecodable \cap (Valid \cup Malformed \cup Poison) = {}
    /\ DOMAIN EventId = Valid
    /\ MaxPoll \in Nat \ {0}
    /\ MaxFetch \in Nat /\ MaxFetch >= MaxPoll
    /\ MaxTopic \in Nat
    /\ MaxCrashes \in Nat

VARIABLES topic,     \* the partition's log
          committed, \* the group's committed offset: records before it are done
          cursor,    \* records of the polled batch already handled
          limit,     \* the position: end of the polled batch
          stage,     \* what the process does next
          store,     \* payloads stored in d2c_application_events
          dlq,       \* source offsets in the order of the dead-letter topic
          crashes    \* failures so far

processVars == <<cursor, limit, stage>>
consumerVars == <<topic, committed, processVars, store, dlq, crashes>>

(***************************************************************************)
(* Types and helpers                                                       *)
(***************************************************************************)
Stages == {"down", "poll", "handle", "commit"}

TypeOK ==
    /\ topic \in Seq(Payloads)
    /\ committed \in Nat
    /\ cursor \in Nat
    /\ limit \in Nat
    /\ stage \in Stages
    /\ store \subseteq Valid
    /\ dlq \in Seq(Nat)
    /\ crashes \in 0..MaxCrashes

Record == topic[cursor + 1]
StoredIds == {EventId[e] : e \in store}
Quarantined == {dlq[i] : i \in DOMAIN dlq}

\* An exception leaves the loop; finally closes everything.
Exit ==
    /\ stage' = "down"
    /\ UNCHANGED <<cursor, limit>>

Failure == crashes < MaxCrashes /\ crashes' = crashes + 1

Init ==
    /\ topic = <<>>
    /\ committed = 0
    /\ cursor = 0
    /\ limit = 0
    /\ stage = "down"
    /\ store = {}
    /\ dlq = <<>>
    /\ crashes = 0

(***************************************************************************)
(* The loop of run()                                                       *)
(***************************************************************************)
\* auto_offset_reset="latest" for a group that has not committed yet.
StartAtLatest ==
    /\ stage = "down"
    /\ stage' = "poll"
    /\ cursor' = IF committed = 0 THEN Len(topic) ELSE committed
    /\ limit' = cursor'
    /\ UNCHANGED <<topic, committed, store, dlq, crashes>>

\* A new process opens DuckDB and resumes from the committed offset.
Start ==
    /\ stage = "down"
    /\ stage' = "poll"
    /\ cursor' = committed
    /\ limit' = committed
    /\ UNCHANGED <<topic, committed, store, dlq, crashes>>

\* poll() returns a non-empty prefix of what follows the position, decoded.
Poll ==
    /\ stage = "poll"
    /\ \E n \in 1..MaxPoll :
          /\ cursor + n <= Len(topic)
          /\ \A i \in (cursor + 1)..(cursor + n) : topic[i] \notin Undecodable
          /\ limit' = cursor + n
    /\ stage' = "handle"
    /\ UNCHANGED <<topic, committed, cursor, store, dlq, crashes>>

\* poll() runs _decode on what it has fetched, and anything but the two errors
\* _decode handles (RecursionError, the ValueError of an integer of too many
\* digits) leaves the loop before the records in front of it are handled.  How
\* far a poll decodes is the client library's choice, up to a fetch.
PollRaises ==
    /\ stage = "poll"
    /\ \E n \in 1..MaxFetch :
          /\ cursor + n <= Len(topic)
          /\ topic[cursor + n] \in Undecodable
    /\ Exit
    /\ UNCHANGED <<topic, committed, store, dlq, crashes>>

\* INSERT ... ON CONFLICT (event_id) DO NOTHING, durable in one statement.
StoreEvent ==
    /\ stage = "handle"
    /\ Record \in Valid
    /\ store' = IF EventId[Record] \in StoredIds THEN store ELSE store \cup {Record}
    /\ stage' = "commit"
    /\ UNCHANGED <<topic, committed, cursor, limit, dlq, crashes>>

\* A send that is not waited for: the offset is committed when it fails too.
QuarantineUnacknowledged ==
    /\ stage = "handle"
    /\ Record \in Malformed
    /\ dlq' \in {dlq, Append(dlq, cursor + 1)}
    /\ stage' = "commit"
    /\ UNCHANGED <<topic, committed, cursor, limit, store, crashes>>

\* "continue" before the commit: the offset waits for the next record's.
QuarantineUncommitted ==
    /\ stage = "handle"
    /\ Record \in Malformed
    /\ dlq' = Append(dlq, cursor + 1)
    /\ cursor' = cursor + 1
    /\ stage' = IF cursor' = limit THEN "poll" ELSE "handle"
    /\ UNCHANGED <<topic, committed, limit, store, crashes>>

\* The dead-letter record is acknowledged.
Quarantine ==
    /\ stage = "handle"
    /\ Record \in Malformed
    /\ dlq' = Append(dlq, cursor + 1)
    /\ stage' = "commit"
    /\ UNCHANGED <<topic, committed, cursor, limit, store, crashes>>

\* The producer repeats a request whose acknowledgement was lost.
QuarantineRetriedInternally ==
    /\ stage = "handle"
    /\ Record \in Malformed
    /\ Failure
    /\ dlq' = dlq \o <<cursor + 1, cursor + 1>>
    /\ stage' = "commit"
    /\ UNCHANGED <<topic, committed, cursor, limit, store>>

\* The send to the dead-letter topic fails or times out: KafkaError is raised
\* again, and the flush in finally may still deliver the record.
QuarantineFails ==
    /\ stage = "handle"
    /\ Record \in Malformed
    /\ Failure
    /\ dlq' \in {dlq, Append(dlq, cursor + 1)}
    /\ Exit
    /\ UNCHANGED <<topic, committed, store>>

\* A record that decodes and is met at its own turn: OverflowError of astimezone,
\* a BIGINT DuckDB cannot hold, a text the dead-letter producer cannot encode.
MeetPoison ==
    /\ stage = "handle"
    /\ Record \in Poison
    /\ Exit
    /\ UNCHANGED <<topic, committed, store, dlq, crashes>>

\* Committing the position instead of the record's own offset.
CommitPosition ==
    /\ stage = "commit"
    /\ committed' = limit
    /\ cursor' = cursor + 1
    /\ stage' = IF cursor' = limit THEN "poll" ELSE "handle"
    /\ UNCHANGED <<topic, limit, store, dlq, crashes>>

\* commit(offset + 1), then the next record of the batch or the next poll.
CommitOffset ==
    /\ stage = "commit"
    /\ committed' = cursor + 1
    /\ cursor' = cursor + 1
    /\ stage' = IF cursor' = limit THEN "poll" ELSE "handle"
    /\ UNCHANGED <<topic, limit, store, dlq, crashes>>

\* The commit raises (rebalance, timeout); the broker may have applied it.
CommitFails ==
    /\ stage = "commit"
    /\ Failure
    /\ committed' \in {committed, cursor + 1}
    /\ Exit
    /\ UNCHANGED <<topic, store, dlq>>

\* The process is killed, or DuckDB fails and the record is rolled back.
Crash ==
    /\ stage # "down"
    /\ Failure
    /\ Exit
    /\ UNCHANGED <<topic, committed, store, dlq>>

(***************************************************************************)
(* Specification                                                           *)
(***************************************************************************)
\* Anything may be written to the topic: the publisher's events, a copy of
\* one, or a record of some other producer.
Produce(m) ==
    /\ Len(topic) < MaxTopic
    /\ topic' = Append(topic, m)
    /\ UNCHANGED <<committed, processVars, store, dlq, crashes>>

Handle == StoreEvent \/ Quarantine \/ MeetPoison

Proceed == Poll \/ PollRaises \/ Handle \/ CommitOffset

Fault ==
    \/ QuarantineRetriedInternally
    \/ QuarantineFails
    \/ CommitFails
    \/ Crash

ConsumerNext == Start \/ Proceed \/ Fault

Next ==
    \/ \E m \in Payloads : Produce(m)
    \/ ConsumerNext

Spec == Init /\ [][Next]_consumerVars

\* The Deployment restarts the process, and a process that can take its next
\* step takes it.
ConsumerFairness ==
    /\ WF_consumerVars(Start)
    /\ WF_consumerVars(Proceed)

FairSpec == Spec /\ ConsumerFairness

(***************************************************************************)
(* Safety                                                                  *)
(***************************************************************************)
\* What became of record i: its event is in the table, or the record is in the
\* dead-letter topic.
Settled(i) ==
    \/ topic[i] \in Valid /\ EventId[topic[i]] \in StoredIds
    \/ topic[i] \in Malformed /\ i \in Quarantined

\* No record is lost: the group never commits past one that is neither stored
\* nor quarantined, whichever step the process died in.
CommittedIsSettled ==
    committed <= Len(topic) /\ \A i \in 1..committed : Settled(i)

\* The lag gauge is the distance from the position to the end of the topic:
\* it leaves out the records of the polled batch, so whenever it is computed
\* the true backlog is larger, but by no more than one poll.
Lag == Len(topic) - limit
LagIsWithinOnePoll ==
    stage # "down" => Len(topic) - committed <= Lag + MaxPoll

(***************************************************************************)
(* Refinement                                                              *)
(***************************************************************************)
\* Polls, failures and restarts add nothing to what RecordSettling promises:
\* records are settled in order, each under its own event_id or offset and once,
\* and the offset moves by one.  The next record is settled in the end if it is
\* valid or malformed, unless some record of the fetch it comes in fails in
\* _decode: that one stops the process before it, at every restart.
Settling == INSTANCE RecordSettling
              WITH Accepted <- Valid, Rejected <- Malformed,
                   Unreadable <- Undecodable, Reach <- MaxFetch,
                   Effect <- LAMBDA e, i : EventId[e],
                   log <- topic, done <- committed,
                   kept <- StoredIds, aside <- Quarantined
ImplementsSettling == Settling!Spec
=============================================================================

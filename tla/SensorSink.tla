------------------------------ MODULE SensorSink ------------------------------
(***************************************************************************)
(* The DuckDB sink of canonical sensor events (services/sink.py).  Each    *)
(* record of the clean topic is validated again, stored under its event_id *)
(* or, if the contract rejects it, published to the sink's dead-letter     *)
(* topic; then its offset is committed.  Any other exception rolls back    *)
(* and ends the process, which is restarted.                               *)
(*                                                                         *)
(* The event_id is recomputed from the reading, so the reading stands for  *)
(* it.  The clean topic has one partition here: the code commits each      *)
(* partition on its own.  DuckDB's file lock admits one process.           *)
(***************************************************************************)
EXTENDS Integers, Sequences, FiniteSets

CONSTANTS Readings,   \* readings, one per event_id
          Sources,    \* source coordinates of a canonical event
          Malformed,  \* records validate_canonical_sensor_event rejects
          Poison,     \* records whose handling raises anything else
          Undecodable,\* records for which _decode raises, inside poll()
          MaxPoll,    \* max_poll_records
          MaxFetch,   \* bound: records behind the position that poll() decodes
          MaxClean,   \* bound: records of the clean topic
          MaxCrashes  \* bound: failures and crashes of the process

CanonicalEvent == [reading : Readings, source : Sources]
Foreign == Malformed \cup Poison \cup Undecodable

ASSUME SinkAssumption ==
    /\ Malformed \cap Poison = {}
    /\ Undecodable \cap (Malformed \cup Poison) = {}
    /\ Foreign \cap CanonicalEvent = {}
    /\ MaxPoll \in Nat \ {0}
    /\ MaxFetch \in Nat /\ MaxFetch >= MaxPoll
    /\ MaxClean \in Nat
    /\ MaxCrashes \in Nat

VARIABLES clean,      \* the clean topic
          stored,     \* rows of sensor_events
          sinkDlq,    \* offsets in the order of the sink's dead-letter topic
          offset,     \* the group's committed offset
          handled,    \* records before the one in hand
          fetched,    \* end of the polled batch
          sinkStage,  \* what the process does next
          sinkCrashes \* failures so far

sinkLoop == <<handled, fetched, sinkStage>>
sinkVars == <<clean, stored, sinkDlq, offset, sinkLoop, sinkCrashes>>

(***************************************************************************)
(* Types and helpers                                                       *)
(***************************************************************************)
SinkTypeOK ==
    /\ clean \in Seq(CanonicalEvent \cup Foreign)
    /\ stored \subseteq CanonicalEvent
    /\ sinkDlq \in Seq(Nat)
    /\ offset \in Nat
    /\ handled \in Nat
    /\ fetched \in Nat
    /\ sinkStage \in {"down", "poll", "handle", "commit"}
    /\ sinkCrashes \in 0..MaxCrashes

Rejected(m) == m \in Malformed
Accepted(m) == m \notin Foreign
InHand == clean[handled + 1]
StoredReadings == {row.reading : row \in stored}
SinkQuarantined == {sinkDlq[k] : k \in DOMAIN sinkDlq}

SinkFault == sinkCrashes < MaxCrashes /\ sinkCrashes' = sinkCrashes + 1

SinkExit ==
    /\ sinkStage' = "down"
    /\ UNCHANGED <<handled, fetched>>

SinkInit ==
    /\ clean = <<>>
    /\ stored = {}
    /\ sinkDlq = <<>>
    /\ offset = 0
    /\ handled = 0
    /\ fetched = 0
    /\ sinkStage = "down"
    /\ sinkCrashes = 0

(***************************************************************************)
(* The loop of run()                                                       *)
(***************************************************************************)
\* auto_offset_reset="latest" for a group that has not committed yet.
SinkStartAtLatest ==
    /\ sinkStage = "down"
    /\ sinkStage' = "poll"
    /\ handled' = IF offset = 0 THEN Len(clean) ELSE offset
    /\ fetched' = handled'
    /\ UNCHANGED <<clean, stored, sinkDlq, offset, sinkCrashes>>

\* A new process opens DuckDB and resumes from the committed offset.
SinkStart ==
    /\ sinkStage = "down"
    /\ sinkStage' = "poll"
    /\ handled' = offset
    /\ fetched' = offset
    /\ UNCHANGED <<clean, stored, sinkDlq, offset, sinkCrashes>>

\* poll() returns a non-empty prefix of what follows the position, decoded.
SinkPoll ==
    /\ sinkStage = "poll"
    /\ \E n \in 1..MaxPoll :
          /\ fetched + n <= Len(clean)
          /\ \A i \in (fetched + 1)..(fetched + n) : clean[i] \notin Undecodable
          /\ fetched' = fetched + n
    /\ sinkStage' = "handle"
    /\ UNCHANGED <<clean, stored, sinkDlq, offset, handled, sinkCrashes>>

\* _decode raises inside poll(), before the records in front of the undecodable
\* one are handled; how far a poll decodes is the client library's choice.
SinkPollRaises ==
    /\ sinkStage = "poll"
    /\ \E n \in 1..MaxFetch :
          /\ fetched + n <= Len(clean)
          /\ clean[fetched + n] \in Undecodable
    /\ SinkExit
    /\ UNCHANGED <<clean, stored, sinkDlq, offset, sinkCrashes>>

Store(rows) ==
    /\ sinkStage = "handle"
    /\ Accepted(InHand)
    /\ stored' = rows
    /\ sinkStage' = "commit"
    /\ UNCHANGED <<clean, sinkDlq, offset, handled, fetched, sinkCrashes>>

\* ON CONFLICT DO UPDATE: the last copy of a reading replaces the first.
StoreLastCopy ==
    Store({row \in stored : row.reading # InHand.reading} \cup {InHand})

\* INSERT ... ON CONFLICT (event_id) DO NOTHING, then connection.commit().
StoreEvent ==
    Store(IF InHand.reading \in StoredReadings THEN stored ELSE stored \cup {InHand})

\* The send to the dead-letter topic is not waited for.
SinkQuarantineUnacknowledged ==
    /\ sinkStage = "handle"
    /\ Rejected(InHand)
    /\ sinkDlq' \in {sinkDlq, Append(sinkDlq, handled + 1)}
    /\ sinkStage' = "commit"
    /\ UNCHANGED <<clean, stored, offset, handled, fetched, sinkCrashes>>

\* _publish_sink_dlq is acknowledged.
SinkQuarantine ==
    /\ sinkStage = "handle"
    /\ Rejected(InHand)
    /\ sinkDlq' = Append(sinkDlq, handled + 1)
    /\ sinkStage' = "commit"
    /\ UNCHANGED <<clean, stored, offset, handled, fetched, sinkCrashes>>

\* It is acknowledged after the producer has repeated it.
SinkQuarantineTwice ==
    /\ sinkStage = "handle"
    /\ Rejected(InHand)
    /\ SinkFault
    /\ sinkDlq' = sinkDlq \o <<handled + 1, handled + 1>>
    /\ sinkStage' = "commit"
    /\ UNCHANGED <<clean, stored, offset, handled, fetched>>

\* KafkaError is raised again; the flush in finally may still deliver.
SinkQuarantineFails ==
    /\ sinkStage = "handle"
    /\ Rejected(InHand)
    /\ SinkFault
    /\ sinkDlq' \in {sinkDlq, Append(sinkDlq, handled + 1)}
    /\ SinkExit
    /\ UNCHANGED <<clean, stored, offset>>

\* Any other exception of the validation or of DuckDB: rollback, raise.
SinkMeetPoison ==
    /\ sinkStage = "handle"
    /\ InHand \in Poison
    /\ SinkExit
    /\ UNCHANGED <<clean, stored, sinkDlq, offset, sinkCrashes>>

\* _commit_message: offset + 1, then the next record or the next poll.
SinkCommit ==
    /\ sinkStage = "commit"
    /\ offset' = handled + 1
    /\ handled' = handled + 1
    /\ sinkStage' = IF handled' = fetched THEN "poll" ELSE "handle"
    /\ UNCHANGED <<clean, stored, sinkDlq, fetched, sinkCrashes>>

SinkCommitFails ==
    /\ sinkStage = "commit"
    /\ SinkFault
    /\ offset' \in {offset, handled + 1}
    /\ SinkExit
    /\ UNCHANGED <<clean, stored, sinkDlq>>

SinkCrash ==
    /\ sinkStage # "down"
    /\ SinkFault
    /\ SinkExit
    /\ UNCHANGED <<clean, stored, sinkDlq, offset>>

(***************************************************************************)
(* Specification                                                           *)
(***************************************************************************)
\* The processor, a replay or a manual publish writes to the clean topic.
Publish(m) ==
    /\ Len(clean) < MaxClean
    /\ clean' = Append(clean, m)
    /\ UNCHANGED <<stored, sinkDlq, offset, sinkLoop, sinkCrashes>>

SinkHandle == StoreEvent \/ SinkQuarantine \/ SinkMeetPoison

SinkNext ==
    \/ SinkStart
    \/ SinkPoll
    \/ SinkPollRaises
    \/ StoreEvent
    \/ SinkQuarantine
    \/ SinkQuarantineTwice
    \/ SinkQuarantineFails
    \/ SinkMeetPoison
    \/ SinkCommit
    \/ SinkCommitFails
    \/ SinkCrash

SinkSystem ==
    \/ \E m \in CanonicalEvent \cup Foreign : Publish(m)
    \/ SinkNext

SinkSpec == SinkInit /\ [][SinkSystem]_sinkVars

\* The container is restarted, and a running process takes its next step.
SinkFairness ==
    /\ WF_sinkVars(SinkStart)
    /\ WF_sinkVars(SinkPoll \/ SinkPollRaises)
    /\ WF_sinkVars(SinkHandle)
    /\ WF_sinkVars(SinkCommit)

(***************************************************************************)
(* Safety                                                                  *)
(***************************************************************************)
\* No record is lost: an offset is committed only past records that are stored
\* or quarantined, whichever step the process died in.
CommittedIsSettled ==
    /\ offset <= Len(clean)
    /\ \A i \in 1..offset :
          \/ Accepted(clean[i]) /\ clean[i].reading \in StoredReadings
          \/ Rejected(clean[i]) /\ i \in SinkQuarantined

\* Each reading has one row, the first copy the topic holds of it, so a replayed
\* or republished event never changes the lineage already stored.
StoredIsFirstCopy ==
    \A row \in stored :
        \E i \in DOMAIN clean :
            /\ clean[i] = row
            /\ \A j \in 1..(i - 1) : Accepted(clean[j]) => clean[j].reading # row.reading
=============================================================================

---------------------------- MODULE IcebergWriter ----------------------------
(***************************************************************************)
(* The Spark lakehouse writer (lakehouse/d2c_iceberg_stream.py).  Spark    *)
(* writes the offset range of a micro-batch to the checkpoint, calls       *)
(* write_batch, and records the batch as committed.  write_batch checks    *)
(* the immutable event ids, then commits to three Iceberg tables, one      *)
(* MERGE (one snapshot) each: facts, quarantine, audit.  The query may die *)
(* between any two, and is restarted from the checkpoint, which may itself *)
(* be lost and started anew.                                               *)
(*                                                                         *)
(* The topic has one partition here, so a source range is an interval of   *)
(* offsets and stands for its fingerprint.  Of an audit row only what      *)
(* _record_batch_audit compares is kept.  A table is a set of rows: two    *)
(* facts of one event_id differ in their offset, two rows of the audit in  *)
(* their range or counts, but a second, identical row of the quarantine or *)
(* of the audit is not seen.                                               *)
(***************************************************************************)
EXTENDS Integers, Sequences, FiniteSets

CONSTANTS Valid,      \* payloads that satisfy the event contract
          Malformed,  \* payloads parse_d2c_kafka_payload gives a failure_code
          Poison,     \* payloads for which it raises
          EventId,    \* the event_id of each valid payload
          MaxOffsets, \* maxOffsetsPerTrigger
          MaxTopic,   \* bound: records of the topic
          MaxCrashes, \* bound: crashes of the query
          MaxLosses   \* bound: losses of the checkpoint

Payloads == Valid \cup Malformed \cup Poison

ASSUME IcebergAssumption ==
    /\ Valid \cap Malformed = {}
    /\ Valid \cap Poison = {}
    /\ Malformed \cap Poison = {}
    /\ DOMAIN EventId = Valid
    /\ MaxOffsets \in Nat \ {0}
    /\ MaxTopic \in Nat
    /\ MaxCrashes \in Nat
    /\ MaxLosses \in Nat

VARIABLES topic,      \* the partition's log
          planned,    \* end of the last batch in the checkpoint's offset log
          completed,  \* end of the last batch in its commit log
          stage,      \* what the query does next
          facts,      \* rows of the approvals table
          quarantine, \* offsets in the quarantine table
          audit,      \* rows of the batch audit table
          crashes, losses

tableVars == <<facts, quarantine, audit>>
checkpointVars == <<planned, completed>>
icebergVars == <<topic, checkpointVars, stage, tableVars, crashes, losses>>

(***************************************************************************)
(* Types and helpers                                                       *)
(***************************************************************************)
Stages == {"down", "idle", "check", "facts", "quarantine", "audit", "commit"}

Fact == [payload : Valid, offset : Nat]
AuditRow == [first : Nat, last : Nat, valid : Nat, quarantined : Nat, duplicates : Nat]

TypeOK ==
    /\ topic \in Seq(Payloads)
    /\ planned \in Nat
    /\ completed \in Nat
    /\ stage \in Stages
    /\ facts \subseteq Fact
    /\ quarantine \subseteq Nat
    /\ audit \subseteq AuditRow
    /\ crashes \in 0..MaxCrashes
    /\ losses \in 0..MaxLosses

\* The offsets of the batch in hand, and those of one kind of payload.
Batch == (completed + 1)..planned
Of(kind) == {i \in Batch : topic[i] \in kind}

IdAt(i) == EventId[topic[i]]
BatchIds == {IdAt(i) : i \in Of(Valid)}
FactIds == {EventId[f.payload] : f \in facts}

\* Two payloads of one event_id in the batch.
ConflictInBatch ==
    \E i, j \in Of(Valid) : IdAt(i) = IdAt(j) /\ topic[i] # topic[j]

\* A payload other than the one stored under its event_id.
ConflictWithFacts ==
    \E i \in Of(Valid), f \in facts :
        EventId[f.payload] = IdAt(i) /\ f.payload # topic[i]

\* duplicate_records = valid_records - unique_valid_records.
AuditOfBatch ==
    [first |-> completed + 1, last |-> planned,
     valid |-> Cardinality(Of(Valid)),
     quarantined |-> Cardinality(Of(Malformed)),
     duplicates |-> Cardinality(Of(Valid)) - Cardinality(BatchIds)]

SameRange(row) == row.first = completed + 1 /\ row.last = planned

Init ==
    /\ topic = <<>>
    /\ planned = 0
    /\ completed = 0
    /\ stage = "down"
    /\ facts = {}
    /\ quarantine = {}
    /\ audit = {}
    /\ crashes = 0
    /\ losses = 0

(***************************************************************************)
(* The streaming query                                                     *)
(***************************************************************************)
Start ==
    /\ stage = "down"
    /\ stage' = "idle"
    /\ UNCHANGED <<topic, checkpointVars, tableVars, crashes, losses>>

\* startingOffsets "latest" for a checkpoint that has no batch yet.
PlanBatchFromLatest ==
    /\ stage = "idle"
    /\ planned = completed
    /\ \E n \in 1..MaxOffsets :
          /\ planned + n <= Len(topic)
          /\ planned' = planned + n
          /\ completed' = IF planned = 0 THEN n - 1 ELSE completed
    /\ stage' = "check"
    /\ UNCHANGED <<topic, tableVars, crashes, losses>>

\* A range that follows the last one is written to the offset log.
PlanBatch ==
    /\ stage = "idle"
    /\ planned = completed
    /\ \E n \in 1..MaxOffsets :
          /\ planned + n <= Len(topic)
          /\ planned' = planned + n
    /\ stage' = "check"
    /\ UNCHANGED <<topic, completed, tableVars, crashes, losses>>

\* The range that was planned and not completed is run again.
ResumeBatch ==
    /\ stage = "idle"
    /\ planned > completed
    /\ stage' = "check"
    /\ UNCHANGED <<topic, checkpointVars, tableVars, crashes, losses>>

(***************************************************************************)
(* write_batch                                                             *)
(***************************************************************************)
\* Classify the records and look for conflicts, or raise.
Check(refused) ==
    /\ stage = "check"
    /\ stage' = IF Of(Poison) # {} \/ refused THEN "down" ELSE "facts"
    /\ UNCHANGED <<topic, checkpointVars, tableVars, crashes, losses>>

CheckBatchOnly == Check(ConflictInBatch)
CheckBatch == Check(ConflictInBatch \/ ConflictWithFacts)

\* Rows MERGE inserts: for each id that is new one copy, the first by Kafka
\* timestamp, which need not be the first by offset.
Insert(ids, next) ==
    /\ stage = "facts"
    /\ \E copy \in {c \in [ids -> Of(Valid)] : \A id \in ids : IdAt(c[id]) = id} :
          facts' = facts \cup {[payload |-> topic[copy[id]], offset |-> copy[id]] : id \in ids}
    /\ stage' = next
    /\ UNCHANGED <<topic, checkpointVars, quarantine, crashes, losses>>

\* An append instead of a MERGE.
AppendFacts == Insert(BatchIds, "quarantine") /\ UNCHANGED audit

\* The audit row is written with the facts.
MergeFactsAndAudit ==
    Insert(BatchIds \ FactIds, "quarantine") /\ audit' = audit \cup {AuditOfBatch}

\* _merge_approval_rows, keyed by event_id.
MergeFacts == Insert(BatchIds \ FactIds, "quarantine") /\ UNCHANGED audit

\* Rejected records are dropped from a batch that has a fact.
MergeQuarantineOrFacts ==
    /\ stage = "quarantine"
    /\ quarantine' = IF Of(Valid) = {} THEN quarantine \cup Of(Malformed) ELSE quarantine
    /\ stage' = "audit"
    /\ UNCHANGED <<topic, checkpointVars, facts, audit, crashes, losses>>

\* _merge_quarantine_rows, keyed by topic, partition and offset.
MergeQuarantine ==
    /\ stage = "quarantine"
    /\ quarantine' = quarantine \cup Of(Malformed)
    /\ stage' = "audit"
    /\ UNCHANGED <<topic, checkpointVars, facts, audit, crashes, losses>>

\* Auditing only batches that have facts.
RecordAuditOfFacts ==
    /\ stage = "audit"
    /\ audit' = IF Of(Valid) = {} THEN audit ELSE audit \cup {AuditOfBatch}
    /\ stage' = "commit"
    /\ UNCHANGED <<topic, checkpointVars, facts, quarantine, crashes, losses>>

\* _record_batch_audit: a range is audited once; other counts than those on
\* record raise.
RecordAudit ==
    /\ stage = "audit"
    /\ \/ /\ \E row \in audit : SameRange(row) /\ row # AuditOfBatch
          /\ stage' = "down"
          /\ UNCHANGED audit
       \/ /\ \A row \in audit : SameRange(row) => row = AuditOfBatch
          /\ audit' = audit \cup {AuditOfBatch}
          /\ stage' = "commit"
    /\ UNCHANGED <<topic, checkpointVars, facts, quarantine, crashes, losses>>

\* write_batch returns and Spark completes the batch in the commit log.
CompleteBatch ==
    /\ stage = "commit"
    /\ completed' = planned
    /\ stage' = "idle"
    /\ UNCHANGED <<topic, planned, tableVars, crashes, losses>>

(***************************************************************************)
(* Failures                                                                *)
(***************************************************************************)
\* The query dies, or a catalog, Kafka or Spark call raises.
Crash ==
    /\ stage # "down"
    /\ crashes < MaxCrashes
    /\ crashes' = crashes + 1
    /\ stage' = "down"
    /\ UNCHANGED <<topic, checkpointVars, tableVars, losses>>

\* The query is started with a new checkpoint: startingOffsets is earliest.
LoseCheckpoint ==
    /\ stage = "down"
    /\ planned > 0
    /\ losses < MaxLosses
    /\ losses' = losses + 1
    /\ planned' = 0
    /\ completed' = 0
    /\ UNCHANGED <<topic, stage, tableVars, crashes>>

(***************************************************************************)
(* Specification                                                           *)
(***************************************************************************)
Produce(m) ==
    /\ Len(topic) < MaxTopic
    /\ topic' = Append(topic, m)
    /\ UNCHANGED <<checkpointVars, stage, tableVars, crashes, losses>>

QueryStep ==
    \/ Start
    \/ PlanBatch
    \/ ResumeBatch
    \/ CheckBatch
    \/ MergeFacts
    \/ MergeQuarantine
    \/ RecordAudit
    \/ CompleteBatch

Next ==
    \/ \E m \in Payloads : Produce(m)
    \/ QueryStep
    \/ Crash
    \/ LoseCheckpoint

Spec == Init /\ [][Next]_icebergVars

\* The query is started again after it ended, and goes on while it runs.
FairSpec == Spec /\ WF_icebergVars(QueryStep)

(***************************************************************************)
(* Safety                                                                  *)
(***************************************************************************)
\* Record i is in the table it belongs to; a fact has the record's own payload,
\* not another one of the same event_id.
Reconciled(i) ==
    \/ topic[i] \in Valid /\ \E f \in facts : f.payload = topic[i]
    \/ topic[i] \in Malformed /\ i \in quarantine

\* The checkpoint never passes a record that is not persisted: neither a crash
\* between the merges, nor a lost checkpoint, nor an event_id that arrives again
\* with another payload (README.md, "the checkpoint does not advance").
CheckpointedIsPersisted ==
    completed <= planned /\ \A i \in 1..completed : Reconciled(i)

\* The tables tell the truth about the topic, through every replay: one fact per
\* event_id, at an offset that holds its payload; only rejected records are
\* quarantined.
TablesAreTrue ==
    /\ \A f \in facts : f.offset \in DOMAIN topic /\ topic[f.offset] = f.payload
    /\ \A f, g \in facts : EventId[f.payload] = EventId[g.payload] => f = g
    /\ \A i \in quarantine : i \in DOMAIN topic /\ topic[i] \in Malformed

\* While the checkpoint survives, each completed record is in the range of one
\* audit row and of no second, different one, however often its batch was run:
\* the audited ranges neither overlap nor leave a gap.  (Whether that one row is
\* stored once is the MERGE's ON clause, which a set cannot show to fail.)
Covering(i) == {row \in audit : i \in row.first..row.last}
AuditPartitionsTheTopic ==
    losses = 0 => \A i \in 1..completed : Cardinality(Covering(i)) = 1

\* "Replaying the same source ranges must not add fact, quarantine, or audit
\* records" (catalog/data-products/d2c-application-approvals.v1.json): once a
\* range has its audit row, running it again adds no fact, no quarantined offset
\* and no other audit row.
ReplayAddsNothing ==
    [][(planned > completed /\ \E row \in audit : SameRange(row))
           => UNCHANGED tableVars]_icebergVars

(***************************************************************************)
(* Liveness                                                                *)
(***************************************************************************)
\* Every record is eventually in its table and behind the checkpoint, unless a
\* batch up to its own holds a record that raises in the parser, or two payloads
\* of one event_id, which stop the stream on purpose.
Blocked(i) ==
    \E j, k \in {n \in DOMAIN topic : n < i + MaxOffsets} :
        \/ topic[j] \in Poison
        \/ {topic[j], topic[k]} \subseteq Valid /\ IdAt(j) = IdAt(k) /\ topic[j] # topic[k]
EveryRecordIsReconciled ==
    \A i \in 1..MaxTopic :
        i <= Len(topic) ~> Blocked(i) \/ (completed >= i /\ Reconciled(i))
=============================================================================

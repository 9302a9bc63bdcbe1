------------------------ MODULE IcebergWriter_proofs ------------------------
(***************************************************************************)
(* Proofs about IcebergWriter and the gate that counts its rows, for any   *)
(* payloads, batch size, topic, and any number of crashes and of lost      *)
(* checkpoints.                                                            *)
(***************************************************************************)
EXTENDS IcebergValidation, FiniteSetTheorems, TLAPS

(***************************************************************************)
(* The inductive invariant                                                 *)
(***************************************************************************)
InBatch == {"check", "facts", "quarantine", "audit", "commit"}
Checked == InBatch \ {"check"}

\* The offset log is ahead of the commit log by the batch in hand, if any.
RangesAreOrdered ==
    /\ completed <= planned /\ planned <= Len(topic)
    /\ stage \in InBatch => completed < planned

\* What the steps of write_batch have established before each of them.
BatchProgress ==
    /\ stage \in Checked => Of(Poison) = {} /\ ~ConflictInBatch
    /\ stage = "facts" => ~ConflictWithFacts
    /\ stage \in {"quarantine", "audit", "commit"} =>
           \A i \in Of(Valid) : \E f \in facts : f.payload = topic[i]
    /\ stage \in {"audit", "commit"} => Of(Malformed) \subseteq quarantine
    /\ stage = "commit" => AuditOfBatch \in audit

\* An audit row stands for a range of the topic that is in the tables already,
\* whatever checkpoint it was written under, and its parts are the range.
AuditedIsPersisted ==
    \A row \in audit :
        /\ 1 <= row.first /\ row.first <= row.last /\ row.last <= Len(topic)
        /\ row.last - row.first + 1 = row.valid + row.quarantined
        /\ \A i \in row.first..row.last : Reconciled(i)

OneRowPerRange ==
    \A r, s \in audit : r.first = s.first /\ r.last = s.last => r = s

\* Under its first checkpoint the query has audited the completed records, and
\* beyond them nothing but the batch in hand.
AuditFollowsCheckpoint ==
    losses = 0 =>
        /\ \A row \in audit : row.last <= completed \/ (completed < planned /\ SameRange(row))
        /\ \A i \in 1..completed : \E row \in audit : Covering(i) = {row}

IInv ==
    /\ TypeOK
    /\ RangesAreOrdered
    /\ BatchProgress
    /\ CheckpointedIsPersisted
    /\ TablesAreTrue
    /\ AuditedIsPersisted
    /\ OneRowPerRange
    /\ AuditFollowsCheckpoint

(***************************************************************************)
(* Lemmas about the batch and about steps of any kind                      *)
(***************************************************************************)
\* The batch is a finite part of the topic, and so is each kind of its records.
LEMMA BatchIsPartOfTopic ==
    ASSUME TypeOK, RangesAreOrdered
    PROVE  /\ Batch \subseteq DOMAIN topic /\ DOMAIN topic = 1..Len(topic)
           /\ \A kind : Of(kind) \subseteq Batch
           /\ \A kind : IsFiniteSet(Of(kind)) /\ Cardinality(Of(kind)) \in Nat
  <1>1. Batch \subseteq 1..Len(topic) /\ DOMAIN topic = 1..Len(topic)
    BY DEF Batch, TypeOK, RangesAreOrdered
  <1>2. ASSUME NEW kind
        PROVE  /\ Of(kind) \subseteq Batch
               /\ IsFiniteSet(Of(kind)) /\ Cardinality(Of(kind)) \in Nat
    <2>1. Of(kind) \subseteq Batch
      BY DEF Of
    <2>2. IsFiniteSet(Batch)
      BY FS_Interval DEF Batch, TypeOK
    <2>3. IsFiniteSet(Of(kind))
      BY <2>1, <2>2, FS_Subset
    <2> QED
      BY <2>1, <2>3, FS_CardinalityType
  <1> QED
    BY <1>1, <1>2

\* A valid record has an event_id, and the batch no more ids than valid records.
LEMMA NoMoreIdsThanRecords ==
    ASSUME TypeOK, RangesAreOrdered
    PROVE  IsFiniteSet(BatchIds) /\ Cardinality(BatchIds) \in Nat
           /\ Cardinality(BatchIds) <= Cardinality(Of(Valid))
  <1> DEFINE id == [i \in Of(Valid) |-> IdAt(i)]
  <1>1. id \in Surjection(Of(Valid), BatchIds)
    BY DEF Surjection, BatchIds
  <1>2. IsFiniteSet(Of(Valid))
    BY BatchIsPartOfTopic
  <1>3. IsFiniteSet(BatchIds) /\ Cardinality(BatchIds) <= Cardinality(Of(Valid))
    BY <1>1, <1>2, FS_Surjection
  <1> QED
    BY <1>3, FS_CardinalityType

\* The audit row of a batch without poison counts each of its records once.
LEMMA AuditCountsTheBatch ==
    ASSUME TypeOK, RangesAreOrdered, completed < planned, Of(Poison) = {}
    PROVE  /\ AuditOfBatch \in AuditRow
           /\ AuditOfBatch.first = completed + 1 /\ AuditOfBatch.last = planned
           /\ planned - (completed + 1) + 1 = AuditOfBatch.valid + AuditOfBatch.quarantined
  <1> DEFINE valid == Of(Valid)
             malformed == Of(Malformed)
  <1>1. /\ IsFiniteSet(valid) /\ Cardinality(valid) \in Nat
        /\ IsFiniteSet(malformed) /\ Cardinality(malformed) \in Nat
    BY BatchIsPartOfTopic
  <1>2. valid \cap malformed = {}
    BY IcebergAssumption DEF Of
  <1>3. valid \cup malformed = Batch
    <2>1. \A i \in Batch : topic[i] \in Payloads
      BY BatchIsPartOfTopic DEF TypeOK
    <2> QED
      BY <2>1 DEF Of, Payloads
  <1>4. Cardinality(Batch) = planned - (completed + 1) + 1
    <2>1. completed + 1 \in Int /\ planned \in Int /\ ~(completed + 1 > planned)
      BY DEF TypeOK
    <2> QED
      BY <2>1, FS_Interval DEF Batch
  <1>5. Cardinality(Batch) = Cardinality(valid) + Cardinality(malformed) - Cardinality({})
    BY <1>1, <1>2, <1>3, FS_Union
  <1>6. Cardinality({}) = 0
    BY FS_EmptySet
  <1>7. Cardinality(valid) - Cardinality(BatchIds) \in Nat
    BY <1>1, NoMoreIdsThanRecords
  <1> HIDE DEF valid, malformed
  <1>8. Cardinality(valid) + Cardinality(malformed) = planned - (completed + 1) + 1
    BY <1>1, <1>4, <1>5, <1>6
  <1> QED
    BY <1>1, <1>7, <1>8 DEF valid, malformed, AuditOfBatch, AuditRow, TypeOK

\* Records are only ever added to the topic.
LEMMA TopicGrows ==
    ASSUME TypeOK, [Next]_icebergVars
    PROVE  /\ topic' \in Seq(Payloads)
           /\ Len(topic) \in Nat /\ Len(topic') \in Nat /\ Len(topic) <= Len(topic')
           /\ DOMAIN topic = 1..Len(topic) /\ DOMAIN topic' = 1..Len(topic')
           /\ \A i \in 1..Len(topic) : topic'[i] = topic[i]
  <1>1. CASE topic' = topic
    BY <1>1 DEF TypeOK
  <1>2. ASSUME NEW m \in Payloads, topic' = Append(topic, m)
        PROVE  /\ topic' \in Seq(Payloads)
               /\ Len(topic') = Len(topic) + 1
               /\ \A i \in 1..Len(topic) : topic'[i] = topic[i]
    BY <1>2 DEF TypeOK
  <1>3. topic' = topic \/ \E m \in Payloads : topic' = Append(topic, m)
    BY DEF Next, Produce, QueryStep, Start, PlanBatch, ResumeBatch, CheckBatch, Check, MergeFacts,
           Insert, MergeQuarantine, RecordAudit, CompleteBatch, Crash, LoseCheckpoint, icebergVars
  <1> QED
    BY <1>1, <1>2, <1>3 DEF TypeOK

\* Rows are only ever added to the tables.
LEMMA TablesGrow ==
    ASSUME [Next]_icebergVars
    PROVE  facts \subseteq facts' /\ quarantine \subseteq quarantine' /\ audit \subseteq audit'
  BY DEF Next, Produce, QueryStep, Start, PlanBatch, ResumeBatch, CheckBatch, Check, MergeFacts,
         Insert, MergeQuarantine, RecordAudit, CompleteBatch, Crash, LoseCheckpoint, icebergVars,
         tableVars

\* A record that is in its table stays there.
LEMMA ReconciledStays ==
    ASSUME TypeOK, [Next]_icebergVars, NEW i \in 1..Len(topic), Reconciled(i)
    PROVE  Reconciled(i)'
  BY TopicGrows, TablesGrow DEF Reconciled

\* The batch keeps its records while the checkpoint keeps its ranges.
LEMMA BatchStays ==
    ASSUME TypeOK, RangesAreOrdered, [Next]_icebergVars, UNCHANGED checkpointVars
    PROVE  /\ \A kind : Of(kind)' = Of(kind)
           /\ \A i \in Batch : topic'[i] = topic[i]
           /\ Batch' = Batch /\ BatchIds' = BatchIds /\ AuditOfBatch' = AuditOfBatch
           /\ ConflictInBatch' <=> ConflictInBatch
  <1>1. Batch' = Batch
    BY DEF Batch, checkpointVars
  <1>2. \A i \in Batch : topic'[i] = topic[i]
    BY TopicGrows, BatchIsPartOfTopic
  <1>3. ASSUME NEW kind
        PROVE  Of(kind)' = Of(kind)
    BY <1>1, <1>2 DEF Of
  <1>4. \A i \in Of(Valid) : topic'[i] = topic[i]
    BY <1>2 DEF Of
  <1>5. Of(Valid)' = Of(Valid) /\ Of(Malformed)' = Of(Malformed)
    BY <1>3
  <1>6. BatchIds' = BatchIds
    BY <1>4, <1>5 DEF BatchIds, IdAt
  <1>7. ConflictInBatch' <=> ConflictInBatch
    BY <1>4, <1>5 DEF ConflictInBatch, IdAt
  <1>8. AuditOfBatch' = AuditOfBatch
    BY <1>5, <1>6 DEF AuditOfBatch, checkpointVars
  <1> QED
    BY <1>1, <1>2, <1>3, <1>6, <1>7, <1>8

\* A fact that is inserted is a valid record of the batch, under an event_id that
\* no fact has yet, and every such id gets one.
LEMMA InsertedFacts ==
    ASSUME TypeOK, RangesAreOrdered, MergeFacts
    PROVE  /\ \A f \in facts' \ facts :
                  /\ f = [payload |-> topic[f.offset], offset |-> f.offset]
                  /\ f.offset \in Of(Valid) /\ EventId[f.payload] \notin FactIds
           /\ \A f, g \in facts' \ facts : EventId[f.payload] = EventId[g.payload] => f = g
           /\ \A i \in Of(Valid) : \E f \in facts' : EventId[f.payload] = IdAt(i)
  <1> DEFINE ids == BatchIds \ FactIds
  <1>1. PICK copy \in [ids -> Of(Valid)] :
            /\ \A id \in ids : IdAt(copy[id]) = id
            /\ facts' = facts \cup {[payload |-> topic[copy[id]], offset |-> copy[id]] : id \in ids}
    BY DEF MergeFacts, Insert
  <1> DEFINE row(id) == [payload |-> topic[copy[id]], offset |-> copy[id]]
  <1>2. ASSUME NEW id \in ids
        PROVE  /\ row(id) = [payload |-> topic[row(id).offset], offset |-> row(id).offset]
               /\ row(id).offset \in Of(Valid) /\ EventId[row(id).payload] = id
    BY <1>1 DEF IdAt
  <1>3. \A f \in facts' \ facts : \E id \in ids : f = row(id)
    BY <1>1
  <1>4. \A f \in facts' \ facts :
            /\ f = [payload |-> topic[f.offset], offset |-> f.offset]
            /\ f.offset \in Of(Valid) /\ EventId[f.payload] \notin FactIds
    BY <1>2, <1>3
  <1>5. \A f, g \in facts' \ facts : EventId[f.payload] = EventId[g.payload] => f = g
    BY <1>2, <1>3
  <1>6. ASSUME NEW i \in Of(Valid)
        PROVE  \E f \in facts' : EventId[f.payload] = IdAt(i)
    <2>1. IdAt(i) \in BatchIds
      BY DEF BatchIds
    <2>2. CASE IdAt(i) \in FactIds
      BY <1>1, <2>2 DEF FactIds
    <2>3. CASE IdAt(i) \in ids
      BY <1>1, <1>2, <2>3
    <2> QED
      BY <2>1, <2>2, <2>3
  <1> QED
    BY <1>4, <1>5, <1>6

(***************************************************************************)
(* Each part of the invariant is preserved                                 *)
(***************************************************************************)
LEMMA InitInvariant == Init => IInv
  <1> SUFFICES ASSUME Init PROVE IInv
    OBVIOUS
  <1>1. TypeOK
    BY IcebergAssumption DEF Init, TypeOK, Stages
  <1>2. 1..completed = {}
    BY DEF Init
  <1>3. RangesAreOrdered /\ BatchProgress
    BY DEF Init, RangesAreOrdered, BatchProgress, InBatch, Checked
  <1>4. CheckpointedIsPersisted /\ TablesAreTrue
    BY <1>2 DEF Init, CheckpointedIsPersisted, TablesAreTrue
  <1>5. AuditedIsPersisted /\ OneRowPerRange /\ AuditFollowsCheckpoint
    BY <1>2 DEF Init, AuditedIsPersisted, OneRowPerRange, AuditFollowsCheckpoint
  <1> QED
    BY <1>1, <1>3, <1>4, <1>5 DEF IInv

LEMMA RangesStayOrdered ==
    ASSUME TypeOK, RangesAreOrdered, [Next]_icebergVars
    PROVE  RangesAreOrdered' /\ completed' \in Nat /\ planned' \in Nat
  <1> USE DEF TypeOK, RangesAreOrdered, InBatch
  <1>1. Len(topic) \in Nat /\ Len(topic') \in Nat /\ Len(topic) <= Len(topic')
    BY TopicGrows
  <1>2. ASSUME UNCHANGED checkpointVars, stage' \in InBatch => stage \in InBatch
        PROVE  RangesAreOrdered' /\ completed' \in Nat /\ planned' \in Nat
    BY <1>1, <1>2 DEF checkpointVars
  <1>3. CASE UNCHANGED icebergVars
    BY <1>2, <1>3 DEF icebergVars
  <1>4. ASSUME NEW m \in Payloads, Produce(m)
        PROVE  UNCHANGED checkpointVars /\ (stage' \in InBatch => stage \in InBatch)
    BY <1>4 DEF Produce
  <1>5. CASE Start
    BY <1>2, <1>5 DEF Start
  <1>6. CASE PlanBatch
    <2>1. /\ UNCHANGED <<topic, completed>> /\ planned = completed
          /\ planned' \in Nat /\ planned' > planned /\ planned' <= Len(topic)
      BY <1>1, <1>6, IcebergAssumption DEF PlanBatch
    <2> QED
      BY <1>1, <2>1
  <1>7. CASE ResumeBatch
    BY <1>1, <1>7 DEF ResumeBatch, checkpointVars
  <1>8. CASE CheckBatch
    BY <1>2, <1>8 DEF CheckBatch, Check
  <1>9. CASE MergeFacts
    BY <1>2, <1>9 DEF MergeFacts, Insert
  <1>10. CASE MergeQuarantine
    BY <1>2, <1>10 DEF MergeQuarantine
  <1>11. CASE RecordAudit
    BY <1>2, <1>11 DEF RecordAudit
  <1>12. CASE CompleteBatch
    BY <1>1, <1>12 DEF CompleteBatch
  <1>13. CASE Crash
    BY <1>2, <1>13 DEF Crash
  <1>14. CASE LoseCheckpoint
    BY <1>1, <1>14 DEF LoseCheckpoint
  <1> QED
    BY <1>2, <1>3, <1>4, <1>5, <1>6, <1>7, <1>8, <1>9, <1>10, <1>11, <1>12, <1>13, <1>14
    DEF Next, QueryStep

LEMMA TypesKept ==
    ASSUME TypeOK, RangesAreOrdered, BatchProgress, [Next]_icebergVars
    PROVE  TypeOK'
  <1> USE IcebergAssumption DEF TypeOK, Stages
  <1>1. topic' \in Seq(Payloads) /\ completed' \in Nat /\ planned' \in Nat
    BY TopicGrows, RangesStayOrdered
  <1>2. ASSUME UNCHANGED <<tableVars, crashes, losses>>, stage' \in Stages
        PROVE  TypeOK'
    BY <1>1, <1>2 DEF tableVars
  <1>3. CASE UNCHANGED icebergVars
    BY <1>2, <1>3 DEF icebergVars
  <1>4. ASSUME NEW m \in Payloads, Produce(m)
        PROVE  TypeOK'
    BY <1>2, <1>4 DEF Produce
  <1>5. CASE Start \/ PlanBatch \/ ResumeBatch \/ CheckBatch \/ CompleteBatch
    BY <1>2, <1>5 DEF Start, PlanBatch, ResumeBatch, CheckBatch, Check, CompleteBatch
  <1>6. CASE MergeFacts
    <2>1. \A f \in facts' \ facts : f \in Fact
      <3> TAKE f \in facts' \ facts
      <3>1. f = [payload |-> topic[f.offset], offset |-> f.offset] /\ f.offset \in Of(Valid)
        BY <1>6, InsertedFacts
      <3>2. topic[f.offset] \in Valid /\ f.offset \in Nat
        BY <3>1 DEF Of, Batch
      <3> QED
        BY <3>1, <3>2 DEF Fact
    <2> QED
      BY <1>1, <1>6, <2>1 DEF MergeFacts, Insert
  <1>7. CASE MergeQuarantine
    <2>1. Of(Malformed) \subseteq Nat
      BY DEF Of, Batch
    <2>2. quarantine' \subseteq Nat
      BY <1>7, <2>1 DEF MergeQuarantine
    <2> QED
      BY <1>1, <1>7, <2>2 DEF MergeQuarantine
  <1>8. CASE RecordAudit
    <2>1. AuditOfBatch \in AuditRow
      BY <1>8, AuditCountsTheBatch
      DEF RecordAudit, RangesAreOrdered, BatchProgress, InBatch, Checked
    <2> QED
      BY <1>1, <1>8, <2>1 DEF RecordAudit
  <1>9. CASE Crash
    BY <1>1, <1>9 DEF Crash, tableVars
  <1>10. CASE LoseCheckpoint
    BY <1>1, <1>10 DEF LoseCheckpoint, tableVars
  <1> QED
    BY <1>3, <1>4, <1>5, <1>6, <1>7, <1>8, <1>9, <1>10 DEF Next, QueryStep

\* write_batch goes on only with what its earlier steps have established.
LEMMA ProgressKept ==
    ASSUME TypeOK, RangesAreOrdered, BatchProgress, [Next]_icebergVars
    PROVE  BatchProgress'
  <1> USE DEF InBatch, Checked
  <1>1. ASSUME UNCHANGED checkpointVars, facts' = facts
        PROVE  ConflictWithFacts' <=> ConflictWithFacts
    BY <1>1, BatchStays DEF ConflictWithFacts, IdAt, Of
  <1>2. ASSUME UNCHANGED checkpointVars, \A i \in Of(Valid) : \E f \in facts : f.payload = topic[i]
        PROVE  (\A i \in Of(Valid) : \E f \in facts : f.payload = topic[i])'
    BY <1>2, BatchStays, TablesGrow DEF Of
  <1>3. ASSUME UNCHANGED <<checkpointVars, stage, tableVars>>
        PROVE  BatchProgress'
    BY <1>1, <1>2, <1>3, BatchStays DEF BatchProgress, tableVars
  <1>4. ASSUME stage' \in {"down", "idle", "check"}
        PROVE  BatchProgress'
    BY <1>4 DEF BatchProgress
  <1>5. CASE UNCHANGED icebergVars
    BY <1>3, <1>5 DEF icebergVars
  <1>6. ASSUME NEW m \in Payloads, Produce(m)
        PROVE  BatchProgress'
    BY <1>3, <1>6 DEF Produce
  <1>7. CASE Start \/ PlanBatch \/ ResumeBatch \/ CompleteBatch \/ Crash
    BY <1>4, <1>7 DEF Start, PlanBatch, ResumeBatch, CompleteBatch, Crash
  <1>8. CASE LoseCheckpoint
    BY <1>4, <1>8 DEF LoseCheckpoint
  <1>9. CASE CheckBatch
    <2>1. CASE stage' = "facts"
      <3>1. Of(Poison) = {} /\ ~ConflictInBatch /\ ~ConflictWithFacts
        BY <1>9, <2>1 DEF CheckBatch, Check
      <3> QED
        BY <1>1, <1>9, <2>1, <3>1, BatchStays DEF CheckBatch, Check, BatchProgress, tableVars
    <2> QED
      BY <1>4, <1>9, <2>1 DEF CheckBatch, Check
  <1>10. CASE MergeFacts
    <2>1. /\ UNCHANGED <<topic, checkpointVars>> /\ stage = "facts" /\ stage' = "quarantine"
      BY <1>10 DEF MergeFacts, Insert
    <2>2. Of(Poison) = {} /\ ~ConflictInBatch /\ ~ConflictWithFacts
      BY <2>1 DEF BatchProgress
    <2>3. ASSUME NEW i \in Of(Valid)
          PROVE  \E f \in facts' : f.payload = topic[i]
      <3>1. PICK f \in facts' : EventId[f.payload] = IdAt(i)
        BY <1>10, InsertedFacts
      <3>2. CASE f \in facts
        BY <2>2, <3>1, <3>2 DEF ConflictWithFacts
      <3>3. CASE f \notin facts
        <4>1. f.payload = topic[f.offset] /\ f.offset \in Of(Valid)
          <5>1. f = [payload |-> topic[f.offset], offset |-> f.offset] /\ f.offset \in Of(Valid)
            BY <1>10, <3>1, <3>3, InsertedFacts
          <5> QED
            BY <5>1
        <4>2. IdAt(f.offset) = IdAt(i)
          BY <3>1, <4>1 DEF IdAt
        <4> QED
          BY <2>2, <3>1, <4>1, <4>2 DEF ConflictInBatch
      <3> QED
        BY <3>2, <3>3
    <2>4. (\A i \in Of(Valid) : \E f \in facts : f.payload = topic[i])'
      BY <2>1, <2>3, BatchStays
    <2> QED
      BY <2>1, <2>2, <2>4, BatchStays DEF BatchProgress
  <1>11. CASE MergeQuarantine
    <2>1. /\ UNCHANGED <<topic, checkpointVars, facts>> /\ stage = "quarantine" /\ stage' = "audit"
          /\ quarantine' = quarantine \cup Of(Malformed)
      BY <1>11 DEF MergeQuarantine
    <2> QED
      BY <1>2, <2>1, BatchStays DEF BatchProgress
  <1>12. CASE RecordAudit
    <2>1. CASE stage' = "commit"
      <3>1. /\ UNCHANGED <<topic, checkpointVars, facts, quarantine>> /\ stage = "audit"
            /\ audit' = audit \cup {AuditOfBatch}
        BY <1>12, <2>1 DEF RecordAudit
      <3> QED
        BY <1>2, <2>1, <3>1, BatchStays DEF BatchProgress
    <2> QED
      BY <1>4, <1>12, <2>1 DEF RecordAudit
  <1> QED
    BY <1>5, <1>6, <1>7, <1>8, <1>9, <1>10, <1>11, <1>12 DEF Next, QueryStep

\* The commit log passes a batch only after its records are in the tables.
LEMMA CheckpointedStaysPersisted ==
    ASSUME TypeOK, RangesAreOrdered, BatchProgress, CheckpointedIsPersisted, [Next]_icebergVars
    PROVE  CheckpointedIsPersisted'
  <1>1. completed' <= planned'
    BY RangesStayOrdered DEF RangesAreOrdered
  <1>2. \A i \in 1..completed : i \in 1..Len(topic) /\ Reconciled(i)'
    <2> TAKE i \in 1..completed
    <2>1. i \in 1..Len(topic)
      BY DEF TypeOK, RangesAreOrdered
    <2> QED
      BY <2>1, ReconciledStays DEF CheckpointedIsPersisted
  <1>3. CASE completed' = completed
    BY <1>1, <1>2, <1>3 DEF CheckpointedIsPersisted
  <1>4. CASE completed' = 0
    <2>1. 1..completed' = {}
      BY <1>4
    <2> QED
      BY <1>1, <2>1 DEF CheckpointedIsPersisted
  <1>5. CASE CompleteBatch
    <2>1. ASSUME NEW i \in Batch
          PROVE  Reconciled(i)
      <3>1. topic[i] \in Payloads /\ topic[i] \notin Poison
        BY <1>5, BatchIsPartOfTopic DEF CompleteBatch, BatchProgress, InBatch, Checked, Of, TypeOK
      <3>2. CASE topic[i] \in Valid
        BY <1>5, <3>2 DEF CompleteBatch, BatchProgress, Of, Reconciled
      <3>3. CASE topic[i] \in Malformed
        BY <1>5, <3>3 DEF CompleteBatch, BatchProgress, Of, Reconciled
      <3> QED
        BY <3>1, <3>2, <3>3 DEF Payloads
    <2>2. \A i \in Batch : Reconciled(i)'
      BY <2>1, ReconciledStays, BatchIsPartOfTopic
    <2>3. \A i \in 1..planned : i \in 1..completed \/ i \in Batch
      BY DEF Batch, TypeOK
    <2> QED
      BY <1>1, <1>2, <1>5, <2>2, <2>3 DEF CompleteBatch, CheckpointedIsPersisted
  <1>6. completed' = completed \/ completed' = 0 \/ CompleteBatch
    BY DEF Next, Produce, QueryStep, Start, PlanBatch, ResumeBatch, CheckBatch, Check, MergeFacts,
           Insert, MergeQuarantine, RecordAudit, Crash, LoseCheckpoint, icebergVars, checkpointVars
  <1> QED
    BY <1>3, <1>4, <1>5, <1>6

\* A MERGE adds facts under new event_ids, at offsets that hold their payloads.
LEMMA TablesStayTrue ==
    ASSUME TypeOK, RangesAreOrdered, TablesAreTrue, [Next]_icebergVars
    PROVE  TablesAreTrue'
  <1>1. \A i \in DOMAIN topic : i \in DOMAIN topic' /\ topic'[i] = topic[i]
    BY TopicGrows
  <1>2. /\ \A f \in facts : f.offset \in DOMAIN topic' /\ topic'[f.offset] = f.payload
        /\ \A i \in quarantine : i \in DOMAIN topic' /\ topic'[i] \in Malformed
    BY <1>1 DEF TablesAreTrue
  <1>3. CASE UNCHANGED <<facts, quarantine>>
    BY <1>2, <1>3 DEF TablesAreTrue
  <1>4. CASE MergeFacts
    <2>1. UNCHANGED <<topic, quarantine>>
      BY <1>4 DEF MergeFacts, Insert
    <2>2. \A f \in facts' \ facts : f.offset \in DOMAIN topic /\ topic[f.offset] = f.payload
      <3> TAKE f \in facts' \ facts
      <3>1. f = [payload |-> topic[f.offset], offset |-> f.offset] /\ f.offset \in Of(Valid)
        BY <1>4, InsertedFacts
      <3>2. f.payload = topic[f.offset]
        BY <3>1
      <3> QED
        BY <3>1, <3>2, BatchIsPartOfTopic
    <2>3. ASSUME NEW f \in facts', NEW g \in facts', EventId[f.payload] = EventId[g.payload]
          PROVE  f = g
      <3>1. CASE f \in facts /\ g \in facts
        BY <2>3, <3>1 DEF TablesAreTrue
      <3>2. CASE f \in facts /\ g \notin facts
        BY <1>4, <2>3, <3>2, InsertedFacts DEF FactIds
      <3>3. CASE f \notin facts /\ g \in facts
        BY <1>4, <2>3, <3>3, InsertedFacts DEF FactIds
      <3>4. CASE f \notin facts /\ g \notin facts
        BY <1>4, <2>3, <3>4, InsertedFacts
      <3> QED
        BY <3>1, <3>2, <3>3, <3>4
    <2> QED
      BY <1>2, <2>1, <2>2, <2>3 DEF TablesAreTrue
  <1>5. CASE MergeQuarantine
    <2>1. UNCHANGED <<topic, facts>> /\ quarantine' = quarantine \cup Of(Malformed)
      BY <1>5 DEF MergeQuarantine
    <2>2. \A i \in Of(Malformed) : i \in DOMAIN topic /\ topic[i] \in Malformed
      BY BatchIsPartOfTopic DEF Of
    <2> QED
      BY <2>1, <2>2 DEF TablesAreTrue
  <1>6. UNCHANGED <<facts, quarantine>> \/ MergeFacts \/ MergeQuarantine
    BY DEF Next, Produce, QueryStep, Start, PlanBatch, ResumeBatch, CheckBatch, Check,
           RecordAudit, CompleteBatch, Crash, LoseCheckpoint, icebergVars, tableVars
  <1> QED
    BY <1>3, <1>4, <1>5, <1>6

\* Nothing but the audit of the batch in hand changes the audit table, and it adds
\* the row of that batch when there is none.
LEMMA AuditChanges ==
    ASSUME [Next]_icebergVars, audit' # audit
    PROVE  /\ RecordAudit /\ stage = "audit" /\ audit' = audit \cup {AuditOfBatch}
           /\ \A row \in audit : ~SameRange(row)
           /\ UNCHANGED <<topic, planned, completed, facts, quarantine, losses>>
  <1>1. RecordAudit
    BY DEF Next, Produce, QueryStep, Start, PlanBatch, ResumeBatch, CheckBatch, Check, MergeFacts,
           Insert, MergeQuarantine, CompleteBatch, Crash, LoseCheckpoint, icebergVars, tableVars
  <1>2. /\ stage = "audit" /\ audit' = audit \cup {AuditOfBatch}
        /\ \A row \in audit : SameRange(row) => row = AuditOfBatch
    BY <1>1 DEF RecordAudit
  <1>3. AuditOfBatch \notin audit
    BY <1>2
  <1> QED
    BY <1>1, <1>2, <1>3 DEF RecordAudit, checkpointVars

LEMMA AuditedStaysPersisted ==
    ASSUME TypeOK, RangesAreOrdered, BatchProgress, AuditedIsPersisted, [Next]_icebergVars
    PROVE  AuditedIsPersisted'
  <1> DEFINE Good(row) == /\ 1 <= row.first /\ row.first <= row.last /\ row.last <= Len(topic)
                          /\ row.last - row.first + 1 = row.valid + row.quarantined
                          /\ \A i \in row.first..row.last : Reconciled(i)
  <1>1. \A row \in audit : row \in AuditRow /\ Good(row)
    BY DEF AuditedIsPersisted, TypeOK
  <1>2. ASSUME NEW row \in AuditRow, Good(row)
        PROVE  Good(row)'
    <2>1. row.first \in Nat /\ row.last \in Nat
      BY DEF AuditRow
    <2>2. \A i \in row.first..row.last : i \in 1..Len(topic)
      BY <1>2, <2>1, TopicGrows
    <2>3. \A i \in row.first..row.last : Reconciled(i)'
      BY <1>2, <2>2, ReconciledStays
    <2>4. row.last <= Len(topic')
      BY <1>2, <2>1, TopicGrows
    <2> QED
      BY <1>2, <2>3, <2>4
  <1>3. ASSUME audit' # audit
        PROVE  AuditOfBatch \in AuditRow /\ Good(AuditOfBatch)
    <2>1. stage = "audit"
      BY <1>3, AuditChanges
    <2>2. completed < planned /\ planned <= Len(topic) /\ completed + 1 \in Nat /\ planned \in Nat
      BY <2>1 DEF RangesAreOrdered, InBatch, TypeOK
    <2>3. Of(Poison) = {}
      BY <2>1 DEF BatchProgress, InBatch, Checked
    <2>4. /\ AuditOfBatch \in AuditRow
          /\ AuditOfBatch.first = completed + 1 /\ AuditOfBatch.last = planned
          /\ planned - (completed + 1) + 1 = AuditOfBatch.valid + AuditOfBatch.quarantined
      BY <2>2, <2>3, AuditCountsTheBatch
    <2>5. ASSUME NEW i \in Batch
          PROVE  Reconciled(i)
      <3>1. topic[i] \in Payloads /\ topic[i] \notin Poison
        BY <2>3, BatchIsPartOfTopic DEF Of, TypeOK
      <3>2. CASE topic[i] \in Valid
        BY <2>1, <3>2 DEF BatchProgress, Of, Reconciled
      <3>3. CASE topic[i] \in Malformed
        BY <2>1, <3>3 DEF BatchProgress, Of, Reconciled
      <3> QED
        BY <3>1, <3>2, <3>3 DEF Payloads
    <2>6. 1 <= completed + 1 /\ completed + 1 <= planned
      BY <2>2 DEF TypeOK
    <2> QED
      BY <2>2, <2>4, <2>5, <2>6 DEF Batch
  <1>4. \A row \in audit' : row \in AuditRow /\ Good(row)
    BY <1>1, <1>3, AuditChanges
  <1>5. \A row \in audit' : Good(row)'
    BY <1>2, <1>4
  <1> QED
    BY <1>5 DEF AuditedIsPersisted

LEMMA OneRowStaysPerRange ==
    ASSUME OneRowPerRange, [Next]_icebergVars
    PROVE  OneRowPerRange'
  <1>1. CASE audit' = audit
    BY <1>1 DEF OneRowPerRange
  <1>2. CASE audit' # audit
    <2>1. audit' = audit \cup {AuditOfBatch} /\ \A row \in audit : ~SameRange(row)
      BY <1>2, AuditChanges
    <2>2. SameRange(AuditOfBatch)
      BY DEF SameRange, AuditOfBatch
    <2>3. \A row \in audit : ~(row.first = AuditOfBatch.first /\ row.last = AuditOfBatch.last)
      BY <2>1, <2>2 DEF SameRange
    <2> QED
      BY <2>1, <2>3 DEF OneRowPerRange
  <1> QED
    BY <1>1, <1>2

\* The audit table follows the first checkpoint: each batch is appended after the
\* completed records, and completed as it was audited.
LEMMA AuditStaysBehind ==
    ASSUME IInv, [Next]_icebergVars
    PROVE  AuditFollowsCheckpoint'
  <1> USE DEF TypeOK
  <1>1. TypeOK /\ RangesAreOrdered /\ AuditFollowsCheckpoint
    BY DEF IInv
  <1>2. SUFFICES ASSUME losses' = 0
                 PROVE  AuditFollowsCheckpoint'
    BY DEF AuditFollowsCheckpoint
  <1>3. /\ losses = 0 /\ completed \in Nat /\ planned \in Nat
        /\ \/ UNCHANGED <<planned, completed>>
           \/ PlanBatch
           \/ CompleteBatch
    BY <1>1, <1>2 DEF Next, Produce, QueryStep, Start, ResumeBatch, CheckBatch, Check, MergeFacts,
           Insert, MergeQuarantine, RecordAudit, PlanBatch, CompleteBatch, Crash, LoseCheckpoint,
           icebergVars, checkpointVars
  <1>4. /\ \A row \in audit : row.last <= completed \/ (completed < planned /\ SameRange(row))
        /\ \A i \in 1..completed : \E row \in audit : Covering(i) = {row}
    BY <1>1, <1>3 DEF AuditFollowsCheckpoint
  <1>5. \A row \in audit : row.first \in Nat /\ row.last \in Nat
    BY <1>1 DEF AuditRow
  <1>6. CASE audit' # audit
    <2>1. /\ stage = "audit" /\ audit' = audit \cup {AuditOfBatch}
          /\ UNCHANGED <<topic, planned, completed, facts, quarantine, losses>>
      BY <1>6, AuditChanges
    <2>2. completed < planned
      BY <1>1, <2>1 DEF RangesAreOrdered, InBatch
    <2>3. SameRange(AuditOfBatch)
      BY DEF SameRange, AuditOfBatch
    <2>4. \A row \in audit' : row.last <= completed \/ SameRange(row)
      BY <1>4, <2>1, <2>3
    <2>5. \A i \in 1..completed : i \notin AuditOfBatch.first..AuditOfBatch.last
      BY <1>3 DEF AuditOfBatch
    <2>6. \A i \in 1..completed : Covering(i)' = Covering(i)
      BY <2>1, <2>5 DEF Covering
    <2> QED
      BY <1>4, <2>1, <2>2, <2>4, <2>6 DEF AuditFollowsCheckpoint, SameRange
  <1>7. CASE audit' = audit /\ UNCHANGED <<planned, completed>>
    BY <1>4, <1>7 DEF AuditFollowsCheckpoint, SameRange, Covering
  <1>8. CASE audit' = audit /\ PlanBatch
    <2>1. completed' = completed /\ planned = completed
      BY <1>8 DEF PlanBatch
    <2> QED
      BY <1>3, <1>4, <1>8, <2>1 DEF AuditFollowsCheckpoint, Covering
  <1>9. CASE audit' = audit /\ CompleteBatch
    <2>1. /\ stage = "commit" /\ completed' = planned /\ planned' = planned /\ completed < planned
          /\ AuditOfBatch \in audit
      BY <1>9 DEF CompleteBatch, IInv, RangesAreOrdered, InBatch, BatchProgress
    <2>2. AuditOfBatch.first = completed + 1 /\ AuditOfBatch.last = planned
      BY DEF AuditOfBatch
    <2>3. \A row \in audit : row.last <= completed \/ row = AuditOfBatch
      BY <1>4, <2>1, <2>2 DEF SameRange, IInv, OneRowPerRange
    <2>4. \A row \in audit : row.last <= planned
      BY <1>3, <1>4, <1>5, <2>1 DEF SameRange
    <2>5. ASSUME NEW i \in 1..planned
          PROVE  \E row \in audit : Covering(i) = {row}
      <3>1. CASE i \in 1..completed
        BY <1>4, <3>1
      <3>2. CASE i > completed
        <4>1. i \in AuditOfBatch.first..AuditOfBatch.last
          BY <1>3, <2>2, <3>2
        <4>2. \A row \in audit : row.last <= completed => i \notin row.first..row.last
          BY <1>3, <1>5, <3>2
        <4>3. Covering(i) = {AuditOfBatch}
          BY <2>1, <2>3, <4>1, <4>2 DEF Covering
        <4> QED
          BY <2>1, <4>3
      <3> QED
        BY <1>3, <3>1, <3>2
    <2>6. \A i : Covering(i)' = Covering(i)
      BY <1>9 DEF Covering
    <2> QED
      BY <1>9, <2>1, <2>4, <2>5, <2>6 DEF AuditFollowsCheckpoint
  <1> QED
    BY <1>3, <1>6, <1>7, <1>8, <1>9

LEMMA NextInvariant ==
    ASSUME IInv, [Next]_icebergVars
    PROVE  IInv'
  <1>1. /\ TypeOK /\ RangesAreOrdered /\ BatchProgress /\ CheckpointedIsPersisted
        /\ TablesAreTrue /\ AuditedIsPersisted /\ OneRowPerRange /\ AuditFollowsCheckpoint
    BY DEF IInv
  <1>2. TypeOK' /\ RangesAreOrdered' /\ BatchProgress'
    BY <1>1, TypesKept, RangesStayOrdered, ProgressKept
  <1>3. CheckpointedIsPersisted' /\ TablesAreTrue'
    BY <1>1, CheckpointedStaysPersisted, TablesStayTrue
  <1>4. AuditedIsPersisted' /\ OneRowPerRange' /\ AuditFollowsCheckpoint'
    BY <1>1, AuditedStaysPersisted, OneRowStaysPerRange, AuditStaysBehind
  <1> QED
    BY <1>2, <1>3, <1>4 DEF IInv

LEMMA IcebergInvariant == Spec => []IInv
  <1>1. IInv /\ [Next]_icebergVars => IInv'
    BY NextInvariant
  <1> QED
    BY InitInvariant, <1>1, PTL DEF Spec

(***************************************************************************)
(* Theorems                                                                *)
(***************************************************************************)
\* The writer's variables keep their types: in particular no audit row has a
\* negative count of duplicates.
THEOREM IcebergTypeCorrectness == Spec => []TypeOK
  <1>1. IInv => TypeOK
    BY DEF IInv
  <1> QED
    BY IcebergInvariant, <1>1, PTL

\* Spark's commit log covers only records that are in the table they belong to,
\* a fact with the record's own payload, after any crash or lost checkpoint.
THEOREM IcebergCheckpointedIsPersisted == Spec => []CheckpointedIsPersisted
  <1>1. IInv => CheckpointedIsPersisted
    BY DEF IInv
  <1> QED
    BY IcebergInvariant, <1>1, PTL

\* One fact per event_id, at an offset that holds its payload, and only rejected
\* records in quarantine, however often a range is merged again.
THEOREM IcebergTablesAreTrue == Spec => []TablesAreTrue
  <1>1. IInv => TablesAreTrue
    BY DEF IInv
  <1> QED
    BY IcebergInvariant, <1>1, PTL

\* Under its first checkpoint every completed record is counted by exactly one
\* row of the batch audit.
THEOREM IcebergAuditPartitionsTheTopic == Spec => []AuditPartitionsTheTopic
  <1>1. IInv => AuditPartitionsTheTopic
    <2> SUFFICES ASSUME IInv, losses = 0, NEW i \in 1..completed
                 PROVE  Cardinality(Covering(i)) = 1
      BY DEF AuditPartitionsTheTopic
    <2>1. PICK row \in audit : Covering(i) = {row}
      BY DEF IInv, AuditFollowsCheckpoint
    <2>2. Cardinality({row}) = 1
      BY FS_Singleton
    <2> QED
      BY <2>1, <2>2
  <1> QED
    BY IcebergInvariant, <1>1, PTL

\* The facts of a topic that is completed to its end are as many as its event_ids:
\* the ids are a bijective image of the facts.
LEMMA FactsMatchTheTopic ==
    ASSUME IInv, completed = Len(topic)
    PROVE  Cardinality(facts) = ExpectedApprovals
  <1> DEFINE offsets == Occurring(Valid)
             ids == {IdAt(i) : i \in offsets}
             idAt == [i \in offsets |-> IdAt(i)]
             id == [f \in facts |-> EventId[f.payload]]
  <1>1. TypeOK /\ CheckpointedIsPersisted /\ TablesAreTrue /\ DOMAIN topic = 1..completed
    BY DEF IInv, TypeOK
  <1>2. IsFiniteSet(offsets)
    <2>1. IsFiniteSet(1..completed)
      BY <1>1, FS_Interval DEF TypeOK
    <2>2. offsets \subseteq 1..completed
      BY <1>1 DEF Occurring
    <2> QED
      BY <2>1, <2>2, FS_Subset
  <1>3. IsFiniteSet(ids)
    <2>1. idAt \in Surjection(offsets, ids)
      BY DEF Surjection
    <2> QED
      BY <1>2, <2>1, FS_Surjection
  <1>4. ASSUME NEW f \in facts
        PROVE  id[f] \in ids
    <2>1. f.offset \in offsets /\ IdAt(f.offset) = EventId[f.payload]
      BY <1>1 DEF TablesAreTrue, Occurring, IdAt, TypeOK, Fact
    <2> QED
      BY <2>1
  <1>5. \A f, g \in facts : id[f] = id[g] => f = g
    BY <1>1 DEF TablesAreTrue
  <1>6. ASSUME NEW n \in ids
        PROVE  \E f \in facts : id[f] = n
    <2>1. PICK i \in offsets : n = IdAt(i)
      OBVIOUS
    <2>2. topic[i] \in Valid /\ Reconciled(i)
      BY <1>1, <2>1 DEF Occurring, CheckpointedIsPersisted
    <2>3. PICK f \in facts : f.payload = topic[i]
      BY <2>2, IcebergAssumption DEF Reconciled
    <2> QED
      BY <2>1, <2>3 DEF IdAt
  <1>7. id \in Injection(facts, ids)
    BY <1>4, <1>5 DEF Injection, IsInjective
  <1>8. id \in Surjection(facts, ids)
    BY <1>4, <1>6 DEF Surjection
  <1>9. Cardinality(facts) = Cardinality(ids)
    BY <1>3, <1>7, <1>8, FS_Injection
  <1> QED
    BY <1>9 DEF ExpectedApprovals

\* The reconciliation gate refuses no table the writer left behind, at any moment,
\* and accepts the true counts once the topic is completed to its end.
THEOREM IcebergGateRaisesNoFalseAlarm == Spec => []GateRaisesNoFalseAlarm
  <1>1. ASSUME IInv
        PROVE  DuplicateEventIds \cup InvalidAuditRows \cup DuplicateAuditRanges = {}
    <2>1. DuplicateEventIds = {}
      BY <1>1 DEF IInv, TablesAreTrue, DuplicateEventIds
    <2>2. InvalidAuditRows = {}
      <3>1. \A row \in audit : /\ row.last - row.first + 1 = row.valid + row.quarantined
                               /\ row.duplicates \in Nat
        BY <1>1 DEF IInv, AuditedIsPersisted, TypeOK, AuditRow
      <3> QED
        BY <3>1 DEF InvalidAuditRows
    <2>3. DuplicateAuditRanges = {}
      BY <1>1 DEF IInv, OneRowPerRange, DuplicateAuditRanges
    <2> QED
      BY <2>1, <2>2, <2>3
  <1>2. ASSUME IInv, completed = Len(topic)
        PROVE  Cardinality(quarantine) = ExpectedQuarantined
    <2>1. quarantine \subseteq Occurring(Malformed)
      BY <1>2 DEF IInv, TablesAreTrue, Occurring
    <2>2. ASSUME NEW i \in Occurring(Malformed)
          PROVE  i \in quarantine
      <3>1. i \in 1..completed /\ topic[i] \in Malformed
        BY <1>2 DEF Occurring, IInv, TypeOK
      <3> QED
        BY <1>2, <3>1, IcebergAssumption DEF IInv, CheckpointedIsPersisted, Reconciled
    <2>3. quarantine = Occurring(Malformed)
      BY <2>1, <2>2
    <2> QED
      BY <2>3 DEF ExpectedQuarantined
  <1>3. IInv => GateRaisesNoFalseAlarm
    BY <1>1, <1>2, FactsMatchTheTopic DEF GateRaisesNoFalseAlarm, Refuses
  <1> QED
    BY IcebergInvariant, <1>3, PTL

\* Once a range has its audit row, running it again adds no fact, no quarantined
\* record and no audit row.
THEOREM IcebergReplayAddsNothing == Spec => ReplayAddsNothing
  <1>1. ASSUME IInv, [Next]_icebergVars,
               planned > completed, NEW row \in audit, SameRange(row)
        PROVE  UNCHANGED tableVars
    <2>1. ASSUME NEW i \in Batch
          PROVE  Reconciled(i)
      BY <1>1 DEF IInv, AuditedIsPersisted, SameRange, Batch
    <2>2. CASE UNCHANGED tableVars
      BY <2>2
    <2>3. CASE MergeFacts
      <3>1. BatchIds \subseteq FactIds
        <4>1. ASSUME NEW i \in Of(Valid)
              PROVE  IdAt(i) \in FactIds
          <5>1. PICK f \in facts : f.payload = topic[i]
            BY <2>1, IcebergAssumption DEF Of, Reconciled
          <5> QED
            BY <5>1 DEF FactIds, IdAt
        <4> QED
          BY <4>1 DEF BatchIds
      <3>2. facts' = facts
        BY <2>3, <3>1 DEF MergeFacts, Insert
      <3> QED
        BY <2>3, <3>2 DEF MergeFacts, Insert, tableVars
    <2>4. CASE MergeQuarantine
      <3>1. Of(Malformed) \subseteq quarantine
        BY <2>1, IcebergAssumption DEF Of, Reconciled
      <3> QED
        BY <2>4, <3>1 DEF MergeQuarantine, tableVars
    <2>5. CASE RecordAudit
      <3>1. audit' = audit
        BY <1>1, AuditChanges
      <3> QED
        BY <2>5, <3>1 DEF RecordAudit, tableVars
    <2>6. UNCHANGED tableVars \/ MergeFacts \/ MergeQuarantine \/ RecordAudit
      BY <1>1 DEF Next, Produce, QueryStep, Start, PlanBatch, ResumeBatch, CheckBatch, Check,
             CompleteBatch, Crash, LoseCheckpoint, icebergVars
    <2> QED
      BY <2>2, <2>3, <2>4, <2>5, <2>6
  <1>2. IInv /\ [Next]_icebergVars
            => [(planned > completed /\ \E row \in audit : SameRange(row))
                    => UNCHANGED tableVars]_icebergVars
    BY <1>1
  <1> QED
    BY IcebergInvariant, <1>2, PTL DEF Spec, ReplayAddsNothing
=============================================================================

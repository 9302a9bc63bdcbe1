-------------------------- MODULE IcebergValidation --------------------------
(* The reconciliation gate of the lakehouse                                 *)
(* (lakehouse/validate_d2c_iceberg.py): a process of its own that counts    *)
(* rows of the three tables, each as of its latest snapshot, also while the *)
(* stream is between two of its commits.  A table whose rows come from a    *)
(* snapshot always has one.                                                 *)
EXTENDS IcebergWriter

\* Rows of one event_id; audit rows whose parts are not the records of their
\* range; ranges with two audit rows.
DuplicateEventIds == {f \in facts : \E g \in facts \ {f} : EventId[f.payload] = EventId[g.payload]}
InvalidAuditRows ==
    {row \in audit : \/ row.last - row.first + 1 # row.valid + row.quarantined
                     \/ row.duplicates < 0}
DuplicateAuditRanges ==
    {row \in audit : \E other \in audit \ {row} : other.first = row.first /\ other.last = row.last}

Refuses(expectedApprovals, expectedQuarantined) ==
    \/ DuplicateEventIds \cup InvalidAuditRows \cup DuplicateAuditRanges # {}
    \/ Cardinality(facts) # expectedApprovals
    \/ Cardinality(quarantine) # expectedQuarantined

\* The numbers an operator counts in the topic.
Occurring(kind) == {i \in DOMAIN topic : topic[i] \in kind}
ExpectedApprovals == Cardinality({IdAt(i) : i \in Occurring(Valid)})
ExpectedQuarantined == Cardinality(Occurring(Malformed))

\* The gate raises no false alarm: whenever it looks, with the counts left out
\* (each table has as many rows as it has) it refuses nothing, between the commits
\* of a batch, after a crash there, and when a lost checkpoint has cut the topic
\* into other ranges; and with the counts of the topic once that is read to its end.
GateRaisesNoFalseAlarm ==
    /\ ~Refuses(Cardinality(facts), Cardinality(quarantine))
    /\ completed = Len(topic) => ~Refuses(ExpectedApprovals, ExpectedQuarantined)
=============================================================================

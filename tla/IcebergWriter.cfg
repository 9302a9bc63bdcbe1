\* Records of every kind, two crashes, one lost checkpoint.
SPECIFICATION FairSpec
CONSTANTS
    e1 = e1
    e1changed = e1changed
    e2 = e2
    bad = bad
    overflow = overflow
    Valid <- MCValid
    EventId <- MCEventId
    Malformed <- MCMalformed
    Poison <- MCPoison
    MaxOffsets = 2
    MaxTopic = 3
    MaxCrashes = 2
    MaxLosses = 1
INVARIANTS
    CheckpointedIsPersisted
    TablesAreTrue
    AuditPartitionsTheTopic
    GateRaisesNoFalseAlarm
PROPERTIES
    ReplayAddsNothing
    EveryRecordIsReconciled
CHECK_DEADLOCK FALSE

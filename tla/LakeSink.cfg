\* Two crashes; batch ids reused in any way, or retried until they are exported.
SPECIFICATION FairSpec
CONSTANTS
    e1 = e1
    e2 = e2
    e3 = e3
    monday = monday
    tuesday = tuesday
    b1 = b1
    b2 = b2
    Events <- MCEvents
    Dates <- MCDates
    DateOf <- MCDateOf
    Batches <- MCBatches
    Policies = {"retry", "any"}
    MaxCrashes = 2
INVARIANTS
    MarkerMeansExported
    RetriedIsExported
    GateAlarmsAreExplained
PROPERTIES
    FinalsAreWhole
    StartedBatchIsExported
CHECK_DEADLOCK FALSE

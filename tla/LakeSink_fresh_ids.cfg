\* The RUNBOOK's export: a fresh batch id for every call, one crash.
SPECIFICATION Spec
CONSTANTS
    e1 = e1
    e2 = e2
    e3 = e3
    monday = monday
    tuesday = tuesday
    b1 = b1
    b2 = b2
    Events <- MCEvents
    Dates <- MCDates
    DateOf <- MCDateOf
    Batches <- MCBatches
    Policies = {"fresh"}
    MaxCrashes = 1
INVARIANT ReportedIsExported
CHECK_DEADLOCK FALSE

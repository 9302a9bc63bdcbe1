\* Every pair and triple of schemas of one property; every lineage of three
\* assets; a rollout of two steps with an outage and up to two late scrapes.
SPECIFICATION ReleaseSpec
CONSTANTS
    a = a
    b = b
    x = x
    y = y
    Absent = Absent
    Names <- MCOneName
    Numbers = {0, 1, 2, 3}
    Texts <- MCTexts
    Leaves <- MCLeaves
    Policies <- MCPolicies
    raw = raw
    clean = clean
    report = report
    Assets <- MCAssets
    t1 = t1
    t2 = t2
    Threads <- MCThreads
    NoThread = NoThread
    NoSample = NoSample
    Steps = 2
    Measurements = 3
    FailureLimit = 1
    MaxOutages = 1
    MaxLate = 2
INVARIANTS
    AcceptanceComposes
    WideningBreaksNothing
    AcceptedIsGrounded
    ReportedIsCycle
    BrokenIsNotPromoted
PROPERTY
    RolloutEnds
CHECK_DEADLOCK FALSE

\* One step of a rollout whose canary may never answer a 5xx.
SPECIFICATION GateSpec
CONSTANTS
    t1 = t1
    t2 = t2
    Threads <- MCThreads
    NoThread = NoThread
    NoSample = NoSample
    Steps = 1
    Measurements = 3
    FailureLimit = 1
    MaxOutages = 1
    MaxLate = 1
INVARIANT RatioFailureNeedsErrors
CHECK_DEADLOCK FALSE

\* Up to three records of every kind, polls of up to two, two failures.
SPECIFICATION RolloutSpec
CONSTANTS
    e1 = e1
    e1changed = e1changed
    e2 = e2
    bad = bad
    overflow = overflow
    deep = deep
    Valid <- MCValid
    EventId <- MCEventId
    Malformed <- MCMalformed
    Poison <- MCPoison
    Undecodable <- MCUndecodable
    MaxPoll = 2
    MaxFetch = 2
    MaxTopic = 3
    MaxCrashes = 2
INVARIANTS
    CommittedIsSettled
    LagIsWithinOnePoll
PROPERTIES
    ImplementsSettling
CHECK_DEADLOCK FALSE

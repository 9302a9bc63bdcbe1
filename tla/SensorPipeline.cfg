\* Both processes with one failure each; one foreign record in the clean topic.
SPECIFICATION FairSpec
CONSTANTS
    json = json
    text = text
    one = one
    two = two
    bad = bad
    overflow = overflow
    deep = deep
    rawBad = rawBad
    rawOverflow = rawOverflow
    r1 = r1
    r2 = r2
    RawTopics <- MCTwoTopics
    Good <- MCGood
    RawMalformed <- MCRawMalformed
    RawPoison <- MCRawPoison
    Reading <- MCReading
    Readings <- MCReadings
    Sources <- MCSources
    Malformed <- MCMalformed
    Poison <- MCPoison
    Undecodable <- MCUndecodable
    MaxPoll = 2
    MaxFetch = 2
    MaxRaw = 2
    MaxRecords = 2
    MaxClean = 2
    MaxFaults = 1
    MaxCrashes = 1
INVARIANTS
    CommittedIsRouted
    CommittedIsSettled
    StoredIsFirstCopy
    RowsAreTrueAndUnique
PROPERTIES
    ImplementsRouting
    EveryRecordArrives
CHECK_DEADLOCK FALSE

\* Two requests through the three components, one fault on each side.
SPECIFICATION FairSpec
CONSTANTS
    k1 = k1
    k2 = k2
    p1 = p1
    p2 = p2
    stable = stable
    publisher = publisher
    Requests = {1, 2}
    Keys <- MCKeys
    Pairs <- MCPairs
    Pods = {stable}
    DrillPods = {}
    Publishers <- MCPublishers
    BatchSize = 1
    MaxFaults = 1
    MaxPoll = 2
    MaxCrashes = 1
INVARIANTS
    OnlyApprovedTravels
    AnsweredIsOnItsWay
PROPERTIES
    ImplementsFairDelivery
CHECK_DEADLOCK FALSE

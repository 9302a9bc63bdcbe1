\* Three overlapping requests over two keys and two pairs; one pod runs the drill.
SPECIFICATION FairSpec
CONSTANTS
    k1 = k1
    k2 = k2
    p1 = p1
    p2 = p2
    stable = stable
    canary = canary
    Requests = {1, 2, 3}
    Keys <- MCKeys
    Pairs <- MCPairs
    Pods <- MCPods
    DrillPods = {canary}
INVARIANTS
    TypeOK
    OutboxParity
    OneApplicationPerKeyAndPair
    ConflictIsReconciled
    AnswersHold
PROPERTIES
    EveryRequestEnds
CHECK_DEADLOCK FALSE

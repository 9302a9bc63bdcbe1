\* The rejection of a reused key, looked for where the key was answered 200.
SPECIFICATION Spec
CONSTANTS
    k1 = k1
    k2 = k2
    p1 = p1
    p2 = p2
    stable = stable
    canary = canary
    Requests = {1, 2, 3}
    Keys <- MCKeys
    Pairs <- MCPairs
    Pods <- MCPods
    DrillPods = {canary}
INVARIANT KeyNamesOneApplication
CHECK_DEADLOCK FALSE

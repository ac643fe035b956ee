CONSTANTS
    i1 = i1  i2 = i2  i3 = i3
    w1 = w1  w2 = w2
    None = None
    Images <- MCPair
    Similar <- MCPairSimilar
    Flawed = {}
    Unreadable = {}
    Workers <- MCWorkers
    Concurrency = 1
    MaxAttempts = 2
    MaxFaults = 1
SPECIFICATION Spec
INVARIANT DiscardOnlyIfDeleted
CHECK_DEADLOCK FALSE

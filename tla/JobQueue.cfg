\* Two images within the similarity distance, two workers of one slot, two faults:
\* claims, outrun leases, requeues and the decisions of both images interleave.
CONSTANTS
    i1 = i1  i2 = i2  i3 = i3
    w1 = w1  w2 = w2
    None = None
    Images <- MCPair
    Similar <- MCPairSimilar
    Flawed = {}
    Unreadable = {}
    Workers <- MCWorkers
    Concurrency = 1
    MaxAttempts = 2
    MaxFaults = 2
SPECIFICATION FairSpec
INVARIANTS
    TypeOK
    AttemptsBounded
    OneRunPerLease
    RunOwnsRow
    OnlyFaultsStrandRows
PROPERTIES
    VerdictsAreFinal
    QueuedSettles
\* Once every image is deleted and every run over, nothing is left to do.
CHECK_DEADLOCK FALSE

\* i1 ~ i2 ~ i3, i1 and i3 not similar, i3 flawed; one worker with two slots, so
\* that it may hold two runs of one image after an outrun lease.
CONSTANTS
    i1 = i1  i2 = i2  i3 = i3
    w1 = w1  w2 = w2
    None = None
    Images <- MCChain
    Similar <- MCChainSimilar
    Flawed <- MCFlawed
    Unreadable = {}
    Workers <- OneWorker
    Concurrency = 2
    MaxAttempts = 2
    MaxFaults = 1
SPECIFICATION Spec
INVARIANTS
    NoTwoSimilarAccepted
    SimilarToAccepted
    RejectionJustified
PROPERTY ImplementsLifecycle
CHECK_DEADLOCK FALSE

\* One image, two workers, two faults (two outrun leases, or a crash and one).
CONSTANTS
    i1 = i1
    w1 = w1  w2 = w2
    None = None
    Images <- MCImages
    Similar <- MCSimilar
    Flawed = {}
    Unreadable = {}
    Workers <- MCWorkers
    Concurrency = 1
    MaxAttempts = 2
    MaxFaults = 2
SPECIFICATION StorageSpec
INVARIANTS
    StorageTypeOK
    RowObjectsExist
    DeleteIsComplete
CHECK_DEADLOCK FALSE

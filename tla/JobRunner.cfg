\* Two slots, three jobs, one retry, one lost connection.
CONSTANTS
    Concurrency = 2
    MaxJobs = 3
    MaxRetries = 1
    MaxDrops = 1
SPECIFICATION RunnerSpec
INVARIANTS
    RunnerTypeOK
    WithinConcurrency
    NoLostWakeup
PROPERTIES
    StopIsFinal
    StopResolves
    DueJobsAreClaimed
\* A stopped worker whose jobs are all settled has nothing left to do.
CHECK_DEADLOCK FALSE

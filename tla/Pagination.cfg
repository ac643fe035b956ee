\* Pages of one row of four, two of a batch; one loss of the stream.
CONSTANTS
    MaxRows = 4
    Batch = 2
    Limit = 1
    MaxDrops = 1
    MaxAsks = 4
    Null = Null
SPECIFICATION PagingSpec
INVARIANTS
    PagingTypeOK
    NothingUnreachable
\* The requests are used up.
CHECK_DEADLOCK FALSE

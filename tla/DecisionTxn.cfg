\* Two images within the similarity distance and three connections: both decisions
\* and a delete, or two decisions of one image, interleave statement by statement.
CONSTANTS
    i1 = i1  i2 = i2  i3 = i3
    t1 = t1  t2 = t2  t3 = t3
    None = None
    Images <- MCPair
    Similar <- MCPairSimilar
    Flawed = {}
    Unreadable = {}
    Txns <- MCTxns
SPECIFICATION TxnSpec
INVARIANT LocksHeld
PROPERTIES
    TxnsImplementLifecycle
    TxnsEnd

\* Two servers that may be told to synchronize from each other at the same time.
SPECIFICATION FairSpec
CONSTANTS
    n1 = n1
    n2 = n2
    Node = {n1, n2}
    Key = {1}
    Value = {v1}
    Time = {1}
    Capacity = 2
    Junk = Junk
    Blank = Blank
    Shard = Shard
    Pieces <- MCPieces1
    MaxWrites = 1
    Syncs <- Mutual
    SourcesIdle = FALSE
    MayCut = FALSE
    MaxFaults = 0
PROPERTY
    SyncEnds
CHECK_DEADLOCK FALSE

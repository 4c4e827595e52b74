\* The dump may arrive cut short.
SPECIFICATION Spec
CONSTANTS
    n1 = n1
    n2 = n2
    Node = {n1, n2}
    Key = {1, 2}
    Value = {v1}
    Time = {1, 2}
    Capacity = 3
    Junk = Junk
    Blank = Blank
    Shard = Shard
    Pieces <- MCPieces2
    MaxWrites = 2
    Syncs <- Mutual
    SourcesIdle = TRUE
    MayCut = TRUE
    MaxFaults = 0
PROPERTY
    SyncIsComplete

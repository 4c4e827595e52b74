\* Two servers that synchronize both ways, neither from a server that is itself
\* waiting; a restart or a DEL on the way, engines that fill up, clocks that tie.
SPECIFICATION DiligentSpec
CONSTANTS
    n1 = n1
    n2 = n2
    Node = {n1, n2}
    Key = {1, 2}
    Value = {v1, v2}
    Time = {1, 2}
    Capacity = 2
    Junk = Junk
    Blank = Blank
    Shard = Shard
    Pieces <- MCPieces2
    MaxWrites = 2
    Syncs <- Mutual
    SourcesIdle = TRUE
    MayCut = FALSE
    MaxFaults = 1
INVARIANTS
    TypeOK
    NothingInvented
PROPERTIES
    SyncIsComplete
    MergeNeverRollsBack
    SyncEnds
    Converge

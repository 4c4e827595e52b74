SPECIFICATION Spec
CONSTANTS
    c1 = c1
    c2 = c2
    Client <- MCClient
    Acceptor = Acceptor
    Nobody = Nobody
    Word <- MCWord
    Size <- MCSize
    Front <- MCFront
    Suffixes <- MCSuffixes
    Line <- MCLine
    LineMax = 10
    Number = {"9"}
    Garbage = {"a"}
    Elsewhere <- MCElsewhere
    Limits = {1, 2}
    MaxLines <- MCMaxLines
    MaxVisits = 2
    MaxFaults = 1
INVARIANTS
    TypeOK
    ItemsWereSent
    EndsForCause
    NoEventIsLost
PROPERTIES
    OnlyItsOwnItem
CHECK_DEADLOCK FALSE

\* Pipelining clients under three settings.  The system stops when the client is
\* gone or a destroyed object was used.
SPECIFICATION FairSpec
CONSTANTS
    Commands = 4
    ReadMax = 3
    Settings <- MCSettings
INVARIANTS
    TypeOK
    NothingLost
    AnswersInOrder
    ExecutedInOrder
    NothingStranded
    NoDanglingCall
PROPERTIES
    CloseIsNoticed
    ImplementsService
CHECK_DEADLOCK FALSE

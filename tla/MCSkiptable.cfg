\* Three keys that are stored whole and one that is cut.
SPECIFICATION Spec
CONSTANTS
    Key <- MCKey
    Value = {v1}
    Time <- MCTime
    Kept <- MCKept
    MaxLevel = 2
    MaxNodes = 3
    Nil <- NULL
INVARIANTS
    TypeOK
    LanesNest
    LevelIsTight
PROPERTIES
    ImplementsStore
VIEW MCView

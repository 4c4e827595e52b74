\* One timestamp: what the tree does with timestamps is left aside.  The system
\* stops when NULL was dereferenced.
SPECIFICATION Spec
CONSTANTS
    Key <- MCKey
    v1 = v1
    v2 = v2
    Value = {v1, v2}
    Time = {0}
    MaxNodes = 6
    Null = Null
INVARIANTS
    TypeOK
    LinksAgree
    RedBlack
PROPERTIES
    ImplementsStore
VIEW MCView
CONSTRAINT ValueByParity
CHECK_DEADLOCK FALSE

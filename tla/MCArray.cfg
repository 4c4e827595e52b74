\* Four keys compete for three slots: the table can fill up, and duplicates,
\* should a failed MOD let them in, take the place of other keys.  The process
\* is gone once it has dereferenced a NULL value.
SPECIFICATION Spec
CONSTANTS
    Key <- MCKey
    Value = {v1}
    Time <- MCTime
    Size = 3
    Null = Null
INVARIANTS
    TypeOK
    NoHoles
    UniqueKeys
PROPERTIES
    KeyLossOnlyByDel
    ImplementsStore
VIEW MCView
CHECK_DEADLOCK FALSE

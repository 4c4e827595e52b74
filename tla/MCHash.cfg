\* The model says nothing after undefined behaviour.
SPECIFICATION Spec
CONSTANTS
    Key <- MCKey
    Value = {v1}
    Time <- MCTime
    MaxSlots = 2
    Hash <- MCHashOf
    Freed = Freed
INVARIANTS
    TypeOK
    CountIsExact
    ChainsAreSound
PROPERTIES
    ImplementsStore
VIEW MCView
CHECK_DEADLOCK FALSE

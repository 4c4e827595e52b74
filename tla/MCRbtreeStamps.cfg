\* Two timestamps.  The system stops when NULL was dereferenced.
SPECIFICATION Spec
CONSTANTS
    Key <- MCKey3
    v1 = v1
    v2 = v2
    Value = {v1}
    Time <- MCTime
    MaxNodes = 3
    Null = Null
PROPERTY
    DelTouchesNoOther
CHECK_DEADLOCK FALSE

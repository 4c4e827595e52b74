\* There is room in the send buffer, but send() may fail with EAGAIN.
SPECIFICATION Spec
CONSTANTS
    Commands = 2
    ReadMax = 2
    Settings <- MCRefusing
INVARIANT
    NothingLost
CHECK_DEADLOCK FALSE

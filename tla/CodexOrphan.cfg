SPECIFICATION Spec
CONSTANTS
    MaxMessages = 1
    MaxThreads = 1
    MaxFaults = 1
    NativeTurns = {}
INVARIANTS
    StreamResetOnExit
CHECK_DEADLOCK FALSE

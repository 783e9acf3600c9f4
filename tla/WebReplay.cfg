SPECIFICATION Spec
CONSTANTS
    Clients = {1}
    BufferMax = 2
    MaxEvents = 3
    MaxCuts = 1
INVARIANT CaughtUp
CHECK_DEADLOCK FALSE

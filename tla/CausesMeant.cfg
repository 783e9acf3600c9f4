SPECIFICATION Spec
CONSTANTS
    Workers = 1
    Attempts = 2
    MaxChunks = 1
    MaxStatements = 3
INVARIANT CausesMeant
CHECK_DEADLOCK FALSE

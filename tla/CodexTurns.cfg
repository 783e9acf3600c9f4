SPECIFICATION Spec
CONSTANTS
    MaxMessages = 2
    MaxThreads = 2
    MaxFaults = 1
    NativeTurns = {1}
INVARIANTS
    TypeOK
    
    AnswersOwnQuestion
    
PROPERTIES
    LlmEnds
CHECK_DEADLOCK FALSE

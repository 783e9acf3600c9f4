SPECIFICATION Spec
CONSTANTS
    Threads = {t1, t2}
    Nobody = nobody
    MaxTurns = 5
    MayHide = {t1}
INVARIANTS
    
    ObservedOnce
    AnonymousNeverRecorded
    ToolsPaired

    
CHECK_DEADLOCK FALSE

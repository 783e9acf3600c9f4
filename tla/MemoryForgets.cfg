SPECIFICATION Spec
CONSTANTS
    Threads = {t1}
    Nobody = nobody
    MaxTurns = 5
    MayHide = {}
PROPERTIES
    ForgottenOnlyIfObserved
CHECK_DEADLOCK FALSE

SPECIFICATION MCSpec
CONSTANTS
    Backends = {"dict", "list"}
    MaxIterations = 2
    MaxMessages = 3
    MaxCoros = 1
    MaxStops = 2
    Threads = {t1, t2}
    Nobody = nobody
    MaxTurns = 4
INVARIANTS MCTypeOK HistoryInOrder
PROPERTIES StopAddsOnlyNotice TurnsEnd
CHECK_DEADLOCK FALSE

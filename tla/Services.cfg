SPECIFICATION MCSpec
CONSTANTS
    Tasks = {c1, c2}
    Mounts = {A, B}
    Unset = Unset
    MaxCommands = 3
    MaxChanges = 2
    MaxMishaps = 2
    Pages = {"page"}
    Scripts = {"script"}
    Sockets = {"socket"}
    MaxRequests = 2
    MaxFailures = 2
    MaxTunnels = 2
    MaxProxyMishaps = 1
    Hidden = {"h"}
    ReadOnly = {"r"}
    Tokens = {"a", "b"}
    GlobLimit = 1
    MaxText = 5
    MaxEdits = 1
    PageSize = 2
    MaxLines = 4
    MaxReads = 4
    Intervals = {0, 1, 2}
    MaxTasks = 2
    MaxTime = 3
    MaxCronMishaps = 1
    BoardSize = 5
    Rows = 1
    MaxPlies = 4
    MaxSent = 5
INVARIANTS MCTypeOK   StepsCompose  TasksServedOnce
PROPERTIES DueIsServed
CHECK_DEADLOCK FALSE

SPECIFICATION Spec
CONSTANTS
    Streams = {s1, s2}
    Texts = {a, b}
    MaxUpdates = 2
    MaxBodies = 3
    MaxErrors = 1
    Kinds = {"text", "photo", "voice", "service"}
    MaxMessages = 3
    MaxFailures = 1
    Agents = {main, fork}
    MainAgent = main
    Groups = {g, h}
    MainChat = dm
    BoundThreads = {t}
    Default = Default
    Tasks = {send}
    None = None
    MaxTopics = 1
    MaxBinds = 2
    Clients = {1}
    BufferMax = 2
    MaxEvents = 3
    MaxCuts = 1
    Threads = {k1, k2}
    MaxInstances = 3
    MaxUserMessages = 1
    MaxStartFailures = 1
    MaxIds = 3
    MaxLaunches = 2
INVARIANTS TypeOK FinalText IncomingOnce OneChatPerAgent ShownOnce DeletedIsGone MovieKept
PROPERTIES SendsSettle
CHECK_DEADLOCK FALSE

SPECIFICATION Spec
CONSTANTS
    host = host
    script = script
    Peers <- MCPeers
    Silent <- MCSilent
    Callers <- MCCallers
    MaxCalls <- MCMaxCalls
    MaxWorkers = 1
INVARIANTS
    TypedAndCapped
PROPERTIES
    ImplementsRpcCalls
    CallsSettle
CHECK_DEADLOCK FALSE

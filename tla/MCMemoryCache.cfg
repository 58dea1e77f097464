SPECIFICATION MCSpec
CONSTANTS
    Keys <- MCKeys
    Patterns <- MCPatterns
    Vals = {v1, v2}
    Absent = Absent
    TTLs = {0, 1, 2}
    MaxTime = 4
    Clients <- MCClients
    MaxClients = 2
    Types <- MCTypes
    Routes <- MCRoutes
    MsgIDs <- MCMsgIDs
    NoArgument = NoArgument
    NoRoute = NoRoute
    NoHandler = NoHandler
    maxRoutingKeyBytes = 7
INVARIANTS GlobAgrees DeadLettersKept RetriesComeBack   RoutesKeptApart HandledAsBound ScopesApart IdOfKey
PROPERTIES ImplementsCache
CHECK_DEADLOCK FALSE

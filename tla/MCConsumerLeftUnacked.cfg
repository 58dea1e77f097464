SPECIFICATION Spec
CONSTANTS
    Msgs <- MCMsgs
    Published <- MCPublished
    Handlers <- MCHandlers
    Bindings <- MCBindings
    queueName = "queue"
    concurrency = 2
    preFetchCount = 2
    withRetry = TRUE
    RetryLimit = 1
    Nil = Nil
    NoHandler = NoHandler
    NoRoute = NoRoute
    maxRoutingKeyBytes = 7
    MaxSent = 2
    MaxFaults = 1
INVARIANT NothingLeftUnacked
CHECK_DEADLOCK FALSE

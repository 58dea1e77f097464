SPECIFICATION Spec
CONSTANTS
    r1 = r1
    r2 = r2
    Replicas <- TwoReplicas
    Msgs = {1}
    Home <- AllFromFirst
    Background = Background
    Nobody = Nobody
    Events = {"cache", "timeout", "cancel", "reject", "ttl", "slow", "bind", "unbind"}
    MaxOutages = 0
    MaxCrashes = 1
INVARIANTS
    NoAcceptedLoss
    
    FlushExclusive
CHECK_DEADLOCK FALSE

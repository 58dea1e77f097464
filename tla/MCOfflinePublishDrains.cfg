SPECIFICATION FairSpec
CONSTANTS
    r1 = r1
    r2 = r2
    Replicas <- OneReplica
    Msgs = {1, 2}
    Home <- AllFromFirst
    Background = Background
    Nobody = Nobody
    Events = {"close"}
    MaxOutages = 1
    MaxCrashes = 0
PROPERTIES
    PublishReturns 
CHECK_DEADLOCK FALSE

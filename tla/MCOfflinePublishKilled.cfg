SPECIFICATION FairSpec
CONSTANTS
    r1 = r1
    r2 = r2
    Replicas <- TwoReplicas
    Msgs = {1}
    Home <- AllFromFirst
    Background = Background
    Nobody = Nobody
    Events = {}
    MaxOutages = 0
    MaxCrashes = 1
PROPERTIES
    KilledMidPublishFinished
CHECK_DEADLOCK FALSE

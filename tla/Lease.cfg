SPECIFICATION Spec
CONSTANTS
    Replicas = {r1, r2, r3}
    Nobody = Nobody
    ConfirmTimeout = 2
    MinLeaseTTL = 3
    ReadTime = 2
    SendTime = 2
    SettleTime = 1
    MaxTime = 20
INVARIANTS
    HeldThroughout
    Exclusive
CHECK_DEADLOCK FALSE

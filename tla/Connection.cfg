SPECIFICATION FairSpec
CONSTANTS
    Conns = {c1, c2}
    Monitor = Monitor
    Pubs = {p1}
    Consumer = Consumer
    Keys = {k1}
    Nil = Nil
INVARIANTS
    NoLeak
    ClosedForGood
    RegisteredIsBound
PROPERTIES
    Heals
    RejectionClears
CHECK_DEADLOCK FALSE

SPECIFICATION FairSpec
CONSTANTS
    Conns = {c1, c2, c3}
    Monitor = Monitor
    Pubs = {p1}
    Consumer = Consumer
    Keys = {}
    Nil = Nil
PROPERTIES ReplacesOnlyBroken
CHECK_DEADLOCK FALSE

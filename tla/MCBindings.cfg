SPECIFICATION FairSpec
CONSTANTS
    c1 = c1 c2 = c2 c3 = c3 p1 = p1 p2 = p2 a = a b = b
    Clients = {c1, c2, c3}
    Procs = {p1, p2}
    Proc <- MCProc
    Keys = {a, b}
    Version <- MCVersion
    Recorded = {a, b}
    None = None
    MaxFaults = 1
INVARIANTS ClaimIsLive LiveIsBound BindingsRecorded
PROPERTIES OwnProcessSpared StartCleans
CHECK_DEADLOCK FALSE

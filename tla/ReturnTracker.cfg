SPECIFICATION Spec
CONSTANTS
    Attempts = {a1, a2}
    Msgs = {m1, m2, noID}
    EmptyID = noID
INVARIANTS
    NilMeansOwnedWhileTracking
    LeftoverIsFromGivingUp
    UnroutableIsGenuine
PROPERTIES
    CallsReturn
CHECK_DEADLOCK FALSE

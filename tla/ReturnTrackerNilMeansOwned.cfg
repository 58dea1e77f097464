SPECIFICATION Spec
CONSTANTS
    Attempts = {a1, a2}
    Msgs = {m1, noID}
    EmptyID = noID
INVARIANTS
    NilMeansOwned
CHECK_DEADLOCK FALSE

SPECIFICATION Spec
CONSTANTS
    Session = {s1}
    MaxAttempts = 3
    ReloadAttempts = 1
    MaxWriters = 2
    Faults = {"lost", "refused", "error"}
    NULL = NULL
INVARIANTS
    OneLossPerType
    TablesTellEvents
    InsertedOnce
CHECK_DEADLOCK FALSE

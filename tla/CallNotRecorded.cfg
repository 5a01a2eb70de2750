SPECIFICATION Spec
CONSTANTS
    Session = {s1}
    MaxAttempts = 1
    ReloadAttempts = 1
    MaxWriters = 1
    Faults = {}
    NULL = NULL
INVARIANTS
    EveryCallRecorded
CHECK_DEADLOCK FALSE

SPECIFICATION FairSpec
CONSTANTS
    Leg = {l1, l2, l3, l4, l5}
    Irq = {i1, i2}
    Orq = {o1, o2, o3}
    Call = {c1, c2}
    NULL = NULL
    Retries = {2}
    UIntMax = 7
    SessionTimers = FALSE
    IterationCount = 2
INVARIANTS
    NoOrphanSession
    StoppedClean
    CdrLedger
PROPERTIES
    EveryInviteAnswered
    ImplementsSessionEvents
CHECK_DEADLOCK FALSE

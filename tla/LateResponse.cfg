SPECIFICATION Spec
CONSTANTS
    Leg = {l1, l2}
    Irq = {i1, i2}
    Orq = {o1, o2}
    Call = {c1}
    NULL = NULL
    Retries = {2}
    UIntMax = 7
    SessionTimers = FALSE
    IterationCount <- Unlimited
INVARIANTS
    NoLateResponseAbort
CHECK_DEADLOCK FALSE

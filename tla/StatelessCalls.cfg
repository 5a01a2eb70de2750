SPECIFICATION FairSpec
CONSTANTS
    CallId = {c1, c2, c3}
    Inherited = {c3}
    NULL = NULL
    Wait = 2
    IterationCount = 2
    IdlePasses = 2
    MaxRequests = 1
INVARIANTS
    TypeOK
    QueueMatchesMap
    RouteKept
PROPERTIES
    AnsweredForgotten
    StopsAfterIterations
    ImplementsCallTable
CHECK_DEADLOCK FALSE

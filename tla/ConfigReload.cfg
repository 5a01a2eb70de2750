SPECIFICATION FairSpec
CONSTANTS
    File <- Files
    Content <- Contents
    Thread = {main}
    main = main
    NULL = NULL
    IterationCount = 1
    IdlePasses = 2
    MaxCalls = 1
INVARIANTS
    TypeOK
    NoChangesIfInvalid
    AcceptedInstalled
    OneConfiguration
    StopsOnlyEmpty
    RoutesExist
PROPERTY
    PendingInstalled

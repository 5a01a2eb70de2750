SPECIFICATION Spec
CONSTANTS
    File <- Files
    Content <- Contents
    Thread = {main, other}
    main = main
    NULL = NULL
    IterationCount = 1
    IdlePasses = 2
    MaxCalls = 1
INVARIANT
    NoChangesIfInvalid

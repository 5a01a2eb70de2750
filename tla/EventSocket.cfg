SPECIFICATION FairSpec
CONSTANTS
    UIntMax = 7
    Sessions = {0, 4}
    Limits = {5, 7}
    Faults = {"shutdown", "crash", "fragment", "coalesce", "resolve", "connect", "greeting", "auth", "profile"}
    MaxReloads = 2
INVARIANTS
    AvailableIsConnected
    EveryReplyAwaited
PROPERTIES
    PollingContinues
    LogsInAgain
    OfflineNoticed
    MonitorSurvivesShutdowns
    LeftAloneOnlyAfterFailure
CHECK_DEADLOCK FALSE

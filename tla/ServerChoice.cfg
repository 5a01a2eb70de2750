SPECIFICATION FairSpec
CONSTANTS
    Totals = {0, 1, 3, 4}
    MaxCapacity = 1
    RRIntervals = {0, 1}
    NULL = NULL
INVARIANTS
    SteadyServersOffered
PROPERTIES
    NoServerStarved

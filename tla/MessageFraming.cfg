SPECIFICATION Spec
CONSTANTS
    MaxMessages = 2
    MaxReads = 4
INVARIANTS
    WellCutUnderstood
    BadlyCutSpoils
CHECK_DEADLOCK FALSE

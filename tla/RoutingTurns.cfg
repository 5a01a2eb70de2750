SPECIFICATION FairSpec
CONSTANTS
    Quantities <- ThreeCarriers
    Rotation <- Weighted
    NameOrder <- ABC
    MaxTerminationAttempts = 3
    Call = {k1, k2}
INVARIANTS
    OtherCarrierNext
PROPERTIES
    TrunkShares
    NoTrunkStarved

CONSTANTS
    MaxEpoch = 1
    MaxQueue = 4
    NONE = NONE
SPECIFICATION FairSpec
PROPERTIES
    ImplementsPresence
    GoneIsForgotten
    OfferIsLearnt
CHECK_DEADLOCK FALSE

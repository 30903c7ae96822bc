CONSTANTS
    PerSecond = 3
    Ages = {6, 9, 12}
    MaxLost = 8
    MaxQueue = 6
SPECIFICATION Spec
INVARIANTS
    OfferOutlivesLoss
    QueueKeepsUp

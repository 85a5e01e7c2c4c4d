SPECIFICATION Spec
CONSTANTS
    Bps = 10
    Word = 16
    MaxRate = 20
INVARIANTS
    FeeIsFloor
    SplitFits
    SellerKeepsRounding
CHECK_DEADLOCK FALSE

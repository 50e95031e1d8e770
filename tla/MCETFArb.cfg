SPECIFICATION FairArbSpec
CONSTANTS
    MaxOrders = 4
    MaxQty = 2
    DormIds <- MCDormIds
    StartPosition <- MCStartPosition
    PositionLimit = 1
    CoverAt = 1
    SellAttempts = 1
    MmLimit = 1
    MaxLostReplies = 1
INVARIANTS ArbTypeOK PositionsAreAccounted QuotesAreTracked NeverOversold BlueWithinTwiceLimit
PROPERTY ArbsEnd
CHECK_DEADLOCK FALSE

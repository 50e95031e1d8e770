SPECIFICATION FairArbSpec
CONSTANTS
    MaxOrders = 3
    MaxQty = 2
    DormIds <- MCDormIds
    StartPosition <- MCStartPosition
    PositionLimit = 1
    CoverAt = 1
    SellAttempts = 1
    MmLimit = 1
    MaxLostReplies = 0
PROPERTY GuardResumes
CHECK_DEADLOCK FALSE

SPECIFICATION Spec
CONSTANTS
    OrderIds = {o1, o2}
    OrderQty = {1}
    Price = {1, 2}
    SeqNum = {0, 1}
    Word = 4
    MaxQtyPerOrder = 1
    MaxQtyPerSide = 2
    MaxExposure = 2
    MaxPosition = 1
    MaxOrdersPerSecond = 1
    MaxOrdersPerSeqNum = 2
    MaxUnackedOrders = 1
    MinPnl <- MCMinPnl
    MinValidPrice = 2
    PositionBound = 2
    CashBound = 3
SYMMETRY MCOrderIdSymmetry
INVARIANTS
    TypeOK
    OverLimitIsShutdown
PROPERTIES
    ShutdownAdmitsNothing
    OnlyMarkBreachesSilently
    AnsweredRequestIsJudged

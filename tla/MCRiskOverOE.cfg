SPECIFICATION FairOverSpec
CONSTANTS
    OrderIds = {1, 2}
    OrderQty = {1, 2}
    MaxOrders = 2
    MaxQty = 2
    Price = {1}
    SeqNum = {0}
    Word = 16
    MaxQtyPerOrder = 2
    MaxQtyPerSide = 4
    MaxExposure = 6
    MaxPosition = 2
    MaxOrdersPerSecond = 1
    MaxOrdersPerSeqNum = 3
    MaxUnackedOrders = 1
    MinPnl <- MCMinPnl
    MinValidPrice = 1
    PositionBound = 4
    CashBound = 4
INVARIANTS
    OverTypeOK
    ViewsAgreeUnlessMisled
    PositionMissesOnlyEarlyFills
    ShutdownCancelsTheRest
    ClientStaysAccurate
PROPERTIES
    ImplementsGate
    CallsReturnUnlessReentered
CHECK_DEADLOCK FALSE

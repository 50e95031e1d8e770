SPECIFICATION ExchangeSpec
CONSTANTS
    OrderIds = {o1, o2}
    OrderQty = {1, 2}
    Price = {1}
    SeqNum = {0, 1}
    Word = 8
    MaxQtyPerOrder = 2
    MaxQtyPerSide = 3
    MaxExposure = 3
    MaxPosition = 2
    MaxOrdersPerSecond = 1
    MaxOrdersPerSeqNum = 1
    MaxUnackedOrders = 1
    MinPnl <- MCMinPnl
    MinValidPrice = 1
    PositionBound = 3
    CashBound = 3
INVARIANTS LimitsHold

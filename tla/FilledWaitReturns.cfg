SPECIFICATION FairSpec
CONSTANTS
    MaxOrders = 2
    MaxQty = 2
CHECK_DEADLOCK FALSE
PROPERTIES FilledWaitReturns

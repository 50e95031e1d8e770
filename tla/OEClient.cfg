SPECIFICATION FairSpec
CONSTANTS
    MaxOrders = 3
    MaxQty = 2
CHECK_DEADLOCK FALSE
INVARIANTS
    TypeOK
    LiveOrdersCatchUp
    FillsReportedOnce
    FillMeansDone
    AnswerStillAhead
PROPERTIES
    EveryResponseReturns

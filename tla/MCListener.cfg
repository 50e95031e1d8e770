SPECIFICATION Spec
CONSTANTS
    OrderIds = {o1, o2}
    Symbols = {s1}
    Info <- MCInfo
    MaxMessages = 3
    MaxReplays = 2
    MaxLost = 1
    MaxBuffer = 1
    QuietPolls = 1
SYMMETRY MCOrderIdSymmetry
INVARIANTS
    TypeOK
    LevelsMatchOrders
    BookedOrdersAreRouted
    TrustedOrdersAgree
CHECK_DEADLOCK FALSE

SPECIFICATION Spec
CONSTANTS
    OrderIds = {o1, o2}
    Symbols = {s1}
    Info <- MCInfo
    MaxMessages = 3
    MaxReplays = 1
    MaxLost = 0
    MaxBuffer = 1
    QuietPolls = 1
SYMMETRY MCOrderIdSymmetry
INVARIANTS
    CaughtUpMeansUpToDate
CHECK_DEADLOCK FALSE

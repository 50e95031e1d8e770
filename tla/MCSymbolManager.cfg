SPECIFICATION SmSpec
CONSTANTS
    Price = {21600, 43200}
    Qty = {1, 2}
    Budgets <- MCBudgets
    MaxPosition = 2
    MaxProcesses = 2
INVARIANTS
    SmTypeOK
    CacheIsTopOfBook
    SnapshotNeverGoesBackTwice
    PnlOmitsShorts
    PositionLacksOnlyUnsaved
CHECK_DEADLOCK FALSE

\* Three flows compete for two windows; four capture times, a timeout of two.
CONSTANTS
    f1 = f1
    f2 = f2
    f3 = f3
    Flows = {f1, f2, f3}
    Times = {0, 1, 2, 3}
    Timeout = 2
    MaxActive = 2
    MaxAdmissions = 4
SPECIFICATION Spec
SYMMETRY FlowSymmetry
INVARIANTS
    TypeOK
    WithinCapacity
    KeysAreWindows
    WindowAccounting
    GapsBelowTimeout
    WindowsOfFlowFollow
    FrontierDominates
    EndOfSession
PROPERTIES
    FiledByHistory
    EvictsLeastRecent
    LedgerSpec

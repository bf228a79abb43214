SPECIFICATION Spec
CONSTANTS
    r1 = r1
    r2 = r2
    n1 = n1
    n2 = n2
    Nil = Nil
    Main = main
    Requests = {r1, r2}
    Callers = {r1, r2, main}
    Names = {n1, n2}
    Tags <- MCTags
    Bodies <- WithGauge
    SignKey = FALSE
    MaxInFlight = 1
    NotFinite <- R2NaN
    ScanLimit = 9
    MaxIOErrors = 0
    SyncFlush = TRUE
    Restore = TRUE
    MaxExits = 1
INVARIANT SavedAtStop
CHECK_DEADLOCK FALSE

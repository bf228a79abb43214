SPECIFICATION Spec
CONSTANTS
    r1 = r1
    r2 = r2
    n1 = n1
    n2 = n2
    Nil = Nil
    Main = main
    Requests = {r1, r2}
    Callers = {r1, r2, main}
    Names = {n1, n2}
    Tags <- MCTags
    Bodies <- OneCounter
    SignKey = TRUE
    MaxInFlight = 1
    NotFinite = {}
    ScanLimit = 9
    MaxIOErrors = 0
    SyncFlush = FALSE
    Restore = TRUE
    MaxExits = 1
INVARIANT SavedAtStop
SYMMETRY AnyRequest
CHECK_DEADLOCK FALSE

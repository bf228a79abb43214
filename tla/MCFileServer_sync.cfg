SPECIFICATION Spec
CONSTANTS
    r1 = r1
    r2 = r2
    n1 = n1
    n2 = n2
    Nil = Nil
    Main = main
    Requests = {r1, r2}
    Callers = {r1, r2, main}
    Names = {n1, n2}
    Tags <- MCTags
    Bodies <- Mixed
    SignKey = TRUE
    MaxInFlight = 2
    NotFinite = {}
    ScanLimit = 9
    MaxIOErrors = 1
    SyncFlush = TRUE
    Restore = TRUE
    MaxExits = 1
INVARIANT ServerTypeOK
INVARIANT CountsOnce
INVARIANT FileMirrorsMemory
INVARIANT SavedAtCleanStop
PROPERTY AcknowledgedSurvives
PROPERTY RestoreLoadsFile
PROPERTY ServedAsPromised
SYMMETRY AnyRequest
CHECK_DEADLOCK FALSE

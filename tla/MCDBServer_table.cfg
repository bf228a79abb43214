SPECIFICATION Spec
CONSTANTS
    r1 = r1
    r2 = r2
    n1 = n1
    long = long
    empty = empty
    Nil = Nil
    Main = main
    Requests = {r1, r2}
    Callers = {r1, r2, main}
    Names = {n1, long, empty}
    LongNames = {long}
    Unnamed = {empty}
    Tags <- MCTags
    Bodies <- MCBodies
    SignKey = FALSE
    MaxInFlight = 2
    MaxDBErrors = 1
    Restore = TRUE
    MaxExits = 1
INVARIANT DBServerTypeOK
INVARIANT RowsCountOnce
INVARIANT AcknowledgedInTable
INVARIANT AcknowledgedServed
PROPERTY CommitSavesAll
SYMMETRY AnyRequest
CHECK_DEADLOCK FALSE

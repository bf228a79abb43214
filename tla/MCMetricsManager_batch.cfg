SPECIFICATION ManagerSpec
CONSTANTS
    r1 = r1
    r2 = r2
    n1 = n1
    Nil = Nil
    Requests = {r1, r2}
    Callers = {r1, r2}
    Names = {n1}
    Tags <- MCTags
    Bodies <- WithForged
    SignKey = TRUE
    MaxInFlight = 1
INVARIANT RejectedDiscarded
SYMMETRY AnyRequest
CHECK_DEADLOCK FALSE

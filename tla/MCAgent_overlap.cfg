SPECIFICATION Spec
CONSTANTS
    g1 = g1
    g2 = g2
    g3 = g3
    Nil = Nil
    Scanner = scanner
    Reporter = reporter
    Callers = {scanner, reporter}
    Names <- MCNames
    Tags <- MCTags
    Runtime <- MCRuntime
    Workload <- MCWorkload
    ReportTypes = {"BatchJSON"}
    SignKey = TRUE
    MaxScans = 2
    MaxFailures = 1
INVARIANT OwnValues
CHECK_DEADLOCK FALSE

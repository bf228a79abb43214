SPECIFICATION Spec
CONSTANTS
    p1 = p1
    p2 = p2
    Absent = Absent
    None = None
    NaN = NaN
    Garbage = Garbage
    NoKey = NoKey
    Pairs = {p1, p2}
    Size <- MCSize
    Overhead = 2
    KeyFiles <- MCKeyFiles
    Public <- MCPublic
    Private <- MCPrivate
    Escaped <- MCEscaped
    AgentGiven <- MCAgentGiven
    ServerGiven <- MCServerGiven
    Scanned <- MCScanned
    Others <- MCOthers
    Lengths = {4}
    MaxReports = 2
    MaxOthers = 1
INVARIANT AgreedIsTaken
CHECK_DEADLOCK FALSE

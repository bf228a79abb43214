SPECIFICATION FairSpec
CONSTANTS
    p1 = p1
    p2 = p2
    Absent = Absent
    None = None
    NaN = NaN
    Garbage = Garbage
    NoKey = NoKey
    Pairs = {p1, p2}
    Size <- MCSize
    Overhead = 2
    KeyFiles <- MCKeyFiles
    Public <- MCPublic
    Private <- MCPrivate
    Escaped <- MCEscaped
    AgentGiven <- MCAgentGiven
    ServerGiven <- MCServerGiven
    Scanned <- MCScanned
    Others <- MCOthers
    Lengths = {4}
    MaxReports = 2
    MaxOthers = 1
INVARIANT DeliveryTypeOK
INVARIANT RoundTrip
INVARIANT WrongKeyFails
INVARIANT ReadersSeeTaken
INVARIANT OutcomeTellsAgreement
INVARIANT SealedOnWire
INVARIANT ListHolds
INVARIANT DatabaseFirst
INVARIANT InForce
PROPERTY EveryReportEnds
CHECK_DEADLOCK FALSE

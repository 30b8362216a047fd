SPECIFICATION Spec
CONSTANTS
    clear = clear
    vague = vague
    critical = critical
    minor = minor
    common = common
    r1 = r1
    r2 = r2
    Content <- MCContent
    Name <- MCName
    Named <- MCNamed
    Critical <- MCCritical
    Listed <- MCListed
    Confidence <- MCConfidence
    Config <- MCConfig
    Default <- MCDefault
    Request = {r1, r2}
    MaxRequests = 4
SYMMETRY Sessions
INVARIANTS TypeOK ArchivedFirst ItemsHaveEvents WholeIngestions Gated CountersCover
PROPERTIES MemoryKept ResolutionKept
CHECK_DEADLOCK FALSE

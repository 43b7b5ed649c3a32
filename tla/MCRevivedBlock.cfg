CONSTANTS
    m1 = m1
    m2 = m2
    c1 = c1
    c2 = c2
    r1 = r1
    r2 = r2
    Memories <- MCMemories
    Candidates <- MCCandidates
    Changes = {}
    KeyOf <- MCKeyOf
    OwnKey <- MCKeyOf
    TextOf <- MCTextOf
    PolarityOf <- MCPolarityOf
    AnswersOf <- MCAnswersOf
    HighPass = {}
    MaxVersions = 1
    Rebuilders = {}
    Erased = Erased
    Blocks = {b1}
    Attachments = {}
    Threads = {p1}
    None = None
    MaxOps = 2
    Requests = {r1, r2}
    TargetOf <- MCTargetOf
    OperationsOf <- MCOperationsOf
SPECIFICATION Spec
INVARIANTS
    ErasureReachesEveryBlock
CHECK_DEADLOCK FALSE

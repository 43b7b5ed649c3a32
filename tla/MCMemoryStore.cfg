CONSTANTS
    m1 = m1
    m2 = m2
    c1 = c1
    c2 = c2
    x1 = x1
    r1 = r1
    Memories <- MCMemories
    Candidates <- MCCandidates
    Changes = {x1}
    KeyOf <- MCKeyOf
    OwnKey <- MCOwnKey
    TextOf <- MCTextOf
    PolarityOf <- MCPolarityOf
    AnswersOf <- MCAnswersOf
    HighPass = {c2}
    MaxVersions = 3
    Rebuilders = {g1, g2}
    Erased = Erased
    Blocks = {b1}
    Attachments = {a1}
    Threads = {p1, p2}
    None = None
    MaxOps = 2
    Requests = {r1}
    TargetOf <- MCTargetOf
    OperationsOf <- MCOperationsOf
SYMMETRY Symmetry
SPECIFICATION Spec
INVARIANTS
    OneOpenVersion
    CleanReceiptLeavesNoResidue
    RebuiltGraphIsExact
PROPERTIES
    HistoryOnlyGrows
CHECK_DEADLOCK FALSE

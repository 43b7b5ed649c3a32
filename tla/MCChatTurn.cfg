CONSTANTS
    Turns = {t1, t2}
    Users = {u1}
    Msgs = {m1}
    Nobody = Nobody
    PolicyRows <- MCPolicyRows
    MaxUi = 1
    MaxEvents = 1
    MaxAttachments = 1
    Unknown <- MCUnknown
SYMMETRY Symmetry
SPECIFICATION Spec
INVARIANTS
    PrivateTurnLeavesNothing
    InjectedContextIsCleared
    LifecycleLogIsAPath
    OneAnswerPerRequest
CHECK_DEADLOCK FALSE

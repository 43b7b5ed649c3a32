CONSTANTS
    Profiles = {p1}
    Declarable = {"memory_extraction", "embedding"}
    Confs = {"home", "cloud"}
    Remote = {"cloud"}
    Reachable = {"home", "cloud"}
    Works <- MCWorks
    Incapable = {}
    Installed = {"home"}
    Kind <- MCKind
    ModelName <- MCModelName
    Scopes <- MCScopes
    Creations <- MCCreations
    Patches <- MCPatches
    Answers <- MCAnswers
    Rules <- MCRules
    Planned <- MCPlanned
    Keyed = {TRUE}
    Workers = {w1, w2}
    MaxChanges = 2
    MaxClaims = 2
    None = None
    Unset = Unset
SYMMETRY Symmetry
SPECIFICATION Spec
INVARIANTS
    RecordsAgree
    CallsWhatWasApproved
    OneEditNeverMislabels
PROPERTIES
    VerdictsOnlyTighten
CHECK_DEADLOCK FALSE

SPECIFICATION Spec
CONSTANTS
    Server = {s1, s2, s3}
    Nil = Nil
    MaxTerm = 2
    MaxIndex = 1
    MaxSnapshot = 0
    MaxCalls = 2
    MaxRestarts = 1
SYMMETRY Symmetry
CHECK_DEADLOCK FALSE
CONSTRAINTS
    NoFutileMessage
    NoStaleMatch
    OvertakingOnly
INVARIANTS
    ElectionSafety
    VoteInv
    DiskInSync
PROPERTIES
    VoteIsFinal
    ImplementsCommittedLog

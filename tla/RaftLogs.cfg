SPECIFICATION Spec
CONSTANTS
    Server = {s1, s2, s3}
    Nil = Nil
    MaxTerm = 3
    MaxIndex = 2
    MaxSnapshot = 1
    MaxCalls = 1
    MaxRestarts = 0
SYMMETRY Symmetry
CHECK_DEADLOCK FALSE
CONSTRAINTS
    NoFutileMessage
    NoStaleMatch
    Combined
INVARIANTS
    LogMatching
    LeaderCompleteness
    CommitInLog
    SnapshotMeetsLog
PROPERTIES
    ImplementsCommittedLog

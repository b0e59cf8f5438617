SPECIFICATION Spec
CONSTANTS
    Server = {s1, s2, s3}
    Odd = s1
    Even = s2
    Nil = Nil
    MaxTerm = 6
    MaxIndex = 2
    MaxSnapshot = 0
    MaxCalls = 1
    MaxRestarts = 0
CHECK_DEADLOCK FALSE
CONSTRAINTS
    Alternating
    NoFutileMessage
INVARIANTS
    CommittedValuesMatch

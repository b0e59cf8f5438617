SPECIFICATION Spec
CONSTANTS
    MaxTerm = 2
    MaxIndex = 3
    MaxBase = 1
    MaxCalls = 2
    MaxLost = 1
INVARIANTS
    IndexInv
PROPERTIES
    PrefixCatchesUp
CHECK_DEADLOCK FALSE

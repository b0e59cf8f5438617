SPECIFICATION Spec
CONSTANTS
    MaxTerm = 2
    MaxIndex = 2
    MaxBase = 0
    MaxCalls = 1
    MaxLost = 0
PROPERTY CatchesUp
CHECK_DEADLOCK FALSE

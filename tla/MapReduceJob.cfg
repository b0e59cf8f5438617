SPECIFICATION Spec
CONSTANTS
    MaxFiles = 3
    Workers = {w1, w2, w3}
    MaxCrashes = 1
INVARIANTS
    TaskInv
PROPERTIES
    JobEnds
CHECK_DEADLOCK FALSE

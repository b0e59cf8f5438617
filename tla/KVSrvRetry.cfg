SPECIFICATION Spec
CONSTANTS
    Clerk = {c1, c2}
    MaxOps = 2
    MaxFailures = 2
INVARIANTS
    ServerInv
PROPERTY Linearizable
CHECK_DEADLOCK FALSE

SPECIFICATION Spec
CONSTANTS
    CallId = {i1}
    NoEnd = NoEnd
    NoServer = NoServer
    N = 3
    c1 = c1
    Clerk = {c1}
    Victims = {0, 1}
    Routes <- MCRoutes
    Lists = {{0}}
    MaxInstances = 2
    MaxSwitches = 3
INVARIANTS
    PositiveIsDurable
    SupersededIsSilent
    LeaderIsCutOff
PROPERTIES
    SidesAreApart
    HangingHandlerIsLeft
CHECK_DEADLOCK FALSE

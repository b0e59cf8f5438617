CONSTANTS
    Keys = {"x", "y"}
    Histories <- MCHistories
    EventLists <- MCEventLists
    WordSize = 2
SPECIFICATION Spec
INVARIANTS
    SearchInv
    VerdictIsRight
    PartialsAreLongest
    DrawingIsSound
PROPERTIES
    ChecksEnd
CHECK_DEADLOCK FALSE

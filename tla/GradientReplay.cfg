SPECIFICATION GSpec
CONSTANTS
    MaxIndex = 4
    MaxRestarts = 1
    Batches = {1, 2}
    bufferSize = 2
INVARIANTS
    ManagerInv
    SliceInRange
    NothingSkipped
    ModelFollowsLog
PROPERTIES
    CommittedIsApplied
CHECK_DEADLOCK FALSE

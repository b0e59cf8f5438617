CONSTANTS
    N = 2
    Chosen <- MCChosen
    Command = {1, 2}
    SnapShotInterval = 1
    Victims = {1}
    Expected = {2}
    MaxStarts = 3
    MaxCalls = 2
    MaxWrong = 1
    MaxTerm = 2
SPECIFICATION Spec
INVARIANTS
    ConfigInv
    AlarmsAreReal
    DisagreementIsReported
    SavedIsOwn
    OneIsAgreed
    LeaderIsNewest
CONSTRAINT MuddledOnlyRestarts
CHECK_DEADLOCK FALSE

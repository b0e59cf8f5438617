SPECIFICATION RSpec
CONSTANTS
    MaxIndex = 2
    MaxCalls = 1
INVARIANTS
    NeverSilent
PROPERTIES
    HeartbeatsGoOn
    EntriesArrive

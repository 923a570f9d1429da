CONSTANTS
    c1 = c1 c2 = c2 None = None
    Call = {c1, c2}
    MaxStops = 0
    MaxCycles = 3
    MaxMessages = 2
SPECIFICATION SyncFairSpec
CHECK_DEADLOCK FALSE
INVARIANTS SyncTypeOK NothingLeftBehind NoMailLost TorSuspended
PROPERTY CycleEndsIfAnswered

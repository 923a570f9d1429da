CONSTANTS
    c1 = c1 c2 = c2 None = None
    Call = {c1, c2}
    MaxStops = 2
SPECIFICATION FairSpec
CHECK_DEADLOCK FALSE
INVARIANTS TypeOK NoSocketLeaked BufferIsCurrent TimerMeansReconnecting
PROPERTY Recovers

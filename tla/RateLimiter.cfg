SPECIFICATION FairSpec
CONSTANTS
    Threads = {t1, t2}
    NoThread = none
    maxRequests = 2
    window = 2
    timeout = 3
    MaxTime = 8
    MaxCalls = 5
\* The clock and the uploads of the bound are used up.
CHECK_DEADLOCK FALSE
INVARIANTS
    SlotsSpread
PROPERTY AcquireReturns

SPECIFICATION FairSpec
CONSTANTS
    Threads = {t1, t2, t3, t4, t5}
    maxHandles = 2
    NoHandle = none
    MaxCalls = 8
\* All requests of the bound have been made.
CHECK_DEADLOCK FALSE
INVARIANTS
    HandlesConserved
PROPERTY AcquireReturns

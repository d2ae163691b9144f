SPECIFICATION FairSpec
CONSTANTS
    Batches = {b1, b2, b3}
    Workers = {w1, w2}
    NoBatch = none
    NoWorker = nobody
    MaxAttempts = 3
    MaxEvents = 4
\* The run of the folder is over.
CHECK_DEADLOCK FALSE
INVARIANTS
    ConfirmedIsRecorded
    BatchesAccountedFor
    OneRefreshPerRun
    SignOutJustified
PROPERTIES
    NeverSentAgain
    PipelineEnds

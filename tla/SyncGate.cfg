SPECIFICATION FairSpec
CONSTANTS
    Folders = {f1}
    Loop = loop
    Async = async
    Slots = {s1}
    AllFolders = all
    NoFolder = none
    MaxCommands = 2
\* The process ends when the user stops it.
CHECK_DEADLOCK FALSE
INVARIANTS
    ExclusiveRun
    NoUseAfterDestroy
    PauseOutsideRunHolds
PROPERTIES
    ImplementsService
    QueuedRequestServed
    StopCompletes
    TriggerProceeds

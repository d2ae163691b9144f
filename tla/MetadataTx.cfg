SPECIFICATION TxFairSpec
CONSTANTS
    Files = {f1, f2}
    LargeFiles = {l1, l2, l3}
    FolderRow = folderRow
    CommandRow = commandRow
    Directions = {"bidirectional", "push", "pull"}
    MaxEvents = 3
INVARIANTS
    OpenOnlyWhileOwned
PROPERTIES
    CloseLosesNothing
    LeakHeals

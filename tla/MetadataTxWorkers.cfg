SPECIFICATION TxSpec
CONSTANTS
    Files = {f1}
    LargeFiles = {l1, l2}
    FolderRow = folderRow
    CommandRow = commandRow
    Directions = {"bidirectional"}
    MaxEvents = 1
INVARIANT WorkersAreSafe

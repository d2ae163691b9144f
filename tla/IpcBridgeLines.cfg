SPECIFICATION Spec
CONSTANTS
    MaxCalls = 1
    Commands = {"sync_state"}
    None = None
INVARIANT LinesAreWhole
CHECK_DEADLOCK FALSE

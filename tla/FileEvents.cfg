SPECIFICATION Spec
CONSTANTS
    docs = docs
    docs2 = docs2
    a = a
    b = b
    None = None
    Folders = {docs, docs2}
    Files = {b}
    Home <- MCHome
    Prefixes <- MCPrefixes
    Platforms = {"linux", "windows"}
    AtStart = {{docs}, {docs, docs2}}
    Window = 2
    KernelCap = 1
    MaxFlight = 2
    MaxOps = 1
INVARIANTS
    RemovalIsHeeded
    NobodyBlocks
PROPERTIES
    UnwatchedIsQuiet
    MainReturns
    StreamHeard
CHECK_DEADLOCK FALSE

SPECIFICATION Spec
CONSTANTS
    Users = {a, b}
    Servers = {s, t}
    DefaultServer = s
    None = None
    MaxEvents = 5
INVARIANTS
    SignedOutStaysOut
    StoreHoldsOneAccount
    SyncsAsShown
    FilesAsPaired
    ProfilesKept
SYMMETRY Symmetry
CHECK_DEADLOCK FALSE

SPECIFICATION FairSpec
CONSTANTS
    Paths = {p1}
    Contents = {a, b}
    Absent = absent
    Directions = {"bidirectional"}
    MaxEvents = 1
PROPERTY LocalDeletionReachesServer

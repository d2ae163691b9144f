SPECIFICATION FairSpec
CONSTANTS
    Paths = {p1}
    Contents = {a, b}
    Absent = absent
    Directions = {"bidirectional", "push", "pull"}
    MaxEvents = 5
INVARIANTS
    TokenCovers
    EditsVisible
PROPERTIES
    
    DirectionRespected
    Converges

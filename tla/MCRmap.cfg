SPECIFICATION Spec
CONSTANTS
    p1 = p1
    p2 = p2
    Proc = {p1, p2}
    Size = 5
    Slots = 2
    Asks <- MCAsks
SYMMETRY Symmetry
INVARIANTS
    TypeOK
    MapTidy
    Conserved
PROPERTY ArenaSpec

SPECIFICATION Spec
CONSTANTS
    p1 = p1
    p2 = p2
    p3 = p3
    Proc = {p1, p2}
    Blocks = 2
    INOPB = 1
    NICINOD = 2
    Behind = 1
    NoIno = NoIno
    NoProc = NoProc
    ILock = ILock
SYMMETRY Symmetry
CONSTRAINT ListFits
INVARIANTS
    TypeOK
    Refs
    NoLostWakeup
    FreeCount
PROPERTY FilesSpec

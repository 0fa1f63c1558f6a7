SPECIFICATION Spec
CONSTANTS
    p1 = p1
    p2 = p2
    f1 = f1
    f2 = f2
    b1 = b1
    b2 = b2
    b3 = b3
    Proc = {p1, p2}
    File = {f1, f2}
    Blk = {b1, b2, b3}
    NICFREE = 2
    Start <- MCStart
    Zero = Zero
    NoProc = NoProc
    NoFile = NoFile
SYMMETRY Symmetry
INVARIANTS
    TypeOK
    DurableList
    DurableFiles
    Marked
PROPERTY SpaceSpec

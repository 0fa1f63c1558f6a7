SPECIFICATION FairSpec
CONSTANTS
    p1 = p1
    p2 = p2
    a = a
    b = b
    Proc = {p1, p2}
    Val = {a, b}
    MaxPip = 2
    Requests <- MCRequests
    Counts = {1, 3}
    Block <- MCBlock
    Junk = Junk
    NoProc = NoProc
INVARIANTS
    TypeOK
    EndsCounted
    NoLostWakeup
PROPERTIES
    FifoSpec
    Returns

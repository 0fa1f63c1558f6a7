SPECIFICATION Spec
CONSTANTS
    p1 = p1
    p2 = p2
    b1 = b1
    b2 = b2
    b3 = b3
    v1 = v1
    v2 = v2
    Proc = {p1, p2}
    Buf = {b1, b2}
    Blk = {1, 2, 3}
    Val = {v1}
    Zero = v1
    Cyl <- MCCyl3
    Requests <- TwinRequests
    DiskFails = FALSE
    Crashes = FALSE
    NoBuf = NoBuf
    NoBlk = NoBlk
    NoReq = NoReq
    NoReply = NoReply
    Idle = Idle
    FreeList = FreeList
INVARIANT OneBufferPerBlock

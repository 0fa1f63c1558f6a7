SPECIFICATION FairSpec
CONSTANTS
    p1 = p1
    p2 = p2
    t1 = t1
    Proc = {p1, p2}
    Tty = {t1}
    Chan = {"selwait", "disk"}
    Breakable = {"selwait"}
    Sent <- MCSent
    Caught <- MCCaught
    NoChan = NoChan
    NoProc = NoProc
INVARIANTS
    TypeOK
    InOnePlace
    HearsInput
    HearsSignals
PROPERTIES
    StopHolds
    SelectReturns

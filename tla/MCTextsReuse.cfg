SPECIFICATION Spec
CONSTANTS
    p1 = p1
    p2 = p2
    p3 = p3
    x1 = x1
    x2 = x2
    f1 = f1
    f2 = f2
    f3 = f3
    Proc = {p1, p2}
    Sched = Sched
    Text = {x1, x2}
    File = {f1, f2, f3}
    Core = 4
    Img <- MCImg
    Execs <- RaceExecs
    NoText = NoText
    NoFile = NoFile
    Idle = Idle
SYMMETRY Symmetry
INVARIANT RunsItsText

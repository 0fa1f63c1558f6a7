SPECIFICATION FairSpec
CONSTANTS
    w1 = w1
    w2 = w2
    What = {w1, w2}
    Times <- MCTimes
    NCallout = 4
    MaxLate = 2
    Nobody = Nobody
PROPERTIES
    TimersSpec
    IsCalled

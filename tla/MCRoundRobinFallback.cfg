CONSTANTS
    w1 = w1
    w2 = w2
    N = 2
    Workers <- MCWorkers
    Checker = Checker
    NoThread = NoThread
    Weight <- MCWeight
    MaxFails <- MCMaxFails
    FailTimeout <- MCFailTimeout
    IsFallback <- MCIsFallback
    Unreliable = {0}
    MaxOpen = 1
    MaxLag = 0
    Checked = {}
    CheckFall <- MCTwos
    CheckRise <- MCTwos
    CheckTimeout <- MCOnes
    MaxPending = 1
    WeightBound = 4
SPECIFICATION FallbackSpec
SYMMETRY Symmetry
INVARIANTS FallsBack

CONSTANTS
    w1 = w1
    w2 = w2
    N = 3
    Workers = {w1}
    Checker = Checker
    NoThread = NoThread
    Weight <- LiveWeight
    MaxFails <- LiveMaxFails
    FailTimeout <- LiveFailTimeout
    IsFallback <- LiveIsFallback
    Unreliable = {0, 1}
    MaxOpen = 1
    MaxLag = 0
    Checked = {}
    CheckFall <- LiveOnes
    CheckRise <- LiveOnes
    CheckTimeout <- LiveOnes
    MaxPending = 1
    WeightBound = 12
    NoRound = NoRound
SPECIFICATION LiveSpec
INVARIANTS Proportional
PROPERTIES DownRetried

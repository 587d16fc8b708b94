CONSTANTS
    w1 = w1
    w2 = w2
    N = 2
    Workers = {w1}
    Checker = Checker
    NoThread = NoThread
    Weight <- MCWeight
    MaxFails <- MCMaxFails
    FailTimeout <- MCFailTimeout
    IsFallback <- MCIsFallback
    Unreliable = {0, 1}
    MaxOpen = 1
    MaxLag = 0
    Checked = {}
    CheckFall <- MCTwos
    CheckRise <- MCTwos
    CheckTimeout <- MCOnes
    MaxPending = 1
    WeightBound = 12
    NoRound = NoRound
SPECIFICATION LiveSpec
PROPERTIES UpServed

CONSTANTS
    w1 = w1
    w2 = w2
    N = 2
    Workers <- MCWorkers
    Checker = Checker
    NoThread = NoThread
    Weight <- MCHeavy
    MaxFails <- MCMaxFails
    FailTimeout <- MCFailTimeout
    IsFallback <- MCIsFallback
    Unreliable = {0}
    MaxOpen = 1
    MaxLag = 1
    Checked = {0}
    CheckFall <- MCOnes
    CheckRise <- MCOnes
    CheckTimeout <- MCOnes
    MaxPending = 1
    WeightBound = 2
SPECIFICATION Spec
SYMMETRY Symmetry
INVARIANTS TypeOK EffectiveWeightBounds WeightConservation ConnectionCount NoGridlock FailsMatchState
CHECK_DEADLOCK FALSE

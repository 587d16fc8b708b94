CONSTANTS
    w1 = w1
    w2 = w2
    N = 2
    Workers <- MCWorkers
    Checker = Checker
    NoThread = NoThread
    Weight <- MCWeight
    MaxFails <- MCMaxFails
    FailTimeout <- MCOnes
    IsFallback <- MCIsFallback
    Unreliable = {0}
    MaxOpen = 1
    MaxLag = 1
    Checked = {}
    CheckFall <- MCOnes
    CheckRise <- MCOnes
    CheckTimeout <- MCOnes
    MaxPending = 1
    Policies <- MCPolicies
    Rings <- MCRings
    Hashes = {0, 1, 2, 3, 4}
    TrafficWindow <- MCOnes
    Modulus = 16
    Bursts = {1, 15}
    CountBound = 3
    TrafficBound = 0
SPECIFICATION Spec
SYMMETRY Symmetry
INVARIANTS PassedOverIsLast RingAnswer SurvivesWithReliable
CHECK_DEADLOCK FALSE

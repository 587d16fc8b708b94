CONSTANTS
    c1 = c1
    c2 = c2
    c3 = c3
    w1 = w1
    w2 = w2
    Conns <- MCConns
    Workers <- MCWorkers
    Master = Master
    Sentinel = Sentinel
    NoThread = NoThread
    NoConn = NoConn
SPECIFICATION FairSpec
INVARIANTS TypeOK MutualExclusion Accounting NeverSentinel OnePlace
PROPERTIES FifoHandOff EventuallyTaken

CONSTANTS
    c1 = c1
    c2 = c2
    c3 = c3
    w1 = w1
    w2 = w2
    Conns <- MCConns
    Workers <- MCWorkers
    Master = Master
    Sentinel = Sentinel
    NoThread = NoThread
    NoConn = NoConn
    NoNode = NoNode
SPECIFICATION Spec
INVARIANTS WellLinked
PROPERTIES ImplementsPool

CONSTANTS
    p1 = p1
    p2 = p2
    Pairs <- MCPairs
    NoPair = NoPair
    BufSize = 2
    MaxEvents = 1
    MaxBytes = 2
SPECIFICATION FairSpec
INVARIANTS TypeOK NoLostEdge NoStaleEvent DrainedAtEof OpenCount
PROPERTIES EventuallyHandled

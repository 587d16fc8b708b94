CONSTANTS
    u1 = u1
    u2 = u2
    c1 = c1
    c2 = c2
    PoolSize = 8
    PoolHead = 4
    DataHead = 2
    PageLimit = 3
    RecordSize = 1
    Alignment = 2
    FailedLimit = 0
    LargeLimit = 0
    Sizes = {1, 3, 5}
    Files = {1}
    MaxBlocks = 2
    MaxLarge = 2
    MaxMine = 1
    MaxElts = 3
    MaxCleanups = 1
    BufSize = 2
    MaxLinks = 4
    MaxFilled = 6
    MaxItems = 5
    MaxSize = 5
    Names = {"a"}
    Lookups = {"a", "A"}
    NestingLimit = 2
    Beginnings <- MCBeginnings
    MaxMore = 6
    Confs <- MCConfs
    CoreNum = 1
    Addresses = 2
    UdpWorkers <- MCUdpWorkers
    Clients <- MCClients
    MaxDatagrams = 2
    MaxReplies = 2
    RingHashes = {0, 1, 2, 3}
    RingKeys = {0, 1, 2, 3, 4}
    MaxPoints = 4
SPECIFICATION Spec
SYMMETRY Symmetry
INVARIANTS NoOverlap FreedOnce ChainsSound TreeSound ParseSound PrintSound RingSound LogKept StartOrder RightClient DatagramOnce
CHECK_DEADLOCK FALSE

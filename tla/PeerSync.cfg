SPECIFICATION FairSpec
CONSTANTS
    a = a
    b = b
    t1 = t1
    t2 = t2
    t3 = t3
    Nodes <- TwoNodes
    Tids <- ThreeTids
    Outbound <- MCOutbound
    Slots = {1, 2}
    Local <- T3LocalToB
    Weak <- T2WeakAtB
    KnownWeak <- None
    TooLarge <- T1LargeForA
    SyncLimit = 2
    MaxInbound = 1
    MaxPeers = 1
    Static <- AStaticForB
    Filters <- OnlyB
    MaxFaults = 1
CHECK_DEADLOCK FALSE
INVARIANTS SyncSafe
PROPERTIES Converges

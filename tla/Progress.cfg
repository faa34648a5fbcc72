SPECIFICATION Spec
CONSTANTS
    MaxAnnounces = 2
    MaxFlushes = 2
    MaxFaults = 1
    Dests = {1, 2, 3}
    Hops = {0}
    MaxArrivals = 3
    FreqSamples = 2
    MinSample = 1
    BurstFreq = 1
    BurstHold = 1
    BurstPenalty = 1
    ReleaseInterval = 1
    MaxHeld = 1
    FreqDecay = 2
    MaxHops = 4
    Nodes = {1, 2}
    MaxConnects = 1
    Blobs = {1, 2, 3}
    SizeOf <- MCSizeOf
    StorageLimit = 3
    StaticSites = {2}
    TransferLimit = 1
    SyncLimit = 1
    MaxBackoff = 1
    MaxErrors = 1
    MaxExpiries = 1
    MaxBytes = 5
    MaxDataLen = 2
    MinCompress = 1
    MaxChunkLen = 4
    SendWindow = 2
INVARIANTS
    StreamIntact
    ContactIsPending
    SyncIsBounded
PROPERTIES
    ContactReachesDisk
    HeldComesThrough
    HeldIsKept
    DialsSettle
    SyncConverges
CHECK_DEADLOCK FALSE

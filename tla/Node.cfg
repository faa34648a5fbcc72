SPECIFICATION Spec
CONSTANTS
    b1 = b1
    b2 = b2
    b3 = b3
    i1 = i1
    i2 = i2
    Interfaces = {i1, i2}
    NoInterface = NoInterface
    NoRoute = NoRoute
    Blobs = {b1, b2, b3}
    Emission <- MCEmission
    Gravity <- MCGravity
    MaxHops = 2
    MAX_RANDOM_BLOBS = 2
    PATH_EXPIRY = 2
    MaxNow = 3
    WINDOW = 4
    WINDOW_MIN = 2
    WINDOW_MAX_SLOW = 10
    WINDOW_MAX_VERY_SLOW = 4
    WINDOW_MAX_FAST = 12
    WINDOW_FLEXIBILITY = 4
    FAST_RATE_THRESHOLD = 4
    VERY_SLOW_RATE_THRESHOLD = 2
    Emitters = {1, 2}
    Tags = {"t"}
    MaxRatchets = 2
    MaxRotations = 1
    MaxCadences = 2
    MaxOnAir = 2
    MaxData = 1
    MaxRestarts = 1
    Found = {1, 2}
    Offers <- MCOffers
    Discoverable = {"tcp"}
    Sources = {"net"}
    CanOpen = TRUE
    RemoveAge = 0
    MaxOffers = 2
    MaxStarts = 2
    MaxLists = 1
    MaxStorageFaults = 1
    Packets = {1, 2, 3, 4}
    TagOf <- MCTag
    HashlistMax = 2
    MaxPrTags = 2
    PrBurstFreq = 1
    PrBurstHold = 1
    PrCooldown = 1
    PrSamples = 3
    PrMinSample = 1
    PrDecay = 3
    Callers = {"c1", "c2", "c3"}
    Askers = {1, 2}
    MaxCalls = 4
    Subscribers = {1}
    Channels = {1, 2}
    MaxPublishes = 2
    MaxSubscribes = 2
    QueueLimit = 2
    GlobalLimit = 3
    PageSize = 1
    StoreLimit = 1
    MaxDrains = 1
    FedNodes = {1, 2}
    CostOf <- MCCostOf
    RawNames = {1}
    ClientCalls = {1, 2}
    MaxClientCalls = 3
    MaxBlobs = 1
    StoredBlobs = {1}
    MaxSaves = 1
    MaxChanges = 1
    MaxRunnerStarts = 1
    Pairs = {1, 2}
    PendingCap = 2
    MaxPairRequests = 3
    MaxBackupAge = 2
    BackupTtl = 1
    MaxPushFailures = 2
    PubLinks = {1, 2}
    Trusted = {2}
    MaxInboundPublishes = 1
    Sends = {1, 2, 3}
    Large = {1, 2}
    FallbackOf <- MCFallback
    MaxLinks = 2
INVARIANTS
    WindowBounds
    AnnouncesAreKept
    StorageFollows
    RememberedLongEnough
    SolicitationsAreHonest
    RfedAccounted
    SentIsHeld
PROPERTIES
    RoutesImprove
    BackupAccounted
CHECK_DEADLOCK FALSE

SPECIFICATION Spec
CONSTANTS
    IfKinds = {"tcp", "ws", "backbone", "local"}
    MaxTries = 2
    MaxDials = 3
    ServerKinds = {"tcp", "backbone", "ws"}
    Sockets = {1, 2, 3, 4}
    Ips = {1, 2}
    FlapGrace = 1
    IpOf <- MCIpOf
    MaxBatch = 2
    Flights = {1, 2}
    MaxHttpPackets = 2
    MaxHttpConnects = 2
    MaxSessions = 2
    Devices = {1, 2}
    AutoPeers = {1}
    Datagrams = {1, 2}
    DequeLen = 1
    DequeTtl = 2
    PeeringTimeout = 1
    MaxAutoTime = 3
    MaxCopies = 2
    MaxUdp = 2
    Framings = {"hdlc", "kiss", "rnode"}
    Payloads <- MCPayloads
    Noise <- MCNoise
    MaxFrames = 2
    MinRaw = 1
    MaxFrame = 4
    RadioFields = {"detected", "firmware", "frequency"}
    FlowControl = TRUE
    MaxRadioSends = 3
    MaxRadioOpens = 2
INVARIANTS
    SpawnedIsAttached
    AutoPeering
    FramesRecovered
    ConnectionSafe
PROPERTIES
    LossResolves
    PollsDeliver
    NothingAfterClose
    RadioIsLawful
CHECK_DEADLOCK FALSE

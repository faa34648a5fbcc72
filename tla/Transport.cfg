SPECIFICATION FairSpec
CONSTANTS
    b1 = b1
    b2 = b2
    i1 = i1
    i2 = i2
    p1 = p1
    p2 = p2
    Interfaces = {i1}
    NoInterface = NoInterface
    NoRoute = NoRoute
    Blobs = {b1, b2}
    Emission <- MCEmission
    Gravity <- MCOneGravity
    MaxHops = 2
    MAX_RANDOM_BLOBS = 2
    PATH_EXPIRY = 2
    Packets = {p1, p2}
    LinkPackets = {p2}
    LinkInterface = i1
    MaxValidating = 1
PROPERTY SendsSettle
CHECK_DEADLOCK FALSE
INVARIANTS ReceiptsSafe

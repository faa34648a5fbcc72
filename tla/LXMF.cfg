SPECIFICATION Spec
CONSTANTS
    m1 = m1
    m2 = m2
    s1 = s1
    s2 = s2
    l1 = l1
    t1 = t1
    t2 = t2
    c1 = c1
    c2 = c2
    Msgs <- MCMsgs
    Sender <- MCSender
    Forged <- OnlyM2
    Encodings = {"signed", "relayed"}
    CacheMax = 1
    Links <- MCLinks
    LinkPeer <- MCLinkPeer
    Arrivals = {1, 2}
    MaxParked = 1
    Tids <- MCTids
    MsgOf <- MCMsgOf
    Unreadable <- MCUnreadable
    Paper <- OnlyT1
    Sessions <- MCSessions
    MaxMessages = 2
    TransferLimit = 1
    MaxFaults = 1
CHECK_DEADLOCK FALSE
INVARIANT InboundSafe
PROPERTIES InboundArrives

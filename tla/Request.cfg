SPECIFICATION FairSpec
CONSTANTS
    Requests = {r1, r2, r3}
    Id <- OwnIds
    TransmitFailing = TRUE
    LinkCloses = TRUE
CHECK_DEADLOCK FALSE
INVARIANT PromisesSafe
PROPERTY RequestSettles

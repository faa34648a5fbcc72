SPECIFICATION FairSpec
CONSTANTS
  Types = {a}
  Registered = {a}
  Rtts = {"zero", "fast"}
  SEQ_MODULUS = 8
  WINDOW = 1
  WINDOW_MIN = 1
  WINDOW_MAX_SLOW = 2
  WINDOW_MAX_MEDIUM = 2
  WINDOW_MAX_FAST = 3
  WINDOW_MIN_LIMIT_MEDIUM = 1
  WINDOW_MIN_LIMIT_FAST = 2
  WINDOW_FLEXIBILITY = 0
  FAST_RATE_THRESHOLD = 1
  MaxTries = 2
  MaxMessages = 3
  MaxCopies = 1
CHECK_DEADLOCK FALSE
INVARIANT DeliverySafe
PROPERTIES ImplementsOrderedDelivery ChannelSettles

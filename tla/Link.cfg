SPECIFICATION FairSpec
CONSTANTS
  MaxTeardowns = 1
  MaxData = 1
  QueueBound = 1
CHECK_DEADLOCK FALSE
INVARIANT LinkSafe
PROPERTY LinkSettles

SPECIFICATION FairSpec
CONSTANTS
  Segments = 1
  Parts = 2
  HashmapMaxLen = 1
  Window = 1
  MAX_RETRIES = 1
  LinkCloses = FALSE
  SendFails = FALSE
  MayReject = TRUE
  MaxCancels = 1
CHECK_DEADLOCK FALSE
PROPERTY TransfersSettle

SPECIFICATION Spec
CONSTANTS
  Segments = 2
  Parts = 1
  HashmapMaxLen = 1
  Window = 1
  MAX_RETRIES = 1
  LinkCloses = TRUE
  SendFails = TRUE
  MayReject = FALSE
  MaxCancels = 0
CHECK_DEADLOCK FALSE
CONSTRAINT FewInTransit
INVARIANTS TransferSafe

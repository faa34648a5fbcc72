SPECIFICATION StreamSpec
CONSTANTS
    MaxBytes = 3
    MaxDataLen = 2
    MinCompress = 1
    MaxChunkLen = 4
    SendWindow = 2
PROPERTY WriteSettles
CHECK_DEADLOCK FALSE

SPECIFICATION SigSpec
CONSTANTS
    AUTO_STOP = 3
    MaxSent = 4
CHECK_DEADLOCK FALSE
INVARIANT ReloadNotLost

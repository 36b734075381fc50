SPECIFICATION Spec
CONSTANTS
    Bit = {b0}
    FRAME_MAX_LEN = 2
    Nesting = TRUE
    MaxCalls = 6
PROPERTY OnlyResetEscapesError
CHECK_DEADLOCK FALSE

SPECIFICATION Spec
CONSTANTS
    Bit = {b0, b1}
    FRAME_MAX_LEN = 3
    MaxFrames = 2
    MaxFed = 4
INVARIANTS FrameIntact FrameAccounting
PROPERTY FrozenOnceComplete

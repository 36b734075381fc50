SPECIFICATION Spec
CONSTANTS
    Zero = z
    Byte = {z, b}
    BUFFER_SIZE = 3
    NoByte = NoByte
    MaxUnread = 5
INVARIANT CountIsUnread

SPECIFICATION Spec
CONSTANTS
    Zero = z
    Byte = {z, b}
    CBUF_SIZE = 4
    INDEX_MOD = 8
    MaxUnread = 6
    MaxLen = 3
INVARIANT CountIsUnread

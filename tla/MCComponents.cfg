SPECIFICATION MCSpec
CONSTANTS
    a = a
    b = b
    Value <- MCWord
    QUEUE_SIZE = 4
    NoValue = NoValue
    Item <- MCWord
    STACK_SIZE = 3
    NoItem = NoItem
    COUNT_MOD = 4
    READING = 2650
    MaxErrors = 6
    DataByte <- MCDataByte
    NoByte = NoByte
    NoWord = NoWord
    Char <- MCChar
    CELLS = 3
    Running = Running
    INT_MAX = 2147483647
    Ticks = 4
    p1 = p1
    p2 = p2
    p3 = p3
    p4 = p4
    ListNode <- MCListNode
    ListData = {1, 2}
    NULL = NULL
    TreeNode <- MCTreeNode
    TreeKey <- MCTreeKey
    NIL = NIL
    REG_COUNT = 3
    Unset = Unset
INVARIANTS
    MCTypes RingAgreement SensorConsistent ErrorFlagKept LoopsMeetDefinition
    ListIntact TreeIntact HeapSafe ArithmeticExact
PROPERTIES
    ImplementsFifo ImplementsLifo AllCallsReturn
CHECK_DEADLOCK FALSE

CONSTANTS
    None = None
    BspThread = {}
    Delays = {2, 3, 5}
    TICK = 4
    MIN_ARM = 2
    MaxPending = 3
    MaxNow = 10
    Proc = {M1}
    Cpu = {K1}
    Limits = {1}
    QuotaOps = {}
    MaxWindows = 4
    Window = 3
    Capacity = 1
    Requests = 3
    MaxAttempts = 5
    CrashAfter = 1
    MaxRestarts = 2
    SeqSpace = 16
    Iss <- EarlyWrap
    TX_SLOTS = 2
    MAX_RETRIES = 1
    RX_CAP = 1
    SLOTS = 2
    QSize = 2
    IdxMod = 4
    Tables = {}
    MaxSent <- OneFromA
    NetMax = 1
    Parts = {"block"}
    Drivers = {"virtio"}
    MaxReqs = 3
    MaxAhead = 3
SPECIFICATION LiveSpec
PROPERTIES
    RequestsAnswered
CHECK_DEADLOCK FALSE

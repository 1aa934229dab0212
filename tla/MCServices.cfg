CONSTANTS
    RpcQueueMax = 2
    MaxCalls = 2
    MaxEvents = 3
    Requests = 3
    MaxAttempts = 5
    CrashAfter = 1
    MaxRestarts = 2
    MAX_SURFACES = 2
    MAX_CLIENTS = 2
    NUM_CONTEXTS = 2
    ZMax = 0
    SeqSpace = 16
    Iss <- EarlyWrap
    TX_SLOTS = 2
    MAX_RETRIES = 1
    RX_CAP = 1
    port1 = port1
    port2 = port2
    NET_CLIENTS = 2
    UDP_SOCKS = 2
    TCP_CONNS = 2
    Ports = {port1, port2}
    OUT_W = 3
    OUT_H = 2
    MAX_SURF = 2
    NUM_DISPLAYS = 1
    Depths = {0, 1}
    Sizes <- OneSize
    Places <- PartlyOut
    Ratios <- FullAndHalf
    Pixels = {1, 2}
    SeqWidth = 8
    MaxFrames = 3
    SLOTS = 2
    QSize = 2
    IdxMod = 4
    VFS_CLIENTS = 2
    RAM_FILES = 2
    RAM_MAX = 2
    BOOT_PATHS = 2
    TmpNames = {"a", "b"}
    BootNames = {"", "x"}
    Mounts = {{"tmp"}, {"boot", "disk"}}
    Parts = {"rpc", "svcmgr", "wm", "tcp", "netd", "screen", "frame", "block", "vfs"}
    RpcClients = {"sockets", "portal fs", "prefs fs", "fs disk", "console", "echo", "input", "esp", "rng", "net", "greeter", "shellui", "term", "lanc", "wm tests"}
    Tables <- ThreeServices
    MaxSent <- TwoFromA
    NetMax = 2
    Drivers = {"virtio", "nvme"}
    MaxReqs = 4
    MaxAhead = 2
SPECIFICATION Spec
INVARIANTS
    
    ServicesSound
    WindowsSound
    StreamIntact
    SocketsOwned
    
    NoTornFrame
    RequestsSound
    VfsSound
CHECK_DEADLOCK FALSE

CONSTANTS
    Id = {T1, T2}
    KtimerDelays = {0, 1, 2}
    WordBits = 2
    MaxOps = 4
    Page = 4
    GrowStep = 4
    Initial = 8
    Sizes = {1, 2, 5}
    Aligns = {1, 4}
    Frames = 6
    MaxOom = 2
    None = None
    Parts = {"bsp", "ktimer", "quota", "frames", "heap"}
    BspThread = {U1}
    Delays = {1, 3}
    TICK = 2
    MIN_ARM = 1
    MaxPending = 2
    MaxNow = 8
    KtimerMaxNow = 4
    Proc = {M1, M2}
    Cpu = {K1, K2}
    Limits = {0, 1}
    QuotaOps = {"set", "exit"}
    MaxWindows = 1
    Window = 3
    Capacity = 5
    MaxSize = 20
SYMMETRY Sym
SPECIFICATION Spec
INVARIANTS
    TimersSound
    FramesSound
    HeapSound
PROPERTIES
    FailsOnlyWhenFull
CHECK_DEADLOCK FALSE

CONSTANTS
    Ta = Ta
    Tb = Tb
    Tc = Tc
    P = P
    C = C
    Pm = Pm
    Pu = Pu
    Pv = Pv
    Ch = Ch
    Ev = Ev
    Fact = Fact
    A = A
    B = B
    A1 = A1
    B1 = B1
    T1 = T1
    T2 = T2
    S1 = S1
    S2 = S2
    Job = Job
    JobSide = 0
    CHANNEL_QUEUE_MAX = 1
    MaxSent = 2
    Process = {P, C}
    ProcThread <- Few
    OwnerOf <- FewOwner
    MainOf <- FewMain
    Boot = P
    Ops = {"thread_create", "thread_exit", "exit", "spawn", "wait"}
    THREADS_MAX_PER_PROCESS = 2
    NoProc = NoProc
    AnyChannel = {Ch}
    AutoEvent = {Ev}
    AnyQueueMax = 1
    IrqProcess = {A, B}
    IrqThread <- Drivers
    IrqOwnerOf <- DriverOwner
    LastVector = 0
    Parts = {"channel", "proc", "any", "irq"}
    SpCpus = {S1}
    Roots = {R1}
    MaxSpaces = 0
    Threaded = {}
    Borrowers = {}
    ChThread <- Pair
    SideOf <- PairSides
    Jobs = {}
    AnyThread = {T1}
    ManualEvent = {Fact}
    Lists <- EventFirst
    MaxSignals = 1
    MaxIrqs = 1
    Killable = {}
SPECIFICATION FairSpec
PROPERTIES
    BlockedReleased
    WaitsReleased
CHECK_DEADLOCK FALSE

CONSTANTS
    Ta = Ta
    Tb = Tb
    Tc = Tc
    P = P
    C = C
    Pm = Pm
    Pu = Pu
    Pv = Pv
    Ch = Ch
    Ev = Ev
    Fact = Fact
    A = A
    B = B
    A1 = A1
    B1 = B1
    T1 = T1
    T2 = T2
    S1 = S1
    S2 = S2
    Job = Job
    JobSide = 0
    CHANNEL_QUEUE_MAX = 1
    MaxSent = 2
    Process = {P, C}
    ProcThread <- Few
    OwnerOf <- FewOwner
    MainOf <- FewMain
    Boot = P
    Ops = {"thread_create", "thread_exit", "exit", "spawn", "wait", "job_attach", "job_kill"}
    THREADS_MAX_PER_PROCESS = 2
    NoProc = NoProc
    AnyChannel = {Ch}
    AutoEvent = {Ev}
    AnyQueueMax = 1
    IrqProcess = {A, B}
    IrqThread <- Drivers
    IrqOwnerOf <- DriverOwner
    LastVector = 0
    Parts = {"channel", "proc", "any", "irq", "spaces"}
    SpCpus = {S1, S2}
    Roots = {R1, R2}
    MaxSpaces = 2
    Threaded = {1}
    Borrowers <- SecondOnly
    ChThread <- Three
    SideOf <- ThreeSides
    Jobs = {P}
    AnyThread = {T1, T2}
    ManualEvent = {}
    Lists <- ChannelFirst
    MaxSignals = 1
    MaxIrqs = 2
    Killable = {A}
SYMMETRY Sym
SPECIFICATION Spec
INVARIANTS
    NoLostWakeup
    StreamEnds
    ProcessEnds
    WaitsPass
    IrqKept
    SpacesSound
CHECK_DEADLOCK FALSE

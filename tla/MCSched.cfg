CONSTANTS
    main = main
    a = a
    b = b
    Thread <- Three
    Main = main
    Idle = Idle
    NoThread = NoThread
    NoCpu = NoCpu
    NCPU = 2
    QuotaThread = {main}
    QUANTUM_TICKS = 1
    Masks <- SomeMasks
    Prios = {0}
SYMMETRY Sym
SPECIFICATION SchedSpec
INVARIANTS
    Placement
    StackSafe
    JoinWaits
PROPERTIES
    DispatchAllowed

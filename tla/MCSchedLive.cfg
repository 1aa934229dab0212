CONSTANTS
    main = main
    a = a
    b = b
    Thread <- Three
    Main = main
    Idle = Idle
    NoThread = NoThread
    NoCpu = NoCpu
    NCPU = 1
    QuotaThread = {}
    QUANTUM_TICKS = 1
    Masks <- Mask0
    Prios = {0, 1}
SPECIFICATION FairSpec
PROPERTIES
    SleeperWakes
    ReadyRuns

CONSTANTS
    P1 = P1
    P2 = P2
    C1 = C1
    C2 = C2
    E1 = E1
    F1 = F1
    E2 = E2
    F2 = F2
    HtProcess <- TwoProcs
    Chan <- TwoChans
    End <- FourEnds
    ChanOf <- FourChanOf
    Collector = Collector
    NoEnd = NoEnd
    HANDLES_MAX = 4
    HtQueueMax = 1
    MaxTries = 1
    Tables <- AllAtPOnly
    MaxGen = 1
SPECIFICATION HandlesSpec
INVARIANTS
    LiveEndsOpen
CHECK_DEADLOCK FALSE

SPECIFICATION FairSpec
CONSTANTS
    c1 = c1
    c2 = c2
    t1 = t1
    t2 = t2
    Conns <- MCConns
    Stoppers <- MCStoppers
    Listener = Listener
    Stopper = Stopper
    SpinLimit = 3
INVARIANTS
    TypeOK
    LoopCloseSucceeds
    ClosedOnce
    NothingOpenAfterWalk
    ReturnsStopped
PROPERTIES
    StopReturns

SPECIFICATION FairSpec
CONSTANTS
    v1 = v1
    v2 = v2
    NoCursor = NoCursor
    NoProcess = NoProcess
    NoVideoCaller = NoVideoCaller
    NoCommand = NoCommand
    NoLaunch = NoLaunch
    c1 = c1
    c2 = c2
    t1 = t1
    t2 = t2
    t3 = t3
PROPERTIES
    EveryCallReturns
    WorkIsDecided
CHECK_DEADLOCK FALSE

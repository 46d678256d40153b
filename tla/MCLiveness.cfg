SPECIFICATION FairSpec
CONSTANTS
    b1 = b1
    k1 = k1
    High = High
    o1 = o1
    o2 = o2
    h1 = h1
    q1 = q1
    q2 = q2
    r1 = r1
    r2 = r2
PROPERTIES
    WorkIsDecided
    RetriesSucceed
CHECK_DEADLOCK FALSE

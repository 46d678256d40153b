SPECIFICATION Spec
CONSTANTS
    ts = ts
    Segments = {ts}
    TransportStream = {ts}
    Clocks = {1, 2}
    Duration <- MCDuration
    Configs <- MCConfigs
    Frames = {0, 2}
    Seed <- MCSeed
    JitterFrames = 1
    TsJitterFrames = 1
    JitterSlack = 0
    JitterCap = 2
    TsJitterCap = 3
    Fingerprints = {"f"}
    MaxSequence = 4
    MaxCount = 1
    MaxPts = 6
    NoSegment = NoSegment
    NoPlan = NoPlan
    NoTransaction = NoTransaction
    NoPts = NoPts
INVARIANTS
    TypeOK
    PlansBelongToTheSegment
    
    QueueIsServed
PROPERTIES
    PromotionMovesForward

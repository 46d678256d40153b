SPECIFICATION MCSpec
CONSTANTS
    Modes = 3
    Callers = {a, b, c}
    Kinds = {"Ensure", "Seek", "Suspend", "Stop"}
    Capacity = 1
    FaultsHappen = TRUE
    NoCursor = NoCursor
    NoProcess = NoProcess
    NoCaller = NoCaller
    NoCommand = NoCommand
    NoLaunch = NoLaunch
SYMMETRY CallerSymmetry
INVARIANTS
    TypeOK
    CurrentOperationIsLive
    WaitingCallIsInOnePlace
    RendererPlaysTheMedium
    RendererAgreesWithSession

    
CHECK_DEADLOCK FALSE

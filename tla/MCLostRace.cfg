SPECIFICATION Spec
CONSTANTS
    Modes = 3
    Callers = {a, b, c}
    Kinds = {"Configure", "Advance", "Suspend"}
    Capacity = 2
    FaultsHappen = FALSE
    NoCursor = NoCursor
    NoProcess = NoProcess
    NoCaller = NoCaller
    NoCommand = NoCommand
    NoLaunch = NoLaunch
INVARIANTS
    LostRaceReleasesNothing
CHECK_DEADLOCK FALSE

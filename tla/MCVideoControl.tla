--------------------------- MODULE MCVideoControl ---------------------------
(***************************************************************************)
(* VideoControl with the commands of one scenario at a time: those that    *)
(* start, move and stop the renderer (Kinds), those that configure,        *)
(* advance, play and stop, those that record the source and set the        *)
(* processing.  Callers are interchangeable: none is named in VideoControl.*)
(***************************************************************************)
EXTENDS VideoControl, TLC

VARIABLE scenario

Reconfiguring == INSTANCE VideoControl WITH
    Kinds <- {"Configure", "Advance", "Play", "Stop", "Complete"}

Recording == INSTANCE VideoControl WITH
    Kinds <- {"Configure", "Pause", "RecordSource", "SetProcessing"}

MCInit == Init /\ scenario \in {"Starting", "Reconfiguring", "Recording"}

MCNext ==
    /\ UNCHANGED scenario
    /\ \/ scenario = "Starting" /\ Next
       \/ scenario = "Reconfiguring" /\ Reconfiguring!Next
       \/ scenario = "Recording" /\ Recording!Next

MCSpec == MCInit /\ [][MCNext]_<<vars, scenario>>

CallerSymmetry == Permutations(Callers)
=============================================================================

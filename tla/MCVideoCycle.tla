----------------------------- MODULE MCVideoCycle -----------------------------
(* One segment of a few ticks under two clock epochs; periods of one or two   *)
(* ticks, frames of two ticks or none.                                        *)
EXTENDS VideoCycleController, TLC

CONSTANT ts

MCDuration == ts :> 6
MCConfigs ==
    {[enabled |-> TRUE,  periodMin |-> 1, periodMax |-> 2],
     [enabled |-> FALSE, periodMin |-> 2, periodMax |-> 2]}
MCSeed == [pair \in Identity \X Sequence |-> pair[1].clock + pair[2]]
=============================================================================

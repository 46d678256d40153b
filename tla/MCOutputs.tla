----------------------------- MODULE MCOutputs ------------------------------
(*****************************************************************************)
(* What sends or takes sound and picture beside the local playback, each in  *)
(* the instances that one scenario checks.                                   *)
(*****************************************************************************)
EXTENDS Naturals, Sequences, TLC

CONSTANTS b1, Low, High

Frames == Low :> 2 @@ High :> 1

VARIABLES
    scenario,   \* the instance that runs
    \* RtmpOutput
    mgr, sess, proc, sink, attached, bus, transition, op, issued, stopped,
    \* MicrophoneInterlude
    ctl, device, gate, worker, call, budget

rtmpVars == <<mgr, sess, proc, sink, attached, bus, transition, op, issued, stopped>>
microphoneVars == <<ctl, device, gate, worker, call, budget>>
vars == <<scenario, rtmpVars, microphoneVars>>

\* Two sessions of the stream, one after the other, with every fallback and one retry.
Session == INSTANCE RtmpOutput WITH
    Background <- {}, Kinds <- {"Start", "Stop"}, Attempts <- 2, MaxRetries <- 1,
    MaxSessions <- 2, MaxOps <- 4

\* Starts, stops and releases of the stream from two threads.
Stops == INSTANCE RtmpOutput WITH
    Background <- {b1}, Kinds <- {"Start", "Stop", "Release", "Backend"}, Attempts <- 1,
    MaxRetries <- 1, MaxSessions <- 2, MaxOps <- 4

\* The microphone, while the playback is paused, resumed and stopped.
Spoken == INSTANCE MicrophoneInterlude WITH
    StartFrames <- Frames, HangoverFrames <- 1, MaxSessions <- 2, MaxFaults <- 1,
    MayTimeOut <- FALSE, Configs <- {Low, High},
    MainKinds <- {"Start", "Stop", "Configure"},
    PlaybackKinds <- {"Pause", "Resume", "StopPlayback"}, MaxCalls <- 4

\* One call more, while the playback is paused and resumed: the state that is shown.
Shown == INSTANCE MicrophoneInterlude WITH
    StartFrames <- Frames, HangoverFrames <- 1, MaxSessions <- 2, MaxFaults <- 1,
    MayTimeOut <- FALSE, Configs <- {Low, High},
    MainKinds <- {"Start", "Stop", "Configure"}, PlaybackKinds <- {"Pause", "Resume"},
    MaxCalls <- 5

ASSUME SessionValues == Session!RtmpAssumption
ASSUME StopsValues == Stops!RtmpAssumption
ASSUME SpokenValues == Spoken!MicrophoneAssumption
ASSUME ShownValues == Shown!MicrophoneAssumption

\* The variables of a part that does not run.
Unused == "unused"
NoRtmp == mgr = Unused /\ sess = Unused /\ proc = Unused /\ sink = Unused /\
           attached = Unused /\ bus = Unused /\ transition = Unused /\ op = Unused /\
           issued = Unused /\ stopped = Unused
NoMicrophone == ctl = Unused /\ device = Unused /\ gate = Unused /\ worker = Unused /\
                 call = Unused /\ budget = Unused

OnlyRtmp == NoMicrophone
OnlyMicrophone == NoRtmp

Init ==
    \/ scenario = "Session" /\ Session!Init /\ OnlyRtmp
    \/ scenario = "Stops" /\ Stops!Init /\ OnlyRtmp
    \/ scenario = "Spoken" /\ Spoken!Init /\ OnlyMicrophone
    \/ scenario = "Shown" /\ Shown!Init /\ OnlyMicrophone

Next ==
    /\ UNCHANGED scenario
    /\ \/ scenario = "Session" /\ Session!Next /\ UNCHANGED <<microphoneVars>>
       \/ scenario = "Stops" /\ Stops!Next /\ UNCHANGED <<microphoneVars>>
       \/ scenario = "Spoken" /\ Spoken!Next /\ UNCHANGED <<rtmpVars>>
       \/ scenario = "Shown" /\ Shown!Next /\ UNCHANGED <<rtmpVars>>

Spec == Init /\ [][Next]_vars

-----------------------------------------------------------------------------
\* The types of the variables of every part.
TypeOK ==
    /\ scenario = "Session" => Session!TypeOK
    /\ scenario = "Stops" => Stops!TypeOK
    /\ scenario = "Spoken" => Spoken!TypeOK
    /\ scenario = "Shown" => Shown!TypeOK

\* The manager shows, feeds and runs one and the same session.
StreamIsTheSession == scenario = "Session" => Session!StreamIsTheSession

\* However starts and stops of two threads meet, what was stopped is over and what runs can
\* be stopped.
StopsAreFinal == scenario = "Stops" => Stops!StopsAreFinal

\* Device, worker, session and what is shown belong together, the medium is silent only for
\* somebody who speaks, and while no stop of the playback intervenes a microphone shown as
\* listening has a worker that listens.
MicrophoneIsHeld ==
    /\ scenario = "Spoken" => Spoken!MicrophoneIsHeld
    /\ scenario = "Shown" => Shown!MicrophoneIsHeld /\ Shown!ListeningIsAlive

\* The microphone with stops that may give up on the worker after a second.
Handle == INSTANCE MicrophoneInterlude WITH
    StartFrames <- Frames, HangoverFrames <- 1, MaxSessions <- 2, MaxFaults <- 0,
    MayTimeOut <- TRUE, Configs <- {High}, MainKinds <- {"Start", "Stop", "Configure"},
    PlaybackKinds <- {"Pause", "Resume", "StopPlayback"}, MaxCalls <- 3

HandleSpec ==
    /\ scenario = "Handle" /\ Handle!Init /\ OnlyMicrophone
    /\ [][Handle!Next /\ UNCHANGED <<scenario, rtmpVars>>]_vars

\* No worker runs whose handle and cancellation are lost, also when a stop could not join
\* it (the comment in MicrophoneInterludeController::stop).
EveryHandleIsKept == Handle!HandlesAreKept

=============================================================================

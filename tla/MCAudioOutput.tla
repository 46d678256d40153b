--------------------------- MODULE MCAudioOutput ----------------------------
(*****************************************************************************)
(* The thread of the audio output with its stream, in the instances that one *)
(* scenario checks.                                                          *)
(*****************************************************************************)
EXTENDS Naturals, Sequences, TLC

CONSTANTS c1, c2, t1, t2, t3

VARIABLES
    scenario,   \* the instance that runs
    \* AudioCycleOutput
    call, queue, out, device, timeline, tracks, slot, sent, skewed, late, wish

outputVars == <<call, queue, out, device, timeline, tracks, slot, sent, skewed, late, wish>>
vars == <<scenario, outputVars>>

\* Two tracks that are exchanged while the playback is paused and resumed.
Switching == INSTANCE AudioCycleOutput WITH
    Callers <- {c1, c2}, RingCapacity <- 3, Watermark <- 2, QueueCapacity <- 1,
    ToneFrames <- 1, TrackLength <- 3, Tracks <- {t1, t2},
    Kinds <- {"SetCurrent", "CrossfadeTo", "Pause", "Resume"}, MaxCommands <- 4

\* Two tracks that are exchanged while the output is resumed and cleared.
Clearing == INSTANCE AudioCycleOutput WITH
    Callers <- {c1, c2}, RingCapacity <- 3, Watermark <- 2, QueueCapacity <- 1,
    ToneFrames <- 1, TrackLength <- 3, Tracks <- {t1, t2},
    Kinds <- {"SetCurrent", "CrossfadeTo", "Resume", "Clear"}, MaxCommands <- 4

\* The commands of the interlude among those of one track.
Inserting == INSTANCE AudioCycleOutput WITH
    Callers <- {c1, c2}, RingCapacity <- 3, Watermark <- 2, QueueCapacity <- 1,
    ToneFrames <- 1, TrackLength <- 3, Tracks <- {t3},
    Kinds <- {"SetCurrent", "StartInterlude", "CrossfadeInterlude", "PauseInterlude",
            "ResumeInterlude", "StopInterlude", "Clear", "Stop", "Adjust"},
    MaxCommands <- 4

\* The microphone, for which the stream is opened anew.
Speaking == INSTANCE AudioCycleOutput WITH
    Callers <- {c1, c2}, RingCapacity <- 3, Watermark <- 2, QueueCapacity <- 1,
    ToneFrames <- 1, TrackLength <- 3, Tracks <- {t3},
    Kinds <- {"SetCurrent", "EnableMic", "DisableMic", "Resume", "Stop"}, MaxCommands <- 4

\* The test tone between the other commands.
Tones == INSTANCE AudioCycleOutput WITH
    Callers <- {c1, c2}, RingCapacity <- 3, Watermark <- 2, QueueCapacity <- 1,
    ToneFrames <- 1, TrackLength <- 3, Tracks <- {t3},
    Kinds <- {"SetCurrent", "CrossfadeTo", "Tone", "Pause", "Resume"}, MaxCommands <- 3

ASSUME SwitchingValues == Switching!StreamAssumption /\ Switching!OutputAssumption
                           /\ Switching!NamesAssumption
ASSUME ClearingValues == Clearing!StreamAssumption /\ Clearing!OutputAssumption
                           /\ Clearing!NamesAssumption
ASSUME InsertingValues == Inserting!StreamAssumption /\ Inserting!OutputAssumption
                           /\ Inserting!NamesAssumption
ASSUME SpeakingValues == Speaking!StreamAssumption /\ Speaking!OutputAssumption
                           /\ Speaking!NamesAssumption
ASSUME TonesValues == Tones!StreamAssumption /\ Tones!OutputAssumption
                           /\ Tones!NamesAssumption

Init ==
    \/ scenario = "Switching" /\ Switching!Init
    \/ scenario = "Clearing" /\ Clearing!Init
    \/ scenario = "Inserting" /\ Inserting!Init
    \/ scenario = "Speaking" /\ Speaking!Init
    \/ scenario = "Tones" /\ Tones!Init

Next ==
    /\ UNCHANGED scenario
    /\ \/ scenario = "Switching" /\ Switching!Next
       \/ scenario = "Clearing" /\ Clearing!Next
       \/ scenario = "Inserting" /\ Inserting!Next
       \/ scenario = "Speaking" /\ Speaking!Next
       \/ scenario = "Tones" /\ Tones!Next

Spec == Init /\ [][Next]_vars

Symmetry == Permutations({c1, c2}) \cup Permutations({t1, t2})

-----------------------------------------------------------------------------
\* The types of the variables of every part.
TypeOK ==
    /\ scenario = "Switching" => Switching!TypeOK
    /\ scenario = "Clearing" => Clearing!TypeOK
    /\ scenario = "Inserting" => Inserting!TypeOK
    /\ scenario = "Speaking" => Speaking!TypeOK
    /\ scenario = "Tones" => Tones!TypeOK

\* A caller that waits is in exactly one place of the thread, so it is answered once: no
\* handler forgets a candidate that it replaces and none answers it twice.
WaitingCallIsHeld ==
    /\ scenario = "Switching" => Switching!WaitingCallIsHeld
    /\ scenario = "Clearing" => Clearing!WaitingCallIsHeld
    /\ scenario = "Inserting" => Inserting!WaitingCallIsHeld
    /\ scenario = "Tones" => Tones!WaitingCallIsHeld

\* As long as no frame was dropped, the clock names the track that is heard and how much of
\* it: the anchor of a crossfade lies behind what the ring held, pauses and underruns do
\* not move it, and it is promoted when the fade is heard and not when it is written.
ClockNamesWhatIsHeard ==
    /\ scenario = "Switching" => Switching!ClockNamesWhatIsHeard
    /\ scenario = "Clearing" => Clearing!ClockNamesWhatIsHeard
    /\ scenario = "Speaking" => Speaking!ClockNamesWhatIsHeard
    /\ scenario = "Tones" => Tones!ClockNamesWhatIsHeard

\* The state, the clock and the hardware agree on the track, on the pause and on the input:
\* a new candidate takes the slot or leaves it, a pause ends a crossfade and holds the
\* callback, also across a test tone, and a bridge of the microphone exists with the stream
\* that feeds it.
OutputAgrees ==
    /\ scenario = "Switching" => Switching!CurrentIsTheSlot /\ Switching!PausedHasNoCandidate
    /\ scenario = "Speaking" => Speaking!PausedIsHeld /\ Speaking!BridgeHasItsStream

\* The thread with its channel, its interlude, its time-outs and its broken hardware
\* decides every exchange once, and tells the caller what it did: it implements
\* AudioOutput.
DecidesOnce ==
    /\ scenario = "Switching" => Switching!DecidesOnceStart
    /\ scenario = "Clearing" => Clearing!DecidesOnceStart
    /\ [][/\ scenario = "Switching" => Switching!DecidesOnceStep
          /\ scenario = "Clearing" => Clearing!DecidesOnceStep]_vars

=============================================================================

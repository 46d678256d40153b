--------------------------- MODULE MCAudioCycle -----------------------------
(*****************************************************************************)
(* The audio cycle and the mixer task that feeds it, each in the instances   *)
(* that one scenario checks.                                                 *)
(*****************************************************************************)
EXTENDS Naturals, Sequences, TLC

CONSTANTS c1, c2, c3, t1, t2, t3, t4

VARIABLES
    scenario,   \* the instance that runs
    \* AudioCycle
    playing, asked, answer, op, playback, task, slot, pending, token, held, output, issued,
    changes, late, faulted,
    \* AudioMixerTask
    eofBehavior, policy, cancelled, failure, decoder, child, mixerSlot, left, read, emitted,
    pitch, withheld, skipped, hand, channel, mixer, received, mixerPending, prebuffer,
    elapsed, ready, finished, taken, stopper

cycleVars == <<playing, asked, answer, op, playback, task, slot, pending, token, held,
               output, issued, changes, late, faulted>>
mixerVars == <<eofBehavior, policy, cancelled, failure, decoder, child, mixerSlot, left,
               read, emitted, pitch, withheld, skipped, hand, channel, mixer, received,
               mixerPending, prebuffer, elapsed, ready, finished, taken, stopper>>
vars == <<scenario, cycleVars, mixerVars>>

\* Candidates that are prepared, exchanged and cancelled while the playback is paused.
Candidate == INSTANCE AudioCycle WITH
    Callers <- {c1, c2}, Tracks <- {t1, t2, t3, t4}, First <- t1,
    Kinds <- {"Prepare", "Commit", "Cancel", "Pause", "Resume"}, MaxOps <- 5,
    MaxChanges <- 1, MayGiveUp <- TRUE, MayFail <- FALSE

\* Three calls at once of what the page of the cycle calls.
Page == INSTANCE AudioCycle WITH
    Callers <- {c1, c2, c3}, Tracks <- {t1, t2, t3, t4}, First <- t1,
    Kinds <- {"Prepare", "Commit", "Cancel"}, MaxOps <- 5, MaxChanges <- 1,
    MayGiveUp <- TRUE, MayFail <- FALSE

\* Exchanges while the source changes and the playback is paused.
Source == INSTANCE AudioCycle WITH
    Callers <- {c1, c2}, Tracks <- {t1, t2, t3, t4}, First <- t1,
    Kinds <- {"Prepare", "Commit", "Sync", "Pause"}, MaxOps <- 4, MaxChanges <- 1,
    MayGiveUp <- FALSE, MayFail <- TRUE

\* Candidates while the output is recovered and the playback is paused.
Recovery == INSTANCE AudioCycle WITH
    Callers <- {c1, c2}, Tracks <- {t1, t2, t3, t4}, First <- t1,
    Kinds <- {"Prepare", "Recover", "Pause"}, MaxOps <- 4, MaxChanges <- 1,
    MayGiveUp <- FALSE, MayFail <- TRUE

\* The output is switched off, on and to another backend.
Restart == INSTANCE AudioCycle WITH
    Callers <- {c1, c2}, Tracks <- {t1, t2, t3, t4}, First <- t1,
    Kinds <- {"Sync", "Resume", "Pause", "Stop", "Disable", "Backend"}, MaxOps <- 3,
    MaxChanges <- 0, MayGiveUp <- FALSE, MayFail <- TRUE

\* One mixer task, with a source of two blocks.
Mixing == INSTANCE AudioMixerTask WITH
    SourceLength <- 2, BlockLength <- 2, Capacity <- 1, Limit <- 3, MinimumReady <- 1,
    Latency <- 1, MaxRead <- 4, slot <- mixerSlot, pending <- mixerPending

ASSUME CandidateValues == Candidate!CycleAssumption
ASSUME PageValues == Page!CycleAssumption
ASSUME SourceValues == Source!CycleAssumption
ASSUME RecoveryValues == Recovery!CycleAssumption
ASSUME RestartValues == Restart!CycleAssumption
ASSUME MixingValues == Mixing!MixerAssumption

\* The variables of a part that does not run.
Unused == "unused"
NoCycle == playing = Unused /\ asked = Unused /\ answer = Unused /\ op = Unused /\
            playback = Unused /\ task = Unused /\ slot = Unused /\ pending = Unused /\
            token = Unused /\ held = Unused /\ output = Unused /\ issued = Unused /\
            changes = Unused /\ late = Unused /\ faulted = Unused
NoMixer == eofBehavior = Unused /\ policy = Unused /\ cancelled = Unused /\
            failure = Unused /\ decoder = Unused /\ child = Unused /\ mixerSlot = Unused /\
            left = Unused /\ read = Unused /\ emitted = Unused /\ pitch = Unused /\
            withheld = Unused /\ skipped = Unused /\ hand = Unused /\ channel = Unused /\
            mixer = Unused /\ received = Unused /\ mixerPending = Unused /\
            prebuffer = Unused /\ elapsed = Unused /\ ready = Unused /\ finished = Unused /\
            taken = Unused /\ stopper = Unused

OnlyCycle == NoMixer
OnlyMixer == NoCycle

Init ==
    \/ scenario = "Candidate" /\ Candidate!Init /\ OnlyCycle
    \/ scenario = "Page" /\ Page!Init /\ OnlyCycle
    \/ scenario = "Source" /\ Source!Init /\ OnlyCycle
    \/ scenario = "Recovery" /\ Recovery!Init /\ OnlyCycle
    \/ scenario = "Restart" /\ Restart!Init /\ OnlyCycle
    \/ scenario = "Mixing" /\ Mixing!Init /\ OnlyMixer

Next ==
    /\ UNCHANGED scenario
    /\ \/ scenario = "Candidate" /\ Candidate!Next /\ UNCHANGED <<mixerVars>>
       \/ scenario = "Page" /\ Page!Next /\ UNCHANGED <<mixerVars>>
       \/ scenario = "Source" /\ Source!Next /\ UNCHANGED <<mixerVars>>
       \/ scenario = "Recovery" /\ Recovery!Next /\ UNCHANGED <<mixerVars>>
       \/ scenario = "Restart" /\ Restart!Next /\ UNCHANGED <<mixerVars>>
       \/ scenario = "Mixing" /\ Mixing!Next /\ UNCHANGED <<cycleVars>>

Spec == Init /\ [][Next]_vars

Symmetry == Permutations({c1, c2}) \cup Permutations({t2, t3, t4})

-----------------------------------------------------------------------------
\* The types of the variables of every part.
TypeOK ==
    /\ scenario = "Candidate" => Candidate!TypeOK
    /\ scenario = "Page" => Page!TypeOK
    /\ scenario = "Source" => Source!TypeOK
    /\ scenario = "Recovery" => Recovery!TypeOK
    /\ scenario = "Restart" => Restart!TypeOK
    /\ scenario = "Mixing" => Mixing!TypeOK

\* Between commands the track that is heard has a task that feeds it and a clear takes away
\* what its own command played, and two tasks decode at most: a current one and one
\* candidate, of which a third one first stops the second.
HeardIsFed ==
    /\ scenario = "Candidate" => Candidate!HeardIsFed /\ Candidate!ClearTakesItsOwn
    /\ scenario = "Source" => Source!HeardIsFed /\ Source!ClearTakesItsOwn
    /\ scenario = "Recovery" => Recovery!HeardIsFed /\ Recovery!ClearTakesItsOwn
    /\ scenario = "Restart" => Restart!HeardIsFed /\ Restart!ClearTakesItsOwn
    /\ scenario = "Page" => Page!TwoTasks

\* An exchange that was under way when a pause or a stop took its token never ends in the
\* slot, also not after a resume.
NothingReturnsFromAPause ==
    [][/\ scenario = "Candidate" => Candidate!NothingReturnsFromAPauseStep
       /\ scenario = "Source" => Source!NothingReturnsFromAPauseStep
       /\ scenario = "Recovery" => Recovery!NothingReturnsFromAPauseStep
       /\ scenario = "Restart" => Restart!NothingReturnsFromAPauseStep]_vars

\* The output gets the samples of the track in order, all of them unless something is shown
\* to have gone wrong, and a stop leaves nothing behind.
TaskIsSound == scenario = "Mixing" => Mixing!TaskIsSound

=============================================================================

------------------------ MODULE MCPlaybackLiveness --------------------------
(*****************************************************************************)
(* What must happen in the playback: the threads of the renderer, of a mixer *)
(* task, of the audio output and of the commands go on, and each scenario    *)
(* says what else is assumed.                                                *)
(*****************************************************************************)
EXTENDS Naturals, Sequences, TLC

CONSTANTS v1, v2, NoCursor, NoProcess, NoVideoCaller, NoCommand, NoLaunch, c1, c2, t1, t2,
          t3

VARIABLES
    scenario,   \* the instance that runs
    \* VideoControl
    gate, guard, media, calls, channel, deferred, rt, launch, published, closing, ended,
    \* AudioMixerTask
    eofBehavior, policy, cancelled, failure, decoder, child, slot, left, read, emitted,
    pitch, withheld, skipped, hand, mixerChannel, mixer, received, pending, prebuffer,
    elapsed, ready, finished, taken, stopper,
    \* AudioCycleOutput
    call, queue, out, device, timeline, tracks, outputSlot, sent, skewed, late, wish,
    \* AudioCycle
    playing, asked, answer, op, playback, task, cycleSlot, cyclePending, token, held,
    output, issued, changes, cycleLate, faulted

videoVars == <<gate, guard, media, calls, channel, deferred, rt, launch, published, closing,
               ended>>
mixerVars == <<eofBehavior, policy, cancelled, failure, decoder, child, slot, left, read,
               emitted, pitch, withheld, skipped, hand, mixerChannel, mixer, received,
               pending, prebuffer, elapsed, ready, finished, taken, stopper>>
outputVars == <<call, queue, out, device, timeline, tracks, outputSlot, sent, skewed, late,
                wish>>
cycleVars == <<playing, asked, answer, op, playback, task, cycleSlot, cyclePending, token,
               held, output, issued, changes, cycleLate, faulted>>
vars == <<scenario, videoVars, mixerVars, outputVars, cycleVars>>

\* Two callers of the renderer, one of which may shut it down.
Calls == INSTANCE VideoControl WITH
    Modes <- 3, Callers <- {v1, v2}, Kinds <- {"Configure", "Suspend", "Stop", "Shutdown"},
    Capacity <- 1, FaultsHappen <- TRUE, NoCursor <- NoCursor, NoProcess <- NoProcess,
    NoCaller <- NoVideoCaller, NoCommand <- NoCommand, NoLaunch <- NoLaunch

\* A mixer task that is stopped, while FFmpeg may stall or everything may be full.
Stopping == INSTANCE AudioMixerTask WITH
    Capacity <- 1, Limit <- 1, MinimumReady <- 1, Latency <- 1, SourceLength <- 1,
    BlockLength <- 1, MaxRead <- 3, channel <- mixerChannel

\* A mixer task whose FFmpeg decodes, closes its output and ends.  It may read more
\* than the prebuffer, the channel, the hand and the pitch processor hold together.
Filling == INSTANCE AudioMixerTask WITH
    Capacity <- 1, Limit <- 2, MinimumReady <- 1, Latency <- 1, SourceLength <- 1,
    BlockLength <- 1, MaxRead <- 5, channel <- mixerChannel

\* The output, whose hardware calls back as long as the stream runs.
Life == INSTANCE AudioCycleOutput WITH
    Callers <- {c1}, Tracks <- {t1, t2},
    Kinds <- {"SetCurrent", "CrossfadeTo", "Resume", "Pause", "Stop"}, RingCapacity <- 3,
    Watermark <- 2, QueueCapacity <- 1, ToneFrames <- 1, TrackLength <- 2, MaxCommands <- 3,
    slot <- outputSlot

\* The commands of the audio cycle, whose output decides what it is asked.
Commands == INSTANCE AudioCycle WITH
    Callers <- {c1, c2}, Tracks <- {t1, t2, t3}, First <- t1,
    Kinds <- {"Prepare", "Commit", "Sync", "Recover", "Pause", "Resume"}, MaxOps <- 2,
    MaxChanges <- 0, MayGiveUp <- FALSE, MayFail <- TRUE, slot <- cycleSlot,
    pending <- cyclePending, late <- cycleLate

ASSUME StoppingValues == Stopping!MixerAssumption
ASSUME FillingValues == Filling!MixerAssumption
ASSUME LifeValues == Life!StreamAssumption /\ Life!OutputAssumption /\ Life!NamesAssumption
ASSUME CommandsValues == Commands!CycleAssumption

\* The variables of a part that does not run.
Unused == "unused"
NoVideo == gate = Unused /\ guard = Unused /\ media = Unused /\ calls = Unused /\
            channel = Unused /\ deferred = Unused /\ rt = Unused /\ launch = Unused /\
            published = Unused /\ closing = Unused /\ ended = Unused
NoMixer == eofBehavior = Unused /\ policy = Unused /\ cancelled = Unused /\
            failure = Unused /\ decoder = Unused /\ child = Unused /\ slot = Unused /\
            left = Unused /\ read = Unused /\ emitted = Unused /\ pitch = Unused /\
            withheld = Unused /\ skipped = Unused /\ hand = Unused /\
            mixerChannel = Unused /\ mixer = Unused /\ received = Unused /\
            pending = Unused /\ prebuffer = Unused /\ elapsed = Unused /\ ready = Unused /\
            finished = Unused /\ taken = Unused /\ stopper = Unused
NoOutput == call = Unused /\ queue = Unused /\ out = Unused /\ device = Unused /\
             timeline = Unused /\ tracks = Unused /\ outputSlot = Unused /\ sent = Unused /\
             skewed = Unused /\ late = Unused /\ wish = Unused
NoCycle == playing = Unused /\ asked = Unused /\ answer = Unused /\ op = Unused /\
            playback = Unused /\ task = Unused /\ cycleSlot = Unused /\
            cyclePending = Unused /\ token = Unused /\ held = Unused /\ output = Unused /\
            issued = Unused /\ changes = Unused /\ cycleLate = Unused /\ faulted = Unused

OnlyVideo == NoMixer /\ NoOutput /\ NoCycle
OnlyMixer == NoVideo /\ NoOutput /\ NoCycle
OnlyOutput == NoVideo /\ NoMixer /\ NoCycle
OnlyCycle == NoVideo /\ NoMixer /\ NoOutput

Init ==
    \/ scenario = "Calls" /\ Calls!Init /\ OnlyVideo
    \/ scenario = "Stopping" /\ Stopping!Init /\ OnlyMixer
    \/ scenario = "Filling" /\ Filling!Init /\ OnlyMixer
    \/ scenario = "Life" /\ Life!Init /\ OnlyOutput
    \/ scenario = "Commands" /\ Commands!Init /\ OnlyCycle

Next ==
    /\ UNCHANGED scenario
    /\ \/ scenario = "Calls" /\ Calls!Next /\ UNCHANGED <<mixerVars, outputVars, cycleVars>>
       \/ scenario = "Stopping" /\ Stopping!Next /\ UNCHANGED <<videoVars, outputVars, cycleVars>>
       \/ scenario = "Filling" /\ Filling!Next /\ UNCHANGED <<videoVars, outputVars, cycleVars>>
       \/ scenario = "Life" /\ Life!Next /\ UNCHANGED <<videoVars, mixerVars, cycleVars>>
       \/ scenario = "Commands" /\ Commands!Next /\ UNCHANGED <<videoVars, mixerVars, outputVars>>

Spec == Init /\ [][Next]_vars

\* The callers and the actor go on, and deadlines pass.
CallsGoOn ==
    /\ \A k \in {v1, v2} : WF_videoVars(scenario = "Calls" /\ Calls!CallerStep(k))
    /\ \A k \in {v1, v2} : WF_videoVars(scenario = "Calls" /\ Calls!TimeOut(k))
    /\ WF_videoVars(scenario = "Calls" /\ Calls!ActorStep)

\* The decoder, the mixer and a stop go on.
MixerGoesOn ==
    /\ WF_mixerVars(\/ scenario = "Stopping" /\ Stopping!Decoder
                    \/ scenario = "Filling" /\ Filling!Decoder)
    /\ WF_mixerVars(\/ scenario = "Stopping" /\ Stopping!Mixer
                    \/ scenario = "Filling" /\ Filling!Mixer)
    /\ WF_mixerVars(scenario = "Stopping" /\ (Stopping!StopTerminates \/ Stopping!StopJoins))

\* A process that closed its output ends; in Filling it also gets there.
ProcessEnds ==
    /\ WF_mixerVars(\/ scenario = "Stopping" /\ child = "Closed" /\ Stopping!ChildExits
                    \/ scenario = "Filling" /\ child = "Closed" /\ Filling!ChildExits)
    /\ WF_mixerVars(scenario = "Filling" /\ Filling!ChildCloses)

\* The thread of the output and its owner go on, the hardware calls back.
OutputGoesOn ==
    /\ WF_outputVars(scenario = "Life" /\ Life!Thread)
    /\ WF_outputVars(scenario = "Life" /\ (Life!Settle(c1) \/ Life!Joined(c1)))
    /\ WF_outputVars(scenario = "Life" /\ Life!Running(device) /\ Life!Callback)

\* The threads of the commands go on, the output decides what it is asked.
CommandsGoOn ==
    /\ \A p \in {c1, c2} : WF_cycleVars(scenario = "Commands" /\ Commands!Step(p))
    /\ WF_cycleVars(scenario = "Commands" /\ (Commands!OutputPlays \/ Commands!OutputRefuses))

FairSpec == Spec /\ CallsGoOn /\ MixerGoesOn /\ ProcessEnds /\ OutputGoesOn /\ CommandsGoOn

StopWaits ==
    \/ scenario = "Stopping" /\ stopper = "Terminate"
    \/ scenario = "Life" /\ call[c1].at = "Joining"
StopIsDone ==
    \/ scenario = "Stopping" /\ stopper = "Done"
    \/ scenario = "Life" /\ call[c1].at # "Joining"

WorkWaits ==
    \/ scenario = "Filling" /\ ~ready
    \/ scenario = "Life" /\ out.switch # Life!NoEntry
    \/ scenario = "Commands" /\ ~Commands!At(c1, "Idle")
WorkIsDone ==
    \/ scenario = "Filling" /\ (ready \/ failure # "None" \/ cancelled)
    \/ scenario = "Life" /\ out.switch = Life!NoEntry
    \/ scenario = "Commands" /\ Commands!At(c1, "Idle")

-----------------------------------------------------------------------------
\* What was begun is decided: a candidate becomes ready, fails or is cancelled, however
\* small the source and however late the clock; a candidate of the output is committed,
\* refused or cancelled; a command of the cycle returns.
WorkIsDecided == WorkWaits ~> WorkIsDone

\* Every call of the renderer returns, although a stop waits for room in the channel with
\* the gate locked, a deferred command may wait for a frame that never comes, and a
\* shutdown waits for an actor that may be starting mpv.  So does a stop: stop_inner of a
\* task, whatever FFmpeg and the channel are doing, and shutdown of the output, which joins
\* the thread without a deadline.
EveryCallReturns ==
    /\ (scenario = "Calls" /\ calls[v1].pc \in Calls!Working) ~> (scenario = "Calls" /\ calls[v1].pc \in Calls!Returned)
    /\ StopWaits ~> StopIsDone

=============================================================================

------------------------- MODULE MicrophoneInterlude -------------------------
(***************************************************************************)
(* The microphone insert of the desktop: the controller with its lock, the *)
(* worker thread that turns input frames into speech, the bridge to the    *)
(* one PortAudio thread and the gate that silences the medium while the    *)
(* user speaks (microphone_interlude.rs, the commands of commands.rs, the  *)
(* bridge of audio_cycle_output.rs and MicrophoneGate of the native crate).*)
(*                                                                         *)
(* Two callers share the controller: the main thread of the user interface *)
(* (start, stop, configure) and the playback commands, which run on        *)
(* threads of their own (pause, resume, stop of the playback).  A worker,  *)
(* its session and its bridge have one number.  A frame is speech or not;  *)
(* whether the device stalls, overflows or breaks is a fault, which the    *)
(* worker looks for only while it is not paused.                           *)
(***************************************************************************)
EXTENDS Naturals, FiniteSets

CONSTANTS
    Configs,        \* the configurations the user chooses from
    StartFrames,    \* frames of speech a configuration asks for before it speaks
    HangoverFrames, \* frames of silence that are still played
    MainKinds,      \* the calls of the main thread
    PlaybackKinds,  \* the calls of the playback commands
    MaxCalls,       \* bound: calls begun
    MaxSessions,    \* bound: bridges opened
    MaxFaults,      \* bound: failures of the device or the signal processing
    MayTimeOut      \* whether a worker may outlast the budget of a join

Sessions == 1 .. MaxSessions
Kinds    == {"Start", "Stop", "Configure", "Pause", "Resume", "StopPlayback"}
Threads  == {"Main", "Playback"}

MicrophoneAssumption ==
    /\ Configs # {} /\ StartFrames \in [Configs -> Nat \ {0}]
    /\ HangoverFrames \in Nat /\ MaxCalls \in Nat /\ MaxSessions \in Nat /\ MaxFaults \in Nat
    /\ MainKinds \subseteq Kinds /\ PlaybackKinds \subseteq Kinds /\ MayTimeOut \in BOOLEAN

VARIABLES
    ctl,       \* the controller: what its lock protects
    device,    \* the PortAudio thread: the bridge it owns and those still available
    gate,      \* the atomic flags the audio callback reads
    worker,    \* the worker of each session
    call,      \* the call each thread has under way
    budget     \* calls begun, sessions opened and faults met so far

vars == <<ctl, device, gate, worker, call, budget>>

Listening == {"Opening", "Armed", "Speaking", "Hangover"}
States    == Listening \cup {"Disabled", "Stopping", "Failed"}
Alive     == {"Init", "Top", "Frame", "Notice", "Commit", "Exit", "Last"}
Idle      == [pc |-> "Idle", kind |-> "Stop", session |-> 0, config |-> CHOOSE c \in Configs : TRUE]
NoWorker  == [pc |-> "None", cancelled |-> FALSE, speaking |-> FALSE, streak |-> 0, left |-> 0,
              speech |-> FALSE]

TypeOK ==
    /\ ctl \in [state : States, config : Configs, paused : BOOLEAN, muted : BOOLEAN,
                session : 0 .. MaxSessions]
    /\ device \in [bridge : 0 .. MaxSessions, available : SUBSET Sessions]
    /\ gate \in [enabled : BOOLEAN, speaking : BOOLEAN]
    /\ worker \in [Sessions -> [pc : Alive \cup {"None", "Gone"}, cancelled : BOOLEAN,
                                speaking : BOOLEAN, streak : 0 .. 4, left : 0 .. HangoverFrames,
                                speech : BOOLEAN]]
    /\ call \in [Threads -> [pc : {"Idle", "Enable", "Begin", "Undo", "Disable", "Take", "Cancel",
                                   "Join", "Settle", "Clear", "Quiet"},
                             kind : Kinds, session : 0 .. MaxSessions, config : Configs]]
    /\ budget \in [calls : 0 .. MaxCalls, opened : 0 .. MaxSessions, faults : 0 .. MaxFaults]

Init ==
    /\ ctl \in [state : {"Disabled"}, config : Configs, paused : {FALSE}, muted : {FALSE},
                session : {0}]
    /\ device = [bridge |-> 0, available |-> {}]
    /\ gate = [enabled |-> FALSE, speaking |-> FALSE]
    /\ worker = [s \in Sessions |-> NoWorker]
    /\ call = [t \in Threads |-> Idle]
    /\ budget = [calls |-> 0, opened |-> 0, faults |-> 0]

-----------------------------------------------------------------------------
(* The gate and the bridge.  The flags belong to the output and outlive a   *)
(* bridge: whoever still holds an old bridge moves the gate of the new one. *)

\* Faulty variant of GateOff: the second flag is kept for the next session.
GateOffHalf     == [gate EXCEPT !.enabled = FALSE]
GateOff         == [enabled |-> FALSE, speaking |-> FALSE]
GateOn          == [gate EXCEPT !.enabled = TRUE]
GateSpeaking(b) == [gate EXCEPT !.speaking = gate.enabled /\ b]

\* The medium is silent: the callback sees both flags.
MediaSilenced == gate.enabled /\ gate.speaking

Faulty == budget.faults < MaxFaults
Blamed == budget' = [budget EXCEPT !.faults = @ + 1]

Goes(s, pc)  == worker' = [worker EXCEPT ![s].pc = pc]
Calls(t, pc) == call' = [call EXCEPT ![t].pc = pc]
Returns(t)   == call' = [call EXCEPT ![t] = Idle]

\* fail_worker: the failure is shown, the bridge is given up and the gate opened.
Fails(s) ==
    /\ ctl' = [ctl EXCEPT !.state = "Failed", !.muted = FALSE]
    /\ device' = [device EXCEPT !.available = @ \ {s}]
    /\ gate' = GateOff

-----------------------------------------------------------------------------
(* The worker.                                                             *)

\* The signal processing is set up; a stop that came first keeps its state.
WorkerStarts(s) ==
    /\ worker[s].pc = "Init"
    /\ ctl' = IF ctl.state = "Stopping" THEN ctl
              ELSE [ctl EXCEPT !.state = IF ctl.paused THEN "Disabled" ELSE "Armed"]
    /\ Goes(s, "Top")
    /\ UNCHANGED <<device, gate, call, budget>>

WorkerCannotStart(s) ==
    /\ worker[s].pc = "Init" /\ Faulty /\ Blamed
    /\ Fails(s)
    /\ Goes(s, "Gone")
    /\ UNCHANGED call

\* Faulty variant of WorkerIsCancelled: the worker goes by the state that is shown.
WorkerReadsState(s) ==
    /\ worker[s].pc = "Top" /\ worker[s].cancelled /\ ctl.state = "Stopping"
    /\ Goes(s, "Exit")
    /\ UNCHANGED <<ctl, device, gate, call, budget>>

WorkerIsCancelled(s) ==
    /\ worker[s].pc = "Top" /\ worker[s].cancelled
    /\ Goes(s, "Exit")
    /\ UNCHANGED <<ctl, device, gate, call, budget>>

WorkerLosesBridge(s) ==
    /\ worker[s].pc = "Top" /\ ~worker[s].cancelled /\ s \notin device.available
    /\ Fails(s)
    /\ Goes(s, "Exit")
    /\ UNCHANGED <<call, budget>>

\* Faulty variant of WorkerPauses: it waits without opening the gate.
WorkerPausesSilently(s) ==
    /\ worker[s].pc = "Top" /\ ~worker[s].cancelled /\ s \in device.available /\ ctl.paused
    /\ worker' = [worker EXCEPT ![s].speaking = FALSE, ![s].streak = 0, ![s].left = 0]
    /\ UNCHANGED <<ctl, device, gate, call, budget>>

\* A paused worker forgets what it heard and opens the gate.
WorkerPauses(s) ==
    /\ worker[s].pc = "Top" /\ ~worker[s].cancelled /\ s \in device.available /\ ctl.paused
    /\ worker' = [worker EXCEPT ![s].speaking = FALSE, ![s].streak = 0, ![s].left = 0]
    /\ gate' = GateSpeaking(FALSE)
    /\ UNCHANGED <<ctl, device, call, budget>>

WorkerListens(s) == worker[s].pc = "Top" /\ ~worker[s].cancelled
                    /\ s \in device.available /\ ~ctl.paused

\* The input overflows, the reference is dropped, the callback stalls or a read fails.
WorkerFindsFault(s) ==
    /\ WorkerListens(s) /\ Faulty /\ Blamed
    /\ Fails(s)
    /\ Goes(s, "Exit")
    /\ UNCHANGED call

\* A whole frame of input and of reference is there, and it is speech or not.
WorkerReads(s) ==
    /\ WorkerListens(s)
    /\ \E speech \in BOOLEAN :
          worker' = [worker EXCEPT ![s].pc = "Frame", ![s].speech = speech]
    /\ UNCHANGED <<ctl, device, gate, call, budget>>

\* Faulty variant of Heard: the hangover is counted below zero.
HeardTooLong(w, speech) ==
    IF w.speaking
    THEN IF speech THEN [w EXCEPT !.left = HangoverFrames] ELSE [w EXCEPT !.left = @ - 1]
    ELSE IF ~speech THEN [w EXCEPT !.streak = 0]
    ELSE IF w.streak + 1 >= StartFrames[ctl.config]
         THEN [w EXCEPT !.speaking = TRUE, !.streak = 0, !.left = HangoverFrames]
         ELSE [w EXCEPT !.streak = @ + 1]

\* What the detection makes of a frame: it begins to speak after enough frames of
\* speech and ends when the silence has outlasted the hangover.
Heard(w, speech) ==
    IF w.speaking
    THEN IF speech THEN [w EXCEPT !.left = HangoverFrames]
         ELSE IF w.left > 0 THEN [w EXCEPT !.left = @ - 1]
         ELSE [w EXCEPT !.speaking = FALSE]
    ELSE IF ~speech THEN [w EXCEPT !.streak = 0]
    ELSE IF w.streak + 1 >= StartFrames[ctl.config]
         THEN [w EXCEPT !.speaking = TRUE, !.streak = 0, !.left = HangoverFrames]
         ELSE [w EXCEPT !.streak = @ + 1]

\* The gate follows the detection before anybody is told.
WorkerDecides(s) ==
    /\ worker[s].pc = "Frame"
    /\ LET w == Heard(worker[s], worker[s].speech) IN
          /\ worker' = [worker EXCEPT ![s] =
                          [w EXCEPT !.pc = IF w.speaking /\ ~worker[s].speaking THEN "Notice"
                                           ELSE "Commit"]]
          /\ gate' = GateSpeaking(w.speaking)
    /\ UNCHANGED <<ctl, device, call, budget>>

\* on_speaking_start: the file insert and the fixed speech are stopped and joined,
\* which takes as long as their threads take.
WorkerNotifies(s) ==
    /\ worker[s].pc = "Notice"
    /\ Goes(s, "Commit")
    /\ UNCHANGED <<ctl, device, gate, call, budget>>

\* The callback panics, or the clean signal can not be written.
WorkerBreaks(s) ==
    /\ worker[s].pc \in {"Notice", "Commit"} /\ Faulty /\ Blamed
    /\ worker[s].pc = "Commit" => worker[s].speaking
    /\ Fails(s)
    /\ Goes(s, "Exit")
    /\ UNCHANGED call

\* refresh_worker_status: what the frame was is shown, whatever the state was before,
\* unless the session is paused.
WorkerShows(s) ==
    /\ worker[s].pc = "Commit"
    /\ LET w == worker[s] IN
          ctl' = IF ctl.paused THEN [ctl EXCEPT !.state = "Disabled", !.muted = FALSE]
                 ELSE [ctl EXCEPT !.muted = w.speaking,
                                  !.state = IF ~w.speaking THEN "Armed"
                                            ELSE IF w.speech \/ w.left = 0 THEN "Speaking"
                                            ELSE "Hangover"]
    /\ Goes(s, "Top")
    /\ UNCHANGED <<device, gate, call, budget>>

WorkerOpensGate(s) ==
    /\ worker[s].pc = "Exit"
    /\ gate' = GateOff
    /\ Goes(s, "Last")
    /\ UNCHANGED <<ctl, device, call, budget>>

WorkerEnds(s) ==
    /\ worker[s].pc = "Last"
    /\ ctl' = IF ctl.state = "Failed" THEN ctl
              ELSE [ctl EXCEPT !.state = "Disabled", !.muted = FALSE]
    /\ Goes(s, "Gone")
    /\ UNCHANGED <<device, gate, call, budget>>

\* What the worker does of itself, and what a frame or a fault makes it do.
WorkerSteps(s) ==
    \/ WorkerStarts(s) \/ WorkerIsCancelled(s) \/ WorkerLosesBridge(s) \/ WorkerPauses(s)
    \/ WorkerDecides(s) \/ WorkerNotifies(s) \/ WorkerShows(s) \/ WorkerOpensGate(s)
    \/ WorkerEnds(s)

WorkerMeets(s) ==
    \/ WorkerReads(s) \/ WorkerCannotStart(s) \/ WorkerFindsFault(s) \/ WorkerBreaks(s)

\* The PortAudio thread takes back a bridge its worker has given up.
DeviceRecovers ==
    /\ device.bridge # 0 /\ device.bridge \notin device.available
    /\ device' = [device EXCEPT !.bridge = 0]
    /\ gate' = GateOff
    /\ UNCHANGED <<ctl, worker, call, budget>>

-----------------------------------------------------------------------------
(* The calls.                                                              *)

May(t, kind) ==
    /\ call[t].pc = "Idle" /\ budget.calls < MaxCalls
    /\ kind \in IF t = "Main" THEN MainKinds ELSE PlaybackKinds
    /\ budget' = [budget EXCEPT !.calls = @ + 1]

Begins(t, kind, pc, s, c) ==
    /\ May(t, kind)
    /\ call' = [call EXCEPT ![t] = [pc |-> pc, kind |-> kind, session |-> s, config |-> c]]

\* The session works: an equal start returns without doing anything.
ActiveFor(c) ==
    /\ ctl.session # 0 /\ ctl.state # "Failed" /\ ctl.config = c
    /\ worker[ctl.session].pc # "Gone" /\ ctl.session \in device.available

\* start_microphone_interlude: a session that is there, working or not, refuses it.
StartChecks(t, c) ==
    /\ ~ActiveFor(c) /\ ctl.session = 0
    /\ Begins(t, "Start", "Enable", 0, c)
    /\ UNCHANGED <<ctl, device, gate, worker>>

\* EnableMicrophone: the output is reopened with an input, its gate off.
StartEnables(t) ==
    /\ call[t].pc = "Enable" /\ device.bridge = 0 /\ budget.opened < MaxSessions
    /\ LET s == budget.opened + 1 IN
          /\ device' = [bridge |-> s, available |-> device.available \cup {s}]
          /\ call' = [call EXCEPT ![t].pc = "Begin", ![t].session = s]
    /\ gate' = GateOff
    /\ budget' = [budget EXCEPT !.opened = @ + 1]
    /\ UNCHANGED <<ctl, worker>>

StartCannotEnable(t) ==
    /\ call[t].pc = "Enable"
    /\ \/ device.bridge # 0 /\ UNCHANGED budget
       \/ device.bridge = 0 /\ Faulty /\ Blamed
    /\ Returns(t)
    /\ UNCHANGED <<ctl, device, gate, worker>>

\* start_with_bridge: under the lock the gate is enabled and the worker spawned.
StartBegins(t) ==
    /\ call[t].pc = "Begin" /\ ctl.session = 0
    /\ LET s == call[t].session IN
          /\ ctl' = [ctl EXCEPT !.config = call[t].config, !.state = "Armed", !.muted = FALSE,
                                !.session = s]
          /\ worker' = [worker EXCEPT ![s] = [NoWorker EXCEPT !.pc = "Init"]]
    /\ gate' = GateOn
    /\ Returns(t)
    /\ UNCHANGED <<device, budget>>

\* The device has the wrong channels or no thread can be spawned.
StartCannotBegin(t) ==
    /\ call[t].pc = "Begin"
    /\ \/ ctl.session # 0 /\ UNCHANGED <<ctl, budget>>
       \/ /\ ctl.session = 0 /\ Faulty /\ Blamed
          /\ ctl' = [ctl EXCEPT !.state = "Failed", !.muted = FALSE]
    /\ Calls(t, "Undo")
    /\ UNCHANGED <<device, gate, worker>>

\* DisableMicrophone: the output is reopened without the input.
Disabled == /\ device' = [bridge |-> 0, available |-> device.available \ {device.bridge}]
            /\ gate' = IF device.bridge # 0 THEN GateOff ELSE gate

\* Faulty variant of StartUndoes: the input stays open.
StartForgets(t) ==
    /\ call[t].pc = "Undo"
    /\ Returns(t)
    /\ UNCHANGED <<ctl, device, gate, worker, budget>>

StartUndoes(t) ==
    /\ call[t].pc = "Undo"
    /\ Disabled
    /\ Returns(t)
    /\ UNCHANGED <<ctl, worker, budget>>

\* stop_microphone_interlude: the output first, the worker after it.
StopLooks(t) ==
    /\ \E k \in {"Stop", "StopPlayback"} :
          Begins(t, k, IF ctl.session # 0 THEN "Disable" ELSE "Take", 0, ctl.config)
    /\ UNCHANGED <<ctl, device, gate, worker>>

StopDisables(t) ==
    /\ call[t].pc = "Disable"
    /\ Disabled
    /\ Calls(t, "Take")
    /\ UNCHANGED <<ctl, worker, budget>>

StopTakes(t) ==
    /\ call[t].pc = "Take"
    /\ ctl' = [ctl EXCEPT !.state = "Stopping", !.muted = FALSE, !.paused = FALSE, !.session = 0]
    /\ call' = [call EXCEPT ![t].pc = IF ctl.session # 0 THEN "Cancel" ELSE "Settle",
                            ![t].session = ctl.session]
    /\ UNCHANGED <<device, gate, worker, budget>>

StopCancels(t) ==
    /\ call[t].pc = "Cancel"
    /\ gate' = GateOff
    /\ worker' = [worker EXCEPT ![call[t].session].cancelled = TRUE]
    /\ Calls(t, "Join")
    /\ UNCHANGED <<ctl, device, budget>>

\* Faulty variant of StopJoins: nobody waits for the worker.
StopDetaches(t) ==
    /\ call[t].pc = "Join"
    /\ call' = [call EXCEPT ![t].pc = "Settle", ![t].session = 0]
    /\ UNCHANGED <<ctl, device, gate, worker, budget>>

StopJoins(t) ==
    /\ call[t].pc = "Join" /\ worker[call[t].session].pc = "Gone"
    /\ call' = [call EXCEPT ![t].pc = "Settle", ![t].session = 0]
    /\ UNCHANGED <<ctl, device, gate, worker, budget>>

\* The worker has not ended within a second: its session is put back.
StopTimesOut(t) ==
    /\ MayTimeOut
    /\ call[t].pc = "Join" /\ worker[call[t].session].pc \in Alive
    /\ ctl' = [ctl EXCEPT !.session = call[t].session, !.state = "Failed", !.muted = FALSE]
    /\ Returns(t)
    /\ UNCHANGED <<device, gate, worker, budget>>

StopSettles(t) ==
    /\ call[t].pc = "Settle"
    /\ ctl' = [ctl EXCEPT !.state = "Disabled", !.muted = FALSE]
    /\ IF call[t].kind = "StopPlayback" THEN Calls(t, "Clear") ELSE Returns(t)
    /\ UNCHANGED <<device, gate, worker, budget>>

\* stop_audio_for_playback goes on to clear the output, which revokes a bridge.
StopClears(t) ==
    /\ call[t].pc = "Clear"
    /\ Disabled
    /\ Returns(t)
    /\ UNCHANGED <<ctl, worker, budget>>

\* pause: the state first; the gate is opened after the lock is released.
Pauses(t) ==
    /\ Begins(t, "Pause", "Quiet", IF ctl.state \in Listening THEN ctl.session ELSE 0,
              ctl.config)
    /\ ctl' = IF ctl.state \in Listening
              THEN [ctl EXCEPT !.state = "Disabled", !.muted = FALSE, !.paused = TRUE] ELSE ctl
    /\ UNCHANGED <<device, gate, worker>>

PauseQuiets(t) ==
    /\ call[t].pc = "Quiet"
    /\ gate' = IF call[t].session # 0 THEN GateSpeaking(FALSE) ELSE gate
    /\ Returns(t)
    /\ UNCHANGED <<ctl, device, worker, budget>>

\* Faulty variant of Resumes: a session that has gone is resumed as well.
ResumesAnything(t) ==
    /\ May(t, "Resume")
    /\ ctl.state = "Disabled"
    /\ ctl' = [ctl EXCEPT !.paused = FALSE, !.state = "Armed"]
    /\ UNCHANGED <<device, gate, worker, call>>

Resumes(t) ==
    /\ May(t, "Resume")
    /\ ctl.state = "Disabled" /\ ctl.session # 0
    /\ ctl' = [ctl EXCEPT !.paused = FALSE, !.state = "Armed"]
    /\ UNCHANGED <<device, gate, worker, call>>

\* Faulty variant of Configures: saving a configuration clears a failure.
ConfigureClears(t, c) ==
    /\ May(t, "Configure")
    /\ ctl.session # 0 => ctl.config = c
    /\ ctl' = [ctl EXCEPT !.config = c, !.state = IF @ = "Failed" THEN "Disabled" ELSE @]
    /\ UNCHANGED <<device, gate, worker, call>>

\* configure: a session keeps its configuration, and its failure until it is stopped.
Configures(t, c) ==
    /\ May(t, "Configure")
    /\ ctl.session # 0 => ctl.config = c /\ ctl.state # "Failed"
    /\ ctl' = [ctl EXCEPT !.config = c, !.state = IF @ = "Failed" THEN "Disabled" ELSE @]
    /\ UNCHANGED <<device, gate, worker, call>>

CallBegins(t) ==
    \/ \E c \in Configs : StartChecks(t, c) \/ Configures(t, c)
    \/ StopLooks(t) \/ Pauses(t) \/ Resumes(t)

CallProceeds(t) ==
    \/ StartEnables(t) \/ StartCannotEnable(t) \/ StartBegins(t) \/ StartCannotBegin(t)
    \/ StartUndoes(t) \/ StopDisables(t) \/ StopTakes(t) \/ StopCancels(t) \/ StopJoins(t)
    \/ StopTimesOut(t) \/ StopSettles(t) \/ StopClears(t) \/ PauseQuiets(t)

Next ==
    \/ \E s \in Sessions : WorkerSteps(s) \/ WorkerMeets(s)
    \/ \E t \in Threads : CallBegins(t) \/ CallProceeds(t)
    \/ DeviceRecovers

Spec == Init /\ [][Next]_vars

\* Threads that can go on do so; that a worker which tells others of the speech goes on
\* assumes that the threads it joins end.  Nobody has to speak, to call or to fail.
FairSpec ==
    /\ Spec
    /\ \A s \in Sessions : WF_vars(WorkerSteps(s))
    /\ \A t \in Threads : WF_vars(CallProceeds(t))
    /\ WF_vars(DeviceRecovers)

-----------------------------------------------------------------------------
(* Properties.                                                             *)

Quiet == \A t \in Threads : call[t].pc = "Idle"

\* A microphone that fails, is paused or is stopped must not leave the medium silent
\* (mark_unavailable and fail_worker fail open), nor what an earlier session left in the
\* flags: while the gate silences it, a worker that hears speech is there to open it.
SilenceHasItsWorker ==
    MediaSilenced => \E s \in Sessions : worker[s].pc \in Alive \ {"Last"} /\ worker[s].speaking

\* Between calls an input stream that is open has a session that stops it; nobody could
\* start another one over it ("microphone already enabled").
InputHasItsSession == Quiet /\ device.bridge # 0 => device.bridge = ctl.session

\* A worker that runs can be reached: its handle is in the controller or in the hands of
\* the stop that took it ("a timeout may not drop the JoinHandle", stop).
HandlesAreKept ==
    \A s \in Sessions : worker[s].pc \in Alive =>
        \/ ctl.session = s
        \/ \E t \in Threads : call[t].pc \in {"Cancel", "Join"} /\ call[t].session = s

\* Between calls a microphone shown as listening has a worker that listens.  It holds only
\* as long as no stop of the playback overtakes the failure of a worker.
ListeningIsAlive ==
    Quiet /\ ctl.state \in Listening => ctl.session # 0 /\ worker[ctl.session].pc # "Gone"

\* Device, worker, session and what is shown belong together, and the medium is
\* silent only for somebody who speaks.
MicrophoneIsHeld ==
    InputHasItsSession /\ HandlesAreKept /\ SilenceHasItsWorker

\* configure: a failed session that still owns its worker or its device stays shown as
\* failed until it is stopped, because the user interface offers the stop by that state.
FailedStaysStep ==
    ctl.state = "Failed" /\ ctl.session # 0 =>
        ctl'.state = "Failed" \/ (ctl'.state = "Stopping" /\ ctl'.session = 0)
FailedStays == [][FailedStaysStep]_vars

\* pause may meet a frame that has passed the check for it: the gate opens all the same.
PausedIsAudible == ctl.paused ~> (~MediaSilenced \/ ~ctl.paused)

\* A worker that is cancelled ends, paused, speaking or without a device.
CancelledEnds == \A s \in Sessions : worker[s].cancelled ~> worker[s].pc = "Gone"

=============================================================================

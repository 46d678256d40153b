----------------------------- MODULE AudioCycle -----------------------------
(***************************************************************************)
(* The owner of the audio tracks in commands.rs: one decoder task in the   *)
(* slot, at most one that is pending, and the commands that exchange them. *)
(* Each command runs on a thread of its own.  They meet in the operation   *)
(* token, in the flags of a commit, a recovery and a reconfiguration, in   *)
(* the locks of a preparation and of a playback transition, and in the     *)
(* output, which is the abstract one of AudioOutput.                       *)
(*                                                                         *)
(* A section under audio_mixer_switch_lock or the lock of the pending      *)
(* candidate is one step.  Positions, clocks and coverage are left out: a  *)
(* candidate that is not due, not ready or not caught up is a choice.      *)
(* Parameters, source and generation of the playback are one revision.     *)
(***************************************************************************)
EXTENDS AudioOutput, Integers, FiniteSets

CONSTANTS
    Kinds,      \* the commands that are issued
    First,      \* the track that plays at the beginning
    MaxOps,     \* bound: commands issued
    MaxChanges, \* bound: changes of the parameters by the user
    MayGiveUp,  \* whether the output may be slower than its callers wait
    MayFail     \* whether a decoder task, the output or the device may fail

AllKinds == {"Prepare", "Commit", "Cancel", "Sync", "Recover", "Pause", "Resume", "Stop",
             "Disable", "Backend"}

CycleAssumption ==
    /\ Kinds \subseteq AllKinds
    /\ First \in Tracks
    /\ {MaxOps, MaxChanges} \subseteq Nat
    /\ {MayGiveUp, MayFail} \subseteq BOOLEAN

Nobody == "Nobody"
NoPending == [track |-> NoTrack, token |-> 0, kind |-> "None"]
NoOp == [kind |-> "None", pc |-> "Idle", mode |-> "Crossfade", token |-> 0, instance |-> 0,
         track |-> NoTrack, old |-> NoTrack, wanted |-> NoTrack, revision |-> 0,
         playing |-> FALSE, prefer |-> FALSE, fallback |-> FALSE, cancelled |-> FALSE]

VARIABLES
    op,         \* of each thread: its command and how far it is
    playback,   \* what the commands read of PlaybackCore
    task,       \* of each track: its decoder task and the revision it was made for
    slot,       \* audio_mixer
    pending,    \* audio_mixer_pending
    token,      \* audio_mixer_pending_token
    held,       \* who holds the flag or the lock
    output,     \* the instance of AudioCycleOutputTask, 0 for none; whether it is preferred
    issued, changes,
    late,       \* a caller gave up
    faulted     \* a task failed

ghosts == <<late, faulted>>
user   == <<issued, changes>>
vars   == <<op, playback, task, slot, pending, token, held, output, user, ghosts, outputVars>>

Holds == {"Prepare", "Commit", "Recovery", "Transition", "Backend"}

TypeOK ==
    /\ OutputTypeOK
    /\ \A p \in Callers :
          /\ op[p].kind \in AllKinds \cup {"None"}
          /\ op[p].mode \in {"Crossfade", "Start"}
          /\ {op[p].track, op[p].old, op[p].wanted} \subseteq Tracks \cup {NoTrack}
          /\ {op[p].token, op[p].instance, op[p].revision} \subseteq Nat
          /\ {op[p].playing, op[p].prefer, op[p].fallback, op[p].cancelled} \subseteq BOOLEAN
    /\ playback \in [playing : BOOLEAN, enabled : BOOLEAN, revision : Nat]
    /\ task \in [Tracks -> [state : {"Free", "Live", "Failed", "Stopped"}, revision : Nat,
                            cycle : BOOLEAN]]
    /\ slot \in Tracks \cup {NoTrack}
    /\ pending \in [track : Tracks \cup {NoTrack}, token : Nat, kind : {"None", "Cycle", "Sync"}]
    /\ (pending.track = NoTrack) = (pending.kind = "None")
    /\ token \in Nat
    /\ held \in [Holds -> Callers \cup {Nobody}]
    /\ output \in [instance : Nat, last : Nat, preferred : BOOLEAN]
    /\ issued \in 0 .. MaxOps /\ changes \in 0 .. MaxChanges
    /\ {late, faulted} \subseteq BOOLEAN

\* A track plays: the source was synchronised once.
Init ==
    /\ op = [p \in Callers |-> NoOp]
    /\ playback = [playing |-> TRUE, enabled |-> TRUE, revision |-> 0]
    /\ task = [t \in Tracks |-> [state |-> IF t = First THEN "Live" ELSE "Free", revision |-> 0,
                                 cycle |-> FALSE]]
    /\ slot = First
    /\ pending = NoPending
    /\ token = 1
    /\ held = [h \in Holds |-> Nobody]
    /\ output = [instance |-> 1, last |-> 1, preferred |-> TRUE]
    /\ issued = 0 /\ changes = 0
    /\ late = FALSE /\ faulted = FALSE
    /\ playing = First /\ asked = {}
    /\ answer = [c \in Callers |-> NoAsk]

-----------------------------------------------------------------------------
(* Helpers *)

At(p, pc)   == op[p].pc = pc
Goes(p, pc) == op' = [op EXCEPT ![p].pc = pc]
Busy(h)     == held[h] # Nobody
Current(p)  == op[p].token = token
Failed(t)   == task[t].state # "Live"
MatchesPlaying(t) == playback.playing /\ playback.revision = task[t].revision

\* stop_preserving_output joins the decoder of a task.
Stopped(S) ==
    [t \in Tracks |-> IF t \in S /\ task[t].state # "Free"
                      THEN [task[t] EXCEPT !.state = "Stopped"] ELSE task[t]]

\* A command returns: its guards are dropped and what it still owns is stopped.
Returns(p, others) ==
    /\ op' = [op EXCEPT ![p] = NoOp]
    /\ held' = [h \in Holds |-> IF held[h] = p THEN Nobody ELSE held[h]]
    /\ task' = Stopped({op[p].track, op[p].old} \cup others)

\* next_audio_mixer_pending_token: what has an older token is stale from now on.
TakesToken(p, pc) ==
    /\ token' = token + 1
    /\ op' = [op EXCEPT ![p].token = token + 1, ![p].pc = pc]

\* A decoder task is made for what the playback is now.
Makes(p, cycle, pc) ==
    \E t \in Tracks :
        /\ task[t].state = "Free"
        /\ task' = [task EXCEPT ![t] = [state |-> "Live", revision |-> playback.revision,
                                        cycle |-> cycle]]
        /\ op' = [op EXCEPT ![p].track = t, ![p].pc = pc]

\* An exchange or a start has failed.  A recovery, a first start and a change of the backend
\* fall back to the page unless the error is one that is tried again.
FallsBack(p) ==
    \/ op[p].kind = "Backend"
    \/ op[p].kind = "Recover"
    \/ op[p].kind = "Sync" /\ op[p].mode = "Start"

Fails(p, retryable) ==
    IF retryable \/ ~FallsBack(p)
    THEN Returns(p, {}) /\ UNCHANGED output
    ELSE /\ op' = [op EXCEPT ![p].track = NoTrack, ![p].fallback = TRUE,
                             ![p].pc = IF op[p].kind # "Backend" /\ op[p].mode = "Start"
                                       THEN "StopOutput" ELSE "MixerToken"]
         /\ held' = [held EXCEPT !["Commit"] = IF @ = p THEN Nobody ELSE @]
         /\ task' = Stopped({op[p].track})
         /\ output' = [output EXCEPT !.preferred = @ /\ op[p].kind = "Backend"]

FailsAnyhow(p) == \E retryable \in BOOLEAN : Fails(p, retryable)

-----------------------------------------------------------------------------
(* The page and the world *)

FirstStep == [k \in AllKinds |-> IF k = "Recover" THEN "Sync" ELSE k]

\* prepare names the revision that the page knows, commit and cancel name a candidate.
Issue(p) ==
    /\ At(p, "Idle") /\ issued < MaxOps
    /\ \E k \in Kinds :
       \E t \in (IF k \in {"Commit", "Cancel"} THEN {u \in Tracks : task[u].cycle} ELSE {NoTrack}) :
             op' = [op EXCEPT ![p] = [NoOp EXCEPT !.kind = k, !.pc = FirstStep[k], !.wanted = t,
                                                  !.revision = playback.revision]]
    /\ issued' = issued + 1
    /\ UNCHANGED <<playback, task, slot, pending, token, held, output, changes, ghosts, outputVars>>

\* set_audio_processing_profile, the next medium, another source of the sound.
ParametersChange ==
    /\ changes < MaxChanges
    /\ changes' = changes + 1
    /\ playback' = [playback EXCEPT !.revision = @ + 1]
    /\ UNCHANGED <<op, task, slot, pending, token, held, output, issued, ghosts, outputVars>>

\* FFmpeg exits.
TaskFails(t) ==
    /\ task[t].state = "Live" /\ MayFail /\ ~faulted
    /\ task' = [task EXCEPT ![t].state = "Failed"]
    /\ faulted' = TRUE
    /\ UNCHANGED <<op, playback, slot, pending, token, held, output, user, late, outputVars>>

OutputPlays ==
    /\ \E t \in asked : Plays(t)
    /\ UNCHANGED <<op, playback, task, slot, pending, token, held, output, user, ghosts>>

OutputRefuses ==
    /\ MayFail /\ asked # {} /\ Refuses(asked)
    /\ UNCHANGED <<op, playback, task, slot, pending, token, held, output, user, ghosts>>

WaitTimesOut(p) ==
    /\ MayGiveUp /\ GivesUp(p)
    /\ late' = TRUE
    /\ UNCHANGED <<op, playback, task, slot, pending, token, held, output, user, faulted>>

-----------------------------------------------------------------------------
(* prepare_audio_cycle_candidate and cancel_audio_cycle_candidate *)

\* Faulty variant of PrepareBegins: the old candidate is not stopped first.
PrepareBeginsBeside(p) ==
    /\ At(p, "Prepare") /\ ~Busy("Prepare")
    /\ IF ~playback.playing \/ ~playback.enabled \/ playback.revision # op[p].revision
          \/ Busy("Recovery") \/ Busy("Commit")
       THEN Returns(p, {}) /\ UNCHANGED <<pending, token>>
       ELSE /\ TakesToken(p, "PrepareCreate")
            /\ held' = [held EXCEPT !["Prepare"] = p]
            /\ UNCHANGED <<pending, task>>
    /\ UNCHANGED <<playback, slot, output, user, ghosts, outputVars>>

\* Refused for a page that is late, and while a commit or a recovery is under way.
PrepareBegins(p) ==
    /\ At(p, "Prepare") /\ ~Busy("Prepare")
    /\ IF ~playback.playing \/ ~playback.enabled \/ playback.revision # op[p].revision
          \/ Busy("Recovery") \/ Busy("Commit")
       THEN Returns(p, {}) /\ UNCHANGED <<pending, token>>
       ELSE /\ TakesToken(p, "PrepareCreate")
            /\ held' = [held EXCEPT !["Prepare"] = p]
            /\ pending' = NoPending
            /\ task' = Stopped({pending.track})
    /\ UNCHANGED <<playback, slot, output, user, ghosts, outputVars>>

PrepareCreates(p) ==
    /\ At(p, "PrepareCreate")
    /\ \/ /\ Current(p) /\ playback.playing /\ playback.enabled
          /\ playback.revision = op[p].revision /\ output.instance # 0
          /\ Makes(p, TRUE, "PrepareInstall")
          /\ UNCHANGED held
       \/ \* stale, out of the horizon or without resources
          Returns(p, {})
    /\ UNCHANGED <<playback, slot, pending, token, output, user, ghosts, outputVars>>

\* Faulty variant of PrepareInstalls: the lock of the preparation is kept.
PrepareInstallsAndKeeps(p) ==
    /\ At(p, "PrepareInstall")
    /\ IF Current(p)
       THEN /\ pending' = [track |-> op[p].track, token |-> op[p].token, kind |-> "Cycle"]
            /\ task' = Stopped({pending.track})
            /\ op' = [op EXCEPT ![p] = NoOp]
            /\ UNCHANGED held
       ELSE Returns(p, {}) /\ UNCHANGED pending
    /\ UNCHANGED <<playback, slot, token, output, user, ghosts, outputVars>>

PrepareInstalls(p) ==
    /\ At(p, "PrepareInstall")
    /\ IF Current(p)
       THEN /\ pending' = [track |-> op[p].track, token |-> op[p].token, kind |-> "Cycle"]
            /\ task' = Stopped({pending.track})
            /\ op' = [op EXCEPT ![p] = NoOp]
            /\ held' = [held EXCEPT !["Prepare"] = Nobody]
       ELSE Returns(p, {}) /\ UNCHANGED pending
    /\ UNCHANGED <<playback, slot, token, output, user, ghosts, outputVars>>

CancelTakes(p) ==
    /\ At(p, "Cancel") /\ ~Busy("Prepare")
    /\ IF pending.kind = "Cycle" /\ pending.track = op[p].wanted
       THEN /\ token' = token + 1
            /\ pending' = NoPending
            /\ Returns(p, {pending.track})
       ELSE Returns(p, {}) /\ UNCHANGED <<pending, token>>
    /\ UNCHANGED <<playback, slot, output, user, ghosts, outputVars>>

-----------------------------------------------------------------------------
(* commit_audio_cycle_candidate *)

CommitReads(p) ==
    /\ At(p, "Commit")
    /\ op' = [op EXCEPT ![p].pc = "CommitTake", ![p].revision = playback.revision,
                        ![p].playing = playback.playing]
    /\ UNCHANGED <<playback, task, slot, pending, token, held, output, user, ghosts, outputVars>>

Named(p) == pending.kind = "Cycle" /\ pending.track = op[p].wanted

\* Another commit, another candidate, or one that is not ready or not due yet.
CommitWaits(p) ==
    /\ At(p, "CommitTake")
    /\ Busy("Commit") \/ ~Named(p) \/ (pending.token = token /\ ~Failed(pending.track))
    /\ Returns(p, {})
    /\ UNCHANGED <<playback, slot, pending, token, output, user, ghosts, outputVars>>

\* A candidate that is stale, has failed, was made for something else, or an output that
\* does not consume.
CommitDrops(p) ==
    /\ At(p, "CommitTake") /\ ~Busy("Commit") /\ Named(p)
    /\ \/ pending.token # token \/ Failed(pending.track)
       \/ ~op[p].playing \/ op[p].revision # task[pending.track].revision
       \/ output.instance # 0
    /\ pending' = NoPending
    /\ Returns(p, {pending.track})
    /\ UNCHANGED <<playback, slot, token, output, user, ghosts, outputVars>>

\* Faulty variant of CommitTakes: the slot of the candidate keeps its name.
CommitTakesHalf(p) ==
    /\ At(p, "CommitTake") /\ ~Busy("Commit") /\ Named(p)
    /\ pending.token = token /\ ~Failed(pending.track)
    /\ op[p].playing /\ op[p].revision = task[pending.track].revision
    /\ output.instance # 0
    /\ op' = [op EXCEPT ![p].track = pending.track, ![p].token = pending.token,
                        ![p].instance = output.instance, ![p].pc = "Check"]
    /\ held' = [held EXCEPT !["Commit"] = p]
    /\ pending' = [pending EXCEPT !.track = NoTrack]
    /\ UNCHANGED <<playback, task, slot, token, output, user, ghosts, outputVars>>

CommitTakes(p) ==
    /\ At(p, "CommitTake") /\ ~Busy("Commit") /\ Named(p)
    /\ pending.token = token /\ ~Failed(pending.track)
    /\ op[p].playing /\ op[p].revision = task[pending.track].revision
    /\ output.instance # 0
    /\ op' = [op EXCEPT ![p].track = pending.track, ![p].token = pending.token,
                        ![p].instance = output.instance, ![p].pc = "Check"]
    /\ held' = [held EXCEPT !["Commit"] = p]
    /\ pending' = NoPending
    /\ UNCHANGED <<playback, task, slot, token, output, user, ghosts, outputVars>>

-----------------------------------------------------------------------------
(* sync_audio_output_source *)

SyncBegins(p) ==
    /\ At(p, "Sync")
    /\ \/ /\ output.preferred /\ ~playback.playing
          /\ Goes(p, "PauseToken") /\ UNCHANGED <<held, task>>
       \/ /\ output.preferred /\ playback.playing /\ output.instance # 0 /\ ~Busy("Recovery")
          /\ held' = [held EXCEPT !["Recovery"] = p]
          /\ op' = IF slot # NoTrack THEN [op EXCEPT ![p].pc = "SyncPending"]
                   ELSE [op EXCEPT ![p].mode = "Start", ![p].pc = "Start"]
          /\ UNCHANGED task
       \/ \* not preferred, no output, busy, a recovery that is not required
          /\ output.preferred => playback.playing
          /\ Returns(p, {})
    /\ UNCHANGED <<playback, slot, pending, token, output, user, ghosts, outputVars>>

\* A candidate that is pending is left alone, but not by a recovery.
SyncDefers(p) ==
    /\ At(p, "SyncPending")
    /\ IF pending # NoPending /\ op[p].kind = "Sync"
       THEN Returns(p, {})
       ELSE Goes(p, "SyncPrepare") /\ UNCHANGED <<held, task>>
    /\ UNCHANGED <<playback, slot, pending, token, output, user, ghosts, outputVars>>

SyncPrepares(p) ==
    /\ At(p, "SyncPrepare")
    /\ IF Busy("Commit")
       THEN Returns(p, {}) /\ UNCHANGED <<pending, token>>
       ELSE /\ TakesToken(p, "SyncCreate")
            /\ pending' = NoPending
            /\ task' = Stopped({pending.track})
            /\ UNCHANGED held
    /\ UNCHANGED <<playback, slot, output, user, ghosts, outputVars>>

SyncCreates(p) ==
    /\ At(p, "SyncCreate") /\ ~Busy("Prepare")
    /\ \/ /\ Current(p)
          /\ Makes(p, FALSE, "SyncInstall")
          /\ held' = [held EXCEPT !["Prepare"] = p]
       \/ Returns(p, {})
    /\ UNCHANGED <<playback, slot, pending, token, output, user, ghosts, outputVars>>

SyncInstalls(p) ==
    /\ At(p, "SyncInstall")
    /\ IF Current(p)
       THEN /\ pending' = [track |-> op[p].track, token |-> op[p].token, kind |-> "Sync"]
            /\ task' = Stopped({pending.track})
            /\ op' = [op EXCEPT ![p].track = NoTrack, ![p].pc = "SyncTake"]
            /\ held' = [held EXCEPT !["Prepare"] = Nobody]
       ELSE Returns(p, {}) /\ UNCHANGED pending
    /\ UNCHANGED <<playback, slot, token, output, user, ghosts, outputVars>>

SyncTakes(p) ==
    /\ At(p, "SyncTake")
    /\ IF pending # NoPending /\ pending.token = op[p].token
       THEN /\ op' = [op EXCEPT ![p].track = pending.track, ![p].pc = "Cover"]
            /\ pending' = NoPending
            /\ UNCHANGED <<held, task>>
       ELSE Returns(p, {}) /\ UNCHANGED pending
    /\ UNCHANGED <<playback, slot, token, output, user, ghosts, outputVars>>

-----------------------------------------------------------------------------
(* start_audio_mixer_from_snapshot_unlocked, until the track is ready *)

StartBegins(p) ==
    /\ At(p, "Start")
    /\ TakesToken(p, "StartCreate")
    /\ UNCHANGED <<playback, task, slot, pending, held, output, user, ghosts, outputVars>>

\* A medium without sound needs no task.
StartCreates(p) ==
    /\ At(p, "StartCreate")
    /\ \/ Makes(p, FALSE, "Cover") /\ UNCHANGED <<held, output>>
       \/ Goes(p, "OutputResume") /\ UNCHANGED <<task, held, output>>
       \/ MayFail /\ Fails(p, FALSE)
    /\ UNCHANGED <<playback, slot, pending, token, user, ghosts, outputVars>>

-----------------------------------------------------------------------------
(* commit_audio_mixer_candidate and the end of a start: the exchange *)

\* wait_for_audio_mixer_commit_coverage: it does not catch up in time, or is stale, or made
\* for something else; or its decoder has failed.
NotCovered(p) ==
    /\ At(p, "Cover")
    /\ Fails(p, ~(Current(p) /\ MatchesPlaying(op[p].track) /\ Failed(op[p].track)))
    /\ UNCHANGED <<playback, slot, pending, token, user, ghosts, outputVars>>

Covered(p) ==
    /\ At(p, "Cover")
    /\ Current(p) /\ MatchesPlaying(op[p].track) /\ ~Failed(op[p].track)
    /\ Goes(p, "Claim")
    /\ UNCHANGED <<playback, task, slot, pending, token, held, output, user, ghosts, outputVars>>

\* begin_audio_cycle_commit.
Claims(p) ==
    /\ At(p, "Claim")
    /\ \/ Busy("Commit") /\ Fails(p, FALSE)
       \/ ~Busy("Commit") /\ ~Current(p) /\ Fails(p, TRUE)
       \/ /\ ~Busy("Commit") /\ Current(p) /\ op[p].mode = "Crossfade"
          /\ IF MatchesPlaying(op[p].track) THEN MayFail /\ Fails(p, FALSE) ELSE Fails(p, TRUE)
       \/ /\ ~Busy("Commit") /\ Current(p)
          /\ op[p].mode = "Crossfade" => (MatchesPlaying(op[p].track) /\ output.instance # 0)
          /\ held' = [held EXCEPT !["Commit"] = p]
          /\ op' = [op EXCEPT ![p].instance = output.instance,
                              ![p].pc = IF op[p].mode = "Crossfade" THEN "Check" ELSE "Exchange"]
          /\ UNCHANGED <<task, output>>
    /\ UNCHANGED <<playback, slot, pending, token, user, ghosts, outputVars>>

Checks(p) ==
    /\ At(p, "Check")
    /\ IF slot = NoTrack \/ Failed(op[p].track) THEN Fails(p, FALSE)
       ELSE IF ~MatchesPlaying(op[p].track) THEN Fails(p, TRUE)
       ELSE Goes(p, "Exchange") /\ UNCHANGED <<held, task, output>>
    /\ UNCHANGED <<playback, slot, pending, token, user, ghosts, outputVars>>

\* crossfade_to asks the output that was there when the commit began, set_current the one
\* that is there now.
CanAsk(p) ==
    IF op[p].mode = "Crossfade" THEN output.instance = op[p].instance /\ playing # NoTrack
    ELSE output.instance # 0

\* The output may refuse at once: it plays a tone or is full.
Exchanges(p) ==
    /\ At(p, "Exchange")
    /\ \/ /\ CanAsk(p) /\ asked = {} /\ Asks(p, op[p].track)
          /\ op' = [op EXCEPT ![p].instance = output.instance, ![p].pc = "Wait"]
          /\ UNCHANGED <<held, task, output>>
       \/ /\ MayFail \/ ~CanAsk(p)
          /\ Fails(p, FALSE) /\ UNCHANGED outputVars
    /\ UNCHANGED <<playback, slot, pending, token, user, ghosts>>

\* Faulty variant of Hears: the guard of the commit is dropped with the answer.
HearsAndReleases(p) ==
    /\ At(p, "Wait") /\ Settles(p)
    /\ IF answer[p].at = "Ok"
       THEN /\ Goes(p, "Replace") /\ held' = [held EXCEPT !["Commit"] = Nobody]
            /\ UNCHANGED <<task, output>>
       ELSE FailsAnyhow(p)
    /\ UNCHANGED <<playback, slot, pending, token, user, ghosts>>

\* A candidate that turns out silent is tried again.
Hears(p) ==
    /\ At(p, "Wait") /\ Settles(p)
    /\ IF answer[p].at = "Ok"
       THEN Goes(p, "Replace") /\ UNCHANGED <<held, task, output>>
       ELSE FailsAnyhow(p)
    /\ UNCHANGED <<playback, slot, pending, token, user, ghosts>>

\* Faulty variant of Replaces: the token is not looked at again.
ReplacesBlindly(p) ==
    /\ At(p, "Replace")
    /\ slot' = op[p].track
    /\ op' = [op EXCEPT ![p].track = NoTrack, ![p].old = slot,
                        ![p].pc = IF op[p].kind = "Commit" THEN "Configure" ELSE "StopOld"]
    /\ UNCHANGED <<playback, task, pending, token, held, output, user, ghosts, outputVars>>

\* Under the switch lock: a command that came meanwhile has taken a token.
Replaces(p) ==
    /\ At(p, "Replace")
    /\ IF Current(p)
       THEN /\ slot' = op[p].track
            /\ op' = [op EXCEPT ![p].track = NoTrack, ![p].old = slot,
                                ![p].pc = IF op[p].kind = "Commit" THEN "Configure" ELSE "StopOld"]
       ELSE Goes(p, "Clear") /\ UNCHANGED slot
    /\ UNCHANGED <<playback, task, pending, token, held, output, user, ghosts, outputVars>>

\* Faulty variant of Clears: the task is stopped, the output not cleared.
ClearsNothing(p) ==
    /\ At(p, "Clear")
    /\ Fails(p, TRUE)
    /\ UNCHANGED <<playback, slot, pending, token, user, ghosts, outputVars>>

\* The exchange was made in vain: the output is cleared, the task stopped.
Clears(p) ==
    /\ At(p, "Clear")
    /\ IF output.instance = op[p].instance \/ (op[p].mode = "Start" /\ output.instance # 0)
       THEN Silences(asked) ELSE UNCHANGED outputVars
    /\ Fails(p, TRUE)
    /\ UNCHANGED <<playback, slot, pending, token, user, ghosts>>

\* commit_validated_audio_stream_configuration, then the old task is stopped.
Configures(p) ==
    /\ At(p, "Configure")
    /\ playback' = [playback EXCEPT !.revision = @ + 1]
    /\ Returns(p, {})
    /\ UNCHANGED <<slot, pending, token, output, user, ghosts, outputVars>>

\* The guard of the commit is dropped; a start goes on to resume the output.
StopsOld(p) ==
    /\ At(p, "StopOld")
    /\ IF op[p].mode = "Crossfade"
       THEN Returns(p, {})
       ELSE /\ task' = Stopped({op[p].old})
            /\ op' = [op EXCEPT ![p].old = NoTrack, ![p].pc = "OutputResume"]
            /\ held' = [held EXCEPT !["Commit"] = Nobody]
    /\ UNCHANGED <<playback, slot, pending, token, output, user, ghosts, outputVars>>

OutputResumes(p) ==
    /\ At(p, "OutputResume")
    /\ IF playing = NoTrack \/ output.instance = 0
          \/ (op[p].kind = "Resume" /\ output.instance # op[p].instance)
       THEN Fails(p, FALSE)
       ELSE Returns(p, {}) /\ UNCHANGED output
    /\ UNCHANGED <<playback, slot, pending, token, user, ghosts, outputVars>>

-----------------------------------------------------------------------------
(* pause_playback, resume_playback, stop_playback, set_processing_switches *)

PauseBegins(p) ==
    /\ At(p, "Pause") /\ ~Busy("Transition")
    /\ IF playback.playing
       THEN /\ playback' = [playback EXCEPT !.playing = FALSE]
            /\ held' = [held EXCEPT !["Transition"] = p]
            /\ Goes(p, "PauseToken") /\ UNCHANGED task
       ELSE Returns(p, {}) /\ UNCHANGED playback
    /\ UNCHANGED <<slot, pending, token, output, user, ghosts, outputVars>>

\* History: what is on its way when a pause or a stop takes its token is cancelled.
Cancelling(p) == [q \in Callers |-> IF q # p /\ op[q].token # 0
                                    THEN [op[q] EXCEPT !.cancelled = TRUE] ELSE op[q]]

\* Faulty variant of PauseTokens: a pause makes nothing stale.
PauseTokensNothing(p) ==
    /\ At(p, "PauseToken")
    /\ op' = [Cancelling(p) EXCEPT ![p].pc = "PauseOutput"]
    /\ UNCHANGED <<playback, task, slot, pending, token, held, output, user, ghosts, outputVars>>

PauseTokens(p) ==
    /\ At(p, "PauseToken")
    /\ token' = token + 1
    /\ op' = [Cancelling(p) EXCEPT ![p].pc = "PauseOutput"]
    /\ UNCHANGED <<playback, task, slot, pending, held, output, user, ghosts, outputVars>>

\* The output cancels the exchange that waits.
PauseOutputs(p) ==
    /\ At(p, "PauseOutput")
    /\ IF output.instance # 0 THEN Refuses(asked) ELSE UNCHANGED outputVars
    /\ Goes(p, "PauseTake")
    /\ UNCHANGED <<playback, task, slot, pending, token, held, output, user, ghosts>>

PauseTakes(p) ==
    /\ At(p, "PauseTake")
    /\ pending' = NoPending
    /\ op' = [op EXCEPT ![p] = NoOp]
    /\ held' = [h \in Holds |-> IF held[h] = p THEN Nobody ELSE held[h]]
    /\ task' = Stopped({pending.track})
    /\ UNCHANGED <<playback, slot, token, output, user, ghosts, outputVars>>

ResumeBegins(p) ==
    /\ At(p, "Resume") /\ ~Busy("Transition")
    /\ IF playback.playing
       THEN Returns(p, {}) /\ UNCHANGED playback
       ELSE /\ playback' = [playback EXCEPT !.playing = TRUE]
            /\ held' = [held EXCEPT !["Transition"] = p]
            /\ Goes(p, "ResumeCheck") /\ UNCHANGED task
    /\ UNCHANGED <<slot, pending, token, output, user, ghosts, outputVars>>

\* A task that has failed or is missing is started again.
ResumeChecks(p) ==
    /\ At(p, "ResumeCheck")
    /\ IF ~output.preferred \/ output.instance = 0
       THEN Returns(p, {})
       ELSE /\ op' = [op EXCEPT ![p].instance = output.instance,
                                ![p].mode = "Start",
                                ![p].pc = IF slot # NoTrack /\ ~Failed(slot) THEN "OutputResume"
                                          ELSE "MixerToken"]
            /\ UNCHANGED <<held, task>>
    /\ UNCHANGED <<playback, slot, pending, token, output, user, ghosts, outputVars>>

StopBegins(p) ==
    /\ At(p, "Stop") /\ ~Busy("Transition")
    /\ held' = [held EXCEPT !["Transition"] = p]
    /\ Goes(p, "StopClear")
    /\ UNCHANGED <<playback, task, slot, pending, token, output, user, ghosts, outputVars>>

\* stop_audio_for_playback clears the output before it takes a token.
StopClears(p) ==
    /\ At(p, "StopClear")
    /\ IF output.instance # 0 THEN Silences(asked) ELSE UNCHANGED outputVars
    /\ Goes(p, "MixerToken")
    /\ UNCHANGED <<playback, task, slot, pending, token, held, output, user, ghosts>>

\* The processing of the sound is switched off.
DisableBegins(p) ==
    /\ At(p, "Disable")
    /\ playback' = [playback EXCEPT !.enabled = FALSE, !.revision = @ + 1]
    /\ Goes(p, "MixerToken")
    /\ UNCHANGED <<task, slot, pending, token, held, output, user, ghosts, outputVars>>

-----------------------------------------------------------------------------
(* stop_audio_mixer, stop_audio_cycle_output, set_audio_output_backend *)

\* Faulty variant of MixerTokens: a stop makes nothing stale.
MixerTokensNothing(p) ==
    /\ At(p, "MixerToken")
    /\ op' = [Cancelling(p) EXCEPT ![p].pc = "MixerTake"]
    /\ UNCHANGED <<playback, task, slot, pending, token, held, output, user, ghosts, outputVars>>

MixerTokens(p) ==
    /\ At(p, "MixerToken")
    /\ token' = token + 1
    /\ op' = [Cancelling(p) EXCEPT ![p].pc = "MixerTake"]
    /\ UNCHANGED <<playback, task, slot, pending, held, output, user, ghosts, outputVars>>

AfterMixer(p) ==
    CASE op[p].kind = "Resume"  -> "Start"
      [] op[p].kind = "Stop"    -> "Stopped"
      [] op[p].kind = "Disable" -> "Idle"
      [] OTHER                  -> "StopOutput"

MixerTakes(p) ==
    /\ At(p, "MixerTake")
    /\ slot' = NoTrack /\ pending' = NoPending
    /\ IF AfterMixer(p) = "Idle"
       THEN Returns(p, {slot, pending.track})
       ELSE /\ Goes(p, AfterMixer(p))
            /\ task' = Stopped({slot, pending.track})
            /\ UNCHANGED held
    /\ UNCHANGED <<playback, token, output, user, ghosts, outputVars>>

Stops(p) ==
    /\ At(p, "Stopped")
    /\ playback' = [playback EXCEPT !.playing = FALSE]
    /\ Returns(p, {})
    /\ UNCHANGED <<slot, pending, token, output, user, ghosts, outputVars>>

BackendBegins(p) ==
    /\ At(p, "Backend")
    /\ IF Busy("Backend")
       THEN Returns(p, {}) /\ UNCHANGED output
       ELSE /\ \E prefer \in BOOLEAN : output' = [output EXCEPT !.preferred = prefer]
            /\ held' = [held EXCEPT !["Backend"] = p]
            /\ op' = [op EXCEPT ![p].pc = "MixerToken", ![p].mode = "Start",
                                ![p].prefer = output'.preferred]
            /\ UNCHANGED task
    /\ UNCHANGED <<playback, slot, pending, token, user, ghosts, outputVars>>

\* shutdown joins the output thread; whoever waits for it hears that the channel is closed.
OutputStops(p) ==
    /\ At(p, "StopOutput")
    /\ Silences(asked)
    /\ IF op[p].kind = "Backend" /\ ~op[p].fallback /\ op[p].prefer
       THEN /\ Goes(p, "StartOutput")
            /\ output' = [output EXCEPT !.instance = 0]
            /\ UNCHANGED <<held, task>>
       ELSE /\ Returns(p, {})
            /\ output' = [output EXCEPT !.instance = 0, !.preferred = @ /\ ~op[p].fallback]
    /\ UNCHANGED <<playback, slot, pending, token, user, ghosts>>

OutputStarts(p) ==
    /\ At(p, "StartOutput")
    /\ \/ /\ output' = [output EXCEPT !.instance = output.last + 1, !.last = @ + 1]
          /\ IF playback.playing THEN Goes(p, "Start") /\ UNCHANGED <<held, task>>
             ELSE Returns(p, {})
       \/ Returns(p, {}) /\ UNCHANGED output   \* no PortAudio, or no device
    /\ UNCHANGED <<playback, slot, pending, token, user, ghosts, outputVars>>

Step(p) ==
    \/ PrepareBegins(p) \/ PrepareCreates(p) \/ PrepareInstalls(p) \/ CancelTakes(p)
    \/ CommitReads(p) \/ CommitWaits(p) \/ CommitDrops(p) \/ CommitTakes(p)
    \/ SyncBegins(p) \/ SyncDefers(p) \/ SyncPrepares(p) \/ SyncCreates(p) \/ SyncInstalls(p)
    \/ SyncTakes(p) \/ StartBegins(p) \/ StartCreates(p)
    \/ NotCovered(p) \/ Covered(p) \/ Claims(p) \/ Checks(p) \/ Exchanges(p) \/ Hears(p)
    \/ Replaces(p) \/ Clears(p) \/ Configures(p) \/ StopsOld(p) \/ OutputResumes(p)
    \/ PauseBegins(p) \/ PauseTokens(p) \/ PauseOutputs(p) \/ PauseTakes(p)
    \/ ResumeBegins(p) \/ ResumeChecks(p) \/ StopBegins(p) \/ StopClears(p) \/ DisableBegins(p)
    \/ MixerTokens(p) \/ MixerTakes(p) \/ Stops(p)
    \/ BackendBegins(p) \/ OutputStops(p) \/ OutputStarts(p)

Next ==
    \/ \E p \in Callers : Issue(p) \/ Step(p) \/ WaitTimesOut(p)
    \/ ParametersChange \/ OutputPlays \/ OutputRefuses
    \/ \E t \in Tracks : TaskFails(t)

Spec == Init /\ [][Next]_vars

\* The threads of the commands run, the output decides what it is asked.
FairSpec ==
    /\ Spec
    /\ \A p \in Callers : WF_vars(Step(p))
    /\ WF_vars(OutputPlays \/ OutputRefuses)

-----------------------------------------------------------------------------
(* Properties *)

\* An exchange that was under way when a pause or a stop took its token never ends in the
\* slot, also not after a resume.
NothingReturnsFromAPauseStep ==
    \A p \in Callers :
        (At(p, "Replace") /\ ~At(p, "Replace")' /\ slot' # slot) => ~op[p].cancelled
NothingReturnsFromAPause == [][NothingReturnsFromAPauseStep]_vars

\* While no exchange is under way and nobody gave up, the output plays the track whose task
\* the application feeds: no command leaves another one behind.
HeardIsFed ==
    (~late /\ ~Busy("Commit") /\ playing # NoTrack /\ slot # NoTrack) => playing = slot

\* A command that clears the output after an exchange in vain takes away its own track and
\* not the one of a newer command.
ClearTakesItsOwn ==
    \A p \in Callers :
        (At(p, "Clear") /\ ~late /\ output.instance = op[p].instance)
            => playing \in {op[p].track, NoTrack}

\* The parameters that a commit publishes replace the ones that its candidate was made from.
\* The plan: a change of the parameters cancels the old candidate.
ChangedParametersStay ==
    [][\A p \in Callers : (At(p, "Configure") /\ ~At(p, "Configure")')
          => task[slot].revision = playback.revision]_vars

Live == {t \in Tracks : task[t].state = "Live"}

\* The plan: a current task and one candidate, a third one first stops the second.
TwoTasks == Cardinality(Live) <= 2

\* The plan: a stale candidate is rejected and the current track stays.
StaleKeepsTheTrack ==
    (\A p \in Callers : At(p, "Idle")) => (slot = NoTrack \/ playing # NoTrack \/ output.instance = 0)

\* The plan: a candidate that is not ready or stale does not switch PortAudio off.  Only the
\* user or a failure does.
FallbackHasACause ==
    [][(output.preferred /\ ~output'.preferred)
          => (MayFail \/ late \/ \E p \in Callers : At(p, "Backend"))]_vars

\* Every command returns.
CommandsReturn == \A p \in Callers : ~At(p, "Idle") ~> At(p, "Idle")
=============================================================================

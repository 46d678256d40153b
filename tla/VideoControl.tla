----------------------------- MODULE VideoControl -----------------------------
(***************************************************************************)
(* The control path of the realtime video runtime: the threads that serve  *)
(* the commands of commands.rs, the operation gate, the bounded channel    *)
(* and the actor thread of realtime_video_runtime.rs.                      *)
(*                                                                         *)
(* A caller serves one command.  It reads the published status, registers  *)
(* its cursor with the gate, sends its command to the actor and waits for  *)
(* the answer until its deadline.  The commands that change the playback   *)
(* hold the playback_transition mutex throughout; the release of the video *)
(* host (Suspend) does not, and Ensure lets it go once it has its lease.   *)
(*                                                                         *)
(* The actor handles one command at a time.  A command that finds an IPC   *)
(* transaction in flight is deferred.  Starting mpv takes long, so it is a *)
(* step of its own, during which the other threads go on; a launch whose   *)
(* revision is no longer current is abandoned.                             *)
(***************************************************************************)
EXTENDS VideoSession, Sequences, FiniteSets

CONSTANTS
    Callers,        \* threads, each of which serves one command
    Kinds,          \* the commands under study, a subset of CommandKinds
    Capacity,       \* CONTROL_CHANNEL_CAPACITY
    FaultsHappen,   \* whether mpv can fail, an answer be late, the shader be missing
    NoCaller, NoCommand, NoLaunch

VARIABLES
    gate,           \* OperationState and its atomic copy of the revision
    guard,          \* the holder of playback_transition
    media,          \* PlaybackCore: the generation and loop that play
    calls,          \* what each caller is doing
    channel,        \* the commands sent to the actor
    deferred,       \* deferred_commands of actor_loop
    rt,             \* RuntimeState, as a Session
    launch,         \* the start of mpv that the actor is waiting for
    published,      \* the status snapshot
    closing,        \* shutdown_requested
    ended           \* the actor has returned and dropped its receiver

vars == <<gate, guard, media, calls, channel, deferred, rt, launch, published, closing, ended>>
actorVars == <<channel, deferred, rt, launch, published, ended>>

Rendering == {"Ensure", "Configure"}     \* bring a renderer up
Intents   == {"Play", "Pause", "Seek"}
Cursored  == Rendering \cup Intents \cup {"Advance"}
Controls  == {"Stop", "Suspend", "RecordSource", "SetProcessing"}
CommandKinds == Cursored \cup Controls \cup {"Shutdown"}

\* Complete is the end of an item that the WebView reports; it sends no command.
ASSUME KindsAssumption == Kinds \subseteq CommandKinds \cup {"Complete"}
ASSUME CapacityAssumption == Capacity \in Nat \ {0}
ASSUME FaultsAssumption == FaultsHappen \in BOOLEAN

\* RuntimeCommand with its reply channel, which belongs to the caller: the cursor
\* it was composed for, the end-of-file fact an advance acts upon, the backend epoch
\* it was composed for and the revision that is its lease.
CursoredCommand ==
    [caller : Callers, kind : Cursored \ {"Advance"}, cursor : Cursor, eof : {NoCursor},
     epoch : Nat, revision : Nat]

AdvanceCommand ==
    [caller : Callers, kind : {"Advance"}, cursor : Cursor, eof : Cursor,
     epoch : Nat, revision : Nat]

PlainCommand ==
    [caller : Callers, kind : Controls \cup {"Shutdown"}, cursor : {NoCursor},
     eof : {NoCursor}, epoch : Nat, revision : Nat]

Command == CursoredCommand \cup AdvanceCommand \cup PlainCommand

Working == {"Composed", "Leased", "Ready", "Sending", "Publishing", "Closing", "Waiting"}
Returned == {"Done", "Stale", "Failed", "TimedOut"}

Answer == {"None", "Ok", "Stale", "Err"}  \* Stale is StaleSync

\* cleanup: the command was sent because an advance failed.
Call ==
    [pc : {"Idle", "Done"}, command : {NoCommand}, answer : Answer, cleanup : BOOLEAN]
      \cup [pc : Working \cup Returned, command : Command, answer : Answer, cleanup : BOOLEAN]

Launch == [command : Command \cup {NoCommand}, revision : Nat, kind : {"Start", "Switch"},
           fallback : BOOLEAN]             \* started by transition_to_fallback

ASSUME ControlNoneAssumption ==
    NoCaller \notin Callers /\ NoCommand \notin Command /\ NoLaunch \notin Launch

\* The part of MediaVideoBackendRuntimeStatus that callers decide upon.
Status == [identity : Cursor \cup {NoCursor}, epoch : Nat, running : BOOLEAN,
           eof : Cursor \cup {NoCursor}]

View(s) == [identity |-> s.identity, epoch |-> s.epoch, running |-> Alive(s), eof |-> s.eof]

Init ==
    /\ gate = NewGate
    /\ guard = NoCaller
    /\ media = [generation |-> 1, loop |-> 0]
    /\ calls = [k \in Callers |-> [pc |-> "Idle", command |-> NoCommand, answer |-> "None",
                                   cleanup |-> FALSE]]
    /\ channel = <<>>
    /\ deferred = <<>>
    /\ rt = NewSession
    /\ launch = NoLaunch
    /\ published = View(NewSession)
    /\ closing = FALSE
    /\ ended = FALSE

-----------------------------------------------------------------------------
(* Callers: composing a command *)

Guarded(kind) == kind \notin {"Suspend", "Shutdown"}

\* operation_state is held across the send of a control command.
LockFree == \A k \in Callers : calls[k].pc \notin {"Sending", "Publishing"}

\* The clock of the status counts only for the loop that plays.
MediaCursor ==
    LET now == published.identity
        known == now # NoCursor /\ now.generation = media.generation /\ now.loop = media.loop
    IN  [generation |-> media.generation, loop |-> media.loop,
         clock |-> IF known THEN now.clock ELSE 1]

\* A playback intent without a process, or for another generation, ends at once.
Playing ==
    /\ published.running
    /\ published.identity # NoCursor
    /\ published.identity.generation = media.generation

\* The EOF supervisor acts on a fact about the loop that plays, and on a late one
\* about the loop before when a renderer that was replaced plays that one again.
Finished(eof) ==
    /\ eof # NoCursor /\ eof = published.identity /\ eof.generation = media.generation
    /\ eof.loop = media.loop

LateEof(eof) ==
    /\ eof # NoCursor /\ eof = published.identity /\ eof.generation = media.generation
    /\ eof.loop + 1 = media.loop

\* The next loop of a single medium, or the next medium of the pool.
AfterEof(eof) ==
    IF Finished(eof)
    THEN {[eof EXCEPT !.loop = @ + 1],
          [generation |-> eof.generation + 1, clock |-> eof.clock + 1, loop |-> 0]}
    ELSE IF LateEof(eof) THEN {[eof EXCEPT !.loop = @ + 1]} ELSE {}

\* The cursors a command of this kind can be composed for now.
Requests(kind) ==
    CASE kind \in Rendering -> {MediaCursor}
      [] kind = "Seek"      -> IF Playing THEN {[published.identity EXCEPT !.clock = @ + 1]} ELSE {}
      [] kind \in Intents   -> IF Playing THEN {published.identity} ELSE {}
      [] kind = "Advance"   -> AfterEof(published.eof)
      [] OTHER              -> {NoCursor}

Composed(k, kind, cursor, cleanup) ==
    [pc |-> "Composed", answer |-> "None", cleanup |-> cleanup,
     command |-> [caller |-> k, kind |-> kind, cursor |-> cursor, epoch |-> published.epoch,
                  eof |-> IF kind = "Advance" THEN published.eof ELSE NoCursor, revision |-> 0]]

\* The command takes playback_transition and reads the status.
Enter(k) ==
    /\ calls[k].pc = "Idle"
    /\ ~closing
    /\ \E kind \in Kinds \ {"Complete"} :
          /\ Guarded(kind) => guard = NoCaller
          /\ guard' = IF Guarded(kind) THEN k ELSE guard
          /\ \E cursor \in Requests(kind) :
                calls' = [calls EXCEPT ![k] = Composed(k, kind, cursor, FALSE)]
    /\ UNCHANGED <<gate, media, closing, actorVars>>

\* complete_playback_item of the WebView, which plays while no renderer of this
\* generation runs: the one medium of the pool begins its next loop.
Complete(k) ==
    /\ calls[k].pc = "Idle" /\ "Complete" \in Kinds
    /\ ~closing
    /\ guard = NoCaller
    /\ ~Playing
    /\ media' = [media EXCEPT !.loop = @ + 1]
    /\ calls' = [calls EXCEPT ![k].pc = "Done"]
    /\ UNCHANGED <<gate, guard, closing, actorVars>>

-----------------------------------------------------------------------------
(* Callers: the end of a command *)

Released(k) == guard' = IF guard = k THEN NoCaller ELSE guard

\* Faulty variant of RequiresCleanup: a deadline that passed is not a failure.
RequiresCleanupUnlessLate(op, outcome) == op.kind = "Advance" /\ outcome = "Failed"

\* failed_eof_requires_runtime_cleanup, or for a late end of file the question
\* whether the renderer still stands there.
RequiresCleanup(op, outcome) ==
    /\ op.kind = "Advance"
    /\ IF op.eof.generation = media.generation /\ op.eof.loop + 1 = media.loop
       THEN /\ outcome # "Done" /\ published.running
            /\ LateEof(op.eof) /\ published.eof = op.eof /\ published.epoch = op.epoch
       ELSE outcome \in {"Failed", "TimedOut"}

\* An advance that failed for more than stale arguments is followed, under the
\* same guard, by the release of the renderer: a record_source_backend and then,
\* whatever became of that, a stop.
Ends(k, outcome) ==
    LET op == calls[k].command
        next == IF RequiresCleanup(op, outcome) THEN "RecordSource"
                ELSE IF calls[k].cleanup /\ op.kind = "RecordSource" THEN "Stop" ELSE "None"
    IN  IF next # "None"
        THEN /\ calls' = [calls EXCEPT ![k] = Composed(k, next, NoCursor, TRUE)]
             /\ UNCHANGED guard
        ELSE /\ calls' = [calls EXCEPT ![k].pc = outcome]
             /\ Released(k)

\* The medium after a command: a stop may belong to a change of the source, an
\* advance commits the loop or the medium it was made for.
MediaAfter(call) ==
    LET op == call.command
    IN  IF call.answer # "Ok" \/ call.cleanup THEN {media}
        ELSE IF op.kind = "Stop" THEN {media, [generation |-> media.generation + 1, loop |-> 0]}
        ELSE IF op.kind = "Advance" THEN {[generation |-> op.cursor.generation, loop |-> op.cursor.loop]}
        ELSE {media}

Receive(k) ==
    /\ calls[k].pc = "Waiting" /\ calls[k].answer # "None"
    /\ media' \in MediaAfter(calls[k])
    /\ Ends(k, CASE calls[k].answer = "Ok"    -> "Done"
                 [] calls[k].answer = "Stale" -> "Stale"
                 [] OTHER                     -> "Failed")
    /\ UNCHANGED <<gate, closing, actorVars>>

\* The command itself stays with the actor.
TimeOut(k) ==
    /\ FaultsHappen
    /\ calls[k].pc = "Waiting" /\ calls[k].answer = "None"
    /\ Ends(k, "TimedOut")
    /\ UNCHANGED <<gate, media, closing, actorVars>>

-----------------------------------------------------------------------------
(* Callers: sending a command *)

\* reserve_operation or register_authoritative_cursor.  Ensure has its lease and
\* lets playback_transition go.
Register(k) ==
    LET op == calls[k].command
    IN  /\ calls[k].pc = "Composed" /\ op.kind \in Cursored
        /\ LockFree
        /\ IF CanRegister(gate, op.cursor)
           THEN /\ gate' = Registered(gate, op.cursor)
                /\ calls' = [calls EXCEPT
                              ![k].pc = IF op.kind = "Ensure" THEN "Leased" ELSE "Ready",
                              ![k].command.revision = gate'.revision]
                /\ IF op.kind = "Ensure" THEN Released(k) ELSE UNCHANGED guard
           ELSE Ends(k, "Stale") /\ UNCHANGED gate
        /\ UNCHANGED <<media, closing, actorVars>>

\* validate_operation_lease: the lease is still the current revision.
Validate(k) ==
    LET op == calls[k].command
        valid == ~Tombstoned(gate, op.cursor.generation) /\ op.revision = gate.revision
    IN  /\ calls[k].pc = "Leased"
        /\ LockFree
        /\ calls' = [calls EXCEPT ![k].pc = IF valid THEN "Ready" ELSE "Stale"]
        /\ UNCHANGED <<gate, guard, media, closing, actorVars>>

\* Faulty variant of Enqueued: the channel has no bound.
EnqueuedWithoutBound(k) == ~ended /\ channel' = Append(channel, calls[k].command)

Enqueued(k) == ~ended /\ Len(channel) < Capacity /\ channel' = Append(channel, calls[k].command)

\* enqueue never blocks: a full channel or a closed runtime is an error.
TrySend(k) ==
    /\ calls[k].pc = "Ready"
    /\ \/ Enqueued(k) /\ calls' = [calls EXCEPT ![k].pc = "Waiting"] /\ UNCHANGED guard
       \/ (closing \/ Len(channel) = Capacity) /\ Ends(k, "Failed") /\ UNCHANGED channel
    /\ UNCHANGED <<gate, media, closing, deferred, rt, launch, published, ended>>

\* stop and enqueue_cancelling_control lock operation_state; a runtime that is
\* closing has no sender.
Lock(k) ==
    /\ calls[k].pc = "Composed" /\ calls[k].command.kind \in Controls
    /\ \/ LockFree /\ calls' = [calls EXCEPT ![k].pc = "Sending"] /\ UNCHANGED guard
       \/ closing /\ Ends(k, "Failed")
    /\ UNCHANGED <<gate, media, closing, actorVars>>

\* Faulty variant of Send: the send does not notice that the actor has returned.
SendToTheLiving(k) ==
    /\ calls[k].pc = "Sending"
    /\ Enqueued(k)
    /\ calls' = [calls EXCEPT ![k].pc = "Publishing"]
    /\ UNCHANGED <<gate, guard, media, closing, deferred, rt, launch, published, ended>>

\* enqueue_control waits for room in the channel.
Send(k) ==
    /\ calls[k].pc = "Sending"
    /\ \/ Enqueued(k) /\ calls' = [calls EXCEPT ![k].pc = "Publishing"] /\ UNCHANGED guard
       \/ ended /\ Ends(k, "Failed") /\ UNCHANGED channel
    /\ UNCHANGED <<gate, media, closing, deferred, rt, launch, published, ended>>

\* Only after the send is the revision advanced, and by a stop the generation buried.
Publish(k) ==
    /\ calls[k].pc = "Publishing"
    /\ gate' = IF calls[k].command.kind = "Stop" THEN StopPublished(gate, media.generation)
               ELSE Cancelled(gate)
    /\ calls' = [calls EXCEPT ![k].pc = "Waiting"]
    /\ UNCHANGED <<guard, media, closing, actorVars>>

\* shutdown: cancel what is in flight, ask the actor to end, join it.
CancelInflight(k) ==
    /\ calls[k].pc = "Composed" /\ calls[k].command.kind = "Shutdown"
    /\ LockFree
    /\ gate' = Cancelled(gate)
    /\ calls' = [calls EXCEPT ![k].pc = "Closing"]
    /\ UNCHANGED <<guard, media, closing, actorVars>>

RequestShutdown(k) ==
    /\ calls[k].pc = "Closing" /\ ~closing
    /\ closing' = TRUE
    /\ UNCHANGED <<gate, guard, media, calls, actorVars>>

Join(k) ==
    /\ calls[k].pc = "Closing" /\ closing /\ ended
    /\ calls' = [calls EXCEPT ![k].pc = "Done"]
    /\ UNCHANGED <<gate, guard, media, closing, actorVars>>

CallerStep(k) ==
    \/ Register(k) \/ Validate(k) \/ TrySend(k) \/ Lock(k) \/ Send(k) \/ Publish(k)
    \/ Receive(k) \/ CancelInflight(k) \/ RequestShutdown(k) \/ Join(k)

-----------------------------------------------------------------------------
(* The actor: taking commands *)

ActorFree == ~ended /\ ~closing /\ launch = NoLaunch

RequiresIdleIpc(kind) == kind \notin {"Stop", "Suspend", "RecordSource"}

InTheWay(op) == RequiresIdleIpc(op.kind) /\ rt.ipc # "None"

\* The answer to the end of file may pass a shader write that waits for a frame
\* which cannot come any more.
EofUnblocks(op) == op.kind = "Advance" /\ rt.ipc = "Presenting" /\ rt.eof = op.eof /\ rt.epoch = op.epoch

\* So may a Play while the picture stands still.  Whether it does is not modelled.
PlayMayUnblock(op) == op.kind = "Play" /\ rt.ipc = "Presenting"

MustWait(op) == InTheWay(op) /\ ~EofUnblocks(op)

MayPass(op) == ~InTheWay(op) \/ EofUnblocks(op) \/ PlayMayUnblock(op)

\* The channel is read only when no deferred command can be handled.
ReadsChannel(op) ==
    /\ ActorFree
    /\ rt.ipc # "None" \/ deferred = <<>>
    /\ channel # <<>> /\ op = Head(channel)
    /\ channel' = Tail(channel)

Handles(op, kind) ==
    /\ op.kind = kind
    /\ \/ /\ ActorFree /\ rt.ipc = "None"
          /\ deferred # <<>> /\ op = Head(deferred)
          /\ deferred' = Tail(deferred)
          /\ UNCHANGED channel
       \/ ReadsChannel(op) /\ MayPass(op) /\ UNCHANGED deferred
    /\ UNCHANGED <<gate, guard, media, closing, ended>>

\* A reply reaches a caller that still waits for this command.
Awaits(call, op) == call.command = op /\ call.pc \in {"Publishing", "Waiting"}

\* The calls after the commands of a queue were answered alike.
Answered(queue, answer) ==
    [k \in Callers |-> IF \E i \in DOMAIN queue : Awaits(calls[k], queue[i])
                       THEN [calls[k] EXCEPT !.answer = answer] ELSE calls[k]]

\* Faulty variant of Defer: a command for which there is no room is dropped unanswered.
DeferringSilently(op) ==
    /\ ReadsChannel(op) /\ MustWait(op)
    /\ deferred' = IF Len(deferred) < Capacity THEN Append(deferred, op) ELSE deferred
    /\ UNCHANGED <<gate, guard, media, calls, rt, launch, published, closing, ended>>

Defer(op) ==
    /\ ReadsChannel(op) /\ MustWait(op)
    /\ IF Len(deferred) < Capacity
       THEN deferred' = Append(deferred, op) /\ UNCHANGED calls
       ELSE calls' = Answered(<<op>>, "Err") /\ UNCHANGED deferred
    /\ UNCHANGED <<gate, guard, media, rt, launch, published, closing, ended>>

\* The end of a handler: publish_status, then the answer.
Replies(op, answer, s) ==
    /\ rt' = s
    /\ published' = View(s)
    /\ launch' = NoLaunch
    /\ calls' = Answered(<<op>>, answer)

\* The handler starts mpv; shown is the status that is out meanwhile.
Launches(op, shown, s, kind, revision, fallback) ==
    /\ rt' = s
    /\ published' = View(shown)
    /\ launch' = [command |-> op, revision |-> revision, kind |-> kind, fallback |-> fallback]
    /\ UNCHANGED calls

\* transition_to_fallback with the revision of this moment, the last level apart.
FallsBack(op, s) ==
    IF s.floor = Original THEN Replies(op, "Ok", OriginalFailed(s))
    ELSE Launches(op, s, Demoted(s), "Start", gate.revision, TRUE)

-----------------------------------------------------------------------------
(* The actor: handlers *)

\* An effect renderer of this generation is left as it is.  Whether a cycle owns
\* the renderer is not modelled, so any renderer above Original may be one.
HealthyEffectSession(generation) ==
    /\ Alive(rt) /\ rt.process.mode < Original
    /\ rt.session # NoCursor /\ rt.session.generation = generation

\* A missing shader takes a GPU floor down to CPU4 before anything is started.
ShaderMissing(s) ==
    [IdentityRecorded(s) EXCEPT !.floor = Larger(@, Cpu4), !.stopped = FALSE,
                                !.eof = NoCursor, !.ipc = "None"]

AfterShaderCheck(s) ==
    IF FaultsHappen /\ s.floor < Cpu4 THEN {s, ShaderMissing(s)} ELSE {s}

\* neutralize_to_source_with_fallback: effects that can not be taken off the
\* picture cost the renderer.
NeutralizationFails(op, s) ==
    /\ FaultsHappen /\ Alive(s)
    /\ IF s.floor = Original THEN Replies(op, "Err", OriginalFailed(s))
       ELSE Launches(op, s, Demoted(s), "Start", gate.revision, TRUE)

HandleEnsure(op) ==
    LET begun == GenerationBegun(rt, op.cursor.generation)
        bound == [begun EXCEPT !.session = op.cursor]
    IN  /\ Handles(op, "Ensure")
        /\ \/ HealthyEffectSession(op.cursor.generation) /\ Replies(op, "Ok", rt)
           \/ IF op.cursor.generation < CurrentGeneration(rt) THEN Replies(op, "Err", rt)
              ELSE IF op.epoch # begun.epoch \/ SyncRejects(begun, op.cursor)
              THEN Replies(op, "Err", begun)
              ELSE IF PreservesProcess(rt, op.cursor.generation)
              THEN Launches(op, rt, bound, "Switch", op.revision, FALSE)
              ELSE \E s \in AfterShaderCheck(bound) :
                      IF Ready(s)
                      THEN \/ Replies(op, "Ok", IdentityRecorded(s))
                           \/ NeutralizationFails(op, s)
                      ELSE Launches(op, rt, ProcessStopped(s), "Start", op.revision, FALSE)

\* A renderer that stands may still refuse the neutral parameters.
ConfigureAnswers == IF FaultsHappen THEN {"Ok", "Err"} ELSE {"Ok"}

\* invalidate_cycle_before_source_recovery comes before every check, and a shader
\* write in flight takes the process with it.
CycleInvalidated(s) ==
    IF s.ipc \in {"Shader", "Presenting"} THEN ProcessStopped(s) ELSE [s EXCEPT !.ipc = "None"]

HandleConfigure(op) ==
    LET clean == CycleInvalidated(rt)
        begun == GenerationBegun(clean, op.cursor.generation)
        bound == [begun EXCEPT !.session = op.cursor]
    IN  /\ Handles(op, "Configure")
        /\ IF op.cursor.generation < CurrentGeneration(clean) THEN Replies(op, "Err", clean)
           ELSE IF op.epoch # begun.epoch THEN Replies(op, "Err", begun)
           ELSE IF PreservesProcess(clean, op.cursor.generation)
           THEN Launches(op, clean, bound, "Switch", op.revision, FALSE)
           ELSE IF LostProcess(bound) /\ bound.floor < Original
           THEN IF op.revision # gate.revision
                THEN \E answer \in {"Ok", "Err"} : Replies(op, answer, bound)
                ELSE Launches(op, clean, Demoted(bound), "Start", op.revision, TRUE)
           ELSE IF Ready(bound)
           THEN \E answer \in ConfigureAnswers : Replies(op, answer, IdentityRecorded(bound))
           ELSE Launches(op, clean, ProcessStopped(bound), "Start", op.revision, FALSE)

\* apply_playback_intent and the synchronize it ends in.  The controller of a cycle
\* refuses a seek while it knows no segment or no frame rate: mpv has moved by then.
HandleIntent(op) ==
    LET next == [rt.sync EXCEPT !.clock = @ + 1]
        moved == CASE op.kind = "Seek"  -> Synchronized(rt, next)
                   [] op.kind = "Pause" -> [Synchronized(rt, rt.sync) EXCEPT !.eof = NoCursor]
                   [] OTHER             -> Synchronized(rt, rt.sync)
        stale == \/ rt.sync = NoCursor \/ rt.session = NoCursor
                 \/ rt.sync.generation # op.cursor.generation
                 \/ op.revision # gate.revision
    IN  /\ op.kind \in Intents /\ Handles(op, op.kind)
        /\ IF stale THEN Replies(op, "Err", rt)
           ELSE IF ~Alive(rt) THEN FallsBack(op, rt)
           ELSE \/ Replies(op, "Ok", moved)
                \/ op.kind = "Seek" /\ Replies(op, "Err", CycleRefused(rt, next))
                \/ FaultsHappen /\ Replies(op, "Err", rt)   \* the result is unknown
                \/ FaultsHappen /\ FallsBack(op, rt)

HandleAdvance(op) ==
    LET clean == [rt EXCEPT !.ipc = "None"]
        expected == op.epoch = rt.epoch /\ rt.eof = op.eof /\ rt.session = op.eof
        bound == [GenerationBegun(clean, op.cursor.generation) EXCEPT !.session = op.cursor]
    IN  /\ Handles(op, "Advance")
        /\ IF op.revision # gate.revision THEN Replies(op, "Err", rt)
           ELSE IF ~expected THEN Replies(op, "Stale", rt)
           ELSE IF op.cursor.generation = op.eof.generation
           THEN \/ Replies(op, "Ok", Synchronized(clean, op.cursor))
                \/ FaultsHappen /\ Replies(op, "Err", clean)
                \/ FaultsHappen /\ Replies(op, "Err", CycleRefused(clean, op.cursor))
                \/ FaultsHappen /\ FallsBack(op, clean)
           ELSE Launches(op, clean, bound, "Switch", op.revision, FALSE)

\* Faulty variant of Aborting: the deferred commands are dropped unanswered.
AbortingSilently(op, kind, s) ==
    /\ op.kind = kind
    /\ ReadsChannel(op)
    /\ deferred' = <<>>
    /\ rt' = s
    /\ published' = View(s)
    /\ calls' = Answered(<<op>>, "Ok")
    /\ UNCHANGED <<gate, guard, media, launch, closing, ended>>

\* Stop and Suspend reject what was deferred before them.
Aborting(op, kind, s) ==
    /\ op.kind = kind
    /\ ReadsChannel(op)
    /\ deferred' = <<>>
    /\ rt' = s
    /\ published' = View(s)
    /\ calls' = [k \in Callers |-> IF Awaits(calls[k], op) THEN [calls[k] EXCEPT !.answer = "Ok"]
                                   ELSE Answered(deferred, "Stale")[k]]
    /\ UNCHANGED <<gate, guard, media, launch, closing, ended>>

HandleStop(op) == Aborting(op, "Stop", NewSession)

HandleSuspend(op) == Aborting(op, "Suspend", Suspended(rt))

HandleRecordSource(op) ==
    Handles(op, "RecordSource") /\ Replies(op, "Ok", SourceRecorded(rt))

\* set_processing_enabled neutralises the effects of a running renderer.
HandleSetProcessing(op) ==
    /\ Handles(op, "SetProcessing")
    /\ Replies(op, "Ok", rt) \/ NeutralizationFails(op, rt)

-----------------------------------------------------------------------------
(* The actor: launches *)

Launching == launch # NoLaunch /\ UNCHANGED <<gate, guard, media, channel, deferred, closing, ended>>

\* Faulty variant of Abandoned: a launch is never given up.
NeverAbandoned == FALSE

Abandoned == launch.revision # gate.revision

LaunchedFor(kind) == launch.command # NoCommand /\ launch.command.kind = kind

LaunchSucceeds ==
    /\ Launching
    /\ ~Abandoned
    /\ rt.session # NoCursor
    /\ \E answer \in IF LaunchedFor("Configure") THEN ConfigureAnswers ELSE {"Ok"} :
          Replies(launch.command, answer, Started(rt))

\* The renderer came up, but to be neutral its effects had to be taken off.
LaunchNeutralizationFails ==
    /\ Launching
    /\ ~Abandoned
    /\ rt.session # NoCursor /\ rt.floor < Original
    /\ FaultsHappen
    /\ LaunchedFor("Ensure") \/ LaunchedFor("SetProcessing")
    /\ rt' = Demoted(Started(rt))
    /\ launch' = [launch EXCEPT !.kind = "Start", !.fallback = TRUE]
    /\ UNCHANGED <<published, calls>>

\* What a command is told whose launch ended without a process: Ensure does not
\* notice, unless it was Original that it started itself or the launch was to make
\* the picture neutral, and Configure notices or not depending on the level that a
\* fallback had reached.
AnswersWithoutProcess ==
    IF LaunchedFor("SetProcessing") THEN {"Err"}
    ELSE IF ~launch.fallback
    THEN {IF LaunchedFor("Ensure") /\ rt.floor < Original THEN "Ok" ELSE "Err"}
    ELSE IF LaunchedFor("Ensure") \/ (LaunchedFor("Configure") /\ rt.floor < Original)
    THEN {"Ok", "Err"} ELSE {"Ok"}

LaunchAbandoned ==
    /\ Launching
    /\ launch.kind = "Start" /\ Abandoned
    /\ \E answer \in AnswersWithoutProcess :
          Replies(launch.command, answer,
                  IF rt.floor = Original THEN OriginalFailed(rt)
                  ELSE IF LaunchedFor("Ensure") THEN IdentityRecorded(rt) ELSE rt)

\* Every level that fails to start is left for the next one; none can be started
\* without a session.
LaunchFails ==
    /\ FaultsHappen \/ rt.session = NoCursor
    /\ Launching
    /\ launch.kind = "Start" /\ ~Abandoned
    /\ IF rt.floor = Original
       THEN \E answer \in AnswersWithoutProcess :
               Replies(launch.command, answer, OriginalFailed(rt))
       ELSE /\ rt' = Demoted(rt)
            /\ launch' = [launch EXCEPT !.fallback = TRUE]
            /\ UNCHANGED <<published, calls>>

\* A switch of the source that did not complete costs the process.  A cancelled
\* neutralisation reports its own error, a cancelled switch a stale one.
SwitchCancelled ==
    /\ Launching
    /\ launch.kind = "Switch" /\ Abandoned
    /\ \E answer \in {"Stale", "Err"} : Replies(launch.command, answer, ProcessStopped(rt))

SwitchFails ==
    /\ FaultsHappen
    /\ Launching
    /\ launch.kind = "Switch" /\ ~Abandoned
    /\ IF LaunchedFor("Advance") THEN Replies(launch.command, "Err", ProcessStopped(rt))
       ELSE /\ rt' = ProcessStopped(rt)
            /\ launch' = [launch EXCEPT !.kind = "Start"]
            /\ UNCHANGED <<published, calls>>

-----------------------------------------------------------------------------
(* The actor: ticks *)

Ticking == ActorFree /\ Alive(rt) /\ (rt.ipc # "None" \/ deferred = <<>>)

Tick(s) ==
    /\ Ticking
    /\ rt' = s
    /\ published' = View(s)
    /\ UNCHANGED <<gate, guard, media, calls, channel, deferred, launch, closing, ended>>

\* A tick with nothing in flight asks for the frame rate or the playback facts.
ProbeBegins == rt.ipc = "None" /\ Tick([rt EXCEPT !.ipc = "Probe"])

\* The answer may make a plan due, whose shader options are then written; at CPU4
\* it is committed at once.  claim_cycle_backend_status records the identity again.
ProbeEnds ==
    /\ rt.ipc = "Probe"
    /\ \E next \in {"None", "Shader"}, s \in {rt, IdentityRecorded(rt)} :
          /\ next = "Shader" => rt.process.mode < Cpu4
          /\ Tick([s EXCEPT !.ipc = next])

ShaderConfirmed == rt.ipc = "Shader" /\ Tick([rt EXCEPT !.ipc = "Presenting"])

\* A frame beyond the commit was seen, which no frame is after the end of file: the
\* plan becomes N.
FramePresented ==
    rt.ipc = "Presenting" /\ rt.eof = NoCursor /\ Tick([IdentityRecorded(rt) EXCEPT !.ipc = "None"])

\* record_eof_observation.  The end of file that mpv reports passes again only by a
\* seek whose answer was late.
EofObserved ==
    /\ rt.ipc \in {"Probe", "Presenting"} /\ rt.sync # NoCursor
    /\ \E eof \in {rt.sync, NoCursor} \ {rt.eof} :
          /\ eof = NoCursor => FaultsHappen
          /\ Tick([rt EXCEPT !.eof = eof, !.ipc = IF @ = "Probe" THEN "None" ELSE @])

\* handle_process_failure out of a tick.
RendererFails ==
    /\ FaultsHappen
    /\ Ticking
    /\ FallsBack(NoCommand, rt)
    /\ UNCHANGED <<gate, guard, media, channel, deferred, closing, ended>>

\* The loop ends: deferred commands are rejected, those in the channel dropped.
ActorEnds ==
    /\ closing /\ ~ended /\ launch = NoLaunch
    /\ ended' = TRUE
    /\ channel' = <<>> /\ deferred' = <<>>
    /\ rt' = NewSession
    /\ published' = View(NewSession)
    /\ calls' = Answered(deferred \o channel, "Err")
    /\ UNCHANGED <<gate, guard, media, launch, closing>>

Handle(op) ==
    \/ Defer(op) \/ HandleEnsure(op) \/ HandleConfigure(op) \/ HandleIntent(op)
    \/ HandleAdvance(op) \/ HandleStop(op) \/ HandleSuspend(op) \/ HandleRecordSource(op)
    \/ HandleSetProcessing(op)

LaunchEnds ==
    \/ LaunchSucceeds \/ LaunchNeutralizationFails
    \/ LaunchAbandoned \/ LaunchFails \/ SwitchCancelled \/ SwitchFails

NextCommands == {queue[1] : queue \in {channel, deferred} \ {<<>>}}

ActorStep == (\E op \in NextCommands : Handle(op)) \/ LaunchEnds \/ ActorEnds

Ticks == ProbeBegins \/ ProbeEnds \/ ShaderConfirmed \/ FramePresented \/ EofObserved

Next ==
    \/ \E k \in Callers : Enter(k) \/ Complete(k) \/ CallerStep(k) \/ TimeOut(k)
    \/ ActorStep \/ Ticks \/ RendererFails

Spec == Init /\ [][Next]_vars

\* A thread of the desktop program that can go on does, a deadline passes, the
\* actor takes what is in its queues and a launch succeeds, fails or is given up.
Fairness ==
    /\ \A k \in Callers : WF_vars(CallerStep(k)) /\ WF_vars(TimeOut(k))
    /\ WF_vars(ActorStep)

FairSpec == Spec /\ Fairness

-----------------------------------------------------------------------------
(* Properties of the gate and the queues *)

TypeOK ==
    /\ gate \in Gate
    /\ guard \in Callers \cup {NoCaller}
    /\ media \in [generation : Nat, loop : Nat]
    /\ calls \in [Callers -> Call]
    /\ channel \in Seq(Command) /\ Len(channel) <= Capacity
    /\ deferred \in Seq(Command) /\ Len(deferred) <= Capacity
    /\ rt \in Session
    /\ launch \in Launch \cup {NoLaunch}
    /\ published \in Status
    /\ closing \in BOOLEAN /\ ended \in BOOLEAN

\* The commands that exist: with their callers, on their way or being carried out.
Commands ==
    ({calls[k].command : k \in Callers}
       \cup {channel[i] : i \in DOMAIN channel} \cup {deferred[i] : i \in DOMAIN deferred}
       \cup (IF launch = NoLaunch THEN {} ELSE {launch.command})) \ {NoCommand}

\* A lease whose revision is still current speaks about the latest cursor the
\* gate has seen, and about a generation that no stop has buried.  Wherever the
\* command waits, the comparison of two numbers in the actor stands for both.
CurrentOperationIsLive ==
    \A op \in Commands :
        op.kind \in Cursored /\ op.revision = gate.revision =>
            op.cursor = gate.latestCursor /\ ~Tombstoned(gate, op.cursor.generation)

RendererStarts == launch # NoLaunch /\ rt'.process # rt.process /\ Alive(rt')

\* However long mpv takes to start, a renderer comes up under the lease of a command
\* only while its generation is not stopped, and for Ensure, Configure and a change of
\* the medium only while their cursor is the latest: start_renderer compares the
\* revision before it makes the process its own.
RendererStartsForTheLatestCursor ==
    [][RendererStarts /\ launch.command # NoCommand /\ launch.command.kind \in Cursored
         /\ launch.revision = launch.command.revision =>
         /\ ~Tombstoned(gate, rt'.process.generation)
         /\ launch.command.kind \in Rendering \/ launch.kind = "Switch" =>
               rt'.session = gate.latestCursor]_vars

Places(op) == {<<"channel", i>> : i \in {i \in DOMAIN channel : channel[i] = op}}
             \cup {<<"deferred", i>> : i \in {i \in DOMAIN deferred : deferred[i] = op}}
             \cup (IF launch # NoLaunch /\ launch.command = op THEN {<<"launch", 0>>} ELSE {})

\* No command is lost and none is carried out twice: while its caller waits it
\* is in exactly one of the channel, the deferred queue and the actor's hands,
\* and once answered in none.
WaitingCallIsInOnePlace ==
    \A k \in Callers :
        calls[k].pc \in {"Publishing", "Waiting"} =>
            Cardinality(Places(calls[k].command)) = IF calls[k].answer = "None" THEN 1 ELSE 0

\* Every call returns, although a stop waits for room in the channel with the
\* gate locked, a deferred command may wait for a frame that never comes, and a
\* shutdown waits for an actor that may be starting mpv.
EveryCallReturns ==
    \A k \in Callers : calls[k].pc \in Working ~> calls[k].pc \in Returned

-----------------------------------------------------------------------------
(* Properties of the renderer *)

\* Between launches a running renderer plays the generation of its session at
\* the level of the ladder that the session has reached, whichever launches were
\* abandoned, failed or fell back on the way.
RendererAgreesWithSession ==
    launch = NoLaunch /\ Alive(rt) /\ rt.session # NoCursor =>
        /\ rt.process.generation = rt.session.generation
        /\ rt.process.mode = rt.floor
        /\ rt.sync # NoCursor => rt.sync.generation = rt.session.generation

Settled ==
    /\ \A k \in Callers : calls[k].pc \in {"Idle"} \cup Returned
    /\ channel = <<>> /\ deferred = <<>> /\ launch = NoLaunch

\* Once every command has been dealt with, a running renderer that no stop has
\* buried plays the medium of PlaybackCore and no later loop of it: no failed, late
\* or refused advance leaves the renderer on another medium or ahead of the audio.
\* Behind it may be: a renderer that was replaced during an advance plays the old
\* loop again, and the WebView completes loops while mpv starts.  A buried one can
\* be running: a stop sends its command first and buries the generation afterwards,
\* and a launch between the two brings up a renderer the stop has not seen.
RendererPlaysTheMedium ==
    Settled /\ Alive(rt) /\ ~Tombstoned(gate, rt.process.generation) =>
        rt.process.generation = media.generation /\ rt.session.loop <= media.loop

-----------------------------------------------------------------------------
(* What the documents promise and the code does not keep *)

\* A stop that has returned buried the generation: no request composed before
\* brings a renderer of it back.
StopBuries ==
    \A k \in Callers :
        calls[k].pc = "Done" /\ calls[k].command.kind = "Stop" /\ Alive(rt) =>
            ~Tombstoned(gate, rt.process.generation)

\* Only a failure of the renderer takes a session down the ladder: one that was
\* suspended on purpose starts again at its level.
FloorStaysWithoutFailures == ~FaultsHappen => rt.floor = 1

\* A suspended generation can be started again: the gate accepts the cursor that
\* Ensure and Configure compose for it, however many loops and seeks came between.
SuspendedGenerationCanBindAgain ==
    Settled /\ ~closing /\ rt.stopped
      /\ rt.session # NoCursor /\ rt.session.generation = media.generation =>
        CanRegister(gate, MediaCursor)

\* The status that is out when the end of file is reported names the cursor it is
\* reported for, or the supervisor of the end of file refuses it and the medium stays
\* at its end.
EofIsPublishedWithItsIdentity ==
    ~FaultsHappen /\ published.eof # NoCursor => published.identity = published.eof

\* An advance that only lost a race does not cost the session its renderer.
LostRaceReleasesNothing == ~FaultsHappen => \A k \in Callers : ~calls[k].cleanup
=============================================================================

----------------------------- MODULE VideoSession -----------------------------
(***************************************************************************)
(* The renderer session that the actor of realtime_video_runtime.rs owns:  *)
(* which media cursor it plays, through which mpv process, at which level  *)
(* of the one-way ladder of launch modes.  Each operator is the effect of  *)
(* one function of RuntimeState on that part of its state; the plans, the  *)
(* shader transaction and the audio alignment of the session are left out. *)
(***************************************************************************)
EXTENDS VideoOperationGate

CONSTANTS
    Modes,       \* launch modes are 1..Modes: GPU profiles, CPU4, Original last
    NoProcess

ASSUME ModesAssumption == Modes \in Nat /\ Modes >= 3

Original == Modes
Cpu4 == Modes - 1

\* The mpv process, the media generation it plays and its launch mode.
Process == [generation : Nat, mode : 1..Modes]

ASSUME NoProcessAssumption == NoProcess \notin Process

\* An IPC transaction in flight: a read of the frame rate or of the playback
\* facts, a shader write awaiting its response, or one awaiting its frame.
Ipc == {"None", "Probe", "Shader", "Presenting"}

Session ==
    [session  : Cursor \cup {NoCursor},   \* RendererSessionContext
     sync     : Cursor \cup {NoCursor},   \* sync_cursor
     identity : Cursor \cup {NoCursor},   \* the identity written to the status
     epoch    : Nat,                      \* backend_epoch
     process  : Process \cup {NoProcess},
     floor    : 1..Modes,                 \* VideoBackendStateMachine
     stopped  : BOOLEAN,                  \* lifecycle = Stopped: on purpose, not lost
     eof      : Cursor \cup {NoCursor},   \* the VideoEofFact of this epoch
     ipc      : Ipc]

NewSession ==
    [session |-> NoCursor, sync |-> NoCursor, identity |-> NoCursor, epoch |-> 0,
     process |-> NoProcess, floor |-> 1, stopped |-> TRUE, eof |-> NoCursor, ipc |-> "None"]

Alive(s) == s.process # NoProcess

\* The generation begin_generation compares with.
CurrentGeneration(s) ==
    IF s.session # NoCursor THEN s.session.generation
    ELSE IF s.sync # NoCursor THEN s.sync.generation ELSE -1

ProcessStopped(s) == [s EXCEPT !.process = NoProcess, !.ipc = "None", !.eof = NoCursor]

\* record_session_identity keeps the old identity when there is no session.
IdentityRecorded(s) == IF s.session = NoCursor THEN s ELSE [s EXCEPT !.identity = s.session]

Suspended(s) ==
    [ProcessStopped(s) EXCEPT !.stopped = TRUE, !.identity = s.session,
                              !.epoch = IF s.session = NoCursor THEN 0 ELSE @ + 1]

\* record_source_backend: everything but the floor.
SourceRecorded(s) == [NewSession EXCEPT !.floor = s.floor]

\* Faulty variant of Demoted: the process of the level that failed is left running.
DemotedWithProcess(s) == [IdentityRecorded(s) EXCEPT !.floor = @ + 1, !.stopped = FALSE]

\* Nothing moves up the ladder within a generation.
Demoted(s) == [ProcessStopped(IdentityRecorded(s)) EXCEPT !.floor = @ + 1, !.stopped = FALSE]

OriginalFailed(s) == [ProcessStopped(s) EXCEPT !.stopped = FALSE, !.identity = s.session]

\* A launch or an in-place source switch that succeeded.
Started(s) ==
    [s EXCEPT !.process = [generation |-> s.session.generation, mode |-> s.floor],
              !.sync = s.session, !.identity = s.session, !.epoch = @ + 1,
              !.stopped = FALSE, !.eof = NoCursor]

\* begin_generation: the process survives only into the next generation, and
\* only from the confirmed end of the media it plays.
PreservesProcess(s, generation) ==
    /\ Alive(s)
    /\ s.session # NoCursor /\ s.eof = s.session
    /\ generation = s.session.generation + 1

GenerationBegun(s, generation) ==
    IF CurrentGeneration(s) \in {-1, generation} THEN s
    ELSE IF PreservesProcess(s, generation)
    THEN [NewSession EXCEPT !.floor = s.floor, !.process = s.process]
    ELSE NewSession

\* resolve_sync_transition: never back, never more than one loop ahead.
SyncRejects(s, cursor) ==
    /\ s.sync # NoCursor
    /\ \/ cursor.generation # s.sync.generation
       \/ cursor.clock < s.sync.clock
       \/ cursor.loop < s.sync.loop
       \/ cursor.loop > s.sync.loop + 1

\* The mpv commands of a synchronize succeeded.  A seek or a loop is a boundary:
\* the end-of-file fact and a transaction of the old segment are dropped.
Synchronized(s, next) ==
    LET moved == [s EXCEPT !.session = next, !.sync = next, !.identity = next]
    IN  IF next = s.sync THEN moved ELSE [moved EXCEPT !.eof = NoCursor, !.ipc = "None"]

\* The same when reset_cycle_controller_for_boundary fails: the cursor has moved, the
\* identity in the status has not.
CycleRefused(s, next) == [Synchronized(s, next) EXCEPT !.identity = s.identity]

\* The process need not be started again: it plays the source of the session, each
\* generation having a source of its own, at the level the ladder has reached.
Ready(s) == s.process = [generation |-> s.session.generation, mode |-> s.floor]

\* A process is missing that nobody stopped: gpu_prepare_disposition.
LostProcess(s) == ~Alive(s) /\ s.epoch > 0 /\ ~s.stopped
=============================================================================

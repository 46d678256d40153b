-------------------------- MODULE MediaProcessing ---------------------------
(***************************************************************************)
(* The candidates of PlaybackCore and the threads that render them, as     *)
(* commands.rs runs them: one slot per domain for the worker that renders, *)
(* the commands of the page, and the files they leave in the cache.        *)
(*                                                                         *)
(* A command that is declared without async runs on the main thread, one   *)
(* after the other; the others run on threads of their own.  They meet in  *)
(* the lock of a playback transition, in the lock of the core, which is    *)
(* held for one step here, and in the slots.  A file has the number of the *)
(* worker that renders it.  Shutting down is left out: a worker is always  *)
(* installed.                                                              *)
(***************************************************************************)
EXTENDS PlaybackCore, FiniteSets

CONSTANTS
    Background,   \* threads that run an asynchronous command
    Kinds,        \* the commands that are issued
    Pools,        \* the pools an edit may lead to
    FirstPool,    \* the pool at the beginning
    Configs,      \* parameters of the sound
    MaxWorkers,   \* bound: workers that are started
    MaxOps,       \* bound: commands issued, the polls aside
    MayTimeOut    \* whether a worker may outlive the budget of a stop

Main    == "Main"
Nobody  == "Nobody"
Actors  == Background \cup {Main}
Domains == {"video", "audio"}
Workers == 1 .. MaxWorkers

MainKinds == {"Poll", "Start", "Release", "Cleanup", "Edit", "Discard", "Commit", "Profile"}
BackKinds == {"Prepare", "Switch", "Stop", "Complete", "Play"}

MediaAssumption ==
    /\ Main \notin Background /\ Nobody \notin Background
    /\ Kinds \subseteq MainKinds \cup BackKinds
    /\ FirstConfig \in Configs /\ NoConfig \notin Configs
    /\ FirstPool \in Pools /\ FirstPool # <<>>
    /\ {MaxWorkers, MaxOps} \subseteq Nat
    /\ MayTimeOut \in BOOLEAN

VARIABLES
    core,        \* PlaybackCore
    rendererOn,  \* whether the video runtime processes the picture
    worker,      \* of each worker: how far it is, and what it renders
    slot,        \* video_media_worker, audio_media_worker
    transition,  \* who holds playback_transition
    op,          \* of each thread: its command
    disk,        \* finished files in the cache
    seen,        \* files the page was told of
    issued

vars == <<core, rendererOn, worker, slot, transition, op, disk, seen, issued>>

NoWorker == [domain |-> "video", phase |-> "Free", cancelled |-> FALSE,
             candidate |-> NoCandidate, config |-> NoConfig, generation |-> 0, loop |-> 0]
NoOp == [kind |-> "None", pc |-> "Idle", todo |-> <<>>, next |-> "Idle", failed |-> FALSE,
         domain |-> "video", candidate |-> NoCandidate, config |-> NoConfig, worker |-> 0,
         generation |-> 0, loop |-> 0, index |-> 0, revision |-> 0, files |-> {},
         running |-> {}, on |-> [video |-> FALSE, audio |-> FALSE], pool |-> <<>>]

Phases == {"Free", "Rendering", "Rendered", "Broken", "Written", "Done"}

TypeOK ==
    /\ core \in CoreType(Configs, UNION {{p[i] : i \in DOMAIN p} : p \in Pools})
    /\ HasSource(core) => core.index < Len(core.pool)
    /\ rendererOn \in BOOLEAN
    /\ worker \in [Workers -> [domain : Domains, phase : Phases, cancelled : BOOLEAN,
                               candidate : Candidates, config : Configs \cup {NoConfig},
                               generation : Nat, loop : Nat]]
    /\ slot \in [Domains -> Workers \cup {0}]
    /\ transition \in Actors \cup {Nobody}
    /\ \A p \in Actors : op[p].kind \in MainKinds \cup BackKinds \cup {"None"}
    /\ disk \subseteq Workers /\ seen \subseteq Workers
    /\ issued \in 0 .. MaxOps

\* An imported pool is ready to be played, both switches are on.
Init ==
    /\ core = SwitchesSet(SetPool(Default, FirstPool), TRUE, TRUE, FALSE)
    /\ rendererOn = TRUE
    /\ worker = [w \in Workers |-> NoWorker]
    /\ slot = [d \in Domains |-> 0]
    /\ transition = Nobody
    /\ op = [p \in Actors |-> NoOp]
    /\ disk = {} /\ seen = {}
    /\ issued = 0

-----------------------------------------------------------------------------
(* Helpers *)

At(p, pc)   == op[p].pc = pc
Goes(p, pc) == op' = [op EXCEPT ![p].pc = pc]
Finished(w) == worker[w].phase = "Done"
Alive(w)    == worker[w].phase \in {"Rendering", "Rendered", "Broken", "Written"}

\* The files current and pending refer to.
Named(c) == {c.video.file, c.video.current, c.audio.file, c.audio.current} \ {NoFile}

\* Every snapshot that is answered shows the page what the core names.
CoreBecomes(c) == core' = c /\ seen' = seen \cup Named(c)

\* reap_finished_media_worker_slot
Reaped(S) == [d \in Domains |->
                 IF d \in S /\ slot[d] # 0 /\ Finished(slot[d]) THEN 0 ELSE slot[d]]

Issue(p, kind) ==
    /\ op[p] = NoOp
    /\ kind \in Kinds
    /\ kind \in IF p = Main THEN MainKinds ELSE BackKinds
    /\ issued < MaxOps /\ issued' = issued + 1

TakesTransition(p) == transition = Nobody /\ transition' = p

Returns(p) ==
    /\ op' = [op EXCEPT ![p] = NoOp]
    /\ transition' = IF transition = p THEN Nobody ELSE transition

\* A worker is chosen for a command that will start one.
FreeWorker == {w \in Workers : worker[w].phase = "Free"
                               /\ \A p \in Actors : op[p].worker # w}
NewWorker == CHOOSE w \in FreeWorker : \A v \in FreeWorker : w <= v

\* The commands of the page name a candidate it was told of.
Told == {worker[w].candidate : w \in {v \in Workers : worker[v].phase # "Free"}}

-----------------------------------------------------------------------------
(* The thread that renders *)

RenderEnds(w) ==
    /\ worker[w].phase = "Rendering"
    /\ \/ /\ ~worker[w].cancelled
          /\ worker' = [worker EXCEPT ![w].phase = "Rendered"] /\ disk' = disk \cup {w}
       \/ worker' = [worker EXCEPT ![w].phase = "Broken"] /\ UNCHANGED disk
    /\ UNCHANGED <<core, rendererOn, slot, transition, op, seen, issued>>

\* The result is given to the core unless its generation is over; what is refused is deleted.
VideoWrites(w) ==
    /\ worker[w].domain = "video" /\ worker[w].phase \in {"Rendered", "Broken"}
    /\ worker' = [worker EXCEPT ![w].phase = "Written"]
    /\ LET now == core.generation = worker[w].generation
           ok  == worker[w].phase = "Rendered"
       IN  \/ /\ ok /\ now /\ VideoAccepts(core, worker[w].candidate)
              /\ CoreBecomes(VideoReady(core, worker[w].candidate, w)) /\ UNCHANGED disk
           \/ /\ ok /\ ~(now /\ VideoAccepts(core, worker[w].candidate))
              /\ disk' = disk \ {w} /\ UNCHANGED <<core, seen>>
           \/ /\ ~ok
              /\ CoreBecomes(IF now THEN VideoFailed(core) ELSE core) /\ UNCHANGED disk
    /\ UNCHANGED <<rendererOn, slot, transition, op, issued>>

\* A failure of the sound is written whatever the core waits for.
AudioWrites(w) ==
    /\ worker[w].domain = "audio" /\ worker[w].phase \in {"Rendered", "Broken"}
    /\ worker' = [worker EXCEPT ![w].phase = "Written"]
    /\ LET ok == worker[w].phase = "Rendered"
       IN  \/ /\ ok /\ AudioAccepts(core, worker[w].candidate)
              /\ CoreBecomes(AudioReady(core, worker[w].candidate, w)) /\ UNCHANGED disk
           \/ /\ ok /\ ~AudioAccepts(core, worker[w].candidate)
              /\ disk' = disk \ {w} /\ UNCHANGED <<core, seen>>
           \/ ~ok /\ CoreBecomes(AudioFailed(core)) /\ UNCHANGED disk
    /\ UNCHANGED <<rendererOn, slot, transition, op, issued>>

ThreadEnds(w) ==
    /\ worker[w].phase = "Written"
    /\ worker' = [worker EXCEPT ![w].phase = "Done"]
    /\ UNCHANGED <<core, rendererOn, slot, transition, op, disk, seen, issued>>

-----------------------------------------------------------------------------
(* Stopping the workers: op[p].todo are the domains that are left, then op[p].next. *)

StopsNext(p) ==
    /\ At(p, "Stopping")
    /\ LET d == Head(op[p].todo)
       IN  \/ /\ op[p].todo = <<>> /\ ~op[p].failed
              /\ Goes(p, op[p].next) /\ UNCHANGED <<worker, transition>>
           \/ op[p].todo = <<>> /\ op[p].failed /\ Returns(p) /\ UNCHANGED worker
           \/ /\ op[p].todo # <<>> /\ slot[d] = 0
              /\ op' = [op EXCEPT ![p].todo = Tail(@)] /\ UNCHANGED <<worker, transition>>
           \/ /\ op[p].todo # <<>> /\ slot[d] # 0
              /\ worker' = [worker EXCEPT ![slot[d]].cancelled = TRUE]
              /\ Goes(p, "Joining") /\ UNCHANGED transition
    /\ UNCHANGED <<core, rendererOn, slot, disk, seen, issued>>

\* Faulty variant of Joins: a worker that outlives the budget is taken out of its slot.
JoinsAnyway(p) ==
    /\ At(p, "Joining")
    /\ LET d == Head(op[p].todo)
       IN  \/ slot[d] = 0 /\ Goes(p, "Marking") /\ UNCHANGED slot
           \/ /\ slot[d] # 0 /\ (MayTimeOut \/ Finished(slot[d]))
              /\ slot' = [slot EXCEPT ![d] = 0] /\ Goes(p, "Marking")
    /\ UNCHANGED <<core, rendererOn, worker, transition, disk, seen, issued>>

\* join_background_worker_until: a worker that does not end in time keeps its slot.
Joins(p) ==
    /\ At(p, "Joining")
    /\ LET d == Head(op[p].todo)
           bothAreTried == op[p].kind \in {"Edit", "Stop"}
       IN  \/ slot[d] = 0 /\ Goes(p, "Marking") /\ UNCHANGED <<slot, transition>>
           \/ /\ slot[d] # 0 /\ Finished(slot[d])
              /\ slot' = [slot EXCEPT ![d] = 0] /\ Goes(p, "Marking") /\ UNCHANGED transition
           \/ /\ slot[d] # 0 /\ ~Finished(slot[d]) /\ MayTimeOut /\ bothAreTried
              /\ op' = [op EXCEPT ![p].todo = Tail(@), ![p].failed = TRUE, ![p].pc = "Stopping"]
              /\ UNCHANGED <<slot, transition>>
           \/ /\ slot[d] # 0 /\ ~Finished(slot[d]) /\ MayTimeOut /\ ~bothAreTried
              /\ Returns(p) /\ UNCHANGED slot
    /\ UNCHANGED <<core, rendererOn, worker, disk, seen, issued>>

MarksStopped(p) ==
    /\ At(p, "Marking")
    /\ LET d == Head(op[p].todo)
       IN  CoreBecomes(IF d = "video" /\ core.video.status = "processing" THEN VideoFailed(core)
                       ELSE IF d = "audio" /\ core.audio.status = "processing"
                       THEN AudioFailed(core) ELSE core)
    /\ op' = [op EXCEPT ![p].todo = Tail(@), ![p].pc = "Stopping"]
    /\ UNCHANGED <<rendererOn, worker, slot, transition, disk, issued>>

-----------------------------------------------------------------------------
(* Short commands of the page on the main thread *)

\* get_snapshot: the slots are looked at before the core is locked.
PollReads ==
    /\ op[Main] = NoOp /\ "Poll" \in Kinds
    /\ slot' = Reaped(Domains)
    /\ op' = [op EXCEPT ![Main].kind = "Poll", ![Main].pc = "PollClears",
                        ![Main].running = {d \in Domains : slot'[d] # 0}]
    /\ UNCHANGED <<core, rendererOn, worker, transition, disk, seen, issued>>

\* clear_stale_processing
Unstale(c, running) ==
    LET a == IF "video" \notin running /\ c.video.status = "processing" THEN VideoFailed(c) ELSE c
    IN  IF "audio" \notin running /\ c.audio.status = "processing" THEN AudioFailed(a) ELSE a

PollClears ==
    /\ At(Main, "PollClears")
    /\ CoreBecomes(Unstale(core, op[Main].running))
    /\ Returns(Main)
    /\ UNCHANGED <<rendererOn, worker, slot, disk, issued>>

Commits ==
    /\ Issue(Main, "Commit")
    /\ \E c \in Told :
          \/ /\ CoreBecomes(AudioCommitted(core, c)) /\ slot' = Reaped({"audio"})
             /\ UNCHANGED op
          \/ \E observed \in {"Before", "Within", "After"} :
                /\ CoreBecomes(VideoCommitted(core, c, observed)) /\ slot' = Reaped({"video"})
                /\ IF observed = "After" /\ core'.video.file # core.video.file
                   THEN op' = [op EXCEPT ![Main].kind = "Commit", ![Main].pc = "Deletes",
                                         ![Main].files = {core.video.file}]
                   ELSE UNCHANGED op
    /\ UNCHANGED <<rendererOn, worker, transition, disk>>

Discards ==
    /\ Issue(Main, "Discard")
    /\ \E c \in Told, d \in Domains :
          /\ CoreBecomes(IF d = "video" THEN VideoDiscarded(core, c) ELSE AudioDiscarded(core, c))
          /\ slot' = Reaped({d})
          /\ LET dropped == {core[d].file} \ {NoFile, core'[d].file}
             IN  IF dropped = {} THEN UNCHANGED op
                 ELSE op' = [op EXCEPT ![Main].kind = "Discard", ![Main].pc = "Deletes",
                                       ![Main].files = dropped]
    /\ UNCHANGED <<rendererOn, worker, transition, disk>>

\* Faulty variant of Protected: a file that is only pending may be released.
ProtectedCurrent(d) == {core[d].current} \ {NoFile}

\* A release looks at what the domain of the file refers to.
Protected(d) == {core[d].current, core[d].file} \ {NoFile}

Releases ==
    /\ Issue(Main, "Release")
    /\ \E f \in seen \ Protected("video"), d \in Domains :
          /\ d = worker[f].domain /\ f \notin Protected(d)
          /\ op' = [op EXCEPT ![Main].kind = "Release", ![Main].pc = "Deletes",
                              ![Main].files = {f}]
    /\ UNCHANGED <<core, rendererOn, worker, slot, transition, disk, seen>>

Deletes ==
    /\ At(Main, "Deletes")
    /\ disk' = disk \ op[Main].files
    /\ Returns(Main)
    /\ UNCHANGED <<core, rendererOn, worker, slot, seen, issued>>

ProfileChanges ==
    /\ Issue(Main, "Profile")
    /\ \E k \in Configs : CoreBecomes(ProfileSet(core, k))
    /\ slot' = Reaped({"audio"})
    /\ UNCHANGED <<rendererOn, worker, transition, op, disk>>

-----------------------------------------------------------------------------
(* cleanup_media_processing_cache *)

CleanupBegins ==
    /\ Issue(Main, "Cleanup")
    /\ slot' = Reaped(Domains)
    /\ IF \E d \in Domains : slot'[d] # 0 THEN UNCHANGED op
       ELSE op' = [op EXCEPT ![Main].kind = "Cleanup", ![Main].pc = "CleanupReads"]
    /\ UNCHANGED <<core, rendererOn, worker, transition, disk, seen>>

CleanupReads ==
    /\ At(Main, "CleanupReads")
    /\ IF \/ "processing" \in {core.video.status, core.audio.status}
          \/ core.state = "Playing" /\ core.audio.on
       THEN Returns(Main)
       ELSE /\ op' = [op EXCEPT ![Main].files = Named(core), ![Main].pc = "Sweeps"]
            /\ UNCHANGED transition
    /\ UNCHANGED <<core, rendererOn, worker, slot, disk, seen, issued>>

\* Every finished file that is on the disk by now and was not referred to then.
Sweeps ==
    /\ At(Main, "Sweeps")
    /\ disk' = disk \cap op[Main].files
    /\ Returns(Main)
    /\ UNCHANGED <<core, rendererOn, worker, slot, seen, issued>>

-----------------------------------------------------------------------------
(* start_media_processing *)

Scopes == {"video", "audio", "both"}

StartBegins ==
    /\ Issue(Main, "Start")
    /\ TakesTransition(Main) /\ FreeWorker # {}
    /\ slot' = Reaped({"video"})
    /\ \E k \in Configs, scope \in Scopes :
          LET on == [video |-> VideoApplies(core) /\ scope # "audio",
                     audio |-> core.audio.on /\ scope # "video"]
          IN  op' = [op EXCEPT ![Main].kind = "Start", ![Main].config = k, ![Main].on = on,
                        ![Main].generation = core.generation, ![Main].revision = core.revision,
                        ![Main].worker = NewWorker,
                        ![Main].pc = IF slot'["video"] = 0 /\ HasSource(core)
                                        /\ (on.video \/ on.audio)
                                     THEN "StartMarks" ELSE "Ends"]
    /\ UNCHANGED <<core, rendererOn, worker, disk, seen>>

Ends(p) ==
    /\ At(p, "Ends")
    /\ Returns(p)
    /\ UNCHANGED <<core, rendererOn, worker, slot, disk, seen, issued>>

\* The engine may be missing, and the arguments for it may not be built.
StartMarks ==
    /\ At(Main, "StartMarks")
    /\ LET k == IF op[Main].on.audio THEN Configured(core, op[Main].config) ELSE core
           c == [sequence |-> op[Main].worker, generation |-> k.generation, revision |-> k.revision]
           stale == \/ op[Main].generation # core.generation
                    \/ op[Main].on.audio /\ op[Main].revision # core.revision
       IN  \/ CoreBecomes(VideoFailed(core)) /\ Goes(Main, "Ends")
           \/ stale /\ Goes(Main, "Ends") /\ UNCHANGED <<core, seen>>
           \/ ~stale /\ CoreBecomes(VideoFailed(VideoRunning(k, c))) /\ Goes(Main, "Ends")
           \/ /\ ~stale /\ CoreBecomes(VideoRunning(k, c))
              /\ op' = [op EXCEPT ![Main].candidate = c, ![Main].domain = "video",
                                  ![Main].pc = "Spawns"]
    /\ UNCHANGED <<rendererOn, worker, slot, transition, disk, issued>>

\* The thread runs before it is in the slot.
Spawns(p) ==
    /\ At(p, "Spawns")
    /\ worker' = [worker EXCEPT ![op[p].worker] =
                     [domain |-> op[p].domain, phase |-> "Rendering", cancelled |-> FALSE,
                      candidate |-> op[p].candidate, config |-> op[p].config,
                      generation |-> op[p].candidate.generation, loop |-> op[p].loop]]
    /\ Goes(p, "Installs")
    /\ UNCHANGED <<core, rendererOn, slot, transition, disk, seen, issued>>

Installs(p) ==
    /\ At(p, "Installs")
    /\ slot[op[p].domain] = 0
    /\ slot' = [slot EXCEPT ![op[p].domain] = op[p].worker]
    /\ Returns(p)
    /\ UNCHANGED <<core, rendererOn, worker, disk, seen, issued>>

-----------------------------------------------------------------------------
(* prepare_audio_media_candidate, on a thread of its own *)

PrepareBegins(p) ==
    /\ Issue(p, "Prepare")
    /\ transition = Nobody /\ FreeWorker # {}
    /\ slot' = Reaped({"audio"})
    /\ \E k \in Configs :
          IF slot'["audio"] # 0 \/ core.audio.candidate # NoCandidate
             \/ ~HasSource(core) \/ ~core.audio.on
          THEN UNCHANGED op
          ELSE op' = [op EXCEPT ![p].kind = "Prepare", ![p].config = k, ![p].pc = "Prepares",
                         ![p].worker = NewWorker, ![p].generation = core.generation, ![p].revision = core.revision]
    /\ UNCHANGED <<core, rendererOn, worker, transition, disk, seen>>

\* Without the lock: resources, the ambient sound, the filter graph.
Prepares(p) ==
    /\ At(p, "Prepares")
    /\ \E pc \in {"Ends", "PrepareFails", "PrepareMarks"} : Goes(p, pc)
    /\ UNCHANGED <<core, rendererOn, worker, slot, transition, disk, seen, issued>>

StillCurrent(p) == op[p].generation = core.generation /\ op[p].revision = core.revision
PreparedCandidate(p) ==
    [sequence |-> op[p].worker, generation |-> op[p].generation, revision |-> op[p].revision]

\* The arguments could not be built: a candidate is put in place and fails.
PrepareFails(p) ==
    /\ At(p, "PrepareFails") /\ transition = Nobody
    /\ CoreBecomes(IF StillCurrent(p) /\ AudioMayRun(core, PreparedCandidate(p))
                   THEN AudioFailed(AudioRunning(core, PreparedCandidate(p), op[p].config))
                   ELSE core)
    /\ Goes(p, "Ends")
    /\ UNCHANGED <<rendererOn, worker, slot, transition, disk, issued>>

\* Faulty variant of MayMark: what was checked before the preparation is not checked again.
MayMarkUnchecked(p) == StillCurrent(p) /\ AudioMayRun(core, PreparedCandidate(p))

\* The second check, under the lock the candidate is installed with.
MayMark(p) ==
    /\ slot'["audio"] = 0
    /\ StillCurrent(p)
    /\ core.audio.candidate = NoCandidate
    /\ AudioMayRun(core, PreparedCandidate(p))

PrepareMarks(p) ==
    /\ At(p, "PrepareMarks")
    /\ TakesTransition(p)
    /\ slot' = Reaped({"audio"})
    /\ IF MayMark(p)
       THEN /\ CoreBecomes(AudioRunning(core, PreparedCandidate(p), op[p].config))
            /\ op' = [op EXCEPT ![p].domain = "audio", ![p].candidate = core'.audio.candidate,
                                ![p].loop = core.loop, ![p].pc = "Spawns"]
       ELSE Goes(p, "Ends") /\ UNCHANGED <<core, seen>>
    /\ UNCHANGED <<rendererOn, worker, disk, issued>>

-----------------------------------------------------------------------------
(* set_processing_switches: what changes is read before the lock is taken, and the lock is *)
(* only taken for the picture. *)

SwitchReads(p) ==
    /\ Issue(p, "Switch")
    /\ \E video, audio \in BOOLEAN :
          op' = [op EXCEPT ![p].kind = "Switch", ![p].on = [video |-> video, audio |-> audio],
                    ![p].running = (IF video # core.video.on THEN {"video"} ELSE {})
                                   \cup (IF audio # core.audio.on THEN {"audio"} ELSE {}),
                    ![p].pc = IF video # core.video.on THEN "SwitchLocks" ELSE "SwitchAudio"]
    /\ UNCHANGED <<core, rendererOn, worker, slot, transition, disk, seen>>

SwitchLocks(p) ==
    /\ At(p, "SwitchLocks")
    /\ TakesTransition(p)
    /\ op' = [op EXCEPT ![p].todo = <<"video">>, ![p].next = "SwitchRenderer",
                        ![p].pc = "Stopping"]
    /\ UNCHANGED <<core, rendererOn, worker, slot, disk, seen, issued>>

SwitchRenderer(p) ==
    /\ At(p, "SwitchRenderer")
    /\ \/ rendererOn' = op[p].on.video /\ Goes(p, "SwitchAudio") /\ UNCHANGED transition
       \/ Returns(p) /\ UNCHANGED rendererOn
    /\ UNCHANGED <<core, worker, slot, disk, seen, issued>>

SwitchAudio(p) ==
    /\ At(p, "SwitchAudio")
    /\ op' = [op EXCEPT ![p].todo = IF "audio" \in op[p].running THEN <<"audio">> ELSE <<>>,
                        ![p].next = "SwitchApplies", ![p].pc = "Stopping"]
    /\ UNCHANGED <<core, rendererOn, worker, slot, transition, disk, seen, issued>>

SwitchApplies(p) ==
    /\ At(p, "SwitchApplies")
    /\ CoreBecomes(SwitchesSet(core, op[p].on.video, op[p].on.audio, FALSE))
    /\ Returns(p)
    /\ UNCHANGED <<rendererOn, worker, slot, disk, issued>>

-----------------------------------------------------------------------------
(* Commands that change the medium: an edit of the pool, stop, the end of an item, play *)

\* commit_playback_pool_edit: the edit is tried on a clone first.
EditBegins ==
    /\ Issue(Main, "Edit")
    /\ TakesTransition(Main)
    /\ \E pool \in Pools :
          IF pool = core.pool THEN op' = [op EXCEPT ![Main].kind = "Edit", ![Main].pc = "Ends"]
          ELSE op' = [op EXCEPT ![Main].kind = "Edit", ![Main].pool = pool,
                         ![Main].todo = <<"video", "audio">>, ![Main].next = "EditApplies",
                         ![Main].pc = "Stopping"]
    /\ UNCHANGED <<core, rendererOn, worker, slot, disk, seen>>

EditApplies ==
    /\ At(Main, "EditApplies")
    /\ CoreBecomes(IF op[Main].pool = <<>> THEN Cleared(core) ELSE SetPool(core, op[Main].pool))
    /\ Returns(Main)
    /\ UNCHANGED <<rendererOn, worker, slot, disk, issued>>

StopBegins(p) ==
    /\ Issue(p, "Stop")
    /\ TakesTransition(p)
    /\ op' = [op EXCEPT ![p].kind = "Stop", ![p].todo = <<"video", "audio">>,
                        ![p].next = "StopApplies", ![p].pc = "Stopping"]
    /\ UNCHANGED <<core, rendererOn, worker, slot, disk, seen>>

StopApplies(p) ==
    /\ At(p, "StopApplies")
    /\ CoreBecomes(StoppedCore(core))
    /\ Returns(p)
    /\ UNCHANGED <<rendererOn, worker, slot, disk, issued>>

\* The page reports the end of the item it was told of; the transaction comes later.
CompleteReported(p) ==
    /\ Issue(p, "Complete")
    /\ HasSource(core)
    /\ op' = [op EXCEPT ![p].kind = "Complete", ![p].generation = core.generation,
                        ![p].loop = core.loop, ![p].index = core.index,
                        ![p].pc = "CompleteBegins"]
    /\ UNCHANGED <<core, rendererOn, worker, slot, transition, disk, seen>>

IsReported(p) ==
    op[p].generation = core.generation /\ op[p].loop = core.loop /\ op[p].index = core.index

\* complete_playback_item_transaction: a pool of one keeps its workers.
CompleteBegins(p) ==
    /\ At(p, "CompleteBegins")
    /\ TakesTransition(p)
    /\ op' = [op EXCEPT ![p].todo = IF Single(core) THEN <<>> ELSE <<"audio", "video">>,
                        ![p].next = "CompleteApplies",
                        ![p].pc = IF IsReported(p) THEN "Stopping" ELSE "Ends"]
    /\ UNCHANGED <<core, rendererOn, worker, slot, disk, seen, issued>>

CompleteApplies(p) ==
    /\ At(p, "CompleteApplies")
    /\ CoreBecomes(IF IsReported(p) THEN Completed(core) ELSE core)
    /\ Returns(p)
    /\ UNCHANGED <<rendererOn, worker, slot, disk, issued>>

\* start, pause and resume change the core under both locks.
Plays(p) ==
    /\ Issue(p, "Play")
    /\ transition = Nobody
    /\ CoreBecomes(IF core.state = "Playing" THEN Paused(core)
                   ELSE IF core.state = "Stopped" THEN Started(core) ELSE Resumed(core))
    /\ UNCHANGED <<rendererOn, worker, slot, transition, op, disk>>

-----------------------------------------------------------------------------

MainStep ==
    \/ PollReads \/ PollClears \/ Commits \/ Discards \/ Releases \/ Deletes \/ ProfileChanges
    \/ CleanupBegins \/ CleanupReads \/ Sweeps \/ StartBegins \/ StartMarks
    \/ EditBegins \/ EditApplies

\* A command goes on.
Continues(p) ==
    \/ StopsNext(p) \/ Joins(p) \/ MarksStopped(p) \/ Ends(p) \/ Spawns(p) \/ Installs(p)
    \/ Prepares(p) \/ PrepareFails(p) \/ PrepareMarks(p)
    \/ SwitchLocks(p) \/ SwitchRenderer(p) \/ SwitchAudio(p) \/ SwitchApplies(p)
    \/ StopApplies(p) \/ CompleteBegins(p) \/ CompleteApplies(p)

Begins(p) ==
    PrepareBegins(p) \/ SwitchReads(p) \/ StopBegins(p) \/ CompleteReported(p) \/ Plays(p)

ThreadStep(w) == RenderEnds(w) \/ VideoWrites(w) \/ AudioWrites(w) \/ ThreadEnds(w)

Next ==
    \/ MainStep
    \/ \E p \in Actors : Continues(p) \/ Begins(p)
    \/ \E w \in Workers : ThreadStep(w)

\* FFmpeg ends or is killed, a thread goes on, a lock that is free is given, the page polls.
MainContinues ==
    \/ PollReads \/ PollClears \/ Deletes \/ CleanupReads \/ Sweeps \/ StartMarks \/ EditApplies

Fairness ==
    /\ \A w \in Workers : WF_vars(ThreadStep(w))
    /\ \A p \in Actors : SF_vars(Continues(p))
    /\ WF_vars(MainContinues)

Spec     == Init /\ [][Next]_vars
FairSpec == Spec /\ Fairness

-----------------------------------------------------------------------------
(* Properties *)

\* What the core shows or keeps for later was made for what it plays: the picture for its
\* generation, the sound for its generation and its loop.
\* (replace_source_pool, stop, complete_item, mark_..._ready and the late results)
ArtifactsBelong ==
    /\ \A f \in {core.video.file, core.video.current} \ {NoFile} :
          worker[f].generation = core.generation
    /\ \A f \in {core.audio.file, core.audio.current} \ {NoFile} :
          worker[f].generation = core.generation /\ worker[f].loop = core.loop

\* A file the core refers to is in the cache.  (the release, the discard, the sweep of the
\* cache and the deletion of refused results against what is committed meanwhile)
NamedFilesExist == Named(core) \subseteq disk

\* One thread renders for a domain: FFmpeg does not run twice.
\* (the slots, which are filled after the thread was spawned, and the stops that give up)
OneThreadPerDomain ==
    \A v, w \in Workers :
        v # w /\ Alive(v) /\ Alive(w) => worker[v].domain # worker[w].domain

\* A thread writes what the core waits for from it or nothing: a failure or a late result of
\* one candidate leaves the next one alone.  (mark_audio_media_processing_failed compares
\* nothing)
ThreadsWriteTheirOwnStep ==
    \A w \in Workers : \A d \in Domains :
        worker[w].phase # "Written" /\ worker'[w].phase = "Written"
           /\ core[d].candidate \notin {NoCandidate, worker[w].candidate}
        => core'[d] = core[d]
ThreadsWriteTheirOwn == [][ThreadsWriteTheirOwnStep]_vars

\* The sound that is switched to was rendered with the parameters, and under the revision,
\* that are in force from this moment.  (commit_audio_media_candidate)
SoundHasItsParametersStep ==
    LET f == core'.audio.current
     IN  f \notin {NoFile, core.audio.current}
         => core'.config = worker[f].config /\ core'.revision = worker[f].candidate.revision
SoundHasItsParameters == [][SoundHasItsParametersStep]_vars

\* What is processed ends, one way or the other.  (the polls, the stops and the workers)
ProcessingEnds ==
    \A d \in Domains : core[d].status = "processing" ~> core[d].status # "processing"

\* A commit that is refused changes nothing.  (commit_audio_media_candidate)
RefusedCommitChangesNothing ==
    [][core.audio.file # NoFile /\ core'.audio.file = core.audio.file
          /\ core'.audio.status = core.audio.status
       => core'.audio.config = core.audio.config]_vars

\* The poll gives up a candidate only when its worker is over.  (clear_stale_processing)
PollSparesWhatIsRendered ==
    [][\A d \in Domains :
          At(Main, "PollClears") /\ ~At(Main, "PollClears")'
             /\ (\E w \in Workers : Alive(w) /\ worker[w].candidate = core[d].candidate)
          => core'[d].candidate = core[d].candidate]_vars

\* A candidate that is rendered is not replaced by another preparation.
\* (prepare_audio_media_candidate_blocking)
PreparationsWait ==
    [][\A p \in Actors :
          op[p].kind = "Prepare" /\ op'[p] # op[p] /\ core.audio.candidate # NoCandidate
          => core'.audio = core.audio]_vars

\* The renderer processes the picture when the core says so, once no switch is under way.
\* (set_processing_switches)
SwitchesAgree ==
    (\A p \in Actors : op[p].kind # "Switch") => rendererOn = core.video.on
=============================================================================

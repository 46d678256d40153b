---------------------------- MODULE MCLiveness ------------------------------
(*****************************************************************************)
(* What must happen outside the audio path, each part in an instance of its  *)
(* own.                                                                      *)
(*****************************************************************************)
EXTENDS Naturals, Sequences, TLC

CONSTANTS b1, k1, High, o1, o2, h1, q1, q2, r1, r2

Film == [name |-> "film", kind |-> "Video"]
Song == [name |-> "song", kind |-> "Audio"]
One  == <<Film>>
Two  == <<Film, Song>>

VARIABLES
    scenario,   \* the instance that runs
    \* MediaProcessing
    core, rendererOn, worker, slot, transition, op, disk, seen, issued,
    \* MicrophoneInterlude
    ctl, device, gate, micWorker, call, budget,
    \* RtmpOutput
    mgr, sess, proc, sink, attached, bus, rtmpTransition, rtmpOp, rtmpIssued, stopped,
    \* RuntimeResources
    final, partial, record, status, cancel, phase, job, asked, faults, cancels, starts,
    runs, damaged, cleared, late,
    \* AuditOutbox
    auditStatus, success, waits, stale, queue, written, done, pc, pass, auditFaults,
    \* ModelHealth
    probeStatus, up, keys, holder, probePass, todo, probe, sequence, backoff, cancelled,
    stop, restarts, changes,
    \* RefreshFamily
    rows, locked, request, old, exchanged, ended

mediaVars == <<core, rendererOn, worker, slot, transition, op, disk, seen, issued>>
microphoneVars == <<ctl, device, gate, micWorker, call, budget>>
rtmpVars == <<mgr, sess, proc, sink, attached, bus, rtmpTransition, rtmpOp, rtmpIssued,
              stopped>>
resourcesVars == <<final, partial, record, status, cancel, phase, job, asked, faults,
                   cancels, starts, runs, damaged, cleared, late>>
outboxVars == <<auditStatus, success, waits, stale, queue, written, done, pc, pass,
                auditFaults>>
healthVars == <<probeStatus, up, keys, holder, probePass, todo, probe, sequence, backoff,
                cancelled, stop, restarts, changes>>
refreshedVars == <<rows, locked, request, old, exchanged, ended>>
vars == <<scenario, mediaVars, microphoneVars, rtmpVars, resourcesVars, outboxVars, healthVars,
        refreshedVars>>

\* Picture and sound are processed, stopped and played to the end.
Processing == INSTANCE MediaProcessing WITH
    Configs <- {k1}, FirstConfig <- k1, MaxWorkers <- 2, MayTimeOut <- TRUE, Duration <- 2,
    MaxPoolItems <- 3, Background <- {b1},
    Kinds <- {"Poll", "Prepare", "Start", "Stop", "Complete"}, Pools <- {One, Two},
    FirstPool <- One, MaxOps <- 2

\* The microphone, whose worker may outlive the budget of a stop.
Speaking == INSTANCE MicrophoneInterlude WITH
    StartFrames <- [c \in {High} |-> 1], HangoverFrames <- 1, MaxSessions <- 2,
    MaxFaults <- 1, MayTimeOut <- TRUE, Configs <- {High},
    MainKinds <- {"Start", "Stop", "Configure"},
    PlaybackKinds <- {"Pause", "Resume", "StopPlayback"}, MaxCalls <- 3, worker <- micWorker

\* The stream, whose process may hang.
Streaming == INSTANCE RtmpOutput WITH
    Background <- {b1}, Kinds <- {"Start", "Stop", "Release", "Backend"}, Attempts <- 1,
    MaxRetries <- 1, MaxSessions <- 1, MaxOps <- 3, transition <- rtmpTransition,
    op <- rtmpOp, issued <- rtmpIssued

\* The resources, while the network may stay away.
Runtime == INSTANCE RuntimeResources WITH
    NFiles <- 1, Size <- 2, MaxRequests <- 3, Operations <- {"install", "import", "clear"},
    Outage <- TRUE, MaxFaults <- 2, MaxCancels <- 1, MaxStarts <- 2, MaxRuns <- 2,
    Damages <- TRUE

\* The resources, for a user who starts the installation again and again.
Retrying == INSTANCE RuntimeResources WITH
    NFiles <- 1, Size <- 2, MaxRequests <- 3, Operations <- {"install"}, Outage <- FALSE,
    MaxFaults <- 3, MaxCancels <- 1, MaxStarts <- 9, MaxRuns <- 1, Damages <- FALSE

\* Two operations, one of whose events can not be delivered, and a failure.
Audit == INSTANCE AuditOutbox WITH
    Operations <- {o1, o2}, MaxSends <- 1, Poison <- {<<o1, 1>>}, BatchSize <- 2,
    MaxFaults <- 1, status <- auditStatus, faults <- auditFaults

\* A server that is stopped while it probes two accounts.
Probes == INSTANCE ModelHealth WITH
    Servers <- {h1}, Accounts <- {q1, q2}, MaxConcurrent <- 1, Slow <- TRUE,
    MaxSequence <- 2, MaxRestarts <- 1, MaxChanges <- 1, status <- probeStatus,
    pass <- probePass

\* Two requests at once on one family of refresh tokens.
Family == INSTANCE RefreshFamily WITH
    Requests <- {r1, r2}, MaxGeneration <- 3

ASSUME ProcessingValues == Processing!CoreAssumption /\ Processing!MediaAssumption
ASSUME SpeakingValues == Speaking!MicrophoneAssumption
ASSUME StreamingValues == Streaming!RtmpAssumption
ASSUME RuntimeValues == Runtime!ResourceAssumption
ASSUME RetryingValues == Retrying!ResourceAssumption
ASSUME AuditValues == Audit!OutboxAssumption
ASSUME ProbesValues == Probes!HealthAssumption
ASSUME FamilyValues == Family!FamilyAssumption

\* The variables of a part that does not run.
Unused == "unused"
NoMedia == core = Unused /\ rendererOn = Unused /\ worker = Unused /\ slot = Unused /\
            transition = Unused /\ op = Unused /\ disk = Unused /\ seen = Unused /\
            issued = Unused
NoMicrophone == ctl = Unused /\ device = Unused /\ gate = Unused /\ micWorker = Unused /\
                 call = Unused /\ budget = Unused
NoRtmp == mgr = Unused /\ sess = Unused /\ proc = Unused /\ sink = Unused /\
           attached = Unused /\ bus = Unused /\ rtmpTransition = Unused /\
           rtmpOp = Unused /\ rtmpIssued = Unused /\ stopped = Unused
NoResources == final = Unused /\ partial = Unused /\ record = Unused /\ status = Unused /\
                cancel = Unused /\ phase = Unused /\ job = Unused /\ asked = Unused /\
                faults = Unused /\ cancels = Unused /\ starts = Unused /\ runs = Unused /\
                damaged = Unused /\ cleared = Unused /\ late = Unused
NoOutbox == auditStatus = Unused /\ success = Unused /\ waits = Unused /\ stale = Unused /\
             queue = Unused /\ written = Unused /\ done = Unused /\ pc = Unused /\
             pass = Unused /\ auditFaults = Unused
NoHealth == probeStatus = Unused /\ up = Unused /\ keys = Unused /\ holder = Unused /\
             probePass = Unused /\ todo = Unused /\ probe = Unused /\ sequence = Unused /\
             backoff = Unused /\ cancelled = Unused /\ stop = Unused /\ restarts = Unused /\
             changes = Unused
NoRefreshed == rows = Unused /\ locked = Unused /\ request = Unused /\ old = Unused /\
                exchanged = Unused /\ ended = Unused

OnlyMedia == NoMicrophone /\ NoRtmp /\ NoResources /\ NoOutbox /\ NoHealth /\ NoRefreshed
OnlyMicrophone == NoMedia /\ NoRtmp /\ NoResources /\ NoOutbox /\ NoHealth /\ NoRefreshed
OnlyRtmp == NoMedia /\ NoMicrophone /\ NoResources /\ NoOutbox /\ NoHealth /\ NoRefreshed
OnlyResources == NoMedia /\ NoMicrophone /\ NoRtmp /\ NoOutbox /\ NoHealth /\ NoRefreshed
OnlyOutbox == NoMedia /\ NoMicrophone /\ NoRtmp /\ NoResources /\ NoHealth /\ NoRefreshed
OnlyHealth == NoMedia /\ NoMicrophone /\ NoRtmp /\ NoResources /\ NoOutbox /\ NoRefreshed
OnlyRefreshed == NoMedia /\ NoMicrophone /\ NoRtmp /\ NoResources /\ NoOutbox /\ NoHealth

Init ==
    \/ scenario = "Processing" /\ Processing!Init /\ OnlyMedia
    \/ scenario = "Speaking" /\ Speaking!Init /\ OnlyMicrophone
    \/ scenario = "Streaming" /\ Streaming!Init /\ OnlyRtmp
    \/ scenario = "Runtime" /\ Runtime!Init /\ OnlyResources
    \/ scenario = "Retrying" /\ Retrying!Init /\ OnlyResources
    \/ scenario = "Audit" /\ Audit!Init /\ OnlyOutbox
    \/ scenario = "Probes" /\ Probes!Init /\ OnlyHealth
    \/ scenario = "Family" /\ Family!Init /\ OnlyRefreshed

Next ==
    /\ UNCHANGED scenario
    /\ \/ scenario = "Processing" /\ Processing!Next /\ UNCHANGED <<microphoneVars, rtmpVars, resourcesVars, outboxVars, healthVars, refreshedVars>>
       \/ scenario = "Speaking" /\ Speaking!Next /\ UNCHANGED <<mediaVars, rtmpVars, resourcesVars, outboxVars, healthVars, refreshedVars>>
       \/ scenario = "Streaming" /\ Streaming!Next /\ UNCHANGED <<mediaVars, microphoneVars, resourcesVars, outboxVars, healthVars, refreshedVars>>
       \/ scenario = "Runtime" /\ Runtime!Next /\ UNCHANGED <<mediaVars, microphoneVars, rtmpVars, outboxVars, healthVars, refreshedVars>>
       \/ scenario = "Retrying" /\ Retrying!Next /\ UNCHANGED <<mediaVars, microphoneVars, rtmpVars, outboxVars, healthVars, refreshedVars>>
       \/ scenario = "Audit" /\ Audit!Next /\ UNCHANGED <<mediaVars, microphoneVars, rtmpVars, resourcesVars, healthVars, refreshedVars>>
       \/ scenario = "Probes" /\ Probes!Next /\ UNCHANGED <<mediaVars, microphoneVars, rtmpVars, resourcesVars, outboxVars, refreshedVars>>
       \/ scenario = "Family" /\ Family!Next /\ UNCHANGED <<mediaVars, microphoneVars, rtmpVars, resourcesVars, outboxVars, healthVars>>

Spec == Init /\ [][Next]_vars

\* Threads go on and limits that have passed are noticed; a lock of the desktop program that is
\* free again and again is given at last.  FFmpeg, the network and the user owe nothing.
DesktopGoesOn ==
    /\ \A w \in Processing!Workers : WF_mediaVars(scenario = "Processing" /\ Processing!ThreadStep(w))
    /\ \A p \in Processing!Actors : SF_mediaVars(scenario = "Processing" /\ Processing!Continues(p))
    /\ WF_mediaVars(scenario = "Processing" /\ Processing!MainContinues)
    /\ \A x \in Speaking!Sessions : WF_microphoneVars(scenario = "Speaking" /\ Speaking!WorkerSteps(x))
    /\ \A t \in Speaking!Threads : WF_microphoneVars(scenario = "Speaking" /\ Speaking!CallProceeds(t))
    /\ WF_microphoneVars(scenario = "Speaking" /\ Speaking!DeviceRecovers)
    /\ WF_rtmpVars(scenario = "Streaming" /\ Streaming!Thread(1))
    /\ \A p \in Streaming!Callers : WF_rtmpVars(scenario = "Streaming" /\ Streaming!Continues(p))
    /\ WF_rtmpVars(scenario = "Streaming" /\ Streaming!Starting)
    /\ WF_resourcesVars(scenario = "Runtime" /\ Runtime!Worker)
    /\ WF_resourcesVars(scenario = "Runtime" /\ Runtime!ShutdownJoins)

\* The user who retries.
UserGoesOn ==
    /\ WF_resourcesVars(scenario = "Retrying" /\ Retrying!Worker)
    /\ WF_resourcesVars(scenario = "Retrying" /\ Retrying!ShutdownJoins)
    /\ WF_resourcesVars(scenario = "Retrying" /\ Retrying!Ask("install"))
    /\ WF_resourcesVars(scenario = "Retrying" /\ Retrying!StartOperation("install"))

\* The goroutines and requests of the server go on, and time passes.
ServerGoesOn ==
    /\ \A a \in Audit!Actors : WF_outboxVars(scenario = "Audit" /\ Audit!Works(a))
    /\ \A r \in Audit!Requests : WF_outboxVars(scenario = "Audit" /\ Audit!Records(r))
    /\ WF_outboxVars(scenario = "Audit" /\ Audit!Minute)
    /\ WF_healthVars(scenario = "Probes" /\ Probes!Works(h1))
    /\ \A r \in {r1, r2} : WF_refreshedVars(scenario = "Family" /\ Family!Works(r))

FairSpec == Spec /\ DesktopGoesOn /\ UserGoesOn /\ ServerGoesOn

StopWaits ==
    \/ scenario = "Streaming" /\ rtmpOp[b1].kind # "None"
    \/ scenario = "Speaking" /\ micWorker[1].cancelled
    \/ scenario = "Runtime" /\ phase = "closing"
    \/ scenario = "Probes" /\ cancelled[h1]
StopIsDone ==
    \/ scenario = "Streaming" /\ rtmpOp[b1].kind = "None"
    \/ scenario = "Speaking" /\ micWorker[1].pc = "Gone"
    \/ scenario = "Runtime" /\ phase = "down" /\ job = Runtime!NoJob
    \/ scenario = "Probes" /\ (probePass[h1] = "done" \/ ~cancelled[h1])

WorkWaits ==
    \/ scenario = "Processing" /\ core["audio"].status = "processing"
    \/ scenario = "Speaking" /\ ctl.paused
    \/ scenario = "Streaming" /\ rtmpOp["Main"].kind # "None"
    \/ scenario = "Runtime" /\ job.pc \in Runtime!Working
    \/ scenario = "Audit" /\ auditStatus[<<o2, 1>>] # "none"
    \/ scenario = "Family" /\ request[r1].at = "locking"
WorkIsDone ==
    \/ scenario = "Processing" /\ core["audio"].status # "processing"
    \/ scenario = "Speaking" /\ (~Speaking!MediaSilenced \/ ~ctl.paused)
    \/ scenario = "Streaming" /\ rtmpOp["Main"].kind = "None"
    \/ scenario = "Runtime" /\ (phase = "down" \/ (job.pc \notin Runtime!Working /\ status \in Runtime!Terminal))
    \/ scenario = "Audit" /\ written[<<o2, 1>>] = 1
    \/ scenario = "Family" /\ request[r1].at = "done"

Hangs ==
    \/ scenario = "Processing" /\ core["video"].status = "processing"
    \/ scenario = "Streaming" /\ proc[1].state = "Running" /\ ~proc[1].advanced
IsNoticed ==
    \/ scenario = "Processing" /\ core["video"].status # "processing"
    \/ scenario = "Streaming" /\ (proc[1].state # "Running" \/ proc[1].advanced)

-----------------------------------------------------------------------------
\* What was begun is decided: the picture and the sound that are processed, a command of
\* the stream, an operation on the resources, an event that can be delivered, a refresh.
\* What is stopped ends: a release of the stream, the worker of a microphone that is
\* cancelled, the installation at a shutdown, the probes of a server.  A pause of the
\* microphone opens the gate for the sound, also when it met a frame that had passed the
\* check for it; and a stream that does not begin to publish is not waited for for ever
\* (process_timed_out).
WorkIsDecided ==
    /\ WorkWaits ~> WorkIsDone
    /\ StopWaits ~> StopIsDone
    /\ Hangs ~> IsNoticed

\* With the server well again no partial file stands in the way of a user who retries: the
\* runtime gets installed, unless the application closes.
RetriesSucceed == <>[](scenario = "Retrying" => Retrying!Complete \/ phase = "down")

=============================================================================

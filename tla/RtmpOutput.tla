------------------------------ MODULE RtmpOutput -------------------------------
(***************************************************************************)
(* The RTMP output: RtmpOutputManager of rtmp_output/process.rs, its       *)
(* session thread that runs FFmpeg, and the commands that start and stop   *)
(* it.                                                                     *)
(*                                                                         *)
(* The manager's record is behind one lock, which is never held while a    *)
(* session is joined.  A session tries, in rounds, one attempt after the   *)
(* other: a filter chain with an encoder each.  Samples, the URL, the      *)
(* numbers FFmpeg reports and the text of its errors are left out; a       *)
(* failure is deterministic or may be retried.  A sink has the number of   *)
(* its session.                                                            *)
(***************************************************************************)
EXTENDS Naturals, FiniteSets

CONSTANTS
    Background,   \* threads besides the main thread that stop the output
    Kinds,        \* the commands that are issued
    Attempts,     \* filter chains times encoders
    MaxRetries,   \* MAX_RETRIES
    MaxSessions,  \* bound: sessions that are started
    MaxOps        \* bound: commands issued

Main   == "Main"
Nobody == "Nobody"
Callers  == Background \cup {Main}
Sessions == 1 .. MaxSessions
None == 0

\* Start and Stop are commands of the main thread; Release holds the lock of the playback
\* transition (stop, an edit of the pool, the next source), Backend changes the sound output.
AllKinds == {"Start", "Stop", "Release", "Backend"}

RtmpAssumption ==
    /\ Main \notin Background /\ Nobody \notin Background
    /\ Kinds \subseteq AllKinds
    /\ Attempts \in Nat \ {0} /\ MaxSessions \in Nat \ {0}
    /\ {MaxRetries, MaxOps} \subseteq Nat

VARIABLES
    mgr,         \* ManagerInner
    sess,        \* of each session: its thread
    proc,        \* of each session: its FFmpeg
    sink,        \* of each session: its RtmpAudioSink
    attached,    \* the sink the thread of the sound output forwards to
    bus,         \* whether that thread exists
    transition,  \* who holds playback_transition
    op,          \* of each caller: its command
    issued,
    stopped      \* history: the last generation a stop found without a session

vars == <<mgr, sess, proc, sink, attached, bus, transition, op, issued, stopped>>

States == {"Idle", "Starting", "Publishing", "Reconnecting", "Stopping", "Failed"}
Phases == {"None", "Probes", "Tries", "Spawns", "Starts", "Monitors", "Joins", "Idles",
           "RoundEnds", "Waits", "Done"}
Results == {"Stopped", "Success", "Deterministic", "Retryable"}

NoSession == [phase |-> "None", stop |-> FALSE, audio |-> FALSE, attempt |-> 1, retries |-> 0,
              started |-> FALSE, deterministic |-> FALSE, result |-> "None",
              ran |-> FALSE]  \* history: published since the last deterministic failure
NoProcess == [state |-> "None", advanced |-> FALSE]
NoOp == [kind |-> "None", pc |-> "Idle", session |-> None]

TypeOK ==
    /\ mgr.state \in States /\ mgr.generation \in 0 .. MaxSessions
    /\ {mgr.pid, mgr.sink, mgr.slot} \subseteq Sessions \cup {None}
    /\ mgr.retries \in 0 .. MaxRetries /\ mgr.audio \in BOOLEAN
    /\ \A s \in Sessions :
          /\ sess[s].phase \in Phases /\ sess[s].result \in Results \cup {"None"}
          /\ sess[s].attempt \in 1 .. Attempts + 1 /\ sess[s].retries \in 0 .. MaxRetries
          /\ proc[s].state \in {"None", "Running", "Exited"}
    /\ sink \in [Sessions -> [closed : BOOLEAN, overrun : BOOLEAN]]
    /\ attached \in Sessions \cup {None}
    /\ bus \in BOOLEAN
    /\ transition \in Callers \cup {Nobody}
    /\ \A p \in Callers : op[p].kind \in AllKinds \cup {"None"}
    /\ issued \in 0 .. MaxOps /\ stopped \in Sessions \cup {None}

Init ==
    /\ mgr = [state |-> "Idle", generation |-> 0, pid |-> None, retries |-> 0, audio |-> FALSE,
              sink |-> None, slot |-> None]
    /\ sess = [s \in Sessions |-> NoSession]
    /\ proc = [s \in Sessions |-> NoProcess]
    /\ sink = [s \in Sessions |-> [closed |-> FALSE, overrun |-> FALSE]]
    /\ attached = None
    /\ bus = TRUE
    /\ transition = Nobody
    /\ op = [p \in Callers |-> NoOp]
    /\ issued = 0
    /\ stopped = None

-----------------------------------------------------------------------------
(* What a session thread writes into the manager's record, whichever session it shows *)

At(s, phase)   == sess[s].phase = phase
Goes(s, phase) == sess' = [sess EXCEPT ![s].phase = phase]
IsDone(s)      == sess' = [sess EXCEPT ![s] = [NoSession EXCEPT !.phase = "Done"]]

SetIdle      == mgr' = [mgr EXCEPT !.state = "Idle", !.pid = None]
SetStarting  == mgr' = [mgr EXCEPT !.state = "Starting", !.pid = None]
SetStarted(s) == mgr' = [mgr EXCEPT !.state = "Starting", !.pid = s]
SetFailed    == mgr' = [mgr EXCEPT !.state = "Failed", !.pid = None]
SetReconnecting(n) ==
    mgr' = [mgr EXCEPT !.state = "Reconnecting", !.retries = n, !.pid = None]
ClearProcess == mgr' = [mgr EXCEPT !.pid = None]

CallersUnchanged == UNCHANGED <<attached, bus, transition, op, issued, stopped>>

\* After an attempt: the next one, or the end of the round.
NextAttempt(r) ==
    [r EXCEPT !.attempt = @ + 1, !.result = "None",
              !.phase = IF r.attempt >= Attempts THEN "RoundEnds" ELSE "Tries"]

-----------------------------------------------------------------------------
(* run_session *)

\* h264_encoder_attempt_order_with_cancel runs FFmpeg to find the encoders.
Probes(s) ==
    /\ At(s, "Probes")
    /\ IF sess[s].stop THEN SetIdle /\ IsDone(s) ELSE Goes(s, "Tries") /\ UNCHANGED mgr
    /\ UNCHANGED <<proc, sink>> /\ CallersUnchanged

Tries(s) ==
    /\ At(s, "Tries")
    /\ IF sess[s].stop THEN SetIdle /\ IsDone(s)
       ELSE SetStarting /\ Goes(s, "Spawns")
    /\ UNCHANGED <<proc, sink>> /\ CallersUnchanged

\* The process, or the job object it is put into, may fail.
Spawns(s) ==
    /\ At(s, "Spawns")
    /\ \/ /\ sess' = [sess EXCEPT ![s] = NextAttempt(@)]
          /\ UNCHANGED proc
       \/ /\ sess' = [sess EXCEPT ![s].started = TRUE, ![s].phase = "Starts"]
          /\ proc' = [proc EXCEPT ![s] = [NoProcess EXCEPT !.state = "Running"]]
    /\ UNCHANGED <<mgr, sink>> /\ CallersUnchanged

\* What overran before this process is dropped.
Starts(s) ==
    /\ At(s, "Starts")
    /\ SetStarted(s)
    /\ sink' = [i \in Sessions |->
                   IF i = mgr.sink THEN [sink[i] EXCEPT !.overrun = FALSE] ELSE sink[i]]
    /\ Goes(s, "Monitors")
    /\ UNCHANGED proc /\ CallersUnchanged

\* Faulty variant of ProgressLine: the reader of the process before is not joined, and its
\* lines speak for this one.
ProgressLineUnjoined(s) ==
    /\ sess[s].phase \in {"Monitors", "Joins"}
    /\ sess[s].attempt > 1
    /\ mgr' = [mgr EXCEPT !.state = "Publishing"]
    /\ UNCHANGED <<proc, sess, sink>> /\ CallersUnchanged

\* The thread that reads stderr sees the output advance; it is joined after the process.
ProgressLine(s) ==
    /\ sess[s].phase \in {"Monitors", "Joins"}
    /\ proc[s].state \in {"Running", "Exited"}
    /\ mgr' = [mgr EXCEPT !.state = "Publishing"]
    /\ proc' = [proc EXCEPT ![s].advanced = TRUE]
    /\ sess' = [sess EXCEPT ![s].ran = sess[s].deterministic]
    /\ UNCHANGED sink /\ CallersUnchanged

ProcessExits(s) ==
    /\ proc[s].state = "Running"
    /\ proc' = [proc EXCEPT ![s].state = "Exited"]
    /\ UNCHANGED <<mgr, sess, sink>> /\ CallersUnchanged

MonitorStops(s) ==
    /\ At(s, "Monitors") /\ sess[s].stop
    /\ proc' = [proc EXCEPT ![s].state = "Exited"]
    /\ sess' = [sess EXCEPT ![s].result = "Stopped", ![s].phase = "Joins"]
    /\ UNCHANGED <<mgr, sink>> /\ CallersUnchanged

MonitorExits(s) ==
    /\ At(s, "Monitors") /\ ~sess[s].stop /\ proc[s].state = "Exited"
    /\ \E r \in Results \ {"Stopped"} :
          sess' = [sess EXCEPT ![s].result = r, ![s].phase = "Joins"]
    /\ UNCHANGED <<mgr, proc, sink>> /\ CallersUnchanged

\* Faulty variant of TimedOut: a process that does not begin is waited for.
TimedOutLater(s) ==
    \/ mgr.sink # None /\ sink[mgr.sink].overrun
    \/ mgr.state = "Publishing"

\* process_timed_out: the state of the manager says which limit holds, if any.
TimedOut(s) ==
    \/ mgr.sink # None /\ sink[mgr.sink].overrun
    \/ mgr.state \in {"Starting", "Publishing"}

MonitorTimesOut(s) ==
    /\ At(s, "Monitors") /\ ~sess[s].stop /\ proc[s].state = "Running"
    /\ TimedOut(s)
    /\ proc' = [proc EXCEPT ![s].state = "Exited"]
    /\ \E r \in {"Deterministic", "Retryable"} :
          sess' = [sess EXCEPT ![s].result = r, ![s].phase = "Joins"]
    /\ UNCHANGED <<mgr, sink>> /\ CallersUnchanged

\* Pipes are joined, the process is forgotten, and its end is judged.
Joins(s) ==
    /\ At(s, "Joins")
    /\ proc' = [proc EXCEPT ![s] = NoProcess]
    /\ ClearProcess
    /\ sess' = [sess EXCEPT ![s] =
          CASE @.result = "Stopped" -> [@ EXCEPT !.phase = "Idles"]
            [] @.result = "Success" ->
                  [@ EXCEPT !.deterministic = FALSE, !.ran = FALSE, !.phase = "RoundEnds"]
            [] @.result = "Deterministic" ->
                  NextAttempt([@ EXCEPT !.deterministic = TRUE, !.ran = FALSE])
            [] @.result = "Retryable" -> NextAttempt(@)]
    /\ UNCHANGED sink /\ CallersUnchanged

Idles(s) ==
    /\ At(s, "Idles")
    /\ SetIdle /\ IsDone(s)
    /\ UNCHANGED <<proc, sink>> /\ CallersUnchanged

\* Faulty variant of GivesUp: rounds are not counted.
GivesUpLater(s) ==
    \/ sess[s].deterministic
    \/ ~sess[s].started

\* No attempt got as far as a process, or an error says that the next one can not do better.
GivesUp(s) ==
    \/ sess[s].deterministic
    \/ ~sess[s].started
    \/ sess[s].retries >= MaxRetries

RoundEnds(s) ==
    /\ At(s, "RoundEnds")
    /\ \/ sess[s].stop /\ SetIdle /\ IsDone(s) /\ UNCHANGED sink
       \/ /\ ~sess[s].stop /\ GivesUp(s)
          /\ SetFailed /\ IsDone(s)
          /\ sink' = IF sess[s].audio THEN [sink EXCEPT ![s].closed = TRUE] ELSE sink
       \/ /\ ~sess[s].stop /\ ~GivesUp(s)
          /\ SetReconnecting(sess[s].retries + 1)
          /\ sess' = [sess EXCEPT ![s].retries = @ + 1, ![s].phase = "Waits"]
          /\ UNCHANGED sink
    /\ UNCHANGED proc /\ CallersUnchanged

\* The back-off looks for a stop; the next round begins with the first attempt again.
Waits(s) ==
    /\ At(s, "Waits")
    /\ \/ sess[s].stop /\ SetIdle /\ IsDone(s)
       \/ /\ ~sess[s].stop
          /\ sess' = [sess EXCEPT ![s].phase = "Tries", ![s].attempt = 1, ![s].started = FALSE,
                                  ![s].deterministic = FALSE, ![s].ran = FALSE,
                                  ![s].result = "None"]
          /\ UNCHANGED mgr
    /\ UNCHANGED <<proc, sink>> /\ CallersUnchanged

-----------------------------------------------------------------------------
(* Commands *)

OpAt(p, pc)   == op[p].pc = pc
OpGoes(p, pc) == op' = [op EXCEPT ![p].pc = pc]

Issue(p, kind) ==
    /\ op[p] = NoOp
    /\ kind \in Kinds
    /\ kind \in IF p = Main THEN {"Start", "Stop"} ELSE {"Release", "Backend"}
    /\ issued < MaxOps /\ issued' = issued + 1

Returns(p) ==
    /\ op' = [op EXCEPT ![p] = NoOp]
    /\ transition' = IF transition = p THEN Nobody ELSE transition

OutputUnchanged == UNCHANGED <<sess, proc>>

\* Faulty variant of NewSink: a sink that is there is used again.
OldSink(audio, g) == IF ~audio THEN None ELSE IF mgr.sink # None THEN mgr.sink ELSE g

\* The sink of a start.
NewSink(audio, g) == IF audio THEN g ELSE None

\* start_rtmp_output: sound needs the bus; a session that is over is taken out of the slot.
StartReserves ==
    /\ Issue(Main, "Start")
    /\ transition = Nobody
    /\ mgr.generation < MaxSessions
    /\ LET g == mgr.generation + 1
           running == mgr.slot # None /\ sess[mgr.slot].phase # "Done"
       IN  \E audio \in BOOLEAN :
              IF running \/ (audio /\ ~bus) THEN UNCHANGED <<mgr, op, transition>>
              ELSE /\ mgr' = [mgr EXCEPT !.state = "Starting", !.generation = g, !.pid = None,
                                         !.retries = 0, !.audio = audio, !.slot = None,
                                         !.sink = NewSink(audio, g)]
                   /\ op' = [op EXCEPT ![Main] = [kind |-> "Start", pc |-> "StartSpawns",
                                                  session |-> g]]
                   /\ transition' = Main
    /\ UNCHANGED <<sink, attached, bus, stopped>> /\ OutputUnchanged

\* A stop may have come while the old session was joined.
StillWanted(p) == mgr.generation = op[p].session /\ mgr.state = "Starting"

\* Faulty variant of StartSpawns: the thread is there before the lock is taken.
StartSpawnsFirst ==
    /\ OpAt(Main, "StartSpawns")
    /\ LET g == op[Main].session
       IN  /\ sess' = [sess EXCEPT ![g] = [NoSession EXCEPT !.phase = "Probes",
                                                            !.audio = mgr.audio]]
           /\ mgr' = IF StillWanted(Main) THEN [mgr EXCEPT !.slot = g] ELSE mgr
    /\ OpGoes(Main, "AttachReads")
    /\ UNCHANGED <<proc, sink, attached, bus, issued, transition, stopped>>

\* The thread is created and put into the slot under one lock.
StartSpawns ==
    /\ OpAt(Main, "StartSpawns")
    /\ LET g == op[Main].session
       IN  \/ /\ StillWanted(Main)
              /\ sess' = [sess EXCEPT ![g] = [NoSession EXCEPT !.phase = "Probes",
                                                               !.audio = mgr.audio]]
              /\ mgr' = [mgr EXCEPT !.slot = g]
              /\ OpGoes(Main, "AttachReads") /\ UNCHANGED transition
           \/ /\ StillWanted(Main)
              /\ mgr' = [mgr EXCEPT !.sink = None, !.state = "Failed"]
              /\ Returns(Main) /\ UNCHANGED sess
           \/ /\ ~StillWanted(Main)
              /\ OpGoes(Main, "AttachReads") /\ UNCHANGED <<mgr, sess, transition>>
    /\ UNCHANGED <<proc, sink, attached, bus, issued, stopped>>

AttachReads ==
    /\ OpAt(Main, "AttachReads")
    /\ op' = [op EXCEPT ![Main].pc = IF bus THEN "Attaches" ELSE "Ends",
                        ![Main].session = mgr.sink]
    /\ UNCHANGED <<mgr, sink, attached, bus, transition, issued, stopped>> /\ OutputUnchanged

\* A sound output that does not answer has the session stopped again.
Attaches ==
    /\ OpAt(Main, "Attaches")
    /\ \/ bus /\ attached' = op[Main].session /\ OpGoes(Main, "Ends")
       \/ OpGoes(Main, "Detaches") /\ UNCHANGED attached
    /\ UNCHANGED <<mgr, sink, bus, transition, issued, stopped>> /\ OutputUnchanged

Ends(p) ==
    /\ OpAt(p, "Ends")
    /\ Returns(p)
    /\ UNCHANGED <<mgr, sink, attached, bus, issued, stopped>> /\ OutputUnchanged

StopBegins(p) ==
    /\ \E kind \in {"Stop", "Release"} :
          /\ Issue(p, kind)
          /\ IF kind = "Release" THEN transition = Nobody /\ transition' = p
             ELSE UNCHANGED transition
          /\ op' = [op EXCEPT ![p].kind = kind, ![p].pc = "Detaches"]
    /\ UNCHANGED <<mgr, sink, attached, bus, stopped>> /\ OutputUnchanged

\* stop_audio_cycle_output: a session without sound goes on.
BackendBegins(p) ==
    /\ Issue(p, "Backend")
    /\ op' = [op EXCEPT ![p].kind = "Backend",
                        ![p].pc = IF mgr.audio THEN "Detaches" ELSE "BusChanges"]
    /\ UNCHANGED <<mgr, sink, attached, bus, transition, stopped>> /\ OutputUnchanged

\* What the sound output answers is not looked at.
Detaches(p) ==
    /\ OpAt(p, "Detaches")
    /\ attached' \in {attached} \cup (IF bus THEN {None} ELSE {})
    /\ OpGoes(p, "Takes")
    /\ UNCHANGED <<mgr, sink, bus, transition, issued, stopped>> /\ OutputUnchanged

Finishes(p) ==
    IF op[p].kind = "Backend" THEN OpGoes(p, "BusChanges") /\ UNCHANGED transition ELSE Returns(p)

\* Faulty variant of StopTakes: the flag of the thread is not set.
StopTakesQuietly(p) ==
    /\ OpAt(p, "Takes")
    /\ IF mgr.slot = None
       THEN /\ mgr' = [mgr EXCEPT !.state = "Idle", !.pid = None, !.sink = None]
            /\ stopped' = mgr.generation
            /\ Finishes(p) /\ UNCHANGED <<sess, sink>>
       ELSE /\ mgr' = [mgr EXCEPT !.state = "Stopping", !.slot = None]
            /\ sink' = [i \in Sessions |->
                           IF i = mgr.sink THEN [sink[i] EXCEPT !.closed = TRUE] ELSE sink[i]]
            /\ op' = [op EXCEPT ![p].session = mgr.slot, ![p].pc = "StopJoins"]
            /\ UNCHANGED <<sess, transition, stopped>>
    /\ UNCHANGED <<proc, attached, bus, issued>>

\* Faulty variant of StopTakes: without a session there is nothing to stop.
StopTakesSessions(p) ==
    /\ OpAt(p, "Takes")
    /\ IF mgr.slot = None
       THEN stopped' = mgr.generation /\ Finishes(p) /\ UNCHANGED <<mgr, sess, sink>>
       ELSE /\ mgr' = [mgr EXCEPT !.state = "Stopping", !.slot = None]
            /\ sess' = [sess EXCEPT ![mgr.slot].stop = TRUE]
            /\ sink' = [i \in Sessions |->
                           IF i = mgr.sink THEN [sink[i] EXCEPT !.closed = TRUE] ELSE sink[i]]
            /\ op' = [op EXCEPT ![p].session = mgr.slot, ![p].pc = "StopJoins"]
            /\ UNCHANGED <<transition, stopped>>
    /\ UNCHANGED <<proc, attached, bus, issued>>

\* The session leaves the slot before it is joined.
StopTakes(p) ==
    /\ OpAt(p, "Takes")
    /\ IF mgr.slot = None
       THEN /\ mgr' = [mgr EXCEPT !.state = "Idle", !.pid = None, !.sink = None]
            /\ stopped' = mgr.generation
            /\ Finishes(p) /\ UNCHANGED <<sess, sink>>
       ELSE /\ mgr' = [mgr EXCEPT !.state = "Stopping", !.slot = None]
            /\ sess' = [sess EXCEPT ![mgr.slot].stop = TRUE]
            /\ sink' = [i \in Sessions |->
                           IF i = mgr.sink THEN [sink[i] EXCEPT !.closed = TRUE] ELSE sink[i]]
            /\ op' = [op EXCEPT ![p].session = mgr.slot, ![p].pc = "StopJoins"]
            /\ UNCHANGED <<transition, stopped>>
    /\ UNCHANGED <<proc, attached, bus, issued>>

\* Faulty variant of StopJoins: the session is left to end by itself.
StopLeaves(p) ==
    /\ OpAt(p, "StopJoins")
    /\ mgr' = [mgr EXCEPT !.state = "Idle", !.pid = None, !.sink = None]
    /\ Finishes(p)
    /\ UNCHANGED <<sink, attached, bus, issued, stopped>> /\ OutputUnchanged

StopJoins(p) ==
    /\ OpAt(p, "StopJoins")
    /\ sess[op[p].session].phase = "Done"
    /\ mgr' = [mgr EXCEPT !.state = "Idle", !.pid = None, !.sink = None]
    /\ Finishes(p)
    /\ UNCHANGED <<sink, attached, bus, issued, stopped>> /\ OutputUnchanged

\* The thread of the sound output ends; another one may be started.
BusChanges(p) ==
    /\ OpAt(p, "BusChanges")
    /\ bus' \in BOOLEAN /\ attached' = None
    /\ Returns(p)
    /\ UNCHANGED <<mgr, sink, issued, stopped>> /\ OutputUnchanged

\* forward_rtmp_audio finds the queue full.
Overruns ==
    /\ bus /\ attached # None
    /\ ~sink[attached].closed /\ ~sink[attached].overrun
    /\ sess[attached].phase # "Done"
    /\ sink' = [sink EXCEPT ![attached].overrun = TRUE]
    /\ UNCHANGED <<mgr, attached, bus, transition, op, issued, stopped>> /\ OutputUnchanged

-----------------------------------------------------------------------------

Thread(s) ==
    \/ Probes(s) \/ Tries(s) \/ Spawns(s) \/ Starts(s) \/ MonitorStops(s) \/ MonitorExits(s)
    \/ MonitorTimesOut(s) \/ Joins(s) \/ Idles(s) \/ RoundEnds(s) \/ Waits(s)

Continues(p) ==
    Ends(p) \/ Detaches(p) \/ StopTakes(p) \/ StopJoins(p) \/ BusChanges(p)

Starting == StartSpawns \/ AttachReads \/ Attaches

Next ==
    \/ StartReserves \/ Starting \/ Overruns
    \/ \E p \in Callers : StopBegins(p) \/ BackendBegins(p) \/ Continues(p)
    \/ \E s \in Sessions : Thread(s) \/ ProgressLine(s) \/ ProcessExits(s)

\* Threads are scheduled and a limit that has passed is noticed; FFmpeg owes nothing.
Fairness ==
    /\ \A s \in Sessions : WF_vars(Thread(s))
    /\ \A p \in Callers : WF_vars(Continues(p))
    /\ WF_vars(Starting)

Spec     == Init /\ [][Next]_vars
FairSpec == Spec /\ Fairness

-----------------------------------------------------------------------------
(* Properties *)

Live(s) == sess[s].phase \notin {"None", "Done"}

\* A thread that lives, and with it a process, is in the slot or a stop waits for it: nothing
\* publishes that nobody can stop.  (the two critical sections of the start)
NobodyIsLost ==
    \A s \in Sessions :
        Live(s) => mgr.slot = s \/ \E p \in Callers : OpAt(p, "StopJoins") /\ op[p].session = s

\* When every command has returned and no session is left, the state says so and the sound
\* output feeds nothing that still takes samples.  (stop against start, in any order)
QuietIsIdle ==
    (\A p \in Callers : op[p] = NoOp) /\ mgr.slot = None
    => /\ mgr.state \in {"Idle", "Failed"} /\ mgr.sink = None
       /\ \A s \in Sessions : proc[s].state # "Running"

\* A stop that comes between the reservation of a session and its thread holds: the thread is
\* not created any more.  (the state of the manager, which is all the start looks at again)
StopsHold ==
    \A s \in Sessions : Live(s) /\ ~sess[s].stop => s > stopped

\* However starts and stops of two threads meet, what was stopped is over and what
\* runs can be stopped.
StopsAreFinal == NobodyIsLost /\ QuietIsIdle /\ StopsHold

\* Publishing is shown for a process whose own output has advanced.  (the progress lines of
\* the process before, which are read by a thread)
PublishingIsProgress ==
    mgr.state = "Publishing" /\ mgr.pid # None => proc[mgr.pid].advanced

\* A session with sound that was not asked to stop is fed through the sink of the manager.
\* (start, stop and run_process, which all take the sink the manager happens to have)
SessionKeepsItsSink ==
    \A s \in Sessions :
        Live(s) /\ sess[s].audio /\ ~sess[s].stop /\ mgr.slot = s => mgr.sink = s

\* One process publishes.  (stop takes the session out of the slot before it is over)
OneProcess ==
    Cardinality({s \in Sessions : proc[s].state = "Running"}) <= 1

\* The manager shows, feeds and runs one and the same session.
StreamIsTheSession == PublishingIsProgress /\ SessionKeepsItsSink /\ OneProcess

\* A session is given up for an error that can not be retried only if nothing ran since it.
\* (the error of an earlier attempt, which only a success forgets)
OldErrorsAreForgotten ==
    [][\A s \in Sessions :
          At(s, "RoundEnds") /\ mgr'.state = "Failed" /\ mgr.state # "Failed"
             /\ sess[s].retries < MaxRetries
          => ~sess[s].ran]_vars

\* In a session the attempts go down only.  (the round after a retry)
LadderIsOneWay ==
    [][\A s \in Sessions : Live(s) => sess'[s].attempt >= sess[s].attempt]_vars

\* Every stop returns.  (a probe that is cancelled, a process that is killed, the back-off)
StopReturns == \A p \in Callers : op[p].kind # "None" ~> op[p].kind = "None"

\* A process that does not begin to publish is not waited for for ever.  (process_timed_out)
HungIsNoticed ==
    \A s \in Sessions :
        proc[s].state = "Running" /\ ~proc[s].advanced
        ~> proc[s].state # "Running" \/ proc[s].advanced
=============================================================================

--------------------------- MODULE RtmpOutputProofs ---------------------------
(***************************************************************************)
(* Proofs about RtmpOutput, for every number of sessions, attempts and     *)
(* retries.  However many threads stop the output, no session is out of    *)
(* reach of a stop and a manager at rest shows it.  With one thread besides *)
(* the main thread a stop that finds no session holds against the start it *)
(* interrupts; with two it need not (run rtmp_held).  With the main thread *)
(* alone the manager shows, feeds and runs one and the same session.       *)
(*                                                                         *)
(* A step of a session thread changes the record of its session, its       *)
(* process and what the manager shows, and nothing else; ThreadMoves says  *)
(* so once for all of them.                                                *)
(***************************************************************************)
EXTENDS RtmpOutput, FiniteSetTheorems, TLAPS

Sinks == Sessions \cup {None}

ManagerRecords ==
    [state : States, generation : 0 .. MaxSessions, pid : Sinks, retries : 0 .. MaxRetries,
     audio : BOOLEAN, sink : Sinks, slot : Sinks]

SessionRecords ==
    [phase : Phases, stop : BOOLEAN, audio : BOOLEAN, attempt : 1 .. Attempts + 1,
     retries : 0 .. MaxRetries, started : BOOLEAN, deterministic : BOOLEAN,
     result : Results \cup {"None"}, ran : BOOLEAN]

ProcessRecords == [state : {"None", "Running", "Exited"}, advanced : BOOLEAN]

SinkRecords == [closed : BOOLEAN, overrun : BOOLEAN]

Places == {"Idle", "StartSpawns", "AttachReads", "Attaches", "Ends", "Detaches", "Takes",
           "StopJoins", "BusChanges"}

OpRecords == [kind : AllKinds \cup {"None"}, pc : Places, session : Sinks]

Types ==
    /\ mgr \in ManagerRecords
    /\ sess \in [Sessions -> SessionRecords]
    /\ proc \in [Sessions -> ProcessRecords]
    /\ sink \in [Sessions -> SinkRecords]
    /\ attached \in Sinks
    /\ bus \in BOOLEAN
    /\ transition \in Callers \cup {Nobody}
    /\ op \in [Callers -> OpRecords]
    /\ issued \in 0 .. MaxOps
    /\ stopped \in Sinks

\* An attempt that runs is one of the ladder, and one that is over has a result.
Attempting == {"Tries", "Spawns", "Starts", "Monitors", "Joins"}

Ladder ==
    \A s \in Sessions :
        /\ sess[s].phase \in {"Probes"} \cup Attempting => sess[s].attempt <= Attempts
        /\ sess[s].phase = "Joins" => sess[s].result # "None"

\* A process belongs to a thread that watches it.
Processes ==
    \A s \in Sessions :
        /\ proc[s].state # "None" => sess[s].phase \in {"Starts", "Monitors", "Joins"}
        /\ proc[s].state = "Running" => sess[s].phase \in {"Starts", "Monitors"}

\* The session a start has reserved has no thread yet, and nothing is in the slot; one
\* that is in the slot has had a thread.
Reservation ==
    /\ OpAt(Main, "StartSpawns") =>
          /\ op[Main].session = mgr.generation /\ mgr.generation \in Sessions
          /\ mgr.slot = None
          /\ sess[mgr.generation].phase = "None"
    /\ \A s \in Sessions : s > mgr.generation => sess[s].phase = "None"
    /\ mgr.slot # None => sess[mgr.slot].phase # "None"

\* A stop joins a session it has told to stop.
Taken ==
    \A p \in Callers : OpAt(p, "StopJoins") =>
        /\ op[p].session \in Sessions /\ sess[op[p].session].phase # "None"
        /\ sess[op[p].session].stop \/ sess[op[p].session].phase = "Done"

Joined == \E p \in Callers : OpAt(p, "StopJoins")

\* When nothing is in the slot and no stop joins, the manager shows it, unless a start is
\* about to create its thread.
Rest ==
    mgr.slot = None /\ ~Joined =>
        \/ mgr.state \in {"Idle", "Failed"} /\ mgr.sink = None
        \/ OpAt(Main, "StartSpawns") /\ StillWanted(Main)

Inv == Types /\ Ladder /\ Processes /\ Reservation /\ Taken /\ NobodyIsLost /\ Rest

-----------------------------------------------------------------------------
(* What the operators return *)

LEMMA Constants ==
  ASSUME RtmpAssumption
  PROVE  /\ Attempts \in Nat /\ Attempts >= 1 /\ MaxSessions \in Nat /\ MaxRetries \in Nat
         /\ MaxOps \in Nat /\ None \notin Sessions /\ Main \in Callers
         /\ Sessions \subseteq Nat /\ \A s \in Sessions : s # 0 /\ s <= MaxSessions
BY DEF RtmpAssumption, None, Sessions, Callers

LEMMA NoSessionType ==
  ASSUME RtmpAssumption
  PROVE  /\ NoSession \in SessionRecords
         /\ [NoSession EXCEPT !.phase = "Done"] \in SessionRecords
         /\ \A audio \in BOOLEAN :
               [NoSession EXCEPT !.phase = "Probes", !.audio = audio] \in SessionRecords
<1>1. NoSession \in SessionRecords
  BY Constants DEF NoSession, SessionRecords, Phases
<1>2. [NoSession EXCEPT !.phase = "Done"] \in SessionRecords
  BY <1>1 DEF SessionRecords, Phases
<1>3. ASSUME NEW audio \in BOOLEAN
      PROVE  [NoSession EXCEPT !.phase = "Probes", !.audio = audio] \in SessionRecords
  <2>1. [NoSession EXCEPT !.phase = "Probes"] \in SessionRecords
    BY <1>1 DEF SessionRecords, Phases
  <2>2. [[NoSession EXCEPT !.phase = "Probes"] EXCEPT !.audio = audio] \in SessionRecords
    BY <2>1 DEF SessionRecords
  <2> QED
    BY <2>2
<1> QED
  BY <1>1, <1>2, <1>3

\* The next attempt is one of the ladder, or the round is over.
LEMMA NextAttemptType ==
  ASSUME RtmpAssumption, NEW r \in SessionRecords, r.attempt <= Attempts
  PROVE  /\ NextAttempt(r) \in SessionRecords
         /\ NextAttempt(r).phase \in {"RoundEnds", "Tries"}
         /\ NextAttempt(r).phase = "Tries" => NextAttempt(r).attempt <= Attempts
         /\ NextAttempt(r).stop = r.stop /\ NextAttempt(r).audio = r.audio
<1> DEFINE ph == IF r.attempt >= Attempts THEN "RoundEnds" ELSE "Tries"
<1>1. r.attempt + 1 \in 1 .. Attempts + 1 /\ ph \in Phases
  BY Constants DEF SessionRecords, Phases
<1>2. [r EXCEPT !.attempt = r.attempt + 1] \in SessionRecords
  BY <1>1 DEF SessionRecords
<1>3. [r EXCEPT !.attempt = r.attempt + 1, !.result = "None"] \in SessionRecords
  BY <1>2 DEF SessionRecords
<1>4. [r EXCEPT !.attempt = r.attempt + 1, !.result = "None", !.phase = ph] \in SessionRecords
  <2> HIDE DEF ph
  <2> QED
    BY <1>1, <1>3 DEF SessionRecords
<1>5. NextAttempt(r) = [r EXCEPT !.attempt = r.attempt + 1, !.result = "None", !.phase = ph]
  BY DEF NextAttempt
<1>6. NextAttempt(r) \in SessionRecords
  BY <1>4, <1>5
<1>7. NextAttempt(r).phase = ph /\ NextAttempt(r).attempt = r.attempt + 1
        /\ NextAttempt(r).stop = r.stop /\ NextAttempt(r).audio = r.audio
  BY <1>5 DEF SessionRecords
<1>8. ph = "Tries" => r.attempt + 1 <= Attempts
  BY Constants DEF SessionRecords
<1> QED
  BY <1>6, <1>7, <1>8

LEMMA TypesImplyTypeOK ==
  ASSUME Types
  PROVE  TypeOK
BY DEF Types, TypeOK, ManagerRecords, SessionRecords, ProcessRecords, SinkRecords, OpRecords,
       Sinks

LEMMA Initially ==
  ASSUME RtmpAssumption, Init
  PROVE  Inv
<1> USE Constants
<1>1. Types
  <2>1. mgr \in ManagerRecords
    BY DEF Init, ManagerRecords, States, Sinks
  <2>2. sess \in [Sessions -> SessionRecords]
    BY NoSessionType DEF Init
  <2>3. proc \in [Sessions -> ProcessRecords] /\ sink \in [Sessions -> SinkRecords]
    BY DEF Init, NoProcess, ProcessRecords, SinkRecords
  <2>4. op \in [Callers -> OpRecords]
    BY DEF Init, NoOp, OpRecords, Places, Sinks
  <2> QED
    BY <2>1, <2>2, <2>3, <2>4 DEF Types, Init, Sinks
<1>2. \A s \in Sessions : sess[s].phase = "None" /\ proc[s].state = "None"
  BY DEF Init, NoSession, NoProcess
<1>3. \A p \in Callers : op[p].pc = "Idle"
  BY DEF Init, NoOp
<1>4. Ladder /\ Processes
  BY <1>2 DEF Ladder, Processes, Attempting
<1>5. Reservation /\ Taken /\ NobodyIsLost
  BY <1>2, <1>3 DEF Init, Reservation, Taken, NobodyIsLost, Live, OpAt
<1>6. Rest
  BY DEF Rest, Init
<1> QED
  BY <1>1, <1>4, <1>5, <1>6 DEF Inv

-----------------------------------------------------------------------------
(* Steps of a session thread *)

\* What a thread may change: its own session and process, and what the manager shows.
Moves(s) ==
    /\ sess' \in [Sessions -> SessionRecords]
    /\ \A t \in Sessions \ {s} : sess'[t] = sess[t] /\ proc'[t] = proc[t]
    /\ sess'[s].phase # "None"
    /\ \/ sess'[s].phase = "Done"
       \/ sess'[s].stop = sess[s].stop /\ sess'[s].audio = sess[s].audio
    /\ sess'[s].phase \in {"Probes"} \cup Attempting => sess'[s].attempt <= Attempts
    /\ sess'[s].phase = "Joins" => sess'[s].result # "None"
    /\ proc' \in [Sessions -> ProcessRecords]
    /\ proc'[s].state # "None" => sess'[s].phase \in {"Starts", "Monitors", "Joins"}
    /\ proc'[s].state = "Running" => sess'[s].phase \in {"Starts", "Monitors"}
    /\ sink' \in [Sessions -> SinkRecords]
    /\ mgr' \in ManagerRecords
    /\ mgr'.slot = mgr.slot /\ mgr'.sink = mgr.sink
    /\ mgr'.generation = mgr.generation /\ mgr'.audio = mgr.audio
    /\ CallersUnchanged

\* A record of a session goes to another phase.
LEMMA PhaseMoves ==
  ASSUME Types, NEW s \in Sessions, NEW ph \in Phases, Goes(s, ph)
  PROVE  /\ sess' \in [Sessions -> SessionRecords]
         /\ \A t \in Sessions \ {s} : sess'[t] = sess[t]
         /\ sess'[s] = [sess[s] EXCEPT !.phase = ph]
         /\ sess'[s].phase = ph /\ sess'[s].stop = sess[s].stop
         /\ sess'[s].audio = sess[s].audio /\ sess'[s].attempt = sess[s].attempt
         /\ sess'[s].result = sess[s].result
BY DEF Types, Goes, SessionRecords

LEMMA DoneMoves ==
  ASSUME RtmpAssumption, Types, NEW s \in Sessions, IsDone(s)
  PROVE  /\ sess' \in [Sessions -> SessionRecords]
         /\ \A t \in Sessions \ {s} : sess'[t] = sess[t]
         /\ sess'[s].phase = "Done"
BY NoSessionType DEF Types, IsDone, NoSession

LEMMA ShownMoves ==
  ASSUME Types, NEW s \in Sessions, NEW n \in 0 .. MaxRetries,
         SetIdle \/ SetStarting \/ SetStarted(s) \/ SetFailed \/ SetReconnecting(n)
           \/ ClearProcess \/ UNCHANGED mgr \/ mgr' = [mgr EXCEPT !.state = "Publishing"]
  PROVE  /\ mgr' \in ManagerRecords
         /\ mgr'.slot = mgr.slot /\ mgr'.sink = mgr.sink
         /\ mgr'.generation = mgr.generation /\ mgr'.audio = mgr.audio
BY DEF Types, SetIdle, SetStarting, SetStarted, SetFailed, SetReconnecting, ClearProcess,
       ManagerRecords, States, Sinks

\* A process that is killed, or seen to have exited.
LEMMA ExitMoves ==
  ASSUME Types, NEW s \in Sessions, proc' = [proc EXCEPT ![s].state = "Exited"]
  PROVE  /\ proc' \in [Sessions -> ProcessRecords]
         /\ \A t \in Sessions \ {s} : proc'[t] = proc[t]
         /\ proc'[s].state = "Exited" /\ proc'[s].advanced = proc[s].advanced
BY DEF Types, ProcessRecords

LEMMA ThreadMoves ==
  ASSUME RtmpAssumption, Types, Ladder, Processes, NEW s \in Sessions,
         Thread(s) \/ ProgressLine(s) \/ ProcessExits(s)
  PROVE  Live(s) /\ Moves(s)
<1> USE Constants
<1>r. 0 \in 0 .. MaxRetries
  OBVIOUS
<1>t. sess[s] \in SessionRecords /\ proc[s] \in ProcessRecords /\ sink \in [Sessions -> SinkRecords]
  BY DEF Types
<1>i. ~Live(s) \/ sess[s].phase \notin {"None", "Done"}
  BY DEF Live
<1>p. proc[s].state \in {"None", "Running", "Exited"}
  BY <1>t DEF ProcessRecords
<1>q. UNCHANGED proc => proc' \in [Sessions -> ProcessRecords]
  BY DEF Types
<1>k. UNCHANGED sink => sink' \in [Sessions -> SinkRecords]
  BY DEF Types
<1>n. /\ sess[s].phase \notin {"Starts", "Monitors", "Joins"} => proc[s].state = "None"
      /\ sess[s].phase = "Joins" => proc[s].state # "Running"
  BY DEF Processes
<1>d. ASSUME IsDone(s), UNCHANGED proc, CallersUnchanged, sink' \in [Sessions -> SinkRecords],
             SetIdle \/ SetFailed, sess[s].phase \notin {"None", "Done", "Starts", "Monitors", "Joins"}
      PROVE  Live(s) /\ Moves(s)
  <2>1. /\ sess' \in [Sessions -> SessionRecords] /\ sess'[s].phase = "Done"
        /\ \A t \in Sessions \ {s} : sess'[t] = sess[t] /\ proc'[t] = proc[t]
    BY <1>d, DoneMoves
  <2>2. proc' \in [Sessions -> ProcessRecords] /\ proc'[s].state = "None"
    BY <1>d, <1>n, <1>q
  <2>3. /\ mgr' \in ManagerRecords /\ mgr'.slot = mgr.slot /\ mgr'.sink = mgr.sink
        /\ mgr'.generation = mgr.generation /\ mgr'.audio = mgr.audio
    BY <1>d, ShownMoves, <1>r
  <2>4. sess'[s].phase \notin {"None"} \cup {"Probes"} \cup Attempting
    BY <2>1 DEF Attempting
  <2>5. Live(s) /\ sess'[s].phase # "None" /\ sess'[s].phase # "Joins"
    BY <1>d, <2>1 DEF Live
  <2> QED
    BY <1>d, <2>1, <2>2, <2>3, <2>4, <2>5 DEF Moves
<1>1. CASE Probes(s)
  <2>1. UNCHANGED <<proc, sink>> /\ CallersUnchanged /\ sess[s].phase = "Probes"
    BY <1>1 DEF Probes, At
  <2>2. CASE sess[s].stop
    <3>1. SetIdle /\ IsDone(s)
      BY <1>1, <2>2 DEF Probes
    <3> QED
      BY <3>1, <2>1, <1>d, <1>k
  <2>3. CASE ~sess[s].stop
    <3>1. Goes(s, "Tries") /\ UNCHANGED mgr
      BY <1>1, <2>3 DEF Probes
    <3>2. sess[s].attempt <= Attempts
      BY <2>1 DEF Ladder
    <3> QED
      BY <3>1, <3>2, <2>1, PhaseMoves, ShownMoves, <1>n, <1>q, <1>k, <1>r
      DEF Moves, Live, Phases, Attempting
  <2> QED
    BY <2>2, <2>3
<1>2. CASE Tries(s)
  <2>1. UNCHANGED <<proc, sink>> /\ CallersUnchanged /\ sess[s].phase = "Tries"
    BY <1>2 DEF Tries, At
  <2>2. CASE sess[s].stop
    <3>1. SetIdle /\ IsDone(s)
      BY <1>2, <2>2 DEF Tries
    <3> QED
      BY <3>1, <2>1, <1>d, <1>k
  <2>3. CASE ~sess[s].stop
    <3>1. SetStarting /\ Goes(s, "Spawns")
      BY <1>2, <2>3 DEF Tries
    <3>2. sess[s].attempt <= Attempts
      BY <2>1 DEF Ladder, Attempting
    <3> QED
      BY <3>1, <3>2, <2>1, PhaseMoves, ShownMoves, <1>n, <1>q, <1>k, <1>r
      DEF Moves, Live, Phases, Attempting
  <2> QED
    BY <2>2, <2>3
<1>3. CASE Spawns(s)
  <2>1. UNCHANGED <<mgr, sink>> /\ CallersUnchanged /\ sess[s].phase = "Spawns"
    BY <1>3 DEF Spawns, At
  <2>2. sess[s].attempt <= Attempts
    BY <2>1 DEF Ladder, Attempting
  <2>3. CASE sess' = [sess EXCEPT ![s] = NextAttempt(@)] /\ UNCHANGED proc
    <3>1. sess'[s] = NextAttempt(sess[s]) /\ sess' \in [Sessions -> SessionRecords]
            /\ \A t \in Sessions \ {s} : sess'[t] = sess[t]
      BY <2>3, <1>t, <2>2, NextAttemptType DEF Types
    <3> QED
      BY <3>1, <2>1, <2>2, <2>3, <1>t, NextAttemptType, ShownMoves, <1>n, <1>q, <1>k, <1>r
      DEF Moves, Live, Attempting
  <2>4. CASE /\ sess' = [sess EXCEPT ![s].started = TRUE, ![s].phase = "Starts"]
             /\ proc' = [proc EXCEPT ![s] = [NoProcess EXCEPT !.state = "Running"]]
    <3>1. /\ sess'[s] = [sess[s] EXCEPT !.started = TRUE, !.phase = "Starts"]
          /\ \A t \in Sessions \ {s} : sess'[t] = sess[t]
      BY <2>4 DEF Types
    <3>2. sess'[s] \in SessionRecords /\ sess'[s].phase = "Starts"
            /\ sess'[s].stop = sess[s].stop /\ sess'[s].audio = sess[s].audio
            /\ sess'[s].attempt = sess[s].attempt
      BY <3>1, <1>t DEF SessionRecords, Phases
    <3>3. sess' \in [Sessions -> SessionRecords]
      BY <2>4, <3>2 DEF Types
    <3>4. proc' \in [Sessions -> ProcessRecords] /\ \A t \in Sessions \ {s} : proc'[t] = proc[t]
      BY <2>4 DEF Types, NoProcess, ProcessRecords
    <3> QED
      BY <3>2, <3>1, <3>3, <3>4, <2>1, <2>2, ShownMoves, <1>k, <1>r DEF Moves, Live, Attempting
  <2> QED
    BY <1>3, <2>3, <2>4 DEF Spawns
<1>4. CASE Starts(s)
  <2>1. SetStarted(s) /\ Goes(s, "Monitors") /\ UNCHANGED proc /\ CallersUnchanged
          /\ sess[s].phase = "Starts"
    BY <1>4 DEF Starts, At
  <2>2. sink' \in [Sessions -> SinkRecords]
    BY <1>4, <1>t DEF Starts, SinkRecords
  <2>3. sess[s].attempt <= Attempts
    BY <2>1 DEF Ladder, Attempting
  <2> QED
    BY <2>1, <2>2, <2>3, PhaseMoves, ShownMoves, <1>q, <1>r DEF Moves, Live, Phases, Attempting
<1>5. CASE MonitorStops(s)
  <2>1. UNCHANGED <<mgr, sink>> /\ CallersUnchanged /\ sess[s].phase = "Monitors"
          /\ proc' = [proc EXCEPT ![s].state = "Exited"]
          /\ sess' = [sess EXCEPT ![s].result = "Stopped", ![s].phase = "Joins"]
    BY <1>5 DEF MonitorStops, At
  <2>2. sess'[s] = [sess[s] EXCEPT !.result = "Stopped", !.phase = "Joins"]
          /\ \A t \in Sessions \ {s} : sess'[t] = sess[t]
    BY <2>1 DEF Types
  <2>3. sess'[s] \in SessionRecords /\ sess'[s].phase = "Joins" /\ sess'[s].result # "None"
          /\ sess'[s].stop = sess[s].stop /\ sess'[s].audio = sess[s].audio
          /\ sess'[s].attempt = sess[s].attempt
    BY <2>2, <1>t DEF SessionRecords, Phases, Results
  <2>4. sess' \in [Sessions -> SessionRecords]
    BY <2>1, <2>3 DEF Types
  <2>5. sess[s].attempt <= Attempts
    BY <2>1 DEF Ladder, Attempting
  <2> QED
    BY <2>1, <2>2, <2>3, <2>4, <2>5, ExitMoves, ShownMoves, <1>k, <1>r
    DEF Moves, Live, Attempting
<1>6. CASE MonitorExits(s) \/ MonitorTimesOut(s)
  <2>1. UNCHANGED <<mgr, sink>> /\ CallersUnchanged /\ sess[s].phase = "Monitors"
          /\ ((UNCHANGED proc /\ proc[s].state = "Exited")
                \/ proc' = [proc EXCEPT ![s].state = "Exited"])
    BY <1>6 DEF MonitorExits, MonitorTimesOut, At
  <2>a. PICK r \in Results : sess' = [sess EXCEPT ![s].result = r, ![s].phase = "Joins"]
    BY <1>6 DEF MonitorExits, MonitorTimesOut, Results
  <2>2. sess'[s] = [sess[s] EXCEPT !.result = r, !.phase = "Joins"]
          /\ \A t \in Sessions \ {s} : sess'[t] = sess[t]
    BY <2>a DEF Types
  <2>3. sess'[s] \in SessionRecords /\ sess'[s].phase = "Joins" /\ sess'[s].result # "None"
          /\ sess'[s].stop = sess[s].stop /\ sess'[s].audio = sess[s].audio
          /\ sess'[s].attempt = sess[s].attempt
    BY <2>2, <1>t DEF SessionRecords, Phases, Results
  <2>4. sess' \in [Sessions -> SessionRecords]
    BY <2>a, <2>3 DEF Types
  <2>5. sess[s].attempt <= Attempts
    BY <2>1 DEF Ladder, Attempting
  <2>6. proc' \in [Sessions -> ProcessRecords] /\ proc'[s].state = "Exited"
          /\ \A t \in Sessions \ {s} : proc'[t] = proc[t]
    BY <2>1, ExitMoves, <1>q
  <2> QED
    BY <2>1, <2>2, <2>3, <2>4, <2>5, <2>6, ShownMoves, <1>k, <1>r DEF Moves, Live, Attempting
<1>7. CASE Joins(s)
  <2>1. UNCHANGED sink /\ CallersUnchanged /\ sess[s].phase = "Joins" /\ ClearProcess
          /\ proc' = [proc EXCEPT ![s] = NoProcess]
    BY <1>7 DEF Joins, At
  <2>2. sess[s].attempt <= Attempts /\ sess[s].result \in Results
    BY <2>1, <1>t DEF Ladder, Attempting, SessionRecords
  <2>3. proc' \in [Sessions -> ProcessRecords] /\ proc'[s].state = "None"
          /\ \A t \in Sessions \ {s} : proc'[t] = proc[t]
    BY <2>1 DEF Types, NoProcess, ProcessRecords
  <2> DEFINE stp == [sess[s] EXCEPT !.phase = "Idles"]
             suc == [sess[s] EXCEPT !.deterministic = FALSE, !.ran = FALSE, !.phase = "RoundEnds"]
             det == [sess[s] EXCEPT !.deterministic = TRUE, !.ran = FALSE]
  <2>4. /\ sess'[s] \in {stp, suc, NextAttempt(det), NextAttempt(sess[s])}
        /\ sess' = [sess EXCEPT ![s] = sess'[s]]
        /\ \A t \in Sessions \ {s} : sess'[t] = sess[t]
    BY <1>7, <2>2, <1>t DEF Joins, Types, Results
  <2>5. det \in SessionRecords /\ det.attempt <= Attempts
          /\ det.stop = sess[s].stop /\ det.audio = sess[s].audio
    BY <1>t, <2>2 DEF SessionRecords
  <2>6. \A x \in {stp, suc} : x \in SessionRecords /\ x.phase \in {"Idles", "RoundEnds"}
          /\ x.stop = sess[s].stop /\ x.audio = sess[s].audio
    BY <1>t DEF SessionRecords, Phases
  <2> HIDE DEF stp, suc, det
  <2>7. sess'[s] \in SessionRecords /\ sess'[s].phase \in {"Idles", "RoundEnds", "Tries"}
          /\ sess'[s].stop = sess[s].stop /\ sess'[s].audio = sess[s].audio
          /\ (sess'[s].phase = "Tries" => sess'[s].attempt <= Attempts)
    <3>1. CASE sess'[s] \in {stp, suc}
      BY <3>1, <2>6
    <3>2. CASE sess'[s] = NextAttempt(det)
      BY <3>2, <2>5, NextAttemptType
    <3>3. CASE sess'[s] = NextAttempt(sess[s])
      BY <3>3, <1>t, <2>2, NextAttemptType
    <3> QED
      BY <2>4, <3>1, <3>2, <3>3
  <2>8. sess' \in [Sessions -> SessionRecords]
    BY <2>4, <2>7 DEF Types
  <2> QED
    BY <2>1, <2>3, <2>4, <2>7, <2>8, ShownMoves, <1>k, <1>r DEF Moves, Live, Attempting
<1>8. CASE Idles(s)
  BY <1>8, <1>d, <1>k DEF Idles, At
<1>9. CASE RoundEnds(s)
  <2>1. UNCHANGED proc /\ CallersUnchanged /\ sess[s].phase = "RoundEnds"
    BY <1>9 DEF RoundEnds, At
  <2>2. CASE SetIdle /\ IsDone(s) /\ UNCHANGED sink
    BY <2>1, <2>2, <1>d, <1>k
  <2>3. CASE SetFailed /\ IsDone(s)
               /\ sink' = IF sess[s].audio THEN [sink EXCEPT ![s].closed = TRUE] ELSE sink
    <3>1. sink' \in [Sessions -> SinkRecords]
      BY <2>3, <1>t DEF SinkRecords
    <3> QED
      BY <2>1, <2>3, <3>1, <1>d
  <2>4. CASE /\ ~sess[s].stop /\ ~GivesUp(s)
             /\ SetReconnecting(sess[s].retries + 1)
             /\ sess' = [sess EXCEPT ![s].retries = @ + 1, ![s].phase = "Waits"]
             /\ UNCHANGED sink
    <3>1. sess[s].retries + 1 \in 0 .. MaxRetries
      BY <2>4, <1>t DEF GivesUp, SessionRecords
    <3>2. sess'[s] = [sess[s] EXCEPT !.retries = sess[s].retries + 1, !.phase = "Waits"]
            /\ \A t \in Sessions \ {s} : sess'[t] = sess[t]
      BY <2>4 DEF Types
    <3>3. sess'[s] \in SessionRecords /\ sess'[s].phase = "Waits"
            /\ sess'[s].stop = sess[s].stop /\ sess'[s].audio = sess[s].audio
      BY <3>2, <3>1, <1>t DEF SessionRecords, Phases
    <3>4. sess' \in [Sessions -> SessionRecords]
      BY <2>4, <3>2, <3>3 DEF Types
    <3> QED
      BY <2>1, <2>4, <3>1, <3>2, <3>3, <3>4, ShownMoves, <1>n, <1>q, <1>k
      DEF Moves, Live, Attempting
  <2> QED
    BY <1>9, <2>2, <2>3, <2>4 DEF RoundEnds
<1>10. CASE Waits(s)
  <2>1. UNCHANGED <<proc, sink>> /\ CallersUnchanged /\ sess[s].phase = "Waits"
    BY <1>10 DEF Waits, At
  <2>2. CASE SetIdle /\ IsDone(s)
    BY <2>1, <2>2, <1>d, <1>k
  <2>3. CASE /\ sess' = [sess EXCEPT ![s].phase = "Tries", ![s].attempt = 1,
                                     ![s].started = FALSE, ![s].deterministic = FALSE,
                                     ![s].ran = FALSE, ![s].result = "None"]
             /\ UNCHANGED mgr
    <3>1. sess'[s] = [sess[s] EXCEPT !.phase = "Tries", !.attempt = 1, !.started = FALSE,
                        !.deterministic = FALSE, !.ran = FALSE, !.result = "None"]
            /\ \A t \in Sessions \ {s} : sess'[t] = sess[t]
      BY <2>3 DEF Types
    <3>2. sess'[s] \in SessionRecords /\ sess'[s].phase = "Tries" /\ sess'[s].attempt = 1
            /\ sess'[s].stop = sess[s].stop /\ sess'[s].audio = sess[s].audio
      <4> DEFINE c == [sess[s] EXCEPT !.phase = "Tries"]
                 a == [c EXCEPT !.attempt = 1, !.started = FALSE]
                 b == [a EXCEPT !.deterministic = FALSE, !.ran = FALSE, !.result = "None"]
      <4>1. a \in SessionRecords /\ a.phase = "Tries" /\ a.attempt = 1
              /\ a.stop = sess[s].stop /\ a.audio = sess[s].audio
        <5>1. c \in SessionRecords /\ c.phase = "Tries"
                /\ c.stop = sess[s].stop /\ c.audio = sess[s].audio
          BY <1>t DEF SessionRecords, Phases
        <5> HIDE DEF c
        <5>2. 1 \in 1 .. Attempts + 1
          OBVIOUS
        <5> QED
          BY <5>1, <5>2 DEF SessionRecords
      <4> HIDE DEF a
      <4>2. b \in SessionRecords /\ b.phase = "Tries" /\ b.attempt = 1
              /\ b.stop = sess[s].stop /\ b.audio = sess[s].audio
        BY <4>1 DEF SessionRecords
      <4>3. sess'[s] = b
        BY <3>1 DEF a, c
      <4> QED
        BY <4>2, <4>3
    <3>3. sess' \in [Sessions -> SessionRecords]
      BY <2>3, <3>1, <3>2 DEF Types
    <3> QED
      BY <2>1, <2>3, <3>1, <3>2, <3>3, ShownMoves, <1>n, <1>q, <1>k, <1>r
      DEF Moves, Live, Attempting
  <2> QED
    BY <1>10, <2>2, <2>3 DEF Waits
<1>11. CASE ProgressLine(s)
  <2>1. UNCHANGED sink /\ CallersUnchanged /\ sess[s].phase \in {"Monitors", "Joins"}
          /\ mgr' = [mgr EXCEPT !.state = "Publishing"]
          /\ proc' = [proc EXCEPT ![s].advanced = TRUE]
          /\ sess' = [sess EXCEPT ![s].ran = sess[s].deterministic]
    BY <1>11 DEF ProgressLine
  <2>2. sess'[s] = [sess[s] EXCEPT !.ran = sess[s].deterministic]
          /\ \A t \in Sessions \ {s} : sess'[t] = sess[t]
    BY <2>1 DEF Types
  <2>3. sess'[s] \in SessionRecords /\ sess'[s].phase = sess[s].phase
          /\ sess'[s].stop = sess[s].stop /\ sess'[s].audio = sess[s].audio
          /\ sess'[s].attempt = sess[s].attempt /\ sess'[s].result = sess[s].result
    BY <2>2, <1>t DEF SessionRecords
  <2>4. sess' \in [Sessions -> SessionRecords]
    BY <2>1, <2>2, <2>3 DEF Types
  <2>5. proc' \in [Sessions -> ProcessRecords] /\ proc'[s].state = proc[s].state
          /\ \A t \in Sessions \ {s} : proc'[t] = proc[t]
    BY <2>1 DEF Types, ProcessRecords
  <2>6. sess[s].attempt <= Attempts /\ (sess[s].phase = "Joins" => sess[s].result # "None")
    BY <2>1 DEF Ladder, Attempting
  <2> QED
    BY <2>1, <2>2, <2>3, <2>4, <2>5, <2>6, ShownMoves, <1>n, <1>k, <1>r
    DEF Moves, Live, Attempting, Processes
<1>12. CASE ProcessExits(s)
  <2>1. UNCHANGED <<mgr, sess, sink>> /\ CallersUnchanged /\ proc[s].state = "Running"
          /\ proc' = [proc EXCEPT ![s].state = "Exited"]
    BY <1>12 DEF ProcessExits
  <2>2. sess[s].phase \in {"Starts", "Monitors"}
    BY <2>1 DEF Processes
  <2>3. sess' \in [Sessions -> SessionRecords]
    BY <2>1 DEF Types
  <2>4. sess[s].attempt <= Attempts
    BY <2>2 DEF Ladder, Attempting
  <2> QED
    BY <2>1, <2>2, <2>3, <2>4, ExitMoves, ShownMoves, <1>k, <1>r DEF Moves, Live, Attempting
<1> QED
  BY <1>1, <1>2, <1>3, <1>4, <1>5, <1>6, <1>7, <1>8, <1>9, <1>10, <1>11, <1>12 DEF Thread

-----------------------------------------------------------------------------
(* The invariant *)

\* While nothing is in the slot and no stop joins, no thread lives.
LEMMA QuietThreads ==
  ASSUME NobodyIsLost, mgr.slot = None, ~Joined, NEW s \in Sessions, None \notin Sessions
  PROVE  ~Live(s)
BY DEF NobodyIsLost, Joined

LEMMA ThreadKeeps ==
  ASSUME RtmpAssumption, Inv, NEW s \in Sessions,
         Thread(s) \/ ProgressLine(s) \/ ProcessExits(s)
  PROVE  Inv'
<1> USE Constants
<1>1. Types /\ Ladder /\ Processes /\ Reservation /\ Taken /\ NobodyIsLost /\ Rest
  BY DEF Inv
<1>2. Live(s) /\ Moves(s)
  BY <1>1, ThreadMoves
<1>3. UNCHANGED <<attached, bus, transition, op, issued, stopped>>
  BY <1>2 DEF Moves, CallersUnchanged
<1>4. Types'
  BY <1>1, <1>2, <1>3 DEF Types, Moves
<1>5. Ladder' /\ Processes'
  <2> SUFFICES ASSUME NEW t \in Sessions
               PROVE  /\ sess'[t].phase \in {"Probes"} \cup Attempting =>
                            sess'[t].attempt <= Attempts
                      /\ sess'[t].phase = "Joins" => sess'[t].result # "None"
                      /\ proc'[t].state # "None" =>
                            sess'[t].phase \in {"Starts", "Monitors", "Joins"}
                      /\ proc'[t].state = "Running" => sess'[t].phase \in {"Starts", "Monitors"}
    BY DEF Ladder, Processes, Attempting
  <2>1. CASE t = s
    BY <2>1, <1>2 DEF Moves
  <2>2. CASE t # s
    BY <2>2, <1>1, <1>2 DEF Moves, Ladder, Processes
  <2> QED
    BY <2>1, <2>2
<1>6. Reservation'
  <2>1. OpAt(Main, "StartSpawns") => s # mgr.generation
    BY <1>1, <1>2 DEF Reservation, Live
  <2>2. \A t \in Sessions : sess'[t].phase = "None" <=> sess[t].phase = "None"
    BY <1>2 DEF Moves, Live
  <2>3. mgr.slot \in Sinks
    BY <1>1 DEF Types, ManagerRecords
  <2> QED
    BY <1>1, <1>2, <1>3, <2>2, <2>3 DEF Moves, Reservation, OpAt, Sinks
<1>7. Taken'
  BY <1>1, <1>2, <1>3 DEF Moves, Taken, OpAt, Live
<1>8. NobodyIsLost'
  BY <1>1, <1>2, <1>3 DEF Moves, NobodyIsLost, OpAt, Live
<1>9. Rest'
  BY <1>1, <1>2, <1>3, QuietThreads DEF Moves, Rest, Joined, OpAt
<1> QED
  BY <1>4, <1>5, <1>6, <1>7, <1>8, <1>9 DEF Inv

\* A command that leaves manager, sessions and processes alone, and neither begins nor ends
\* a reservation or a join.
Quiet ==
    /\ UNCHANGED <<mgr, sess, proc>>
    /\ op' \in [Callers -> OpRecords]
    /\ \A p \in Callers : op'[p].pc \in {"StartSpawns", "StopJoins"}
                              \/ op[p].pc \in {"StartSpawns", "StopJoins"} => op'[p] = op[p]

LEMMA QuietCommandKeeps ==
  ASSUME Inv, Types', Quiet
  PROVE  Inv'
<1> USE DEF Quiet
<1>1. \A p \in Callers : /\ OpAt(p, "StartSpawns")' <=> OpAt(p, "StartSpawns")
                         /\ OpAt(p, "StopJoins")' <=> OpAt(p, "StopJoins")
                         /\ OpAt(p, "StartSpawns") \/ OpAt(p, "StopJoins") => op'[p] = op[p]
  BY DEF OpAt
<1>2. Ladder' /\ Processes'
  BY DEF Inv, Ladder, Processes
<1>3. Main \in Callers
  BY DEF Callers
<1>4. Reservation' /\ Taken'
  BY <1>1, <1>3 DEF Inv, Reservation, Taken
<1>5. NobodyIsLost'
  BY <1>1 DEF Inv, NobodyIsLost, Live
<1>6. Rest'
  BY <1>1, <1>3 DEF Inv, Rest, Joined, StillWanted
<1> QED
  BY <1>2, <1>4, <1>5, <1>6 DEF Inv

-----------------------------------------------------------------------------
(* Steps of a command *)

LEMMA OpMoves ==
  ASSUME Types, NEW p \in Callers, NEW pc \in Places, OpGoes(p, pc)
  PROVE  /\ op' \in [Callers -> OpRecords]
         /\ \A q \in Callers \ {p} : op'[q] = op[q]
         /\ op'[p].pc = pc /\ op'[p].kind = op[p].kind /\ op'[p].session = op[p].session
BY DEF Types, OpGoes, OpRecords

LEMMA ReturnMoves ==
  ASSUME Types, NEW p \in Callers, Returns(p)
  PROVE  /\ op' \in [Callers -> OpRecords]
         /\ \A q \in Callers \ {p} : op'[q] = op[q]
         /\ op'[p] = NoOp /\ op'[p].pc = "Idle"
         /\ transition' \in Callers \cup {Nobody}
<1>1. NoOp \in OpRecords /\ NoOp.pc = "Idle"
  BY DEF NoOp, OpRecords, Places, Sinks
<1> QED
  BY <1>1 DEF Types, Returns

LEMMA FinishMoves ==
  ASSUME Types, NEW p \in Callers, Finishes(p)
  PROVE  /\ op' \in [Callers -> OpRecords]
         /\ \A q \in Callers \ {p} : op'[q] = op[q]
         /\ op'[p].pc \in {"Idle", "BusChanges"}
         /\ transition' \in Callers \cup {Nobody}
<1>1. CASE OpGoes(p, "BusChanges") /\ UNCHANGED transition
  <2>1. "BusChanges" \in Places
    BY DEF Places
  <2> QED
    BY <1>1, <2>1, OpMoves DEF Types
<1>2. CASE Returns(p)
  BY <1>2, ReturnMoves
<1> QED
  BY <1>1, <1>2 DEF Finishes

\* A command is issued by a caller that has none.
LEMMA IssueMoves ==
  ASSUME RtmpAssumption, Types, NEW p \in Callers, NEW kind, Issue(p, kind)
  PROVE  /\ op[p].pc = "Idle" /\ kind \in AllKinds /\ issued' \in 0 .. MaxOps
         /\ kind \in {"Start", "Stop"} => p = Main
BY Constants DEF Types, Issue, NoOp, AllKinds, RtmpAssumption

LEMMA StartReservesKeeps ==
  ASSUME RtmpAssumption, Inv, StartReserves
  PROVE  Inv'
<1> USE Constants
<1>1. Types /\ Ladder /\ Processes /\ Reservation /\ Taken /\ NobodyIsLost /\ Rest
  BY DEF Inv
<1>2. /\ UNCHANGED <<sess, proc, sink, attached, bus, stopped>>
      /\ mgr.generation < MaxSessions
      /\ op[Main].pc = "Idle" /\ issued' \in 0 .. MaxOps
  BY <1>1, IssueMoves DEF StartReserves, OutputUnchanged
<1>3. CASE UNCHANGED <<mgr, op, transition>>
  <2>1. Types'
    BY <1>1, <1>2, <1>3 DEF Types
  <2> QED
    BY <2>1, <1>2, <1>3, QuietCommandKeeps DEF Quiet, Types
<1>4. CASE ~UNCHANGED <<mgr, op, transition>>
  <2> DEFINE g == mgr.generation + 1
  <2>a. PICK audio \in BOOLEAN :
          /\ mgr' = [mgr EXCEPT !.state = "Starting", !.generation = g, !.pid = None,
                                !.retries = 0, !.audio = audio, !.slot = None,
                                !.sink = NewSink(audio, g)]
          /\ op' = [op EXCEPT ![Main] = [kind |-> "Start", pc |-> "StartSpawns", session |-> g]]
          /\ transition' = Main
          /\ mgr.slot = None \/ sess[mgr.slot].phase = "Done"
    BY <1>4 DEF StartReserves
  <2>1. g \in Sessions /\ g \in 0 .. MaxSessions
    BY <1>1, <1>2 DEF Types, ManagerRecords, Sessions
  <2>2. mgr' = [state |-> "Starting", generation |-> g, pid |-> None, retries |-> 0,
                audio |-> audio, sink |-> NewSink(audio, g), slot |-> None]
    BY <1>1, <2>a DEF Types, ManagerRecords
  <2>3. NewSink(audio, g) \in Sinks
    BY <2>1 DEF NewSink, Sinks
  <2>4. mgr' \in ManagerRecords /\ mgr'.slot = None /\ mgr'.generation = g
          /\ mgr'.state = "Starting"
    BY <2>1, <2>2, <2>3 DEF ManagerRecords, States, Sinks
  <2>5. /\ op' \in [Callers -> OpRecords] /\ op'[Main].pc = "StartSpawns"
        /\ op'[Main].session = g
        /\ \A q \in Callers \ {Main} : op'[q] = op[q]
    BY <1>1, <2>a, <2>1 DEF Types, OpRecords, AllKinds, Places, Sinks
  <2> HIDE DEF g
  <2>6. Types'
    BY <1>1, <1>2, <2>a, <2>4, <2>5 DEF Types
  <2>7. Ladder' /\ Processes'
    BY <1>1, <1>2 DEF Ladder, Processes
  <2>8. g > mgr.generation
    BY <1>1 DEF g, Types, ManagerRecords
  <2>9. Reservation'
    BY <1>1, <1>2, <2>1, <2>4, <2>5, <2>8 DEF Reservation, OpAt, Types, ManagerRecords
  <2>10. Taken' /\ NobodyIsLost'
    BY <1>1, <1>2, <2>a, <2>4, <2>5 DEF Taken, NobodyIsLost, Live, OpAt
  <2>11. Rest'
    BY <2>4, <2>5 DEF Rest, OpAt, StillWanted
  <2> QED
    BY <2>6, <2>7, <2>9, <2>10, <2>11 DEF Inv
<1> QED
  BY <1>3, <1>4

LEMMA StartSpawnsKeeps ==
  ASSUME RtmpAssumption, Inv, StartSpawns
  PROVE  Inv'
<1> USE Constants
<1>1. Types /\ Ladder /\ Processes /\ Reservation /\ Taken /\ NobodyIsLost /\ Rest
  BY DEF Inv
<1> DEFINE g == op[Main].session
<1>2. /\ OpAt(Main, "StartSpawns") /\ op[Main].pc = "StartSpawns"
      /\ g = mgr.generation /\ g \in Sessions /\ mgr.slot = None
      /\ sess[g].phase = "None" /\ proc[g].state = "None"
  <2>1. OpAt(Main, "StartSpawns")
    BY DEF StartSpawns
  <2>2. g = mgr.generation /\ g \in Sessions /\ mgr.slot = None /\ sess[g].phase = "None"
    BY <1>1, <2>1 DEF Reservation
  <2> QED
    BY <1>1, <2>1, <2>2 DEF OpAt, Processes
<1>3. UNCHANGED <<proc, sink, attached, bus, issued, stopped>>
  BY DEF StartSpawns
<1> HIDE DEF g
<1>p. "AttachReads" \in Places
  BY DEF Places
<1>4. CASE /\ sess' = [sess EXCEPT ![g] = [NoSession EXCEPT !.phase = "Probes",
                                                            !.audio = mgr.audio]]
           /\ mgr' = [mgr EXCEPT !.slot = g]
           /\ OpGoes(Main, "AttachReads") /\ UNCHANGED transition
  <2>1. mgr.audio \in BOOLEAN
    BY <1>1 DEF Types, ManagerRecords
  <2>2. /\ sess' \in [Sessions -> SessionRecords]
        /\ sess'[g] = [NoSession EXCEPT !.phase = "Probes", !.audio = mgr.audio]
        /\ \A t \in Sessions \ {g} : sess'[t] = sess[t]
    BY <1>1, <1>2, <1>4, <2>1, NoSessionType DEF Types
  <2>3. sess'[g].phase = "Probes" /\ sess'[g].attempt = 1
    BY <2>2 DEF NoSession
  <2>4. mgr' \in ManagerRecords /\ mgr'.slot = g /\ mgr'.generation = mgr.generation
    BY <1>1, <1>2, <1>4 DEF Types, ManagerRecords, Sinks
  <2>5. /\ op' \in [Callers -> OpRecords] /\ op'[Main].pc = "AttachReads"
        /\ \A q \in Callers \ {Main} : op'[q] = op[q]
    BY <1>1, <1>4, <1>p, OpMoves
  <2>6. Types'
    BY <1>1, <1>3, <1>4, <2>2, <2>4, <2>5 DEF Types
  <2>7. Ladder' /\ Processes'
    <3> SUFFICES ASSUME NEW t \in Sessions
                 PROVE  /\ sess'[t].phase \in {"Probes"} \cup Attempting =>
                              sess'[t].attempt <= Attempts
                        /\ sess'[t].phase = "Joins" => sess'[t].result # "None"
                        /\ proc'[t].state # "None" =>
                              sess'[t].phase \in {"Starts", "Monitors", "Joins"}
                        /\ proc'[t].state = "Running" =>
                              sess'[t].phase \in {"Starts", "Monitors"}
      BY DEF Ladder, Processes, Attempting
    <3>1. CASE t = g
      BY <3>1, <1>2, <1>3, <2>3
    <3>2. CASE t # g
      BY <3>2, <1>1, <1>3, <2>2 DEF Ladder, Processes
    <3> QED
      BY <3>1, <3>2
  <2>8. Reservation'
    <3>1. ~OpAt(Main, "StartSpawns")' /\ (mgr'.slot # None => sess'[mgr'.slot].phase # "None")
      BY <2>3, <2>4, <2>5 DEF OpAt
    <3>2. \A t \in Sessions : t > mgr'.generation => sess'[t].phase = "None"
      BY <1>1, <1>2, <2>2, <2>4 DEF Reservation, Types, ManagerRecords
    <3> QED
      BY <3>1, <3>2 DEF Reservation
  <2>9. Taken'
    <3>1. ASSUME NEW q \in Callers, op'[q].pc = "StopJoins"
          PROVE  /\ op'[q].session \in Sessions /\ sess'[op'[q].session].phase # "None"
                 /\ sess'[op'[q].session].stop \/ sess'[op'[q].session].phase = "Done"
      <4>1. q # Main /\ op'[q] = op[q] /\ OpAt(q, "StopJoins")
        BY <2>5, <3>1 DEF OpAt
      <4>2. op[q].session \in Sessions /\ sess[op[q].session].phase # "None"
              /\ (sess[op[q].session].stop \/ sess[op[q].session].phase = "Done")
        BY <1>1, <4>1 DEF Taken
      <4>3. op[q].session # g
        BY <4>2, <1>2
      <4> QED
        BY <4>1, <4>2, <4>3, <2>2
    <3> QED
      BY <3>1 DEF Taken, OpAt
  <2>10. NobodyIsLost'
    BY <1>1, <1>2, <2>2, <2>4, <2>5 DEF NobodyIsLost, Live, OpAt
  <2>11. Rest'
    BY <1>2, <2>4 DEF Rest
  <2> QED
    BY <2>6, <2>7, <2>8, <2>9, <2>10, <2>11 DEF Inv
<1>5. CASE /\ mgr' = [mgr EXCEPT !.sink = None, !.state = "Failed"]
           /\ Returns(Main) /\ UNCHANGED sess
  <2>1. mgr' \in ManagerRecords /\ mgr'.slot = mgr.slot /\ mgr'.generation = mgr.generation
          /\ mgr'.state = "Failed" /\ mgr'.sink = None
    BY <1>1, <1>5 DEF Types, ManagerRecords, Sinks, States
  <2>2. /\ op' \in [Callers -> OpRecords] /\ op'[Main].pc = "Idle"
        /\ \A q \in Callers \ {Main} : op'[q] = op[q]
        /\ transition' \in Callers \cup {Nobody}
    BY <1>1, <1>5, ReturnMoves
  <2>3. Types'
    BY <1>1, <1>3, <1>5, <2>1, <2>2 DEF Types
  <2>4. Ladder' /\ Processes'
    BY <1>1, <1>3, <1>5 DEF Ladder, Processes
  <2>5. Reservation' /\ Taken' /\ NobodyIsLost'
    BY <1>1, <1>2, <1>5, <2>1, <2>2 DEF Reservation, Taken, NobodyIsLost, Live, OpAt
  <2>6. Rest'
    BY <2>1 DEF Rest
  <2> QED
    BY <2>3, <2>4, <2>5, <2>6 DEF Inv
<1>6. CASE ~StillWanted(Main) /\ OpGoes(Main, "AttachReads") /\ UNCHANGED <<mgr, sess, transition>>
  <2>2. /\ op' \in [Callers -> OpRecords] /\ op'[Main].pc = "AttachReads"
        /\ \A q \in Callers \ {Main} : op'[q] = op[q]
    BY <1>1, <1>6, <1>p, OpMoves
  <2>3. Types'
    BY <1>1, <1>3, <1>6, <2>2 DEF Types
  <2>4. Ladder' /\ Processes'
    BY <1>1, <1>3, <1>6 DEF Ladder, Processes
  <2>5. Reservation' /\ Taken' /\ NobodyIsLost'
    BY <1>1, <1>2, <1>6, <2>2 DEF Reservation, Taken, NobodyIsLost, Live, OpAt
  <2>6. Rest'
    BY <1>1, <1>2, <1>6, <2>2 DEF Rest, Joined, OpAt
  <2> QED
    BY <2>3, <2>4, <2>5, <2>6 DEF Inv
<1> QED
  BY <1>4, <1>5, <1>6 DEF StartSpawns, g

LEMMA StopTakesKeeps ==
  ASSUME RtmpAssumption, Inv, NEW p \in Callers, StopTakes(p)
  PROVE  Inv'
<1> USE Constants
<1>1. Types /\ Ladder /\ Processes /\ Reservation /\ Taken /\ NobodyIsLost /\ Rest
  BY DEF Inv
<1>2. op[p].pc = "Takes" /\ UNCHANGED <<proc, attached, bus, issued>>
  BY DEF StopTakes, OpAt
<1>3. CASE mgr.slot = None
  <2>0. /\ mgr' = [mgr EXCEPT !.state = "Idle", !.pid = None, !.sink = None]
        /\ stopped' = mgr.generation /\ Finishes(p) /\ UNCHANGED <<sess, sink>>
    BY <1>3 DEF StopTakes
  <2>1. mgr' \in ManagerRecords /\ mgr'.slot = mgr.slot /\ mgr'.generation = mgr.generation
          /\ mgr'.state = "Idle" /\ mgr'.sink = None
    BY <1>1, <2>0 DEF Types, ManagerRecords, Sinks, States
  <2>2. /\ op' \in [Callers -> OpRecords] /\ op'[p].pc \in {"Idle", "BusChanges"}
        /\ \A q \in Callers \ {p} : op'[q] = op[q]
        /\ transition' \in Callers \cup {Nobody}
    BY <1>1, <2>0, FinishMoves
  <2>a. stopped' \in Sinks
    BY <1>1, <2>0 DEF Types, ManagerRecords, Sinks, Sessions, None
  <2>3. Types'
    BY <1>1, <1>2, <2>0, <2>1, <2>2, <2>a DEF Types
  <2>4. Ladder' /\ Processes'
    BY <1>1, <1>2, <2>0 DEF Ladder, Processes
  <2>5. Reservation' /\ Taken' /\ NobodyIsLost'
    BY <1>1, <1>2, <2>0, <2>1, <2>2 DEF Reservation, Taken, NobodyIsLost, Live, OpAt
  <2>6. Rest'
    BY <2>1 DEF Rest
  <2> QED
    BY <2>3, <2>4, <2>5, <2>6 DEF Inv
<1>4. CASE mgr.slot # None
  <2> DEFINE s == mgr.slot
  <2>0. /\ mgr' = [mgr EXCEPT !.state = "Stopping", !.slot = None]
        /\ sess' = [sess EXCEPT ![s].stop = TRUE]
        /\ sink' = [i \in Sessions |->
                        IF i = mgr.sink THEN [sink[i] EXCEPT !.closed = TRUE] ELSE sink[i]]
        /\ op' = [op EXCEPT ![p].session = s, ![p].pc = "StopJoins"]
        /\ UNCHANGED <<transition, stopped>>
    BY <1>4 DEF StopTakes
  <2>s. s \in Sessions /\ sess[s] \in SessionRecords
    BY <1>1, <1>4 DEF Types, ManagerRecords, Sinks
  <2>1. mgr' \in ManagerRecords /\ mgr'.slot = None /\ mgr'.generation = mgr.generation
    BY <1>1, <2>0 DEF Types, ManagerRecords, Sinks, States
  <2> HIDE DEF s
  <2>2. /\ op' \in [Callers -> OpRecords] /\ op'[p].pc = "StopJoins" /\ op'[p].session = s
        /\ \A q \in Callers \ {p} : op'[q] = op[q]
    BY <1>1, <2>0, <2>s DEF Types, OpRecords, Places, Sinks
  <2>3. /\ sess' \in [Sessions -> SessionRecords]
        /\ sess'[s].stop /\ sess'[s].phase = sess[s].phase
        /\ sess'[s].attempt = sess[s].attempt /\ sess'[s].result = sess[s].result
        /\ \A t \in Sessions \ {s} : sess'[t] = sess[t]
    BY <1>1, <2>0, <2>s DEF Types, SessionRecords
  <2>4. sink' \in [Sessions -> SinkRecords]
    BY <1>1, <2>0 DEF Types, SinkRecords
  <2>5. Types'
    BY <1>1, <1>2, <2>0, <2>1, <2>2, <2>3, <2>4 DEF Types
  <2>6. \A t \in Sessions : /\ sess'[t].phase = sess[t].phase
                            /\ sess'[t].attempt = sess[t].attempt
                            /\ sess'[t].result = sess[t].result
                            /\ sess[t].stop => sess'[t].stop
    BY <2>3, <2>s
  <2>7. Ladder' /\ Processes'
    BY <1>1, <1>2, <2>6 DEF Ladder, Processes
  <2>8. Reservation'
    BY <1>1, <1>2, <2>1, <2>2, <2>6 DEF Reservation, OpAt
  <2>9. Taken'
    <3>1. ASSUME NEW q \in Callers, op'[q].pc = "StopJoins"
          PROVE  /\ op'[q].session \in Sessions /\ sess'[op'[q].session].phase # "None"
                 /\ sess'[op'[q].session].stop \/ sess'[op'[q].session].phase = "Done"
      <4>1. CASE q = p
        BY <4>1, <1>1, <1>4, <2>2, <2>3, <2>s DEF Reservation, s
      <4>2. CASE q # p
        <5>1. op'[q] = op[q] /\ OpAt(q, "StopJoins")
          BY <4>2, <2>2, <3>1 DEF OpAt
        <5>2. /\ op[q].session \in Sessions /\ sess[op[q].session].phase # "None"
              /\ sess[op[q].session].stop \/ sess[op[q].session].phase = "Done"
          BY <1>1, <5>1 DEF Taken
        <5> QED
          BY <5>1, <5>2, <2>6
      <4> QED
        BY <4>1, <4>2
    <3> QED
      BY <3>1 DEF Taken, OpAt
  <2>10. NobodyIsLost'
    BY <1>1, <1>2, <2>2, <2>6 DEF NobodyIsLost, Live, OpAt, s
  <2>11. Rest'
    BY <2>2 DEF Rest, Joined, OpAt
  <2> QED
    BY <2>5, <2>7, <2>8, <2>9, <2>10, <2>11 DEF Inv
<1> QED
  BY <1>3, <1>4

LEMMA StopJoinsKeeps ==
  ASSUME RtmpAssumption, Inv, NEW p \in Callers, StopJoins(p)
  PROVE  Inv'
<1> USE Constants
<1>1. Types /\ Ladder /\ Processes /\ Reservation /\ Taken /\ NobodyIsLost /\ Rest
  BY DEF Inv
<1>2. /\ op[p].pc = "StopJoins" /\ sess[op[p].session].phase = "Done"
      /\ UNCHANGED <<sess, proc, sink, attached, bus, issued, stopped>>
      /\ mgr' = [mgr EXCEPT !.state = "Idle", !.pid = None, !.sink = None]
      /\ Finishes(p)
  BY DEF StopJoins, OpAt, OutputUnchanged
<1>3. mgr' \in ManagerRecords /\ mgr'.slot = mgr.slot /\ mgr'.generation = mgr.generation
        /\ mgr'.state = "Idle" /\ mgr'.sink = None
  BY <1>1, <1>2 DEF Types, ManagerRecords, Sinks, States
<1>4. /\ op' \in [Callers -> OpRecords] /\ op'[p].pc \in {"Idle", "BusChanges"}
      /\ \A q \in Callers \ {p} : op'[q] = op[q]
      /\ transition' \in Callers \cup {Nobody}
  BY <1>1, <1>2, FinishMoves
<1>5. Types'
  BY <1>1, <1>2, <1>3, <1>4 DEF Types
<1>6. Ladder' /\ Processes'
  BY <1>1, <1>2 DEF Ladder, Processes
<1>7. Reservation' /\ Taken'
  BY <1>1, <1>2, <1>3, <1>4 DEF Reservation, Taken, OpAt
<1>8. NobodyIsLost'
  BY <1>1, <1>2, <1>3, <1>4 DEF NobodyIsLost, Live, OpAt
<1>9. Rest'
  BY <1>3 DEF Rest
<1> QED
  BY <1>5, <1>6, <1>7, <1>8, <1>9 DEF Inv

\* The commands that neither reserve nor take a session.
LEMMA OtherCommandsAreQuiet ==
  ASSUME RtmpAssumption, Types, NEW p \in Callers,
         \/ AttachReads \/ Attaches \/ Overruns
         \/ Ends(p) \/ StopBegins(p) \/ BackendBegins(p) \/ Detaches(p) \/ BusChanges(p)
  PROVE  Types' /\ Quiet /\ UNCHANGED stopped
<1> USE Constants
<1>1. Types
  OBVIOUS
<1>p. {"Ends", "Detaches", "Takes", "Attaches", "BusChanges"} \subseteq Places
  BY DEF Places
<1>2. UNCHANGED <<mgr, sess, proc, stopped>>
  BY DEF AttachReads, Attaches, Overruns, Ends, StopBegins, BackendBegins, Detaches, BusChanges,
         OutputUnchanged
<1>m. mgr.sink \in Sinks
  BY <1>1 DEF Types, ManagerRecords
<1> DEFINE Rests == /\ sink' \in [Sessions -> SinkRecords] /\ attached' \in Sinks
                    /\ bus' \in BOOLEAN /\ transition' \in Callers \cup {Nobody}
                    /\ issued' \in 0 .. MaxOps
<1>3. ASSUME NEW q \in Callers, NEW pc \in Places \ {"StartSpawns", "StopJoins"},
             op[q].pc \notin {"StartSpawns", "StopJoins"}, OpGoes(q, pc)
      PROVE  Quiet
  BY <1>1, <1>2, <1>3, OpMoves DEF Quiet
<1>4. ASSUME NEW q \in Callers, op[q].pc \notin {"StartSpawns", "StopJoins"}, Returns(q)
      PROVE  Quiet /\ transition' \in Callers \cup {Nobody}
  BY <1>1, <1>2, <1>4, ReturnMoves DEF Quiet
<1>5. CASE AttachReads
  <2>1. op[Main].pc = "AttachReads" /\ UNCHANGED <<sink, attached, bus, transition, issued>>
    BY <1>5 DEF AttachReads, OpAt
  <2>2. op' = [op EXCEPT ![Main].pc = IF bus THEN "Attaches" ELSE "Ends",
                         ![Main].session = mgr.sink]
    BY <1>5 DEF AttachReads
  <2>3. Quiet
    <3> DEFINE pc == IF bus THEN "Attaches" ELSE "Ends"
    <3>1. pc \in Places \ {"StartSpawns", "StopJoins"}
      BY DEF Places
    <3> HIDE DEF pc
    <3>2. op[Main] \in OpRecords
      BY <1>1, Constants DEF Types
    <3>3. [op[Main] EXCEPT !.pc = pc, !.session = mgr.sink] \in OpRecords
      BY <3>1, <3>2, <1>m DEF OpRecords
    <3>4. op' = [op EXCEPT ![Main] = [op[Main] EXCEPT !.pc = pc, !.session = mgr.sink]]
      BY <2>2, Constants, <1>1 DEF Types, pc
    <3>5. op' \in [Callers -> OpRecords]
      BY <1>1, <3>3, <3>4 DEF Types
    <3>6. /\ \A q \in Callers \ {Main} : op'[q] = op[q]
          /\ op'[Main].pc = pc
      BY <1>1, <3>2, <3>4, Constants DEF Types, OpRecords
    <3> QED
      BY <3>1, <3>5, <3>6, <2>1, <1>2 DEF Quiet
  <2>4. Rests
    BY <1>1, <2>1 DEF Types
  <2> HIDE DEF Rests
  <2>5. Types'
    BY <1>1, <1>2, <2>3, <2>4 DEF Types, Quiet, Rests
  <2> QED
    BY <1>2, <2>3, <2>5
<1>6. CASE Attaches
  <2>1. op[Main].pc = "Attaches" /\ UNCHANGED <<sink, bus, transition, issued>>
    BY <1>6 DEF Attaches, OpAt
  <2>2. Quiet
    <3>1. OpGoes(Main, "Ends") \/ OpGoes(Main, "Detaches")
      BY <1>6 DEF Attaches
    <3> QED
      BY <3>1, <2>1, <1>3, <1>p
  <2>3. attached' \in Sinks
    BY <1>1, <1>6 DEF Attaches, Types, OpRecords
  <2>4. Types'
    BY <1>1, <1>2, <2>1, <2>2, <2>3 DEF Types, Quiet
  <2> QED
    BY <1>2, <2>2, <2>4
<1>7. CASE Overruns
  <2>1. sink' \in [Sessions -> SinkRecords]
    BY <1>1, <1>7 DEF Overruns, Types, SinkRecords
  <2>2. UNCHANGED <<attached, bus, transition, op, issued>>
    BY <1>7 DEF Overruns
  <2>3. Types'
    BY <1>1, <1>2, <2>1, <2>2 DEF Types, Quiet
  <2> QED
    BY <1>1, <1>2, <2>2, <2>3 DEF Quiet, Types
<1>8. CASE Ends(p)
  <2>1. op[p].pc = "Ends" /\ Returns(p) /\ UNCHANGED <<sink, attached, bus, issued>>
    BY <1>8 DEF Ends, OpAt
  <2>2. Quiet /\ transition' \in Callers \cup {Nobody}
    BY <2>1, <1>4
  <2>3. Types'
    BY <1>1, <1>2, <2>1, <2>2 DEF Types, Quiet
  <2> QED
    BY <1>2, <2>2, <2>3
<1>9. CASE StopBegins(p) \/ BackendBegins(p)
  <2>1. /\ UNCHANGED <<sink, attached, bus>> /\ transition' \in Callers \cup {Nobody}
        /\ op[p].pc = "Idle" /\ issued' \in 0 .. MaxOps
    BY <1>1, <1>9, IssueMoves DEF StopBegins, BackendBegins, Types
  <2>2. PICK kind \in AllKinds, pc \in {"Detaches", "BusChanges"} :
          op' = [op EXCEPT ![p].kind = kind, ![p].pc = pc]
    BY <1>9 DEF StopBegins, BackendBegins, AllKinds
  <2>3. op[p] \in OpRecords /\ pc \in Places
    BY <1>1, <1>p DEF Types
  <2>4. Quiet
    BY <1>1, <1>2, <2>1, <2>2, <2>3 DEF Types, OpRecords, Quiet
  <2>5. Types'
    BY <1>1, <1>2, <2>1, <2>4 DEF Types, Quiet
  <2> QED
    BY <1>2, <2>4, <2>5
<1>10. CASE Detaches(p)
  <2>1. op[p].pc = "Detaches" /\ OpGoes(p, "Takes") /\ UNCHANGED <<sink, bus, transition, issued>>
    BY <1>10 DEF Detaches, OpAt
  <2>2. attached' \in Sinks
    BY <1>1, <1>10 DEF Detaches, Types, Sinks
  <2>3. Quiet
    BY <2>1, <1>3, <1>p
  <2>4. Types'
    BY <1>1, <1>2, <2>1, <2>2, <2>3 DEF Types, Quiet
  <2> QED
    BY <1>2, <2>3, <2>4
<1>11. CASE BusChanges(p)
  <2>1. op[p].pc = "BusChanges" /\ Returns(p) /\ UNCHANGED <<sink, issued>>
          /\ bus' \in BOOLEAN /\ attached' = None
    BY <1>11 DEF BusChanges, OpAt
  <2>2. Quiet /\ transition' \in Callers \cup {Nobody}
    BY <2>1, <1>4
  <2>3. attached' \in Sinks
    BY <2>1 DEF Sinks
  <2>4. Types'
    BY <1>1, <1>2, <2>1, <2>2, <2>3 DEF Types, Quiet
  <2> QED
    BY <1>2, <2>2, <2>4
<1> QED
  BY <1>5, <1>6, <1>7, <1>8, <1>9, <1>10, <1>11

LEMMA NextKeeps ==
  ASSUME RtmpAssumption, Inv, [Next]_vars
  PROVE  Inv'
<1>1. CASE UNCHANGED vars
  BY <1>1 DEF vars, Inv, Types, Ladder, Processes, Reservation, Taken, NobodyIsLost, Rest,
              Joined, OpAt, StillWanted, Live
<1>2. CASE Next
  <2>1. Main \in Callers
    BY DEF Callers
  <2> QED
    BY <1>2, <2>1, StartReservesKeeps, StartSpawnsKeeps, StopTakesKeeps, StopJoinsKeeps,
       OtherCommandsAreQuiet, QuietCommandKeeps, ThreadKeeps DEF Next, Starting, Continues, Inv
<1> QED
  BY <1>1, <1>2

\* Types, the ladder, the processes, the reservation of a start and the sessions that stops
\* have taken, on which all that follows rests; the type invariant follows from it.
THEOREM RtmpInvariant ==
  ASSUME RtmpAssumption
  PROVE  Spec => [](Inv /\ TypeOK)
<1>1. Init => Inv
  BY Initially
<1>2. Inv /\ [Next]_vars => Inv'
  BY NextKeeps
<1>3. Inv => TypeOK
  BY TypesImplyTypeOK DEF Inv
<1> QED
  BY <1>1, <1>2, <1>3, PTL DEF Spec

\* However many threads start and stop the output, a session thread that lives, and with it
\* a process, is in the slot or a stop joins it: nothing publishes that nobody can stop.
THEOREM NobodyIsEverLost ==
  ASSUME RtmpAssumption
  PROVE  Spec => []NobodyIsLost
<1>1. Inv => NobodyIsLost
  BY DEF Inv
<1> QED
  BY <1>1, RtmpInvariant, PTL

\* When every command has returned and no session is left, the manager says so, feeds
\* nothing, and no process runs, however many stops met.
THEOREM RestIsShown ==
  ASSUME RtmpAssumption
  PROVE  Spec => []QuietIsIdle
<1>1. Inv => QuietIsIdle
  <2> SUFFICES ASSUME Inv, \A p \in Callers : op[p] = NoOp, mgr.slot = None
               PROVE  /\ mgr.state \in {"Idle", "Failed"} /\ mgr.sink = None
                      /\ \A s \in Sessions : proc[s].state # "Running"
    BY DEF QuietIsIdle
  <2>1. ~Joined /\ ~OpAt(Main, "StartSpawns")
    BY DEF Joined, OpAt, NoOp, Callers
  <2>2. mgr.state \in {"Idle", "Failed"} /\ mgr.sink = None
    BY <2>1 DEF Inv, Rest
  <2>3. \A s \in Sessions : ~Live(s)
    BY <2>1, Constants, QuietThreads DEF Inv
  <2> QED
    BY <2>2, <2>3 DEF Inv, Processes, Live
<1> QED
  BY <1>1, RtmpInvariant, PTL

-----------------------------------------------------------------------------
(* One thread besides the main thread stops the output *)

\* The generation that a stop found without a session, while a start has reserved it, is not
\* the one the start still wants: nobody is left who could write the state.
Buried ==
    /\ stopped <= mgr.generation
    /\ OpAt(Main, "StartSpawns") /\ stopped = mgr.generation => mgr.state # "Starting" /\ ~Joined

FinalInv == Buried /\ StopsHold

OneOther == \A p, q \in Background : p = q

LEMMA FinalKeeps ==
  ASSUME RtmpAssumption, OneOther, Inv, Inv', FinalInv, [Next]_vars
  PROVE  FinalInv'
<1> USE Constants
<1>1. Types /\ Ladder /\ Processes /\ Reservation /\ Taken /\ NobodyIsLost /\ Rest
  BY DEF Inv
<1>2. Buried /\ StopsHold
  BY DEF FinalInv
<1>t. mgr.generation \in Nat /\ stopped \in Nat
  BY <1>1 DEF Types, ManagerRecords, Sinks, None
<1>m. Main \in Callers /\ \A p \in Callers : p # Main => p \in Background
  BY DEF Callers
\* The generation of a start in progress that a stop has buried: no thread lives.
<1>q. ASSUME OpAt(Main, "StartSpawns"), stopped = mgr.generation
      PROVE  \A s \in Sessions : ~Live(s)
  BY <1>q, <1>1, <1>2, QuietThreads DEF Buried, Reservation
<1>3. ASSUME NEW s \in Sessions, Thread(s) \/ ProgressLine(s) \/ ProcessExits(s)
      PROVE  FinalInv'
  <2>1. Live(s) /\ Moves(s)
    BY <1>1, <1>3, ThreadMoves
  <2>2. UNCHANGED <<op, stopped>> /\ mgr'.generation = mgr.generation
    BY <2>1 DEF Moves, CallersUnchanged
  <2>3. Buried'
    BY <1>2, <1>q, <2>1, <2>2 DEF Buried, OpAt
  <2>4. StopsHold'
    <3> SUFFICES ASSUME NEW t \in Sessions, Live(t)', ~sess'[t].stop
                 PROVE  t > stopped
      BY <2>2 DEF StopsHold
    <3>1. Live(t) /\ ~sess[t].stop
      BY <2>1 DEF Moves, Live
    <3> QED
      BY <3>1, <1>2 DEF StopsHold
  <2> QED
    BY <2>3, <2>4 DEF FinalInv
<1>4. CASE StartReserves
  <2>1. UNCHANGED <<sess, stopped>>
    BY <1>4 DEF StartReserves, OutputUnchanged
  <2>2. StopsHold'
    BY <1>2, <2>1 DEF StopsHold, Live
  <2>3. CASE UNCHANGED <<mgr, op>>
    BY <1>2, <2>1, <2>2, <2>3 DEF FinalInv, Buried, OpAt, Joined
  <2>4. CASE ~UNCHANGED <<mgr, op>>
    <3>1. mgr'.generation = mgr.generation + 1
      BY <1>1, <1>4, <2>4 DEF StartReserves, Types, ManagerRecords
    <3> QED
      BY <1>2, <1>t, <2>1, <2>2, <3>1 DEF FinalInv, Buried
  <2> QED
    BY <2>3, <2>4
<1>5. CASE StartSpawns
  <2>1. OpAt(Main, "StartSpawns") /\ UNCHANGED stopped
    BY <1>5 DEF StartSpawns
  <2>2. op[Main].session = mgr.generation /\ mgr.generation \in Sessions
    BY <1>1, <2>1 DEF Reservation
  <2>3. mgr'.generation = mgr.generation
    BY <1>1, <1>5 DEF StartSpawns, Types, ManagerRecords
  <2>4. ~OpAt(Main, "StartSpawns")'
    BY <1>1, <1>5, <1>m DEF StartSpawns, OpGoes, Returns, NoOp, OpAt, Types, OpRecords
  <2>5. Buried'
    BY <1>2, <2>1, <2>3, <2>4 DEF Buried
  <2>6. StopsHold'
    <3>1. CASE UNCHANGED sess
      BY <1>2, <2>1, <3>1 DEF StopsHold, Live
    <3>2. CASE /\ StillWanted(Main)
               /\ sess' = [sess EXCEPT ![op[Main].session] =
                              [NoSession EXCEPT !.phase = "Probes", !.audio = mgr.audio]]
      <4>1. stopped < mgr.generation
        BY <1>2, <1>t, <2>1, <3>2 DEF Buried, StillWanted
      <4>2. \A t \in Sessions : t # mgr.generation => sess'[t] = sess[t]
        BY <1>1, <2>2, <3>2 DEF Types
      <4> QED
        BY <1>2, <1>t, <2>1, <4>1, <4>2 DEF StopsHold, Live
    <3> QED
      BY <1>5, <3>1, <3>2 DEF StartSpawns
  <2> QED
    BY <2>5, <2>6 DEF FinalInv
<1>6. ASSUME NEW p \in Callers, StopTakes(p)
      PROVE  FinalInv'
  <2>0. op[p].pc = "Takes"
    BY <1>6 DEF StopTakes, OpAt
  <2>1. CASE mgr.slot = None
    <3>1. /\ mgr'.generation = mgr.generation /\ mgr'.state = "Idle"
          /\ stopped' = mgr.generation /\ Finishes(p) /\ UNCHANGED sess
      BY <1>1, <1>6, <2>1 DEF StopTakes, Types, ManagerRecords
    <3>2. op'[p].pc \in {"Idle", "BusChanges"} /\ \A q \in Callers \ {p} : op'[q] = op[q]
      BY <1>1, <3>1, FinishMoves
    <3>3. OpAt(Main, "StartSpawns")' => ~Joined'
      <4> SUFFICES ASSUME op'[Main].pc = "StartSpawns", NEW q \in Callers, op'[q].pc = "StopJoins"
                   PROVE  FALSE
        BY DEF OpAt, Joined
      <4>1. p # Main /\ q # Main /\ q # p
        BY <3>2
      <4> QED
        BY <4>1, <1>m DEF OneOther
    <3>4. Buried'
      BY <1>t, <3>1, <3>3 DEF Buried
    <3>5. ASSUME NEW t \in Sessions, Live(t)
          PROVE  sess[t].stop
      <4>1. PICK q \in Callers : OpAt(q, "StopJoins") /\ op[q].session = t
        BY <1>1, <2>1, <3>5 DEF NobodyIsLost
      <4> QED
        BY <1>1, <3>5, <4>1 DEF Taken, Live
    <3>6. StopsHold'
      BY <3>1, <3>5 DEF StopsHold, Live
    <3> QED
      BY <3>4, <3>6 DEF FinalInv
  <2>2. CASE mgr.slot # None
    <3>1. /\ mgr'.generation = mgr.generation /\ UNCHANGED stopped
          /\ sess' = [sess EXCEPT ![mgr.slot].stop = TRUE]
          /\ op' = [op EXCEPT ![p].session = mgr.slot, ![p].pc = "StopJoins"]
      BY <1>1, <1>6, <2>2 DEF StopTakes, Types, ManagerRecords
    <3>2. ~OpAt(Main, "StartSpawns")
      BY <1>1, <2>2 DEF Reservation
    <3>3. ~OpAt(Main, "StartSpawns")'
      BY <1>1, <3>1, <3>2 DEF OpAt, Types, OpRecords
    <3>4. \A t \in Sessions : sess'[t].phase = sess[t].phase /\ (sess[t].stop => sess'[t].stop)
      BY <1>1, <3>1 DEF Types, SessionRecords
    <3> QED
      BY <1>2, <3>1, <3>3, <3>4 DEF FinalInv, Buried, StopsHold, Live
  <2> QED
    BY <2>1, <2>2
<1>7. ASSUME NEW p \in Callers, StopJoins(p)
      PROVE  FinalInv'
  <2>1. /\ op[p].pc = "StopJoins" /\ UNCHANGED <<sess, stopped>> /\ Finishes(p)
        /\ mgr'.generation = mgr.generation
    BY <1>1, <1>7 DEF StopJoins, OpAt, OutputUnchanged, Types, ManagerRecords
  <2>2. op'[p].pc \in {"Idle", "BusChanges"} /\ \A q \in Callers \ {p} : op'[q] = op[q]
    BY <1>1, <2>1, FinishMoves
  <2>3. Joined
    BY <2>1 DEF Joined, OpAt
  <2>4. OpAt(Main, "StartSpawns")' => OpAt(Main, "StartSpawns")
    BY <2>2 DEF OpAt
  <2> QED
    BY <1>2, <2>1, <2>3, <2>4 DEF FinalInv, Buried, StopsHold, Live
<1>8. CASE Quiet /\ UNCHANGED stopped
  <2>1. OpAt(Main, "StartSpawns")' <=> OpAt(Main, "StartSpawns")
    BY <1>8, <1>m DEF Quiet, OpAt
  <2>2. Joined' <=> Joined
    BY <1>8 DEF Quiet, Joined, OpAt
  <2> QED
    BY <1>2, <1>8, <2>1, <2>2 DEF FinalInv, Buried, StopsHold, Live, Quiet
<1>9. CASE UNCHANGED vars
  BY <1>2, <1>9 DEF vars, FinalInv, Buried, StopsHold, Live, OpAt, Joined
<1> QED
  <2>1. CASE Next
    BY <2>1, <1>1, <1>m, <1>3, <1>4, <1>5, <1>6, <1>7, <1>8, OtherCommandsAreQuiet
    DEF Next, Starting, Continues
  <2> QED
    BY <2>1, <1>9

\* With one thread besides the main thread, however its stops and releases meet the starts
\* and stops of the main thread, what was stopped is over and what runs can be stopped.
\* With two, a second stop may be waiting for a session that writes into the manager what
\* the start takes for its own reservation.
THEOREM StopsAreAlwaysFinal ==
  ASSUME RtmpAssumption, OneOther
  PROVE  Spec => []StopsAreFinal
<1>1. Init => FinalInv
  BY Constants DEF Init, FinalInv, Buried, StopsHold, Live, OpAt, NoOp, NoSession, Callers, None
<1>2. Inv /\ Inv' /\ FinalInv /\ [Next]_vars => FinalInv'
  BY FinalKeeps
<1>3. FinalInv => StopsHold
  BY DEF FinalInv
<1>4. NobodyIsLost /\ QuietIsIdle /\ StopsHold => StopsAreFinal
  BY DEF StopsAreFinal
<1> QED
  BY <1>1, <1>2, <1>3, <1>4, RtmpInvariant, NobodyIsEverLost, RestIsShown, PTL DEF Spec

-----------------------------------------------------------------------------
(* The main thread alone *)

AloneInv ==
    /\ OpAt(Main, "StopJoins") => mgr.slot = None
    /\ OpAt(Main, "StartSpawns") /\ mgr.audio => mgr.sink = op[Main].session
    /\ mgr.pid # None => sess[mgr.pid].phase \in {"Monitors", "Joins"}
    /\ SessionKeepsItsSink
    /\ PublishingIsProgress

\* Then one thread lives at a time.
LEMMA OneLives ==
  ASSUME RtmpAssumption, Background = {}, Inv, AloneInv, NEW s \in Sessions, NEW t \in Sessions,
         Live(s), Live(t)
  PROVE  s = t
<1>1. \A p \in Callers : p = Main
  BY DEF Callers
<1>2. OpAt(Main, "StopJoins") => mgr.slot = None
  BY DEF AloneInv
<1> QED
  BY <1>1, <1>2, Constants DEF Inv, NobodyIsLost

\* The process the manager shows is of the thread that moves.
LEMMA PidMoves ==
  ASSUME RtmpAssumption, Types, NEW s \in Sessions,
         Thread(s) \/ ProgressLine(s) \/ ProcessExits(s),
         mgr.pid # None => mgr.pid = s /\ sess[s].phase \in {"Monitors", "Joins"},
         PublishingIsProgress
  PROVE  /\ mgr'.pid # None => mgr'.pid = s /\ sess'[s].phase \in {"Monitors", "Joins"}
         /\ PublishingIsProgress'
<1>1. mgr \in ManagerRecords /\ sess[s] \in SessionRecords /\ proc[s] \in ProcessRecords
        /\ proc \in [Sessions -> ProcessRecords]
  BY DEF Types
<1>2. mgr.state = "Publishing" /\ mgr.pid # None => proc[s].advanced
  BY DEF PublishingIsProgress
<1>3. SUFFICES mgr'.pid # None =>
                  /\ mgr'.pid = s /\ sess'[s].phase \in {"Monitors", "Joins"}
                  /\ mgr'.state = "Publishing" => proc'[s].advanced
  BY DEF PublishingIsProgress
<1>4. CASE sess[s].phase \notin {"Monitors", "Joins"} /\ UNCHANGED mgr
  BY <1>4
<1>5. CASE mgr'.pid = None
  BY <1>5
<1>6. SetIdle \/ SetStarting \/ SetFailed \/ ClearProcess
        \/ (\E n \in Nat : SetReconnecting(n)) => mgr'.pid = None
  BY <1>1 DEF SetIdle, SetStarting, SetFailed, ClearProcess, SetReconnecting, ManagerRecords
<1>7. CASE Probes(s) \/ Tries(s) \/ Spawns(s) \/ Joins(s) \/ Idles(s) \/ Waits(s)
  BY <1>7, <1>4, <1>5, <1>6 DEF Probes, Tries, Spawns, Joins, Idles, Waits, At
<1>8. CASE RoundEnds(s)
  <2>1. sess[s].retries + 1 \in Nat
    BY <1>1, Constants DEF SessionRecords
  <2> QED
    BY <1>8, <2>1, <1>5, <1>6 DEF RoundEnds
<1>9. CASE Starts(s)
  BY <1>9, <1>1, PhaseMoves DEF Starts, SetStarted, ManagerRecords, Phases
<1>10. CASE MonitorStops(s) \/ MonitorExits(s) \/ MonitorTimesOut(s)
  <2>1. UNCHANGED mgr /\ sess'[s].phase = "Joins" /\ proc'[s].advanced = proc[s].advanced
    <3>1. UNCHANGED mgr /\ (UNCHANGED proc \/ proc' = [proc EXCEPT ![s].state = "Exited"])
      BY <1>10 DEF MonitorStops, MonitorExits, MonitorTimesOut
    <3>2. \E r : sess' = [sess EXCEPT ![s].result = r, ![s].phase = "Joins"]
      BY <1>10 DEF MonitorStops, MonitorExits, MonitorTimesOut
    <3>3. sess'[s].phase = "Joins"
      BY <3>2 DEF Types, SessionRecords
    <3> QED
      BY <3>1, <3>3, <1>1, ExitMoves
  <2> QED
    BY <1>2, <2>1
<1>11. CASE ProgressLine(s)
  <2>1. proc'[s].advanced /\ sess'[s].phase = sess[s].phase /\ mgr'.pid = mgr.pid
    BY <1>1, <1>11 DEF ProgressLine, Types, ProcessRecords, SessionRecords, ManagerRecords
  <2> QED
    BY <2>1
<1>12. CASE ProcessExits(s)
  <2>1. UNCHANGED <<mgr, sess>> /\ proc'[s].advanced = proc[s].advanced
    BY <1>12, ExitMoves DEF ProcessExits
  <2> QED
    BY <1>2, <2>1
<1> QED
  BY <1>7, <1>8, <1>9, <1>10, <1>11, <1>12 DEF Thread

LEMMA AloneKeeps ==
  ASSUME RtmpAssumption, Background = {}, Inv, Inv', AloneInv, [Next]_vars
  PROVE  AloneInv'
<1> USE Constants
<1>1. Types /\ Ladder /\ Processes /\ Reservation /\ Taken /\ NobodyIsLost /\ Rest
  BY DEF Inv
<1>2. /\ OpAt(Main, "StopJoins") => mgr.slot = None
      /\ OpAt(Main, "StartSpawns") /\ mgr.audio => mgr.sink = op[Main].session
      /\ mgr.pid # None => sess[mgr.pid].phase \in {"Monitors", "Joins"}
      /\ SessionKeepsItsSink /\ PublishingIsProgress
  BY DEF AloneInv
<1>m. Main \in Callers /\ \A p \in Callers : p = Main
  BY DEF Callers
<1>g. mgr \in ManagerRecords /\ mgr.pid \in Sinks
  BY <1>1 DEF Types, ManagerRecords
<1>3. ASSUME NEW s \in Sessions, Thread(s) \/ ProgressLine(s) \/ ProcessExits(s)
      PROVE  AloneInv'
  <2>1. Live(s) /\ Moves(s)
    BY <1>1, <1>3, ThreadMoves
  <2>2. UNCHANGED op /\ mgr'.slot = mgr.slot /\ mgr'.sink = mgr.sink /\ mgr'.audio = mgr.audio
    BY <2>1 DEF Moves, CallersUnchanged
  <2>3. mgr.pid # None => mgr.pid = s /\ sess[s].phase \in {"Monitors", "Joins"}
    <3> SUFFICES ASSUME mgr.pid # None PROVE mgr.pid = s
      BY <1>2
    <3>1. mgr.pid \in Sessions /\ Live(mgr.pid)
      BY <1>2, <1>g DEF Sinks, Live
    <3> QED
      BY <3>1, <2>1, OneLives
  <2>4. /\ mgr'.pid # None => mgr'.pid = s /\ sess'[s].phase \in {"Monitors", "Joins"}
        /\ PublishingIsProgress'
    BY <1>1, <1>2, <1>3, <2>3, PidMoves
  <2>5. SessionKeepsItsSink'
    BY <1>2, <2>1, <2>2 DEF SessionKeepsItsSink, Moves, Live
  <2> QED
    BY <1>2, <2>2, <2>4, <2>5 DEF AloneInv, OpAt
<1>4. CASE StartReserves
  <2>1. UNCHANGED <<sess, proc>>
    BY <1>4 DEF StartReserves, OutputUnchanged
  <2>2. CASE UNCHANGED <<mgr, op>>
    BY <1>2, <2>1, <2>2 DEF AloneInv, OpAt, SessionKeepsItsSink, PublishingIsProgress, Live
  <2>3. CASE ~UNCHANGED <<mgr, op>>
    <3> DEFINE g == mgr.generation + 1
    <3>1. PICK audio \in BOOLEAN :
            /\ mgr' = [mgr EXCEPT !.state = "Starting", !.generation = g, !.pid = None,
                                  !.retries = 0, !.audio = audio, !.slot = None,
                                  !.sink = NewSink(audio, g)]
            /\ op' = [op EXCEPT ![Main] = [kind |-> "Start", pc |-> "StartSpawns",
                                           session |-> g]]
      BY <1>4, <2>3 DEF StartReserves
    <3>2. /\ mgr'.slot = None /\ mgr'.pid = None /\ mgr'.state = "Starting"
          /\ mgr'.audio = audio /\ mgr'.sink = NewSink(audio, g)
      BY <1>g, <3>1 DEF ManagerRecords
    <3>3. op'[Main].pc = "StartSpawns" /\ op'[Main].session = g
      BY <1>1, <1>m, <3>1 DEF Types
    <3> HIDE DEF g
    <3> QED
      BY <3>2, <3>3 DEF AloneInv, OpAt, SessionKeepsItsSink, PublishingIsProgress, NewSink
  <2> QED
    BY <2>2, <2>3
<1>5. CASE StartSpawns
  <2> DEFINE g == op[Main].session
  <2>1. /\ OpAt(Main, "StartSpawns") /\ g = mgr.generation /\ g \in Sessions /\ mgr.slot = None
        /\ UNCHANGED proc /\ sess[g].phase = "None"
    BY <1>1, <1>5 DEF StartSpawns, Reservation
  <2>2. ~OpAt(Main, "StartSpawns")' /\ ~OpAt(Main, "StopJoins")'
    BY <1>1, <1>5, <1>m DEF StartSpawns, OpGoes, Returns, NoOp, OpAt, Types, OpRecords
  <2>3. mgr'.pid = mgr.pid /\ (mgr'.state = "Publishing" => mgr.state = "Publishing")
    BY <1>g, <1>5 DEF StartSpawns, ManagerRecords
  <2>4. PublishingIsProgress'
    BY <1>2, <2>1, <2>3 DEF PublishingIsProgress
  <2> HIDE DEF g
  <2>5. CASE /\ sess' = [sess EXCEPT ![g] = [NoSession EXCEPT !.phase = "Probes",
                                                              !.audio = mgr.audio]]
             /\ mgr' = [mgr EXCEPT !.slot = g]
    <3>1. mgr'.slot = g /\ mgr'.sink = mgr.sink
      BY <1>g, <2>5 DEF ManagerRecords
    <3>2. sess'[g].audio = mgr.audio /\ \A t \in Sessions \ {g} : sess'[t] = sess[t]
      BY <1>1, <2>1, <2>5 DEF Types, NoSession
    <3>3. SessionKeepsItsSink'
      BY <1>2, <2>1, <3>1, <3>2 DEF SessionKeepsItsSink, Live, g
    <3>4. mgr'.pid # None => sess'[mgr'.pid].phase \in {"Monitors", "Joins"}
      BY <1>2, <1>g, <2>1, <2>3, <3>2 DEF Sinks
    <3> QED
      BY <2>2, <2>4, <3>3, <3>4 DEF AloneInv
  <2>6. CASE UNCHANGED sess /\ mgr'.slot = mgr.slot
    BY <1>2, <2>1, <2>2, <2>3, <2>4, <2>6 DEF AloneInv, SessionKeepsItsSink, Live
  <2> QED
    BY <1>5, <1>g, <2>5, <2>6 DEF StartSpawns, ManagerRecords, g
<1>6. CASE StopTakes(Main)
  <2>0. op[Main].pc = "Takes" /\ UNCHANGED proc
    BY <1>6 DEF StopTakes, OpAt
  <2>1. CASE mgr.slot = None
    <3>1. /\ mgr'.slot = None /\ mgr'.pid = None /\ Finishes(Main)
      BY <1>g, <1>6, <2>1 DEF StopTakes, ManagerRecords
    <3>2. op'[Main].pc \in {"Idle", "BusChanges"}
      BY <1>1, <1>m, <3>1, FinishMoves
    <3> QED
      BY <3>1, <3>2 DEF AloneInv, OpAt, SessionKeepsItsSink, PublishingIsProgress
  <2>2. CASE mgr.slot # None
    <3>1. /\ mgr'.slot = None /\ mgr'.pid = mgr.pid /\ mgr'.state = "Stopping"
          /\ sess' = [sess EXCEPT ![mgr.slot].stop = TRUE]
          /\ op' = [op EXCEPT ![Main].session = mgr.slot, ![Main].pc = "StopJoins"]
      BY <1>g, <1>6, <2>2 DEF StopTakes, ManagerRecords
    <3>2. op'[Main].pc = "StopJoins"
      BY <1>1, <1>m, <3>1 DEF Types, OpRecords
    <3>3. \A t \in Sessions : sess'[t].phase = sess[t].phase
      BY <1>1, <3>1 DEF Types, SessionRecords
    <3> QED
      BY <1>2, <1>g, <3>1, <3>2, <3>3
      DEF AloneInv, OpAt, SessionKeepsItsSink, PublishingIsProgress, Sinks
  <2> QED
    BY <2>1, <2>2
<1>7. CASE StopJoins(Main)
  <2>1. mgr.slot = None /\ Finishes(Main)
    BY <1>2, <1>7 DEF StopJoins
  <2>2. mgr'.slot = None /\ mgr'.pid = None
    BY <1>g, <1>7, <2>1 DEF StopJoins, ManagerRecords
  <2>3. op'[Main].pc \in {"Idle", "BusChanges"}
    BY <1>1, <1>m, <2>1, FinishMoves
  <2> QED
    BY <2>2, <2>3 DEF AloneInv, OpAt, SessionKeepsItsSink, PublishingIsProgress
<1>8. CASE Quiet
  <2>1. /\ OpAt(Main, "StartSpawns")' <=> OpAt(Main, "StartSpawns")
        /\ OpAt(Main, "StopJoins")' <=> OpAt(Main, "StopJoins")
        /\ OpAt(Main, "StartSpawns") => op'[Main] = op[Main]
    BY <1>8, <1>m DEF Quiet, OpAt
  <2> QED
    BY <1>2, <1>8, <2>1 DEF AloneInv, SessionKeepsItsSink, PublishingIsProgress, Live, Quiet
<1>9. CASE UNCHANGED vars
  BY <1>2, <1>9 DEF vars, AloneInv, SessionKeepsItsSink, PublishingIsProgress, Live, OpAt
<1> QED
  <2>1. CASE Next
    BY <2>1, <1>1, <1>m, <1>3, <1>4, <1>5, <1>6, <1>7, <1>8, OtherCommandsAreQuiet
    DEF Next, Starting, Continues
  <2> QED
    BY <2>1, <1>9

\* With the main thread alone, whatever fallback and retry a session goes through, the manager
\* shows, feeds and runs one and the same session.
THEOREM StreamIsAlwaysTheSession ==
  ASSUME RtmpAssumption, Background = {}
  PROVE  Spec => []StreamIsTheSession
<1>1. Init => AloneInv
  BY Constants DEF Init, AloneInv, SessionKeepsItsSink, PublishingIsProgress, Live, OpAt, NoOp,
                   NoSession, Callers
<1>2. Inv /\ Inv' /\ AloneInv /\ [Next]_vars => AloneInv'
  BY AloneKeeps
<1>3. Inv /\ AloneInv => OneProcess
  <2> SUFFICES ASSUME Inv, AloneInv
               PROVE  Cardinality({s \in Sessions : proc[s].state = "Running"}) <= 1
    BY DEF OneProcess
  <2> DEFINE R == {s \in Sessions : proc[s].state = "Running"}
  <2>1. \A s \in R : s \in Sessions /\ Live(s)
    BY DEF Inv, Processes, Live
  <2>2. \A s, t \in R : s = t
    BY <2>1, OneLives
  <2>3. CASE R = {}
    BY <2>3, FS_EmptySet
  <2>4. CASE R # {}
    <3>1. PICK s : s \in R
      BY <2>4
    <3>2. R = {s}
      BY <2>2, <3>1
    <3> QED
      BY <3>2, FS_Singleton
  <2> QED
    BY <2>3, <2>4
<1>4. AloneInv /\ OneProcess => StreamIsTheSession
  BY DEF AloneInv, StreamIsTheSession
<1> QED
  BY <1>1, <1>2, <1>3, <1>4, RtmpInvariant, PTL DEF Spec
=============================================================================

-------------------------- MODULE RuntimeResources --------------------------
(***************************************************************************)
(* The installation of the media runtime (runtime_resources.rs) by the one *)
(* background task of the application (runtime_resource_task.rs).          *)
(*                                                                         *)
(* The files of the manifest are installed one after the other: what is    *)
(* missing is downloaded (or copied from a directory) into a partial file  *)
(* that carries the digest of the file in its name, verified and renamed.  *)
(* A partial survives a cancellation, a failure and the process, and the   *)
(* next installation continues it with a range request.  installed.json    *)
(* records that the component is installed.                                *)
(*                                                                         *)
(* The task has at most one worker thread.  Its cancellation flag is       *)
(* shared: whoever starts an operation lowers it, whoever cancels or shuts *)
(* down raises it.  The process can die between any two steps.             *)
(***************************************************************************)
EXTENDS Naturals

CONSTANTS
    NFiles,        \* files of the manifest, installed in this order
    Size,          \* chunks of a file
    MaxRequests,   \* requests for a file (MAX_HTTP_REQUESTS)
    Operations,    \* what the user asks for: install, import, clear
    Outage,        \* the network may fail again and again, beyond MaxFaults
    MaxFaults,     \* bound: failures of the server, the disk and the source
    MaxCancels,    \* bound: cancellations
    MaxStarts,     \* bound: operations that are started
    MaxRuns,       \* bound: processes, one after the other
    Damages        \* other programs may change an installed file (a fault)

ResourceAssumption ==
    /\ {NFiles, Size, MaxRequests, MaxRuns} \subseteq Nat \ {0}
    /\ {MaxFaults, MaxCancels, MaxStarts} \subseteq Nat
    /\ {Outage, Damages} \subseteq BOOLEAN
    /\ Operations \subseteq {"install", "import", "clear"}

Files == 1 .. NFiles

VARIABLES
    final,      \* the installed files: none, good, or bad
    partial,    \* the partial files: their length and whether they are a prefix
    record,     \* installed.json says that the component is installed
    status,     \* the state the interface is shown
    cancel,     \* the flag of cancellation
    phase,      \* of the task: up, closing, down
    job,        \* the worker
    asked,      \* commands that load the manifest before they start
    faults, cancels, starts, runs,
    damaged,    \* ghost: files changed from outside since they were verified
    cleared,    \* ghost: a clear has removed something below the record
    late        \* ghost: files committed since the flag was raised

disk == <<final, partial, record>>
counters == <<faults, cancels, starts, runs>>
ghosts == <<damaged, cleared, late>>
vars == <<final, partial, record, status, cancel, phase, job, asked, faults,
          cancels, starts, runs, damaged, cleared, late>>

Empty == [size |-> 0, good |-> TRUE]   \* no partial file, or an empty one

\* pc of a worker: the place in the operation; "done": its last status is
\* reported; "finished": the thread has ended and is not joined yet.
NoJob == [op |-> "none", pc |-> "none", file |-> 0, request |-> 0,
          reset |-> FALSE, good |-> TRUE]

Terminal == {"notInstalled", "ready", "failed", "cancelled"}
Working == {"begin", "file", "request", "backoff", "stream", "copy", "verify",
            "commit", "record", "clearing"}

TypeOK ==
    /\ final \in [Files -> {"none", "good", "bad"}]
    /\ partial \in [Files -> [size : 0 .. Size, good : BOOLEAN]]
    /\ record \in BOOLEAN /\ cancel \in BOOLEAN /\ cleared \in BOOLEAN
    /\ status \in Terminal \cup {"checking", "downloading", "verifying"}
    /\ phase \in {"up", "closing", "down"}
    /\ job \in [op : Operations \cup {"none"},
                pc : Working \cup {"none", "done", "finished"},
                file : 0 .. NFiles + 1, request : 0 .. MaxRequests - 1,
                reset : BOOLEAN, good : BOOLEAN]
    /\ faults \in 0 .. MaxFaults /\ cancels \in 0 .. MaxCancels
    /\ starts \in 0 .. MaxStarts /\ runs \in 1 .. MaxRuns
    /\ asked \subseteq Operations /\ damaged \subseteq Files /\ late \in 0 .. NFiles

Init ==
    /\ final = [f \in Files |-> "none"] /\ partial = [f \in Files |-> Empty]
    /\ record = FALSE /\ status = "notInstalled"
    /\ cancel = FALSE /\ phase = "up" /\ job = NoJob /\ asked = {}
    /\ faults = 0 /\ cancels = 0 /\ starts = 0 /\ runs = 1
    /\ damaged = {} /\ cleared = FALSE /\ late = 0

Complete == \A f \in Files : final[f] = "good"

(***************************************************************************)
(* The task.                                                               *)
(***************************************************************************)
\* No worker, or one that is joined on the way (reap_finished_locked).
Idle == job.pc \in {"none", "finished"}

\* A command that finds no operation under way (running_status joins a worker
\* that has ended) loads the manifest outside the lock.
Ask(op) ==
    /\ phase # "down" /\ Idle /\ op \notin asked /\ starts < MaxStarts
    /\ asked' = asked \cup {op} /\ starts' = starts + 1
    /\ job' = NoJob
    /\ UNCHANGED <<disk, status, cancel, phase, faults, cancels, runs, damaged, cleared, late>>

\* Faulty variant of StartOperation: the application may be closing.
StartWhileClosing(op) ==
    /\ phase # "down" /\ op \in asked /\ asked' = asked \ {op}
    /\ IF Idle
       THEN /\ job' = [NoJob EXCEPT !.op = op, !.pc = "begin"]
            /\ cancel' = FALSE /\ late' = 0 /\ status' = "checking"
       ELSE UNCHANGED <<job, cancel, late, status>>
    /\ UNCHANGED <<disk, phase, counters, damaged, cleared>>

\* start_operation, all of it under the lock of the worker: refused when the
\* application closes or another command has started an operation meanwhile.
StartOperation(op) ==
    /\ phase # "down" /\ op \in asked /\ asked' = asked \ {op}
    /\ IF phase = "up" /\ Idle
       THEN /\ job' = [NoJob EXCEPT !.op = op, !.pc = "begin"]
            /\ cancel' = FALSE /\ late' = 0 /\ status' = "checking"
       ELSE UNCHANGED <<job, cancel, late, status>>
    /\ UNCHANGED <<disk, phase, counters, damaged, cleared>>

\* The thread could not be created.
StartFails(op) ==
    /\ phase = "up" /\ Idle /\ op \in asked /\ asked' = asked \ {op}
    /\ faults < MaxFaults /\ faults' = faults + 1
    /\ cancel' = FALSE /\ late' = 0 /\ job' = NoJob /\ status' = "failed"
    /\ UNCHANGED <<disk, phase, cancels, starts, runs, damaged, cleared>>

\* A command that could not load the manifest notes its failure, unless an
\* operation is under way.
RecordFailure(op) ==
    /\ phase # "down" /\ op \in asked /\ asked' = asked \ {op}
    /\ faults < MaxFaults /\ faults' = faults + 1
    /\ IF Idle THEN job' = NoJob /\ status' = "failed" ELSE UNCHANGED <<job, status>>
    /\ UNCHANGED <<disk, cancel, phase, cancels, starts, runs, damaged, cleared, late>>

\* status, running_status and inspect_when_idle join a worker that has ended.
Reap ==
    /\ phase # "down" /\ job.pc = "finished"
    /\ job' = NoJob
    /\ UNCHANGED <<asked, disk, status, cancel, phase, counters, damaged, cleared, late>>

\* Without the lock: it can come at any time.
Cancel ==
    /\ phase # "down" /\ cancels < MaxCancels
    /\ cancel' = TRUE /\ cancels' = cancels + 1
    /\ UNCHANGED <<asked, disk, status, phase, job, faults, starts, runs, damaged, cleared, late>>

BeginShutdown ==
    /\ phase = "up"
    /\ phase' = "closing" /\ cancel' = TRUE
    /\ UNCHANGED <<asked, disk, status, job, counters, damaged, cleared, late>>

\* Faulty variant of ShutdownJoins: a worker that has ended is not joined.
ShutdownWaits ==
    /\ phase = "closing" /\ job.pc = "none"
    /\ phase' = "down" /\ job' = NoJob /\ asked' = {}
    /\ UNCHANGED <<disk, status, cancel, counters, damaged, cleared, late>>

\* shutdown finds no worker, or joins the one that has ended.
ShutdownJoins ==
    /\ phase = "closing" /\ Idle
    /\ phase' = "down" /\ job' = NoJob /\ asked' = {}
    /\ UNCHANGED <<disk, status, cancel, counters, damaged, cleared, late>>

\* The budget of shutdown is over and the application forces its exit, or the
\* process dies: either way the worker ends where it is.
Killed ==
    /\ phase # "down" /\ runs < MaxRuns
    /\ phase' = "down" /\ job' = NoJob /\ asked' = {}
    /\ UNCHANGED <<disk, status, cancel, counters, damaged, cleared, late>>

\* A new process: the task is new, the disk is as it was.
Restart ==
    /\ phase = "down" /\ runs < MaxRuns
    /\ phase' = "up" /\ runs' = runs + 1
    /\ status' = "notInstalled" /\ cancel' = FALSE /\ job' = NoJob /\ late' = 0
    /\ UNCHANGED <<asked, disk, faults, cancels, starts, damaged, cleared>>

(***************************************************************************)
(* The worker.  At(pc) is a step of the operation at that place.           *)
(***************************************************************************)
At(pc) == phase # "down" /\ job.pc = pc

Ends(state) == job' = [job EXCEPT !.pc = "done"] /\ status' = state

\* Faulty variant of Cancelled: a download has a flag of its own.
CancelledByImport == cancel /\ job.op # "install"

\* check_cancel.
Cancelled == cancel

\* The places where check_cancel and the loops look at the flag.
StopsAtFlag ==
    /\ \E pc \in {"begin", "file", "request", "backoff", "stream", "copy",
                  "verify", "clearing"} : At(pc)
    /\ job.pc = "file" => job.file \in Files
    /\ job.pc = "verify" => partial[job.file].size = Size
    /\ Cancelled
    /\ Ends("cancelled")
    /\ UNCHANGED <<disk, cancel, phase, counters, ghosts>>

\* A step that uses the disk fails.
DiskFails ==
    /\ \E pc \in Working \ {"request", "backoff"} : At(pc)
    /\ faults < MaxFaults /\ faults' = faults + 1
    /\ Ends("failed")
    /\ UNCHANGED <<disk, cancel, phase, cancels, starts, runs, ghosts>>

\* Faulty variant of Begin: the record stays while files are repaired.
BeginKeepsRecord ==
    /\ At("begin") /\ ~Cancelled /\ job.op # "clear"
    /\ job' = IF Complete THEN [job EXCEPT !.pc = "record"]
              ELSE [job EXCEPT !.pc = "file", !.file = 1]
    /\ status' = "checking" /\ UNCHANGED record
    /\ UNCHANGED <<final, partial, cancel, phase, counters, ghosts>>

\* install_inner and import_inner up to the first file.
Begin ==
    /\ At("begin") /\ ~Cancelled /\ job.op # "clear"
    /\ job' = IF Complete THEN [job EXCEPT !.pc = "record"]
              ELSE [job EXCEPT !.pc = "file", !.file = 1]
    /\ status' = "checking" /\ record' = (record /\ Complete)
    /\ UNCHANGED <<final, partial, cancel, phase, counters, ghosts>>

\* One turn of the loop over the files.  An import opens its source here and
\* starts the partial anew.
NextFile ==
    /\ At("file")
    /\ LET f == job.file IN
       IF f \notin Files
       THEN job' = [job EXCEPT !.pc = "record"] /\ UNCHANGED <<final, partial, damaged>>
       ELSE /\ ~Cancelled
            /\ IF final[f] = "good"
               THEN job' = [job EXCEPT !.file = f + 1]
                    /\ UNCHANGED <<final, partial, damaged>>
               ELSE /\ final' = [final EXCEPT ![f] = "none"]
                    /\ damaged' = damaged \ {f}
                    /\ \/ /\ job.op = "install"
                          /\ job' = [job EXCEPT !.pc = "request", !.request = 0, !.reset = FALSE]
                          /\ UNCHANGED partial
                       \/ /\ job.op = "import"
                          /\ \E good \in IF faults < MaxFaults THEN BOOLEAN ELSE {TRUE} :
                                job' = [job EXCEPT !.pc = "copy", !.good = good]
                          /\ partial' = [partial EXCEPT ![f] = Empty]
    /\ faults' = IF job'.good THEN faults ELSE faults + 1
    /\ UNCHANGED <<record, status, cancel, phase, cancels, starts, runs, cleared, late>>

\* The turn of the requests that follows, or the failure after the last one.
Again(failure) ==
    IF job.request < MaxRequests - 1
    THEN job' = [job EXCEPT !.pc = "backoff"] /\ UNCHANGED status
    ELSE Ends(failure)

\* The partial is complete already: no request.
RequestUnneeded ==
    /\ At("request") /\ ~Cancelled
    /\ partial[job.file].size = Size
    /\ job' = [job EXCEPT !.pc = "verify"]
    /\ UNCHANGED <<disk, status, cancel, phase, counters, ghosts>>

\* The server continues after what the partial holds, or (with nothing there,
\* or if it ignores the range) sends the whole file.  What it sends may be of
\* another edition of the file that has the same length.
RequestAnswered ==
    /\ At("request") /\ ~Cancelled /\ partial[job.file].size < Size
    /\ \E good \in IF faults < MaxFaults THEN BOOLEAN ELSE {TRUE},
          whole \in BOOLEAN :
        /\ partial[job.file].size = 0 => whole
        /\ job' = [job EXCEPT !.pc = "stream", !.good = good]
        /\ partial' = IF whole THEN [partial EXCEPT ![job.file] = Empty] ELSE partial
        /\ faults' = IF good THEN faults ELSE faults + 1
    /\ UNCHANGED <<final, record, status, cancel, phase, cancels, starts, runs, ghosts>>

NetworkFails ==
    /\ Outage \/ faults < MaxFaults
    /\ faults' = IF Outage THEN faults ELSE faults + 1

\* No answer, or a status that passes (408, 429, 5xx).
RequestTransient ==
    /\ At("request") /\ ~Cancelled /\ partial[job.file].size < Size
    /\ NetworkFails
    /\ Again("failed")
    /\ UNCHANGED <<disk, cancel, phase, cancels, starts, runs, ghosts>>

\* A range or a length of the rest that is not the one asked for: the partial
\* is dropped, and once the request is repeated without it.
RequestRangeWrong ==
    /\ At("request") /\ ~Cancelled /\ partial[job.file].size \in 1 .. Size - 1
    /\ NetworkFails
    /\ partial' = [partial EXCEPT ![job.file] = Empty]
    /\ IF ~job.reset /\ job.request < MaxRequests - 1
       THEN /\ job' = [job EXCEPT !.reset = TRUE, !.request = @ + 1]
            /\ UNCHANGED status
       ELSE Ends("failed")
    /\ UNCHANGED <<final, record, cancel, phase, cancels, starts, runs, ghosts>>

\* A whole file of another length drops the partial; any other status keeps it.
RequestRefused ==
    /\ At("request") /\ ~Cancelled /\ partial[job.file].size < Size
    /\ faults < MaxFaults /\ faults' = faults + 1
    /\ \E drop \in BOOLEAN :
          partial' = IF drop THEN [partial EXCEPT ![job.file] = Empty] ELSE partial
    /\ Ends("failed")
    /\ UNCHANGED <<final, record, cancel, phase, cancels, starts, runs, ghosts>>

\* Faulty variant of Backoff: the next request is not counted.
BackoffUncounted ==
    /\ At("backoff") /\ ~Cancelled
    /\ job' = [job EXCEPT !.pc = "request"]
    /\ UNCHANGED <<disk, status, cancel, phase, counters, ghosts>>

\* wait_for_retry is over.
Backoff ==
    /\ At("backoff") /\ ~Cancelled
    /\ job' = [job EXCEPT !.pc = "request", !.request = @ + 1]
    /\ UNCHANGED <<disk, status, cancel, phase, counters, ghosts>>

\* A chunk of the answer, or of the source of an import.
Chunk ==
    /\ \E pc \in {"stream", "copy"} : At(pc)
    /\ ~Cancelled /\ partial[job.file].size < Size
    /\ partial' = [partial EXCEPT ![job.file] =
                      [size |-> @.size + 1, good |-> @.good /\ job.good]]
    /\ status' = "downloading"
    /\ UNCHANGED <<final, record, cancel, phase, job, counters, ghosts>>

\* The connection breaks: the partial stays for the next request.
StreamBreaks ==
    /\ At("stream") /\ ~Cancelled
    /\ NetworkFails
    /\ Again("failed")
    /\ UNCHANGED <<disk, cancel, phase, cancels, starts, runs, ghosts>>

\* The end of the data.  The source of an import may have become shorter.
EndOfData ==
    /\ \E pc \in {"stream", "copy"} : At(pc)
    /\ ~Cancelled
    /\ \/ partial[job.file].size = Size /\ UNCHANGED faults
       \/ /\ job.pc = "copy" /\ partial[job.file].size < Size
          /\ faults < MaxFaults /\ faults' = faults + 1
    /\ job' = [job EXCEPT !.pc = "verify"]
    /\ UNCHANGED <<disk, status, cancel, phase, cancels, starts, runs, ghosts>>

Fits(f) == partial[f].size = Size /\ partial[f].good

\* Faulty variant of Verify: the partial that does not fit is kept.
VerifyKeeps ==
    /\ At("verify")
    /\ partial[job.file].size = Size => ~Cancelled
    /\ IF Fits(job.file)
       THEN job' = [job EXCEPT !.pc = "commit"] /\ status' = "verifying"
       ELSE Ends("failed")
    /\ UNCHANGED partial
    /\ UNCHANGED <<final, record, cancel, phase, counters, ghosts>>

\* Faulty variant of Verify: it ends without a status when the digest differs.
VerifyForgetsStatus ==
    /\ At("verify")
    /\ partial[job.file].size = Size => ~Cancelled
    /\ job' = [job EXCEPT !.pc = "commit"]
    /\ status' = IF Fits(job.file) THEN "verifying" ELSE "mismatch"
    /\ UNCHANGED <<disk, cancel, phase, counters, ghosts>>

\* Faulty variant of Verify: a partial of the right length is enough.
VerifyLength ==
    /\ At("verify")
    /\ partial[job.file].size = Size => ~Cancelled
    /\ IF partial[job.file].size = Size
       THEN /\ job' = [job EXCEPT !.pc = "commit"] /\ status' = "verifying"
            /\ UNCHANGED partial
       ELSE Ends("failed") /\ partial' = [partial EXCEPT ![job.file] = Empty]
    /\ UNCHANGED <<final, record, cancel, phase, counters, ghosts>>

\* verify_and_commit up to the digest.  The hash looks at the flag, the length
\* does not.  What does not fit is removed.
Verify ==
    /\ At("verify")
    /\ partial[job.file].size = Size => ~Cancelled
    /\ IF Fits(job.file)
       THEN /\ job' = [job EXCEPT !.pc = "commit"] /\ status' = "verifying"
            /\ UNCHANGED partial
       ELSE Ends("failed") /\ partial' = [partial EXCEPT ![job.file] = Empty]
    /\ UNCHANGED <<final, record, cancel, phase, counters, ghosts>>

\* The rename; nothing looks at the flag between the hash and it.
Commit ==
    /\ At("commit")
    /\ LET f == job.file IN
       /\ final' = [final EXCEPT ![f] = IF Fits(f) THEN "good" ELSE "bad"]
       /\ partial' = [partial EXCEPT ![f] = Empty]
       /\ job' = [job EXCEPT !.pc = "file", !.file = f + 1]
       /\ damaged' = damaged \ {f}
    /\ late' = IF cancel THEN late + 1 ELSE late
    /\ UNCHANGED <<record, status, cancel, phase, counters, cleared>>

\* write_installed_record with what is verified once more, and the last status.
WriteRecord ==
    /\ At("record")
    /\ record' = Complete /\ cleared' = FALSE
    /\ Ends("ready")
    /\ UNCHANGED <<final, partial, cancel, phase, counters, damaged, late>>

\* The thread ends after its last status.
Finish ==
    /\ At("done")
    /\ job' = [job EXCEPT !.pc = "finished"]
    /\ UNCHANGED <<disk, status, cancel, phase, counters, ghosts>>

(***************************************************************************)
(* clear_current_release: the entries of the release in the order of the   *)
(* directory, which is any.                                                *)
(***************************************************************************)
ClearBegin ==
    /\ At("begin") /\ ~Cancelled /\ job.op = "clear"
    /\ job' = [job EXCEPT !.pc = "clearing"]
    /\ UNCHANGED <<disk, status, cancel, phase, counters, ghosts>>

ClearEntry ==
    /\ At("clearing") /\ ~Cancelled
    /\ status' = "checking"
    /\ \/ /\ record /\ record' = FALSE /\ cleared' = FALSE
          /\ UNCHANGED <<final, partial>>
       \/ \E f \in Files :
             \/ /\ final[f] # "none" /\ final' = [final EXCEPT ![f] = "none"]
                /\ cleared' = record
                /\ UNCHANGED <<partial, record>>
             \/ /\ partial[f].size > 0 /\ partial' = [partial EXCEPT ![f] = Empty]
                /\ UNCHANGED <<final, record, cleared>>
    /\ UNCHANGED <<cancel, phase, job, counters, damaged, late>>

ClearEnds ==
    /\ At("clearing") /\ ~Cancelled
    /\ ~record /\ \A f \in Files : final[f] = "none" /\ partial[f].size = 0
    /\ Ends("notInstalled")
    /\ UNCHANGED <<disk, cancel, phase, counters, ghosts>>

\* Another program changes an installed file.
Damage ==
    /\ Damages /\ faults < MaxFaults /\ faults' = faults + 1
    /\ \E f \in Files :
          /\ final[f] = "good"
          /\ final' = [final EXCEPT ![f] = "bad"]
          /\ damaged' = damaged \cup {f}
    /\ UNCHANGED <<asked, partial, record, status, cancel, phase, job, cancels, starts, runs,
                   cleared, late>>

Step ==
    \/ StopsAtFlag \/ Begin \/ NextFile \/ RequestUnneeded \/ RequestAnswered
    \/ RequestTransient \/ RequestRangeWrong \/ RequestRefused \/ Backoff
    \/ Chunk \/ StreamBreaks \/ EndOfData \/ Verify \/ Commit \/ WriteRecord
    \/ Finish \/ ClearBegin \/ ClearEntry \/ ClearEnds \/ DiskFails

Worker == Step /\ UNCHANGED asked

Next ==
    \/ \E op \in Operations : Ask(op) \/ StartOperation(op) \/ StartFails(op) \/ RecordFailure(op)
    \/ Reap \/ Cancel \/ BeginShutdown \/ ShutdownJoins \/ Killed \/ Restart
    \/ Damage \/ Worker

Spec == Init /\ [][Next]_vars

\* The operating system runs the worker, and every request has a timeout;
\* shutdown polls the worker.  Whether an operation is started, cancelled or
\* started again is up to the user.
FairSpec == Spec /\ WF_vars(Worker) /\ WF_vars(ShutdownJoins)

\* A user who starts the installation again and again, on a system where the
\* worker runs.
RetrySpec == FairSpec /\ WF_vars(Ask("install")) /\ WF_vars(StartOperation("install"))

(***************************************************************************)
(* Properties.                                                             *)
(***************************************************************************)
\* A file under its final name was verified as a whole, whatever was
\* cancelled, broken or killed on the way: a bad one was changed from outside.
FilesAreVerified == \A f \in Files : final[f] = "bad" => f \in damaged

\* While the record stands every file was installed and verified, except for
\* what was changed from outside or removed by a clear that did not end.
RecordFollowsFiles ==
    record => cleared \/ \A f \in Files : final[f] = "good" \/ f \in damaged

\* After the flag is raised a worker finishes at most the file it is renaming.
CancelIsPrompt == late <= 1

\* Once the application closes the flag stays raised until the process ends:
\* no operation begins that does not see it.
ClosingKeepsTheFlag == phase = "closing" => cancel

\* What is installed is verified, however operations were cancelled, broken off
\* or overtaken by the end of the application.
InstallationIsSound ==
    FilesAreVerified /\ RecordFollowsFiles /\ CancelIsPrompt /\ ClosingKeepsTheFlag

\* An operation comes to its end and shows how it ended.
OperationsEnd ==
    (job.pc \in Working) ~> \/ phase = "down"
                            \/ job.pc \notin Working /\ status \in Terminal

\* A shutdown comes to its end, with the worker joined, not abandoned.
ShutdownEnds == (phase = "closing") ~> (phase = "down" /\ job = NoJob)

\* With the server well again no partial file stands in the way of a user who
\* retries: the runtime gets installed, unless the application closes.
RetriesSucceed == <>[](Complete \/ phase = "down")
=============================================================================

------------------------ MODULE RuntimeResourcesProofs ------------------------
(***************************************************************************)
(* What is installed is verified, for any number of files, chunks,         *)
(* requests and faults.                                                    *)
(*                                                                         *)
(* The final name is given by the one step that looks at nothing (Commit), *)
(* so what it relies on must hold at its place: the partial still fits,    *)
(* and the flag was down when the hash looked (Committing).  The record is *)
(* gone as long as a file is being replaced (Repairing).                   *)
(***************************************************************************)
EXTENDS RuntimeResources, TLAPS

\* The places of an operation on one file.
OnFile == {"request", "backoff", "stream", "copy", "verify", "commit"}

JobFits ==
    /\ job.pc \in OnFile => job.file \in Files
    /\ job.pc = "backoff" => job.request < MaxRequests - 1

\* What came from another edition does not pass for the file once it is whole.
BadStaysBad ==
    /\ job.pc \in {"begin", "file"} => job.good
    /\ job.pc \in OnFile /\ ~job.good => ~Fits(job.file)

\* The one step that does not look: what it renames was hashed.
Committing ==
    /\ job.pc = "commit" => Fits(job.file)
    /\ late \in {0, 1}
    /\ late = 1 => cancel /\ job.pc # "commit"

\* The record is gone while files are missing and are being replaced.
Repairing == job.pc \in OnFile \cup {"file"} => ~record

Inv ==
    /\ TypeOK /\ JobFits /\ BadStaysBad /\ Committing /\ Repairing
    /\ FilesAreVerified /\ RecordFollowsFiles /\ ClosingKeepsTheFlag

-----------------------------------------------------------------------------
(* The types *)

JobStates ==
    [op : Operations \cup {"none"}, pc : Working \cup {"none", "done", "finished"},
     file : 0 .. NFiles + 1, request : 0 .. MaxRequests - 1, reset : BOOLEAN, good : BOOLEAN]

DiskTypes ==
    /\ final \in [Files -> {"none", "good", "bad"}]
    /\ partial \in [Files -> [size : 0 .. Size, good : BOOLEAN]]
    /\ damaged \in SUBSET Files

FlagTypes ==
    /\ record \in BOOLEAN /\ cancel \in BOOLEAN /\ cleared \in BOOLEAN
    /\ status \in Terminal \cup {"checking", "downloading", "verifying"}
    /\ phase \in {"up", "closing", "down"}
    /\ asked \in SUBSET Operations

CounterTypes ==
    /\ faults \in 0 .. MaxFaults /\ cancels \in 0 .. MaxCancels
    /\ starts \in 0 .. MaxStarts /\ runs \in 1 .. MaxRuns

LEMMA TypesSplit ==
    TypeOK <=> DiskTypes /\ FlagTypes /\ CounterTypes /\ job \in JobStates /\ late \in 0 .. NFiles
  BY DEF TypeOK, DiskTypes, FlagTypes, CounterTypes, JobStates

\* The one place where the constants are looked at.
LEMMA Bounds ==
    ASSUME ResourceAssumption
    PROVE  /\ NFiles \in Nat \ {0} /\ Size \in Nat \ {0} /\ MaxRequests \in Nat \ {0}
           /\ MaxRuns \in Nat \ {0} /\ MaxFaults \in Nat /\ MaxCancels \in Nat /\ MaxStarts \in Nat
  BY DEF ResourceAssumption

\* A worker goes to another place.
LEMMA JobMoves ==
    ASSUME ResourceAssumption, job \in JobStates
    PROVE  /\ NoJob \in JobStates
           /\ \A op \in Operations : [NoJob EXCEPT !.op = op, !.pc = "begin"] \in JobStates
           /\ \A pc \in Working \cup {"none", "done", "finished"} : [job EXCEPT !.pc = pc] \in JobStates
  <1>1. 0 \in 0 .. NFiles + 1 /\ 0 \in 0 .. MaxRequests - 1
    BY Bounds
  <1> QED BY <1>1 DEF JobStates, NoJob, Working

LEMMA JobTypes ==
    ASSUME ResourceAssumption, job \in JobStates, JobFits, [Next]_vars
    PROVE  job' \in JobStates
  <1> DEFINE To(pc) == [job EXCEPT !.pc = pc]
  <1>0. \A pc \in Working \cup {"none", "done", "finished"} : To(pc) \in JobStates
    BY JobMoves
  <1> HIDE DEF To
  <1>1. ASSUME NEW op \in Operations, Ask(op) \/ StartOperation(op) \/ StartFails(op) \/ RecordFailure(op)
        PROVE  job' \in JobStates
    <2>1. job' \in {job, NoJob, [NoJob EXCEPT !.op = op, !.pc = "begin"]}
      BY <1>1 DEF Ask, StartOperation, StartFails, RecordFailure
    <2> QED BY <2>1, JobMoves
  <1>2. CASE Reap \/ Cancel \/ BeginShutdown \/ ShutdownJoins \/ Killed \/ Restart \/ Damage \/ UNCHANGED vars
    <2>1. job' \in {job, NoJob}
      BY <1>2 DEF Reap, Cancel, BeginShutdown, ShutdownJoins, Killed, Restart, Damage, vars
    <2> QED BY <2>1, JobMoves
  <1>3. CASE StopsAtFlag \/ DiskFails \/ WriteRecord \/ ClearEnds \/ Finish \/ ClearBegin \/ ClearEntry
    <2>1. job' \in {job, To("done"), To("finished"), To("clearing")}
      BY <1>3 DEF StopsAtFlag, DiskFails, WriteRecord, ClearEnds, Finish, ClearBegin, ClearEntry, Ends, To
    <2> QED BY <1>0, <2>1 DEF Working
  <1>4. CASE RequestUnneeded \/ RequestTransient \/ RequestRefused \/ StreamBreaks \/ EndOfData \/ Verify \/ Chunk
    <2>1. job' \in {job, To("done"), To("verify"), To("backoff"), To("commit")}
      BY <1>4 DEF RequestUnneeded, RequestTransient, RequestRefused, StreamBreaks, EndOfData, Verify,
         Chunk, Again, Ends, To
    <2> QED BY <1>0, <2>1 DEF Working
  <1>5. CASE Begin
    <2>1. 1 \in 0 .. NFiles + 1
      BY Bounds
    <2>2. job' = To("record") \/ job' = [job EXCEPT !.pc = "file", !.file = 1]
      BY <1>5 DEF Begin, To
    <2>3. To("record") \in JobStates
      BY <1>0 DEF Working
    <2>4. [job EXCEPT !.pc = "file", !.file = 1] \in JobStates
      BY <2>1 DEF Working, JobStates
    <2> QED BY <2>2, <2>3, <2>4
  <1>6. CASE NextFile
    <2>1. 0 \in 0 .. MaxRequests - 1 /\ (job.file \in Files => job.file + 1 \in 0 .. NFiles + 1)
      BY Bounds DEF Files
    <2>2. \/ job' = To("record")
          \/ job.file \in Files /\ job' = [job EXCEPT !.file = job.file + 1]
          \/ job' = [job EXCEPT !.pc = "request", !.request = 0, !.reset = FALSE]
          \/ \E good \in BOOLEAN : job' = [job EXCEPT !.pc = "copy", !.good = good]
      BY <1>6 DEF NextFile, To
    <2>3. [job EXCEPT !.pc = "request", !.request = 0, !.reset = FALSE] \in JobStates
      BY <2>1 DEF Working, JobStates
    <2>4. \A good \in BOOLEAN : [job EXCEPT !.pc = "copy", !.good = good] \in JobStates
      BY DEF Working, JobStates
    <2>5. job.file \in Files => [job EXCEPT !.file = job.file + 1] \in JobStates
      BY <2>1 DEF JobStates
    <2> QED BY <1>0, <2>2, <2>3, <2>4, <2>5 DEF Working
  <1>7. CASE RequestAnswered
    <2>1. \E good \in BOOLEAN : job' = [job EXCEPT !.pc = "stream", !.good = good]
      BY <1>7 DEF RequestAnswered
    <2> QED BY <2>1 DEF Working, JobStates
  <1>8. CASE RequestRangeWrong
    <2>1. job' = To("done") \/ (job.request < MaxRequests - 1 /\ job' = [job EXCEPT !.reset = TRUE, !.request = job.request + 1])
      BY <1>8 DEF RequestRangeWrong, Ends, To
    <2>2. job.request < MaxRequests - 1 => job.request + 1 \in 0 .. MaxRequests - 1
      BY Bounds DEF JobStates
    <2>3. To("done") \in JobStates
      BY <1>0
    <2>4. job.request < MaxRequests - 1 =>
             [job EXCEPT !.reset = TRUE, !.request = job.request + 1] \in JobStates
      BY <2>2 DEF JobStates
    <2> QED BY <2>1, <2>3, <2>4
  <1>9. CASE Backoff
    <2>1. job.request + 1 \in 0 .. MaxRequests - 1
      BY <1>9, Bounds DEF Backoff, At, JobFits, JobStates
    <2>2. job' = [job EXCEPT !.pc = "request", !.request = job.request + 1]
      BY <1>9 DEF Backoff
    <2> QED BY <2>1, <2>2 DEF JobStates, Working
  <1>10. CASE Commit
    <2>1. job.file + 1 \in 0 .. NFiles + 1
      BY <1>10, Bounds DEF Commit, At, JobFits, OnFile, Files
    <2>2. job' = [job EXCEPT !.pc = "file", !.file = job.file + 1]
      BY <1>10 DEF Commit
    <2> QED BY <2>1, <2>2 DEF JobStates, Working
  <1> QED BY <1>1, <1>2, <1>3, <1>4, <1>5, <1>6, <1>7, <1>8, <1>9, <1>10 DEF Next, Worker, Step

LEMMA DiskTypesStep ==
    ASSUME ResourceAssumption, DiskTypes, job \in JobStates, JobFits, [Next]_vars
    PROVE  DiskTypes'
  <1> USE DEF DiskTypes, disk, ghosts
  <1>0. Empty \in [size : 0 .. Size, good : BOOLEAN]
    BY Bounds DEF Empty
  <1>1. ASSUME NEW op \in Operations, Ask(op) \/ StartOperation(op) \/ StartFails(op) \/ RecordFailure(op)
        PROVE  DiskTypes'
    BY <1>1 DEF Ask, StartOperation, StartFails, RecordFailure
  <1>2. CASE Reap \/ Cancel \/ BeginShutdown \/ ShutdownJoins \/ Killed \/ Restart \/ UNCHANGED vars
    BY <1>2 DEF Reap, Cancel, BeginShutdown, ShutdownJoins, Killed, Restart, vars
  <1>3. CASE Damage
    BY <1>3 DEF Damage
  <1>4. CASE StopsAtFlag \/ DiskFails \/ WriteRecord \/ ClearEnds \/ Finish \/ ClearBegin \/ Begin
    BY <1>4 DEF StopsAtFlag, DiskFails, WriteRecord, ClearEnds, Finish, ClearBegin, Begin
  <1>5. CASE ClearEntry
    <2>1. UNCHANGED <<final, partial, damaged>> \/ (\E f \in Files :
             \/ final' = [final EXCEPT ![f] = "none"] /\ UNCHANGED <<partial, damaged>>
             \/ partial' = [partial EXCEPT ![f] = Empty] /\ UNCHANGED <<final, damaged>>)
      BY <1>5 DEF ClearEntry
    <2> HIDE DEF Empty
    <2> QED BY <1>0, <2>1
  <1>6. CASE RequestUnneeded \/ RequestTransient \/ StreamBreaks \/ EndOfData \/ Backoff
    BY <1>6 DEF RequestUnneeded, RequestTransient, StreamBreaks, EndOfData, Backoff
  <1>7. CASE NextFile \/ RequestAnswered \/ RequestRangeWrong \/ RequestRefused \/ Verify
    <2>1. partial' \in {partial, [partial EXCEPT ![job.file] = Empty]}
      BY <1>7 DEF NextFile, RequestAnswered, RequestRangeWrong, RequestRefused, Verify
    <2>2. final' \in {final, [final EXCEPT ![job.file] = "none"]} /\ damaged' \in {damaged, damaged \ {job.file}}
      BY <1>7 DEF NextFile, RequestAnswered, RequestRangeWrong, RequestRefused, Verify
    <2> QED BY <1>0, <2>1, <2>2
  <1>8. CASE Chunk
    <2> DEFINE f == job.file
               part == [size |-> partial[f].size + 1, good |-> partial[f].good /\ job.good]
    <2>1. f \in Files /\ partial[f].size < Size
      BY <1>8 DEF Chunk, At, JobFits, OnFile
    <2>2. partial[f] \in [size : 0 .. Size, good : BOOLEAN]
      BY <2>1
    <2>3. part.size \in 0 .. Size
      BY <2>1, <2>2, Bounds
    <2>4. (partial[f].good /\ job.good) \in BOOLEAN
      OBVIOUS
    <2>5. part \in [size : 0 .. Size, good : BOOLEAN]
      BY <2>3, <2>4
    <2>6. partial' = [partial EXCEPT ![f] = part] /\ UNCHANGED <<final, damaged>>
      BY <1>8 DEF Chunk
    <2> HIDE DEF part, f
    <2> QED BY <2>1, <2>5, <2>6
  <1>9. CASE Commit
    <2> DEFINE v == IF Fits(job.file) THEN "good" ELSE "bad"
    <2>1. /\ final' = [final EXCEPT ![job.file] = v]
          /\ partial' = [partial EXCEPT ![job.file] = Empty]
          /\ damaged' = damaged \ {job.file}
      BY <1>9 DEF Commit
    <2>2. v \in {"none", "good", "bad"}
      OBVIOUS
    <2> HIDE DEF v, Empty
    <2> QED BY <1>0, <2>1, <2>2
  <1> QED BY <1>1, <1>2, <1>3, <1>4, <1>5, <1>6, <1>7, <1>8, <1>9 DEF Next, Worker, Step

LEMMA FlagTypesStep ==
    ASSUME FlagTypes, [Next]_vars
    PROVE  FlagTypes'
  <1> USE DEF FlagTypes, Terminal, disk, ghosts
  <1>1. ASSUME NEW op \in Operations, Ask(op) \/ StartOperation(op) \/ StartFails(op) \/ RecordFailure(op)
        PROVE  FlagTypes'
    BY <1>1 DEF Ask, StartOperation, StartFails, RecordFailure
  <1>2. CASE Reap \/ Cancel \/ BeginShutdown \/ ShutdownJoins \/ Killed \/ Restart \/ Damage \/ UNCHANGED vars
    <2>1. CASE Reap \/ Cancel \/ BeginShutdown \/ ShutdownJoins
      BY <2>1 DEF Reap, Cancel, BeginShutdown, ShutdownJoins
    <2>2. CASE Killed \/ Restart \/ Damage \/ UNCHANGED vars
      BY <2>2 DEF Killed, Restart, Damage, vars
    <2> QED BY <1>2, <2>1, <2>2
  <1>3. CASE Worker
    <2>1. UNCHANGED <<cancel, phase, asked>>
      BY <1>3 DEF Worker, Step, StopsAtFlag, Begin, NextFile, RequestUnneeded, RequestAnswered,
         RequestTransient, RequestRangeWrong, RequestRefused, Backoff, Chunk, StreamBreaks,
         EndOfData, Verify, Commit, WriteRecord, Finish, ClearBegin, ClearEntry, ClearEnds, DiskFails
    <2>2. status' \in {status, "cancelled", "failed", "checking", "downloading", "verifying", "ready", "notInstalled"}
      BY <1>3 DEF Worker, Step, StopsAtFlag, Begin, NextFile, RequestUnneeded, RequestAnswered,
         RequestTransient, RequestRangeWrong, RequestRefused, Backoff, Chunk, StreamBreaks,
         EndOfData, Verify, Commit, WriteRecord, Finish, ClearBegin, ClearEntry, ClearEnds, DiskFails,
         Again, Ends
    <2>3. record' \in BOOLEAN /\ cleared' \in BOOLEAN
      <3>1. CASE Begin
        BY <3>1 DEF Begin
      <3>2. CASE WriteRecord
        BY <3>2 DEF WriteRecord, Complete
      <3>3. CASE ClearEntry
        BY <3>3 DEF ClearEntry
      <3>4. CASE ~Begin /\ ~WriteRecord /\ ~ClearEntry
        <4>1. UNCHANGED <<record, cleared>>
          BY <1>3, <3>4 DEF Worker, Step, StopsAtFlag, NextFile, RequestUnneeded, RequestAnswered,
             RequestTransient, RequestRangeWrong, RequestRefused, Backoff, Chunk, StreamBreaks,
             EndOfData, Verify, Commit, Finish, ClearBegin, ClearEnds, DiskFails
        <4> QED BY <4>1
      <3> QED BY <3>1, <3>2, <3>3, <3>4
    <2> QED BY <2>1, <2>2, <2>3
  <1> QED BY <1>1, <1>2, <1>3 DEF Next

LEMMA CounterTypesStep ==
    ASSUME ResourceAssumption, CounterTypes, job \in JobStates, BadStaysBad, [Next]_vars
    PROVE  CounterTypes'
  <1> USE Bounds DEF CounterTypes, counters
  <1>1. ASSUME NEW op \in Operations, Ask(op) \/ StartOperation(op) \/ StartFails(op) \/ RecordFailure(op)
        PROVE  CounterTypes'
    BY <1>1 DEF Ask, StartOperation, StartFails, RecordFailure
  <1>2. CASE Reap \/ Cancel \/ BeginShutdown \/ ShutdownJoins \/ Killed \/ Restart \/ Damage \/ UNCHANGED vars
    BY <1>2 DEF Reap, Cancel, BeginShutdown, ShutdownJoins, Killed, Restart, Damage, vars
  <1>3. CASE Worker
    <2>1. UNCHANGED <<cancels, starts, runs>>
      BY <1>3 DEF Worker, Step, StopsAtFlag, Begin, NextFile, RequestUnneeded, RequestAnswered,
         RequestTransient, RequestRangeWrong, RequestRefused, Backoff, Chunk, StreamBreaks,
         EndOfData, Verify, Commit, WriteRecord, Finish, ClearBegin, ClearEntry, ClearEnds, DiskFails
    <2>2. faults' = faults \/ (faults < MaxFaults /\ faults' = faults + 1)
      <3>1. CASE NextFile
        <4>1. job.good
          BY <3>1 DEF NextFile, At, BadStaysBad
        <4>2. job'.good \/ faults < MaxFaults
          BY <3>1, <4>1 DEF NextFile, JobStates
        <4> QED BY <3>1, <4>2 DEF NextFile
      <3>2. CASE RequestAnswered
        BY <3>2 DEF RequestAnswered
      <3>3. CASE ~NextFile /\ ~RequestAnswered
        BY <1>3, <3>3 DEF Worker, Step, StopsAtFlag, Begin, RequestUnneeded,
           RequestTransient, RequestRangeWrong, RequestRefused, Backoff, Chunk, StreamBreaks,
           EndOfData, Verify, Commit, WriteRecord, Finish, ClearBegin, ClearEntry, ClearEnds, DiskFails,
           NetworkFails
      <3> QED BY <3>1, <3>2, <3>3
    <2> QED BY <2>1, <2>2
  <1> QED BY <1>1, <1>2, <1>3 DEF Next

LEMMA TypeStep ==
    ASSUME ResourceAssumption, TypeOK, JobFits, BadStaysBad, Committing, late' \in {0, 1}, [Next]_vars
    PROVE  TypeOK'
  <1>1. DiskTypes /\ FlagTypes /\ CounterTypes /\ job \in JobStates
    BY TypesSplit
  <1>2. DiskTypes' /\ FlagTypes' /\ CounterTypes' /\ job' \in JobStates
    BY <1>1, DiskTypesStep, FlagTypesStep, CounterTypesStep, JobTypes
  <1>3. late' \in 0 .. NFiles
    BY Bounds
  <1> QED BY <1>2, <1>3 DEF TypeOK, DiskTypes, FlagTypes, CounterTypes, JobStates

-----------------------------------------------------------------------------
(* The place of the worker *)

\* The steps of the task leave the partial files alone; a job they begin is new.
LEMMA TaskStep ==
    ASSUME TypeOK, [Next]_vars, ~Worker
    PROVE  /\ partial' = partial
           /\ \/ job' = job
              \/ job' = NoJob
              \/ \E op \in Operations : /\ job' = [NoJob EXCEPT !.op = op, !.pc = "begin"]
                                        /\ phase' = "up" /\ late' = 0
  <1> USE DEF counters, disk
  <1>1. ASSUME NEW op \in Operations, StartOperation(op)
        PROVE  /\ partial' = partial
               /\ \/ job' = job
                  \/ job' = [NoJob EXCEPT !.op = op, !.pc = "begin"] /\ phase' = "up" /\ late' = 0
    BY <1>1 DEF StartOperation
  <1>2. ASSUME NEW op \in Operations, Ask(op) \/ StartFails(op) \/ RecordFailure(op)
        PROVE  partial' = partial /\ (job' = job \/ job' = NoJob)
    BY <1>2 DEF Ask, StartFails, RecordFailure
  <1>3. CASE Reap \/ Cancel \/ BeginShutdown \/ ShutdownJoins \/ Killed \/ Restart \/ Damage \/ UNCHANGED vars
    BY <1>3 DEF Reap, Cancel, BeginShutdown, ShutdownJoins, Killed, Restart, Damage, vars
  <1> QED BY <1>1, <1>2, <1>3 DEF Next

LEMMA TaskJob ==
    ASSUME TypeOK, [Next]_vars, ~Worker
    PROVE  job' = job \/ (job'.pc \in {"none", "begin"} /\ job'.good)
  <1>1. CASE job' = NoJob
    BY <1>1 DEF NoJob
  <1>2. ASSUME NEW op \in Operations, job' = [NoJob EXCEPT !.op = op, !.pc = "begin"]
        PROVE  job'.pc = "begin" /\ job'.good
    BY <1>2 DEF NoJob
  <1> QED BY <1>1, <1>2, TaskStep

LEMMA JobStep ==
    ASSUME ResourceAssumption, TypeOK, JobFits, BadStaysBad, Committing, [Next]_vars
    PROVE  JobFits' /\ BadStaysBad' /\ (job'.pc = "commit" => Fits(job.file)')
  <1> USE DEF TypeOK, JobFits, BadStaysBad, Committing, OnFile, Fits, Files, Empty, NoJob, At
  <1>0. /\ NFiles \in Nat \ {0} /\ Size \in Nat \ {0} /\ MaxRequests \in Nat \ {0}
    BY DEF ResourceAssumption
  <1>1. CASE ~Worker
    <2>1. CASE job' = job
      BY <1>1, <2>1, TaskStep
    <2>2. CASE job'.pc \in {"none", "begin"} /\ job'.good
      BY <2>2
    <2> QED BY <1>1, <2>1, <2>2, TaskJob
  <1>2. CASE StopsAtFlag \/ DiskFails \/ WriteRecord \/ Finish \/ ClearBegin \/ ClearEnds
    BY <1>2 DEF StopsAtFlag, DiskFails, WriteRecord, Finish, ClearBegin, ClearEnds, Ends
  <1>3. CASE Begin
    BY <1>0, <1>3 DEF Begin
  <1>4. CASE NextFile
    <2>1. CASE job.file \notin Files
      BY <1>4, <2>1 DEF NextFile
    <2>2. CASE job.file \in Files /\ final[job.file] = "good"
      BY <1>4, <2>2 DEF NextFile
    <2>3. CASE job.file \in Files /\ final[job.file] # "good"
      <3>1. job.good
        BY <1>4 DEF NextFile
      <3>2. \/ job' = [job EXCEPT !.pc = "request", !.request = 0, !.reset = FALSE]
            \/ /\ partial' = [partial EXCEPT ![job.file] = Empty]
               /\ \E good \in BOOLEAN : job' = [job EXCEPT !.pc = "copy", !.good = good]
        BY <1>4, <2>3 DEF NextFile
      <3>3. CASE job' = [job EXCEPT !.pc = "request", !.request = 0, !.reset = FALSE]
        BY <2>3, <3>1, <3>3
      <3>4. CASE /\ partial' = [partial EXCEPT ![job.file] = Empty]
                 /\ \E good \in BOOLEAN : job' = [job EXCEPT !.pc = "copy", !.good = good]
        <4>1. job'.pc = "copy" /\ job'.file = job.file
          BY <3>4
        <4>2. partial'[job.file].size = 0
          BY <2>3, <3>4
        <4> QED BY <1>0, <2>3, <4>1, <4>2
      <3> QED BY <3>2, <3>3, <3>4
    <2> QED BY <2>1, <2>2, <2>3
  <1>5. CASE RequestUnneeded \/ RequestTransient \/ StreamBreaks
    <2>1. job.pc \in {"request", "stream"} /\ partial' = partial
      BY <1>5 DEF RequestUnneeded, RequestTransient, StreamBreaks, disk
    <2>2. \/ job' = [job EXCEPT !.pc = "verify"] \/ job' = [job EXCEPT !.pc = "done"]
          \/ job.request < MaxRequests - 1 /\ job' = [job EXCEPT !.pc = "backoff"]
      BY <1>5 DEF RequestUnneeded, RequestTransient, StreamBreaks, Again, Ends
    <2>3. /\ job'.pc \in {"verify", "done", "backoff"} /\ job'.file = job.file
          /\ job'.good = job.good /\ job'.request = job.request
          /\ job'.pc = "backoff" => job.request < MaxRequests - 1
      BY <2>2
    <2> QED BY <2>1, <2>3
  <1>6. CASE RequestAnswered
    <2>1. /\ job.pc = "request"
          /\ \E good \in BOOLEAN : job' = [job EXCEPT !.pc = "stream", !.good = good]
          /\ partial' = [partial EXCEPT ![job.file] = Empty] \/ partial' = partial
          /\ partial[job.file].size < Size
      BY <1>6 DEF RequestAnswered
    <2>2. job.file \in Files /\ job'.pc = "stream" /\ job'.file = job.file
      BY <2>1
    <2>3. partial \in [Files -> [size : 0 .. Size, good : BOOLEAN]]
      OBVIOUS
    <2>4. [partial EXCEPT ![job.file] = Empty][job.file].size = 0
      BY <2>2, <2>3
    <2>5. partial'[job.file].size # Size
      BY <1>0, <2>1, <2>4
    <2> QED BY <2>2, <2>5
  <1>7. CASE RequestRangeWrong
    <2>1. /\ job.pc = "request" /\ partial' = [partial EXCEPT ![job.file] = Empty]
          /\ \/ job' = [job EXCEPT !.reset = TRUE, !.request = job.request + 1]
             \/ job' = [job EXCEPT !.pc = "done"]
      BY <1>7 DEF RequestRangeWrong, Ends
    <2>2. job.file \in Files /\ job'.pc \in {"request", "done"} /\ job'.file = job.file
      BY <2>1
    <2>3. partial \in [Files -> [size : 0 .. Size, good : BOOLEAN]]
      OBVIOUS
    <2>4. [partial EXCEPT ![job.file] = Empty][job.file].size = 0
      BY <2>2, <2>3
    <2>5. partial'[job.file].size # Size
      BY <1>0, <2>1, <2>4
    <2> QED BY <2>2, <2>5
  <1>8. CASE RequestRefused
    BY <1>8 DEF RequestRefused, Ends
  <1>9. CASE Backoff \/ EndOfData
    BY <1>9 DEF Backoff, EndOfData, disk
  <1>10. CASE Chunk
    <2>1. job' = job /\ job.pc \in {"stream", "copy"}
      BY <1>10 DEF Chunk
    <2>2. job.file \in Files /\ partial'[job.file].good = (partial[job.file].good /\ job.good)
      BY <1>10, <2>1 DEF Chunk
    <2> QED BY <2>1, <2>2
  <1>11. CASE Verify
    BY <1>11 DEF Verify, Ends
  <1>12. CASE Commit
    BY <1>12 DEF Commit
  <1>13. CASE ClearEntry
    BY <1>13 DEF ClearEntry
  <1> QED
    BY <1>1, <1>2, <1>3, <1>4, <1>5, <1>6, <1>7, <1>8, <1>9, <1>10, <1>11, <1>12, <1>13 DEF Worker, Step

-----------------------------------------------------------------------------
(* The flag *)

\* A worker that has seen the flag down commits one file and no other.
LEMMA LateStep ==
    ASSUME ResourceAssumption, TypeOK, Committing, ClosingKeepsTheFlag, [Next]_vars
    PROVE  /\ late' \in {0, 1}
           /\ late' = 1 => cancel' /\ job'.pc # "commit"
           /\ ClosingKeepsTheFlag'
  <1> USE DEF TypeOK, Committing, ClosingKeepsTheFlag, NoJob, counters, ghosts
  <1>1. ASSUME NEW op \in Operations, Ask(op) \/ StartOperation(op) \/ StartFails(op) \/ RecordFailure(op)
        PROVE  /\ late' = 0 \/ (late' = late /\ cancel' = cancel /\ job'.pc \in {job.pc, "none"})
               /\ ClosingKeepsTheFlag'
    BY <1>1 DEF Ask, StartOperation, StartFails, RecordFailure
  <1>2. CASE Reap \/ Cancel \/ BeginShutdown \/ ShutdownJoins \/ Killed \/ Restart \/ Damage \/ UNCHANGED vars
    BY <1>2 DEF Reap, Cancel, BeginShutdown, ShutdownJoins, Killed, Restart, Damage, vars
  <1>3. CASE Commit
    BY <1>3 DEF Commit, At
  <1>4. CASE Verify
    BY <1>4 DEF Verify, At, Ends, Fits, Cancelled
  <1>5. CASE Step /\ ~Commit /\ ~Verify
    <2>1. UNCHANGED <<cancel, phase, late>>
      BY <1>5 DEF Step, StopsAtFlag, Begin, NextFile, RequestUnneeded, RequestAnswered,
         RequestTransient, RequestRangeWrong, RequestRefused, Backoff, Chunk, StreamBreaks,
         EndOfData, WriteRecord, Finish, ClearBegin, ClearEntry, ClearEnds, DiskFails
    <2>2. job'.pc # "commit" \/ job' = job
      BY <1>5 DEF Step, StopsAtFlag, Begin, NextFile, RequestUnneeded, RequestAnswered,
         RequestTransient, RequestRangeWrong, RequestRefused, Backoff, Chunk, StreamBreaks,
         EndOfData, WriteRecord, Finish, ClearBegin, ClearEntry, ClearEnds, DiskFails, Again, Ends, At
    <2> QED BY <2>1, <2>2
  <1> QED BY <1>1, <1>2, <1>3, <1>4, <1>5 DEF Next, Worker

-----------------------------------------------------------------------------
(* The files and the record *)

\* Nothing but these steps touches what is installed.
LEMMA DiskStep ==
    ASSUME [Next]_vars, ~Begin, ~NextFile, ~Commit, ~WriteRecord, ~ClearEntry, ~Damage
    PROVE  UNCHANGED <<final, record, damaged, cleared>>
  BY DEF Next, Worker, Step, StopsAtFlag, RequestUnneeded, RequestAnswered, RequestTransient,
     RequestRangeWrong, RequestRefused, Backoff, Chunk, StreamBreaks, EndOfData, Verify, Finish,
     ClearBegin, ClearEnds, DiskFails, Ask, StartOperation, StartFails, RecordFailure, Reap,
     Cancel, BeginShutdown, ShutdownJoins, Killed, Restart, disk, ghosts, vars

LEMMA RepairingStep ==
    ASSUME TypeOK, Repairing, [Next]_vars
    PROVE  Repairing'
  <1> USE DEF Repairing, OnFile
  <1>1. CASE Begin
    BY <1>1 DEF Begin, TypeOK
  <1>2. CASE NextFile
    BY <1>2 DEF NextFile, At
  <1>3. CASE Commit
    BY <1>3 DEF Commit, At
  <1>4. CASE WriteRecord
    BY <1>4 DEF WriteRecord, Ends, TypeOK
  <1>5. CASE ClearEntry
    BY <1>5 DEF ClearEntry, At
  <1>6. CASE Damage
    BY <1>6 DEF Damage
  <1>7. CASE ~Worker
    <2>1. record' = record
      BY <1>7 DEF Next, Ask, StartOperation, StartFails, RecordFailure, Reap, Cancel, BeginShutdown,
         ShutdownJoins, Killed, Restart, Damage, disk, vars
    <2>2. job' = job \/ job'.pc \in {"none", "begin"}
      BY <1>7, TaskJob
    <2> QED BY <2>1, <2>2
  <1>8. CASE Worker /\ ~Begin /\ ~NextFile /\ ~Commit /\ ~WriteRecord /\ ~ClearEntry
    <2>1. record' = record
      BY <1>8 DEF Worker, Step, StopsAtFlag, RequestUnneeded, RequestAnswered, RequestTransient,
         RequestRangeWrong, RequestRefused, Backoff, Chunk, StreamBreaks, EndOfData, Verify, Finish,
         ClearBegin, ClearEnds, DiskFails, disk
    <2>2. job'.pc \in OnFile => job.pc \in OnFile
      BY <1>8 DEF Worker, Step, StopsAtFlag, RequestUnneeded, RequestAnswered, RequestTransient,
         RequestRangeWrong, RequestRefused, Backoff, Chunk, StreamBreaks, EndOfData, Verify, Finish,
         ClearBegin, ClearEnds, DiskFails, Again, Ends, At, TypeOK
    <2>3. job'.pc # "file"
      BY <1>8 DEF Worker, Step, StopsAtFlag, RequestUnneeded, RequestAnswered, RequestTransient,
         RequestRangeWrong, RequestRefused, Backoff, Chunk, StreamBreaks, EndOfData, Verify, Finish,
         ClearBegin, ClearEnds, DiskFails, Again, Ends, At, TypeOK
    <2> QED BY <2>1, <2>2, <2>3
  <1> QED BY <1>1, <1>2, <1>3, <1>4, <1>5, <1>7, <1>8

LEMMA VerifiedStep ==
    ASSUME TypeOK, JobFits, Committing, FilesAreVerified, [Next]_vars
    PROVE  FilesAreVerified'
  <1> USE DEF TypeOK, FilesAreVerified
  <1>1. CASE NextFile
    BY <1>1 DEF NextFile
  <1>2. CASE Commit
    BY <1>2 DEF Commit, At, Committing, JobFits, OnFile
  <1>3. CASE ClearEntry
    BY <1>3 DEF ClearEntry
  <1>4. CASE Damage
    BY <1>4 DEF Damage
  <1>5. CASE UNCHANGED <<final, damaged>>
    BY <1>5
  <1> QED
    BY <1>1, <1>2, <1>3, <1>4, <1>5, DiskStep DEF Begin, WriteRecord, ghosts

LEMMA RecordStep ==
    ASSUME TypeOK, Repairing, RecordFollowsFiles, [Next]_vars
    PROVE  RecordFollowsFiles'
  <1> USE DEF TypeOK, RecordFollowsFiles
  <1>1. CASE Begin
    BY <1>1 DEF Begin, ghosts
  <1>2. CASE NextFile \/ Commit
    BY <1>2 DEF NextFile, Commit, At, Repairing, OnFile
  <1>3. CASE WriteRecord
    BY <1>3 DEF WriteRecord, Complete
  <1>4. CASE ClearEntry
    <2>1. CASE record' = FALSE
      BY <2>1
    <2>2. CASE record' = record /\ cleared' = record
      BY <2>2
    <2>3. CASE UNCHANGED <<final, record, damaged, cleared>>
      BY <2>3
    <2> QED BY <1>4, <2>1, <2>2, <2>3 DEF ClearEntry
  <1>5. CASE Damage
    BY <1>5 DEF Damage
  <1>6. CASE UNCHANGED <<final, record, damaged, cleared>>
    BY <1>6
  <1> QED BY <1>1, <1>2, <1>3, <1>4, <1>5, <1>6, DiskStep

-----------------------------------------------------------------------------
(* The theorems *)

LEMMA InvInit == ASSUME ResourceAssumption, Init PROVE Inv
  <1> USE DEF Init, NoJob, Empty
  <1>0. Empty \in [size : 0 .. Size, good : BOOLEAN]
    BY Bounds
  <1> HIDE DEF Empty
  <1>1. DiskTypes /\ FlagTypes /\ CounterTypes /\ late \in 0 .. NFiles
    <2>1. DiskTypes
      BY <1>0 DEF DiskTypes
    <2>2. FlagTypes
      BY DEF FlagTypes, Terminal
    <2>3. CounterTypes /\ late \in 0 .. NFiles
      BY Bounds DEF CounterTypes
    <2> QED BY <2>1, <2>2, <2>3
  <1>2. job \in JobStates
    BY Bounds DEF JobStates
  <1>3. JobFits /\ BadStaysBad /\ Committing /\ Repairing
    BY DEF JobFits, BadStaysBad, Committing, Repairing, OnFile
  <1>4. FilesAreVerified /\ RecordFollowsFiles /\ ClosingKeepsTheFlag
    BY DEF FilesAreVerified, RecordFollowsFiles, ClosingKeepsTheFlag
  <1> QED BY <1>1, <1>2, <1>3, <1>4, TypesSplit DEF Inv

LEMMA InvStep == ASSUME ResourceAssumption, Inv, [Next]_vars PROVE Inv'
  <1> USE DEF Inv
  <1>1. TypeOK' /\ JobFits' /\ BadStaysBad'
    BY TypeStep, JobStep, LateStep
  <1>2. Committing' /\ ClosingKeepsTheFlag'
    BY JobStep, LateStep DEF Committing
  <1>3. Repairing' /\ FilesAreVerified' /\ RecordFollowsFiles'
    BY RepairingStep, VerifiedStep, RecordStep
  <1> QED BY <1>1, <1>2, <1>3

LEMMA InvHolds == ASSUME ResourceAssumption PROVE Spec => []Inv
  <1>1. Init => Inv
    BY InvInit
  <1>2. Inv /\ [Next]_vars => Inv'
    BY InvStep
  <1> QED BY <1>1, <1>2, PTL DEF Spec

\* The task, its worker and the disk are always as the types say: in particular
\* no request beyond MAX_HTTP_REQUESTS and no file beyond the manifest
\* (runtime_resources.rs).
THEOREM ResourceTypes == ASSUME ResourceAssumption PROVE Spec => []TypeOK
  <1>1. Inv => TypeOK
    BY DEF Inv
  <1> QED BY <1>1, InvHolds, PTL

\* What is installed under its final name was verified, the record stands for
\* files that were, and a cancellation or the end of the application lets at
\* most the rename that is under way happen (runtime_resources.rs,
\* runtime_resource_task.rs).
THEOREM Installed == ASSUME ResourceAssumption PROVE Spec => []InstallationIsSound
  <1>1. Inv => InstallationIsSound
    BY DEF Inv, InstallationIsSound, Committing, CancelIsPrompt
  <1> QED BY <1>1, InvHolds, PTL
=============================================================================

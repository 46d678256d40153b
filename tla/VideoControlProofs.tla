-------------------------- MODULE VideoControlProofs --------------------------
(***************************************************************************)
(* Proofs about the control path, in three parts.                          *)
(*                                                                         *)
(* The inductive invariant of the gate and the queues is TypeOK and        *)
(* LeaseInv: no command holds a revision the gate has not yet given out,   *)
(* and whoever holds the current one speaks about the latest cursor of a   *)
(* generation that is not stopped.                                         *)
(*                                                                         *)
(* To it is added what a launch is for: while mpv starts for a command,    *)
(* the session stands at the generation of that command's cursor, and at   *)
(* the cursor itself where the command binds one; between launches the     *)
(* process plays what the session says.                                    *)
(*                                                                         *)
(* The third part adds where the commands are that were sent: each in one  *)
(* place of the channel, the deferred queue and the hands of the actor,    *)
(* and each of a caller that sent it, also when that caller has given up   *)
(* waiting and has gone on to the cleanup of an advance.                   *)
(***************************************************************************)
EXTENDS VideoControl, TLAPS, SequenceTheorems, FiniteSetTheorems

-----------------------------------------------------------------------------
(* The operation gate *)

\* Every operation of the gate leaves a gate: advance_operation_revision,
\* reserve_operation and stop of realtime_video_runtime.rs.
LEMMA GateOperations ==
    ASSUME NEW g \in Gate, NEW cursor \in Cursor, NEW generation \in Nat
    PROVE  /\ NewGate \in Gate
           /\ Cancelled(g) \in Gate
           /\ Registered(g, cursor) \in Gate
           /\ StopPublished(g, generation) \in Gate
  <1>1. NewGate \in Gate
    BY DEF NewGate, Gate
  <1>2. Cancelled(g) \in Gate
    BY DEF Cancelled, Gate
  <1>3. Registered(g, cursor) \in Gate
    <2>1. cursor.generation \in Nat
      BY DEF Cursor
    <2>2. Larger(Cancelled(g).latestGeneration, cursor.generation) \in Nat
      BY <1>2, <2>1 DEF Larger, Gate
    <2> QED BY <1>2, <2>2 DEF Registered, Gate
  <1>4. StopPublished(g, generation) \in Gate
    <2>1. \A a, b \in Nat : Larger(a, b) \in Nat
      BY DEF Larger
    <2>2. Larger(Cancelled(g).stoppedGeneration, Larger(g.latestGeneration, generation)) \in Nat
      BY <1>2, <2>1 DEF Gate
    <2> QED BY <1>2, <2>2 DEF StopPublished, Gate
  <1> QED BY <1>1, <1>2, <1>3, <1>4

\* Revisions never come back: what is not registered under the present one is
\* older than the next.
LEMMA RevisionsGrow ==
    ASSUME NEW g \in Gate, NEW cursor \in Cursor, NEW generation \in Nat
    PROVE  /\ Cancelled(g).revision = g.revision + 1
           /\ StopPublished(g, generation).revision = g.revision + 1
           /\ cursor # g.latestCursor => Registered(g, cursor).revision = g.revision + 1
           /\ cursor = g.latestCursor => Registered(g, cursor) = g
           /\ Registered(g, cursor).latestCursor = cursor
           /\ Registered(g, cursor).stoppedGeneration = g.stoppedGeneration
  BY DEF Gate, Cancelled, Registered, StopPublished

-----------------------------------------------------------------------------
(* The session *)

LEMMA Modes3 == Original \in 1..Modes /\ Cpu4 \in 1..Modes /\ 1 \in 1..Modes
  BY ModesAssumption DEF Original, Cpu4

LEMMA NewSessionType == NewSession \in Session
  BY Modes3 DEF NewSession, Session, Ipc

\* What the functions of RuntimeState that stop, demote or rebind do to a session
\* leaves a session.
LEMMA SessionOperations ==
    ASSUME NEW s \in Session
    PROVE  /\ ProcessStopped(s) \in Session
           /\ IdentityRecorded(s) \in Session
           /\ Suspended(s) \in Session
           /\ SourceRecorded(s) \in Session
           /\ OriginalFailed(s) \in Session
           /\ s.floor # Original => Demoted(s) \in Session
           /\ s.session # NoCursor => Started(s) \in Session
  <1>1. ProcessStopped(s) \in Session
    BY DEF ProcessStopped, Session, Ipc
  <1>2. IdentityRecorded(s) \in Session
    BY DEF IdentityRecorded, Session
  <1>3. Suspended(s) \in Session
    <2> DEFINE p == ProcessStopped(s)
               e == IF s.session = NoCursor THEN 0 ELSE p.epoch + 1
    <2>1. p \in Session /\ s.session \in Cursor \cup {NoCursor}
      BY <1>1 DEF Session
    <2>2. e \in Nat
      BY <2>1 DEF Session
    <2>3. Suspended(s) = [p EXCEPT !.stopped = TRUE, !.identity = s.session, !.epoch = e]
      BY DEF Suspended
    <2> HIDE DEF p, e
    <2> QED BY <2>1, <2>2, <2>3 DEF Session
  <1>4. SourceRecorded(s) \in Session
    BY NewSessionType DEF SourceRecorded, Session
  <1>5. OriginalFailed(s) \in Session
    <2> DEFINE p == ProcessStopped(s)
    <2>1. p \in Session /\ s.session \in Cursor \cup {NoCursor}
      BY <1>1 DEF Session
    <2>2. OriginalFailed(s) = [p EXCEPT !.stopped = FALSE, !.identity = s.session]
      BY DEF OriginalFailed
    <2> HIDE DEF p
    <2> QED BY <2>1, <2>2 DEF Session
  <1>6. ASSUME s.floor # Original PROVE Demoted(s) \in Session
    <2> DEFINE i == IdentityRecorded(s)
               p == ProcessStopped(i)
    <2>1. p \in Session /\ p.floor = s.floor
      <3>1. i \in Session /\ i.floor = s.floor
        BY <1>2 DEF IdentityRecorded, Session
      <3> QED BY <3>1 DEF ProcessStopped, Session, Ipc
    <2>2. p.floor + 1 \in 1..Modes
      BY <2>1, <1>6, ModesAssumption DEF Session, Original
    <2>3. Demoted(s) = [p EXCEPT !.floor = @ + 1, !.stopped = FALSE]
      BY DEF Demoted
    <2> QED BY <2>1, <2>2, <2>3 DEF Session
  <1>7. ASSUME s.session # NoCursor PROVE Started(s) \in Session
    <2> DEFINE p == [generation |-> s.session.generation, mode |-> s.floor]
    <2>1. s.session \in Cursor /\ s.session.generation \in Nat
      BY <1>7 DEF Session, Cursor
    <2>2. p \in Process \cup {NoProcess}
      BY <2>1 DEF Process, Session
    <2>3. Started(s) = [s EXCEPT !.process = p, !.sync = s.session, !.identity = s.session,
                                 !.epoch = @ + 1, !.stopped = FALSE, !.eof = NoCursor]
      BY DEF Started
    <2>4. s.epoch + 1 \in Nat
      BY DEF Session
    <2> HIDE DEF p
    <2> QED BY <2>1, <2>2, <2>3, <2>4 DEF Session
  <1> QED BY <1>1, <1>2, <1>3, <1>4, <1>5, <1>6, <1>7

\* begin_generation keeps the session, keeps only its process or starts afresh.
LEMMA GenerationBegunType ==
    ASSUME NEW s \in Session, NEW generation \in Nat
    PROVE  GenerationBegun(s, generation) \in Session
  <1>1. [NewSession EXCEPT !.floor = s.floor, !.process = s.process] \in Session
    <2>1. s.floor \in 1..Modes /\ s.process \in Process \cup {NoProcess}
      BY DEF Session
    <2> QED BY <2>1, NewSessionType DEF Session
  <1> QED BY <1>1, NewSessionType DEF GenerationBegun

\* A cursor can be bound to a session.
LEMMA BoundType ==
    ASSUME NEW s \in Session, NEW cursor \in Cursor
    PROVE  [s EXCEPT !.session = cursor] \in Session
  BY DEF Session

LEMMA SynchronizedType ==
    ASSUME NEW s \in Session, NEW next \in Cursor
    PROVE  Synchronized(s, next) \in Session
  BY DEF Synchronized, Session, Ipc

LEMMA CycleRefusedType ==
    ASSUME NEW s \in Session, NEW next \in Cursor
    PROVE  CycleRefused(s, next) \in Session
  BY SynchronizedType DEF CycleRefused, Session

-----------------------------------------------------------------------------
(* Types of the parts of a step *)

\* View: what publish_status writes is a status.
LEMMA ViewType ==
    ASSUME NEW s \in Session PROVE View(s) \in Status
  BY DEF View, Status, Session, Alive

\* A call that is given an answer remains a call with the same command.
LEMMA AnsweredCallType ==
    ASSUME NEW call \in Call, NEW answer \in Answer
    PROVE  /\ [call EXCEPT !.answer = answer] \in Call
           /\ [call EXCEPT !.answer = answer].command = call.command
           /\ [call EXCEPT !.answer = answer].pc = call.pc
  BY DEF Call

\* receive_reply: answering the commands of a queue keeps the calls and their commands.
LEMMA AnsweredType ==
    ASSUME calls \in [Callers -> Call], NEW queue, NEW answer \in Answer
    PROVE  /\ Answered(queue, answer) \in [Callers -> Call]
           /\ \A k \in Callers : Answered(queue, answer)[k].command = calls[k].command
           /\ \A k \in Callers : Answered(queue, answer)[k].pc = calls[k].pc
  <1>1. \A k \in Callers : calls[k] \in Call
    OBVIOUS
  <1> QED BY <1>1, AnsweredCallType DEF Answered

\* What every handler leaves behind, whether it replied or started mpv for op.
Outcome(op) ==
    /\ rt' \in Session
    /\ published' \in Status
    /\ launch' \in Launch \cup {NoLaunch}
    /\ launch' # NoLaunch => launch'.command = op
    /\ calls' \in [Callers -> Call]
    /\ \A k \in Callers : calls'[k].command = calls[k].command

\* publish_status and the answer.
LEMMA RepliesOutcome ==
    ASSUME TypeOK, NEW op, NEW answer \in Answer, NEW s \in Session,
           Replies(op, answer, s)
    PROVE  Outcome(op)
  <1>1. calls \in [Callers -> Call]
    BY DEF TypeOK
  <1>2. /\ calls' \in [Callers -> Call]
        /\ \A k \in Callers : calls'[k].command = calls[k].command
    BY <1>1, AnsweredType DEF Replies
  <1> QED BY <1>2, ViewType DEF Replies, Outcome

\* start_renderer and the functions that call it.
LEMMA LaunchesOutcome ==
    ASSUME TypeOK, NEW op \in Command \cup {NoCommand}, NEW shown \in Session,
           NEW s \in Session, NEW kind \in {"Start", "Switch"}, NEW revision \in Nat,
           NEW fallback \in BOOLEAN,
           Launches(op, shown, s, kind, revision, fallback)
    PROVE  Outcome(op)
  <1>1. launch' \in Launch /\ launch'.command = op
    BY DEF Launches, Launch
  <1>2. calls \in [Callers -> Call] /\ calls' = calls
    BY DEF TypeOK, Launches
  <1>3. rt' \in Session /\ published' \in Status
    BY ViewType DEF Launches
  <1> QED BY <1>1, <1>2, <1>3 DEF Outcome

\* transition_to_fallback.
LEMMA FallsBackOutcome ==
    ASSUME TypeOK, NEW op \in Command \cup {NoCommand}, NEW s \in Session, FallsBack(op, s)
    PROVE  Outcome(op)
  <1>1. CASE s.floor = Original
    <2>1. OriginalFailed(s) \in Session
      BY SessionOperations
    <2> QED BY <1>1, <2>1, RepliesOutcome DEF FallsBack, Answer
  <1>2. CASE s.floor # Original
    <2>1. Demoted(s) \in Session
      BY <1>2, SessionOperations
    <2>2. gate.revision \in Nat
      BY DEF TypeOK, Gate
    <2>3. Launches(op, s, Demoted(s), "Start", gate.revision, TRUE)
      BY <1>2 DEF FallsBack
    <2> QED BY <2>1, <2>2, <2>3, LaunchesOutcome
  <1> QED BY <1>1, <1>2

\* neutralize_to_source_with_fallback, when the effects stay on the picture.
LEMMA NeutralizationFailsOutcome ==
    ASSUME TypeOK, NEW op \in Command \cup {NoCommand}, NEW s \in Session,
           NeutralizationFails(op, s)
    PROVE  Outcome(op)
  <1>1. CASE s.floor = Original
    <2>1. OriginalFailed(s) \in Session
      BY SessionOperations
    <2> QED BY <1>1, <2>1, RepliesOutcome DEF NeutralizationFails, Answer
  <1>2. CASE s.floor # Original
    <2>1. Demoted(s) \in Session
      BY <1>2, SessionOperations
    <2>2. gate.revision \in Nat
      BY DEF TypeOK, Gate
    <2>3. Launches(op, s, Demoted(s), "Start", gate.revision, TRUE)
      BY <1>2 DEF NeutralizationFails
    <2> QED BY <2>1, <2>2, <2>3, LaunchesOutcome
  <1> QED BY <1>1, <1>2

-----------------------------------------------------------------------------
(* The queues *)

Elements(queue) == {queue[i] : i \in DOMAIN queue}

\* Taking the first command of a queue.
LEMMA TakenType ==
    ASSUME NEW queue \in Seq(Command), queue # <<>>, Len(queue) <= Capacity
    PROVE  /\ Head(queue) \in Command
           /\ Head(queue) \in Elements(queue)
           /\ Tail(queue) \in Seq(Command)
           /\ Len(Tail(queue)) <= Capacity
           /\ Elements(Tail(queue)) \subseteq Elements(queue)
  <1>1. Len(queue) \in Nat \ {0} /\ DOMAIN queue = 1..Len(queue)
    BY EmptySeq, LenProperties
  <1>2. /\ Head(queue) \in Command /\ Tail(queue) \in Seq(Command)
        /\ Len(Tail(queue)) = Len(queue) - 1
        /\ \A i \in 1..Len(Tail(queue)) : Tail(queue)[i] = queue[i + 1]
    BY HeadTailProperties
  <1>3. DOMAIN Tail(queue) = 1..Len(Tail(queue))
    BY <1>2, LenProperties
  <1>4. Head(queue) = queue[1]
    BY DEF Head
  <1>5. Len(Tail(queue)) <= Capacity
    BY <1>1, <1>2, CapacityAssumption
  <1>6. Elements(Tail(queue)) \subseteq Elements(queue)
    <2> SUFFICES ASSUME NEW i \in 1..Len(Tail(queue))
                 PROVE  Tail(queue)[i] \in Elements(queue)
      BY <1>3 DEF Elements
    <2>1. i + 1 \in DOMAIN queue /\ Tail(queue)[i] = queue[i + 1]
      BY <1>1, <1>2
    <2> QED BY <2>1 DEF Elements
  <1> QED BY <1>1, <1>2, <1>4, <1>5, <1>6 DEF Elements

\* Appending a command to a queue that is not full.
LEMMA AppendedType ==
    ASSUME NEW queue \in Seq(Command), Len(queue) < Capacity, NEW op \in Command
    PROVE  /\ Append(queue, op) \in Seq(Command)
           /\ Len(Append(queue, op)) <= Capacity
           /\ Elements(Append(queue, op)) \subseteq Elements(queue) \cup {op}
  <1>1. Len(queue) \in Nat /\ DOMAIN queue = 1..Len(queue)
    BY LenProperties
  <1>2. /\ Append(queue, op) \in Seq(Command)
        /\ Len(Append(queue, op)) = Len(queue) + 1
        /\ \A i \in 1..Len(queue) : Append(queue, op)[i] = queue[i]
        /\ Append(queue, op)[Len(queue) + 1] = op
    BY AppendProperties
  <1>3. DOMAIN Append(queue, op) = 1..(Len(queue) + 1)
    BY <1>2, LenProperties
  <1>4. Len(Append(queue, op)) <= Capacity
    BY <1>1, <1>2, CapacityAssumption
  <1>5. Elements(Append(queue, op)) \subseteq Elements(queue) \cup {op}
    <2> SUFFICES ASSUME NEW i \in 1..(Len(queue) + 1)
                 PROVE  Append(queue, op)[i] \in Elements(queue) \cup {op}
      BY <1>3 DEF Elements
    <2>1. CASE i \in 1..Len(queue)
      BY <2>1, <1>1, <1>2 DEF Elements
    <2>2. CASE i = Len(queue) + 1
      BY <2>2, <1>2
    <2> QED BY <1>1, <2>1, <2>2
  <1> QED BY <1>2, <1>4, <1>5

LEMMA EmptyType ==
    <<>> \in Seq(Command) /\ Len(<<>>) <= Capacity /\ Elements(<<>>) = {}
  BY EmptySeq, CapacityAssumption DEF Elements

\* What a step does to the queues, whoever takes it: added is the one command that
\* may appear in them.
QueueStep(added) ==
    /\ channel' \in Seq(Command) /\ Len(channel') <= Capacity
    /\ deferred' \in Seq(Command) /\ Len(deferred') <= Capacity
    /\ Elements(channel') \cup Elements(deferred')
         \subseteq Elements(channel) \cup Elements(deferred) \cup added

\* actor_loop takes a command out of the channel.
LEMMA ReadsChannelType ==
    ASSUME TypeOK, NEW op, ReadsChannel(op)
    PROVE  /\ op \in Command /\ op \in Elements(channel)
           /\ channel' \in Seq(Command) /\ Len(channel') <= Capacity
           /\ Elements(channel') \subseteq Elements(channel)
  BY TakenType DEF TypeOK, ReadsChannel

\* actor_loop takes a command out of either queue.
LEMMA HandlesType ==
    ASSUME TypeOK, NEW op, NEW kind, Handles(op, kind)
    PROVE  /\ op \in Command /\ op.kind = kind
           /\ op \in Elements(channel) \cup Elements(deferred)
           /\ QueueStep({})
           /\ UNCHANGED <<gate, guard, media, closing, ended>>
  <1>1. CASE deferred # <<>> /\ op = Head(deferred) /\ deferred' = Tail(deferred) /\ UNCHANGED channel
    BY <1>1, TakenType DEF TypeOK, QueueStep, Handles
  <1>2. CASE ReadsChannel(op) /\ UNCHANGED deferred
    BY <1>2, ReadsChannelType DEF TypeOK, QueueStep, Handles
  <1> QED BY <1>1, <1>2 DEF Handles

-----------------------------------------------------------------------------
(* The handlers of the actor *)

\* The commands that carry a cursor carry a valid one.
LEMMA CommandType ==
    ASSUME NEW op \in Command
    PROVE  /\ op.revision \in Nat /\ op.caller \in Callers
           /\ op.kind \in Cursored => /\ op.cursor \in Cursor
                                      /\ op.cursor.generation \in Nat /\ op.cursor.loop \in Nat
           /\ op.kind = "Advance" => op.eof \in Cursor
           /\ op \in Command \cup {NoCommand} /\ op # NoCommand
  BY ControlNoneAssumption DEF Command, CursoredCommand, AdvanceCommand, PlainCommand, Cursor, Cursored,
     Rendering, Intents, Controls

\* begin_generation followed by the binding of the cursor.
LEMMA BoundSessionType ==
    ASSUME NEW s \in Session, NEW cursor \in Cursor
    PROVE  /\ GenerationBegun(s, cursor.generation) \in Session
           /\ [GenerationBegun(s, cursor.generation) EXCEPT !.session = cursor] \in Session
  <1>1. cursor.generation \in Nat
    BY DEF Cursor
  <1> QED BY <1>1, GenerationBegunType, BoundType

\* ensure_original takes the floor to CPU4 when the shader is missing.
LEMMA AfterShaderCheckType ==
    ASSUME NEW s \in Session PROVE AfterShaderCheck(s) \subseteq Session
  <1>1. IdentityRecorded(s) \in Session
    BY SessionOperations
  <1>2. Larger(IdentityRecorded(s).floor, Cpu4) \in 1..Modes
    BY <1>1, Modes3 DEF Larger, Session
  <1>3. ShaderMissing(s) \in Session
    BY <1>1, <1>2 DEF ShaderMissing, Session, Ipc
  <1> QED BY <1>3 DEF AfterShaderCheck

\* invalidate_cycle_before_source_recovery.
LEMMA CycleInvalidatedType ==
    ASSUME NEW s \in Session PROVE CycleInvalidated(s) \in Session
  <1>1. ProcessStopped(s) \in Session
    BY SessionOperations
  <1>2. [s EXCEPT !.ipc = "None"] \in Session
    BY DEF Session, Ipc
  <1> QED BY <1>1, <1>2 DEF CycleInvalidated

LEMMA HandleEnsureOutcome ==
    ASSUME TypeOK, NEW op, HandleEnsure(op)
    PROVE  Outcome(op)
  <1> DEFINE begun == GenerationBegun(rt, op.cursor.generation)
             bound == [begun EXCEPT !.session = op.cursor]
  <1>1. op \in Command /\ op.kind = "Ensure"
    BY HandlesType DEF HandleEnsure
  <1>2. op.cursor \in Cursor /\ op.revision \in Nat /\ op \in Command \cup {NoCommand}
    BY <1>1, CommandType DEF Cursored, Rendering
  <1>3. rt \in Session
    BY DEF TypeOK
  <1>4. begun \in Session /\ bound \in Session
    BY <1>2, <1>3, BoundSessionType
  <1>5. \/ Replies(op, "Ok", rt) \/ Replies(op, "Err", rt) \/ Replies(op, "Err", begun)
        \/ Launches(op, rt, bound, "Switch", op.revision, FALSE)
        \/ \E s \in AfterShaderCheck(bound) :
              \/ Replies(op, "Ok", IdentityRecorded(s))
              \/ NeutralizationFails(op, s)
              \/ Launches(op, rt, ProcessStopped(s), "Start", op.revision, FALSE)
    BY DEF HandleEnsure
  <1> HIDE DEF begun, bound
  <1>6. CASE Replies(op, "Ok", rt) \/ Replies(op, "Err", rt) \/ Replies(op, "Err", begun)
    BY <1>3, <1>4, <1>6, RepliesOutcome DEF Answer
  <1>7. CASE Launches(op, rt, bound, "Switch", op.revision, FALSE)
    BY <1>2, <1>3, <1>4, <1>7, LaunchesOutcome
  <1>8. ASSUME NEW s \in AfterShaderCheck(bound), Replies(op, "Ok", IdentityRecorded(s))
        PROVE  Outcome(op)
    <2>1. IdentityRecorded(s) \in Session
      BY <1>4, <1>8, AfterShaderCheckType, SessionOperations
    <2> QED BY <1>8, <2>1, RepliesOutcome DEF Answer
  <1>9. ASSUME NEW s \in AfterShaderCheck(bound),
               Launches(op, rt, ProcessStopped(s), "Start", op.revision, FALSE)
        PROVE  Outcome(op)
    <2>1. ProcessStopped(s) \in Session
      BY <1>4, <1>9, AfterShaderCheckType, SessionOperations
    <2> QED BY <1>2, <1>3, <1>9, <2>1, LaunchesOutcome
  <1>10. ASSUME NEW s \in AfterShaderCheck(bound), NeutralizationFails(op, s)
         PROVE  Outcome(op)
    BY <1>2, <1>4, <1>10, AfterShaderCheckType, NeutralizationFailsOutcome
  <1> QED BY <1>5, <1>6, <1>7, <1>8, <1>9, <1>10

LEMMA HandleConfigureOutcome ==
    ASSUME TypeOK, NEW op, HandleConfigure(op)
    PROVE  Outcome(op)
  <1> DEFINE clean == CycleInvalidated(rt)
             begun == GenerationBegun(clean, op.cursor.generation)
             bound == [begun EXCEPT !.session = op.cursor]
  <1>1. op \in Command /\ op.kind = "Configure"
    BY HandlesType DEF HandleConfigure
  <1>2. op.cursor \in Cursor /\ op.revision \in Nat /\ op \in Command \cup {NoCommand}
    BY <1>1, CommandType DEF Cursored, Rendering
  <1>3. clean \in Session
    BY CycleInvalidatedType DEF TypeOK
  <1>4. begun \in Session /\ bound \in Session
    BY <1>2, <1>3, BoundSessionType
  <1>5. \/ Replies(op, "Err", clean) \/ Replies(op, "Err", begun)
        \/ Launches(op, clean, bound, "Switch", op.revision, FALSE)
        \/ Replies(op, "Ok", bound) \/ Replies(op, "Err", bound)
        \/ bound.floor < Original /\ Launches(op, clean, Demoted(bound), "Start", op.revision, TRUE)
        \/ Replies(op, "Ok", IdentityRecorded(bound)) \/ Replies(op, "Err", IdentityRecorded(bound))
        \/ Launches(op, clean, ProcessStopped(bound), "Start", op.revision, FALSE)
    BY DEF HandleConfigure, ConfigureAnswers
  <1> HIDE DEF clean, begun, bound
  <1>6. IdentityRecorded(bound) \in Session /\ ProcessStopped(bound) \in Session
    BY <1>4, SessionOperations
  <1>7. CASE \/ Replies(op, "Err", clean) \/ Replies(op, "Err", begun)
             \/ Replies(op, "Ok", bound) \/ Replies(op, "Err", bound)
             \/ Replies(op, "Ok", IdentityRecorded(bound)) \/ Replies(op, "Err", IdentityRecorded(bound))
    BY <1>3, <1>4, <1>6, <1>7, RepliesOutcome DEF Answer
  <1>8. CASE \/ Launches(op, clean, bound, "Switch", op.revision, FALSE)
             \/ Launches(op, clean, ProcessStopped(bound), "Start", op.revision, FALSE)
    BY <1>2, <1>3, <1>4, <1>6, <1>8, LaunchesOutcome
  <1>9. CASE bound.floor < Original /\ Launches(op, clean, Demoted(bound), "Start", op.revision, TRUE)
    <2>1. bound.floor # Original
      BY <1>4, <1>9, ModesAssumption DEF Session, Original
    <2>2. Demoted(bound) \in Session
      BY <1>4, <2>1, SessionOperations
    <2> QED BY <1>2, <1>3, <1>9, <2>2, LaunchesOutcome
  <1> QED BY <1>5, <1>7, <1>8, <1>9

LEMMA HandleIntentOutcome ==
    ASSUME TypeOK, NEW op, HandleIntent(op)
    PROVE  Outcome(op)
  <1> DEFINE next == [rt.sync EXCEPT !.clock = @ + 1]
             resumed == [Synchronized(rt, rt.sync) EXCEPT !.eof = NoCursor]
             stale == \/ rt.sync = NoCursor \/ rt.session = NoCursor
                      \/ rt.sync.generation # op.cursor.generation
                      \/ op.revision # gate.revision
  <1>1. op \in Command \cup {NoCommand}
    BY HandlesType DEF HandleIntent
  <1>2. rt \in Session
    BY DEF TypeOK
  <1>3. ASSUME ~stale
        PROVE  /\ Synchronized(rt, next) \in Session /\ Synchronized(rt, rt.sync) \in Session
               /\ resumed \in Session /\ CycleRefused(rt, next) \in Session
    <2>1. rt.sync \in Cursor
      BY <1>2, <1>3 DEF Session
    <2>2. next \in Cursor
      BY <2>1 DEF Cursor
    <2>3. Synchronized(rt, rt.sync) \in Session
      BY <1>2, <2>1, SynchronizedType
    <2>4. resumed \in Session
      BY <2>3 DEF Session
    <2> QED BY <1>2, <2>2, <2>3, <2>4, SynchronizedType, CycleRefusedType
  <1>4. \/ stale /\ Replies(op, "Err", rt)
        \/ FallsBack(op, rt)
        \/ ~stale /\ \/ Replies(op, "Ok", Synchronized(rt, next)) \/ Replies(op, "Ok", resumed)
                     \/ Replies(op, "Ok", Synchronized(rt, rt.sync))
                     \/ Replies(op, "Err", CycleRefused(rt, next))
        \/ Replies(op, "Err", rt)
    BY DEF HandleIntent
  <1> HIDE DEF next, resumed, stale
  <1>5. CASE Replies(op, "Err", rt)
    BY <1>2, <1>5, RepliesOutcome DEF Answer
  <1>6. CASE FallsBack(op, rt)
    BY <1>1, <1>2, <1>6, FallsBackOutcome
  <1>7. CASE ~stale /\ \/ Replies(op, "Ok", Synchronized(rt, next)) \/ Replies(op, "Ok", resumed)
                       \/ Replies(op, "Ok", Synchronized(rt, rt.sync))
                       \/ Replies(op, "Err", CycleRefused(rt, next))
    BY <1>3, <1>7, RepliesOutcome DEF Answer
  <1> QED BY <1>4, <1>5, <1>6, <1>7

LEMMA HandleAdvanceOutcome ==
    ASSUME TypeOK, NEW op, HandleAdvance(op)
    PROVE  Outcome(op)
  <1> DEFINE clean == [rt EXCEPT !.ipc = "None"]
             bound == [GenerationBegun(clean, op.cursor.generation) EXCEPT !.session = op.cursor]
  <1>1. op \in Command /\ op.kind = "Advance"
    BY HandlesType DEF HandleAdvance
  <1>2. op.cursor \in Cursor /\ op.revision \in Nat /\ op \in Command \cup {NoCommand}
    BY <1>1, CommandType DEF Cursored
  <1>3. rt \in Session /\ clean \in Session
    BY DEF TypeOK, Session, Ipc
  <1>4. \/ Replies(op, "Err", rt) \/ Replies(op, "Stale", rt)
        \/ Replies(op, "Ok", Synchronized(clean, op.cursor))
        \/ Replies(op, "Err", clean) \/ Replies(op, "Err", CycleRefused(clean, op.cursor))
        \/ FallsBack(op, clean)
        \/ Launches(op, clean, bound, "Switch", op.revision, FALSE)
    BY DEF HandleAdvance
  <1> HIDE DEF clean
  <1>5. /\ bound \in Session /\ Synchronized(clean, op.cursor) \in Session
        /\ CycleRefused(clean, op.cursor) \in Session
    BY <1>2, <1>3, BoundSessionType, SynchronizedType, CycleRefusedType
  <1> HIDE DEF bound
  <1>6. CASE \/ Replies(op, "Err", rt) \/ Replies(op, "Stale", rt) \/ Replies(op, "Err", clean)
             \/ Replies(op, "Ok", Synchronized(clean, op.cursor))
             \/ Replies(op, "Err", CycleRefused(clean, op.cursor))
    BY <1>3, <1>5, <1>6, RepliesOutcome DEF Answer
  <1>7. CASE FallsBack(op, clean)
    BY <1>2, <1>3, <1>7, FallsBackOutcome
  <1>8. CASE Launches(op, clean, bound, "Switch", op.revision, FALSE)
    BY <1>2, <1>3, <1>5, <1>8, LaunchesOutcome
  <1> QED BY <1>4, <1>6, <1>7, <1>8

\* What an actor's step leaves alone besides: everything but its queues and its state.
ActorFrame == UNCHANGED <<gate, guard, media, closing, ended>>

\* Stop and Suspend.
LEMMA AbortingOutcome ==
    ASSUME TypeOK, NEW op, NEW kind, NEW s \in Session, Aborting(op, kind, s)
    PROVE  /\ rt' \in Session /\ published' \in Status
           /\ UNCHANGED launch
           /\ calls' \in [Callers -> Call]
           /\ \A k \in Callers : calls'[k].command = calls[k].command
           /\ QueueStep({})
           /\ ActorFrame
  <1> DEFINE others == Answered(deferred, "Stale")
  <1>1. calls \in [Callers -> Call] /\ \A k \in Callers : calls[k] \in Call
    BY DEF TypeOK
  <1>2. others \in [Callers -> Call] /\ \A k \in Callers : others[k].command = calls[k].command
    BY <1>1, AnsweredType DEF Answer
  <1>3. \A k \in Callers : /\ [calls[k] EXCEPT !.answer = "Ok"] \in Call
                           /\ [calls[k] EXCEPT !.answer = "Ok"].command = calls[k].command
    BY <1>1, AnsweredCallType DEF Answer
  <1>4. calls' = [k \in Callers |-> IF Awaits(calls[k], op) THEN [calls[k] EXCEPT !.answer = "Ok"]
                                    ELSE others[k]]
    BY DEF Aborting
  <1> HIDE DEF others
  <1>5. /\ calls' \in [Callers -> Call]
        /\ \A k \in Callers : calls'[k].command = calls[k].command
    BY <1>2, <1>3, <1>4
  <1>6. QueueStep({})
    BY ReadsChannelType, EmptyType DEF Aborting, QueueStep
  <1> QED BY <1>5, <1>6, ViewType DEF Aborting, ActorFrame

\* A step of the actor: it keeps the types, and every command that is anywhere
\* after it was somewhere before.
ActorOutcome ==
    /\ rt' \in Session /\ published' \in Status
    /\ launch' \in Launch \cup {NoLaunch}
    /\ launch' # NoLaunch => launch'.command \in Commands \cup {NoCommand}
    /\ calls' \in [Callers -> Call]
    /\ \A k \in Callers : calls'[k].command = calls[k].command
    /\ QueueStep({})
    /\ ActorFrame

\* The commands in the queues and in the actor's hands are commands.
LEMMA QueuedCommands ==
    ASSUME TypeOK
    PROVE  /\ Commands = ({calls[k].command : k \in Callers}
                           \cup Elements(channel) \cup Elements(deferred)
                           \cup (IF launch = NoLaunch THEN {} ELSE {launch.command})) \ {NoCommand}
           /\ (Elements(channel) \cup Elements(deferred)) \cap Command \subseteq Commands
           /\ launch # NoLaunch => /\ launch.command \in Commands \cup {NoCommand}
                                   /\ launch.command \in Command \cup {NoCommand}
                                   /\ launch.revision \in Nat /\ launch.kind \in {"Start", "Switch"}
                                   /\ launch.fallback \in BOOLEAN
  BY ControlNoneAssumption DEF Commands, Elements, TypeOK, Launch

\* A handler takes its command from a queue and replies or starts mpv for it.
LEMMA HandlerOutcome ==
    ASSUME TypeOK, NEW op, NEW kind, Handles(op, kind), Outcome(op)
    PROVE  ActorOutcome
  <1>1. op \in Command /\ op \in Elements(channel) \cup Elements(deferred)
    BY HandlesType
  <1>2. op \in Commands
    BY <1>1, QueuedCommands
  <1>3. QueueStep({}) /\ ActorFrame
    BY HandlesType DEF ActorFrame
  <1> QED BY <1>2, <1>3 DEF Outcome, ActorOutcome

LEMMA DeferOutcome ==
    ASSUME TypeOK, NEW op, Defer(op)
    PROVE  ActorOutcome
  <1>1. /\ op \in Command /\ op \in Elements(channel)
        /\ channel' \in Seq(Command) /\ Len(channel') <= Capacity
        /\ Elements(channel') \subseteq Elements(channel)
    BY ReadsChannelType DEF Defer
  <1>2. /\ calls \in [Callers -> Call] /\ deferred \in Seq(Command) /\ Len(deferred) <= Capacity
        /\ rt \in Session /\ published \in Status
    BY DEF TypeOK
  <1>3. CASE Len(deferred) < Capacity /\ deferred' = Append(deferred, op) /\ UNCHANGED calls
    <2>1. /\ deferred' \in Seq(Command) /\ Len(deferred') <= Capacity
          /\ Elements(deferred') \subseteq Elements(deferred) \cup {op}
      BY <1>1, <1>2, <1>3, AppendedType
    <2>2. QueueStep({})
      BY <1>1, <2>1 DEF QueueStep
    <2>3. launch' \in Launch \cup {NoLaunch}
          /\ (launch' # NoLaunch => launch'.command \in Commands \cup {NoCommand})
      BY QueuedCommands DEF Defer, TypeOK
    <2> QED BY <1>2, <1>3, <2>2, <2>3 DEF Defer, ActorOutcome, ActorFrame
  <1>4. CASE calls' = Answered(<<op>>, "Err") /\ UNCHANGED deferred
    <2>1. /\ calls' \in [Callers -> Call]
          /\ \A k \in Callers : calls'[k].command = calls[k].command
      BY <1>2, <1>4, AnsweredType DEF Answer
    <2>2. QueueStep({})
      BY <1>1, <1>2, <1>4 DEF QueueStep
    <2>3. launch' \in Launch \cup {NoLaunch}
          /\ (launch' # NoLaunch => launch'.command \in Commands \cup {NoCommand})
      BY QueuedCommands DEF Defer, TypeOK
    <2> QED BY <1>2, <2>1, <2>2, <2>3 DEF Defer, ActorOutcome, ActorFrame
  <1> QED BY <1>3, <1>4 DEF Defer

LEMMA HandleRecordSourceOutcome ==
    ASSUME TypeOK, NEW op, HandleRecordSource(op)
    PROVE  Outcome(op)
  <1>1. SourceRecorded(rt) \in Session
    BY SessionOperations DEF TypeOK
  <1> QED BY <1>1, RepliesOutcome DEF HandleRecordSource, Answer

LEMMA HandleSetProcessingOutcome ==
    ASSUME TypeOK, NEW op, HandleSetProcessing(op)
    PROVE  Outcome(op)
  <1>1. op \in Command \cup {NoCommand}
    BY HandlesType DEF HandleSetProcessing
  <1>2. rt \in Session
    BY DEF TypeOK
  <1>3. CASE Replies(op, "Ok", rt)
    BY <1>2, <1>3, RepliesOutcome DEF Answer
  <1>4. CASE NeutralizationFails(op, rt)
    BY <1>1, <1>2, <1>4, NeutralizationFailsOutcome
  <1> QED BY <1>3, <1>4 DEF HandleSetProcessing

LEMMA HandleOutcome ==
    ASSUME TypeOK, NEW op, Handle(op)
    PROVE  ActorOutcome
  <1>1. CASE Defer(op)
    BY <1>1, DeferOutcome
  <1>2. CASE HandleEnsure(op)
    BY <1>2, HandleEnsureOutcome, HandlerOutcome DEF HandleEnsure
  <1>3. CASE HandleConfigure(op)
    BY <1>3, HandleConfigureOutcome, HandlerOutcome DEF HandleConfigure
  <1>4. CASE HandleIntent(op)
    BY <1>4, HandleIntentOutcome, HandlerOutcome DEF HandleIntent
  <1>5. CASE HandleAdvance(op)
    BY <1>5, HandleAdvanceOutcome, HandlerOutcome DEF HandleAdvance
  <1>6. CASE HandleRecordSource(op)
    BY <1>6, HandleRecordSourceOutcome, HandlerOutcome DEF HandleRecordSource
  <1>7. CASE HandleSetProcessing(op)
    BY <1>7, HandleSetProcessingOutcome, HandlerOutcome DEF HandleSetProcessing
  <1>8. ASSUME NEW kind, NEW s \in Session, Aborting(op, kind, s) PROVE ActorOutcome
    <2>1. /\ launch' \in Launch \cup {NoLaunch}
          /\ launch' # NoLaunch => launch'.command \in Commands \cup {NoCommand}
      BY <1>8, AbortingOutcome, QueuedCommands DEF TypeOK
    <2> QED BY <1>8, <2>1, AbortingOutcome DEF ActorOutcome
  <1>9. CASE HandleStop(op)
    BY <1>8, <1>9, NewSessionType DEF HandleStop
  <1>10. CASE HandleSuspend(op)
    <2>1. Suspended(rt) \in Session
      BY SessionOperations DEF TypeOK
    <2> QED BY <1>8, <1>10, <2>1 DEF HandleSuspend
  <1> QED BY <1>1, <1>2, <1>3, <1>4, <1>5, <1>6, <1>7, <1>9, <1>10 DEF Handle

-----------------------------------------------------------------------------
(* Launches and ticks *)

\* A step that leaves the queues alone.
LEMMA IdleQueues ==
    ASSUME TypeOK, UNCHANGED <<channel, deferred>>
    PROVE  QueueStep({})
  BY DEF TypeOK, QueueStep

\* The end of a launch answers or goes on with the same command.
LEMMA LaunchOutcome ==
    ASSUME TypeOK, Launching, Outcome(launch.command)
    PROVE  ActorOutcome
  <1>1. launch.command \in Commands \cup {NoCommand}
    BY QueuedCommands DEF Launching
  <1> QED BY <1>1, IdleQueues DEF Launching, Outcome, ActorOutcome, ActorFrame

LEMMA LaunchEndsOutcome ==
    ASSUME TypeOK, LaunchEnds
    PROVE  ActorOutcome
  <1> DEFINE op == launch.command
  <1>1. Launching
    BY DEF LaunchEnds, LaunchSucceeds, LaunchNeutralizationFails, LaunchAbandoned, LaunchFails, SwitchCancelled, SwitchFails
  <1>2. /\ launch \in Launch /\ op \in Command \cup {NoCommand}
        /\ calls \in [Callers -> Call] /\ published \in Status
        /\ rt \in Session
    BY <1>1, QueuedCommands DEF Launching, TypeOK
  <1>3. SUFFICES Outcome(op)
    BY <1>1, LaunchOutcome
  <1>4. AnswersWithoutProcess \subseteq Answer
    BY DEF AnswersWithoutProcess, Answer
  <1>5. /\ ProcessStopped(rt) \in Session /\ IdentityRecorded(rt) \in Session
        /\ OriginalFailed(rt) \in Session
        /\ rt.floor # Original => Demoted(rt) \in Session
        /\ rt.session # NoCursor => Started(rt) \in Session
    BY <1>2, SessionOperations
  <1>6. ASSUME NEW s \in Session, rt' = s, UNCHANGED <<published, calls>>,
               \/ launch' = [launch EXCEPT !.fallback = TRUE]
               \/ launch' = [launch EXCEPT !.kind = "Start"]
               \/ launch' = [launch EXCEPT !.kind = "Start", !.fallback = TRUE]
        PROVE  Outcome(op)
    <2>1. launch' \in Launch /\ launch'.command = op
      BY <1>2, <1>6 DEF Launch
    <2> QED BY <1>2, <1>6, <2>1 DEF Outcome
  <1>7. CASE LaunchSucceeds
    <2>1. PICK answer \in {"Ok", "Err"} : Replies(op, answer, Started(rt))
      BY <1>7 DEF LaunchSucceeds, ConfigureAnswers
    <2> QED BY <1>5, <1>7, <2>1, RepliesOutcome DEF LaunchSucceeds, Answer
  <1>8. CASE LaunchAbandoned
    <2>1. PICK answer \in AnswersWithoutProcess :
             \/ Replies(op, answer, OriginalFailed(rt))
             \/ Replies(op, answer, IdentityRecorded(rt))
             \/ Replies(op, answer, rt)
      BY <1>8 DEF LaunchAbandoned
    <2> QED BY <1>2, <1>4, <1>5, <2>1, RepliesOutcome
  <1>9. CASE LaunchFails
    <2>1. CASE rt.floor = Original
      BY <1>4, <1>5, <1>9, <2>1, RepliesOutcome DEF LaunchFails
    <2>2. CASE rt.floor # Original
      BY <1>5, <1>6, <1>9, <2>2 DEF LaunchFails
    <2> QED BY <2>1, <2>2
  <1>10. CASE SwitchCancelled
    BY <1>5, <1>10, RepliesOutcome DEF SwitchCancelled, Answer
  <1>11. CASE SwitchFails
    <2>1. CASE LaunchedFor("Advance")
      BY <1>5, <1>11, <2>1, RepliesOutcome DEF SwitchFails, Answer
    <2>2. CASE ~LaunchedFor("Advance")
      BY <1>5, <1>6, <1>11, <2>2 DEF SwitchFails
    <2> QED BY <2>1, <2>2
  <1>12. CASE LaunchNeutralizationFails
    <2>1. /\ Started(rt) \in Session /\ Started(rt).floor = rt.floor
          /\ rt.floor # Original
      BY <1>2, <1>5, <1>12, ModesAssumption
         DEF LaunchNeutralizationFails, Started, Session, Original
    <2>2. Demoted(Started(rt)) \in Session
      BY <2>1, SessionOperations
    <2> QED BY <1>6, <1>12, <2>2 DEF LaunchNeutralizationFails
  <1> QED BY <1>7, <1>8, <1>9, <1>10, <1>11, <1>12 DEF LaunchEnds

LEMMA TickOutcome ==
    ASSUME TypeOK, NEW s \in Session, Tick(s)
    PROVE  ActorOutcome
  <1>1. launch' \in Launch \cup {NoLaunch}
        /\ (launch' # NoLaunch => launch'.command \in Commands \cup {NoCommand})
    BY QueuedCommands DEF Tick, TypeOK
  <1>2. QueueStep({})
    BY IdleQueues DEF Tick
  <1> QED BY <1>1, <1>2, ViewType DEF Tick, ActorOutcome, ActorFrame, TypeOK

LEMMA TicksOutcome ==
    ASSUME TypeOK, Ticks
    PROVE  ActorOutcome
  <1>1. /\ \A next \in Ipc : [rt EXCEPT !.ipc = next] \in Session
        /\ \A eof \in Cursor \cup {NoCursor}, next \in Ipc :
              [rt EXCEPT !.eof = eof, !.ipc = next] \in Session
        /\ rt.ipc \in Ipc /\ rt.sync \in Cursor \cup {NoCursor} /\ rt \in Session
    BY DEF TypeOK, Session
  <1>7. \A next \in Ipc : [IdentityRecorded(rt) EXCEPT !.ipc = next] \in Session
    <2>1. IdentityRecorded(rt) \in Session
      BY <1>1, SessionOperations
    <2> QED BY <2>1 DEF Session
  <1>2. CASE ProbeBegins
    BY <1>1, <1>2, TickOutcome DEF ProbeBegins, Ipc
  <1>3. CASE ProbeEnds
    BY <1>1, <1>3, <1>7, TickOutcome DEF ProbeEnds, Ipc
  <1>4. CASE ShaderConfirmed
    BY <1>1, <1>4, TickOutcome DEF ShaderConfirmed, Ipc
  <1>5. CASE FramePresented
    BY <1>5, <1>7, TickOutcome DEF FramePresented, Ipc
  <1>6. CASE EofObserved
    <2> DEFINE next == IF rt.ipc = "Probe" THEN "None" ELSE rt.ipc
    <2>1. next \in Ipc
      BY <1>1 DEF Ipc
    <2>2. PICK eof \in {rt.sync, NoCursor} : Tick([rt EXCEPT !.eof = eof, !.ipc = next])
      BY <1>6 DEF EofObserved
    <2> HIDE DEF next
    <2> QED BY <1>1, <2>1, <2>2, TickOutcome
  <1> QED BY <1>2, <1>3, <1>4, <1>5, <1>6 DEF Ticks

LEMMA RendererFailsOutcome ==
    ASSUME TypeOK, RendererFails
    PROVE  ActorOutcome
  <1>1. Outcome(NoCommand)
    BY FallsBackOutcome DEF RendererFails, TypeOK
  <1>2. QueueStep({})
    BY IdleQueues DEF RendererFails
  <1> QED BY <1>1, <1>2 DEF RendererFails, Outcome, ActorOutcome, ActorFrame

\* The end of the actor is the one step of it that changes ended.
LEMMA ActorEndsOutcome ==
    ASSUME TypeOK, ActorEnds
    PROVE  /\ rt' \in Session /\ published' \in Status
           /\ launch' = NoLaunch
           /\ calls' \in [Callers -> Call]
           /\ \A k \in Callers : calls'[k].command = calls[k].command
           /\ QueueStep({})
           /\ UNCHANGED <<gate, guard, media, closing>> /\ ended' = TRUE
  <1>1. calls \in [Callers -> Call]
    BY DEF TypeOK
  <1>2. /\ calls' \in [Callers -> Call]
        /\ \A k \in Callers : calls'[k].command = calls[k].command
    BY <1>1, AnsweredType DEF ActorEnds, Answer
  <1>3. QueueStep({})
    BY EmptyType DEF ActorEnds, QueueStep
  <1> QED BY <1>2, <1>3, NewSessionType, ViewType DEF ActorEnds

-----------------------------------------------------------------------------
(* The steps of the callers *)

\* The commands of the callers stay, or are new ones without a lease.
KeepsCommands ==
    \A k \in Callers : calls'[k].command = calls[k].command \/ calls'[k].command.revision = 0

\* A call with a command goes from one place of its course to another.
LEMMA CourseType ==
    ASSUME NEW call \in Call, call.pc \in Working, NEW pc \in Working \cup Returned
    PROVE  /\ [call EXCEPT !.pc = pc] \in Call
           /\ [call EXCEPT !.pc = pc].command = call.command
           /\ call.command \in Command
  BY DEF Call, Working

\* The composition of a command.
LEMMA ComposedType ==
    ASSUME TypeOK, NEW k \in Callers, NEW kind, NEW cursor, NEW cleanup \in BOOLEAN,
           \/ /\ kind \in Cursored /\ cursor \in Cursor
              /\ kind = "Advance" => published.eof \in Cursor
           \/ kind \in Controls \cup {"Shutdown"} /\ cursor = NoCursor
    PROVE  /\ Composed(k, kind, cursor, cleanup) \in Call
           /\ Composed(k, kind, cursor, cleanup).command.revision = 0
  <1> DEFINE op == [caller |-> k, kind |-> kind, cursor |-> cursor, epoch |-> published.epoch,
                    eof |-> IF kind = "Advance" THEN published.eof ELSE NoCursor, revision |-> 0]
  <1>1. published.epoch \in Nat /\ published.eof \in Cursor \cup {NoCursor}
    BY DEF TypeOK, Status
  <1>2. ASSUME kind \in Cursored, cursor \in Cursor,
               kind = "Advance" => published.eof \in Cursor
        PROVE  op \in Command
    BY <1>1, <1>2 DEF CursoredCommand, AdvanceCommand, Command
  <1>3. ASSUME kind \in Controls \cup {"Shutdown"}, cursor = NoCursor PROVE op \in Command
    BY <1>1, <1>3 DEF PlainCommand, Command, Controls
  <1>4. op \in Command
    BY <1>2, <1>3
  <1>5. /\ Composed(k, kind, cursor, cleanup).command = op
        /\ Composed(k, kind, cursor, cleanup)
             = [pc |-> "Composed", answer |-> "None", cleanup |-> cleanup, command |-> op]
        /\ op.revision = 0
    BY DEF Composed
  <1> HIDE DEF op
  <1> QED BY <1>4, <1>5 DEF Call, Working, Answer

\* The cursors of Requests are valid for their kind of command.
LEMMA RequestsType ==
    ASSUME TypeOK, NEW kind \in CommandKinds, NEW cursor \in Requests(kind)
    PROVE  \/ /\ kind \in Cursored /\ cursor \in Cursor
              /\ kind = "Advance" => published.eof \in Cursor
           \/ kind \in Controls \cup {"Shutdown"} /\ cursor = NoCursor
  <1>1. /\ published.identity \in Cursor \cup {NoCursor} /\ published.eof \in Cursor \cup {NoCursor}
        /\ media.generation \in Nat /\ media.loop \in Nat
    BY DEF TypeOK, Status
  <1>2. CASE kind \in Rendering
    <2>1. MediaCursor \in Cursor
      BY <1>1 DEF MediaCursor, Cursor
    <2>2. cursor = MediaCursor /\ kind # "Advance"
      BY <1>2 DEF Requests, Rendering, Intents
    <2> QED BY <1>2, <2>1, <2>2 DEF Cursored
  <1>3. CASE kind \in Intents
    <2>1. published.identity \in Cursor
      BY <1>1, <1>3 DEF Requests, Playing, Rendering, Intents
    <2>2. [published.identity EXCEPT !.clock = @ + 1] \in Cursor
      BY <2>1 DEF Cursor
    <2> QED BY <1>3, <2>1, <2>2 DEF Requests, Rendering, Intents, Cursored
  <1>4. CASE kind = "Advance"
    <2>1. cursor \in AfterEof(published.eof)
      BY <1>4 DEF Requests, Rendering
    <2>2. published.eof \in Cursor
      BY <1>1, <2>1 DEF AfterEof, Finished, LateEof
    <2>3. /\ [published.eof EXCEPT !.loop = @ + 1] \in Cursor
          /\ [generation |-> published.eof.generation + 1, clock |-> published.eof.clock + 1,
              loop |-> 0] \in Cursor
      BY <2>2 DEF Cursor
    <2> QED BY <1>4, <2>1, <2>2, <2>3 DEF AfterEof, Cursored
  <1>5. CASE kind \in Controls \cup {"Shutdown"}
    BY <1>5 DEF Requests, Rendering, Intents, Controls
  <1> QED BY <1>2, <1>3, <1>4, <1>5 DEF CommandKinds, Cursored

\* The end of a command, or the first command of the release that follows it.
LEMMA EndsType ==
    ASSUME TypeOK, NEW k \in Callers, calls[k].pc \in Working, NEW outcome \in Returned,
           Ends(k, outcome)
    PROVE  /\ calls' \in [Callers -> Call] /\ KeepsCommands
           /\ guard' \in Callers \cup {NoCaller}
  <1>1. /\ calls \in [Callers -> Call] /\ calls[k] \in Call
        /\ guard \in Callers \cup {NoCaller}
    BY DEF TypeOK
  <1>2. CASE calls' = [calls EXCEPT ![k].pc = outcome] /\ Released(k)
    <2>1. calls'[k] = [calls[k] EXCEPT !.pc = outcome]
      BY <1>1, <1>2
    <2>2. calls'[k] \in Call /\ calls'[k].command = calls[k].command
      BY <1>1, <2>1, CourseType
    <2> QED BY <1>1, <1>2, <2>2 DEF KeepsCommands, Released
  <1>3. ASSUME NEW next \in {"RecordSource", "Stop"},
               calls' = [calls EXCEPT ![k] = Composed(k, next, NoCursor, TRUE)], UNCHANGED guard
        PROVE  /\ calls' \in [Callers -> Call] /\ KeepsCommands
               /\ guard' \in Callers \cup {NoCaller}
    <2>1. /\ Composed(k, next, NoCursor, TRUE) \in Call
          /\ Composed(k, next, NoCursor, TRUE).command.revision = 0
      BY <1>3, ComposedType DEF Controls
    <2> QED BY <1>1, <1>3, <2>1 DEF KeepsCommands
  <1> QED BY <1>2, <1>3 DEF Ends

\* A caller goes on with its command.
LEMMA GoesOnType ==
    ASSUME TypeOK, NEW k \in Callers, calls[k].pc \in Working, NEW pc \in Working \cup Returned,
           calls' = [calls EXCEPT ![k].pc = pc]
    PROVE  /\ calls' \in [Callers -> Call]
           /\ \A j \in Callers : calls'[j].command = calls[j].command
           /\ KeepsCommands
  <1>1. calls \in [Callers -> Call] /\ calls[k] \in Call
    BY DEF TypeOK
  <1>2. calls'[k] = [calls[k] EXCEPT !.pc = pc]
    BY <1>1
  <1>3. calls'[k] \in Call /\ calls'[k].command = calls[k].command
    BY <1>1, <1>2, CourseType
  <1> QED BY <1>1, <1>3 DEF KeepsCommands

CallCommands == {calls[k].command : k \in Callers}

\* What the steps of the callers have in common.
CallerTypes ==
    /\ gate' \in Gate
    /\ guard' \in Callers \cup {NoCaller}
    /\ media' \in [generation : Nat, loop : Nat]
    /\ calls' \in [Callers -> Call]
    /\ closing' \in BOOLEAN
    /\ QueueStep(CallCommands \cap Command)
    /\ UNCHANGED <<rt, launch, published, ended>>

\* The new lease of a command whose cursor is registered.
LeaseTaken(k) ==
    LET op == calls[k].command
    IN  /\ op \in Command /\ op.cursor \in Cursor
        /\ CanRegister(gate, op.cursor)
        /\ gate' = Registered(gate, op.cursor)
        /\ calls'[k].command = [op EXCEPT !.revision = gate'.revision]
        /\ \A j \in Callers \ {k} : calls'[j].command = calls[j].command

\* The three ways in which a caller moves revisions.
RevisionStep ==
    \/ UNCHANGED gate /\ KeepsCommands
    \/ /\ gate'.revision = gate.revision + 1
       /\ \A k \in Callers : calls'[k].command = calls[k].command
    \/ \E k \in Callers : LeaseTaken(k)

LEMMA IdleCallerQueues ==
    ASSUME TypeOK, UNCHANGED <<channel, deferred>>
    PROVE  QueueStep(CallCommands \cap Command)
  BY DEF TypeOK, QueueStep

LEMMA EnterOutcome ==
    ASSUME TypeOK, NEW k \in Callers, Enter(k)
    PROVE  CallerTypes /\ RevisionStep
  <1>1. PICK kind \in Kinds \ {"Complete"} :
           /\ guard' = IF Guarded(kind) THEN k ELSE guard
           /\ \E cursor \in Requests(kind) :
                 calls' = [calls EXCEPT ![k] = Composed(k, kind, cursor, FALSE)]
    BY DEF Enter
  <1>2. PICK cursor \in Requests(kind) :
           calls' = [calls EXCEPT ![k] = Composed(k, kind, cursor, FALSE)]
    BY <1>1
  <1>3. kind \in CommandKinds
    BY <1>1, KindsAssumption
  <1>4. /\ Composed(k, kind, cursor, FALSE) \in Call
        /\ Composed(k, kind, cursor, FALSE).command.revision = 0
    <2>1. \/ /\ kind \in Cursored /\ cursor \in Cursor
             /\ kind = "Advance" => published.eof \in Cursor
          \/ kind \in Controls \cup {"Shutdown"} /\ cursor = NoCursor
      BY <1>2, <1>3, RequestsType
    <2> QED BY <2>1, ComposedType
  <1>5. calls' \in [Callers -> Call] /\ KeepsCommands
    BY <1>2, <1>4 DEF TypeOK, KeepsCommands
  <1>6. UNCHANGED <<gate, media, closing, channel, deferred, rt, launch, published, ended>>
    BY DEF Enter, actorVars
  <1>7. guard' \in Callers \cup {NoCaller}
    BY <1>1 DEF TypeOK
  <1> QED BY <1>5, <1>6, <1>7, IdleCallerQueues DEF CallerTypes, RevisionStep, TypeOK

LEMMA CompleteOutcome ==
    ASSUME TypeOK, NEW k \in Callers, Complete(k)
    PROVE  CallerTypes /\ RevisionStep
  <1>1. /\ calls \in [Callers -> Call] /\ calls[k] \in Call /\ calls[k].pc = "Idle"
        /\ calls' = [calls EXCEPT ![k].pc = "Done"]
    BY DEF TypeOK, Complete
  <1>2. calls'[k] = [calls[k] EXCEPT !.pc = "Done"]
    BY <1>1
  <1>3. calls'[k] \in Call /\ calls'[k].command = calls[k].command
    BY <1>1, <1>2 DEF Call, Working, Returned
  <1>4. calls' \in [Callers -> Call] /\ KeepsCommands
    BY <1>1, <1>3 DEF KeepsCommands
  <1>5. media' \in [generation : Nat, loop : Nat]
    BY DEF Complete, TypeOK
  <1>6. UNCHANGED <<gate, guard, closing, channel, deferred, rt, launch, published, ended>>
    BY DEF Complete, actorVars
  <1> QED BY <1>4, <1>5, <1>6, IdleCallerQueues DEF CallerTypes, RevisionStep, TypeOK

LEMMA ReceiveOutcome ==
    ASSUME TypeOK, NEW k \in Callers, Receive(k) \/ TimeOut(k)
    PROVE  CallerTypes /\ RevisionStep
  <1>1. calls[k] \in Call /\ calls[k].pc = "Waiting"
    BY DEF TypeOK, Receive, TimeOut
  <1>2. PICK outcome \in Returned : Ends(k, outcome)
    BY DEF Receive, TimeOut, Returned
  <1>3. /\ calls' \in [Callers -> Call] /\ KeepsCommands
        /\ guard' \in Callers \cup {NoCaller}
    BY <1>1, <1>2, EndsType DEF Working
  <1>4. media' \in [generation : Nat, loop : Nat]
    <2>1. media \in [generation : Nat, loop : Nat]
      BY DEF TypeOK
    <2>2. CASE TimeOut(k)
      BY <2>1, <2>2 DEF TimeOut
    <2>3. CASE Receive(k)
      <3>1. calls[k].command \in Command
        BY <1>1, CourseType DEF Working
      <3>2. calls[k].command.kind = "Advance" =>
               [generation |-> calls[k].command.cursor.generation,
                loop |-> calls[k].command.cursor.loop] \in [generation : Nat, loop : Nat]
        BY <3>1, CommandType DEF Cursored
      <3>3. [generation |-> media.generation + 1, loop |-> 0] \in [generation : Nat, loop : Nat]
        BY <2>1
      <3>4. MediaAfter(calls[k]) \subseteq [generation : Nat, loop : Nat]
        BY <2>1, <3>2, <3>3 DEF MediaAfter
      <3> QED BY <2>3, <3>4 DEF Receive
    <2> QED BY <2>2, <2>3
  <1>5. UNCHANGED <<gate, closing, channel, deferred, rt, launch, published, ended>>
    BY DEF Receive, TimeOut, actorVars
  <1> QED BY <1>3, <1>4, <1>5, IdleCallerQueues DEF CallerTypes, RevisionStep, TypeOK

LEMMA RegisterOutcome ==
    ASSUME TypeOK, NEW k \in Callers, Register(k)
    PROVE  CallerTypes /\ RevisionStep
  <1> DEFINE op == calls[k].command
  <1>1. /\ calls \in [Callers -> Call] /\ calls[k] \in Call
        /\ calls[k].pc = "Composed" /\ calls[k].pc \in Working
        /\ op.kind \in Cursored /\ gate \in Gate /\ guard \in Callers \cup {NoCaller}
    BY DEF TypeOK, Register, Working
  <1>2. op \in Command /\ op.cursor \in Cursor /\ op.cursor.generation \in Nat
    BY <1>1, CourseType, CommandType DEF Returned
  <1>3. UNCHANGED <<media, closing, channel, deferred, rt, launch, published, ended>>
    BY DEF Register, actorVars
  <1>4. CASE Ends(k, "Stale") /\ UNCHANGED gate
    <2>1. /\ calls' \in [Callers -> Call] /\ KeepsCommands
          /\ guard' \in Callers \cup {NoCaller}
      BY <1>1, <1>4, EndsType DEF Returned
    <2> QED BY <1>3, <1>4, <2>1, IdleCallerQueues DEF CallerTypes, RevisionStep, TypeOK
  <1>5. ASSUME CanRegister(gate, op.cursor),
               gate' = Registered(gate, op.cursor),
               calls' = [calls EXCEPT ![k].pc = IF op.kind = "Ensure" THEN "Leased" ELSE "Ready",
                                      ![k].command.revision = gate'.revision],
               guard' \in Callers \cup {NoCaller}
        PROVE  CallerTypes /\ RevisionStep
    <2> DEFINE pc == IF op.kind = "Ensure" THEN "Leased" ELSE "Ready"
               leased == [op EXCEPT !.revision = gate'.revision]
    <2>1. gate' \in Gate
      BY <1>1, <1>2, <1>5, GateOperations
    <2>2. leased \in Command
      BY <1>2, <2>1 DEF Gate, Command, CursoredCommand, AdvanceCommand, PlainCommand
    <2>3. calls'[k] = [[calls[k] EXCEPT !.pc = pc] EXCEPT !.command = leased]
      BY <1>1, <1>5
    <2>4. [calls[k] EXCEPT !.pc = pc] \in Call
      BY <1>1, CourseType DEF Working
    <2> HIDE DEF leased
    <2>5. calls'[k] \in Call /\ calls'[k].command = leased
      BY <1>1, <2>2, <2>3, <2>4 DEF Call, Working, Returned
    <2>6. calls' \in [Callers -> Call] /\ \A j \in Callers \ {k} : calls'[j] = calls[j]
      BY <1>1, <1>5, <2>5
    <2>7. LeaseTaken(k)
      BY <1>2, <1>5, <2>5, <2>6 DEF LeaseTaken, leased
    <2> QED BY <1>3, <1>5, <2>1, <2>6, <2>7, IdleCallerQueues
            DEF CallerTypes, RevisionStep, TypeOK
  <1>6. \/ Ends(k, "Stale") /\ UNCHANGED gate
        \/ /\ CanRegister(gate, op.cursor) /\ gate' = Registered(gate, op.cursor)
           /\ calls' = [calls EXCEPT ![k].pc = IF op.kind = "Ensure" THEN "Leased" ELSE "Ready",
                                     ![k].command.revision = gate'.revision]
           /\ Released(k) \/ UNCHANGED guard
    BY DEF Register
  <1>7. Released(k) \/ UNCHANGED guard => guard' \in Callers \cup {NoCaller}
    BY <1>1 DEF Released
  <1> QED BY <1>4, <1>5, <1>6, <1>7

LEMMA ValidateOutcome ==
    ASSUME TypeOK, NEW k \in Callers, Validate(k)
    PROVE  CallerTypes /\ RevisionStep
  <1>1. calls[k].pc \in Working
    BY DEF Validate, Working
  <1>2. PICK pc \in {"Ready", "Stale"} : calls' = [calls EXCEPT ![k].pc = pc]
    BY DEF Validate
  <1>3. calls' \in [Callers -> Call] /\ KeepsCommands
    BY <1>1, <1>2, GoesOnType DEF Working, Returned
  <1>4. UNCHANGED <<gate, guard, media, closing, channel, deferred, rt, launch, published, ended>>
    BY DEF Validate, actorVars
  <1> QED BY <1>3, <1>4, IdleCallerQueues DEF CallerTypes, RevisionStep, TypeOK

\* enqueue and enqueue_control: the command of a caller enters the channel.
LEMMA EnqueuedType ==
    ASSUME TypeOK, NEW k \in Callers, calls[k].pc \in Working, Enqueued(k), UNCHANGED deferred
    PROVE  QueueStep(CallCommands \cap Command)
  <1>1. calls[k].command \in CallCommands \cap Command
    BY CourseType DEF TypeOK, CallCommands, Returned
  <1>2. /\ channel' \in Seq(Command) /\ Len(channel') <= Capacity
        /\ Elements(channel') \subseteq Elements(channel) \cup {calls[k].command}
    BY <1>1, AppendedType DEF TypeOK, Enqueued
  <1> QED BY <1>1, <1>2 DEF TypeOK, QueueStep

LEMMA SendsOutcome ==
    ASSUME TypeOK, NEW k \in Callers, TrySend(k) \/ Send(k)
    PROVE  CallerTypes /\ RevisionStep
  <1>1. calls[k].pc \in Working
    BY DEF TrySend, Send, Working
  <1>2. UNCHANGED <<gate, media, closing, deferred, rt, launch, published, ended>>
    BY DEF TrySend, Send
  <1>3. CASE UNCHANGED channel /\ Ends(k, "Failed")
    <2>1. /\ calls' \in [Callers -> Call] /\ KeepsCommands
          /\ guard' \in Callers \cup {NoCaller}
      BY <1>1, <1>3, EndsType DEF Returned
    <2> QED BY <1>2, <1>3, <2>1, IdleCallerQueues DEF CallerTypes, RevisionStep, TypeOK
  <1>4. ASSUME NEW pc \in {"Waiting", "Publishing"},
               Enqueued(k), calls' = [calls EXCEPT ![k].pc = pc], UNCHANGED guard
        PROVE  CallerTypes /\ RevisionStep
    <2>1. calls' \in [Callers -> Call] /\ KeepsCommands
      BY <1>1, <1>4, GoesOnType DEF Working
    <2>2. QueueStep(CallCommands \cap Command)
      BY <1>1, <1>2, <1>4, EnqueuedType
    <2> QED BY <1>2, <1>4, <2>1, <2>2 DEF CallerTypes, RevisionStep, TypeOK
  <1> QED BY <1>3, <1>4 DEF TrySend, Send

LEMMA LockOutcome ==
    ASSUME TypeOK, NEW k \in Callers, Lock(k)
    PROVE  CallerTypes /\ RevisionStep
  <1>1. calls[k].pc \in Working
    BY DEF Lock, Working
  <1>2. UNCHANGED <<gate, media, closing, channel, deferred, rt, launch, published, ended>>
    BY DEF Lock, actorVars
  <1>3. /\ calls' \in [Callers -> Call] /\ KeepsCommands
        /\ guard' \in Callers \cup {NoCaller}
    <2>1. CASE calls' = [calls EXCEPT ![k].pc = "Sending"] /\ UNCHANGED guard
      BY <1>1, <2>1, GoesOnType DEF Working, TypeOK
    <2>2. CASE Ends(k, "Failed")
      BY <1>1, <2>2, EndsType DEF Returned
    <2> QED BY <2>1, <2>2 DEF Lock
  <1> QED BY <1>2, <1>3, IdleCallerQueues DEF CallerTypes, RevisionStep, TypeOK

\* The steps that advance the revision without registering a cursor.
LEMMA CancelsOutcome ==
    ASSUME TypeOK, NEW k \in Callers, Publish(k) \/ CancelInflight(k)
    PROVE  CallerTypes /\ RevisionStep
  <1>1. calls[k].pc \in Working
    BY DEF Publish, CancelInflight, Working
  <1>2. PICK pc \in {"Waiting", "Closing"} : calls' = [calls EXCEPT ![k].pc = pc]
    BY DEF Publish, CancelInflight
  <1>3. /\ calls' \in [Callers -> Call]
        /\ \A j \in Callers : calls'[j].command = calls[j].command
    BY <1>1, <1>2, GoesOnType DEF Working
  <1>4. UNCHANGED <<guard, media, closing, channel, deferred, rt, launch, published, ended>>
    BY DEF Publish, CancelInflight, actorVars
  <1>5. gate \in Gate /\ media.generation \in Nat
    BY DEF TypeOK
  <1>6. gate' = Cancelled(gate) \/ gate' = StopPublished(gate, media.generation)
    BY DEF Publish, CancelInflight
  <1>7. \E cursor \in Cursor : TRUE
    <2>1. [generation |-> 0, clock |-> 0, loop |-> 0] \in Cursor
      BY DEF Cursor
    <2> QED BY <2>1
  <1>8. gate' \in Gate /\ gate'.revision = gate.revision + 1
    BY <1>5, <1>6, <1>7, GateOperations, RevisionsGrow
  <1> QED BY <1>3, <1>4, <1>8, IdleCallerQueues DEF CallerTypes, RevisionStep, TypeOK

LEMMA ShutdownOutcome ==
    ASSUME TypeOK, NEW k \in Callers, RequestShutdown(k) \/ Join(k)
    PROVE  CallerTypes /\ RevisionStep
  <1>1. calls[k].pc \in Working
    BY DEF RequestShutdown, Join, Working
  <1>2. /\ closing' \in BOOLEAN
        /\ UNCHANGED <<gate, guard, media, channel, deferred, rt, launch, published, ended>>
    BY DEF RequestShutdown, Join, actorVars, TypeOK
  <1>3. calls' \in [Callers -> Call] /\ KeepsCommands
    <2>1. CASE RequestShutdown(k)
      BY <2>1 DEF RequestShutdown, TypeOK, KeepsCommands
    <2>2. CASE Join(k)
      BY <1>1, <2>2, GoesOnType DEF Join, Returned
    <2> QED BY <2>1, <2>2
  <1> QED BY <1>2, <1>3, IdleCallerQueues DEF CallerTypes, RevisionStep, TypeOK

LEMMA CallerOutcome ==
    ASSUME TypeOK, NEW k \in Callers, Enter(k) \/ Complete(k) \/ CallerStep(k) \/ TimeOut(k)
    PROVE  CallerTypes /\ RevisionStep
  BY EnterOutcome, CompleteOutcome, RegisterOutcome, ValidateOutcome, SendsOutcome, LockOutcome,
     CancelsOutcome, ReceiveOutcome, ShutdownOutcome DEF CallerStep

-----------------------------------------------------------------------------
(* The inductive invariant *)

\* No lease is ahead of the gate, and the current one is live.  A command that
\* has none yet holds revision 0, which is never current.
LeaseInv ==
    /\ gate.revision >= 1
    /\ \A op \in Commands : op.revision <= gate.revision
    /\ CurrentOperationIsLive

IInv == TypeOK /\ LeaseInv

LEMMA CommandsType ==
    ASSUME TypeOK
    PROVE  Commands \subseteq Command /\ \A op \in Commands : op.revision \in Nat
  <1>1. \A k \in Callers : calls[k].command \in Command \cup {NoCommand}
    BY DEF TypeOK, Call
  <1>2. Elements(channel) \subseteq Command /\ Elements(deferred) \subseteq Command
    BY ElementOfSeq, LenProperties DEF TypeOK, Elements
  <1>3. Commands \subseteq Command
    BY <1>1, <1>2, QueuedCommands
  <1> QED BY <1>3, CommandType

\* The commands after a step, but for those in X, existed before it.
LEMMA CommandsAfter ==
    ASSUME TypeOK, NEW X,
           \A k \in Callers : calls'[k].command \in Commands \cup {NoCommand} \cup X,
           QueueStep(CallCommands \cap Command),
           launch' # NoLaunch => launch'.command \in Commands \cup {NoCommand}
    PROVE  Commands' \subseteq Commands \cup X
  <1>1. (Elements(channel) \cup Elements(deferred) \cup CallCommands) \cap Command \subseteq Commands
    BY QueuedCommands, ControlNoneAssumption DEF CallCommands
  <1>2. /\ \A i \in DOMAIN channel' : channel'[i] \in Command
        /\ \A i \in DOMAIN deferred' : deferred'[i] \in Command
    BY ElementOfSeq, LenProperties DEF QueueStep
  <1>3. /\ \A i \in DOMAIN channel' : channel'[i] \in Commands
        /\ \A i \in DOMAIN deferred' : deferred'[i] \in Commands
    BY <1>1, <1>2 DEF QueueStep, Elements
  <1> QED BY <1>3 DEF Commands

\* While the gate stays as it is, only new commands without a lease may appear.
LEMMA GateStays ==
    ASSUME IInv, UNCHANGED gate, NEW X, \A op \in X : op.revision = 0,
           Commands' \subseteq Commands \cup X
    PROVE  LeaseInv'
  <1>1. gate.revision \in Nat /\ gate.revision >= 1
    BY DEF IInv, LeaseInv, TypeOK, Gate
  <1>2. \A op \in Commands' : op \in Commands \/ op.revision = 0
    OBVIOUS
  <1> QED BY <1>1, <1>2 DEF IInv, LeaseInv, CurrentOperationIsLive, Tombstoned

LEMMA ActorPreserves ==
    ASSUME IInv, ActorOutcome
    PROVE  IInv'
  <1>1. TypeOK'
    BY DEF IInv, ActorOutcome, ActorFrame, QueueStep, TypeOK
  <1>2. QueueStep(CallCommands \cap Command)
    BY DEF ActorOutcome, QueueStep
  <1>3. \A k \in Callers : calls[k].command \in Commands \cup {NoCommand}
    BY QueuedCommands DEF IInv
  <1>4. Commands' \subseteq Commands \cup {}
    <2>1. \A k \in Callers : calls'[k].command \in Commands \cup {NoCommand} \cup {}
      BY <1>3 DEF ActorOutcome
    <2>2. launch' # NoLaunch => launch'.command \in Commands \cup {NoCommand}
      BY DEF ActorOutcome
    <2> QED BY <1>2, <2>1, <2>2, CommandsAfter DEF IInv
  <1>5. LeaseInv'
    BY <1>4, GateStays DEF ActorOutcome, ActorFrame
  <1> QED BY <1>1, <1>5 DEF IInv

LEMMA CallerPreserves ==
    ASSUME IInv, CallerTypes, RevisionStep
    PROVE  IInv'
  <1>1. TypeOK'
    BY DEF IInv, CallerTypes, QueueStep, TypeOK
  <1>2. QueueStep(CallCommands \cap Command)
    BY DEF CallerTypes
  <1>3. /\ \A k \in Callers : calls[k].command \in Commands \cup {NoCommand}
        /\ launch' # NoLaunch => launch'.command \in Commands \cup {NoCommand}
        /\ Commands \subseteq Command /\ \A op \in Commands : op.revision \in Nat
        /\ TypeOK /\ gate \in Gate /\ gate.revision \in Nat /\ gate.revision >= 1
        /\ \A op \in Commands : op.revision <= gate.revision
    BY QueuedCommands, CommandsType DEF IInv, LeaseInv, CallerTypes, TypeOK, Gate
  <1>4. CASE UNCHANGED gate /\ KeepsCommands
    <2> DEFINE X == {calls'[k].command : k \in {k \in Callers : calls'[k].command.revision = 0}}
    <2>1. \A k \in Callers : calls'[k].command \in Commands \cup {NoCommand} \cup X
      BY <1>3, <1>4 DEF KeepsCommands
    <2>2. \A op \in X : op.revision = 0
      OBVIOUS
    <2> HIDE DEF X
    <2>3. Commands' \subseteq Commands \cup X
      BY <1>2, <1>3, <2>1, CommandsAfter
    <2> QED BY <1>1, <1>4, <2>2, <2>3, GateStays DEF IInv
  <1>5. CASE /\ gate'.revision = gate.revision + 1
             /\ \A k \in Callers : calls'[k].command = calls[k].command
    <2>1. \A k \in Callers : calls'[k].command \in Commands \cup {NoCommand} \cup {}
      BY <1>3, <1>5
    <2>2. Commands' \subseteq Commands \cup {}
      BY <1>2, <1>3, <2>1, CommandsAfter
    <2>3. \A op \in Commands' : op.revision <= gate.revision /\ op.revision \in Nat
      BY <1>3, <2>2
    <2>4. LeaseInv'
      BY <1>3, <1>5, <2>3 DEF LeaseInv, CurrentOperationIsLive
    <2> QED BY <1>1, <2>4 DEF IInv
  <1>6. ASSUME NEW k \in Callers, LeaseTaken(k) PROVE LeaseInv'
    <2> DEFINE op == calls[k].command
               leased == [op EXCEPT !.revision = gate'.revision]
    <2>1. /\ op \in Command /\ op.cursor \in Cursor /\ CanRegister(gate, op.cursor)
          /\ gate' = Registered(gate, op.cursor)
          /\ calls'[k].command = leased
      BY <1>6 DEF LeaseTaken
    <2>2. leased.revision = gate'.revision /\ leased.cursor = op.cursor
      BY <2>1 DEF Command, CursoredCommand, AdvanceCommand, PlainCommand
    <2>3. \A j \in Callers : calls'[j].command \in Commands \cup {NoCommand} \cup {leased}
      BY <1>3, <1>6, <2>1 DEF LeaseTaken
    <2> HIDE DEF op, leased
    <2>4. Commands' \subseteq Commands \cup {leased}
      BY <1>2, <1>3, <2>3, CommandsAfter
    <2>5. /\ op.cursor # gate.latestCursor => gate'.revision = gate.revision + 1
          /\ op.cursor = gate.latestCursor => gate' = gate
          /\ gate'.latestCursor = op.cursor
          /\ gate'.stoppedGeneration = gate.stoppedGeneration
      BY <1>3, <2>1, RevisionsGrow
    <2>6. \A other \in Commands :
             /\ other.revision <= gate'.revision
             /\ other.kind \in Cursored /\ other.revision = gate'.revision =>
                   other.cursor = gate'.latestCursor /\ ~Tombstoned(gate', other.cursor.generation)
      BY <1>3, <2>5 DEF IInv, LeaseInv, CurrentOperationIsLive
    <2>7. leased.cursor = gate'.latestCursor /\ ~Tombstoned(gate', leased.cursor.generation)
      BY <2>1, <2>2, <2>5 DEF CanRegister, Tombstoned
    <2>8. gate'.revision \in Nat /\ gate'.revision >= 1
      BY <1>3, <2>5
    <2> QED BY <2>2, <2>4, <2>6, <2>7, <2>8 DEF LeaseInv, CurrentOperationIsLive
  <1> QED BY <1>1, <1>4, <1>5, <1>6 DEF RevisionStep, IInv

LEMMA InitIInv == Init => IInv
  <1> SUFFICES ASSUME Init PROVE IInv
    OBVIOUS
  <1>1. gate \in Gate /\ gate.revision = 1
    BY DEF Init, NewGate, Gate
  <1>2. rt \in Session /\ published \in Status
    BY NewSessionType, ViewType DEF Init
  <1>3. calls \in [Callers -> Call]
    BY DEF Init, Call, Answer
  <1>4. /\ media \in [generation : Nat, loop : Nat]
        /\ channel \in Seq(Command) /\ Len(channel) <= Capacity
        /\ deferred \in Seq(Command) /\ Len(deferred) <= Capacity
    BY EmptyType DEF Init
  <1>5. TypeOK
    BY <1>1, <1>2, <1>3, <1>4 DEF Init, TypeOK
  <1>6. Commands = {}
    BY EmptyType, <1>5, QueuedCommands DEF Init
  <1> QED BY <1>1, <1>5, <1>6 DEF IInv, LeaseInv, CurrentOperationIsLive

LEMMA NextIInv == IInv /\ [Next]_vars => IInv'
  <1> SUFFICES ASSUME IInv, [Next]_vars PROVE IInv'
    OBVIOUS
  <1>1. TypeOK
    BY DEF IInv
  <1>2. CASE UNCHANGED vars
    BY <1>2 DEF vars, IInv, TypeOK, LeaseInv, CurrentOperationIsLive, Commands, Tombstoned
  <1>3. ASSUME NEW k \in Callers, Enter(k) \/ Complete(k) \/ CallerStep(k) \/ TimeOut(k)
        PROVE  IInv'
    BY <1>1, <1>3, CallerOutcome, CallerPreserves
  <1>4. ASSUME NEW op \in NextCommands, Handle(op) PROVE IInv'
    BY <1>1, <1>4, HandleOutcome, ActorPreserves
  <1>5. CASE LaunchEnds
    BY <1>1, <1>5, LaunchEndsOutcome, ActorPreserves
  <1>6. CASE Ticks
    BY <1>1, <1>6, TicksOutcome, ActorPreserves
  <1>7. CASE RendererFails
    BY <1>1, <1>7, RendererFailsOutcome, ActorPreserves
  <1>8. CASE ActorEnds
    <2>1. /\ rt' \in Session /\ published' \in Status /\ launch' = NoLaunch
          /\ calls' \in [Callers -> Call]
          /\ \A k \in Callers : calls'[k].command = calls[k].command
          /\ QueueStep({})
          /\ UNCHANGED <<gate, guard, media, closing>> /\ ended' = TRUE
      BY <1>1, <1>8, ActorEndsOutcome
    <2>2. TypeOK'
      BY <1>1, <2>1 DEF TypeOK, QueueStep
    <2>3. Commands' \subseteq Commands \cup {}
      <3>1. \A k \in Callers : calls'[k].command \in Commands \cup {NoCommand} \cup {}
        BY <1>1, <2>1, QueuedCommands
      <3>2. QueueStep(CallCommands \cap Command)
        BY <2>1 DEF QueueStep
      <3> QED BY <1>1, <2>1, <3>1, <3>2, CommandsAfter
    <2> QED BY <2>1, <2>2, <2>3, GateStays DEF IInv
  <1> QED BY <1>2, <1>3, <1>4, <1>5, <1>6, <1>7, <1>8 DEF Next, ActorStep

-----------------------------------------------------------------------------
(* Theorems *)

\* The types of the control path, its bounded queues included, under every
\* interleaving of any number of callers.
THEOREM TypeCorrect == Spec => []TypeOK
  <1>1. IInv => TypeOK
    BY DEF IInv
  <1> QED BY <1>1, InitIInv, NextIInv, PTL DEF Spec

\* The comparison of revisions in the actor stands for the comparison of cursors
\* and for the tombstone, wherever a command waits and however long.
THEOREM CurrentLeaseIsLive == Spec => []CurrentOperationIsLive
  <1>1. IInv => CurrentOperationIsLive
    BY DEF IInv, LeaseInv
  <1> QED BY <1>1, InitIInv, NextIInv, PTL DEF Spec

-----------------------------------------------------------------------------
(* The renderer *)

\* The sync cursor and the session name the same generation.
SyncAgrees(s) ==
    s.sync # NoCursor /\ s.session # NoCursor => s.sync.generation = s.session.generation

\* A launch of this kind for this command finds its session in s.
Leads(op, kind, s) ==
    op # NoCommand /\ op.kind \in Cursored =>
        /\ s.session # NoCursor /\ s.session.generation = op.cursor.generation
        /\ op.kind \in Rendering \/ kind = "Switch" => s.session = op.cursor

RendererInv ==
    /\ SyncAgrees(rt)
    /\ launch # NoLaunch => Leads(launch.command, launch.kind, rt)

RInv == IInv /\ RendererInv

-----------------------------------------------------------------------------
(* Operations of the session *)

\* Stopping, demoting and recording leave the cursors of a session where they are.
LEMMA CursorsStay ==
    ASSUME NEW s \in Session
    PROVE  \A t \in {ProcessStopped(s), IdentityRecorded(s), Suspended(s), OriginalFailed(s),
                     Demoted(s), ShaderMissing(s), CycleInvalidated(s)} :
              t.session = s.session /\ t.sync = s.sync
  <1>1. ProcessStopped(s).session = s.session /\ ProcessStopped(s).sync = s.sync
    BY DEF ProcessStopped, Session
  <1>2. IdentityRecorded(s).session = s.session /\ IdentityRecorded(s).sync = s.sync
    BY DEF IdentityRecorded, Session
  <1>3. Suspended(s).session = s.session /\ Suspended(s).sync = s.sync
    BY DEF Suspended, ProcessStopped, Session
  <1>4. OriginalFailed(s).session = s.session /\ OriginalFailed(s).sync = s.sync
    BY DEF OriginalFailed, ProcessStopped, Session
  <1>5. Demoted(s).session = s.session /\ Demoted(s).sync = s.sync
    BY <1>2 DEF Demoted, ProcessStopped, IdentityRecorded, Session
  <1>6. ShaderMissing(s).session = s.session /\ ShaderMissing(s).sync = s.sync
    BY DEF ShaderMissing, IdentityRecorded, Session
  <1>7. CycleInvalidated(s).session = s.session /\ CycleInvalidated(s).sync = s.sync
    BY <1>1 DEF CycleInvalidated, Session
  <1> QED BY <1>1, <1>2, <1>3, <1>4, <1>5, <1>6, <1>7

\* begin_generation, alone and followed by the binding of the cursor.
LEMMA BoundAgrees ==
    ASSUME NEW s \in Session, SyncAgrees(s), NEW cursor \in Cursor
    PROVE  LET begun == GenerationBegun(s, cursor.generation)
               bound == [begun EXCEPT !.session = cursor]
           IN  SyncAgrees(begun) /\ SyncAgrees(bound) /\ bound.session = cursor
  <1> DEFINE begun == GenerationBegun(s, cursor.generation)
             bound == [begun EXCEPT !.session = cursor]
  <1>6. SUFFICES SyncAgrees(begun) /\ SyncAgrees(bound) /\ bound.session = cursor
    OBVIOUS
  <1>1. begun \in Session
    BY BoundSessionType
  <1>2. bound.session = cursor /\ bound.sync = begun.sync
    BY <1>1 DEF Session
  <1>3. cursor.generation \in Nat
    BY DEF Cursor
  <1>4. CASE CurrentGeneration(s) \in {-1, cursor.generation}
    <2>1. begun = s
      BY <1>4 DEF GenerationBegun
    <2>2. s.sync # NoCursor => s.sync.generation = cursor.generation
      <3>1. s.sync \in Cursor \cup {NoCursor} /\ s.session \in Cursor \cup {NoCursor}
        BY DEF Session
      <3>2. /\ s.sync # NoCursor => s.sync.generation \in Nat
            /\ s.session # NoCursor => s.session.generation \in Nat
        BY <3>1 DEF Cursor
      <3> QED BY <1>3, <1>4, <3>2 DEF CurrentGeneration, SyncAgrees
    <2> HIDE DEF begun, bound
    <2> QED BY <1>2, <2>1, <2>2 DEF SyncAgrees
  <1>5. CASE CurrentGeneration(s) \notin {-1, cursor.generation}
    <2>1. begun.sync = NoCursor
      BY <1>5, NewSessionType DEF GenerationBegun, NewSession, Session
    <2> HIDE DEF begun, bound
    <2> QED BY <1>2, <2>1 DEF SyncAgrees
  <1> QED BY <1>2, <1>4, <1>5

\* synchronize moves session and sync cursor together.
LEMMA SynchronizedAgrees ==
    ASSUME NEW s \in Session, NEW next \in Cursor
    PROVE  /\ SyncAgrees(Synchronized(s, next))
           /\ SyncAgrees([Synchronized(s, next) EXCEPT !.eof = NoCursor])
           /\ SyncAgrees(CycleRefused(s, next))
  <1>1. Synchronized(s, next) \in Session
    BY SynchronizedType
  <1>2. Synchronized(s, next).session = next /\ Synchronized(s, next).sync = next
    BY DEF Synchronized, Session
  <1> QED BY <1>1, <1>2 DEF SyncAgrees, CycleRefused, Session

-----------------------------------------------------------------------------
(* The handlers of the actor *)

LEMMA RepliesAgrees ==
    ASSUME NEW op, NEW answer, NEW s, SyncAgrees(s), Replies(op, answer, s)
    PROVE  RendererInv'
  BY DEF Replies, RendererInv, SyncAgrees

LEMMA LaunchesAgrees ==
    ASSUME NEW op, NEW shown, NEW s, NEW kind, NEW revision, NEW fallback,
           SyncAgrees(s), Leads(op, kind, s), Launches(op, shown, s, kind, revision, fallback)
    PROVE  RendererInv'
  BY DEF Launches, RendererInv, SyncAgrees, Leads

\* transition_to_fallback and neutralize_to_source_with_fallback demote the session
\* as it stands.
LEMMA FallsBackAgrees ==
    ASSUME NEW op, NEW s \in Session, SyncAgrees(s), Leads(op, "Start", s),
           FallsBack(op, s) \/ NeutralizationFails(op, s)
    PROVE  RendererInv'
  <1>1. /\ SyncAgrees(OriginalFailed(s)) /\ SyncAgrees(Demoted(s))
        /\ Leads(op, "Start", Demoted(s))
    BY CursorsStay DEF SyncAgrees, Leads
  <1>2. CASE s.floor = Original
    <2>1. PICK answer \in {"Ok", "Err"} : Replies(op, answer, OriginalFailed(s))
      BY <1>2 DEF FallsBack, NeutralizationFails
    <2> QED BY <1>1, <2>1, RepliesAgrees
  <1>3. CASE s.floor # Original
    <2>1. Launches(op, s, Demoted(s), "Start", gate.revision, TRUE)
      BY <1>3 DEF FallsBack, NeutralizationFails
    <2> QED BY <1>1, <2>1, LaunchesAgrees
  <1> QED BY <1>2, <1>3

LEMMA HandleEnsureAgrees ==
    ASSUME RInv, NEW op, HandleEnsure(op)
    PROVE  RendererInv'
  <1> DEFINE begun == GenerationBegun(rt, op.cursor.generation)
             bound == [begun EXCEPT !.session = op.cursor]
  <1>1. TypeOK /\ rt \in Session /\ SyncAgrees(rt)
    BY DEF RInv, IInv, TypeOK, RendererInv
  <1>2. op \in Command /\ op.kind = "Ensure"
    BY <1>1, HandlesType DEF HandleEnsure
  <1>3. op.cursor \in Cursor
    BY <1>2, CommandType DEF Cursored, Rendering
  <1>4. /\ begun \in Session /\ bound \in Session
        /\ SyncAgrees(begun) /\ SyncAgrees(bound) /\ bound.session = op.cursor
    BY <1>1, <1>3, BoundSessionType, BoundAgrees
  <1>5. \/ Replies(op, "Ok", rt) \/ Replies(op, "Err", rt) \/ Replies(op, "Err", begun)
        \/ Launches(op, rt, bound, "Switch", op.revision, FALSE)
        \/ \E s \in AfterShaderCheck(bound) :
              \/ Replies(op, "Ok", IdentityRecorded(s))
              \/ NeutralizationFails(op, s)
              \/ Launches(op, rt, ProcessStopped(s), "Start", op.revision, FALSE)
    BY DEF HandleEnsure
  <1> HIDE DEF begun, bound
  <1>6. CASE Replies(op, "Ok", rt) \/ Replies(op, "Err", rt) \/ Replies(op, "Err", begun)
    BY <1>1, <1>4, <1>6, RepliesAgrees
  <1>7. ASSUME NEW s, NEW kind, s.session = op.cursor PROVE Leads(op, kind, s)
    BY <1>3, <1>7, CursorAssumption DEF Leads
  <1>8. CASE Launches(op, rt, bound, "Switch", op.revision, FALSE)
    BY <1>4, <1>7, <1>8, LaunchesAgrees
  <1>9. ASSUME NEW s \in AfterShaderCheck(bound),
               \/ Replies(op, "Ok", IdentityRecorded(s)) \/ NeutralizationFails(op, s)
               \/ Launches(op, rt, ProcessStopped(s), "Start", op.revision, FALSE)
        PROVE  RendererInv'
    <2>1. s \in Session
      BY <1>4, AfterShaderCheckType
    <2>2. s.session = op.cursor /\ s.sync = bound.sync
      BY <1>4, CursorsStay DEF AfterShaderCheck
    <2>3. SyncAgrees(s)
      BY <1>4, <2>2 DEF SyncAgrees
    <2>4. /\ SyncAgrees(IdentityRecorded(s)) /\ SyncAgrees(ProcessStopped(s))
          /\ ProcessStopped(s).session = op.cursor
      BY <2>1, <2>2, <2>3, CursorsStay DEF SyncAgrees
    <2>5. Leads(op, "Start", s) /\ Leads(op, "Start", ProcessStopped(s))
      BY <1>7, <2>2, <2>4
    <2> QED BY <1>9, <2>1, <2>3, <2>4, <2>5, RepliesAgrees, LaunchesAgrees, FallsBackAgrees
  <1> QED BY <1>5, <1>6, <1>8, <1>9

LEMMA HandleConfigureAgrees ==
    ASSUME RInv, NEW op, HandleConfigure(op)
    PROVE  RendererInv'
  <1> DEFINE clean == CycleInvalidated(rt)
             begun == GenerationBegun(clean, op.cursor.generation)
             bound == [begun EXCEPT !.session = op.cursor]
  <1>1. TypeOK /\ rt \in Session /\ SyncAgrees(rt)
    BY DEF RInv, IInv, TypeOK, RendererInv
  <1>2. op \in Command /\ op.kind = "Configure"
    BY <1>1, HandlesType DEF HandleConfigure
  <1>3. op.cursor \in Cursor
    BY <1>2, CommandType DEF Cursored, Rendering
  <1>4. clean \in Session /\ SyncAgrees(clean)
    BY <1>1, CursorsStay, CycleInvalidatedType DEF SyncAgrees
  <1> HIDE DEF clean
  <1>5. /\ begun \in Session /\ bound \in Session
        /\ SyncAgrees(begun) /\ SyncAgrees(bound) /\ bound.session = op.cursor
    BY <1>3, <1>4, BoundSessionType, BoundAgrees
  <1>6. \/ Replies(op, "Err", clean) \/ Replies(op, "Err", begun)
        \/ Launches(op, clean, bound, "Switch", op.revision, FALSE)
        \/ Replies(op, "Ok", bound) \/ Replies(op, "Err", bound)
        \/ Launches(op, clean, Demoted(bound), "Start", op.revision, TRUE)
        \/ Replies(op, "Ok", IdentityRecorded(bound)) \/ Replies(op, "Err", IdentityRecorded(bound))
        \/ Launches(op, clean, ProcessStopped(bound), "Start", op.revision, FALSE)
    BY DEF HandleConfigure, ConfigureAnswers, clean
  <1> HIDE DEF begun, bound
  <1>7. /\ SyncAgrees(IdentityRecorded(bound))
        /\ SyncAgrees(ProcessStopped(bound)) /\ ProcessStopped(bound).session = op.cursor
        /\ SyncAgrees(Demoted(bound)) /\ Demoted(bound).session = op.cursor
    BY <1>5, CursorsStay DEF SyncAgrees
  <1>8. ASSUME NEW s, NEW kind, s.session = op.cursor PROVE Leads(op, kind, s)
    BY <1>3, <1>8, CursorAssumption DEF Leads
  <1>9. CASE \/ Replies(op, "Err", clean) \/ Replies(op, "Err", begun)
             \/ Replies(op, "Ok", bound) \/ Replies(op, "Err", bound)
             \/ Replies(op, "Ok", IdentityRecorded(bound)) \/ Replies(op, "Err", IdentityRecorded(bound))
    BY <1>4, <1>5, <1>7, <1>9, RepliesAgrees
  <1>10. CASE \/ Launches(op, clean, bound, "Switch", op.revision, FALSE)
              \/ Launches(op, clean, Demoted(bound), "Start", op.revision, TRUE)
              \/ Launches(op, clean, ProcessStopped(bound), "Start", op.revision, FALSE)
    BY <1>5, <1>7, <1>8, <1>10, LaunchesAgrees
  <1> QED BY <1>6, <1>9, <1>10

LEMMA HandleIntentAgrees ==
    ASSUME RInv, NEW op, HandleIntent(op)
    PROVE  RendererInv'
  <1> DEFINE next == [rt.sync EXCEPT !.clock = @ + 1]
             resumed == [Synchronized(rt, rt.sync) EXCEPT !.eof = NoCursor]
             stale == \/ rt.sync = NoCursor \/ rt.session = NoCursor
                      \/ rt.sync.generation # op.cursor.generation
                      \/ op.revision # gate.revision
  <1>1. TypeOK /\ rt \in Session /\ SyncAgrees(rt)
    BY DEF RInv, IInv, TypeOK, RendererInv
  <1>2. op.kind \in Intents
    BY DEF HandleIntent
  <1>3. ASSUME ~stale
        PROVE  /\ SyncAgrees(Synchronized(rt, next)) /\ SyncAgrees(Synchronized(rt, rt.sync))
               /\ SyncAgrees(resumed) /\ SyncAgrees(CycleRefused(rt, next))
               /\ Leads(op, "Start", rt)
    <2>1. rt.sync \in Cursor
      BY <1>1, <1>3 DEF Session
    <2>2. next \in Cursor
      BY <2>1 DEF Cursor
    <2>3. Leads(op, "Start", rt)
      BY <1>1, <1>2, <1>3 DEF SyncAgrees, Leads, Intents, Rendering
    <2> QED BY <1>1, <2>1, <2>2, <2>3, SynchronizedAgrees
  <1>4. \/ ~stale /\ \/ Replies(op, "Ok", Synchronized(rt, next)) \/ Replies(op, "Ok", resumed)
                     \/ Replies(op, "Ok", Synchronized(rt, rt.sync))
                     \/ Replies(op, "Err", CycleRefused(rt, next))
                     \/ FallsBack(op, rt)
        \/ Replies(op, "Err", rt)
    BY DEF HandleIntent
  <1> HIDE DEF next, resumed, stale
  <1>5. CASE Replies(op, "Err", rt)
    BY <1>1, <1>5, RepliesAgrees
  <1>6. CASE ~stale /\ FallsBack(op, rt)
    BY <1>1, <1>3, <1>6, FallsBackAgrees
  <1>7. CASE ~stale /\ \/ Replies(op, "Ok", Synchronized(rt, next)) \/ Replies(op, "Ok", resumed)
                       \/ Replies(op, "Ok", Synchronized(rt, rt.sync))
                       \/ Replies(op, "Err", CycleRefused(rt, next))
    BY <1>3, <1>7, RepliesAgrees
  <1> QED BY <1>4, <1>5, <1>6, <1>7

LEMMA HandleAdvanceAgrees ==
    ASSUME RInv, NEW op, HandleAdvance(op)
    PROVE  RendererInv'
  <1> DEFINE clean == [rt EXCEPT !.ipc = "None"]
             bound == [GenerationBegun(clean, op.cursor.generation) EXCEPT !.session = op.cursor]
             sameMedium == rt.session = op.eof /\ op.cursor.generation = op.eof.generation
  <1>1. TypeOK /\ rt \in Session /\ SyncAgrees(rt)
    BY DEF RInv, IInv, TypeOK, RendererInv
  <1>2. op \in Command /\ op.kind = "Advance"
    BY <1>1, HandlesType DEF HandleAdvance
  <1>3. op.cursor \in Cursor /\ op.eof \in Cursor
    BY <1>2, CommandType DEF Cursored
  <1>4. clean \in Session /\ clean.session = rt.session /\ clean.sync = rt.sync
    BY <1>1 DEF Session, Ipc
  <1>5. \/ Replies(op, "Err", rt) \/ Replies(op, "Stale", rt)
        \/ Replies(op, "Ok", Synchronized(clean, op.cursor))
        \/ Replies(op, "Err", clean) \/ Replies(op, "Err", CycleRefused(clean, op.cursor))
        \/ sameMedium /\ FallsBack(op, clean)
        \/ Launches(op, clean, bound, "Switch", op.revision, FALSE)
    BY DEF HandleAdvance
  <1> HIDE DEF clean
  <1>6. SyncAgrees(clean)
    BY <1>1, <1>4 DEF SyncAgrees
  <1>7. /\ SyncAgrees(bound) /\ bound.session = op.cursor
        /\ SyncAgrees(Synchronized(clean, op.cursor)) /\ SyncAgrees(CycleRefused(clean, op.cursor))
    BY <1>3, <1>4, <1>6, BoundAgrees, SynchronizedAgrees
  <1> HIDE DEF bound
  <1>8. CASE \/ Replies(op, "Err", rt) \/ Replies(op, "Stale", rt) \/ Replies(op, "Err", clean)
             \/ Replies(op, "Ok", Synchronized(clean, op.cursor))
             \/ Replies(op, "Err", CycleRefused(clean, op.cursor))
    BY <1>1, <1>6, <1>7, <1>8, RepliesAgrees
  <1>9. CASE sameMedium /\ FallsBack(op, clean)
    <2>1. Leads(op, "Start", clean)
      BY <1>2, <1>3, <1>4, <1>9, CursorAssumption DEF Leads, Rendering
    <2> QED BY <1>4, <1>6, <1>9, <2>1, FallsBackAgrees
  <1>10. CASE Launches(op, clean, bound, "Switch", op.revision, FALSE)
    <2>1. Leads(op, "Switch", bound)
      BY <1>3, <1>7, CursorAssumption DEF Leads
    <2> QED BY <1>7, <1>10, <2>1, LaunchesAgrees
  <1> QED BY <1>5, <1>8, <1>9, <1>10

\* A command is taken only between launches, and the commands without a cursor launch
\* nothing that has to lead anywhere.
LEMMA HandleAgrees ==
    ASSUME RInv, NEW op, Handle(op)
    PROVE  RendererInv'
  <1>1. TypeOK /\ rt \in Session /\ SyncAgrees(rt) /\ RendererInv
    BY DEF RInv, IInv, TypeOK, RendererInv
  <1>2. CASE Defer(op)
    <2>1. UNCHANGED <<rt, launch>>
      BY <1>2 DEF Defer
    <2> QED BY <1>1, <2>1 DEF RendererInv, SyncAgrees, Leads
  <1>3. CASE HandleEnsure(op)
    BY <1>3, HandleEnsureAgrees
  <1>4. CASE HandleConfigure(op)
    BY <1>4, HandleConfigureAgrees
  <1>5. CASE HandleIntent(op)
    BY <1>5, HandleIntentAgrees
  <1>6. CASE HandleAdvance(op)
    BY <1>6, HandleAdvanceAgrees
  <1>7. ASSUME NEW kind, NEW s, SyncAgrees(s), Aborting(op, kind, s) PROVE RendererInv'
    <2>1. rt' = s /\ launch' = launch /\ launch = NoLaunch
      BY <1>7 DEF Aborting, ReadsChannel, ActorFree
    <2> QED BY <1>7, <2>1 DEF RendererInv, SyncAgrees
  <1>8. CASE HandleStop(op)
    <2>1. SyncAgrees(NewSession)
      BY DEF NewSession, SyncAgrees
    <2> QED BY <1>7, <1>8, <2>1 DEF HandleStop
  <1>9. CASE HandleSuspend(op)
    <2>1. SyncAgrees(Suspended(rt))
      BY <1>1, CursorsStay DEF SyncAgrees
    <2> QED BY <1>7, <1>9, <2>1 DEF HandleSuspend
  <1>10. CASE HandleRecordSource(op)
    <2>1. SyncAgrees(SourceRecorded(rt))
      BY DEF SourceRecorded, NewSession, SyncAgrees
    <2> QED BY <1>10, <2>1, RepliesAgrees DEF HandleRecordSource
  <1>11. CASE HandleSetProcessing(op)
    <2>1. op.kind = "SetProcessing"
      BY <1>1, <1>11, HandlesType DEF HandleSetProcessing
    <2>2. Leads(op, "Start", rt)
      BY <2>1 DEF Leads, Cursored, Rendering, Intents
    <2> QED BY <1>1, <1>11, <2>2, RepliesAgrees, FallsBackAgrees DEF HandleSetProcessing
  <1> QED BY <1>2, <1>3, <1>4, <1>5, <1>6, <1>8, <1>9, <1>10, <1>11 DEF Handle

-----------------------------------------------------------------------------
(* Launches, ticks and the invariant *)

\* Started: the process plays the generation of the session.
LEMMA StartedSession ==
    ASSUME NEW s \in Session
    PROVE  /\ Started(s).session = s.session /\ Started(s).sync = s.session
           /\ Started(s).process.generation = s.session.generation
  BY DEF Started, Session

LEMMA LaunchEndsAgrees ==
    ASSUME RInv, LaunchEnds
    PROVE  RendererInv'
  <1> DEFINE op == launch.command
  <1>1. TypeOK /\ rt \in Session /\ SyncAgrees(rt)
    BY DEF RInv, IInv, TypeOK, RendererInv
  <1>2. launch \in Launch
    BY <1>1 DEF TypeOK, LaunchEnds, LaunchSucceeds, LaunchNeutralizationFails, LaunchAbandoned,
                LaunchFails, SwitchCancelled, SwitchFails, Launching
  <1>3. Leads(op, launch.kind, rt) /\ Leads(op, "Start", rt)
    <2>1. Leads(op, launch.kind, rt)
      BY <1>2, ControlNoneAssumption DEF RInv, RendererInv
    <2> QED BY <2>1 DEF Leads
  <1>4. /\ SyncAgrees(ProcessStopped(rt)) /\ SyncAgrees(IdentityRecorded(rt))
        /\ SyncAgrees(OriginalFailed(rt)) /\ SyncAgrees(Demoted(rt))
    BY <1>1, CursorsStay DEF SyncAgrees
  <1>5. Leads(op, "Start", ProcessStopped(rt)) /\ Leads(op, launch.kind, Demoted(rt))
    BY <1>1, <1>3, CursorsStay DEF Leads
  <1>6. ASSUME NEW s, rt' = s, SyncAgrees(s), launch' \in Launch, launch'.command = op,
               Leads(op, launch'.kind, s)
        PROVE  RendererInv'
    BY <1>6 DEF RendererInv, SyncAgrees, Leads
  <1>7. CASE LaunchSucceeds
    <2>1. PICK answer : Replies(op, answer, Started(rt))
      BY <1>7 DEF LaunchSucceeds
    <2>2. SyncAgrees(Started(rt))
      BY <1>1, StartedSession DEF SyncAgrees
    <2> QED BY <2>1, <2>2, RepliesAgrees
  <1>8. CASE LaunchNeutralizationFails
    <2> DEFINE s == Demoted(Started(rt))
    <2>1. Started(rt) \in Session /\ rt.session # NoCursor
      BY <1>1, <1>8, SessionOperations DEF LaunchNeutralizationFails
    <2>2. s.session = rt.session /\ s.sync = rt.session
      BY <1>1, <2>1, CursorsStay, StartedSession
    <2>3. rt' = s /\ launch' = [launch EXCEPT !.kind = "Start", !.fallback = TRUE]
      BY <1>8 DEF LaunchNeutralizationFails
    <2>4. launch' \in Launch /\ launch'.command = op /\ launch'.kind = "Start"
      BY <1>2, <2>3 DEF Launch
    <2> HIDE DEF s
    <2>5. SyncAgrees(s) /\ Leads(op, "Start", s)
      BY <1>3, <2>2 DEF SyncAgrees, Leads
    <2> QED BY <1>6, <2>3, <2>4, <2>5
  <1>9. CASE LaunchAbandoned
    <2>1. PICK answer :
             \/ Replies(op, answer, OriginalFailed(rt))
             \/ Replies(op, answer, IdentityRecorded(rt))
             \/ Replies(op, answer, rt)
      BY <1>9 DEF LaunchAbandoned
    <2> QED BY <1>1, <1>4, <2>1, RepliesAgrees
  <1>10. CASE LaunchFails
    <2>1. CASE \E answer : Replies(op, answer, OriginalFailed(rt))
      BY <1>4, <2>1, RepliesAgrees
    <2>2. CASE rt' = Demoted(rt) /\ launch' = [launch EXCEPT !.fallback = TRUE]
      <3>1. launch' \in Launch /\ launch'.command = op /\ launch'.kind = launch.kind
        BY <1>2, <2>2 DEF Launch
      <3> QED BY <1>4, <1>5, <1>6, <2>2, <3>1
    <2> QED BY <1>10, <2>1, <2>2 DEF LaunchFails
  <1>11. CASE SwitchCancelled
    BY <1>4, <1>11, RepliesAgrees DEF SwitchCancelled
  <1>12. CASE SwitchFails
    <2>1. CASE Replies(op, "Err", ProcessStopped(rt))
      BY <1>4, <2>1, RepliesAgrees
    <2>2. CASE rt' = ProcessStopped(rt) /\ launch' = [launch EXCEPT !.kind = "Start"]
      <3>1. launch' \in Launch /\ launch'.command = op /\ launch'.kind = "Start"
        BY <1>2, <2>2 DEF Launch
      <3> QED BY <1>4, <1>5, <1>6, <2>2, <3>1
    <2> QED BY <1>12, <2>1, <2>2 DEF SwitchFails
  <1> QED BY <1>7, <1>8, <1>9, <1>10, <1>11, <1>12 DEF LaunchEnds

\* A tick moves no cursor, and none happens during a launch.
LEMMA TicksAgrees ==
    ASSUME RInv, Ticks
    PROVE  RendererInv'
  <1>1. rt \in Session /\ SyncAgrees(rt)
    BY DEF RInv, IInv, TypeOK, RendererInv
  <1>2. launch = NoLaunch /\ launch' = NoLaunch
    BY DEF Ticks, ProbeBegins, ProbeEnds, ShaderConfirmed, FramePresented, EofObserved, Tick,
           Ticking, ActorFree
  <1>3. IdentityRecorded(rt) \in Session
    BY <1>1, SessionOperations
  <1>4. rt'.session = rt.session /\ rt'.sync = rt.sync
    <2>1. \A s \in {rt, IdentityRecorded(rt)} : s.session = rt.session /\ s.sync = rt.sync
      BY <1>1, CursorsStay
    <2>2. \E s \in {rt, IdentityRecorded(rt)} : \E eof, ipc :
             rt' = [s EXCEPT !.ipc = ipc] \/ rt' = [s EXCEPT !.eof = eof, !.ipc = ipc]
      BY DEF Ticks, ProbeBegins, ProbeEnds, ShaderConfirmed, FramePresented, EofObserved, Tick
    <2> QED BY <1>1, <1>3, <2>1, <2>2 DEF Session
  <1> QED BY <1>1, <1>2, <1>4 DEF RendererInv, SyncAgrees

LEMMA InitRInv == Init => RInv
  BY InitIInv DEF Init, RInv, RendererInv, SyncAgrees, NewSession

LEMMA NextRInv == RInv /\ [Next]_vars => RInv'
  <1> SUFFICES ASSUME RInv, [Next]_vars PROVE RendererInv'
    BY NextIInv DEF RInv
  <1>1. TypeOK /\ rt \in Session /\ SyncAgrees(rt) /\ RendererInv
    BY DEF RInv, IInv, TypeOK, RendererInv
  <1>2. CASE UNCHANGED <<rt, launch>>
    BY <1>1, <1>2 DEF RendererInv, SyncAgrees, Leads
  <1>3. ASSUME NEW k \in Callers, Enter(k) \/ Complete(k) \/ CallerStep(k) \/ TimeOut(k)
        PROVE  RendererInv'
    <2>1. UNCHANGED <<rt, launch>>
      BY <1>1, <1>3, CallerOutcome DEF CallerTypes
    <2> QED BY <1>2, <2>1
  <1>4. ASSUME NEW op \in NextCommands, Handle(op) PROVE RendererInv'
    BY <1>4, HandleAgrees
  <1>5. CASE LaunchEnds
    BY <1>5, LaunchEndsAgrees
  <1>6. CASE Ticks
    BY <1>6, TicksAgrees
  <1>7. CASE RendererFails
    BY <1>1, <1>7, FallsBackAgrees DEF RendererFails, Leads
  <1>8. CASE ActorEnds
    <2>1. rt' = NewSession /\ launch' = NoLaunch
      BY <1>8 DEF ActorEnds
    <2> QED BY <2>1 DEF RendererInv, SyncAgrees, NewSession
  <1>9. CASE UNCHANGED vars
    BY <1>2, <1>9 DEF vars
  <1> QED BY <1>3, <1>4, <1>5, <1>6, <1>7, <1>8, <1>9 DEF Next, ActorStep

-----------------------------------------------------------------------------
(* The theorem *)

\* A launch that makes a process its own has succeeded, under the current revision.
LEMMA StartsAreLive ==
    ASSUME RInv, [Next]_vars, RendererStarts,
           launch.command # NoCommand, launch.command.kind \in Cursored,
           launch.revision = launch.command.revision
    PROVE  /\ ~Tombstoned(gate, rt'.process.generation)
           /\ launch.command.kind \in Rendering \/ launch.kind = "Switch" =>
                 rt'.session = gate.latestCursor
  <1> DEFINE op == launch.command
  <1>1. TypeOK /\ rt \in Session /\ RendererInv /\ CurrentOperationIsLive
    BY DEF RInv, IInv, LeaseInv, TypeOK
  <1>2. launch # NoLaunch /\ rt'.process # rt.process /\ rt'.process # NoProcess
    BY DEF RendererStarts, Alive
  <1>3. LaunchEnds
    <2>1. ASSUME NEW k \in Callers, Enter(k) \/ Complete(k) \/ CallerStep(k) \/ TimeOut(k)
          PROVE  FALSE
      BY <1>1, <1>2, <2>1, CallerOutcome DEF CallerTypes
    <2>2. ASSUME NEW o, Handle(o) PROVE FALSE
      BY <1>2, <2>2 DEF Handle, Defer, HandleEnsure, HandleConfigure, HandleIntent, HandleAdvance,
         HandleStop, HandleSuspend, HandleRecordSource, HandleSetProcessing, Aborting, Handles,
         ReadsChannel, ActorFree
    <2>3. CASE Ticks
      BY <1>2, <2>3 DEF Ticks, ProbeBegins, ProbeEnds, ShaderConfirmed, FramePresented, EofObserved,
         Tick, Ticking, ActorFree
    <2>4. CASE RendererFails \/ ActorEnds
      BY <1>2, <2>4 DEF RendererFails, ActorEnds, Ticking, ActorFree
    <2>5. CASE UNCHANGED vars
      BY <1>2, <2>5 DEF vars
    <2> QED BY <2>1, <2>2, <2>3, <2>4, <2>5 DEF Next, ActorStep
  <1>4. rt' = Started(rt) /\ launch.revision = gate.revision
    <2>1. /\ ProcessStopped(rt).process = NoProcess
          /\ OriginalFailed(rt).process = NoProcess
          /\ IdentityRecorded(rt).process = rt.process
      BY <1>1 DEF ProcessStopped, OriginalFailed, IdentityRecorded, Session
    <2>2. \A s \in Session : Demoted(s).process = NoProcess
      <3> TAKE s \in Session
      <3> DEFINE p == ProcessStopped(IdentityRecorded(s))
      <3>1. p \in Session
        BY SessionOperations
      <3>2. p.process = NoProcess
        BY SessionOperations DEF ProcessStopped, Session
      <3>3. Demoted(s) = [p EXCEPT !.floor = @ + 1, !.stopped = FALSE]
        BY DEF Demoted
      <3> HIDE DEF p
      <3> QED BY <3>1, <3>2, <3>3 DEF Session
    <2>3. CASE LaunchSucceeds
      BY <2>3 DEF LaunchSucceeds, Replies, Abandoned
    <2>4. CASE LaunchNeutralizationFails
      <3>1. Started(rt) \in Session
        BY <1>1, <2>4, SessionOperations DEF LaunchNeutralizationFails
      <3> QED BY <1>2, <2>2, <2>4, <3>1 DEF LaunchNeutralizationFails
    <2>5. CASE LaunchAbandoned
      BY <1>2, <2>1, <2>5 DEF LaunchAbandoned, Replies
    <2>6. CASE LaunchFails
      BY <1>1, <1>2, <2>1, <2>2, <2>6 DEF LaunchFails, Replies
    <2>7. CASE SwitchCancelled \/ SwitchFails
      BY <1>2, <2>1, <2>7 DEF SwitchCancelled, SwitchFails, Replies
    <2> QED BY <1>3, <2>3, <2>4, <2>5, <2>6, <2>7 DEF LaunchEnds
  <1>5. /\ rt'.session = rt.session /\ rt'.process.generation = rt.session.generation
    BY <1>1, <1>4, StartedSession
  <1>6. op \in Commands
    BY <1>1, <1>2, QueuedCommands
  <1>7. op.cursor = gate.latestCursor /\ ~Tombstoned(gate, op.cursor.generation)
    BY <1>1, <1>4, <1>6 DEF CurrentOperationIsLive
  <1>8. /\ rt.session.generation = op.cursor.generation
        /\ op.kind \in Rendering \/ launch.kind = "Switch" => rt.session = op.cursor
    BY <1>1, <1>2 DEF RendererInv, Leads
  <1> QED BY <1>5, <1>7, <1>8 DEF Tombstoned

\* However long a launch takes, the process it makes its own is of a generation that no
\* stop has buried, and plays the latest cursor where its command binds one.
THEOREM LaunchesAreLive == Spec => RendererStartsForTheLatestCursor
  <1>1. RInv /\ [Next]_vars =>
          [RendererStarts /\ launch.command # NoCommand /\ launch.command.kind \in Cursored
             /\ launch.revision = launch.command.revision =>
             /\ ~Tombstoned(gate, rt'.process.generation)
             /\ launch.command.kind \in Rendering \/ launch.kind = "Switch" =>
                   rt'.session = gate.latestCursor]_vars
    BY StartsAreLive
  <1> QED BY <1>1, InitRInv, NextRInv, PTL DEF Spec, RendererStartsForTheLatestCursor

-----------------------------------------------------------------------------
(* The renderer and its session *)

\* The process plays the generation of the session at its level.
Stands(s) ==
    Alive(s) /\ s.session # NoCursor =>
        s.process.generation = s.session.generation /\ s.process.mode = s.floor

\* Between launches it does.  While mpv is started anew there is no process, and a
\* switch of the source ends with the process of the session or with none.
StandingInv ==
    /\ launch = NoLaunch => Stands(rt)
    /\ launch # NoLaunch /\ launch.kind = "Start" => ~Alive(rt)

\* Stopping, demoting and forgetting a session leave it without a process.
LEMMA StoppedSessions ==
    ASSUME NEW s \in Session
    PROVE  /\ ~Alive(ProcessStopped(s)) /\ ~Alive(OriginalFailed(s)) /\ ~Alive(Demoted(s))
           /\ ~Alive(Suspended(s)) /\ ~Alive(NewSession) /\ ~Alive(SourceRecorded(s))
  <1>1. ProcessStopped(s) \in Session /\ ~Alive(ProcessStopped(s))
    BY SessionOperations DEF ProcessStopped, Session, Alive
  <1>2. ~Alive(OriginalFailed(s)) /\ ~Alive(Suspended(s))
    BY <1>1 DEF OriginalFailed, Suspended, Session, Alive
  <1>3. ~Alive(Demoted(s))
    <2> DEFINE p == ProcessStopped(IdentityRecorded(s))
    <2>1. p \in Session /\ p.process = NoProcess
      BY SessionOperations DEF ProcessStopped, Session
    <2>2. Demoted(s) = [p EXCEPT !.floor = @ + 1, !.stopped = FALSE]
      BY DEF Demoted
    <2> HIDE DEF p
    <2> QED BY <2>1, <2>2 DEF Session, Alive
  <1>4. ~Alive(NewSession) /\ ~Alive(SourceRecorded(s))
    BY DEF NewSession, SourceRecorded, Alive
  <1> QED BY <1>1, <1>2, <1>3, <1>4

\* Recording the identity and dropping a transaction leave process, session and level.
LEMMA RecordedStands ==
    ASSUME NEW s \in Session
    PROVE  /\ Stands(s) => Stands(IdentityRecorded(s)) /\ Stands(CycleInvalidated(s))
           /\ s.session # NoCursor /\ Ready(s) => Stands(IdentityRecorded(s))
  <1>1. /\ IdentityRecorded(s).process = s.process /\ IdentityRecorded(s).session = s.session
        /\ IdentityRecorded(s).floor = s.floor
    BY DEF IdentityRecorded, Session
  <1>2. Stands(s) => Stands(CycleInvalidated(s))
    BY StoppedSessions DEF CycleInvalidated, Stands, Session, Alive
  <1> QED BY <1>1, <1>2 DEF Stands, Ready, Alive

\* begin_generation keeps the session or leaves one that is bound to nothing.
LEMMA BegunStands ==
    ASSUME NEW s \in Session, Stands(s), NEW generation
    PROVE  Stands(GenerationBegun(s, generation))
  BY DEF GenerationBegun, NewSession, Stands

\* A cursor of the same generation.
LEMMA SynchronizedStands ==
    ASSUME NEW s \in Session, Stands(s), NEW next \in Cursor, s.session # NoCursor,
           next.generation = s.session.generation
    PROVE  /\ Stands(Synchronized(s, next)) /\ Stands(CycleRefused(s, next))
           /\ Stands([Synchronized(s, next) EXCEPT !.eof = NoCursor])
  <1> DEFINE t == Synchronized(s, next)
  <1>1. t \in Session /\ t.process = s.process /\ t.session = next /\ t.floor = s.floor
    <2> DEFINE moved == [s EXCEPT !.session = next, !.sync = next, !.identity = next]
    <2>1. moved \in Session
      BY DEF Session
    <2>2. moved.process = s.process /\ moved.session = next /\ moved.floor = s.floor
      BY DEF Session
    <2>3. t = IF next = s.sync THEN moved ELSE [moved EXCEPT !.eof = NoCursor, !.ipc = "None"]
      BY DEF Synchronized
    <2>4. t \in Session
      BY SynchronizedType
    <2> HIDE DEF t, moved
    <2> QED BY <2>1, <2>2, <2>3, <2>4 DEF Session
  <1>2. CycleRefused(s, next) = [t EXCEPT !.identity = s.identity]
    BY DEF CycleRefused
  <1> HIDE DEF t
  <1>3. \A u \in {t, [t EXCEPT !.identity = s.identity], [t EXCEPT !.eof = NoCursor]} :
           u.process = s.process /\ u.session = next /\ u.floor = s.floor
    BY <1>1 DEF Session
  <1> QED BY <1>2, <1>3 DEF Stands, Alive, t

LEMMA RepliesStands ==
    ASSUME NEW op, NEW answer, NEW s, Stands(s), Replies(op, answer, s)
    PROVE  StandingInv'
  BY DEF Replies, StandingInv, Stands, Alive

LEMMA LaunchesStands ==
    ASSUME NEW op \in Command \cup {NoCommand}, NEW shown, NEW s,
           NEW kind \in {"Start", "Switch"}, NEW revision \in Nat, NEW fallback \in BOOLEAN,
           kind = "Start" => ~Alive(s),
           Launches(op, shown, s, kind, revision, fallback)
    PROVE  StandingInv'
  <1>1. launch' \in Launch /\ launch'.kind = kind
    BY DEF Launches, Launch
  <1> QED BY <1>1, ControlNoneAssumption DEF Launches, StandingInv, Alive

LEMMA FallbackStands ==
    ASSUME TypeOK, NEW op \in Command \cup {NoCommand}, NEW s \in Session,
           FallsBack(op, s) \/ NeutralizationFails(op, s)
    PROVE  StandingInv'
  <1>1. gate.revision \in Nat
    BY DEF TypeOK, Gate
  <1>2. ~Alive(Demoted(s)) /\ Stands(OriginalFailed(s))
    BY StoppedSessions DEF Stands
  <1>3. \/ Replies(op, "Ok", OriginalFailed(s)) \/ Replies(op, "Err", OriginalFailed(s))
        \/ Launches(op, s, Demoted(s), "Start", gate.revision, TRUE)
    BY DEF FallsBack, NeutralizationFails
  <1> QED BY <1>1, <1>2, <1>3, RepliesStands, LaunchesStands

LEMMA HandleEnsureStands ==
    ASSUME TypeOK, Stands(rt), NEW op \in Command, HandleEnsure(op)
    PROVE  StandingInv'
  <1> DEFINE begun == GenerationBegun(rt, op.cursor.generation)
             bound == [begun EXCEPT !.session = op.cursor]
  <1>1. op \in Command \cup {NoCommand} /\ op.revision \in Nat /\ op.cursor \in Cursor
    BY HandlesType, CommandType DEF HandleEnsure, Cursored, Rendering
  <1>2. /\ rt \in Session /\ begun \in Session /\ bound \in Session
        /\ bound.session = op.cursor /\ Stands(begun)
    BY <1>1, BoundSessionType, BegunStands DEF TypeOK, Session
  <1>3. \/ Replies(op, "Ok", rt) \/ Replies(op, "Err", rt) \/ Replies(op, "Err", begun)
        \/ Launches(op, rt, bound, "Switch", op.revision, FALSE)
        \/ \E s \in AfterShaderCheck(bound) :
              \/ Ready(s) /\ Replies(op, "Ok", IdentityRecorded(s))
              \/ NeutralizationFails(op, s)
              \/ Launches(op, rt, ProcessStopped(s), "Start", op.revision, FALSE)
    BY DEF HandleEnsure
  <1> HIDE DEF begun, bound
  <1>4. CASE Replies(op, "Ok", rt) \/ Replies(op, "Err", rt) \/ Replies(op, "Err", begun)
    BY <1>2, <1>4, RepliesStands
  <1>5. CASE Launches(op, rt, bound, "Switch", op.revision, FALSE)
    BY <1>1, <1>5, LaunchesStands
  <1>6. ASSUME NEW s \in AfterShaderCheck(bound),
               \/ Ready(s) /\ Replies(op, "Ok", IdentityRecorded(s))
               \/ NeutralizationFails(op, s)
               \/ Launches(op, rt, ProcessStopped(s), "Start", op.revision, FALSE)
        PROVE  StandingInv'
    <2>1. s \in Session /\ s.session = op.cursor /\ s.session # NoCursor
      <3>1. ShaderMissing(bound).session = bound.session
        BY <1>2, CursorsStay
      <3> QED BY <1>1, <1>2, <1>6, <3>1, AfterShaderCheckType, CursorAssumption
              DEF AfterShaderCheck
    <2>2. Ready(s) => Stands(IdentityRecorded(s))
      BY <2>1, RecordedStands
    <2>3. ~Alive(ProcessStopped(s))
      BY <2>1, StoppedSessions
    <2> QED BY <1>1, <1>6, <2>1, <2>2, <2>3, RepliesStands, FallbackStands, LaunchesStands
  <1> QED BY <1>3, <1>4, <1>5, <1>6

LEMMA HandleConfigureStands ==
    ASSUME TypeOK, Stands(rt), NEW op \in Command, HandleConfigure(op)
    PROVE  StandingInv'
  <1> DEFINE clean == CycleInvalidated(rt)
             begun == GenerationBegun(clean, op.cursor.generation)
             bound == [begun EXCEPT !.session = op.cursor]
  <1>1. op \in Command \cup {NoCommand} /\ op.revision \in Nat /\ op.cursor \in Cursor
    BY HandlesType, CommandType DEF HandleConfigure, Cursored, Rendering
  <1>2. clean \in Session /\ Stands(clean)
    BY CycleInvalidatedType, RecordedStands DEF TypeOK
  <1>3. \/ Replies(op, "Err", clean) \/ Replies(op, "Err", begun)
        \/ Launches(op, clean, bound, "Switch", op.revision, FALSE)
        \/ ~Alive(bound) /\ (Replies(op, "Ok", bound) \/ Replies(op, "Err", bound))
        \/ Launches(op, clean, Demoted(bound), "Start", op.revision, TRUE)
        \/ Ready(bound) /\ \/ Replies(op, "Ok", IdentityRecorded(bound))
                           \/ Replies(op, "Err", IdentityRecorded(bound))
        \/ Launches(op, clean, ProcessStopped(bound), "Start", op.revision, FALSE)
    BY DEF HandleConfigure, ConfigureAnswers, LostProcess
  <1> HIDE DEF clean
  <1>4. begun \in Session /\ bound \in Session /\ bound.session = op.cursor /\ Stands(begun)
    BY <1>1, <1>2, BoundSessionType, BegunStands DEF Session
  <1> HIDE DEF begun, bound
  <1>5. bound.session # NoCursor
    BY <1>1, <1>4, CursorAssumption
  <1>6. /\ ~Alive(Demoted(bound)) /\ ~Alive(ProcessStopped(bound))
        /\ Ready(bound) => Stands(IdentityRecorded(bound))
        /\ ~Alive(bound) => Stands(bound)
    BY <1>4, <1>5, StoppedSessions, RecordedStands DEF Stands
  <1> QED BY <1>1, <1>2, <1>3, <1>4, <1>6, RepliesStands, LaunchesStands

LEMMA HandleIntentStands ==
    ASSUME TypeOK, Stands(rt), SyncAgrees(rt), NEW op \in Command, HandleIntent(op)
    PROVE  StandingInv'
  <1> DEFINE next == [rt.sync EXCEPT !.clock = @ + 1]
             resumed == [Synchronized(rt, rt.sync) EXCEPT !.eof = NoCursor]
             stale == \/ rt.sync = NoCursor \/ rt.session = NoCursor
                      \/ rt.sync.generation # op.cursor.generation
                      \/ op.revision # gate.revision
  <1>1. rt \in Session /\ op \in Command \cup {NoCommand}
    BY DEF TypeOK
  <1>2. ASSUME ~stale
        PROVE  /\ Stands(Synchronized(rt, next)) /\ Stands(Synchronized(rt, rt.sync))
               /\ Stands(resumed) /\ Stands(CycleRefused(rt, next))
    <2>1. rt.sync \in Cursor /\ rt.session # NoCursor /\ rt.sync.generation = rt.session.generation
      BY <1>1, <1>2 DEF Session, SyncAgrees
    <2>2. next \in Cursor /\ next.generation = rt.sync.generation
      BY <2>1 DEF Cursor
    <2> QED BY <1>1, <2>1, <2>2, SynchronizedStands
  <1>3. \/ Replies(op, "Err", rt)
        \/ FallsBack(op, rt)
        \/ ~stale /\ \/ Replies(op, "Ok", Synchronized(rt, next)) \/ Replies(op, "Ok", resumed)
                     \/ Replies(op, "Ok", Synchronized(rt, rt.sync))
                     \/ Replies(op, "Err", CycleRefused(rt, next))
    BY DEF HandleIntent
  <1> HIDE DEF next, resumed, stale
  <1> QED BY <1>1, <1>2, <1>3, RepliesStands, FallbackStands

LEMMA HandleAdvanceStands ==
    ASSUME TypeOK, Stands(rt), NEW op \in Command, HandleAdvance(op)
    PROVE  StandingInv'
  <1> DEFINE clean == [rt EXCEPT !.ipc = "None"]
             bound == [GenerationBegun(clean, op.cursor.generation) EXCEPT !.session = op.cursor]
             same == /\ rt.session = op.eof /\ op.cursor.generation = op.eof.generation
  <1>1. /\ op \in Command \cup {NoCommand} /\ op.revision \in Nat /\ op.cursor \in Cursor
        /\ op.eof \in Cursor
    BY HandlesType, CommandType DEF HandleAdvance, Cursored
  <1>2. clean \in Session /\ Stands(clean) /\ clean.session = rt.session
    BY DEF TypeOK, Session, Ipc, Stands, Alive
  <1>3. \/ Replies(op, "Err", rt) \/ Replies(op, "Stale", rt) \/ Replies(op, "Err", clean)
        \/ same /\ \/ Replies(op, "Ok", Synchronized(clean, op.cursor))
                   \/ Replies(op, "Err", CycleRefused(clean, op.cursor))
        \/ FallsBack(op, clean)
        \/ Launches(op, clean, bound, "Switch", op.revision, FALSE)
    BY DEF HandleAdvance
  <1> HIDE DEF clean, bound
  <1>4. same => /\ Stands(Synchronized(clean, op.cursor))
                /\ Stands(CycleRefused(clean, op.cursor))
    BY <1>1, <1>2, SynchronizedStands, CursorAssumption
  <1> HIDE DEF same
  <1> QED BY <1>1, <1>2, <1>3, <1>4, RepliesStands, FallbackStands, LaunchesStands

LEMMA HandleStands ==
    ASSUME RInv, StandingInv, NEW op, Handle(op)
    PROVE  StandingInv'
  <1>1. TypeOK /\ rt \in Session /\ SyncAgrees(rt)
    BY DEF RInv, IInv, TypeOK, RendererInv
  <1>2. ASSUME NEW kind, Handles(op, kind) PROVE op \in Command /\ Stands(rt)
    BY <1>1, <1>2, HandlesType DEF Handles, ReadsChannel, ActorFree, StandingInv
  <1>3. CASE Defer(op)
    BY <1>3 DEF Defer, StandingInv, Stands, Alive
  <1>4. CASE HandleEnsure(op)
    BY <1>1, <1>2, <1>4, HandleEnsureStands DEF HandleEnsure
  <1>5. CASE HandleConfigure(op)
    BY <1>1, <1>2, <1>5, HandleConfigureStands DEF HandleConfigure
  <1>6. CASE HandleIntent(op)
    BY <1>1, <1>2, <1>6, HandleIntentStands DEF HandleIntent
  <1>7. CASE HandleAdvance(op)
    BY <1>1, <1>2, <1>7, HandleAdvanceStands DEF HandleAdvance
  <1>8. CASE HandleStop(op) \/ HandleSuspend(op)
    <2>1. ~Alive(NewSession) /\ ~Alive(Suspended(rt))
      BY <1>1, StoppedSessions
    <2> QED BY <1>8, <2>1 DEF HandleStop, HandleSuspend, Aborting, StandingInv, Stands, Alive
  <1>9. CASE HandleRecordSource(op)
    <2>1. Stands(SourceRecorded(rt))
      BY <1>1, StoppedSessions DEF Stands
    <2> QED BY <1>9, <2>1, RepliesStands DEF HandleRecordSource
  <1>10. CASE HandleSetProcessing(op)
    <2>1. op \in Command \cup {NoCommand} /\ Stands(rt)
      BY <1>2, <1>10 DEF HandleSetProcessing
    <2> QED BY <1>1, <1>10, <2>1, RepliesStands, FallbackStands DEF HandleSetProcessing
  <1> QED BY <1>3, <1>4, <1>5, <1>6, <1>7, <1>8, <1>9, <1>10 DEF Handle

LEMMA LaunchEndsStands ==
    ASSUME TypeOK, StandingInv, LaunchEnds
    PROVE  StandingInv'
  <1>1. rt \in Session /\ launch \in Launch /\ launch # NoLaunch
    BY DEF TypeOK, LaunchEnds, LaunchSucceeds, LaunchNeutralizationFails, LaunchAbandoned,
           LaunchFails, SwitchCancelled, SwitchFails, Launching
  <1>2. ASSUME NEW s, ~Alive(s), rt' = s, launch' \in Launch PROVE StandingInv'
    BY <1>2, ControlNoneAssumption DEF StandingInv, Alive
  <1>3. ASSUME NEW op, NEW answer, NEW s, ~Alive(s), Replies(op, answer, s) PROVE StandingInv'
    BY <1>3, RepliesStands DEF Stands
  <1>4. /\ ~Alive(ProcessStopped(rt)) /\ ~Alive(OriginalFailed(rt)) /\ ~Alive(Demoted(rt))
        /\ Alive(IdentityRecorded(rt)) <=> Alive(rt)
    BY <1>1, StoppedSessions DEF IdentityRecorded, Session, Alive
  <1>5. CASE LaunchSucceeds
    <2>1. rt.session # NoCursor /\ Started(rt).floor = rt.floor
          /\ Started(rt).process = [generation |-> rt.session.generation, mode |-> rt.floor]
      BY <1>1, <1>5 DEF LaunchSucceeds, Started, Session
    <2>2. Stands(Started(rt))
      BY <1>1, <2>1, StartedSession DEF Stands
    <2> QED BY <1>5, <2>2, RepliesStands DEF LaunchSucceeds
  <1>6. CASE LaunchNeutralizationFails
    <2>1. Started(rt) \in Session
      BY <1>1, <1>6, SessionOperations DEF LaunchNeutralizationFails
    <2>2. ~Alive(Demoted(Started(rt)))
      BY <2>1, StoppedSessions
    <2>3. launch' \in Launch
      BY <1>1, <1>6 DEF LaunchNeutralizationFails, Launch
    <2> QED BY <1>2, <1>6, <2>2, <2>3 DEF LaunchNeutralizationFails
  <1>7. CASE LaunchAbandoned
    <2>1. ~Alive(rt)
      BY <1>1, <1>7 DEF LaunchAbandoned, StandingInv
    <2>2. \E answer : \/ Replies(launch.command, answer, OriginalFailed(rt))
                      \/ Replies(launch.command, answer, IdentityRecorded(rt))
                      \/ Replies(launch.command, answer, rt)
      BY <1>7 DEF LaunchAbandoned
    <2> QED BY <1>3, <1>4, <2>1, <2>2
  <1>8. CASE LaunchFails
    <2>1. CASE rt' = Demoted(rt) /\ launch' = [launch EXCEPT !.fallback = TRUE]
      <3>1. launch' \in Launch
        BY <1>1, <2>1 DEF Launch
      <3> QED BY <1>2, <1>4, <2>1, <3>1
    <2>2. CASE \E answer : Replies(launch.command, answer, OriginalFailed(rt))
      BY <1>3, <1>4, <2>2
    <2> QED BY <1>8, <2>1, <2>2 DEF LaunchFails
  <1>9. CASE SwitchCancelled
    BY <1>3, <1>4, <1>9 DEF SwitchCancelled
  <1>10. CASE SwitchFails
    <2>1. CASE rt' = ProcessStopped(rt) /\ launch' = [launch EXCEPT !.kind = "Start"]
      <3>1. launch' \in Launch
        BY <1>1, <2>1 DEF Launch
      <3> QED BY <1>2, <1>4, <2>1, <3>1
    <2>2. CASE Replies(launch.command, "Err", ProcessStopped(rt))
      BY <1>3, <1>4, <2>2
    <2> QED BY <1>10, <2>1, <2>2 DEF SwitchFails
  <1> QED BY <1>5, <1>6, <1>7, <1>8, <1>9, <1>10 DEF LaunchEnds

LEMMA TicksStand ==
    ASSUME TypeOK, StandingInv, Ticks
    PROVE  StandingInv'
  <1>1. rt \in Session /\ launch = NoLaunch /\ launch' = NoLaunch /\ Stands(rt)
    BY DEF TypeOK, StandingInv, Ticks, ProbeBegins, ProbeEnds, ShaderConfirmed, FramePresented,
           EofObserved, Tick, Ticking, ActorFree
  <1>2. \A s \in {rt, IdentityRecorded(rt)} :
           /\ s \in Session /\ s.process = rt.process
           /\ s.session = rt.session /\ s.floor = rt.floor
    BY <1>1, SessionOperations DEF IdentityRecorded, Session
  <1>3. \E s \in {rt, IdentityRecorded(rt)} : \E eof, ipc :
           rt' = [s EXCEPT !.ipc = ipc] \/ rt' = [s EXCEPT !.eof = eof, !.ipc = ipc]
    BY DEF Ticks, ProbeBegins, ProbeEnds, ShaderConfirmed, FramePresented, EofObserved, Tick
  <1>4. rt'.process = rt.process /\ rt'.session = rt.session /\ rt'.floor = rt.floor
    BY <1>2, <1>3 DEF Session
  <1> QED BY <1>1, <1>4 DEF StandingInv, Stands, Alive

LEMMA NextStandingInv == RInv /\ StandingInv /\ [Next]_vars => StandingInv'
  <1> SUFFICES ASSUME RInv, StandingInv, [Next]_vars PROVE StandingInv'
    OBVIOUS
  <1>1. TypeOK /\ rt \in Session
    BY DEF RInv, IInv, TypeOK
  <1>2. CASE UNCHANGED <<rt, launch>>
    BY <1>2 DEF StandingInv, Stands, Alive
  <1>3. ASSUME NEW k \in Callers, Enter(k) \/ Complete(k) \/ CallerStep(k) \/ TimeOut(k)
        PROVE  StandingInv'
    <2>1. UNCHANGED <<rt, launch>>
      BY <1>1, <1>3, CallerOutcome DEF CallerTypes
    <2> QED BY <1>2, <2>1
  <1>4. CASE RendererFails
    BY <1>1, <1>4, FallbackStands DEF RendererFails
  <1>5. CASE ActorEnds
    <2>1. rt' = NewSession /\ launch' = NoLaunch
      BY <1>5 DEF ActorEnds
    <2> QED BY <2>1 DEF StandingInv, Stands, NewSession, Alive
  <1>6. CASE UNCHANGED vars
    BY <1>2, <1>6 DEF vars
  <1> QED BY <1>1, <1>3, <1>4, <1>5, <1>6, HandleStands, LaunchEndsStands, TicksStand
          DEF Next, ActorStep

\* Between launches a renderer that runs plays the generation of its session at the
\* level of the ladder that the session has reached, whatever was abandoned, failed,
\* switched or refused on the way.
THEOREM RendererFollowsSession == Spec => []RendererAgreesWithSession
  <1>1. Init => StandingInv
    BY DEF Init, StandingInv, Stands, NewSession, Alive
  <1>2. RInv /\ StandingInv => RendererAgreesWithSession
    BY DEF RInv, RendererInv, SyncAgrees, StandingInv, Stands, RendererAgreesWithSession
  <1> QED BY <1>1, <1>2, InitRInv, NextRInv, NextStandingInv, PTL DEF Spec

-----------------------------------------------------------------------------
(* The commands and their callers *)

Held == IF launch = NoLaunch THEN {} ELSE {launch.command}
Queued == Elements(channel) \cup Elements(deferred)
Sent == (Queued \cup Held) \ {NoCommand}

\* No command is twice in a queue, in both or in one and in the hands of the actor.
Injective(queue) == \A i, j \in DOMAIN queue : queue[i] = queue[j] => i = j
Apart ==
    /\ Injective(channel) /\ Injective(deferred)
    /\ Elements(channel) \cap Elements(deferred) = {}
    /\ Held \cap Queued = {}

\* The commands that a caller sent before the one it is at: the cleanup is an advance,
\* the record of the source and a stop.
Earlier(op, call) ==
    call.cleanup /\ (op.kind = "Advance" \/ (op.kind = "RecordSource" /\ call.command.kind = "Stop"))
Mine(op, call) ==
    \/ op = call.command /\ call.pc \in {"Publishing", "Waiting"} \cup Returned
    \/ Earlier(op, call)
Owned == \A op \in Sent : Mine(op, calls[op.caller])

Course(k, call) ==
    /\ call.command # NoCommand => call.command.caller = k
    /\ call.cleanup => call.command # NoCommand /\ call.command.kind \in {"RecordSource", "Stop"}
    /\ call.pc \in {"Composed", "Leased", "Ready", "Sending"} => call.answer = "None"
Courses == \A k \in Callers : Course(k, calls[k])

Waits(call) == call.pc \in {"Publishing", "Waiting"}
Unanswered ==
    \A k \in Callers : Waits(calls[k]) => (calls[k].answer = "None" <=> calls[k].command \in Sent)

CallInv == Apart /\ Owned /\ Courses /\ Unanswered

-----------------------------------------------------------------------------
(* The queues *)

\* Taking the first command of a queue leaves the others, and not that one.
LEMMA TakenApart ==
    ASSUME NEW queue \in Seq(Command), queue # <<>>, Injective(queue)
    PROVE  /\ Injective(Tail(queue))
           /\ Elements(Tail(queue)) = Elements(queue) \ {Head(queue)}
           /\ Head(queue) \in Elements(queue)
  <1> DEFINE rest == Tail(queue)
  <1>1. Len(queue) \in Nat \ {0} /\ DOMAIN queue = 1..Len(queue)
    BY EmptySeq, LenProperties
  <1>2. /\ rest \in Seq(Command) /\ Len(rest) = Len(queue) - 1
        /\ \A i \in 1..Len(rest) : rest[i] = queue[i + 1]
    BY HeadTailProperties
  <1>3. DOMAIN rest = 1..Len(rest)
    BY <1>2, LenProperties
  <1>4. Head(queue) = queue[1]
    OBVIOUS
  <1> HIDE DEF rest
  <1>5. Injective(rest)
    <2> SUFFICES ASSUME NEW i \in 1..Len(rest), NEW j \in 1..Len(rest), rest[i] = rest[j]
                 PROVE  i = j
      BY <1>3 DEF Injective
    <2>1. i + 1 \in DOMAIN queue /\ j + 1 \in DOMAIN queue /\ queue[i + 1] = queue[j + 1]
      BY <1>1, <1>2
    <2>2. i + 1 = j + 1
      BY <2>1 DEF Injective
    <2> QED BY <2>2
  <1>6. Elements(rest) \subseteq Elements(queue) \ {Head(queue)}
    <2> SUFFICES ASSUME NEW i \in 1..Len(rest)
                 PROVE  rest[i] \in Elements(queue) /\ rest[i] # Head(queue)
      BY <1>3 DEF Elements
    <2>1. i + 1 \in DOMAIN queue /\ 1 \in DOMAIN queue /\ rest[i] = queue[i + 1] /\ i + 1 # 1
      BY <1>1, <1>2
    <2> QED BY <1>4, <2>1 DEF Elements, Injective
  <1>7. Elements(queue) \ {Head(queue)} \subseteq Elements(rest)
    <2> SUFFICES ASSUME NEW i \in DOMAIN queue, queue[i] # queue[1]
                 PROVE  queue[i] \in Elements(rest)
      BY <1>4 DEF Elements
    <2>1. i - 1 \in 1..Len(rest) /\ rest[i - 1] = queue[i]
      BY <1>1, <1>2
    <2> QED BY <1>3, <2>1 DEF Elements
  <1>8. Head(queue) \in Elements(queue)
    BY <1>1, <1>4 DEF Elements
  <1> QED BY <1>5, <1>6, <1>7, <1>8 DEF rest

\* Appending a command that is not in a queue.
LEMMA AppendedApart ==
    ASSUME NEW queue \in Seq(Command), Injective(queue), NEW op \in Command,
           op \notin Elements(queue)
    PROVE  /\ Injective(Append(queue, op))
           /\ Elements(Append(queue, op)) = Elements(queue) \cup {op}
  <1> DEFINE n == Len(queue)
             longer == Append(queue, op)
  <1>1. n \in Nat /\ DOMAIN queue = 1..n
    BY LenProperties
  <1>2. /\ longer \in Seq(Command) /\ Len(longer) = n + 1
        /\ \A i \in 1..n : longer[i] = queue[i]
        /\ longer[n + 1] = op
    BY AppendProperties
  <1>3. DOMAIN longer = 1..(n + 1)
    BY <1>2, LenProperties
  <1> HIDE DEF n, longer
  <1>4. \A i \in 1..n : longer[i] # op
    BY <1>1, <1>2 DEF Elements
  <1>5. Injective(longer)
    <2> SUFFICES ASSUME NEW i \in 1..(n + 1), NEW j \in 1..(n + 1), longer[i] = longer[j]
                 PROVE  i = j
      BY <1>3 DEF Injective
    <2>1. CASE i \in 1..n /\ j \in 1..n
      BY <1>1, <1>2, <2>1 DEF Injective
    <2>2. CASE i = n + 1 \/ j = n + 1
      BY <1>1, <1>2, <1>4, <2>2
    <2> QED BY <1>1, <2>1, <2>2
  <1>6. Elements(longer) = Elements(queue) \cup {op}
    <2>1. Elements(longer) \subseteq Elements(queue) \cup {op}
      BY <1>1, <1>2, <1>3 DEF Elements
    <2>2. op \in Elements(longer)
      BY <1>1, <1>2, <1>3 DEF Elements
    <2>3. Elements(queue) \subseteq Elements(longer)
      BY <1>1, <1>2, <1>3 DEF Elements
    <2> QED BY <2>1, <2>2, <2>3
  <1> QED BY <1>5, <1>6 DEF longer

LEMMA EmptyApart == Injective(<<>>) /\ Elements(<<>>) = {}
  BY EmptyType DEF Injective

\* What is in the queues is a command, so NoCommand is not.
LEMMA QueuedType ==
    ASSUME TypeOK
    PROVE  Elements(channel) \subseteq Command /\ Elements(deferred) \subseteq Command
  BY ElementOfSeq, LenProperties DEF TypeOK, Elements

-----------------------------------------------------------------------------
(* The steps of the actor *)

\* The actor answers the commands of D and forgets them.
Settles(D) ==
    /\ Apart'
    /\ Sent' = Sent \ D
    /\ \A k \in Callers :
          /\ calls'[k].command = calls[k].command /\ calls'[k].pc = calls[k].pc
          /\ calls'[k].cleanup = calls[k].cleanup
          /\ IF Waits(calls[k]) /\ calls[k].command \in D
             THEN calls'[k].answer # "None" ELSE calls'[k].answer = calls[k].answer

LEMMA SettlesKeeps ==
    ASSUME TypeOK, CallInv, NEW D, Settles(D)
    PROVE  CallInv'
  <1>1. Apart' /\ Sent' \subseteq Sent
    BY DEF Settles
  <1>2. Owned'
    <2> SUFFICES ASSUME NEW op \in Sent' PROVE Mine(op, calls[op.caller])'
      BY DEF Owned
    <2>1. op \in Command
      BY <1>1, QueuedType, QueuedCommands DEF Sent, Queued, Held
    <2>2. op.caller \in Callers /\ Mine(op, calls[op.caller])
      BY <1>1, <2>1, CommandType DEF CallInv, Owned
    <2> QED BY <2>2 DEF Settles, Mine, Earlier
  <1>3. Courses'
    BY DEF CallInv, Courses, Course, Settles, Waits
  <1>4. Unanswered'
    BY DEF CallInv, Unanswered, Settles, Waits
  <1> QED BY <1>1, <1>2, <1>3, <1>4 DEF CallInv

\* What Answered does to the calls.
LEMMA AnsweredSettles ==
    ASSUME TypeOK, NEW queue, NEW answer \in Answer \ {"None"}, NEW k \in Callers
    PROVE  LET call == Answered(queue, answer)[k]
           IN  /\ call.command = calls[k].command /\ call.pc = calls[k].pc
               /\ call.cleanup = calls[k].cleanup
               /\ IF Waits(calls[k]) /\ calls[k].command \in Elements(queue)
                  THEN call.answer = answer ELSE call.answer = calls[k].answer
  <1>1. calls[k] \in Call
    BY DEF TypeOK
  <1>2. LET call == [calls[k] EXCEPT !.answer = answer]
        IN  /\ call.command = calls[k].command /\ call.pc = calls[k].pc
            /\ call.cleanup = calls[k].cleanup /\ call.answer = answer
    BY <1>1 DEF Call
  <1>3. (\E i \in DOMAIN queue : Awaits(calls[k], queue[i]))
           <=> Waits(calls[k]) /\ calls[k].command \in Elements(queue)
    BY DEF Awaits, Waits, Elements
  <1> QED BY <1>2, <1>3 DEF Answered

\* How the work on a command goes on: it is answered, or mpv is started for it.
Carries(op) ==
    \/ launch' # NoLaunch /\ launch'.command = op /\ UNCHANGED calls
    \/ launch' = NoLaunch /\ \E answer \in Answer \ {"None"} : calls' = Answered(<<op>>, answer)

\* op left its place, and nothing else did.
TakenOut(op) ==
    /\ Injective(channel') /\ Injective(deferred')
    /\ Elements(channel') \cap Elements(deferred') = {}
    /\ op \notin Queued'
    /\ Sent = (Queued' \cup {op}) \ {NoCommand}

LEMMA CarriesKeeps ==
    ASSUME TypeOK, CallInv, NEW op, TakenOut(op), Carries(op),
           NoCommand \notin Queued'
    PROVE  CallInv'
  <1>1. CASE launch' # NoLaunch /\ launch'.command = op /\ UNCHANGED calls
    <2>1. Held' = {op}
      BY <1>1 DEF Held
    <2>2. Apart' /\ Sent' = Sent \ {}
      BY <2>1 DEF TakenOut, Apart, Sent
    <2>3. Settles({})
      BY <1>1, <2>2 DEF Settles
    <2> QED BY <2>3, SettlesKeeps
  <1>2. ASSUME NEW answer \in Answer \ {"None"}, calls' = Answered(<<op>>, answer),
               launch' = NoLaunch
        PROVE  CallInv'
    <2>1. Held' = {}
      BY <1>2 DEF Held
    <2>2. Apart' /\ Sent' = Sent \ {op}
      BY <2>1 DEF TakenOut, Apart, Sent
    <2>3. Elements(<<op>>) = {op}
      BY DEF Elements
    <2>4. Settles({op})
      BY <1>2, <2>2, <2>3, AnsweredSettles DEF Settles
    <2> QED BY <2>4, SettlesKeeps
  <1> QED BY <1>1, <1>2 DEF Carries

LEMMA RepliesCarries ==
    ASSUME NEW op, NEW answer \in Answer \ {"None"}, NEW s, Replies(op, answer, s)
    PROVE  Carries(op)
  BY DEF Replies, Carries

LEMMA LaunchesCarries ==
    ASSUME NEW op \in Command \cup {NoCommand}, NEW shown, NEW s,
           NEW kind \in {"Start", "Switch"}, NEW revision \in Nat, NEW fallback \in BOOLEAN,
           Launches(op, shown, s, kind, revision, fallback)
    PROVE  Carries(op)
  <1>1. launch' \in Launch /\ launch'.command = op
    BY DEF Launches, Launch
  <1> QED BY <1>1, ControlNoneAssumption DEF Launches, Carries

\* transition_to_fallback and neutralize_to_source_with_fallback.
LEMMA FallbackCarries ==
    ASSUME TypeOK, NEW op \in Command \cup {NoCommand}, NEW s,
           FallsBack(op, s) \/ NeutralizationFails(op, s)
    PROVE  Carries(op)
  <1>1. gate.revision \in Nat
    BY DEF TypeOK, Gate
  <1>2. \/ Replies(op, "Ok", OriginalFailed(s)) \/ Replies(op, "Err", OriginalFailed(s))
        \/ Launches(op, s, Demoted(s), "Start", gate.revision, TRUE)
    BY DEF FallsBack, NeutralizationFails
  <1> QED BY <1>1, <1>2, RepliesCarries, LaunchesCarries DEF Answer

LEMMA HandleEnsureCarries ==
    ASSUME TypeOK, NEW op \in Command, HandleEnsure(op)
    PROVE  Carries(op)
  <1> DEFINE begun == GenerationBegun(rt, op.cursor.generation)
             bound == [begun EXCEPT !.session = op.cursor]
  <1>1. op \in Command \cup {NoCommand} /\ op.revision \in Nat
    BY CommandType
  <1>2. \/ Replies(op, "Ok", rt) \/ Replies(op, "Err", rt) \/ Replies(op, "Err", begun)
        \/ Launches(op, rt, bound, "Switch", op.revision, FALSE)
        \/ \E s \in AfterShaderCheck(bound) :
              \/ Replies(op, "Ok", IdentityRecorded(s))
              \/ NeutralizationFails(op, s)
              \/ Launches(op, rt, ProcessStopped(s), "Start", op.revision, FALSE)
    BY DEF HandleEnsure
  <1> HIDE DEF begun, bound
  <1> QED BY <1>1, <1>2, RepliesCarries, LaunchesCarries, FallbackCarries DEF Answer

LEMMA HandleConfigureCarries ==
    ASSUME TypeOK, NEW op \in Command, HandleConfigure(op)
    PROVE  Carries(op)
  <1> DEFINE clean == CycleInvalidated(rt)
             begun == GenerationBegun(clean, op.cursor.generation)
             bound == [begun EXCEPT !.session = op.cursor]
  <1>1. op \in Command \cup {NoCommand} /\ op.revision \in Nat
    BY CommandType
  <1>2. \/ Replies(op, "Err", clean) \/ Replies(op, "Err", begun)
        \/ Launches(op, clean, bound, "Switch", op.revision, FALSE)
        \/ Replies(op, "Ok", bound) \/ Replies(op, "Err", bound)
        \/ Launches(op, clean, Demoted(bound), "Start", op.revision, TRUE)
        \/ Replies(op, "Ok", IdentityRecorded(bound)) \/ Replies(op, "Err", IdentityRecorded(bound))
        \/ Launches(op, clean, ProcessStopped(bound), "Start", op.revision, FALSE)
    BY DEF HandleConfigure, ConfigureAnswers
  <1> HIDE DEF clean, begun, bound
  <1> QED BY <1>1, <1>2, RepliesCarries, LaunchesCarries DEF Answer

LEMMA HandleIntentCarries ==
    ASSUME TypeOK, NEW op \in Command, HandleIntent(op)
    PROVE  Carries(op)
  <1>1. op \in Command \cup {NoCommand}
    OBVIOUS
  <1>2. \/ \E s : Replies(op, "Ok", s) \/ Replies(op, "Err", s)
        \/ FallsBack(op, rt)
    BY DEF HandleIntent
  <1> QED BY <1>1, <1>2, RepliesCarries, FallbackCarries DEF Answer

LEMMA HandleAdvanceCarries ==
    ASSUME TypeOK, NEW op \in Command, HandleAdvance(op)
    PROVE  Carries(op)
  <1> DEFINE clean == [rt EXCEPT !.ipc = "None"]
             bound == [GenerationBegun(clean, op.cursor.generation) EXCEPT !.session = op.cursor]
  <1>1. op \in Command \cup {NoCommand} /\ op.revision \in Nat
    BY CommandType
  <1>2. \/ \E s : Replies(op, "Ok", s) \/ Replies(op, "Err", s) \/ Replies(op, "Stale", s)
        \/ FallsBack(op, clean)
        \/ Launches(op, clean, bound, "Switch", op.revision, FALSE)
    BY DEF HandleAdvance
  <1> HIDE DEF clean, bound
  <1> QED BY <1>1, <1>2, RepliesCarries, LaunchesCarries, FallbackCarries DEF Answer

\* The command that the actor reads from its channel is nowhere else.
LEMMA ReadsChannelTakes ==
    ASSUME TypeOK, CallInv, NEW op, ReadsChannel(op)
    PROVE  /\ op \in Command /\ op \in Elements(channel) /\ op \notin Elements(deferred)
           /\ Elements(channel') = Elements(channel) \ {op} /\ Injective(channel')
           /\ Held = {}
  <1>1. channel \in Seq(Command) /\ Injective(channel)
    BY DEF TypeOK, CallInv, Apart
  <1>2. channel # <<>> /\ op = Head(channel) /\ channel' = Tail(channel) /\ launch = NoLaunch
    BY DEF ReadsChannel, ActorFree
  <1>3. /\ op \in Elements(channel) /\ Elements(channel') = Elements(channel) \ {op}
        /\ Injective(channel')
    BY <1>1, <1>2, TakenApart
  <1> QED BY <1>2, <1>3, QueuedType DEF CallInv, Apart, Held

LEMMA HandlesTakes ==
    ASSUME TypeOK, CallInv, NEW op, NEW kind, Handles(op, kind)
    PROVE  op \in Command /\ TakenOut(op) /\ NoCommand \notin Queued'
  <1>1. Queued \subseteq Command /\ NoCommand \notin Command
    BY QueuedType, ControlNoneAssumption DEF Queued
  <1>2. CASE ReadsChannel(op) /\ UNCHANGED deferred
    <2>1. /\ op \in Command /\ op \in Elements(channel) /\ op \notin Elements(deferred)
          /\ Elements(channel') = Elements(channel) \ {op} /\ Injective(channel')
          /\ Held = {}
      BY <1>2, ReadsChannelTakes
    <2>2. Elements(deferred') = Elements(deferred) /\ Injective(deferred')
      BY <1>2 DEF CallInv, Apart
    <2> QED BY <1>1, <2>1, <2>2 DEF CallInv, Apart, TakenOut, Sent, Queued
  <1>3. CASE /\ ActorFree /\ deferred # <<>> /\ op = Head(deferred)
             /\ deferred' = Tail(deferred) /\ UNCHANGED channel
    <2>1. deferred \in Seq(Command) /\ Injective(deferred)
      BY DEF TypeOK, CallInv, Apart
    <2>2. /\ op \in Elements(deferred) /\ Elements(deferred') = Elements(deferred) \ {op}
          /\ Injective(deferred')
      BY <1>3, <2>1, TakenApart
    <2>3. Elements(channel') = Elements(channel) /\ Injective(channel')
      BY <1>3 DEF CallInv, Apart
    <2>4. Held = {}
      BY <1>3 DEF ActorFree, Held
    <2> QED BY <1>1, <2>2, <2>3, <2>4 DEF CallInv, Apart, TakenOut, Sent, Queued
  <1> QED BY <1>2, <1>3 DEF Handles

\* actor_loop defers a command, or rejects it for want of room.
LEMMA DeferKeeps ==
    ASSUME TypeOK, CallInv, NEW op, Defer(op)
    PROVE  CallInv'
  <1>1. /\ op \in Command /\ op \in Elements(channel) /\ op \notin Elements(deferred)
        /\ Elements(channel') = Elements(channel) \ {op} /\ Injective(channel')
        /\ Held = {} /\ op # NoCommand
    BY ReadsChannelTakes, ControlNoneAssumption DEF Defer
  <1>2. Held' = {}
    BY <1>1 DEF Defer, Held
  <1>3. CASE deferred' = Append(deferred, op) /\ UNCHANGED calls
    <2>1. deferred \in Seq(Command) /\ Injective(deferred)
      BY DEF TypeOK, CallInv, Apart
    <2>2. Injective(deferred') /\ Elements(deferred') = Elements(deferred) \cup {op}
      BY <1>1, <1>3, <2>1, AppendedApart
    <2>3. Apart' /\ Sent' = Sent \ {}
      BY <1>1, <1>2, <2>2 DEF CallInv, Apart, Sent, Queued
    <2>4. Settles({})
      BY <1>3, <2>3 DEF Settles
    <2> QED BY <2>4, SettlesKeeps
  <1>4. CASE calls' = Answered(<<op>>, "Err") /\ UNCHANGED deferred
    <2>1. Injective(deferred') /\ Elements(deferred') = Elements(deferred)
      BY <1>4 DEF CallInv, Apart
    <2>2. Apart' /\ Sent' = Sent \ {op}
      BY <1>1, <1>2, <2>1 DEF CallInv, Apart, Sent, Queued
    <2>3. Elements(<<op>>) = {op}
      BY DEF Elements
    <2>4. Settles({op})
      BY <1>4, <2>2, <2>3, AnsweredSettles DEF Settles, Answer
    <2> QED BY <2>4, SettlesKeeps
  <1> QED BY <1>3, <1>4 DEF Defer

\* Stop and Suspend answer what was deferred before them.
LEMMA AbortingKeeps ==
    ASSUME TypeOK, CallInv, NEW op, NEW kind, NEW s, Aborting(op, kind, s)
    PROVE  CallInv'
  <1>1. /\ op \in Command /\ op \in Elements(channel) /\ op \notin Elements(deferred)
        /\ Elements(channel') = Elements(channel) \ {op} /\ Injective(channel')
        /\ Held = {}
    BY ReadsChannelTakes DEF Aborting
  <1>2. Held' = {} /\ deferred' = <<>>
    BY <1>1 DEF Aborting, Held
  <1>3. Injective(deferred') /\ Elements(deferred') = {}
    BY <1>2, EmptyApart
  <1>4. Apart' /\ Sent' = Sent \ ({op} \cup Elements(deferred))
    BY <1>1, <1>2, <1>3 DEF CallInv, Apart, Sent, Queued
  <1>5. ASSUME NEW k \in Callers
        PROVE  /\ calls'[k].command = calls[k].command /\ calls'[k].pc = calls[k].pc
               /\ calls'[k].cleanup = calls[k].cleanup
               /\ IF Waits(calls[k]) /\ calls[k].command \in {op} \cup Elements(deferred)
                  THEN calls'[k].answer # "None" ELSE calls'[k].answer = calls[k].answer
    <2> DEFINE other == Answered(deferred, "Stale")[k]
    <2>1. calls[k] \in Call
      BY DEF TypeOK
    <2>2. calls'[k] = IF Awaits(calls[k], op) THEN [calls[k] EXCEPT !.answer = "Ok"] ELSE other
      BY DEF Aborting
    <2>3. LET call == [calls[k] EXCEPT !.answer = "Ok"]
          IN  /\ call.command = calls[k].command /\ call.pc = calls[k].pc
              /\ call.cleanup = calls[k].cleanup /\ call.answer = "Ok"
      BY <2>1 DEF Call
    <2>4. /\ other.command = calls[k].command /\ other.pc = calls[k].pc
          /\ other.cleanup = calls[k].cleanup
          /\ IF Waits(calls[k]) /\ calls[k].command \in Elements(deferred)
             THEN other.answer = "Stale" ELSE other.answer = calls[k].answer
      BY AnsweredSettles DEF Answer
    <2> HIDE DEF other
    <2>5. Awaits(calls[k], op) <=> Waits(calls[k]) /\ calls[k].command = op
      BY DEF Awaits, Waits
    <2> QED BY <2>2, <2>3, <2>4, <2>5
  <1> QED BY <1>4, <1>5, SettlesKeeps DEF Settles

LEMMA HandleKeeps ==
    ASSUME TypeOK, CallInv, NEW op, Handle(op)
    PROVE  CallInv'
  <1>1. ASSUME NEW kind, Handles(op, kind), op \in Command => Carries(op) PROVE CallInv'
    BY <1>1, HandlesTakes, CarriesKeeps
  <1>2. CASE HandleEnsure(op)
    BY <1>1, <1>2, HandleEnsureCarries DEF HandleEnsure
  <1>3. CASE HandleConfigure(op)
    BY <1>1, <1>3, HandleConfigureCarries DEF HandleConfigure
  <1>4. CASE HandleIntent(op)
    BY <1>1, <1>4, HandleIntentCarries DEF HandleIntent
  <1>5. CASE HandleAdvance(op)
    BY <1>1, <1>5, HandleAdvanceCarries DEF HandleAdvance
  <1>6. CASE HandleRecordSource(op)
    BY <1>1, <1>6, RepliesCarries DEF HandleRecordSource, Answer
  <1>7. CASE HandleSetProcessing(op)
    <2>1. op \in Command => Carries(op)
      BY <1>7, RepliesCarries, FallbackCarries DEF HandleSetProcessing, Answer
    <2> QED BY <1>1, <1>7, <2>1 DEF HandleSetProcessing
  <1> QED BY <1>2, <1>3, <1>4, <1>5, <1>6, <1>7, DeferKeeps, AbortingKeeps
          DEF Handle, HandleStop, HandleSuspend

\* Whatever becomes of a launch, its command is answered or stays in the hands of the actor.
LEMMA LaunchEndsKeeps ==
    ASSUME TypeOK, CallInv, LaunchEnds
    PROVE  CallInv'
  <1> DEFINE op == launch.command
  <1>1. Launching
    BY DEF LaunchEnds, LaunchSucceeds, LaunchNeutralizationFails, LaunchAbandoned, LaunchFails, SwitchCancelled, SwitchFails
  <1>2. Queued' = Queued /\ Held = {op} /\ launch \in Launch
    BY <1>1 DEF Launching, Queued, Held, TypeOK
  <1>3. TakenOut(op)
    BY <1>1, <1>2 DEF Launching, TakenOut, Sent, CallInv, Apart
  <1>4. NoCommand \notin Queued'
    BY <1>2, QueuedType, ControlNoneAssumption DEF Queued
  <1>5. SUFFICES Carries(op)
    BY <1>3, <1>4, CarriesKeeps
  <1>6. ASSUME UNCHANGED calls,
               \/ launch' = [launch EXCEPT !.fallback = TRUE]
               \/ launch' = [launch EXCEPT !.kind = "Start"]
               \/ launch' = [launch EXCEPT !.kind = "Start", !.fallback = TRUE]
        PROVE  Carries(op)
    <2>1. launch' \in Launch /\ launch'.command = op
      BY <1>2, <1>6 DEF Launch
    <2> QED BY <1>6, <2>1, ControlNoneAssumption DEF Carries
  <1>7. ASSUME NEW s, NEW answer \in {"Ok", "Err", "Stale"}, Replies(op, answer, s) PROVE Carries(op)
    BY <1>7, RepliesCarries DEF Answer
  <1>8. AnswersWithoutProcess \subseteq {"Ok", "Err"}
    BY DEF AnswersWithoutProcess
  <1>9. CASE LaunchSucceeds
    BY <1>7, <1>9 DEF LaunchSucceeds, ConfigureAnswers
  <1>10. CASE LaunchNeutralizationFails
    BY <1>6, <1>10 DEF LaunchNeutralizationFails
  <1>11. CASE LaunchAbandoned
    BY <1>7, <1>8, <1>11 DEF LaunchAbandoned
  <1>12. CASE LaunchFails
    BY <1>6, <1>7, <1>8, <1>12 DEF LaunchFails
  <1>13. CASE SwitchCancelled
    BY <1>7, <1>13 DEF SwitchCancelled
  <1>14. CASE SwitchFails
    BY <1>6, <1>7, <1>14 DEF SwitchFails
  <1> QED BY <1>9, <1>10, <1>11, <1>12, <1>13, <1>14 DEF LaunchEnds

LEMMA RendererFailsKeeps ==
    ASSUME TypeOK, CallInv, RendererFails
    PROVE  CallInv'
  <1>1. NoCommand \notin Queued /\ Held = {} /\ Queued' = Queued
    BY QueuedType, ControlNoneAssumption DEF Queued, Held, RendererFails, Ticking, ActorFree
  <1>2. TakenOut(NoCommand)
    BY <1>1 DEF RendererFails, TakenOut, Sent, CallInv, Apart
  <1>3. Carries(NoCommand)
    BY FallbackCarries DEF RendererFails
  <1> QED BY <1>1, <1>2, <1>3, CarriesKeeps

\* A step that leaves the queues, the launch and the calls alone.
LEMMA IdleKeeps ==
    ASSUME CallInv, UNCHANGED <<channel, deferred, launch, calls>>
    PROVE  CallInv'
  BY DEF CallInv, Apart, Owned, Courses, Unanswered, Sent, Queued, Held

LEMMA TicksKeep ==
    ASSUME CallInv, Ticks
    PROVE  CallInv'
  BY IdleKeeps DEF Ticks, ProbeBegins, ProbeEnds, ShaderConfirmed, FramePresented, EofObserved, Tick

\* The actor that ends answers or drops whatever was sent to it.
LEMMA ActorEndsKeeps ==
    ASSUME TypeOK, CallInv, ActorEnds
    PROVE  CallInv'
  <1> DEFINE all == deferred \o channel
  <1>1. deferred \in Seq(Command) /\ channel \in Seq(Command)
    BY DEF TypeOK
  <1>2. Elements(all) = Queued
    <2>1. /\ Len(deferred) \in Nat /\ DOMAIN deferred = 1..Len(deferred)
          /\ Len(channel) \in Nat /\ DOMAIN channel = 1..Len(channel)
      BY <1>1, LenProperties
    <2>2. /\ all \in Seq(Command) /\ Len(all) = Len(deferred) + Len(channel)
          /\ \A i \in 1..Len(all) :
                all[i] = IF i <= Len(deferred) THEN deferred[i] ELSE channel[i - Len(deferred)]
      BY <1>1, ConcatProperties
    <2>3. DOMAIN all = 1..(Len(deferred) + Len(channel))
      BY <2>2, LenProperties
    <2> HIDE DEF all
    <2>4. Elements(all) \subseteq Queued
      <3> SUFFICES ASSUME NEW i \in 1..(Len(deferred) + Len(channel)) PROVE all[i] \in Queued
        BY <2>3 DEF Elements
      <3>1. CASE i <= Len(deferred)
        BY <2>1, <2>2, <3>1 DEF Queued, Elements
      <3>2. CASE ~(i <= Len(deferred))
        <4>1. i - Len(deferred) \in DOMAIN channel /\ all[i] = channel[i - Len(deferred)]
          BY <2>1, <2>2, <3>2
        <4> QED BY <4>1 DEF Queued, Elements
      <3> QED BY <3>1, <3>2
    <2>5. Elements(deferred) \subseteq Elements(all)
      BY <2>1, <2>2, <2>3 DEF Elements
    <2>6. Elements(channel) \subseteq Elements(all)
      <3> SUFFICES ASSUME NEW i \in DOMAIN channel PROVE channel[i] \in Elements(all)
        BY DEF Elements
      <3>1. Len(deferred) + i \in DOMAIN all /\ all[Len(deferred) + i] = channel[i]
        BY <2>1, <2>2, <2>3
      <3> QED BY <3>1 DEF Elements
    <2> QED BY <2>4, <2>5, <2>6 DEF Queued
  <1>3. Held = {} /\ Held' = {}
    BY DEF ActorEnds, Held
  <1>4. Apart' /\ Sent' = {}
    BY <1>3, EmptyApart DEF ActorEnds, Apart, Sent, Queued
  <1>5. Sent \subseteq Queued
    BY <1>3 DEF Sent
  <1>6. calls' = Answered(all, "Err")
    BY DEF ActorEnds
  <1> HIDE DEF all
  <1>7. Settles(Elements(all))
    BY <1>2, <1>4, <1>5, <1>6, AnsweredSettles DEF Settles, Answer
  <1> QED BY <1>7, SettlesKeeps

-----------------------------------------------------------------------------
(* The steps of the callers *)

\* A step of the caller k: its call goes on as its course allows, and at most its
\* command is sent.
Proceeds(k) ==
    /\ \A j \in Callers \ {k} : calls'[j] = calls[j]
    /\ Course(k, calls'[k])
    /\ \A op \in Sent' : op.caller = k => Mine(op, calls'[k])
    /\ Waits(calls'[k]) => (calls'[k].answer = "None" <=> calls'[k].command \in Sent')
    /\ Apart'
    /\ \A op \in Sent \cup Sent' : op.caller # k => op \in Sent /\ op \in Sent'

LEMMA ProceedsKeeps ==
    ASSUME TypeOK, CallInv, NEW k \in Callers, Proceeds(k), Sent' \subseteq Command
    PROVE  CallInv'
  <1>1. Owned'
    <2> SUFFICES ASSUME NEW op \in Sent' PROVE Mine(op, calls'[op.caller])
      BY DEF Owned, Mine, Earlier
    <2>1. CASE op.caller = k
      BY <2>1 DEF Proceeds
    <2>2. CASE op.caller # k
      <3>1. op \in Sent /\ op.caller \in Callers
        BY <2>2, CommandType DEF Proceeds
      <3> QED BY <2>2, <3>1 DEF Proceeds, CallInv, Owned
    <2> QED BY <2>1, <2>2
  <1>2. Courses'
    <2> SUFFICES ASSUME NEW j \in Callers PROVE Course(j, calls'[j])
      BY DEF Courses, Course
    <2> QED BY DEF Proceeds, CallInv, Courses
  <1>3. Unanswered'
    <2> SUFFICES ASSUME NEW j \in Callers, Waits(calls'[j])
                 PROVE  calls'[j].answer = "None" <=> calls'[j].command \in Sent'
      BY DEF Unanswered, Waits
    <2>1. CASE j = k
      BY <2>1 DEF Proceeds
    <2>2. CASE j # k
      <3>1. calls'[j] = calls[j] /\ calls[j] \in Call
        BY <2>2 DEF Proceeds, TypeOK
      <3>2. calls[j].answer = "None" <=> calls[j].command \in Sent
        BY <3>1 DEF CallInv, Unanswered
      <3>3. calls[j].command \in Sent \cup Sent' => calls[j].command.caller # k
        BY <2>2 DEF CallInv, Courses, Course, Sent
      <3> QED BY <3>1, <3>2, <3>3 DEF Proceeds
    <2> QED BY <2>1, <2>2
  <1> QED BY <1>1, <1>2, <1>3 DEF CallInv, Proceeds

\* What the invariant says of one caller.
LEMMA CallerFacts ==
    ASSUME TypeOK, CallInv, NEW k \in Callers
    PROVE  /\ calls[k] \in Call /\ Course(k, calls[k])
           /\ calls[k].pc \in Working =>
                 calls[k].command \in Command /\ calls[k].command.caller = k
           /\ \A op \in Sent : op.caller = k => Mine(op, calls[k])
           /\ Sent \subseteq Command
  <1>1. calls[k] \in Call /\ Course(k, calls[k])
    BY DEF TypeOK, CallInv, Courses
  <1>2. calls[k].pc \in Working => calls[k].command \in Command
    BY <1>1, CourseType DEF Returned
  <1>3. Sent \subseteq Command
    BY QueuedType, QueuedCommands DEF Sent, Queued, Held
  <1>4. \A op \in Sent : op.caller = k => Mine(op, calls[k])
    BY DEF CallInv, Owned
  <1> QED BY <1>1, <1>2, <1>3, <1>4, ControlNoneAssumption DEF Course

\* A step of a caller that sends nothing.
LEMMA QuietKeeps ==
    ASSUME TypeOK, CallInv, NEW k \in Callers, NEW new,
           UNCHANGED <<channel, deferred, launch>>,
           calls'[k] = new, \A j \in Callers \ {k} : calls'[j] = calls[j],
           Course(k, new),
           \A op \in Sent : op.caller = k => Mine(op, new),
           Waits(new) => (new.answer = "None" <=> new.command \in Sent)
    PROVE  CallInv'
  <1>1. Sent' = Sent
    BY DEF Sent, Queued, Held
  <1>2. Apart'
    BY DEF CallInv, Apart, Queued, Held
  <1>3. Proceeds(k)
    BY <1>1, <1>2 DEF Proceeds
  <1> QED BY <1>1, <1>3, CallerFacts, ProceedsKeeps

\* A caller that has sent nothing yet.
LEMMA NothingSent ==
    ASSUME TypeOK, CallInv, NEW k \in Callers, ~calls[k].cleanup,
           calls[k].pc \notin {"Publishing", "Waiting"} \cup Returned
    PROVE  \A op \in Sent : op.caller # k
  BY CallerFacts DEF Mine, Earlier

LEMMA EnterKeeps ==
    ASSUME TypeOK, CallInv, NEW k \in Callers, Enter(k)
    PROVE  CallInv'
  <1>1. PICK kind \in Kinds \ {"Complete"} : \E cursor \in Requests(kind) :
           calls' = [calls EXCEPT ![k] = Composed(k, kind, cursor, FALSE)]
    BY DEF Enter
  <1>2. PICK cursor \in Requests(kind) :
           calls' = [calls EXCEPT ![k] = Composed(k, kind, cursor, FALSE)]
    BY <1>1
  <1> DEFINE new == Composed(k, kind, cursor, FALSE)
  <1>3. calls[k].pc = "Idle" /\ UNCHANGED <<channel, deferred, launch>>
    BY DEF Enter, actorVars
  <1>4. ~calls[k].cleanup
    BY <1>3, CallerFacts DEF Course, Call, Working, Returned
  <1>5. \A op \in Sent : op.caller # k
    BY <1>3, <1>4, NothingSent DEF Returned
  <1>6. Course(k, new) /\ ~Waits(new)
    BY DEF Composed, Course, Waits
  <1>7. calls'[k] = new /\ \A j \in Callers \ {k} : calls'[j] = calls[j]
    BY <1>2 DEF TypeOK
  <1> HIDE DEF new
  <1> QED BY <1>3, <1>5, <1>6, <1>7, QuietKeeps

LEMMA CompleteKeeps ==
    ASSUME TypeOK, CallInv, NEW k \in Callers, Complete(k)
    PROVE  CallInv'
  <1> DEFINE new == [calls[k] EXCEPT !.pc = "Done"]
  <1>1. calls[k].pc = "Idle" /\ UNCHANGED <<channel, deferred, launch>>
    BY DEF Complete, actorVars
  <1>2. /\ calls[k] \in Call /\ Course(k, calls[k])
        /\ new.pc = "Done" /\ new.command = calls[k].command /\ new.cleanup = calls[k].cleanup
    BY CallerFacts DEF Call
  <1>3. ~calls[k].cleanup
    BY <1>1, <1>2 DEF Course, Call, Working, Returned
  <1>4. \A op \in Sent : op.caller # k
    BY <1>1, <1>3, NothingSent DEF Returned
  <1>5. calls'[k] = new /\ \A j \in Callers \ {k} : calls'[j] = calls[j]
    BY DEF TypeOK, Complete
  <1> HIDE DEF new
  <1>6. Course(k, new) /\ ~Waits(new)
    BY <1>2, <1>3 DEF Course, Waits
  <1> QED BY <1>1, <1>4, <1>5, <1>6, QuietKeeps

\* A caller goes on from pc to pc: it sent its present command before, or has not
\* sent it, and the answer is the one it has.
LEMMA GoesOnKeeps ==
    ASSUME TypeOK, CallInv, NEW k \in Callers, calls[k].pc \in Working,
           NEW pc \in Working \cup Returned,
           calls' = [calls EXCEPT ![k].pc = pc], UNCHANGED <<channel, deferred, launch>>,
           Waits(calls[k]) => pc \in {"Publishing", "Waiting"} \cup Returned,
           pc \in {"Publishing", "Waiting"} => Waits(calls[k]),
           pc \in {"Composed", "Leased", "Ready", "Sending"} =>
              calls[k].pc \in {"Composed", "Leased", "Ready", "Sending"}
    PROVE  CallInv'
  <1> DEFINE new == [calls[k] EXCEPT !.pc = pc]
  <1>1. /\ new.pc = pc /\ new.command = calls[k].command /\ new.cleanup = calls[k].cleanup
        /\ new.answer = calls[k].answer
    BY CallerFacts DEF Call
  <1>2. calls'[k] = new /\ \A j \in Callers \ {k} : calls'[j] = calls[j]
    BY DEF TypeOK
  <1> HIDE DEF new
  <1>3. Course(k, new)
    BY <1>1, CallerFacts DEF Course
  <1>4. \A op \in Sent : op.caller = k => Mine(op, new)
    BY <1>1, CallerFacts DEF Mine, Earlier, Waits, Working, Returned
  <1>5. Waits(new) => (new.answer = "None" <=> new.command \in Sent)
    BY <1>1 DEF CallInv, Unanswered, Waits
  <1> QED BY <1>2, <1>3, <1>4, <1>5, QuietKeeps

\* The end of a command, or the next command of the cleanup, which leaves the
\* commands before it where they are.
LEMMA EndsKeeps ==
    ASSUME TypeOK, CallInv, NEW k \in Callers, calls[k].pc \in Working,
           NEW outcome \in Returned, Ends(k, outcome), UNCHANGED <<channel, deferred, launch>>
    PROVE  CallInv'
  <1>1. CASE calls' = [calls EXCEPT ![k].pc = outcome]
    <2>1. outcome \in Working \cup Returned /\ outcome \notin Working
      BY DEF Working, Returned
    <2> QED BY <1>1, <2>1, GoesOnKeeps DEF Working, Returned
  <1>2. ASSUME NEW next \in {"RecordSource", "Stop"},
               calls' = [calls EXCEPT ![k] = Composed(k, next, NoCursor, TRUE)],
               \/ next = "RecordSource" /\ calls[k].command.kind = "Advance"
               \/ next = "Stop" /\ calls[k].cleanup /\ calls[k].command.kind = "RecordSource"
        PROVE  CallInv'
    <2> DEFINE new == Composed(k, next, NoCursor, TRUE)
    <2>1. new \in Call /\ new.pc = "Composed"
      BY ComposedType DEF Controls, Composed
    <2>2. new.command # NoCommand
      BY <2>1, ControlNoneAssumption DEF Call, Working
    <2>3. Course(k, new) /\ ~Waits(new) /\ new.cleanup = TRUE /\ new.command.kind = next
      BY <1>2, <2>2 DEF Composed, Course, Waits
    <2>4. calls'[k] = new /\ \A j \in Callers \ {k} : calls'[j] = calls[j]
      BY <1>2 DEF TypeOK
    <2> HIDE DEF new
    <2>5. \A op \in Sent : op.caller = k => Mine(op, new)
      BY <1>2, <2>3, CallerFacts DEF Mine, Earlier, Course
    <2> QED BY <2>3, <2>4, <2>5, QuietKeeps
  <1> QED BY <1>1, <1>2 DEF Ends, RequiresCleanup

\* The lease changes the command of a caller that has sent nothing.
LEMMA RegisterKeeps ==
    ASSUME TypeOK, CallInv, NEW k \in Callers, Register(k)
    PROVE  CallInv'
  <1> DEFINE op == calls[k].command
             pc == IF op.kind = "Ensure" THEN "Leased" ELSE "Ready"
             new == [calls[k] EXCEPT !.pc = pc, !.command = [op EXCEPT !.revision = gate'.revision]]
  <1>1. calls[k].pc = "Composed" /\ op.kind \in Cursored /\ UNCHANGED <<channel, deferred, launch>>
    BY DEF Register, actorVars
  <1>2. calls[k].pc \in Working
    BY <1>1 DEF Working
  <1>3. CASE Ends(k, "Stale")
    BY <1>1, <1>2, <1>3, EndsKeeps DEF Returned
  <1>4. CASE calls' = [calls EXCEPT ![k].pc = pc, ![k].command.revision = gate'.revision]
    <2>1. calls'[k] = new /\ \A j \in Callers \ {k} : calls'[j] = calls[j]
      BY <1>4 DEF TypeOK
    <2>2. /\ calls[k] \in Call /\ Course(k, calls[k]) /\ op \in Command /\ op.caller = k
      BY <1>2, CallerFacts
    <2>3. ~calls[k].cleanup
      BY <1>1, <2>2 DEF Course, Cursored, Rendering, Intents
    <2>4. \A sent \in Sent : sent.caller # k
      BY <1>1, <2>3, NothingSent DEF Returned
    <2>5. [op EXCEPT !.revision = gate'.revision].caller = k
      BY <2>2 DEF Command, CursoredCommand, AdvanceCommand, PlainCommand
    <2>6. /\ new.pc = pc /\ new.answer = calls[k].answer /\ new.cleanup = calls[k].cleanup
          /\ new.command = [op EXCEPT !.revision = gate'.revision]
      BY <2>2 DEF Call
    <2> HIDE DEF new, op
    <2>7. Course(k, new) /\ ~Waits(new)
      BY <1>1, <2>2, <2>3, <2>5, <2>6 DEF Course, Waits
    <2> QED BY <1>1, <2>1, <2>4, <2>7, QuietKeeps
  <1> QED BY <1>3, <1>4 DEF Register

\* The command of a caller enters the channel, where no other is like it.
LEMMA SendsKeep ==
    ASSUME TypeOK, CallInv, NEW k \in Callers, TrySend(k) \/ Send(k)
    PROVE  CallInv'
  <1> DEFINE op == calls[k].command
  <1>1. calls[k].pc \in {"Ready", "Sending"} /\ UNCHANGED <<deferred, launch>>
    BY DEF TrySend, Send
  <1>2. calls[k].pc \in Working
    BY <1>1 DEF Working
  <1>3. CASE UNCHANGED channel /\ Ends(k, "Failed")
    BY <1>1, <1>2, <1>3, EndsKeeps DEF Returned
  <1>4. ASSUME NEW pc \in {"Waiting", "Publishing"},
               channel' = Append(channel, op), calls' = [calls EXCEPT ![k].pc = pc]
        PROVE  CallInv'
    <2> DEFINE new == [calls[k] EXCEPT !.pc = pc]
    <2>1. /\ calls[k] \in Call /\ Course(k, calls[k]) /\ op \in Command /\ op.caller = k
          /\ op # NoCommand
          /\ \A sent \in Sent : sent.caller = k => Mine(sent, calls[k])
          /\ Sent \subseteq Command
      BY <1>2, CallerFacts, ControlNoneAssumption
    <2>2. /\ new.pc = pc /\ new.answer = calls[k].answer /\ new.cleanup = calls[k].cleanup
          /\ new.command = op
      BY <2>1 DEF Call
    <2>3. calls'[k] = new /\ \A j \in Callers \ {k} : calls'[j] = calls[j]
      BY <1>4 DEF TypeOK
    <2> HIDE DEF new
    <2>4. op \notin Sent
      BY <1>1, <2>1 DEF Mine, Earlier, Course, Returned
    <2>5. op \notin Queued /\ op \notin Held
      BY <2>1, <2>4 DEF Sent
    <2>6. /\ Injective(channel') /\ Elements(channel') = Elements(channel) \cup {op}
      BY <1>4, <2>1, <2>5, AppendedApart DEF TypeOK, CallInv, Apart, Queued
    <2>7. Held' = Held /\ Elements(deferred') = Elements(deferred) /\ Injective(deferred')
      BY <1>1 DEF Held, CallInv, Apart
    <2>8. Apart' /\ Sent' = Sent \cup {op}
      BY <2>1, <2>5, <2>6, <2>7 DEF CallInv, Apart, Sent, Queued
    <2>9. Course(k, new)
      BY <2>1, <2>2 DEF Course
    <2>10. \A sent \in Sent' : sent.caller = k => Mine(sent, new)
      BY <1>1, <2>1, <2>2, <2>8 DEF Mine, Earlier, Returned
    <2>11. new.answer = "None"
      BY <1>1, <2>1, <2>2 DEF Course
    <2>12. Proceeds(k)
      BY <2>1, <2>2, <2>3, <2>8, <2>9, <2>10, <2>11 DEF Proceeds
    <2> QED BY <2>1, <2>8, <2>12, ProceedsKeeps
  <1> QED BY <1>3, <1>4 DEF TrySend, Send, Enqueued

LEMMA CallerKeeps ==
    ASSUME TypeOK, CallInv, NEW k \in Callers, Enter(k) \/ Complete(k) \/ CallerStep(k) \/ TimeOut(k)
    PROVE  CallInv'
  <1>1. CASE Validate(k)
    <2>1. /\ calls[k].pc = "Leased" /\ UNCHANGED <<channel, deferred, launch>>
          /\ \E pc \in {"Ready", "Stale"} : calls' = [calls EXCEPT ![k].pc = pc]
      BY <1>1 DEF Validate, actorVars
    <2> QED BY <2>1, GoesOnKeeps DEF Waits, Working, Returned
  <1>2. CASE Lock(k)
    <2>1. /\ calls[k].pc = "Composed" /\ UNCHANGED <<channel, deferred, launch>>
          /\ calls' = [calls EXCEPT ![k].pc = "Sending"] \/ Ends(k, "Failed")
      BY <1>2 DEF Lock, actorVars
    <2> QED BY <2>1, GoesOnKeeps, EndsKeeps DEF Waits, Working, Returned
  <1>3. CASE Publish(k)
    <2>1. /\ calls[k].pc = "Publishing" /\ UNCHANGED <<channel, deferred, launch>>
          /\ calls' = [calls EXCEPT ![k].pc = "Waiting"]
      BY <1>3 DEF Publish, actorVars
    <2> QED BY <2>1, GoesOnKeeps DEF Waits, Working, Returned
  <1>4. CASE CancelInflight(k)
    <2>1. /\ calls[k].pc = "Composed" /\ UNCHANGED <<channel, deferred, launch>>
          /\ calls' = [calls EXCEPT ![k].pc = "Closing"]
      BY <1>4 DEF CancelInflight, actorVars
    <2> QED BY <2>1, GoesOnKeeps DEF Waits, Working, Returned
  <1>5. CASE RequestShutdown(k)
    BY <1>5, IdleKeeps DEF RequestShutdown, actorVars
  <1>6. CASE Join(k)
    <2>1. /\ calls[k].pc = "Closing" /\ UNCHANGED <<channel, deferred, launch>>
          /\ calls' = [calls EXCEPT ![k].pc = "Done"]
      BY <1>6 DEF Join, actorVars
    <2> QED BY <2>1, GoesOnKeeps DEF Waits, Working, Returned
  <1>7. CASE Receive(k) \/ TimeOut(k)
    <2>1. /\ calls[k].pc = "Waiting" /\ UNCHANGED <<channel, deferred, launch>>
          /\ \E outcome \in Returned : Ends(k, outcome)
      BY <1>7 DEF Receive, TimeOut, Returned, actorVars
    <2> QED BY <2>1, EndsKeeps DEF Working
  <1> QED BY <1>1, <1>2, <1>3, <1>4, <1>5, <1>6, <1>7, EnterKeeps, CompleteKeeps, RegisterKeeps,
             SendsKeep DEF CallerStep

-----------------------------------------------------------------------------
(* The invariant and the theorem *)

LEMMA InitCallInv == Init => CallInv
  <1> SUFFICES ASSUME Init PROVE CallInv
    OBVIOUS
  <1>1. channel = <<>> /\ deferred = <<>> /\ launch = NoLaunch
    BY DEF Init
  <1>2. Queued = {} /\ Held = {} /\ Sent = {}
    BY <1>1, EmptyApart DEF Queued, Held, Sent
  <1>3. Apart /\ Owned
    BY <1>1, <1>2, EmptyApart DEF Apart, Owned
  <1>4. Courses /\ Unanswered
    BY DEF Init, Courses, Course, Unanswered, Waits
  <1> QED BY <1>3, <1>4 DEF CallInv

LEMMA NextCallInv == IInv /\ CallInv /\ [Next]_vars => CallInv'
  <1> SUFFICES ASSUME TypeOK, CallInv, [Next]_vars PROVE CallInv'
    BY DEF IInv
  <1>1. CASE UNCHANGED vars
    BY <1>1, IdleKeeps DEF vars
  <1>2. ASSUME NEW k \in Callers, Enter(k) \/ Complete(k) \/ CallerStep(k) \/ TimeOut(k)
        PROVE  CallInv'
    BY <1>2, CallerKeeps
  <1>3. CASE ActorStep
    BY <1>3, HandleKeeps, LaunchEndsKeeps, ActorEndsKeeps DEF ActorStep
  <1> QED BY <1>1, <1>2, <1>3, TicksKeep, RendererFailsKeeps DEF Next

\* A command that was sent has one place, one that was not has none.
LEMMA PlacesOfCommand ==
    ASSUME TypeOK, CallInv, NEW op \in Command
    PROVE  Cardinality(Places(op)) = IF op \in Sent THEN 1 ELSE 0
  <1>1. op # NoCommand
    BY ControlNoneAssumption
  <1>2. CASE op \in Elements(channel)
    <2>1. PICK i \in DOMAIN channel : channel[i] = op
      BY <1>2 DEF Elements
    <2>2. {j \in DOMAIN channel : channel[j] = op} = {i}
      BY <2>1 DEF CallInv, Apart, Injective
    <2>3. {j \in DOMAIN deferred : deferred[j] = op} = {}
      BY <1>2 DEF CallInv, Apart, Elements
    <2>4. ~(launch # NoLaunch /\ launch.command = op)
      BY <1>2 DEF CallInv, Apart, Queued, Held
    <2>5. Places(op) = {<<"channel", i>>}
      BY <2>2, <2>3, <2>4 DEF Places
    <2> QED BY <1>1, <1>2, <2>5, FS_Singleton DEF Sent, Queued
  <1>3. CASE op \in Elements(deferred)
    <2>1. PICK i \in DOMAIN deferred : deferred[i] = op
      BY <1>3 DEF Elements
    <2>2. {j \in DOMAIN deferred : deferred[j] = op} = {i}
      BY <2>1 DEF CallInv, Apart, Injective
    <2>3. {j \in DOMAIN channel : channel[j] = op} = {}
      BY <1>3 DEF CallInv, Apart, Elements
    <2>4. ~(launch # NoLaunch /\ launch.command = op)
      BY <1>3 DEF CallInv, Apart, Queued, Held
    <2>5. Places(op) = {<<"deferred", i>>}
      BY <2>2, <2>3, <2>4 DEF Places
    <2> QED BY <1>1, <1>3, <2>5, FS_Singleton DEF Sent, Queued
  <1>4. CASE op \notin Queued
    <2>1. /\ {j \in DOMAIN channel : channel[j] = op} = {}
          /\ {j \in DOMAIN deferred : deferred[j] = op} = {}
      BY <1>4 DEF Queued, Elements
    <2>2. CASE launch # NoLaunch /\ launch.command = op
      <3>1. Places(op) = {<<"launch", 0>>}
        BY <2>1, <2>2 DEF Places
      <3> QED BY <1>1, <2>2, <3>1, FS_Singleton DEF Sent, Held
    <2>3. CASE ~(launch # NoLaunch /\ launch.command = op)
      <3>1. Places(op) = {} /\ op \notin Sent
        BY <1>4, <2>1, <2>3 DEF Places, Sent, Held
      <3> QED BY <3>1, FS_EmptySet
    <2> QED BY <2>2, <2>3
  <1> QED BY <1>2, <1>3, <1>4 DEF Queued

\* No command of the video runtime is lost on its way through the channel, the
\* deferred queue and the starts of mpv, and none is carried out twice, whichever
\* callers gave up waiting in between and whatever they sent then.
THEOREM NoCallIsLost == Spec => []WaitingCallIsInOnePlace
  <1>1. IInv /\ CallInv => WaitingCallIsInOnePlace
    <2> SUFFICES ASSUME TypeOK, CallInv, NEW k \in Callers, Waits(calls[k])
                 PROVE  Cardinality(Places(calls[k].command))
                          = IF calls[k].answer = "None" THEN 1 ELSE 0
      BY DEF IInv, WaitingCallIsInOnePlace, Waits
    <2>1. calls[k].command \in Command
      BY CallerFacts DEF Waits, Working
    <2>2. calls[k].answer = "None" <=> calls[k].command \in Sent
      BY DEF CallInv, Unanswered
    <2> QED BY <2>1, <2>2, PlacesOfCommand
  <1> QED BY <1>1, InitIInv, NextIInv, InitCallInv, NextCallInv, PTL DEF Spec
=============================================================================

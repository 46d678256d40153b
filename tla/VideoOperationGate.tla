-------------------------- MODULE VideoOperationGate --------------------------
(***************************************************************************)
(* The operation gate of realtime_video_runtime.rs: OperationState, which  *)
(* RealtimeVideoRuntime keeps under one mutex and whose revision it        *)
(* publishes to the actor through an AtomicU64.  The two are one number:   *)
(* the atomic is stored before the mutex is released.                      *)
(*                                                                         *)
(* A request first registers the cursor it speaks about and takes the      *)
(* revision of that moment as its lease.  A newer cursor, a stop and every *)
(* cancelling control command advance the revision, so that a launch which *)
(* began under an older one can see that it is out of date.                *)
(***************************************************************************)
EXTENDS Integers

CONSTANT NoCursor   \* the None of Option<OperationCursor>

\* OperationCursor: the loop of a media generation and its clock epoch, which
\* every user seek advances.
Cursor == [generation : Nat, clock : Nat, loop : Nat]

ASSUME CursorAssumption == NoCursor \notin Cursor

Gate == [revision : Nat, latestGeneration : Nat, stoppedGeneration : Nat,
         latestCursor : Cursor \cup {NoCursor}]

NewGate == [revision |-> 1, latestGeneration |-> 0, stoppedGeneration |-> 0,
            latestCursor |-> NoCursor]

Larger(a, b) == IF a >= b THEN a ELSE b

\* advance_operation_revision.  The code's addition saturates at 2^64 - 1.
Cancelled(g) == [g EXCEPT !.revision = @ + 1]

\* reject_stopped_generation: a stopped generation is a tombstone.
Tombstoned(g, generation) == g.stoppedGeneration > 0 /\ generation <= g.stoppedGeneration

\* accept_operation_cursor: a later generation, a later clock epoch of the same
\* loop, or the next loop at a clock epoch that is not older.
AcceptsCursor(current, next) ==
    \/ current = NoCursor
    \/ next = current
    \/ next.generation > current.generation
    \/ /\ next.generation = current.generation
       /\ \/ next.loop = current.loop /\ next.clock > current.clock
          \/ next.loop = current.loop + 1 /\ next.clock >= current.clock

CanRegister(g, cursor) ==
    ~Tombstoned(g, cursor.generation) /\ AcceptsCursor(g.latestCursor, cursor)

\* Faulty variant of Registered: a newer cursor keeps the old revision.
RegisteredWithoutRevision(g, cursor) ==
    [g EXCEPT !.latestCursor = cursor, !.latestGeneration = Larger(@, cursor.generation)]

\* reserve_operation and register_authoritative_cursor: only a cursor that
\* moved takes a new revision.
Registered(g, cursor) ==
    IF cursor = g.latestCursor THEN g
    ELSE [Cancelled(g) EXCEPT !.latestCursor = cursor,
                              !.latestGeneration = Larger(@, cursor.generation)]

\* The part of stop that holds the mutex, after Stop was sent to the actor.
StopPublished(g, generation) ==
    [Cancelled(g) EXCEPT
        !.stoppedGeneration = Larger(@, Larger(g.latestGeneration, generation))]
=============================================================================

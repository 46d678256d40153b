------------------------------ MODULE VideoCycle ------------------------------
(***************************************************************************)
(* The video cycle controller of media_video_cycle.rs.                     *)
(*                                                                         *)
(* The controller owns the queue N / N+1 / N+2 of parameter plans of the   *)
(* media segment that mpv is showing.  A plan becomes due when the source  *)
(* PTS reaches its target; the runtime then submits it to the renderer and *)
(* reports the stages of that transaction back.  Only a confirmed          *)
(* transaction promotes a plan to N.                                       *)
(*                                                                         *)
(* Time is the source PTS in ticks.  A frame rate is modelled by the       *)
(* length of a frame in ticks, 0 standing for "no usable frame rate".  The *)
(* effect parameters of a plan are a function of its seed and are left     *)
(* out: the seed is a function of identity and sequence.                   *)
(*                                                                         *)
(* Every operation is an operator on the controller's record, because the  *)
(* runtime calls several of them inside one step of its actor.  The module *)
(* VideoCycleController runs the controller on its own, under every order  *)
(* of events.                                                              *)
(***************************************************************************)
EXTENDS Integers

CONSTANTS
    Segments,        \* media segments: (session, playback generation, loop, source path)
    Clocks,          \* clock epochs a seek can carry
    Duration,        \* Duration[s]: source_duration_ms of segment s
    TransportStream, \* the segments whose path ends in .ts or .m2ts
    Configs,         \* validated configurations [enabled, periodMin, periodMax]
    Frames,          \* frame lengths an observation can report, 0 = no frame rate
    Seed,            \* Seed[<<identity, sequence>>]: the hash video_cycle_seed
    JitterFrames, TsJitterFrames, JitterSlack, \* regression tolerance: frames + slack,
    JitterCap, TsJitterCap,                    \* never above the cap
    Fingerprints,    \* non-empty fingerprints of compiled options
    MaxSequence,     \* the largest sequence number (u64::MAX in the code)
    MaxCount,        \* the value at which the saturating counters stop
    NoSegment, NoPlan, NoTransaction, NoPts  \* the None of each Option

Identity == [segment : Segments, clock : Clocks]

Sequence == 1..MaxSequence

Plan == [identity : Identity, sequence : Sequence, target : Nat, period : Nat, frame : Frames]

Stage == {"Applying", "ResultUnknown", "ReadbackConfirmed", "PresentedConfirmed",
          "Active", "Failed"}

Transaction == [sequence : Sequence, fingerprint : Fingerprints, stage : Stage,
                retries : 0..MaxCount, resultUnknown : BOOLEAN]

Config == [enabled : BOOLEAN, periodMin : Nat \ {0}, periodMax : Nat]

Controller ==
    [config : Configs, revision : 1..MaxCount, identity : Identity \cup {NoSegment},
     frame : Frames, n : Plan \cup {NoPlan}, nPlus1 : Plan \cup {NoPlan},
     nPlus2 : Plan \cup {NoPlan}, nextSequence : Sequence, lastPts : Nat \cup {NoPts},
     transaction : Transaction \cup {NoTransaction}, confirmed : 0..MaxCount]

\* VideoCycleConfig::try_new admits only these.
ASSUME ConfigAssumption ==
    Configs \subseteq Config /\ \A cf \in Configs : cf.periodMin <= cf.periodMax

ASSUME SegmentAssumption ==
    /\ Duration \in [Segments -> Nat \ {0}]
    /\ TransportStream \subseteq Segments

ASSUME TimingAssumption ==
    /\ Frames \subseteq Nat /\ 0 \in Frames
    /\ {JitterFrames, TsJitterFrames, JitterSlack, JitterCap, TsJitterCap} \subseteq Nat

ASSUME CounterAssumption ==
    MaxSequence \in Nat \ {0} /\ MaxCount \in Nat \ {0}

ASSUME SeedAssumption == Seed \in [Identity \X Sequence -> Nat]

ASSUME NoneAssumption ==
    /\ NoSegment \notin Identity
    /\ NoPlan \notin Plan
    /\ NoTransaction \notin Transaction
    /\ NoPts \notin Nat

SaturatingAdd(count) == IF count < MaxCount THEN count + 1 ELSE MaxCount

-----------------------------------------------------------------------------
(* Timing *)

\* The first frame boundary at or after pts.
AlignToVideoFrame(pts, frame) ==
    IF frame = 0 \/ pts % frame = 0 THEN pts ELSE pts + (frame - (pts % frame))

\* A deterministic draw from periodMin..periodMax.
SamplePeriod(config, identity, sequence) ==
    config.periodMin
      + (Seed[<<identity, sequence>>] % (config.periodMax - config.periodMin + 1))

\* How far an observed PTS may fall behind the high-water mark.
RegressionTolerance(frame, segment) ==
    LET AtMost(ticks, cap) == IF ticks <= cap THEN ticks ELSE cap
    IN  IF frame = 0 THEN 0
        ELSE IF segment \in TransportStream
             THEN AtMost(TsJitterFrames * frame + JitterSlack, TsJitterCap)
             ELSE AtMost(JitterFrames * frame + JitterSlack, JitterCap)

-----------------------------------------------------------------------------
(* Planning *)

EnsureSourcePts(c, pts) ==
    c.identity # NoSegment /\ pts < Duration[c.identity.segment]

PlanTarget(c, pts) ==
    AlignToVideoFrame(pts + SamplePeriod(c.config, c.identity, c.nextSequence), c.frame)

\* build_plan_after: NoPlan when nothing is playing, when the sequence numbers
\* are used up or when the target falls outside the segment.
PlanAfter(c, pts) ==
    IF c.identity = NoSegment THEN NoPlan
    ELSE IF c.nextSequence = MaxSequence \/ PlanTarget(c, pts) >= Duration[c.identity.segment]
    THEN NoPlan
    ELSE [identity |-> c.identity, sequence |-> c.nextSequence, target |-> PlanTarget(c, pts),
          period |-> PlanTarget(c, pts) - pts, frame |-> c.frame]

\* Faulty variant of SequenceAfter: an attempt to plan uses up a number.
SequenceAfterAttempt(c, plan) == c.nextSequence + 1

\* A sequence number is used up only by a plan that was really built.
SequenceAfter(c, plan) == IF plan = NoPlan THEN c.nextSequence ELSE c.nextSequence + 1

FillPlus1(c, pts) ==
    IF c.nPlus1 # NoPlan THEN c
    ELSE LET plan == PlanAfter(c, pts)
         IN  [c EXCEPT !.nPlus1 = plan, !.nextSequence = SequenceAfter(c, plan)]

\* Faulty variant of FillPlus2: N+2 is planned from where the source is.
FillPlus2FromPts(c, pts) ==
    IF c.nPlus2 # NoPlan THEN c
    ELSE LET plan == PlanAfter(c, pts)
         IN  [c EXCEPT !.nPlus2 = plan, !.nextSequence = SequenceAfter(c, plan)]

\* N+2 is anchored at N+1, or at pts when there is no N+1.
FillPlus2(c, pts) ==
    IF c.nPlus2 # NoPlan THEN c
    ELSE LET anchor == IF c.nPlus1 = NoPlan THEN pts ELSE c.nPlus1.target
             plan == PlanAfter(c, anchor)
         IN  [c EXCEPT !.nPlus2 = plan, !.nextSequence = SequenceAfter(c, plan)]

FillFutureFrom(c, pts) ==
    IF c.config.enabled THEN FillPlus2(FillPlus1(c, pts), pts) ELSE c

-----------------------------------------------------------------------------
(* Resets *)

NewController(config) ==
    [config |-> config, revision |-> 1, identity |-> NoSegment, frame |-> 0,
     n |-> NoPlan, nPlus1 |-> NoPlan, nPlus2 |-> NoPlan, nextSequence |-> 1,
     lastPts |-> NoPts, transaction |-> NoTransaction, confirmed |-> 0]

EmptyQueue(c) ==
    [c EXCEPT !.n = NoPlan, !.nPlus1 = NoPlan, !.nPlus2 = NoPlan, !.transaction = NoTransaction]

\* Sequence numbers go on across a reconfiguration.
Configured(c, config, pts) ==
    FillFutureFrom([EmptyQueue(c) EXCEPT !.config = config, !.revision = SaturatingAdd(@),
                                         !.lastPts = pts], pts)

\* A new medium, source or loop: plans wait for a frame rate.
SegmentReplaced(c, identity, frame, pts) ==
    LET fresh == [EmptyQueue(c) EXCEPT !.identity = identity, !.frame = frame,
                                       !.nextSequence = 1, !.lastPts = pts]
    IN  IF frame = 0 THEN fresh ELSE FillFutureFrom(fresh, pts)

\* Faulty variant of SeekReset: the plans made before the seek stay.
SeekKeepsQueue(c, clock, pts) ==
    FillFutureFrom([c EXCEPT !.identity.clock = clock, !.nextSequence = 1, !.lastPts = pts], pts)

SeekReset(c, clock, pts) ==
    FillFutureFrom([EmptyQueue(c) EXCEPT !.identity.clock = clock, !.nextSequence = 1,
                                         !.lastPts = pts], pts)

Cleared(c) ==
    [EmptyQueue(c) EXCEPT !.identity = NoSegment, !.frame = 0, !.nextSequence = 1,
                          !.lastPts = NoPts]

Rebased(c, pts) == [c EXCEPT !.lastPts = pts]

-----------------------------------------------------------------------------
(* Observation *)

IsDue(plan, pts) == plan # NoPlan /\ pts >= plan.target

\* observe_source before due_plan: the frame rate is overwritten by every
\* observation and an empty queue is filled from the observed PTS.
FrameObserved(c, frame, pts) ==
    LET seen == [c EXCEPT !.frame = frame]
    IN  IF frame # 0 /\ c.nPlus1 = NoPlan /\ c.nPlus2 = NoPlan
        THEN FillFutureFrom(seen, pts) ELSE seen

Regressed(c, pts) ==
    /\ c.lastPts # NoPts
    /\ pts < c.lastPts
    /\ c.lastPts - pts > RegressionTolerance(c.frame, c.identity.segment)

\* Jitter inside the tolerance leaves the high-water mark where it was.
WaterMark(c, pts) == IF c.lastPts # NoPts /\ pts < c.lastPts THEN c.lastPts ELSE pts

ObservationAccepted(c, pts, paused) ==
    EnsureSourcePts(c, pts) /\ ~paused /\ ~Regressed(c, pts)

\* The state left by observe_source, its error returns included.
Observed(c, pts, frame, paused) ==
    LET seen == FrameObserved(c, frame, pts)
    IN  IF ObservationAccepted(seen, pts, paused)
        THEN [seen EXCEPT !.lastPts = WaterMark(seen, pts)] ELSE seen

\* Faulty variant of DuePlan: N+1 first, although N+2 is due.
DuePlanInOrder(c) == IF IsDue(c.nPlus1, c.lastPts) THEN c.nPlus1 ELSE NoPlan

\* The plan an accepted observation reports as due, given the state it left:
\* N+2 overtakes N+1 when both are due, and nothing is due while N+1 is not.
DuePlan(c) ==
    IF ~IsDue(c.nPlus1, c.lastPts) THEN NoPlan
    ELSE IF IsDue(c.nPlus2, c.lastPts) THEN c.nPlus2 ELSE c.nPlus1

-----------------------------------------------------------------------------
(* The apply transaction *)

Planned(c, sequence) ==
    \E plan \in {c.nPlus1, c.nPlus2} : plan # NoPlan /\ plan.sequence = sequence

InFlight(c) ==
    c.transaction # NoTransaction /\ c.transaction.stage \notin {"Active", "Failed"}

Resumes(c, sequence, fingerprint) ==
    /\ c.transaction # NoTransaction
    /\ c.transaction.sequence = sequence
    /\ c.transaction.fingerprint = fingerprint

CanBeginApply(c, sequence, fingerprint) ==
    Planned(c, sequence) /\ (Resumes(c, sequence, fingerprint) \/ ~InFlight(c))

\* Submitting the same options again is a retry and keeps resultUnknown.
ApplyBegun(c, sequence, fingerprint) ==
    IF Resumes(c, sequence, fingerprint)
    THEN [c EXCEPT !.transaction.stage = "Applying", !.transaction.retries = SaturatingAdd(@)]
    ELSE [c EXCEPT !.transaction = [sequence |-> sequence, fingerprint |-> fingerprint,
                                    stage |-> "Applying", retries |-> 0, resultUnknown |-> FALSE]]

TransactionOf(c, sequence) ==
    c.transaction # NoTransaction /\ c.transaction.sequence = sequence

StageReported(c, stage) ==
    [c EXCEPT !.transaction.stage = stage,
              !.transaction.resultUnknown = @ \/ stage = "ResultUnknown"]

\* The plan advance_due_plan promotes at pts.
Promotable(c, pts) ==
    IF IsDue(c.nPlus2, pts) THEN c.nPlus2
    ELSE IF IsDue(c.nPlus1, pts) THEN c.nPlus1 ELSE NoPlan

CanAdvance(c, sequence, pts) ==
    /\ EnsureSourcePts(c, pts)
    /\ Promotable(c, pts) # NoPlan
    /\ Promotable(c, pts).sequence = sequence
    /\ TransactionOf(c, sequence)

\* Faulty variant of QueueAdvanced: N+2 stays where it is.
QueueAdvancedInPlace(c, pts) == FillPlus2([c EXCEPT !.n = Promotable(c, pts), !.nPlus1 = NoPlan], pts)

\* The queue after a promotion.  Overtaking by N+2 restarts planning at pts;
\* otherwise N+2 moves up and a plan is built behind it, enabled or not.
QueueAdvanced(c, pts) ==
    IF IsDue(c.nPlus2, pts)
    THEN FillFutureFrom([c EXCEPT !.n = c.nPlus2, !.nPlus1 = NoPlan, !.nPlus2 = NoPlan], pts)
    ELSE FillPlus2([c EXCEPT !.n = c.nPlus1, !.nPlus1 = c.nPlus2, !.nPlus2 = NoPlan], pts)

\* Faulty variant of Activated: the change is not counted.
ActivatedUncounted(c, pts) == [QueueAdvanced(c, pts) EXCEPT !.transaction.stage = "Active"]

Activated(c, pts) ==
    [QueueAdvanced(c, pts) EXCEPT !.confirmed = SaturatingAdd(@), !.transaction.stage = "Active"]
=============================================================================

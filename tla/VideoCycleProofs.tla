--------------------------- MODULE VideoCycleProofs ---------------------------
(***************************************************************************)
(* The queue of the video cycle controller keeps its promises for every    *)
(* segment, frame rate, configuration and seed, and for calls with any PTS *)
(* in any order.                                                           *)
(*                                                                         *)
(* The queue properties alone are not inductive.  What is missing is why   *)
(* there is no N+2 behind an N+1: the numbers are used up, or the target   *)
(* fell outside the segment under some frame rate (NoRoomBehind).  When    *)
(* N+1 is promoted late, under another frame rate, a plan fits after all:  *)
(* it is within one frame of the end.                                      *)
(***************************************************************************)
EXTENDS VideoCycleController, TLAPS

\* A plan was made for what is playing, by this configuration.
Made(c, plan) ==
    plan # NoPlan =>
        /\ plan \in Plan
        /\ c.identity # NoSegment /\ plan.identity = c.identity
        /\ plan.target < Duration[c.identity.segment]
        /\ plan.sequence < c.nextSequence
        /\ plan.period >= c.config.periodMin

Before(plan, next) == plan # NoPlan /\ next # NoPlan => plan.sequence < next.sequence

Apart(c) ==
    c.nPlus1 # NoPlan /\ c.nPlus2 # NoPlan => c.nPlus1.target + c.config.periodMin <= c.nPlus2.target

Queue(c) ==
    /\ c \in Controller
    /\ Made(c, c.n) /\ Made(c, c.nPlus1) /\ Made(c, c.nPlus2)
    /\ Before(c.n, c.nPlus1) /\ Before(c.n, c.nPlus2) /\ Before(c.nPlus1, c.nPlus2)
    /\ Apart(c)

Period(c) == SamplePeriod(c.config, c.identity, c.nextSequence)

\* Why there is no N+2: the controller looked for one when it made N+1.
NoRoomBehind(c) ==
    c.nPlus1 # NoPlan /\ c.nPlus2 = NoPlan =>
        \/ c.nextSequence = MaxSequence
        \/ \E frame \in Frames :
              AlignToVideoFrame(c.nPlus1.target + Period(c), frame) >= Duration[c.identity.segment]

Starved(c) ==
    c.nPlus1 = NoPlan /\ c.nPlus2 # NoPlan =>
        \E frame \in Frames : c.nPlus2.target + frame > Duration[c.identity.segment]

\* The high-water mark lies in the segment.
Marked(c) == c.lastPts # NoPts => EnsureSourcePts(c, c.lastPts)

Good(c) == Queue(c) /\ NoRoomBehind(c) /\ Starved(c) /\ Marked(c)

Inv == Good(ctl)

-----------------------------------------------------------------------------
(* Timing *)

LEMMA ModBound == ASSUME NEW a \in Nat, NEW b \in Nat \ {0} PROVE a % b \in 0 .. b - 1
  OBVIOUS

\* The first frame boundary is not before the time and less than a frame after it.
LEMMA AlignBounds ==
    ASSUME NEW pts \in Nat, NEW frame \in Nat
    PROVE  /\ AlignToVideoFrame(pts, frame) \in Nat /\ AlignToVideoFrame(pts, frame) >= pts
           /\ frame = 0 => AlignToVideoFrame(pts, frame) = pts
           /\ frame # 0 => AlignToVideoFrame(pts, frame) < pts + frame
  <1>1. CASE frame = 0
    BY <1>1 DEF AlignToVideoFrame
  <1>2. CASE frame # 0
    <2>1. pts % frame \in 0 .. frame - 1
      BY <1>2, ModBound
    <2> QED BY <1>2, <2>1 DEF AlignToVideoFrame
  <1> QED BY <1>1, <1>2

LEMMA PeriodBounds ==
    ASSUME NEW c \in Controller, c.identity # NoSegment
    PROVE  Period(c) \in Nat /\ Period(c) >= c.config.periodMin /\ c.config.periodMin \in Nat
  <1>1. /\ c.config.periodMin \in Nat /\ c.config.periodMax \in Nat
        /\ c.config.periodMin <= c.config.periodMax
    BY ConfigAssumption DEF Controller, Config
  <1>2. Seed[<<c.identity, c.nextSequence>>] \in Nat
    BY SeedAssumption DEF Controller
  <1>3. Seed[<<c.identity, c.nextSequence>>] % (c.config.periodMax - c.config.periodMin + 1) \in Nat
    BY <1>1, <1>2, ModBound
  <1> QED BY <1>1, <1>3 DEF Period, SamplePeriod

LEMMA TargetBounds ==
    ASSUME NEW c \in Controller, NEW pts \in Nat, c.identity # NoSegment
    PROVE  /\ PlanTarget(c, pts) = AlignToVideoFrame(pts + Period(c), c.frame)
           /\ PlanTarget(c, pts) \in Nat /\ PlanTarget(c, pts) >= pts + Period(c)
           /\ PlanTarget(c, pts) - pts \in Nat /\ PlanTarget(c, pts) - pts >= c.config.periodMin
           /\ Duration[c.identity.segment] \in Nat
  <1>1. PlanTarget(c, pts) = AlignToVideoFrame(pts + Period(c), c.frame)
    BY DEF PlanTarget, Period
  <1>2. c.frame \in Nat
    BY TimingAssumption DEF Controller
  <1>3. Period(c) \in Nat /\ Period(c) >= c.config.periodMin /\ c.config.periodMin \in Nat
    BY PeriodBounds
  <1>4. pts + Period(c) \in Nat
    BY <1>3
  <1>5. PlanTarget(c, pts) \in Nat /\ PlanTarget(c, pts) >= pts + Period(c)
    BY <1>1, <1>2, <1>4, AlignBounds
  <1>6. Duration[c.identity.segment] \in Nat
    BY SegmentAssumption DEF Controller, Identity
  <1> QED BY <1>1, <1>3, <1>5, <1>6

\* A plan after pts belongs to what plays, lies a period after pts and has the next number.
LEMMA PlanBounds ==
    ASSUME NEW c \in Controller, NEW pts \in Nat, PlanAfter(c, pts) # NoPlan
    PROVE  LET plan == PlanAfter(c, pts)
           IN  /\ plan \in Plan /\ c.identity # NoSegment /\ plan.identity = c.identity
               /\ plan.target < Duration[c.identity.segment]
               /\ plan.target >= pts + Period(c)
               /\ plan.sequence = c.nextSequence /\ c.nextSequence < MaxSequence
               /\ plan.period >= c.config.periodMin
  <1>0. c.identity # NoSegment
    BY DEF PlanAfter
  <1>1. /\ c.nextSequence # MaxSequence /\ ~(PlanTarget(c, pts) >= Duration[c.identity.segment])
        /\ PlanAfter(c, pts) = [identity |-> c.identity, sequence |-> c.nextSequence,
                                target |-> PlanTarget(c, pts),
                                period |-> PlanTarget(c, pts) - pts, frame |-> c.frame]
    BY <1>0 DEF PlanAfter
  <1>2. c.frame \in Frames /\ c.identity \in Identity /\ c.nextSequence \in Sequence
    BY <1>0 DEF Controller
  <1>3. /\ PlanTarget(c, pts) \in Nat /\ PlanTarget(c, pts) >= pts + Period(c)
        /\ PlanTarget(c, pts) < Duration[c.identity.segment]
    BY <1>0, <1>1, TargetBounds
  <1>4. PlanTarget(c, pts) - pts \in Nat /\ PlanTarget(c, pts) - pts >= c.config.periodMin
    BY <1>0, TargetBounds
  <1>5. c.nextSequence < MaxSequence
    BY <1>1, <1>2, CounterAssumption DEF Sequence
  <1>6. PlanAfter(c, pts) \in Plan
    BY <1>1, <1>2, <1>3, <1>4 DEF Plan
  <1> QED BY <1>0, <1>1, <1>3, <1>4, <1>5, <1>6

\* No plan: the numbers are used up or the target is outside.
LEMMA NoPlanAfter ==
    ASSUME NEW c \in Controller, NEW pts \in Nat, c.identity # NoSegment, PlanAfter(c, pts) = NoPlan
    PROVE  c.nextSequence = MaxSequence \/ PlanTarget(c, pts) >= Duration[c.identity.segment]
  <1>1. c.frame \in Frames /\ c.identity \in Identity /\ c.nextSequence \in Sequence
    BY DEF Controller
  <1>2. PlanTarget(c, pts) \in Nat /\ PlanTarget(c, pts) - pts \in Nat
    BY TargetBounds
  <1>3. ASSUME c.nextSequence # MaxSequence, ~(PlanTarget(c, pts) >= Duration[c.identity.segment])
        PROVE  FALSE
    <2>1. PlanAfter(c, pts) = [identity |-> c.identity, sequence |-> c.nextSequence,
                               target |-> PlanTarget(c, pts),
                               period |-> PlanTarget(c, pts) - pts, frame |-> c.frame]
      BY <1>3 DEF PlanAfter
    <2>2. PlanAfter(c, pts) \in Plan
      BY <1>1, <1>2, <2>1 DEF Plan
    <2> QED BY <2>2, NoneAssumption
  <1> QED BY <1>3

-----------------------------------------------------------------------------
(* Filling the queue *)

\* The reason a plan is missing, on the record that asked for it.
NoRoomAfter(c, pts) ==
    \/ c.nextSequence = MaxSequence
    \/ \E frame \in Frames : AlignToVideoFrame(pts + Period(c), frame) >= Duration[c.identity.segment]

\* Nothing but plans is changed by filling.
Rest(c, d) ==
    /\ d.config = c.config /\ d.identity = c.identity /\ d.frame = c.frame /\ d.n = c.n
    /\ d.lastPts = c.lastPts /\ d.transaction = c.transaction /\ d.confirmed = c.confirmed

LEMMA Filled ==
    ASSUME NEW c \in Controller, NEW pts \in Nat,
           c.identity # NoSegment
    PROVE  LET plan == PlanAfter(c, pts)
           IN  /\ Made([c EXCEPT !.nextSequence = SequenceAfter(c, plan)], plan)
               /\ SequenceAfter(c, plan) \in Sequence /\ SequenceAfter(c, plan) >= c.nextSequence
               /\ plan \in Plan \cup {NoPlan}
               /\ plan # NoPlan => /\ plan.sequence = c.nextSequence
                                   /\ plan.target >= pts + Period(c)
               /\ plan = NoPlan => NoRoomAfter(c, pts) /\ SequenceAfter(c, plan) = c.nextSequence
  <1> DEFINE plan == PlanAfter(c, pts)
             d == [c EXCEPT !.nextSequence = SequenceAfter(c, plan)]
  <1>0. c.nextSequence \in Sequence /\ c.nextSequence \in Nat /\ MaxSequence \in Nat /\ c.frame \in Frames
    BY CounterAssumption DEF Controller, Sequence
  <1>1. CASE plan = NoPlan
    <2>1. SequenceAfter(c, plan) = c.nextSequence
      BY <1>1 DEF SequenceAfter
    <2>2. NoRoomAfter(c, pts)
      BY <1>0, <1>1, NoPlanAfter, TargetBounds DEF NoRoomAfter
    <2> QED BY <1>0, <1>1, <2>1, <2>2 DEF Made
  <1>2. CASE plan # NoPlan
    <2>1. SequenceAfter(c, plan) = c.nextSequence + 1
      BY <1>2 DEF SequenceAfter
    <2>2. /\ plan \in Plan /\ plan.identity = c.identity
          /\ plan.target < Duration[c.identity.segment]
          /\ plan.target >= pts + Period(c)
          /\ plan.sequence = c.nextSequence /\ c.nextSequence < MaxSequence
          /\ plan.period >= c.config.periodMin
      BY <1>2, PlanBounds
    <2>3. c.nextSequence + 1 \in Sequence
      BY <1>0, <2>2 DEF Sequence
    <2>4. d.identity = c.identity /\ d.config = c.config /\ d.nextSequence = c.nextSequence + 1
      BY <2>1 DEF Controller
    <2> HIDE DEF plan, d
    <2>5. Made(d, plan)
      BY <1>0, <2>2, <2>4 DEF Made
    <2> QED BY <1>0, <1>2, <2>1, <2>2, <2>3, <2>5 DEF d, plan
  <1> QED BY <1>1, <1>2

\* A queue of the old plans only: what FillPlus1 makes of it.
LEMMA FillPlus1Good ==
    ASSUME NEW c, NEW pts \in Nat, Queue(c), c.identity # NoSegment,
           c.nPlus1 = NoPlan, c.nPlus2 = NoPlan
    PROVE  LET d == FillPlus1(c, pts)
           IN  /\ Queue(d) /\ Rest(c, d) /\ d.nPlus2 = NoPlan
               /\ d.nPlus1 = NoPlan => d = c /\ NoRoomAfter(c, pts)
  <1> DEFINE plan == PlanAfter(c, pts)
             d == [c EXCEPT !.nPlus1 = plan, !.nextSequence = SequenceAfter(c, plan)]
             e == [c EXCEPT !.nextSequence = SequenceAfter(c, plan)]
  <1>0. c \in Controller /\ Made(c, c.n) /\ FillPlus1(c, pts) = d
    BY DEF Queue, FillPlus1
  <1>1. /\ Made(e, plan) /\ SequenceAfter(c, plan) \in Sequence
        /\ SequenceAfter(c, plan) >= c.nextSequence /\ plan \in Plan \cup {NoPlan}
        /\ plan # NoPlan => plan.sequence = c.nextSequence
        /\ plan = NoPlan => NoRoomAfter(c, pts) /\ SequenceAfter(c, plan) = c.nextSequence
    BY <1>0, Filled
  <1> HIDE DEF plan
  <1>2. /\ d \in Controller /\ e \in Controller
        /\ d.nPlus1 = plan /\ d.nextSequence = SequenceAfter(c, plan)
        /\ e.nextSequence = SequenceAfter(c, plan) /\ e.identity = c.identity /\ e.config = c.config
        /\ d.nPlus2 = c.nPlus2 /\ d.revision = c.revision
        /\ Rest(c, d)
    BY <1>0, <1>1 DEF Controller, Rest
  <1>3. plan = NoPlan => d = c
    <2>1. c = [c EXCEPT !.nPlus1 = c.nPlus1, !.nextSequence = c.nextSequence]
      BY <1>0 DEF Controller
    <2>2. plan = NoPlan => plan = c.nPlus1 /\ SequenceAfter(c, plan) = c.nextSequence
      BY <1>1
    <2> QED BY <2>1, <2>2
  <1> HIDE DEF d, e
  <1>4. Made(d, plan)
    BY <1>1, <1>2 DEF Made, Rest
  <1>5. Made(d, d.n)
    <2>1. c.nextSequence \in Nat /\ d.nextSequence \in Nat
      BY <1>0, <1>2 DEF Controller, Sequence
    <2>2. d.n # NoPlan => d.n \in Plan /\ d.n.sequence \in Nat
      BY <1>0, <1>2 DEF Made, Rest, Plan, Sequence
    <2> QED BY <1>0, <1>1, <1>2, <2>1, <2>2 DEF Made, Rest
  <1>6. Before(d.n, d.nPlus1)
    BY <1>0, <1>1, <1>2 DEF Made, Rest, Before
  <1>7. Made(d, d.nPlus2) /\ Before(d.n, d.nPlus2) /\ Before(d.nPlus1, d.nPlus2) /\ Apart(d)
    BY <1>2 DEF Made, Before, Apart
  <1>8. Queue(d)
    BY <1>2, <1>4, <1>5, <1>6, <1>7 DEF Queue
  <1> QED BY <1>0, <1>1, <1>2, <1>3, <1>8

\* FillPlus2 behind N+1, or at pts.  The plan it finds for a queue without N+1
\* is the caller's to explain.
LEMMA FillPlus2Good ==
    ASSUME NEW c, NEW pts \in Nat, Queue(c), c.identity # NoSegment, c.nPlus2 = NoPlan
    PROVE  LET d == FillPlus2(c, pts)
               anchor == IF c.nPlus1 = NoPlan THEN pts ELSE c.nPlus1.target
           IN  /\ Queue(d) /\ Rest(c, d) /\ d.nPlus1 = c.nPlus1 /\ NoRoomBehind(d)
               /\ d.nPlus2 = PlanAfter(c, anchor)
  <1> DEFINE anchor == IF c.nPlus1 = NoPlan THEN pts ELSE c.nPlus1.target
             plan == PlanAfter(c, anchor)
             d == [c EXCEPT !.nPlus2 = plan, !.nextSequence = SequenceAfter(c, plan)]
             e == [c EXCEPT !.nextSequence = SequenceAfter(c, plan)]
  <1>0. /\ c \in Controller /\ Made(c, c.n) /\ Made(c, c.nPlus1) /\ Before(c.n, c.nPlus1)
        /\ FillPlus2(c, pts) = d
    BY DEF Queue, FillPlus2
  <1>a. anchor \in Nat
    BY <1>0 DEF Made, Plan
  <1> HIDE DEF anchor
  <1>1. /\ Made(e, plan) /\ SequenceAfter(c, plan) \in Sequence
        /\ SequenceAfter(c, plan) >= c.nextSequence /\ plan \in Plan \cup {NoPlan}
        /\ plan # NoPlan => plan.sequence = c.nextSequence /\ plan.target >= anchor + Period(c)
        /\ plan = NoPlan => NoRoomAfter(c, anchor) /\ SequenceAfter(c, plan) = c.nextSequence
    BY <1>0, <1>a, Filled
  <1> HIDE DEF plan
  <1>2. /\ d \in Controller /\ e \in Controller
        /\ d.nPlus2 = plan /\ d.nextSequence = SequenceAfter(c, plan)
        /\ e.nextSequence = SequenceAfter(c, plan) /\ e.identity = c.identity /\ e.config = c.config
        /\ d.nPlus1 = c.nPlus1
        /\ Rest(c, d)
    BY <1>0, <1>1 DEF Controller, Rest
  <1> HIDE DEF d, e
  <1>3. ASSUME NEW old, Made(c, old) PROVE Made(d, old) /\ Before(old, plan)
    <2>1. c.nextSequence \in Nat /\ d.nextSequence \in Nat
      BY <1>0, <1>2 DEF Controller, Sequence
    <2>2. old # NoPlan => old \in Plan /\ old.sequence \in Nat
      BY <1>3 DEF Made, Plan, Sequence
    <2> QED BY <1>1, <1>2, <1>3, <2>1, <2>2 DEF Made, Rest, Before
  <1>4. Made(d, plan)
    BY <1>1, <1>2 DEF Made, Rest
  <1>5. Apart(d)
    <2>1. CASE c.nPlus1 # NoPlan /\ plan # NoPlan
      <3>1. /\ plan.target >= c.nPlus1.target + Period(c)
            /\ plan.target \in Nat /\ c.nPlus1.target \in Nat
        BY <1>0, <1>1, <2>1 DEF anchor, Made, Plan
      <3>2. Period(c) \in Nat /\ Period(c) >= c.config.periodMin /\ c.config.periodMin \in Nat
        BY <1>0, PeriodBounds
      <3> QED BY <1>2, <3>1, <3>2 DEF Apart, Rest
    <2> QED BY <1>2, <2>1 DEF Apart
  <1>6. Queue(d)
    BY <1>0, <1>2, <1>3, <1>4, <1>5 DEF Queue, Rest
  <1>7. NoRoomBehind(d)
    <2>1. SUFFICES ASSUME c.nPlus1 # NoPlan, plan = NoPlan
                   PROVE  \/ d.nextSequence = MaxSequence
                          \/ \E frame \in Frames :
                                AlignToVideoFrame(d.nPlus1.target + Period(d), frame)
                                  >= Duration[d.identity.segment]
      BY <1>2 DEF NoRoomBehind
    <2>2. Period(d) = Period(c)
      BY <1>1, <1>2, <2>1 DEF Period, Rest
    <2> QED BY <1>1, <1>2, <2>1, <2>2 DEF NoRoomAfter, anchor, Rest
  <1> QED BY <1>0, <1>2, <1>6, <1>7 DEF plan, anchor

LEMMA FillFutureGood ==
    ASSUME NEW c, NEW pts \in Nat, Queue(c), c.nPlus1 = NoPlan, c.nPlus2 = NoPlan
    PROVE  LET d == FillFutureFrom(c, pts)
           IN  Queue(d) /\ Rest(c, d) /\ NoRoomBehind(d) /\ Starved(d)
  <1> DEFINE b == FillPlus1(c, pts)
             d == FillPlus2(b, pts)
  <1>0. c \in Controller
    BY DEF Queue
  <1>1. CASE ~c.config.enabled
    BY <1>1 DEF FillFutureFrom, Rest, NoRoomBehind, Starved
  <1>2. CASE c.identity = NoSegment
    <2>1. \A x : SequenceAfter(c, NoPlan) = c.nextSequence
      BY DEF SequenceAfter
    <2>2. FillPlus1(c, pts) = c
      BY <1>0, <1>2, <2>1 DEF FillPlus1, PlanAfter, Controller
    <2>3. FillPlus2(c, pts) = c
      BY <1>0, <1>2, <2>1 DEF FillPlus2, PlanAfter, Controller
    <2> QED BY <2>2, <2>3 DEF FillFutureFrom, Rest, NoRoomBehind, Starved
  <1>3. CASE c.config.enabled /\ c.identity # NoSegment
    <2>1. /\ Queue(b) /\ Rest(c, b) /\ b.nPlus2 = NoPlan
          /\ b.nPlus1 = NoPlan => b = c /\ NoRoomAfter(c, pts)
      BY <1>3, FillPlus1Good
    <2>2. b.identity # NoSegment /\ b \in Controller
      BY <1>3, <2>1 DEF Rest, Queue
    <2> HIDE DEF b
    <2>3. /\ Queue(d) /\ Rest(b, d) /\ d.nPlus1 = b.nPlus1 /\ NoRoomBehind(d)
          /\ b.nPlus1 = NoPlan => d.nPlus2 = PlanAfter(b, pts)
      BY <2>1, <2>2, FillPlus2Good
    <2> HIDE DEF d
    <2>4. Starved(d)
      <3>1. SUFFICES ASSUME b.nPlus1 = NoPlan, d.nPlus2 # NoPlan PROVE FALSE
        BY <2>3 DEF Starved
      <3>2. b = c /\ FillPlus1(c, pts).nPlus1 = NoPlan
        BY <2>1, <3>1 DEF b
      <3>3. FillPlus1(c, pts).nPlus1 = PlanAfter(c, pts)
        BY <1>0 DEF FillPlus1, Controller
      <3> QED BY <2>3, <3>1, <3>2, <3>3
    <2>5. Rest(c, d)
      BY <2>1, <2>3 DEF Rest
    <2>6. FillFutureFrom(c, pts) = d
      BY <1>3 DEF FillFutureFrom, d, b
    <2> QED BY <2>3, <2>4, <2>5, <2>6
  <1> QED BY <1>1, <1>2, <1>3

LEMMA MarkKept ==
    ASSUME NEW c, NEW d, Marked(c), d.lastPts = c.lastPts, d.identity = c.identity PROVE Marked(d)
  BY DEF Marked, EnsureSourcePts

\* An empty queue, and what is planned for it.
LEMMA Started ==
    ASSUME NEW c \in Controller, c.n = NoPlan, c.nPlus1 = NoPlan, c.nPlus2 = NoPlan, Marked(c),
           NEW pts \in Nat
    PROVE  Good(c) /\ Good(FillFutureFrom(c, pts)) /\ FillFutureFrom(c, pts).n = NoPlan
  <1>1. Queue(c)
    BY DEF Queue, Made, Before, Apart
  <1>2. Good(c)
    BY <1>1 DEF Good, NoRoomBehind, Starved
  <1>3. LET d == FillFutureFrom(c, pts) IN Queue(d) /\ Rest(c, d) /\ NoRoomBehind(d) /\ Starved(d)
    BY <1>1, FillFutureGood
  <1>4. Marked(FillFutureFrom(c, pts)) /\ FillFutureFrom(c, pts).n = NoPlan
    BY <1>3, MarkKept DEF Rest
  <1> QED BY <1>2, <1>3, <1>4 DEF Good

-----------------------------------------------------------------------------
(* The operations *)

LEMMA Saturated == ASSUME NEW k \in 0 .. MaxCount
                   PROVE  SaturatingAdd(k) \in 0 .. MaxCount /\ SaturatingAdd(k) \in 1 .. MaxCount
  BY CounterAssumption DEF SaturatingAdd

LEMMA NewGood == ASSUME NEW config \in Configs PROVE Good(NewController(config))
  <1>1. NewController(config) \in Controller
    BY TimingAssumption, CounterAssumption DEF NewController, Controller, Sequence
  <1> QED BY <1>1, Started DEF NewController, Marked

LEMMA Emptied ==
    ASSUME NEW c \in Controller
    PROVE  LET d == EmptyQueue(c)
           IN  /\ d \in Controller /\ d.n = NoPlan /\ d.nPlus1 = NoPlan /\ d.nPlus2 = NoPlan
               /\ d.config = c.config /\ d.identity = c.identity /\ d.lastPts = c.lastPts
  BY DEF EmptyQueue, Controller

LEMMA ConfiguredGood ==
    ASSUME NEW c \in Controller, NEW config \in Configs, NEW pts \in Nat, EnsureSourcePts(c, pts)
    PROVE  Good(Configured(c, config, pts)) /\ Configured(c, config, pts).n = NoPlan
  <1> DEFINE e == EmptyQueue(c)
             d == [e EXCEPT !.config = config, !.revision = SaturatingAdd(@), !.lastPts = pts]
  <1>1. e \in Controller /\ e.n = NoPlan /\ e.nPlus1 = NoPlan /\ e.nPlus2 = NoPlan /\ e.identity = c.identity
    BY Emptied
  <1>2. SaturatingAdd(e.revision) \in 1 .. MaxCount
    BY <1>1, Saturated, CounterAssumption DEF Controller
  <1> HIDE DEF e
  <1>3. /\ d \in Controller /\ d.n = NoPlan /\ d.nPlus1 = NoPlan /\ d.nPlus2 = NoPlan
        /\ d.identity = c.identity /\ d.lastPts = pts
    BY <1>1, <1>2 DEF Controller
  <1>4. Marked(d)
    BY <1>3 DEF Marked, EnsureSourcePts
  <1>5. Configured(c, config, pts) = FillFutureFrom(d, pts)
    BY DEF Configured, e
  <1> HIDE DEF d
  <1> QED BY <1>3, <1>4, <1>5, Started

LEMMA SegmentGood ==
    ASSUME NEW c \in Controller, NEW identity \in Identity, NEW frame \in Frames, NEW pts \in Nat,
           pts < Duration[identity.segment]
    PROVE  /\ Good(SegmentReplaced(c, identity, frame, pts))
           /\ SegmentReplaced(c, identity, frame, pts).n = NoPlan
  <1> DEFINE e == EmptyQueue(c)
             d == [e EXCEPT !.identity = identity, !.frame = frame, !.nextSequence = 1, !.lastPts = pts]
  <1>1. e \in Controller /\ e.n = NoPlan /\ e.nPlus1 = NoPlan /\ e.nPlus2 = NoPlan
    BY Emptied
  <1>2. 1 \in Sequence
    BY CounterAssumption DEF Sequence
  <1> HIDE DEF e
  <1>3. /\ d \in Controller /\ d.n = NoPlan /\ d.nPlus1 = NoPlan /\ d.nPlus2 = NoPlan
        /\ d.identity = identity /\ d.lastPts = pts
    BY <1>1, <1>2 DEF Controller
  <1>4. Marked(d)
    BY <1>3, NoneAssumption DEF Marked, EnsureSourcePts
  <1>5. SegmentReplaced(c, identity, frame, pts) = IF frame = 0 THEN d ELSE FillFutureFrom(d, pts)
    BY DEF SegmentReplaced, e
  <1> HIDE DEF d
  <1> QED BY <1>3, <1>4, <1>5, Started

LEMMA SeekGood ==
    ASSUME NEW c \in Controller, NEW clock \in Clocks, NEW pts \in Nat, EnsureSourcePts(c, pts)
    PROVE  Good(SeekReset(c, clock, pts)) /\ SeekReset(c, clock, pts).n = NoPlan
  <1> DEFINE e == EmptyQueue(c)
             d == [e EXCEPT !.identity.clock = clock, !.nextSequence = 1, !.lastPts = pts]
  <1>1. e \in Controller /\ e.n = NoPlan /\ e.nPlus1 = NoPlan /\ e.nPlus2 = NoPlan /\ e.identity = c.identity
    BY Emptied
  <1>2. 1 \in Sequence
    BY CounterAssumption DEF Sequence
  <1>3. e.identity \in Identity /\ pts < Duration[e.identity.segment]
    BY <1>1 DEF EnsureSourcePts, Controller
  <1>4. /\ [e.identity EXCEPT !.clock = clock] \in Identity
        /\ [e.identity EXCEPT !.clock = clock].segment = e.identity.segment
    BY <1>3 DEF Identity
  <1> HIDE DEF e
  <1>5. /\ d \in Controller /\ d.n = NoPlan /\ d.nPlus1 = NoPlan /\ d.nPlus2 = NoPlan
        /\ d.identity = [e.identity EXCEPT !.clock = clock] /\ d.lastPts = pts
    BY <1>1, <1>2, <1>4 DEF Controller
  <1>6. Marked(d)
    BY <1>3, <1>4, <1>5, NoneAssumption DEF Marked, EnsureSourcePts
  <1>7. SeekReset(c, clock, pts) = FillFutureFrom(d, pts)
    BY DEF SeekReset, e
  <1> HIDE DEF d
  <1> QED BY <1>5, <1>6, <1>7, Started

LEMMA ClearedGood == ASSUME NEW c \in Controller PROVE Good(Cleared(c)) /\ Cleared(c).n = NoPlan
  <1> DEFINE e == EmptyQueue(c)
             d == [e EXCEPT !.identity = NoSegment, !.frame = 0, !.nextSequence = 1, !.lastPts = NoPts]
  <1>1. e \in Controller /\ e.n = NoPlan /\ e.nPlus1 = NoPlan /\ e.nPlus2 = NoPlan
    BY Emptied
  <1>2. 1 \in Sequence
    BY CounterAssumption DEF Sequence
  <1> HIDE DEF e
  <1>3. /\ d \in Controller /\ d.n = NoPlan /\ d.nPlus1 = NoPlan /\ d.nPlus2 = NoPlan
        /\ d.lastPts = NoPts
    BY <1>1, <1>2, TimingAssumption DEF Controller
  <1>4. Marked(d)
    BY <1>3 DEF Marked
  <1>5. Cleared(c) = d
    BY DEF Cleared, e
  <1> HIDE DEF d
  <1> QED BY <1>3, <1>4, <1>5, Started

\* A record whose queue, configuration and segment are those of a good one.
LEMMA SameQueue ==
    ASSUME NEW c, NEW d \in Controller, Good(c), Marked(d),
           d.config = c.config, d.identity = c.identity, d.nextSequence = c.nextSequence,
           d.n = c.n, d.nPlus1 = c.nPlus1, d.nPlus2 = c.nPlus2
    PROVE  Good(d)
  <1>1. Queue(d)
    BY DEF Good, Queue, Made, Before, Apart
  <1>2. Period(d) = Period(c)
    BY DEF Period
  <1> QED BY <1>1, <1>2 DEF Good, NoRoomBehind, Starved

LEMMA RebasedGood ==
    ASSUME NEW c, Good(c), NEW pts \in Nat, EnsureSourcePts(c, pts)
    PROVE  Good(Rebased(c, pts)) /\ Rebased(c, pts).n = c.n
  <1>1. c \in Controller
    BY DEF Good, Queue
  <1>2. /\ Rebased(c, pts) \in Controller /\ Rebased(c, pts).lastPts = pts
        /\ Rebased(c, pts).identity = c.identity
    BY <1>1 DEF Rebased, Controller
  <1>3. Marked(Rebased(c, pts))
    BY <1>2 DEF Marked, EnsureSourcePts
  <1> QED BY <1>1, <1>2, <1>3, SameQueue DEF Rebased, Controller

LEMMA ObservedGood ==
    ASSUME NEW c, Good(c), NEW pts \in Nat, NEW frame \in Frames, NEW paused
    PROVE  Good(Observed(c, pts, frame, paused)) /\ Observed(c, pts, frame, paused).n = c.n
  <1> DEFINE a == [c EXCEPT !.frame = frame]
             seen == FrameObserved(c, frame, pts)
             d == [seen EXCEPT !.lastPts = WaterMark(seen, pts)]
  <1>0. c \in Controller
    BY DEF Good, Queue
  <1>1. Good(a) /\ a.n = c.n /\ a.nPlus1 = c.nPlus1 /\ a.nPlus2 = c.nPlus2
    <2>1. /\ a \in Controller /\ a.lastPts = c.lastPts /\ a.identity = c.identity
          /\ a.config = c.config /\ a.nextSequence = c.nextSequence
          /\ a.n = c.n /\ a.nPlus1 = c.nPlus1 /\ a.nPlus2 = c.nPlus2
      BY <1>0 DEF Controller
    <2> HIDE DEF a
    <2> QED BY <2>1, MarkKept, SameQueue DEF Good
  <1>2. Good(seen) /\ seen.n = c.n
    <2>1. seen = a \/ (seen = FillFutureFrom(a, pts) /\ a.nPlus1 = NoPlan /\ a.nPlus2 = NoPlan)
      <3>1. seen = IF frame # 0 /\ c.nPlus1 = NoPlan /\ c.nPlus2 = NoPlan
                   THEN FillFutureFrom(a, pts) ELSE a
        BY DEF FrameObserved
      <3> HIDE DEF a, seen
      <3> QED BY <1>1, <3>1
    <2>2. ASSUME a.nPlus1 = NoPlan, a.nPlus2 = NoPlan
          PROVE  Good(FillFutureFrom(a, pts)) /\ FillFutureFrom(a, pts).n = a.n
      <3> HIDE DEF a
      <3>1. LET f == FillFutureFrom(a, pts) IN Queue(f) /\ Rest(a, f) /\ NoRoomBehind(f) /\ Starved(f)
        BY <1>1, <2>2, FillFutureGood DEF Good
      <3>2. Marked(FillFutureFrom(a, pts))
        BY <1>1, <3>1, MarkKept DEF Good, Rest
      <3> QED BY <3>1, <3>2 DEF Good, Rest
    <2> QED BY <1>1, <2>1, <2>2
  <1> HIDE DEF seen
  <1>3. CASE ObservationAccepted(seen, pts, paused)
    <2>1. /\ seen \in Controller /\ EnsureSourcePts(seen, pts)
          /\ seen.lastPts # NoPts => EnsureSourcePts(seen, seen.lastPts)
      BY <1>2, <1>3 DEF Good, Queue, Marked, ObservationAccepted
    <2>2. /\ WaterMark(seen, pts) \in Nat \cup {NoPts} /\ EnsureSourcePts(seen, WaterMark(seen, pts))
      BY <2>1 DEF WaterMark, Controller
    <2>3. /\ d \in Controller /\ d.lastPts = WaterMark(seen, pts) /\ d.identity = seen.identity
          /\ d.config = seen.config /\ d.nextSequence = seen.nextSequence
          /\ d.n = seen.n /\ d.nPlus1 = seen.nPlus1 /\ d.nPlus2 = seen.nPlus2
      BY <2>1, <2>2 DEF Controller
    <2>4. Marked(d)
      BY <2>2, <2>3 DEF Marked, EnsureSourcePts
    <2>5. Observed(c, pts, frame, paused) = d
      BY <1>3 DEF Observed, seen
    <2> HIDE DEF d
    <2> QED BY <1>2, <2>3, <2>4, <2>5, SameQueue
  <1>4. CASE ~ObservationAccepted(seen, pts, paused)
    BY <1>2, <1>4 DEF Observed, seen
  <1> QED BY <1>3, <1>4

\* Only the transaction changes, and what is counted.
LEMMA TransactionChanged ==
    ASSUME NEW c, Good(c), NEW transaction \in Transaction
    PROVE  /\ Good([c EXCEPT !.transaction = transaction])
           /\ [c EXCEPT !.transaction = transaction].n = c.n
  <1> DEFINE d == [c EXCEPT !.transaction = transaction]
  <1>0. c \in Controller /\ Marked(c)
    BY DEF Good, Queue
  <1>1. /\ d \in Controller /\ d.lastPts = c.lastPts /\ d.identity = c.identity
        /\ d.config = c.config /\ d.nextSequence = c.nextSequence
        /\ d.n = c.n /\ d.nPlus1 = c.nPlus1 /\ d.nPlus2 = c.nPlus2
    BY <1>0 DEF Controller
  <1> HIDE DEF d
  <1>2. Good(d)
    BY <1>0, <1>1, MarkKept, SameQueue
  <1> QED BY <1>1, <1>2 DEF d

LEMMA ApplyBegunGood ==
    ASSUME NEW c, Good(c), NEW sequence \in Sequence, NEW fingerprint \in Fingerprints
    PROVE  Good(ApplyBegun(c, sequence, fingerprint)) /\ ApplyBegun(c, sequence, fingerprint).n = c.n
  <1>0. c \in Controller
    BY DEF Good, Queue
  <1>1. CASE Resumes(c, sequence, fingerprint)
    <2> DEFINE t == [c.transaction EXCEPT !.stage = "Applying", !.retries = SaturatingAdd(@)]
    <2>1. c.transaction \in Transaction
      BY <1>0, <1>1 DEF Resumes, Controller
    <2>2. SaturatingAdd(c.transaction.retries) \in 0 .. MaxCount
      BY <2>1, Saturated DEF Transaction
    <2>3. t \in Transaction
      BY <2>1, <2>2 DEF Transaction, Stage
    <2>4. ApplyBegun(c, sequence, fingerprint) = [c EXCEPT !.transaction = t]
      BY <1>0, <1>1, <2>1 DEF ApplyBegun, Controller, Transaction
    <2> HIDE DEF t
    <2> QED BY <2>3, <2>4, TransactionChanged
  <1>2. CASE ~Resumes(c, sequence, fingerprint)
    <2> DEFINE t == [sequence |-> sequence, fingerprint |-> fingerprint,
                     stage |-> "Applying", retries |-> 0, resultUnknown |-> FALSE]
    <2>1. t \in Transaction
      BY CounterAssumption DEF Transaction, Stage
    <2>2. ApplyBegun(c, sequence, fingerprint) = [c EXCEPT !.transaction = t]
      BY <1>2 DEF ApplyBegun
    <2> HIDE DEF t
    <2> QED BY <2>1, <2>2, TransactionChanged
  <1> QED BY <1>1, <1>2

LEMMA StageGood ==
    ASSUME NEW c, Good(c), NEW sequence, TransactionOf(c, sequence), NEW stage \in Stage
    PROVE  Good(StageReported(c, stage)) /\ StageReported(c, stage).n = c.n
  <1> DEFINE unknown == c.transaction.resultUnknown \/ stage = "ResultUnknown"
             t == [c.transaction EXCEPT !.stage = stage, !.resultUnknown = unknown]
  <1>0. c \in Controller
    BY DEF Good, Queue
  <1>1. c.transaction \in Transaction
    BY <1>0 DEF TransactionOf, Controller
  <1>2. unknown \in BOOLEAN
    OBVIOUS
  <1>3. StageReported(c, stage) = [c EXCEPT !.transaction = t]
    BY <1>0, <1>1 DEF StageReported, Controller, Transaction
  <1> HIDE DEF unknown
  <1>4. t \in Transaction
    BY <1>1, <1>2 DEF Transaction
  <1> HIDE DEF t
  <1> QED BY <1>3, <1>4, TransactionChanged

\* The promotion of a plan that is due.
LEMMA AdvancedGood ==
    ASSUME NEW c, Good(c), NEW sequence, NEW pts \in Nat, CanAdvance(c, sequence, pts)
    PROVE  LET d == QueueAdvanced(c, pts)
           IN  /\ Good(d) /\ d.confirmed = c.confirmed /\ d.transaction = c.transaction
               /\ d.n \in {c.nPlus1, c.nPlus2} /\ d.n # NoPlan
  <1>0. /\ c \in Controller /\ Queue(c) /\ Marked(c) /\ NoRoomBehind(c)
        /\ c.identity # NoSegment /\ Promotable(c, pts) # NoPlan
    BY DEF Good, Queue, CanAdvance, EnsureSourcePts
  <1>1. CASE IsDue(c.nPlus2, pts)
    <2> DEFINE a == [c EXCEPT !.n = c.nPlus2, !.nPlus1 = NoPlan, !.nPlus2 = NoPlan]
               d == FillFutureFrom(a, pts)
    <2>1. /\ a \in Controller /\ a.lastPts = c.lastPts /\ a.identity = c.identity
          /\ a.config = c.config /\ a.nextSequence = c.nextSequence
          /\ a.n = c.nPlus2 /\ a.nPlus1 = NoPlan /\ a.nPlus2 = NoPlan
          /\ a.confirmed = c.confirmed /\ a.transaction = c.transaction
      BY <1>0 DEF Controller
    <2>2. QueueAdvanced(c, pts) = d
      BY <1>1 DEF QueueAdvanced
    <2> HIDE DEF a
    <2>3. Queue(a) /\ Marked(a)
      BY <1>0, <2>1, MarkKept DEF Queue, Made, Before, Apart
    <2>4. Queue(d) /\ Rest(a, d) /\ NoRoomBehind(d) /\ Starved(d)
      BY <2>1, <2>3, FillFutureGood
    <2> HIDE DEF d
    <2>5. Marked(d)
      BY <2>3, <2>4, MarkKept DEF Rest
    <2> QED BY <1>1, <2>1, <2>2, <2>4, <2>5 DEF Good, Rest, IsDue
  <1>2. CASE ~IsDue(c.nPlus2, pts)
    <2> DEFINE a == [c EXCEPT !.n = c.nPlus1, !.nPlus1 = c.nPlus2, !.nPlus2 = NoPlan]
               d == FillPlus2(a, pts)
    <2>0. c.nPlus1 # NoPlan /\ pts >= c.nPlus1.target
      BY <1>0, <1>2 DEF Promotable, IsDue
    <2>1. /\ a \in Controller /\ a.lastPts = c.lastPts /\ a.identity = c.identity
          /\ a.config = c.config /\ a.nextSequence = c.nextSequence
          /\ a.n = c.nPlus1 /\ a.nPlus1 = c.nPlus2 /\ a.nPlus2 = NoPlan
          /\ a.confirmed = c.confirmed /\ a.transaction = c.transaction
      BY <1>0 DEF Controller
    <2>2. QueueAdvanced(c, pts) = d
      BY <1>2 DEF QueueAdvanced
    <2> HIDE DEF a
    <2>3. Queue(a) /\ Marked(a)
      BY <1>0, <2>1, MarkKept DEF Queue, Made, Before, Apart
    <2>4. /\ Queue(d) /\ Rest(a, d) /\ d.nPlus1 = a.nPlus1 /\ NoRoomBehind(d)
          /\ a.nPlus1 = NoPlan => d.nPlus2 = PlanAfter(a, pts)
      BY <1>0, <2>1, <2>3, FillPlus2Good
    <2> HIDE DEF d
    <2>5. Marked(d)
      BY <2>3, <2>4, MarkKept DEF Rest
    <2>6. Starved(d)
      <3>1. SUFFICES ASSUME d.nPlus1 = NoPlan, d.nPlus2 # NoPlan
                     PROVE  \E frame \in Frames : d.nPlus2.target + frame > Duration[d.identity.segment]
        BY DEF Starved
      <3>2. c.nPlus2 = NoPlan /\ d.nPlus2 = PlanAfter(a, pts) /\ d.identity = c.identity
        BY <2>1, <2>4, <3>1 DEF Rest
      <3>3. d.nPlus2.target >= pts + Period(a) /\ a.nextSequence < MaxSequence
        BY <2>1, <3>1, <3>2, PlanBounds
      <3>4. Period(a) = Period(c) /\ Period(c) \in Nat
        BY <1>0, <2>1, PeriodBounds DEF Period
      <3>5. MaxSequence \in Nat /\ a.nextSequence # MaxSequence
        BY <2>1, <3>3, CounterAssumption DEF Controller, Sequence
      <3>6. PICK frame \in Frames :
              AlignToVideoFrame(c.nPlus1.target + Period(c), frame) >= Duration[c.identity.segment]
        BY <1>0, <2>0, <2>1, <3>2, <3>5 DEF NoRoomBehind
      <3>7. /\ c.nPlus1.target \in Nat /\ d.nPlus2.target \in Nat /\ frame \in Nat
            /\ d.nPlus2.target < Duration[c.identity.segment]
            /\ Duration[c.identity.segment] \in Nat
        BY <1>0, <2>0, <2>4, <3>1, <3>2, TimingAssumption, TargetBounds DEF Queue, Made, Plan
      <3>8. c.nPlus1.target + Period(c) \in Nat
        BY <3>4, <3>7
      <3> DEFINE late == AlignToVideoFrame(c.nPlus1.target + Period(c), frame)
      <3>9. /\ late \in Nat
            /\ frame = 0 => late = c.nPlus1.target + Period(c)
            /\ frame # 0 => late < c.nPlus1.target + Period(c) + frame
        BY <3>7, <3>8, AlignBounds
      <3> HIDE DEF late
      <3>10. late >= Duration[c.identity.segment]
        BY <3>6 DEF late
      <3>11. d.nPlus2.target + frame > Duration[c.identity.segment]
        BY <2>0, <3>3, <3>4, <3>7, <3>9, <3>10
      <3> QED BY <3>2, <3>11
    <2> QED BY <2>0, <2>1, <2>2, <2>4, <2>5, <2>6 DEF Good, Rest
  <1> QED BY <1>1, <1>2

LEMMA ActivatedGood ==
    ASSUME NEW c, Good(c), NEW sequence, NEW pts \in Nat, CanAdvance(c, sequence, pts)
    PROVE  LET d == Activated(c, pts)
           IN  /\ Good(d) /\ d.confirmed = SaturatingAdd(c.confirmed)
               /\ d.n \in {c.nPlus1, c.nPlus2} /\ d.n # NoPlan
  <1> DEFINE a == QueueAdvanced(c, pts)
             t == [a.transaction EXCEPT !.stage = "Active"]
             b == [a EXCEPT !.confirmed = SaturatingAdd(@)]
             d == [b EXCEPT !.transaction = t]
  <1>1. /\ Good(a) /\ a.confirmed = c.confirmed /\ a.transaction = c.transaction
        /\ a.n \in {c.nPlus1, c.nPlus2} /\ a.n # NoPlan
    BY AdvancedGood
  <1>2. c.transaction \in Transaction
    BY DEF CanAdvance, TransactionOf, Good, Queue, Controller
  <1> HIDE DEF a
  <1>3. t \in Transaction
    BY <1>1, <1>2 DEF Transaction, Stage
  <1>4. a \in Controller /\ Marked(a) /\ SaturatingAdd(a.confirmed) \in 0 .. MaxCount
    BY <1>1, Saturated DEF Good, Queue, Controller
  <1>5. /\ b \in Controller /\ b.lastPts = a.lastPts /\ b.identity = a.identity
        /\ b.config = a.config /\ b.nextSequence = a.nextSequence
        /\ b.n = a.n /\ b.nPlus1 = a.nPlus1 /\ b.nPlus2 = a.nPlus2
        /\ b.confirmed = SaturatingAdd(a.confirmed)
    BY <1>4 DEF Controller
  <1>6. Activated(c, pts) = d
    BY <1>1, <1>4 DEF Activated, a, Controller
  <1> HIDE DEF b, t
  <1>7. Good(b)
    BY <1>1, <1>4, <1>5, MarkKept, SameQueue
  <1>8. d.confirmed = b.confirmed
    BY <1>5 DEF Controller
  <1> QED BY <1>1, <1>3, <1>5, <1>6, <1>7, <1>8, TransactionChanged

-----------------------------------------------------------------------------
(* The theorems *)

LEMMA InvInit == Init => Inv
  BY NewGood DEF Init, Inv

\* A step keeps the queue good, and leaves N alone, takes it away or promotes.
LEMMA InvStep ==
    ASSUME Inv, [Next]_ctl
    PROVE  /\ Inv'
           /\ \/ ctl'.n = ctl.n \/ ctl'.n = NoPlan
              \/ /\ ctl'.confirmed = SaturatingAdd(ctl.confirmed)
                 /\ ctl'.n \in {ctl.nPlus1, ctl.nPlus2}
  <1>0. Good(ctl) /\ ctl \in Controller /\ Pts \subseteq Nat
    BY PtsAssumption DEF Inv, Good, Queue, Pts
  <1>1. CASE Configure
    BY <1>0, <1>1, ConfiguredGood DEF Configure, Inv
  <1>2. CASE Seek
    BY <1>0, <1>2, SeekGood DEF Seek, Inv
  <1>3. CASE SourceBoundary
    BY <1>0, <1>3, SegmentGood DEF SourceBoundary, Inv
  <1>4. CASE MpvObservation
    BY <1>0, <1>4, ObservedGood DEF MpvObservation, Inv
  <1>5. CASE RebaseSourcePts
    BY <1>0, <1>5, RebasedGood DEF RebaseSourcePts, Inv
  <1>6. CASE Clear
    BY <1>0, <1>6, ClearedGood DEF Clear, Inv
  <1>7. CASE BeginApply
    BY <1>0, <1>7, ApplyBegunGood DEF BeginApply, Inv
  <1>8. CASE ReportStage
    BY <1>0, <1>8, StageGood DEF ReportStage, Inv
  <1>9. CASE ReportActive
    <2>1. PICK sequence \in Sequence, pts \in Pts :
            CanAdvance(ctl, sequence, pts) /\ ctl' = Activated(ctl, pts)
      BY <1>9 DEF ReportActive
    <2> QED BY <1>0, <2>1, ActivatedGood DEF Inv
  <1>10. CASE UNCHANGED ctl
    BY <1>10 DEF Inv
  <1> QED
    BY <1>1, <1>2, <1>3, <1>4, <1>5, <1>6, <1>7, <1>8, <1>9, <1>10 DEF Next

LEMMA InvHolds == Spec => []Inv
  <1>1. Inv /\ [Next]_ctl => Inv'
    BY InvStep
  <1> QED BY <1>1, InvInit, PTL DEF Spec

\* The fields of the controller, in every order of calls (media_video_cycle.rs).
THEOREM ControllerTypes == Spec => []TypeOK
  <1>1. Inv => TypeOK
    BY DEF Inv, Good, Queue, TypeOK
  <1> QED BY <1>1, InvHolds, PTL

\* No seek, source change, loop or reconfiguration leaves an old plan in the queue.
THEOREM PlansBelong == Spec => []PlansBelongToTheSegment
  <1>1. Inv => PlansBelongToTheSegment
    BY DEF Inv, Good, Queue, Made, PlansBelongToTheSegment, Plans
  <1> QED BY <1>1, InvHolds, PTL

\* The plans are numbered in queue order and at least periodMin apart.
THEOREM PlansAreApart == Spec => []PlansKeepTheirDistance
  <1>1. Inv => PlansKeepTheirDistance
    BY DEF Inv, Good, Queue, Made, Before, Apart, PlansKeepTheirDistance, Plans
  <1> QED BY <1>1, InvHolds, PTL

\* A plan that is due can be submitted, and confirming it promotes exactly it.
LEMMA DueIsPromoted == ASSUME Inv PROVE DuePlanCanBePromoted
  <1> DEFINE due == DuePlan(ctl)
  <1> SUFFICES ASSUME ctl.lastPts # NoPts, due # NoPlan, ~InFlight(ctl), NEW fingerprint \in Fingerprints
               PROVE  /\ CanBeginApply(ctl, due.sequence, fingerprint)
                      /\ CanAdvance(ApplyBegun(ctl, due.sequence, fingerprint), due.sequence, ctl.lastPts)
    BY DEF DuePlanCanBePromoted
  <1>0. ctl \in Controller /\ EnsureSourcePts(ctl, ctl.lastPts)
    BY DEF Inv, Good, Queue, Marked
  <1>1. due \in {ctl.nPlus1, ctl.nPlus2} /\ due = Promotable(ctl, ctl.lastPts)
    BY DEF DuePlan, Promotable
  <1> HIDE DEF due
  <1> DEFINE d == ApplyBegun(ctl, due.sequence, fingerprint)
  <1>2. CanBeginApply(ctl, due.sequence, fingerprint)
    BY <1>1 DEF CanBeginApply, Planned
  <1>3. /\ d.nPlus1 = ctl.nPlus1 /\ d.nPlus2 = ctl.nPlus2 /\ d.identity = ctl.identity
        /\ TransactionOf(d, due.sequence)
    <2>1. CASE Resumes(ctl, due.sequence, fingerprint)
      <3>1. ctl.transaction \in Transaction /\ ctl.transaction.sequence = due.sequence
        BY <1>0, <2>1 DEF Resumes, Controller
      <3> DEFINE t == [ctl.transaction EXCEPT !.stage = "Applying", !.retries = SaturatingAdd(@)]
      <3>2. SaturatingAdd(ctl.transaction.retries) \in 0 .. MaxCount
        BY <3>1, Saturated DEF Transaction
      <3>3. t \in Transaction /\ t.sequence = due.sequence
        BY <3>1, <3>2 DEF Transaction, Stage
      <3>4. d = [ctl EXCEPT !.transaction = t]
        BY <1>0, <2>1, <3>1 DEF ApplyBegun, Controller, Transaction
      <3> HIDE DEF d, t
      <3>5. d.transaction = t
        BY <1>0, <3>4 DEF Controller
      <3> QED BY <1>0, <3>3, <3>4, <3>5, NoneAssumption DEF TransactionOf, Controller
    <2>2. CASE ~Resumes(ctl, due.sequence, fingerprint)
      <3> DEFINE t == [sequence |-> due.sequence, fingerprint |-> fingerprint,
                       stage |-> "Applying", retries |-> 0, resultUnknown |-> FALSE]
      <3>1. due \in Plan
        BY <1>1 DEF Inv, Good, Queue, Made
      <3>2. t \in Transaction /\ t.sequence = due.sequence
        BY <3>1, CounterAssumption DEF Transaction, Stage, Plan
      <3>3. d = [ctl EXCEPT !.transaction = t]
        BY <2>2 DEF ApplyBegun
      <3> HIDE DEF d, t
      <3>4. d.transaction = t
        BY <1>0, <3>3 DEF Controller
      <3> QED BY <1>0, <3>2, <3>3, <3>4, NoneAssumption DEF TransactionOf, Controller
    <2> QED BY <2>1, <2>2
  <1> HIDE DEF d
  <1>4. CanAdvance(d, due.sequence, ctl.lastPts)
    BY <1>0, <1>1, <1>3 DEF CanAdvance, EnsureSourcePts, Promotable
  <1> QED BY <1>2, <1>4 DEF d

\* A plan that is due can be submitted and promoted, and N+1 is missing before
\* N+2 only within the last frame of the segment.
THEOREM QueueServed == Spec => []QueueIsServed
  <1>1. Inv => StarvedPlanIsInTheLastFrame
    BY DEF Inv, Good, Starved, StarvedPlanIsInTheLastFrame
  <1>2. Inv => QueueIsServed
    BY <1>1, DueIsPromoted DEF QueueIsServed
  <1> QED BY <1>2, InvHolds, PTL

\* A promotion counts one confirmed change and goes to a queued plan with a later
\* number (advance_due_plan).
THEOREM PromotionsMoveForward == Spec => PromotionMovesForward
  <1>1. ASSUME Inv, Inv', [Next]_ctl
        PROVE  [ctl'.n # ctl.n /\ ctl'.n # NoPlan =>
                  /\ ctl'.confirmed = SaturatingAdd(ctl.confirmed)
                  /\ ctl'.n \in {ctl.nPlus1, ctl.nPlus2}
                  /\ ctl.n # NoPlan => ctl.n.sequence < ctl'.n.sequence]_ctl
    <2>1. \A plan \in {ctl.nPlus1, ctl.nPlus2} :
            ctl.n # NoPlan /\ plan # NoPlan => ctl.n.sequence < plan.sequence
      BY <1>1 DEF Inv, Good, Queue, Before
    <2> QED BY <1>1, <2>1, InvStep
  <1> QED BY <1>1, InvHolds, PTL DEF Spec, PromotionMovesForward
=============================================================================

------------------------- MODULE VideoCycleController -------------------------
(***************************************************************************)
(* The video cycle controller on its own: VideoCycleController::handle,    *)
(* rebase_source_pts and clear of media_video_cycle.rs, called in any      *)
(* order with any arguments.  A call that returns an error without         *)
(* touching the state is not a step.                                       *)
(***************************************************************************)
EXTENDS VideoCycle

CONSTANT MaxPts   \* bound on the PTS values that the callers pass

VARIABLE ctl      \* the fields of VideoCycleController

ASSUME PtsAssumption == MaxPts \in Nat

Pts == 0..MaxPts

Init == \E config \in Configs : ctl = NewController(config)

Configure ==
    \E config \in Configs, pts \in Pts :
        /\ EnsureSourcePts(ctl, pts)
        /\ ctl' = Configured(ctl, config, pts)

Seek ==
    \E clock \in Clocks, pts \in Pts :
        /\ EnsureSourcePts(ctl, pts)
        /\ ctl' = SeekReset(ctl, clock, pts)

SourceBoundary ==
    \E identity \in Identity, frame \in Frames, pts \in Pts :
        /\ pts < Duration[identity.segment]
        /\ ctl' = SegmentReplaced(ctl, identity, frame, pts)

MpvObservation ==
    \E pts \in Pts, frame \in Frames, paused \in BOOLEAN :
        ctl' = Observed(ctl, pts, frame, paused)

RebaseSourcePts ==
    \E pts \in Pts :
        /\ EnsureSourcePts(ctl, pts)
        /\ ctl' = Rebased(ctl, pts)

Clear == ctl' = Cleared(ctl)

BeginApply ==
    \E sequence \in Sequence, fingerprint \in Fingerprints :
        /\ CanBeginApply(ctl, sequence, fingerprint)
        /\ ctl' = ApplyBegun(ctl, sequence, fingerprint)

ReportStage ==
    \E sequence \in Sequence, stage \in Stage \ {"Applying", "Active"} :
        /\ TransactionOf(ctl, sequence)
        /\ ctl' = StageReported(ctl, stage)

ReportActive ==
    \E sequence \in Sequence, pts \in Pts :
        /\ CanAdvance(ctl, sequence, pts)
        /\ ctl' = Activated(ctl, pts)

Next ==
    \/ Seek \/ Configure \/ SourceBoundary \/ MpvObservation \/ RebaseSourcePts \/ Clear
    \/ BeginApply \/ ReportStage \/ ReportActive

Spec == Init /\ [][Next]_ctl

-----------------------------------------------------------------------------
(* Properties *)

TypeOK == ctl \in Controller

Plans(c) == {c.n, c.nPlus1, c.nPlus2} \ {NoPlan}

\* Every plan in the queue was made for the segment and clock epoch that play
\* now, lies inside the segment and carries a number already handed out: no
\* seek, source change, loop or reconfiguration leaves an old plan behind.
PlansBelongToTheSegment ==
    \A plan \in Plans(ctl) :
        /\ ctl.identity # NoSegment
        /\ plan.identity = ctl.identity
        /\ plan.target < Duration[ctl.identity.segment]
        /\ plan.sequence < ctl.nextSequence

\* The plans of the queue are numbered in queue order, and N+2 changes the
\* picture at least periodMin of the current configuration after N+1, however
\* late the promotions come and whether or not N+2 overtook N+1.
PlansKeepTheirDistance ==
    /\ \A plan \in Plans(ctl) : plan.period >= ctl.config.periodMin
    /\ \A plan \in {ctl.nPlus1, ctl.nPlus2} \ {NoPlan} :
          ctl.n # NoPlan => ctl.n.sequence < plan.sequence
    /\ ctl.nPlus1 # NoPlan /\ ctl.nPlus2 # NoPlan =>
          /\ ctl.nPlus1.sequence < ctl.nPlus2.sequence
          /\ ctl.nPlus1.target + ctl.config.periodMin <= ctl.nPlus2.target

\* N+2 without N+1 is a plan due_plan never reports.  It arises only when the
\* frame rate changed while N+1 was in flight, and only for a target within
\* the last frame of the segment, so at most one plan per segment is lost.
StarvedPlanIsInTheLastFrame ==
    ctl.nPlus1 = NoPlan /\ ctl.nPlus2 # NoPlan =>
        \E frame \in Frames : ctl.nPlus2.target + frame > Duration[ctl.identity.segment]

\* A plan that an observation reports as due while nothing is in flight can be
\* submitted, and confirming it at the observed high-water mark promotes
\* exactly that plan.
DuePlanCanBePromoted ==
    LET due == DuePlan(ctl)
    IN  ctl.lastPts # NoPts /\ due # NoPlan /\ ~InFlight(ctl) =>
            \A fingerprint \in Fingerprints :
                /\ CanBeginApply(ctl, due.sequence, fingerprint)
                /\ CanAdvance(ApplyBegun(ctl, due.sequence, fingerprint), due.sequence, ctl.lastPts)

\* A plan that is due can be submitted and promoted, and one is missing only where
\* the segment has no frame left for it.
QueueIsServed == StarvedPlanIsInTheLastFrame /\ DuePlanCanBePromoted

\* A promotion moves forward: it counts one confirmed change and the new N is
\* a queued plan numbered after the old N; only a reset takes N away.
PromotionMovesForward ==
    [][ctl'.n # ctl.n /\ ctl'.n # NoPlan =>
          /\ ctl'.confirmed = SaturatingAdd(ctl.confirmed)
          /\ ctl'.n \in {ctl.nPlus1, ctl.nPlus2}
          /\ ctl.n # NoPlan => ctl.n.sequence < ctl'.n.sequence]_ctl

\* What the plan of the video cycle promises and the code does not keep: a seek,
\* a loop or a new source drops the frame rate, and nothing is planned until an
\* observation of the new segment has brought one.
PlansHaveAFrameRate == \A plan \in Plans(ctl) : plan.frame # 0
=============================================================================

---------------------------- MODULE AudioTimeline ----------------------------
(***************************************************************************)
(* OutputTimeline of audio_cycle_output.rs: which track is heard, and how  *)
(* far into it, computed from the number of frames the callback has taken. *)
(* An anchor is the track and the number of the frame its first frame will *)
(* be.  Media positions are frames of the track; the rate, the latency of  *)
(* the hardware, the loop that is reached inside a track and the identity  *)
(* published with the clock are left out.                                  *)
(***************************************************************************)
EXTENDS Integers

NoAnchor == [track |-> "None", frame |-> 0]
Anchor(t, frame) == [track |-> t, frame |-> frame]

NewTimeline == [active |-> NoAnchor, pending |-> NoAnchor]

\* replace_current
Replaced(tl, t, frame) == [active |-> Anchor(t, frame), pending |-> NoAnchor]

\* queue_crossfade: an earlier pending anchor is replaced.
CrossfadeQueued(tl, t, frame) == [tl EXCEPT !.pending = Anchor(t, frame)]

\* The head of media_position_ms and of publish_audible_clock.
Promoted(tl, total) ==
    IF tl.pending # NoAnchor /\ total >= tl.pending.frame
    THEN [active |-> tl.pending, pending |-> NoAnchor]
    ELSE tl

\* estimate_presentation_position_ms: the track and how many of its frames were heard.
Estimate(tl, total) ==
    LET a == Promoted(tl, total).active IN [track |-> a.track, at |-> total - a.frame]
=============================================================================

--------------------------- MODULE PortAudioStream ---------------------------
(***************************************************************************)
(* The PortAudio output of the crate autolive-portaudio-output as a record *)
(* and the operators of its methods: the stream, the ring buffer between   *)
(* the output thread and the callback of the hardware, and the two flags   *)
(* the callback reads.  One element of the ring is one stereo frame.       *)
(*                                                                         *)
(* Left out: the number of channels, the gate and the rings of the         *)
(* microphone, latencies, live_pcm_paused and prestart_writes_enabled,     *)
(* which the audio cycle never sets.                                       *)
(***************************************************************************)
EXTENDS Integers, Sequences

CONSTANTS
    RingCapacity,   \* frames of the ring
    Watermark       \* target_playback_watermark_samples, in frames

StreamAssumption ==
    /\ {RingCapacity, Watermark} \subseteq Nat \ {0}
    /\ Watermark <= RingCapacity

\* Nothing has been heard yet.
Silence == [track |-> "Silence", at |-> 0]

\* A stream whose close failed is quarantined: its callback data are not given back.
StreamStates == {"Closed", "Output", "Duplex", "Quarantined"}

NewStream ==
    [stream   |-> "Closed",
     ring     |-> <<>>,
     clearing |-> FALSE,    \* clear_requested
     held     |-> TRUE,     \* callback_paused
     total    |-> 0,        \* callback_pcm_frames_total
     heard    |-> Silence]  \* the last frame that was popped

Running(d) == d.stream \in {"Output", "Duplex"}

\* start and start_duplex: they open a stream only when the consumer is back; the
\* hardware may refuse, and may refuse to close what it did not start.
Opened(d, mode) == [d EXCEPT !.stream = mode]
Openings(d, mode) ==
    IF d.stream = "Closed" THEN {Opened(d, mode), d, Opened(d, "Quarantined")} ELSE {d}

Held(d, paused) == [d EXCEPT !.held = paused]

\* clear_ring: with the consumer in the callback the ring is cleared by the next one.
RingCleared(d) ==
    IF d.stream = "Closed" THEN [d EXCEPT !.ring = <<>>] ELSE [d EXCEPT !.clearing = TRUE]

\* Faulty variant of StreamStopped: it leaves callback_paused alone.
StreamStoppedHeld(d, closes) ==
    IF d.stream = "Closed" \/ (d.stream # "Quarantined" /\ closes)
    THEN [d EXCEPT !.stream = "Closed", !.clearing = FALSE, !.ring = <<>>]
    ELSE [d EXCEPT !.stream = "Quarantined", !.clearing = TRUE]

\* stop: if the hardware closes the stream the consumer comes back and the ring is
\* cleared at once.  It also lifts callback_paused.
StreamStopped(d, closes) ==
    LET e == [d EXCEPT !.held = FALSE]
    IN  IF d.stream = "Closed" \/ (d.stream # "Quarantined" /\ closes)
        THEN [e EXCEPT !.stream = "Closed", !.clearing = FALSE, !.ring = <<>>]
        ELSE [e EXCEPT !.stream = "Quarantined", !.clearing = TRUE]

\* output_callback: it clears first, even when it is held, and counts what it pops; an
\* underrun counts nothing.
CallbackRan(d) ==
    LET ring == IF d.clearing THEN <<>> ELSE d.ring
        e    == [d EXCEPT !.ring = ring, !.clearing = FALSE]
    IN  IF d.held \/ ring = <<>>
        THEN e
        ELSE [e EXCEPT !.ring = Tail(ring), !.heard = Head(ring), !.total = @ + 1]

\* prime_stereo_interleaved_available: all or nothing, up to the capacity.
CanPrime(d, s) == Running(d) /\ Len(d.ring) + Len(s) <= RingCapacity
Primed(d, s) == [d EXCEPT !.ring = @ \o s]

\* write_stereo_interleaved_available, up to the watermark.
WritableFrames(d) == IF Len(d.ring) < Watermark THEN Watermark - Len(d.ring) ELSE 0
Written(d, s) == [d EXCEPT !.ring = @ \o s]
=============================================================================

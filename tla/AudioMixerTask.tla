---------------------------- MODULE AudioMixerTask ----------------------------
(***************************************************************************)
(* One AudioMixerTask of audio_mixer.rs: the decoder thread that reads PCM *)
(* from an FFmpeg process, the bounded channel, the mixer thread that      *)
(* fills the prebuffer, the output thread that takes from it, and the      *)
(* caller that stops the task.                                             *)
(*                                                                         *)
(* A sample is the number of its turn in what FFmpeg has decoded, so that  *)
(* a lost, repeated or misplaced sample shows.  Samples stand for stereo   *)
(* frames; their values, the effects on them and the rates are left out,   *)
(* except that the pitch processor withholds some and may be given up.     *)
(* FFmpeg may stall, fail to start, fail at the end, close its output and  *)
(* stay, or end without a sample.                                          *)
(***************************************************************************)
EXTENDS Integers, Sequences, FiniteSets, SequencesExt

CONSTANTS
    SourceLength,   \* samples of the source from its beginning
    BlockLength,    \* samples of one read, DECODE_BUFFER_BYTES
    Capacity,       \* MIX_QUEUE_CAPACITY
    Limit,          \* prebuffer_limit_samples
    MinimumReady,   \* minimum_ready_ms, in samples
    Latency,        \* samples the pitch processor withholds
    MaxRead         \* bound: samples read in all

MixerAssumption ==
    /\ {SourceLength, BlockLength, Capacity, Limit} \subseteq Nat \ {0}
    /\ {MinimumReady, Latency, MaxRead} \subseteq Nat

VARIABLES
    eofBehavior,    \* DecoderEofBehavior
    policy,         \* CandidatePrebufferPolicy
    cancelled,      \* the token
    failure,        \* the first AudioMixerFailure
    decoder,        \* where the decoder thread is
    child,          \* the FFmpeg process
    slot,           \* the process is in decoder_process
    left,           \* samples that the process has yet to decode
    read,           \* samples read so far
    emitted,        \* emitted_samples of this process
    pitch,          \* the pitch processor
    withheld,       \* the samples it holds back
    skipped,        \* the samples it held when it was given up
    hand,           \* the block in send
    channel,
    mixer,          \* where the mixer thread is
    received,       \* received_pcm
    pending,        \* pending_samples
    prebuffer,
    elapsed,        \* since prebuffer_started_at, in samples, up to Limit
    ready, finished,
    taken,          \* the last sample that the output took
    stopper         \* where the caller of stop is

decoding == <<decoder, child, slot, left, read, emitted, pitch, withheld, skipped, hand>>
mixing == <<mixer, received, pending, ready, finished>>
vars == <<eofBehavior, policy, cancelled, failure, decoding, channel, mixing, prebuffer,
          elapsed, taken, stopper>>

Failures == {"Ffmpeg", "Runtime"}
DecoderPcs == {"Outer", "Spawned", "Check", "Read", "Send", "Eof", "Wait", "Tail", "Backoff", "Gone"}

TypeOK ==
    /\ eofBehavior \in {"Restart", "Finish"}
    /\ policy \in {"CatchUp", "FixedWindow"}
    /\ cancelled \in BOOLEAN
    /\ failure \in Failures \cup {"None"}
    /\ decoder \in DecoderPcs
    /\ child \in {"None", "Running", "Closed", "Exited", "Failed"}
    /\ slot \in BOOLEAN
    /\ left \in 0 .. SourceLength
    /\ read \in 0 .. MaxRead
    /\ emitted \in 0 .. MaxRead
    /\ pitch \in {"None", "On", "Bypassed"}
    /\ withheld \in Seq(1 .. MaxRead)
    /\ skipped \in SUBSET (1 .. MaxRead)
    /\ hand \in Seq(1 .. MaxRead)
    /\ channel \in Seq(Seq(1 .. MaxRead)) /\ Len(channel) <= Capacity
    /\ mixer \in {"Check", "Receive", "Append", "Gone"}
    /\ received \in BOOLEAN
    /\ pending \in Seq(1 .. MaxRead)
    /\ prebuffer \in Seq(1 .. MaxRead) /\ Len(prebuffer) <= Limit
    /\ elapsed \in 0 .. Limit
    /\ ready \in BOOLEAN /\ finished \in BOOLEAN
    /\ taken \in 0 .. MaxRead
    /\ stopper \in {"Idle", "Terminate", "JoinMixer", "JoinDecoder", "Done"}

\* The position the task starts from leaves `start` samples of the source.
Init ==
    /\ eofBehavior \in {"Restart", "Finish"}
    /\ policy \in {"CatchUp", "FixedWindow"}
    /\ eofBehavior = "Finish" => policy = "FixedWindow"
    /\ cancelled = FALSE
    /\ failure = "None"
    /\ decoder = "Outer"
    /\ child = "None"
    /\ slot = FALSE
    /\ left \in 0 .. SourceLength
    /\ read = 0
    /\ emitted = 0
    /\ pitch \in {"None", "On"}
    /\ withheld = <<>>
    /\ skipped = {}
    /\ hand = <<>>
    /\ channel = <<>>
    /\ mixer = "Check"
    /\ received = FALSE
    /\ pending = <<>>
    /\ prebuffer = <<>>
    /\ elapsed = 0
    /\ ready = FALSE
    /\ finished = FALSE
    /\ taken = 0
    /\ stopper = "Idle"

FirstFailure(f) == IF failure = "None" THEN f ELSE failure
Alive == child \in {"Running", "Closed"}

-----------------------------------------------------------------------------
(* The FFmpeg process *)

\* It decodes all and closes its output; it may live on.
ChildCloses ==
    /\ child = "Running" /\ left = 0
    /\ child' = "Closed"
    /\ UNCHANGED <<eofBehavior, policy, cancelled, failure, decoder, slot, left, read, emitted,
                   pitch, withheld, skipped, hand, channel, mixing, prebuffer, elapsed, taken,
                   stopper>>

\* It ends by itself, with success only once it has decoded all.
ChildExits ==
    /\ \/ child = "Closed" /\ child' \in {"Exited", "Failed"}
       \/ child = "Running" /\ left > 0 /\ child' = "Failed"
    /\ UNCHANGED <<eofBehavior, policy, cancelled, failure, decoder, slot, left, read, emitted,
                   pitch, withheld, skipped, hand, channel, mixing, prebuffer, elapsed, taken,
                   stopper>>

-----------------------------------------------------------------------------
(* The decoder thread: decode_audio_loop *)

\* terminate_decoder_process, then the thread returns and drops its sender.
DecoderLeavesKilling ==
    /\ decoder' = "Gone"
    /\ child' = IF slot /\ Alive THEN "Failed" ELSE child
    /\ slot' = FALSE

DecoderOuter ==
    /\ decoder = "Outer"
    /\ IF cancelled
       THEN /\ decoder' = "Gone"
            /\ UNCHANGED <<failure, child, slot, emitted>>
       ELSE \/ \* the effects can not be set up, or the process not be started
               /\ decoder' = "Gone"
               /\ \E f \in Failures : failure' = FirstFailure(f)
               /\ UNCHANGED <<child, slot, emitted>>
            \/ /\ decoder' = "Spawned"
               /\ child' = "Running"
               /\ emitted' = 0
               /\ UNCHANGED <<failure, slot>>
    /\ UNCHANGED <<eofBehavior, policy, cancelled, left, read, pitch, withheld, skipped, hand,
                   channel, mixing, prebuffer, elapsed, taken, stopper>>

\* Until here the process is known to nobody but this thread.
DecoderPublishes ==
    /\ decoder = "Spawned"
    /\ slot' = TRUE
    /\ decoder' = "Check"
    /\ UNCHANGED <<eofBehavior, policy, cancelled, failure, child, left, read, emitted, pitch,
                   withheld, skipped, hand, channel, mixing, prebuffer, elapsed, taken, stopper>>

Block(n) == [i \in 1 .. n |-> read + i]

\* process_interleaved of the pitch processor: it gives out all but its latency.
Given(s)    == SubSeq(s, 1, Len(s) - Latency)
Withheld(s) == IF Len(s) <= Latency THEN s ELSE SubSeq(s, Len(s) - Latency + 1, Len(s))

\* quality_pitch_output_or_bypass: the block itself when the processor failed; what
\* the processor held is gone.
Processed(block) ==
    \/ /\ pitch = "On"
       /\ hand' = Given(withheld \o block)
       /\ withheld' = Withheld(withheld \o block)
       /\ UNCHANGED <<pitch, skipped>>
    \/ /\ pitch = "On"
       /\ pitch' = "Bypassed"
       /\ hand' = block
       /\ skipped' = skipped \cup Range(withheld)
       /\ withheld' = <<>>
    \/ /\ pitch # "On"
       /\ hand' = block
       /\ UNCHANGED <<pitch, withheld, skipped>>

\* Faulty variant of DecoderChecks: it leaves the process to stop_inner.
DecoderChecksWithoutKilling ==
    /\ decoder = "Check"
    /\ decoder' = IF cancelled THEN "Gone" ELSE "Read"
    /\ UNCHANGED <<eofBehavior, policy, cancelled, failure, child, slot, left, read, emitted,
                   pitch, withheld, skipped, hand, channel, mixing, prebuffer, elapsed, taken,
                   stopper>>

\* The inner loop looks at the token before each read and never during it.
DecoderChecks ==
    /\ decoder = "Check"
    /\ IF cancelled
       THEN DecoderLeavesKilling
       ELSE decoder' = "Read" /\ UNCHANGED <<child, slot>>
    /\ UNCHANGED <<eofBehavior, policy, cancelled, failure, left, read, emitted, pitch, withheld,
                   skipped, hand, channel, mixing, prebuffer, elapsed, taken, stopper>>

\* The read blocks until FFmpeg has written or its output is closed.
DecoderReads ==
    /\ decoder = "Read"
    /\ \/ /\ child = "Running" /\ left > 0
          /\ \E n \in 1 .. BlockLength :
                /\ n <= left /\ read + n <= MaxRead
                /\ left' = left - n
                /\ read' = read + n
                /\ Processed(Block(n))
          /\ decoder' = IF hand' = <<>> THEN "Check" ELSE "Send"
          /\ UNCHANGED <<failure, child, slot>>
       \/ \* the PCM effects fail, or the read does
          /\ child = "Running" /\ left > 0 /\ read < MaxRead
          /\ \/ failure' = FirstFailure("Runtime")
             \/ failure' = IF cancelled THEN failure ELSE FirstFailure("Ffmpeg")
          /\ DecoderLeavesKilling
          /\ UNCHANGED <<left, read, pitch, withheld, skipped, hand>>
       \/ /\ child \in {"Closed", "Exited", "Failed"}
          /\ decoder' = "Eof"
          /\ UNCHANGED <<failure, child, slot, left, read, pitch, withheld, skipped, hand>>
    /\ UNCHANGED <<eofBehavior, policy, cancelled, emitted, channel, mixing, prebuffer, elapsed,
                   taken, stopper>>

\* send_samples_with_backpressure, of a block or of the tail.  It blocks while the
\* channel is full and fails once the mixer has dropped its receiver.
DecoderSends ==
    /\ decoder \in {"Send", "Tail"}
    /\ IF mixer = "Gone"
       THEN /\ DecoderLeavesKilling
            /\ UNCHANGED <<channel, emitted>>
       ELSE /\ Len(channel) < Capacity
            /\ channel' = Append(channel, hand)
            /\ emitted' = emitted + Len(hand)
            /\ decoder' = IF decoder = "Tail" THEN "Gone" ELSE "Check"
            /\ UNCHANGED <<child, slot>>
    /\ hand' = <<>>
    /\ UNCHANGED <<eofBehavior, policy, cancelled, failure, left, read, pitch, withheld, skipped,
                   mixing, prebuffer, elapsed, taken, stopper>>

\* The process is taken out of the slot before it is waited for.
DecoderTakesChild ==
    /\ decoder = "Eof"
    /\ slot' = FALSE
    /\ IF cancelled
       THEN /\ decoder' = "Gone"
            /\ child' = IF slot /\ Alive THEN "Failed" ELSE child
       ELSE /\ decoder' = "Wait"
            /\ UNCHANGED child
    /\ UNCHANGED <<eofBehavior, policy, cancelled, failure, left, read, emitted, pitch, withheld,
                   skipped, hand, channel, mixing, prebuffer, elapsed, taken, stopper>>

\* Faulty variant of SourceEnded: the tail is not flushed.
SourceEndedWithoutTail ==
    /\ IF eofBehavior = "Finish"
       THEN /\ left' = left /\ decoder' = "Gone"
            /\ failure' = IF emitted = 0 THEN FirstFailure("Ffmpeg") ELSE failure
       ELSE /\ left' = SourceLength
            /\ decoder' = IF emitted = 0 THEN "Backoff" ELSE "Outer"
            /\ UNCHANGED failure
    /\ UNCHANGED <<hand, withheld>>

\* What the thread does with a source that ended well: the source again from its
\* beginning, or the tail that the pitch processor still holds and the end.
SourceEnded ==
    IF eofBehavior = "Finish"
    THEN /\ left' = left
         /\ \/ /\ pitch = "On" /\ withheld # <<>>
               /\ decoder' = "Tail" /\ hand' = withheld /\ withheld' = <<>>
               /\ UNCHANGED failure
            \/ \* flush or the PCM effects fail on the tail
               /\ pitch = "On"
               /\ decoder' = "Gone" /\ failure' = FirstFailure("Runtime")
               /\ UNCHANGED <<hand, withheld>>
            \/ /\ pitch # "On" \/ withheld = <<>>
               /\ decoder' = "Gone"
               /\ failure' = IF emitted = 0 THEN FirstFailure("Ffmpeg") ELSE failure
               /\ UNCHANGED <<hand, withheld>>
    ELSE /\ left' = SourceLength
         /\ decoder' = IF emitted = 0 THEN "Backoff" ELSE "Outer"
         /\ UNCHANGED <<failure, hand, withheld>>

\* wait_for_child_exit has no deadline.
DecoderWaits ==
    /\ decoder = "Wait" /\ ~Alive
    /\ IF cancelled
       THEN decoder' = "Gone" /\ UNCHANGED <<failure, left, hand, withheld>>
       ELSE IF child = "Exited"
            THEN SourceEnded
            ELSE /\ decoder' = "Gone"
                 /\ failure' = FirstFailure("Ffmpeg")
                 /\ UNCHANGED <<left, hand, withheld>>
    /\ UNCHANGED <<eofBehavior, policy, cancelled, child, slot, read, emitted, pitch, skipped,
                   channel, mixing, prebuffer, elapsed, taken, stopper>>

\* wait_with_cancellation between two processes that gave nothing.
DecoderBacksOff ==
    /\ decoder = "Backoff"
    /\ decoder' = IF cancelled THEN "Gone" ELSE "Outer"
    /\ UNCHANGED <<eofBehavior, policy, cancelled, failure, child, slot, left, read, emitted,
                   pitch, withheld, skipped, hand, channel, mixing, prebuffer, elapsed, taken,
                   stopper>>

-----------------------------------------------------------------------------
(* The mixer thread: mix_audio_loop *)

\* Faulty variant of MixerChecks: at the limit the thread has done its work.
MixerLeavesAtLimit ==
    /\ mixer = "Check"
    /\ mixer' = IF cancelled \/ Len(prebuffer) >= Limit THEN "Gone"
                ELSE IF pending = <<>> THEN "Receive" ELSE "Append"
    /\ UNCHANGED <<eofBehavior, policy, cancelled, failure, decoding, channel, received, pending,
                   ready, finished, prebuffer, elapsed, taken, stopper>>

\* The head of the loop: it ends when cancelled and waits at the limit.
MixerChecks ==
    /\ mixer = "Check"
    /\ cancelled \/ Len(prebuffer) < Limit
    /\ mixer' = IF cancelled THEN "Gone" ELSE IF pending = <<>> THEN "Receive" ELSE "Append"
    /\ UNCHANGED <<eofBehavior, policy, cancelled, failure, decoding, channel, received, pending,
                   ready, finished, prebuffer, elapsed, taken, stopper>>

MixerReceives ==
    /\ mixer = "Receive" /\ channel # <<>>
    /\ pending' = Head(channel)
    /\ channel' = Tail(channel)
    /\ received' = TRUE
    /\ mixer' = "Append"
    /\ UNCHANGED <<eofBehavior, policy, cancelled, failure, decoding, ready, finished, prebuffer,
                   elapsed, taken, stopper>>

\* recv_timeout finds nothing for a while.
MixerTimesOut ==
    /\ mixer = "Receive" /\ channel = <<>> /\ decoder # "Gone"
    /\ mixer' = "Check"
    /\ UNCHANGED <<eofBehavior, policy, cancelled, failure, decoding, channel, received, pending,
                   ready, finished, prebuffer, elapsed, taken, stopper>>

MixerDisconnected ==
    /\ mixer = "Receive" /\ channel = <<>> /\ decoder = "Gone"
    /\ mixer' = "Gone"
    /\ IF eofBehavior = "Finish" /\ received
       THEN ready' = TRUE /\ finished' = TRUE /\ UNCHANGED failure
       ELSE /\ failure' = IF cancelled THEN failure ELSE FirstFailure("Runtime")
            /\ UNCHANGED <<ready, finished>>
    /\ UNCHANGED <<eofBehavior, policy, cancelled, decoding, channel, received, pending,
                   prebuffer, elapsed, taken, stopper>>

\* append_prebuffer moves what fits and leaves the rest in its argument.

\* Faulty variant of Writable: the limit is checked before the block only.
WritableBlock == Len(pending)

Writable == LET room == Limit - Len(prebuffer)
            IN  IF room < Len(pending) THEN room ELSE Len(pending)

\* Faulty variant of Remainder: what did not fit is dropped.
RemainderDropped == <<>>

Remainder == SubSeq(pending, Writable + 1, Len(pending))

\* Faulty variant of Required: the clock is not capped by the limit.
RequiredUncapped == IF policy = "FixedWindow" THEN Limit ELSE elapsed + MinimumReady

\* candidate_readiness_samples: the prebuffer has to catch up with the clock, but is
\* never asked for more than it may hold.
Required ==
    IF policy = "FixedWindow" THEN Limit
    ELSE IF elapsed + MinimumReady < Limit THEN elapsed + MinimumReady ELSE Limit

MixerAppends ==
    /\ mixer = "Append"
    /\ prebuffer' = prebuffer \o SubSeq(pending, 1, Writable)
    /\ pending' = Remainder
    /\ ready' = (ready \/ Len(prebuffer') >= Required)
    /\ mixer' = "Check"
    /\ UNCHANGED <<eofBehavior, policy, cancelled, failure, decoding, channel, received,
                   finished, elapsed, taken, stopper>>

TimePasses ==
    /\ elapsed < Limit /\ ~ready
    /\ elapsed' = elapsed + 1
    /\ UNCHANGED <<eofBehavior, policy, cancelled, failure, decoding, channel, mixing, prebuffer,
                   taken, stopper>>

-----------------------------------------------------------------------------
(* The output thread and the caller of stop *)

\* take_exact and take_up_to of the track, once the candidate is in use.
OutputTakes ==
    /\ ready /\ prebuffer # <<>>
    /\ \E n \in 1 .. Len(prebuffer) :
          /\ taken' = prebuffer[n]
          /\ prebuffer' = SubSeq(prebuffer, n + 1, Len(prebuffer))
    /\ UNCHANGED <<eofBehavior, policy, cancelled, failure, decoding, channel, mixing, elapsed,
                   stopper>>

\* stop_inner: cancel, terminate the process in the slot, join the mixer, then the decoder.
StopCancels ==
    /\ stopper = "Idle"
    /\ cancelled' = TRUE
    /\ stopper' = "Terminate"
    /\ UNCHANGED <<eofBehavior, policy, failure, decoding, channel, mixing, prebuffer, elapsed,
                   taken>>

\* Faulty variant of StopTerminates: the token alone has to do.
StopOnlyCancels ==
    /\ stopper = "Terminate"
    /\ stopper' = "JoinMixer"
    /\ UNCHANGED <<eofBehavior, policy, cancelled, failure, decoding, channel, mixing, prebuffer,
                   elapsed, taken>>

StopTerminates ==
    /\ stopper = "Terminate"
    /\ child' = IF slot /\ Alive THEN "Failed" ELSE child
    /\ slot' = FALSE
    /\ stopper' = "JoinMixer"
    /\ UNCHANGED <<eofBehavior, policy, cancelled, failure, decoder, left, read, emitted, pitch,
                   withheld, skipped, hand, channel, mixing, prebuffer, elapsed, taken>>

StopJoins ==
    /\ \/ stopper = "JoinMixer" /\ mixer = "Gone" /\ stopper' = "JoinDecoder"
       \/ stopper = "JoinDecoder" /\ decoder = "Gone" /\ stopper' = "Done"
    /\ UNCHANGED <<eofBehavior, policy, cancelled, failure, decoding, channel, mixing, prebuffer,
                   elapsed, taken>>

Ffmpeg == ChildCloses \/ ChildExits
Decoder ==
    \/ DecoderOuter \/ DecoderPublishes \/ DecoderChecks \/ DecoderReads \/ DecoderSends
    \/ DecoderTakesChild \/ DecoderWaits \/ DecoderBacksOff
Mixer == MixerChecks \/ MixerReceives \/ MixerTimesOut \/ MixerDisconnected \/ MixerAppends
Stop == StopCancels \/ StopTerminates \/ StopJoins

Next == Ffmpeg \/ Decoder \/ Mixer \/ TimePasses \/ OutputTakes \/ Stop

Spec == Init /\ [][Next]_vars

\* The threads run and a process whose output is closed ends at last; it may stall
\* before.
StopSpec ==
    Spec /\ WF_vars(Decoder) /\ WF_vars(Mixer) /\ WF_vars(StopTerminates \/ StopJoins)
         /\ WF_vars(child = "Closed" /\ ChildExits)

\* FFmpeg decodes, closes its output and ends.
ReadySpec == StopSpec /\ WF_vars(ChildCloses)

-----------------------------------------------------------------------------
(* Properties *)

\* What is on its way to the output, in order.
Stream == prebuffer \o pending \o FlattenSeq(channel) \o hand \o withheld
Ascending(s) == \A i \in 1 .. Len(s) - 1 : s[i] < s[i + 1]

\* Whatever the output took, the prebuffer's limit, the full channel and the pitch
\* processor did: as long as both threads run, every sample that was read and not yet
\* taken is on its way once and in order, except those the pitch processor took with it
\* (the comment of mix_audio_loop, "时间跳跃").
NoTimeJump ==
    (decoder # "Gone" /\ mixer # "Gone") =>
        /\ Ascending(Stream)
        /\ Range(Stream) = (taken + 1 .. read) \ skipped

\* A finite track that ended without a failure and was not stopped has been read to its
\* end, and all of it is in the prebuffer or taken: is_exhausted can be trusted.
FinishedTrackIsWhole ==
    (finished /\ failure = "None" /\ ~cancelled) =>
        /\ left = 0
        /\ Ascending(prebuffer)
        /\ Range(prebuffer) = (taken + 1 .. read) \ skipped

\* A mixer that ended says why: the output can tell a stopped or finished track from one
\* that starves.
EndIsExplained == mixer = "Gone" => (cancelled \/ finished \/ failure # "None")

\* After stop has returned no FFmpeg process of the task is left, whenever the stop came
\* between the spawn and the wait.
StopLeavesNoProcess == stopper = "Done" => ~Alive

\* The output gets the samples of the track in order, all of them unless something is
\* shown to have gone wrong, and a stop leaves nothing behind.
TaskIsSound == NoTimeJump /\ FinishedTrackIsWhole /\ EndIsExplained /\ StopLeavesNoProcess

\* stop_inner returns, whatever FFmpeg and the channel are doing.
StopReturns == (stopper = "Terminate") ~> (stopper = "Done")

\* A candidate does not stay in preparation for ever: it becomes ready, fails or is
\* cancelled, however small the source and however late the clock.
CandidateSettles == <>(ready \/ failure # "None" \/ cancelled)

\* The comment before the process is taken out of the slot (audio_mixer.rs:818) says that
\* this is done so that stop_inner can terminate it.
StopTerminatesTheProcess ==
    (stopper \in {"JoinMixer", "JoinDecoder"} /\ decoder = "Wait") => ~Alive
=============================================================================

--------------------------- MODULE AudioCycleOutput ---------------------------
(***************************************************************************)
(* The output thread of audio_cycle_output.rs, the only owner of the       *)
(* PortAudio stream and the only consumer of the tracks: its bounded       *)
(* channel, its handlers, one turn of its loop in parts, the callback of   *)
(* the hardware, the callers with their time-outs, and the owner of the    *)
(* tracks in commands.rs as far as it stops the track it believes unused.  *)
(*                                                                         *)
(* A frame is the track it comes from and its turn there, a frame of a     *)
(* crossfade counts for the track that comes in, one frame long; an        *)
(* interlude that is mixed in changes no identity.  Gains, diagnostics and *)
(* the RTMP sink are one command without effect.                           *)
(***************************************************************************)
EXTENDS PortAudioStream, AudioTimeline, FiniteSets, SequencesExt

CONSTANTS
    Callers, Tracks,
    Kinds,          \* the commands that are sent
    QueueCapacity,  \* of the channel
    ToneFrames,     \* frames of a test tone
    TrackLength,    \* bound: frames a track decodes
    MaxCommands     \* bound: commands sent

Exchanges  == {"SetCurrent", "CrossfadeTo"}
Interludes == {"StartInterlude", "CrossfadeInterlude", "PauseInterlude", "ResumeInterlude",
               "StopInterlude"}
AllKinds   == Exchanges \cup Interludes \cup
              {"Tone", "EnableMic", "DisableMic", "Pause", "Resume", "Clear", "Stop", "Adjust"}

OutputAssumption ==
    /\ Kinds \subseteq AllKinds
    /\ {QueueCapacity, ToneFrames} \subseteq Nat \ {0}
    /\ {TrackLength, MaxCommands} \subseteq Nat

\* The values that stand for none, for silence and for the tone are no tracks or callers.
NamesAssumption == {"None", "Silence", "Tone"} \cap Tracks = {} /\ "Nobody" \notin Callers

NoTrack  == "None"
NoCaller == "Nobody"
NoEntry  == [kind |-> "None", by |-> NoCaller, track |-> NoTrack]
NoTone   == [on |-> FALSE, restore |-> FALSE]
NoInterlude == [mode |-> "None", switch |-> NoEntry]
Entries == [kind : AllKinds \cup {"None"}, by : Callers \cup {NoCaller}, track : Tracks \cup {NoTrack}]

VARIABLES
    call,       \* where each caller is
    queue,      \* the channel
    out,        \* the state of output_loop
    device, timeline,
    tracks,     \* of each track: frames taken, decoded, whether its task runs
    slot,       \* the track that AppState holds for the current one
    sent,       \* commands sent
    skewed,     \* since the last SetCurrent a frame was taken and dropped, an anchor was, or
                \* a tone without the frames it stands for
    late,       \* a caller gave up
    wish        \* the last answered Pause or Resume

vars == <<call, queue, out, device, timeline, tracks, slot, sent, skewed, late, wish>>

TypeOK ==
    /\ call \in [Callers -> [at : {"Idle", "Waiting", "Ok", "Err", "Joining"}, kind : AllKinds \cup {"None"},
                             track : Tracks \cup {NoTrack}]]
    /\ queue \in Seq(Entries) /\ Len(queue) <= QueueCapacity
    /\ out.pc \in {"Loop", "Clearing", "Gone"}
    /\ out.entry \in Entries /\ out.switch \in Entries /\ out.interlude.switch \in Entries
    /\ out.current \in Tracks \cup {NoTrack}
    /\ out.interlude.mode \in {"None", "On", "Paused", "Release"}
    /\ out.bridge \in {"None", "Held", "Revoked"}
    /\ {out.paused, out.failed, out.tone.on, out.tone.restore} \subseteq BOOLEAN
    /\ device.stream \in StreamStates
    /\ Len(device.ring) <= RingCapacity
    /\ timeline.active.track \in Tracks \cup {NoTrack}
    /\ tracks \in [Tracks -> [taken : 0 .. TrackLength, decoded : 0 .. TrackLength, live : BOOLEAN]]
    /\ slot \in Tracks \cup {NoTrack}
    /\ sent \in 0 .. MaxCommands
    /\ {skewed, late} \subseteq BOOLEAN
    /\ wish \in {"Pause", "Resume", "None"}

\* start has opened the stream; the callback is held.
Init ==
    /\ call = [c \in Callers |-> [at |-> "Idle", kind |-> "None", track |-> NoTrack]]
    /\ queue = <<>>
    /\ out = [pc |-> "Loop", entry |-> NoEntry, current |-> NoTrack, switch |-> NoEntry,
              pending |-> <<>>, tone |-> NoTone, interlude |-> NoInterlude, bridge |-> "None",
              paused |-> TRUE, failed |-> FALSE]
    /\ device = Opened(NewStream, "Output")
    /\ timeline = NewTimeline
    /\ tracks = [t \in Tracks |-> [taken |-> 0, decoded |-> 0, live |-> TRUE]]
    /\ slot = NoTrack
    /\ sent = 0
    /\ skewed = FALSE /\ late = FALSE
    /\ wish = "None"

Available(t) == tracks[t].decoded - tracks[t].taken
Frames(t, n) == [i \in 1 .. n |-> [track |-> t, at |-> tracks[t].taken + i]]
Taken(t, n)  == [tracks EXCEPT ![t].taken = @ + n]
ToneSamples  == [i \in 1 .. ToneFrames |-> [track |-> "Tone", at |-> i]]

Answered(cs, e, result) ==
    IF e.by = NoCaller THEN cs ELSE [cs EXCEPT ![e.by].at = result]

\* The answers of several entries, all the same.
AllAnswered(cs, es, result) ==
    [c \in Callers |->
        IF \E e \in es : e.by = c THEN [cs[c] EXCEPT !.at = result] ELSE cs[c]]

Unnamed(e, c) == IF e.by = c THEN [e EXCEPT !.by = NoCaller] ELSE e

-----------------------------------------------------------------------------
(* The callers: request, stop and the owner of the tracks *)

\* A track command is given a track that was never used; AppState has one at a time.
MayAsk(k, t) ==
    /\ k \in Kinds
    /\ IF k \in Exchanges
       THEN /\ t \in Tracks /\ tracks[t].live /\ tracks[t].taken = 0 /\ t # slot
            /\ \A c \in Callers : call[c].at = "Idle" \/ call[c].kind \notin Exchanges
            /\ \A i \in 1 .. Len(queue) : queue[i].track # t
            /\ out.entry.track # t /\ out.switch.track # t
       ELSE t = NoTrack

\* Faulty variant of StopMayBeSent: stop uses try_send as well.
StopIsTried == TRUE

StopMayBeSent == Len(queue) < QueueCapacity \/ out.pc = "Gone"

\* try_send: refused when the channel is full or the thread is gone, which the caller
\* sees at once; stop waits for room.
Ask(c) ==
    \E k \in Kinds, t \in Tracks \cup {NoTrack} :
        /\ call[c].at = "Idle"
        /\ sent < MaxCommands
        /\ MayAsk(k, t)
        /\ k = "Stop" => StopMayBeSent
        /\ sent' = sent + 1
        /\ IF out.pc # "Gone" /\ Len(queue) < QueueCapacity
           THEN /\ queue' = Append(queue, [kind |-> k, by |-> c, track |-> t])
                /\ call' = [call EXCEPT ![c] = [at |-> "Waiting", kind |-> k, track |-> t]]
           ELSE /\ call' = [call EXCEPT ![c] = [at |-> "Err", kind |-> k, track |-> t]]
                /\ UNCHANGED queue
        /\ UNCHANGED <<out, device, timeline, tracks, slot, skewed, late, wish>>

\* recv_timeout gives up; the command stays where it is and nobody hears its answer.
GiveUp(c) ==
    /\ call[c].at = "Waiting"
    /\ call' = [call EXCEPT ![c].at = "Err"]
    /\ queue' = [i \in 1 .. Len(queue) |-> Unnamed(queue[i], c)]
    /\ out' = [out EXCEPT !.entry = Unnamed(@, c), !.switch = Unnamed(@, c),
                          !.interlude.switch = Unnamed(@, c)]
    /\ late' = TRUE
    /\ UNCHANGED <<device, timeline, tracks, slot, sent, skewed, wish>>

\* The caller has its answer.  After an exchange it keeps the new track and stops the old
\* task, or stops the candidate; shutdown goes on to join the thread.
Settle(c) ==
    LET a == call[c] IN
    /\ a.at \in {"Ok", "Err"}
    /\ call' = [call EXCEPT ![c] =
                    IF a.kind = "Stop" THEN [a EXCEPT !.at = "Joining"]
                    ELSE [at |-> "Idle", kind |-> "None", track |-> NoTrack]]
    /\ IF a.kind \notin Exchanges
       THEN UNCHANGED <<tracks, slot>>
       ELSE IF a.at = "Ok"
            THEN /\ slot' = a.track
                 /\ tracks' = IF slot = NoTrack THEN tracks
                              ELSE [tracks EXCEPT ![slot].live = FALSE]
            ELSE /\ tracks' = [tracks EXCEPT ![a.track].live = FALSE]
                 /\ UNCHANGED slot
    /\ UNCHANGED <<queue, out, device, timeline, sent, skewed, late, wish>>

Joined(c) ==
    /\ call[c].at = "Joining" /\ out.pc = "Gone"
    /\ call' = [call EXCEPT ![c] = [at |-> "Idle", kind |-> "None", track |-> NoTrack]]
    /\ UNCHANGED <<queue, out, device, timeline, tracks, slot, sent, skewed, late, wish>>

\* The mixer of a live track.
TrackFed(t) ==
    /\ tracks[t].live /\ tracks[t].decoded < TrackLength
    /\ tracks' = [tracks EXCEPT ![t].decoded = @ + 1]
    /\ UNCHANGED <<call, queue, out, device, timeline, slot, sent, skewed, late, wish>>

\* The DSP worker finds its device broken: the flag of the bridge is lowered.
MicrophoneFails ==
    /\ out.bridge = "Held"
    /\ out' = [out EXCEPT !.bridge = "Revoked"]
    /\ UNCHANGED <<call, queue, device, timeline, tracks, slot, sent, skewed, late, wish>>

Callback ==
    /\ device.stream # "Closed"
    /\ device' = CallbackRan(device)
    /\ device' # device
    /\ skewed' = (skewed \/ (device.clearing /\ device.ring # <<>>))
    /\ UNCHANGED <<call, queue, out, timeline, tracks, slot, sent, late, wish>>

-----------------------------------------------------------------------------
(* The handlers of output_loop *)

Hd == Head(queue)
Handles(k) == out.pc = "Loop" /\ queue # <<>> /\ Hd.kind = k /\ queue' = Tail(queue)

\* The thread returns: the receivers of all it held see the channel closed.
ThreadEnds(cs, closes) ==
    LET held == Range(queue') \cup {out.switch, out.interlude.switch}
    IN  /\ call' = AllAnswered(cs, held, "Err")
        /\ device' = StreamStopped(device, closes)
        /\ skewed' = TRUE

Ended == [out EXCEPT !.pc = "Gone", !.switch = NoEntry, !.interlude = NoInterlude,
                     !.bridge = "None", !.entry = NoEntry]

HandleAdjust ==
    /\ Handles("Adjust")
    /\ call' = Answered(call, Hd, "Ok")
    /\ UNCHANGED <<out, device, timeline, tracks, slot, sent, skewed, late, wish>>

\* SetCurrent up to clear_ring_synchronously.
HandleSetCurrent ==
    /\ Handles("SetCurrent")
    /\ LET before == Answered(call, out.switch, "Err")
           drops  == out.pending # <<>>
       IN  IF Available(Hd.track) < Watermark
           THEN /\ out' = [out EXCEPT !.switch = NoEntry, !.pending = <<>>, !.tone = NoTone]
                /\ call' = Answered(before, Hd, "Err")
                /\ skewed' = (skewed \/ drops \/ out.tone.on)
                /\ UNCHANGED device
           ELSE /\ out' = [out EXCEPT !.switch = NoEntry, !.pending = <<>>, !.tone = NoTone,
                                      !.paused = TRUE, !.pc = "Clearing", !.entry = Hd]
                /\ device' = RingCleared(Held(device, TRUE))
                /\ call' = before
                /\ skewed' = TRUE
    /\ UNCHANGED <<timeline, tracks, slot, sent, late, wish>>

\* apply_interlude_mix over a chunk of the main track: what may become of the interlude,
\* and the answer to a crossfade inside it.
Mixes(i) ==
    LET none(to) == [to |-> to, ok |-> "None"] IN
    IF i.mode \in {"None", "Paused"} THEN {none(i)}
    ELSE IF i.switch = NoEntry
         THEN {none(i), none([i EXCEPT !.mode = "Release"])}
              \cup (IF i.mode = "Release" THEN {none(NoInterlude)} ELSE {})
         ELSE {none(i)}
              \cup {[to |-> [i EXCEPT !.switch = NoEntry], ok |-> r] : r \in {"Ok", "Err"}}
              \cup (IF i.mode = "Release" THEN {[to |-> NoInterlude, ok |-> "Err"]} ELSE {})

InterludeAnswered(cs, m) ==
    IF m.ok = "None" THEN cs ELSE Answered(cs, out.interlude.switch, m.ok)

\* SetCurrent after the ring is empty.  The track is consumed by this thread alone, so it
\* still has the frames that were there.
SetCurrentCommits ==
    /\ out.pc = "Clearing" /\ out.entry.kind = "SetCurrent" /\ device.ring = <<>>
    /\ LET t == out.entry.track
           s == Frames(t, Watermark)
       IN  /\ tracks' = Taken(t, Watermark)
           /\ \E m \in Mixes(out.interlude) :
                 IF CanPrime(device, s)
                 THEN /\ device' = Primed(device, s)
                      /\ timeline' = Replaced(timeline, t, device.total)
                      /\ out' = [out EXCEPT !.pc = "Loop", !.entry = NoEntry, !.current = t,
                                            !.interlude = m.to]
                      /\ call' = Answered(InterludeAnswered(call, m), out.entry, "Ok")
                      /\ skewed' = FALSE
                 ELSE /\ out' = [out EXCEPT !.pc = "Loop", !.entry = NoEntry,
                                            !.current = NoTrack, !.interlude = m.to]
                      /\ call' = Answered(InterludeAnswered(call, m), out.entry, "Err")
                      /\ UNCHANGED <<device, timeline, skewed>>
    /\ wish' = "None"
    /\ UNCHANGED <<queue, slot, sent, late>>

\* The candidate is accepted; it is committed by a later turn of the loop.
HandleCrossfadeTo ==
    /\ Handles("CrossfadeTo")
    /\ IF out.current = NoTrack \/ out.paused \/ out.switch # NoEntry \/ out.tone.on
          \/ Available(Hd.track) < 1
       THEN call' = Answered(call, Hd, "Err") /\ UNCHANGED out
       ELSE out' = [out EXCEPT !.switch = Hd] /\ UNCHANGED call
    /\ UNCHANGED <<device, timeline, tracks, slot, sent, skewed, late, wish>>

\* PlayTestTone up to clear_ring_synchronously.  out.tone keeps restore_paused.
HandleTone ==
    /\ Handles("Tone")
    /\ IF out.switch # NoEntry \/ out.tone.on \/ out.interlude.mode # "None"
       THEN call' = Answered(call, Hd, "Err") /\ UNCHANGED <<out, device, skewed>>
       ELSE /\ out' = [out EXCEPT !.pending = <<>>, !.pc = "Clearing", !.entry = Hd]
            /\ device' = RingCleared(Held(device, TRUE))
            /\ skewed' = (skewed \/ out.pending # <<>>)
            /\ UNCHANGED call
    /\ UNCHANGED <<timeline, tracks, slot, sent, late, wish>>

ToneStarts ==
    /\ out.pc = "Clearing" /\ out.entry.kind = "Tone" /\ device.ring = <<>>
    /\ out' = [out EXCEPT !.pc = "Loop", !.entry = NoEntry, !.pending = ToneSamples,
                          !.tone = [on |-> TRUE, restore |-> out.paused], !.paused = FALSE]
    /\ device' = Held(device, FALSE)
    /\ call' = Answered(call, out.entry, "Ok")
    /\ UNCHANGED <<queue, timeline, tracks, slot, sent, skewed, late, wish>>

\* Faulty variant of ClearingTimesOut: the caller is told that all went well.
ClearingTimesOutUnnoticed ==
    /\ out.pc = "Clearing" /\ device.ring # <<>>
    /\ out' = [out EXCEPT !.pc = "Loop", !.entry = NoEntry]
    /\ call' = Answered(call, out.entry, "Ok")
    /\ UNCHANGED <<queue, device, timeline, tracks, slot, sent, skewed, late, wish>>

\* The ring was not cleared in time.  A tone leaves the callback held, a new current
\* track leaves the old one current.
ClearingTimesOut ==
    /\ out.pc = "Clearing" /\ device.ring # <<>>
    /\ out' = [out EXCEPT !.pc = "Loop", !.entry = NoEntry]
    /\ call' = Answered(call, out.entry, "Err")
    /\ UNCHANGED <<queue, device, timeline, tracks, slot, sent, skewed, late, wish>>

HandleStartInterlude ==
    /\ Handles("StartInterlude")
    /\ \/ /\ out.current # NoTrack /\ ~out.paused
          /\ out' = [out EXCEPT !.interlude = [mode |-> "On", switch |-> NoEntry]]
          /\ call' = Answered(Answered(call, out.interlude.switch, "Err"), Hd, "Ok")
       \/ \* refused, also when the insert has not decoded enough
          /\ call' = Answered(call, Hd, "Err") /\ UNCHANGED out
    /\ UNCHANGED <<device, timeline, tracks, slot, sent, skewed, late, wish>>

HandleCrossfadeInterlude ==
    /\ Handles("CrossfadeInterlude")
    /\ \/ /\ out.interlude.mode \in {"On", "Release"} /\ out.interlude.switch = NoEntry
          /\ out' = [out EXCEPT !.interlude.switch = Hd]
          /\ UNCHANGED call
       \/ \* refused: none, paused, switching already, silent or too short
          /\ call' = Answered(call, Hd, "Err") /\ UNCHANGED out
    /\ UNCHANGED <<device, timeline, tracks, slot, sent, skewed, late, wish>>

\* pause, resume and begin_release of the insert, nothing without one.
InterludeMode == [PauseInterlude |-> "Paused", ResumeInterlude |-> "On", StopInterlude |-> "Release"]

\* Faulty variant of HandleInterludeMode: a stopped insert forgets who waits for its
\* crossfade.
HandleInterludeModeSilently ==
    /\ Handles("StopInterlude")
    /\ out' = [out EXCEPT !.interlude = IF @.mode = "None" THEN @ ELSE [mode |-> "Release", switch |-> NoEntry]]
    /\ call' = Answered(call, Hd, "Ok")
    /\ UNCHANGED <<device, timeline, tracks, slot, sent, skewed, late, wish>>

HandleInterludeMode ==
    /\ \E k \in DOMAIN InterludeMode :
          /\ Handles(k)
          /\ LET i == out.interlude
                 keeps == k = "ResumeInterlude"
             IN  IF i.mode = "None"
                 THEN /\ call' = Answered(call, Hd, "Ok")
                      /\ UNCHANGED out
                 ELSE /\ out' = [out EXCEPT !.interlude =
                                    [mode   |-> InterludeMode[k],
                                     switch |-> IF keeps THEN i.switch ELSE NoEntry]]
                      /\ call' = Answered(IF keeps THEN call ELSE Answered(call, i.switch, "Err"),
                                          Hd, "Ok")
    /\ UNCHANGED <<device, timeline, tracks, slot, sent, skewed, late, wish>>

\* The stream is closed and opened again with the microphone, or as it was when that
\* fails; what the ring held is gone.  set_callback_paused comes after either.
HandleEnableMic ==
    /\ Handles("EnableMic")
    /\ IF out.bridge # "None"
       THEN call' = Answered(call, Hd, "Err") /\ UNCHANGED <<out, device, skewed>>
       ELSE \E closes \in BOOLEAN : \E d \in Openings(StreamStopped(device, closes), "Duplex") :
            /\ \E e \in (IF Running(d) THEN {d} ELSE Openings(d, "Output")) :
                  device' = Held(e, out.paused)
            /\ out' = IF Running(d) THEN [out EXCEPT !.bridge = "Held"] ELSE out
            /\ call' = Answered(call, Hd, IF Running(d) THEN "Ok" ELSE "Err")
            /\ skewed' = (skewed \/ device.ring # <<>>)
    /\ UNCHANGED <<timeline, tracks, slot, sent, late, wish>>

\* Faulty variants of HandleDisableMic: the pause is not restored; the bridge is kept.
HandleDisableMicUnheld ==
    /\ Handles("DisableMic")
    /\ device' \in Openings(StreamStopped(device, TRUE), "Output")
    /\ call' = Answered(call, Hd, "Ok")
    /\ out' = [out EXCEPT !.bridge = "None"]
    /\ skewed' = (skewed \/ device.ring # <<>>)
    /\ UNCHANGED <<timeline, tracks, slot, sent, late, wish>>

HandleDisableMicKeeping ==
    /\ Handles("DisableMic")
    /\ device' = Held(Opened(StreamStopped(device, TRUE), "Output"), out.paused)
    /\ call' = Answered(call, Hd, "Ok")
    /\ skewed' = (skewed \/ device.ring # <<>>)
    /\ UNCHANGED <<out, timeline, tracks, slot, sent, late, wish>>

HandleDisableMic ==
    /\ Handles("DisableMic")
    /\ \E closes \in BOOLEAN : \E d \in Openings(StreamStopped(device, closes), "Output") :
          /\ device' = Held(d, out.paused)
          /\ call' = Answered(call, Hd, IF Running(d) THEN "Ok" ELSE "Err")
    /\ out' = [out EXCEPT !.bridge = "None"]
    /\ skewed' = (skewed \/ device.ring # <<>>)
    /\ UNCHANGED <<timeline, tracks, slot, sent, late, wish>>

\* Faulty variant of HandlePause: the candidate that waits is kept.
HandlePauseKeeping ==
    /\ Handles("Pause")
    /\ out' = [out EXCEPT !.paused = TRUE]
    /\ device' = Held(device, TRUE)
    /\ call' = Answered(call, Hd, "Ok")
    /\ timeline' = Promoted(timeline, device.total)
    /\ wish' = "Pause"
    /\ UNCHANGED <<tracks, slot, sent, skewed, late>>

HandlePause ==
    /\ Handles("Pause")
    /\ out' = [out EXCEPT !.switch = NoEntry, !.paused = TRUE]
    /\ device' = Held(device, TRUE)
    /\ call' = Answered(Answered(call, out.switch, "Err"), Hd, "Ok")
    /\ timeline' = Promoted(timeline, device.total)
    /\ wish' = "Pause"
    /\ UNCHANGED <<tracks, slot, sent, skewed, late>>

\* During a tone the answer is Ok and nothing is lifted.
HandleResume ==
    /\ Handles("Resume")
    /\ IF out.current = NoTrack /\ ~out.tone.on
       THEN call' = Answered(call, Hd, "Err") /\ UNCHANGED <<out, device, timeline, wish>>
       ELSE /\ IF out.tone.on
               THEN UNCHANGED <<out, device>>
               ELSE /\ out' = [out EXCEPT !.paused = FALSE]
                    /\ device' = Held(device, FALSE)
            /\ timeline' = Promoted(timeline, device.total)
            /\ call' = Answered(call, Hd, "Ok")
            /\ wish' = "Resume"
    /\ UNCHANGED <<tracks, slot, sent, skewed, late>>

\* Faulty variant of HandleClear: a candidate that waits is dropped without an answer.
HandleClearSilently ==
    /\ Handles("Clear")
    /\ out' = [out EXCEPT !.pc = "Clearing", !.entry = Hd, !.switch = NoEntry, !.pending = <<>>,
                          !.current = NoTrack, !.tone = NoTone, !.interlude = NoInterlude,
                          !.bridge = "None", !.paused = TRUE]
    /\ timeline' = NewTimeline
    /\ device' = RingCleared(Held(device, TRUE))
    /\ skewed' = TRUE
    /\ wish' = "None"
    /\ UNCHANGED <<call, tracks, slot, sent, late>>

HandleClear ==
    /\ Handles("Clear")
    /\ out' = [out EXCEPT !.pc = "Clearing", !.entry = Hd, !.switch = NoEntry, !.pending = <<>>,
                          !.current = NoTrack, !.tone = NoTone, !.interlude = NoInterlude,
                          !.bridge = "None", !.paused = TRUE]
    /\ timeline' = NewTimeline
    /\ device' = RingCleared(Held(device, TRUE))
    /\ call' = AllAnswered(call, {out.switch, out.interlude.switch}, "Err")
    /\ skewed' = TRUE
    /\ wish' = "None"
    /\ UNCHANGED <<tracks, slot, sent, late>>

ClearDone ==
    /\ out.pc = "Clearing" /\ out.entry.kind = "Clear" /\ device.ring = <<>>
    /\ out' = [out EXCEPT !.pc = "Loop", !.entry = NoEntry]
    /\ call' = Answered(call, out.entry, "Ok")
    /\ UNCHANGED <<queue, device, timeline, tracks, slot, sent, skewed, late, wish>>

HandleStop ==
    /\ Handles("Stop")
    /\ \E closes \in BOOLEAN : ThreadEnds(Answered(call, Hd, "Ok"), closes)
    /\ out' = Ended
    /\ timeline' = Promoted(timeline, device.total)
    /\ UNCHANGED <<tracks, slot, sent, late, wish>>

-----------------------------------------------------------------------------
(* A turn of the loop after the commands *)

Turn == out.pc = "Loop" /\ queue = <<>> /\ out.bridge # "Revoked"
Idles == ~out.tone.on /\ out.paused /\ out.pending = <<>>

\* The thread takes the stream back from a broken microphone, or ends.
MicrophoneTakenBack ==
    /\ out.pc = "Loop" /\ queue = <<>> /\ out.bridge = "Revoked" /\ UNCHANGED queue
    /\ \E closes \in BOOLEAN : \E d \in Openings(StreamStopped(device, closes), "Output") :
          IF Running(d)
          THEN /\ device' = Held(d, out.paused)
               /\ out' = [out EXCEPT !.bridge = "None"]
               /\ skewed' = (skewed \/ device.ring # <<>>)
               /\ UNCHANGED <<call, timeline>>
          ELSE /\ ThreadEnds(call, closes)
               /\ out' = [Ended EXCEPT !.failed = TRUE]
               /\ timeline' = Promoted(timeline, device.total)
    /\ UNCHANGED <<tracks, slot, sent, late, wish>>

\* publish_audible_clock and update_status promote an anchor that is reached.
ClockRefreshed ==
    /\ Turn
    /\ timeline' = Promoted(timeline, device.total)
    /\ timeline' # timeline
    /\ UNCHANGED <<call, queue, out, device, tracks, slot, sent, skewed, late, wish>>

\* Faulty variant of ToneEnds: the track goes on where it was.
ToneEndsWithoutSkip ==
    /\ Turn /\ out.pending = <<>> /\ out.tone.on /\ device.ring = <<>>
    /\ out' = [out EXCEPT !.tone = NoTone, !.paused = out.tone.restore]
    /\ device' = Held(device, out.tone.restore)
    /\ UNCHANGED <<call, queue, timeline, tracks, slot, sent, skewed, late, wish>>

\* The tone has been played: the current track skips as many frames as it has of them.
ToneEnds ==
    /\ Turn /\ out.pending = <<>> /\ out.tone.on /\ device.ring = <<>>
    /\ LET t == out.current
           n == IF t = NoTrack THEN 0
                ELSE IF Available(t) < ToneFrames THEN Available(t) ELSE ToneFrames
       IN  /\ tracks' = IF t = NoTrack THEN tracks ELSE Taken(t, n)
           /\ skewed' = (skewed \/ n < ToneFrames)
    /\ out' = [out EXCEPT !.tone = NoTone, !.paused = out.tone.restore]
    /\ device' = Held(device, out.tone.restore)
    /\ UNCHANGED <<call, queue, timeline, slot, sent, late, wish>>

Switches == Turn /\ ~Idles /\ out.pending = <<>> /\ ~out.tone.on /\ out.switch # NoEntry

\* Faulty variant of SwitchRefused: the refused candidate is not taken out.
SwitchRefusedKept ==
    /\ Switches
    /\ out' = [out EXCEPT !.switch.by = NoCaller]
    /\ call' = Answered(call, out.switch, "Err")
    /\ UNCHANGED <<queue, device, timeline, tracks, slot, sent, skewed, late, wish>>

\* A silent candidate, no room in the ring or a starved old track when the time is up.
SwitchRefused ==
    /\ Switches
    /\ out' = [out EXCEPT !.switch = NoEntry]
    /\ call' = Answered(call, out.switch, "Err")
    /\ UNCHANGED <<queue, device, timeline, tracks, slot, sent, skewed, late, wish>>

\* take_crossfade_pair_or_fade_in: the old track gives a frame, or the ring is empty.
CanFade ==
    /\ RingCapacity - Len(device.ring) >= 1
    /\ Available(out.switch.track) >= 1
    /\ Available(out.current) >= 1 \/ device.ring = <<>>

\* Faulty variant of FadeFrame: the ring before the fade is forgotten.
FadeFrameNow == device.total

FadeFrame == device.total + Len(device.ring)

SwitchCommits ==
    /\ Switches /\ CanFade
    /\ LET new == out.switch.track
           old == out.current
           s   == Frames(new, 1)
       IN  /\ tracks' = [tracks EXCEPT
                            ![old].taken = IF Available(old) >= 1 THEN @ + 1 ELSE @,
                            ![new].taken = @ + 1]
           /\ \E m \in Mixes(out.interlude) :
                 IF CanPrime(device, s)
                 THEN /\ device' = Primed(device, s)
                      /\ timeline' = CrossfadeQueued(timeline, new, FadeFrame)
                      /\ out' = [out EXCEPT !.current = new, !.switch = NoEntry,
                                            !.interlude = m.to]
                      /\ call' = Answered(InterludeAnswered(call, m), out.switch, "Ok")
                      /\ skewed' = (skewed \/ timeline.pending # NoAnchor)
                 ELSE /\ out' = [out EXCEPT !.switch = NoEntry, !.interlude = m.to]
                      /\ call' = Answered(InterludeAnswered(call, m), out.switch, "Err")
                      /\ skewed' = TRUE
                      /\ UNCHANGED <<device, timeline>>
    /\ UNCHANGED <<queue, slot, sent, late, wish>>

\* Faulty variant of Refill: it takes a chunk that is not there.
RefillPastTheEnd ==
    /\ Turn /\ ~Idles /\ out.pending = <<>> /\ ~out.tone.on /\ out.switch = NoEntry
    /\ out.current # NoTrack
    /\ out' = [out EXCEPT !.pending = Frames(out.current, 1)]
    /\ tracks' = Taken(out.current, 1)
    /\ UNCHANGED <<call, queue, device, timeline, slot, sent, skewed, late, wish>>

\* The old track is short of a whole crossfade: it is played on.  Here a crossfade is one
\* frame, so there is nothing to play.  Otherwise a chunk of the current track.
Refill ==
    /\ Turn /\ ~Idles /\ out.pending = <<>> /\ ~out.tone.on /\ out.switch = NoEntry
    /\ out.current # NoTrack /\ Available(out.current) >= 1
    /\ \E m \in Mixes(out.interlude) :
          /\ out' = [out EXCEPT !.pending = Frames(out.current, 1), !.interlude = m.to]
          /\ call' = InterludeAnswered(call, m)
    /\ tracks' = Taken(out.current, 1)
    /\ UNCHANGED <<queue, device, timeline, slot, sent, skewed, late, wish>>

\* The write fails only on a stream that is not running; the thread then ends.
Write ==
    /\ Turn /\ out.pending # <<>> /\ WritableFrames(device) >= 1
    /\ IF Running(device)
       THEN /\ device' = Written(device, <<Head(out.pending)>>)
            /\ out' = [out EXCEPT !.pending = Tail(@)]
            /\ UNCHANGED <<call, queue, timeline, skewed>>
       ELSE /\ UNCHANGED queue
            /\ \E closes \in BOOLEAN : ThreadEnds(call, closes)
            /\ out' = [Ended EXCEPT !.failed = TRUE]
            /\ timeline' = Promoted(timeline, device.total)
    /\ UNCHANGED <<tracks, slot, sent, late, wish>>

Handler ==
    \/ HandleAdjust \/ HandleSetCurrent \/ HandleCrossfadeTo \/ HandleTone \/ HandleStartInterlude
    \/ HandleCrossfadeInterlude \/ HandleInterludeMode \/ HandleEnableMic \/ HandleDisableMic
    \/ HandlePause \/ HandleResume \/ HandleClear \/ HandleStop
Clearing == SetCurrentCommits \/ ToneStarts \/ ClearDone \/ ClearingTimesOut
Loop ==
    \/ MicrophoneTakenBack \/ ClockRefreshed \/ ToneEnds \/ SwitchRefused \/ SwitchCommits
    \/ Refill \/ Write
Thread == Handler \/ Clearing \/ Loop

Next ==
    \/ \E c \in Callers : Ask(c) \/ GiveUp(c) \/ Settle(c) \/ Joined(c)
    \/ \E t \in Tracks : TrackFed(t)
    \/ MicrophoneFails \/ Callback
    \/ Thread

Spec == Init /\ [][Next]_vars

\* The thread runs; the owner settles what was answered.
ThreadSpec == Spec /\ WF_vars(Thread) /\ \A c \in Callers : WF_vars(Settle(c) \/ Joined(c))

\* The hardware calls back as long as the stream runs.
DeviceSpec == ThreadSpec /\ WF_vars(Running(device) /\ Callback)

-----------------------------------------------------------------------------
(* Properties *)

Exchanging == \E c \in Callers : call[c].at # "Idle" /\ call[c].kind \in Exchanges

\* A caller that waits is in exactly one place of the thread, so it is answered once: no
\* handler forgets a candidate that it replaces and none answers it twice.
WaitingCallIsHeld ==
    \A c \in Callers :
        call[c].at = "Waiting" =>
            Cardinality({i \in 1 .. Len(queue) : queue[i].by = c})
            + Cardinality({p \in {"entry", "switch", "interlude"} :
                  LET e == CASE p = "entry" -> out.entry
                             [] p = "switch" -> out.switch
                             [] p = "interlude" -> out.interlude.switch
                  IN  e.by = c}) = 1

\* As long as no frame was dropped, the clock names the track that is heard and how much of
\* it: the anchor of a crossfade lies behind what the ring held, pauses and underruns do not
\* move it, and it is promoted when the fade is heard and not when it is written.
ClockNamesWhatIsHeard ==
    LET e == Estimate(timeline, device.total)
    IN  (~skewed /\ device.heard.track \in Tracks /\ e.at > 0) => e = device.heard

\* If no caller gave up, the output plays the track whose task the application keeps alive;
\* a switch that was refused or cancelled never takes effect.
CurrentIsTheSlot ==
    (~late /\ ~Exchanging /\ out.current # NoTrack) => out.current = slot

\* A pause cancels the candidate that waits, and so does everything else that holds the
\* output: resuming commits no old candidate.
PausedHasNoCandidate == (out.pc = "Loop" /\ out.paused) => out.switch = NoEntry

\* While the thread is paused the hardware is held, whatever was done to the stream.
PausedIsHeld == (out.pc = "Loop" /\ out.paused /\ Running(device)) => device.held

\* The bridge that the DSP worker uses belongs to a stream with an input, and no bridge
\* outlives the thread.
BridgeHasItsStream ==
    /\ out.bridge = "Held" => device.stream = "Duplex"
    /\ out.pc = "Gone" => (out.bridge = "None" /\ ~Running(device))

\* shutdown joins the thread without a deadline: the thread ends.
ShutdownReturns == \A c \in Callers : (call[c].at = "Joining") ~> (call[c].at # "Joining")

\* A candidate that was accepted is decided: committed, refused or cancelled.
SwitchIsDecided == (out.switch # NoEntry) ~> (out.switch = NoEntry)

\* The comment in output_loop (audio_cycle_output.rs:1353) and the one of
\* set_callback_paused (lib.rs of the crate) say that a held callback keeps the frames that
\* the first SetCurrent has primed.
PrimedPcmIsKept ==
    (out.pc = "Loop" /\ out.current # NoTrack /\ device.held /\ device.ring # <<>>)
        => ~device.clearing

\* The comment where the thread takes the stream back (audio_cycle_output.rs:1315) says that
\* it leaves by its failure path when the hardware can not be used.
DeadStreamIsReported ==
    (out.pending # <<>> /\ ~Running(device))
        ~> (out.pc = "Gone" \/ Running(device) \/ out.pending = <<>>)

\* The plan of the switching says that a candidate that failed or is late leaves the old
\* track playing.
LateCandidateIsDropped ==
    (slot # NoTrack /\ out.current # NoTrack /\ ~Exchanging) => out.current = slot

\* The same plan says that the sound stops with a pause.
PauseHolds ==
    (out.pc = "Loop" /\ wish = "Pause" /\ ~out.tone.on /\ Running(device)) => device.held

-----------------------------------------------------------------------------
(* The abstract output *)

Undecided ==
    {e.track : e \in Range(queue) \cup {out.entry, out.switch}} \ {NoTrack}

Abstract == INSTANCE AudioOutput WITH
    playing <- IF out.pc = "Gone" THEN NoTrack ELSE out.current,
    asked   <- IF out.pc = "Gone" THEN {} ELSE Undecided,
    answer  <- [c \in Callers |-> IF call[c].kind \in Exchanges
                                  THEN [at |-> call[c].at, track |-> call[c].track]
                                  ELSE [at |-> "None", track |-> NoTrack]]

\* The thread with its channel, its interlude, its time-outs and its broken hardware decides
\* every exchange once, and tells the caller what it did.
DecidesOnceStart == Abstract!OutputInit
DecidesOnceStep == Abstract!OutputNext \/ UNCHANGED Abstract!outputVars
DecidesOnce == Abstract!OutputSpec
=============================================================================

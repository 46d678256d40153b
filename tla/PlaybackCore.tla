---------------------------- MODULE PlaybackCore ----------------------------
(***************************************************************************)
(* PlaybackCore of lib.rs: the pool, the item that plays, and the          *)
(* candidates for its picture, its sound and its speech.  It is a record   *)
(* behind one lock; an operator is one of its methods, and an error is the *)
(* record unchanged.                                                       *)
(*                                                                         *)
(* A source is its kind and a name.  A candidate is the identity it is     *)
(* committed under.  Artifacts are numbers, hashes and the texts of a      *)
(* fallback are left out, and so is the progress in percent.               *)
(***************************************************************************)
EXTENDS Naturals, Sequences

CONSTANTS
    MaxPoolItems,  \* MAX_SOURCE_MEDIA_POOL_ITEMS
    Duration,      \* duration of every source
    FirstConfig    \* the parameters before any were set

CoreAssumption == MaxPoolItems \in Nat \ {0} /\ Duration \in Nat \ {0}

NoFile   == 0
NoConfig == "NoConfig"
NoSource == [name |-> "NoSource", kind |-> "None"]
NoCandidate == [sequence |-> 0, generation |-> 0, revision |-> 0]
NoSpeech    == [segment |-> 0, generation |-> 0, loop |-> 0, start |-> 0]

States == {"Ready", "Playing", "Paused", "Stopped"}
Statuses == {"disabled", "not_applicable", "unavailable", "configured", "processing", "ready",
             "failed", "runtime"}

Candidates == [sequence : Nat, generation : Nat, revision : Nat]

CoreType(Configs, Sources) ==
    [pool : Seq(Sources), index : Nat, cycle : Nat, loop : Nat, generation : Nat,
     state : States, position : 0 .. Duration - 1,
     video : [on : BOOLEAN, status : Statuses, candidate : Candidates, file : Nat,
              current : Nat],
     audio : [on : BOOLEAN, status : Statuses, candidate : Candidates, file : Nat,
              current : Nat, config : Configs \cup {NoConfig}],
     speech : [on : BOOLEAN, status : {"unavailable", "running", "ready", "failed", "cancelled"},
               candidate : [segment : Nat, generation : Nat, loop : Nat, start : Nat],
               current : Nat,
               decision : {"keep_original", "rewrite", "fallback_original"}],
     config : Configs, revision : Nat]

Default ==
    [pool |-> <<>>, index |-> 0, cycle |-> 0, loop |-> 0, generation |-> 0,
     state |-> "Stopped", position |-> 0,
     video |-> [on |-> FALSE, status |-> "disabled", candidate |-> NoCandidate,
                file |-> NoFile, current |-> NoFile],
     audio |-> [on |-> FALSE, status |-> "disabled", candidate |-> NoCandidate,
                file |-> NoFile, current |-> NoFile, config |-> NoConfig],
     speech |-> [on |-> FALSE, status |-> "unavailable", candidate |-> NoSpeech,
                 current |-> 0, decision |-> "keep_original"],
     config |-> FirstConfig, revision |-> 0]

Source(c)    == IF c.pool = <<>> THEN NoSource ELSE c.pool[c.index + 1]
HasSource(c) == c.pool # <<>>
Single(c)    == Len(c.pool) = 1

-----------------------------------------------------------------------------
(* What the states of a candidate are called, and resetting *)

VideoApplies(c) == c.video.on /\ Source(c).kind = "Video"
VideoStatus(c, status) ==
    IF ~c.video.on THEN "disabled" ELSE IF VideoApplies(c) THEN status ELSE "not_applicable"
AudioStatus(c, status) == IF c.audio.on THEN status ELSE "disabled"

SetVideoStatus(c, status) == [c EXCEPT !.video.status = VideoStatus(c, status)]
SetAudioStatus(c, status) == [c EXCEPT !.audio.status = AudioStatus(c, status)]

ClearVideo(c) == [c EXCEPT !.video.candidate = NoCandidate, !.video.file = NoFile]
ClearAudio(c) == [c EXCEPT !.audio.candidate = NoCandidate, !.audio.file = NoFile,
                           !.audio.config = NoConfig]

\* reset_video_to_original leaves the candidate, reset_audio_to_original does not.
ResetVideo(c) == [c EXCEPT !.video.current = NoFile]
ResetAudio(c) == [ClearAudio(c) EXCEPT !.audio.current = NoFile, !.speech.current = 0,
                                       !.speech.decision = "keep_original"]

Unprocessed(c) ==
    SetVideoStatus(SetAudioStatus(ClearVideo(ResetVideo(ResetAudio(c))), "unavailable"),
                   "unavailable")

-----------------------------------------------------------------------------
(* The pool *)

ValidPool(pool) ==
    /\ Len(pool) \in 1 .. MaxPoolItems
    /\ \A i, j \in DOMAIN pool : pool[i].name = pool[j].name => i = j

\* replace_source_pool
Replaced(c, pool) ==
    Unprocessed([c EXCEPT
        !.pool = pool, !.index = 0, !.cycle = 0, !.loop = 0, !.generation = @ + 1,
        !.state = IF pool = <<>> THEN "Stopped" ELSE "Ready", !.position = 0,
        !.speech.status = "unavailable", !.speech.candidate = NoSpeech])

SetPool(c, pool)    == IF ValidPool(pool) THEN Replaced(c, pool) ELSE c
Append1(c, source)  == SetPool(c, Append(c.pool, source))
ReplaceAt(c, i, source) ==
    IF i \in DOMAIN c.pool THEN SetPool(c, [c.pool EXCEPT ![i] = source]) ELSE c
Removed(c, i) ==
    IF i \in DOMAIN c.pool
    THEN Replaced(c, SubSeq(c.pool, 1, i - 1) \o SubSeq(c.pool, i + 1, Len(c.pool)))
    ELSE c
Cleared(c) == IF c.pool = <<>> THEN c ELSE Replaced(c, <<>>)

-----------------------------------------------------------------------------
(* Playing *)

Started(c) == IF HasSource(c) THEN [c EXCEPT !.position = 0, !.state = "Playing"] ELSE c
Paused(c)  == IF c.state = "Playing" THEN [c EXCEPT !.state = "Paused"] ELSE c
Resumed(c) ==
    IF c.state \in {"Paused", "Ready"} /\ HasSource(c) THEN [c EXCEPT !.state = "Playing"] ELSE c

StoppedCore(c) ==
    Unprocessed([c EXCEPT !.state = "Stopped", !.generation = @ + 1, !.position = 0,
                          !.speech.candidate = NoSpeech])

\* set_playback_position clamps to the last millisecond of the source.
Positioned(c, position) ==
    [c EXCEPT !.position = IF HasSource(c) /\ position >= Duration THEN Duration - 1
                           ELSE position]

\* Faulty variant of Completed: a pool of one keeps its sound.
CompletedWithItsSound(c) ==
    LET index == (c.index + 1) % Len(c.pool)
    IN  IF ~HasSource(c) THEN c
        ELSE IF Single(c)
        THEN [c EXCEPT !.loop = @ + 1, !.cycle = @ + 1, !.state = "Playing", !.position = 0]
        ELSE Unprocessed([c EXCEPT
                 !.index = index, !.cycle = IF index = 0 THEN @ + 1 ELSE @, !.loop = 0,
                 !.generation = @ + 1, !.state = "Playing", !.position = 0])

\* complete_item: a pool of one is played again, its candidate for the picture is kept.
Completed(c) ==
    LET index == (c.index + 1) % Len(c.pool)
    IN  IF ~HasSource(c) THEN c
        ELSE IF Single(c)
        THEN ResetAudio([c EXCEPT !.loop = @ + 1, !.cycle = @ + 1, !.state = "Playing",
                                  !.position = 0, !.speech.candidate = NoSpeech])
        ELSE Unprocessed([c EXCEPT
                 !.index = index, !.cycle = IF index = 0 THEN @ + 1 ELSE @, !.loop = 0,
                 !.generation = @ + 1, !.state = "Playing", !.position = 0,
                 !.speech.status = "unavailable", !.speech.candidate = NoSpeech])

-----------------------------------------------------------------------------
(* The candidate for the picture *)

VideoRunning(c, candidate) ==
    IF ~HasSource(c) \/ candidate.generation # c.generation THEN c
    ELSE IF VideoApplies(c) \/ c.audio.on
    THEN [ClearVideo(SetVideoStatus(c, "processing")) EXCEPT !.video.candidate = candidate]
    ELSE [c EXCEPT !.video.candidate = candidate]

VideoAccepts(c, candidate) ==
    c.video.candidate = candidate /\ candidate.generation = c.generation

VideoReady(c, candidate, file) ==
    IF VideoAccepts(c, candidate)
    THEN SetVideoStatus([c EXCEPT !.video.file = file], "ready") ELSE c

VideoFailed(c) == SetVideoStatus(ClearVideo(c), "failed")

VideoNamed(c, candidate) ==
    /\ c.video.candidate # NoCandidate
    /\ c.video.candidate = candidate
    /\ candidate.generation = c.generation

\* discard_media_processing_candidate: not while it is rendered.
VideoDiscarded(c, candidate) ==
    IF c.video.status # "processing" /\ VideoNamed(c, candidate) THEN VideoFailed(c) ELSE c

\* commit_media_processing_if_ready: where the position is relative to the window.
VideoCommitted(c, candidate, observed) ==
    IF c.video.file = NoFile \/ ~VideoNamed(c, candidate) \/ observed = "Before" THEN c
    ELSE IF observed = "After" THEN VideoDiscarded(c, candidate)
    ELSE ClearVideo([c EXCEPT !.video.current = c.video.file])

-----------------------------------------------------------------------------
(* The candidate for the sound, and the parameters it carries *)

\* commit_validated_audio_stream_configuration, set_audio_processing_profile
Configured(c, config) ==
    IF config = c.config THEN c ELSE [c EXCEPT !.config = config, !.revision = @ + 1]

ProfileSet(c, config) ==
    IF c.audio.status = "processing" THEN Configured(c, config)
    ELSE SetAudioStatus(Configured(c, config), "configured")

AudioMayRun(c, candidate) ==
    /\ HasSource(c) /\ c.audio.on
    /\ candidate.generation = c.generation /\ candidate.revision = c.revision

\* The revision that committing the parameters will lead to.
AudioTarget(c, candidate, config) ==
    [candidate EXCEPT !.revision = IF config = c.config THEN @ ELSE @ + 1]

AudioRunning(c, candidate, config) ==
    IF AudioMayRun(c, candidate)
    THEN [c EXCEPT !.audio.file = NoFile, !.audio.config = config,
                   !.audio.candidate = AudioTarget(c, candidate, config),
                   !.audio.status = "processing"]
    ELSE c

AudioAccepts(c, candidate) ==
    c.audio.candidate = candidate /\ candidate.generation = c.generation

AudioReady(c, candidate, file) ==
    IF AudioAccepts(c, candidate)
    THEN [c EXCEPT !.audio.file = file, !.audio.status = "ready"] ELSE c

\* Faulty variant of AudioFailed: the status is not set.
AudioFailedQuietly(c) == ClearAudio(c)

AudioFailed(c) == SetAudioStatus(ClearAudio(c), "failed")

AudioNamed(c, candidate) ==
    /\ c.audio.candidate # NoCandidate
    /\ c.audio.candidate = candidate
    /\ candidate.generation = c.generation

AudioDiscarded(c, candidate) ==
    IF c.audio.status # "processing" /\ AudioNamed(c, candidate) THEN AudioFailed(c) ELSE c

\* Faulty variant of AudioCommitted: the revision of the candidate is not compared.
AudioCommittedUnchecked(c, candidate) ==
    LET k == Configured([c EXCEPT !.audio.config = NoConfig], c.audio.config)
    IN  IF c.audio.file = NoFile \/ ~AudioNamed(c, candidate) \/ c.audio.config = NoConfig THEN c
        ELSE [ClearAudio(k) EXCEPT !.audio.current = c.audio.file, !.audio.status = "runtime"]

\* Faulty variant of AudioCommitted: parameters that were taken before are taken for some.
AudioCommittedTwice(c, candidate) ==
    LET k == Configured([c EXCEPT !.audio.config = NoConfig], c.audio.config)
    IN  IF c.audio.file = NoFile \/ ~AudioNamed(c, candidate) THEN c
        ELSE IF k.revision # candidate.revision THEN k
        ELSE [ClearAudio(k) EXCEPT !.audio.current = c.audio.file, !.audio.status = "runtime"]

\* commit_audio_media_candidate: the parameters are committed, then the revision is compared.
AudioCommitted(c, candidate) ==
    LET k == Configured([c EXCEPT !.audio.config = NoConfig], c.audio.config)
    IN  IF c.audio.file = NoFile \/ ~AudioNamed(c, candidate) \/ c.audio.config = NoConfig THEN c
        ELSE IF k.revision # candidate.revision THEN k
        ELSE [ClearAudio(k) EXCEPT !.audio.current = c.audio.file, !.audio.status = "runtime"]

-----------------------------------------------------------------------------
(* The switches *)

SwitchesSet(c, video, audio, speech) ==
    LET a == [c EXCEPT !.video.on = video, !.audio.on = audio, !.speech.on = speech]
        b == IF c.video.on # video
             THEN ClearVideo(ResetVideo(SetVideoStatus(a, "unavailable"))) ELSE a
        d == IF c.audio.on = audio THEN b
             ELSE SetAudioStatus(IF audio THEN ClearAudio(b) ELSE ResetAudio(b), "unavailable")
    IN  IF c.speech.on = speech THEN d
        ELSE IF speech THEN [d EXCEPT !.speech.status = "unavailable"]
        ELSE [d EXCEPT !.speech.status = "unavailable", !.speech.candidate = NoSpeech,
                       !.speech.current = 0, !.speech.decision = "keep_original"]

-----------------------------------------------------------------------------
(* The candidate for the speech *)

SpeechBelongs(c, generation, loop) == c.generation = generation /\ c.loop = loop

SpeechStaged(c, candidate) ==
    IF SpeechBelongs(c, candidate.generation, candidate.loop)
    THEN [c EXCEPT !.speech.candidate = candidate, !.speech.status = "ready"] ELSE c

SpeechMayRun(c) == c.speech.on /\ c.speech.status # "running"
SpeechRunning(c) == IF SpeechMayRun(c) THEN [c EXCEPT !.speech.status = "running"] ELSE c
SpeechCancelled(c) == [c EXCEPT !.speech.status = "cancelled"]

SpeechKept(c, generation, loop) ==
    IF SpeechBelongs(c, generation, loop)
    THEN [ResetAudio(c) EXCEPT !.speech.candidate = NoSpeech, !.speech.status = "ready"] ELSE c

SpeechCommitted(c, candidate) ==
    IF c.speech.candidate = candidate /\ candidate # NoSpeech
       /\ SpeechBelongs(c, candidate.generation, candidate.loop)
    THEN [c EXCEPT !.speech.candidate = NoSpeech, !.speech.current = candidate.segment,
                   !.speech.decision = "rewrite", !.speech.status = "ready"]
    ELSE c

SpeechCommittedIfDue(c, position) ==
    IF c.speech.candidate # NoSpeech /\ position >= c.speech.candidate.start
    THEN SpeechCommitted(c, c.speech.candidate) ELSE c

SpeechDiscarded(c) ==
    [c EXCEPT !.speech.candidate = NoSpeech, !.speech.status = "failed",
              !.speech.decision = "fallback_original"]

\* fallback_audio_runtime keeps a variant that plays.
SpeechFallsBack(c) ==
    IF c.speech.current # 0 THEN [c EXCEPT !.speech.status = "failed"]
    ELSE [c EXCEPT !.speech.status = "failed", !.speech.decision = "fallback_original"]

OriginalAudio(c) ==
    [ResetAudio(c) EXCEPT !.speech.candidate = NoSpeech,
                          !.speech.status = IF c.speech.on THEN "ready" ELSE "unavailable"]
OriginalVideo(c) == ResetVideo(c)
=============================================================================

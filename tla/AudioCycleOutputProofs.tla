----------------------- MODULE AudioCycleOutputProofs -----------------------
(***************************************************************************)
(* Proofs about AudioCycleOutput, for every set of callers, tracks and     *)
(* kinds of commands and for every capacity. The inductive invariant says, *)
(* beside the types, where each command is that a caller waits for, which  *)
(* of the thread's switches hold a track of which nothing has been         *)
(* decided, that a paused thread holds the hardware, and what the clock of *)
(* the timeline is anchored to in the frames between the decoder and the   *)
(* loudspeaker. The answers, the slot, the pause and the clock follow from *)
(* it, and that the output decides every track once, as AudioOutput says.  *)
(***************************************************************************)
EXTENDS AudioCycleOutput, SequenceTheorems, FiniteSetTheorems, TLAPS

-----------------------------------------------------------------------------
(* The invariant *)

Commands == {e \in Entries : e.kind \in AllKinds /\ (e.kind \in Exchanges <=> e.track \in Tracks)}
Sounds   == [track : Tracks \cup {"Tone", "Silence"}, at : Nat]
Calls    == [at : {"Idle", "Waiting", "Ok", "Err", "Joining"}, kind : AllKinds \cup {"None"},
             track : Tracks \cup {NoTrack}]
Inserts  == [mode : {"None", "On", "Paused", "Release"}, switch : Entries]
Threads  == [pc : {"Loop", "Clearing", "Gone"}, entry : Entries, current : Tracks \cup {NoTrack},
             switch : Entries, pending : Seq(Sounds), tone : [on : BOOLEAN, restore : BOOLEAN],
             interlude : Inserts, bridge : {"None", "Held", "Revoked"}, paused : BOOLEAN,
             failed : BOOLEAN]
Devices  == [stream : StreamStates, ring : Seq(Sounds), clearing : BOOLEAN, held : BOOLEAN,
             total : Nat, heard : Sounds]
Anchors  == [track : Tracks \cup {NoTrack}, frame : Nat]
Progress == [taken : 0 .. TrackLength, decoded : 0 .. TrackLength, live : BOOLEAN]
Timelines == [active : Anchors, pending : Anchors]

\* The types of the variables, with those of the records in them.
Typed ==
    /\ call \in [Callers -> Calls]
    /\ queue \in Seq(Commands) /\ Len(queue) <= QueueCapacity
    /\ out \in Threads
    /\ device \in Devices /\ Len(device.ring) <= RingCapacity
    /\ timeline \in Timelines
    /\ tracks \in [Tracks -> Progress]
    /\ slot \in Tracks \cup {NoTrack}
    /\ sent \in 0 .. MaxCommands
    /\ skewed \in BOOLEAN /\ late \in BOOLEAN
    /\ wish \in {"Pause", "Resume", "None"}

\* Which commands the thread keeps for later, and where: the one whose ring is being
\* cleared, a candidate, a crossfade of the insert.
Keeps ==
    /\ out.pc = "Clearing" =>
          /\ out.entry \in Commands /\ out.entry.kind \in {"SetCurrent", "Tone", "Clear"}
          /\ out.switch = NoEntry /\ out.pending = <<>> /\ ~out.tone.on
    /\ out.pc # "Clearing" => out.entry = NoEntry
    /\ out.switch # NoEntry =>
          /\ out.switch \in Commands /\ out.switch.kind = "CrossfadeTo"
          /\ out.current # NoTrack /\ ~out.paused /\ ~out.tone.on
    /\ out.interlude.switch # NoEntry =>
          out.interlude.switch \in Commands /\ out.interlude.switch.kind = "CrossfadeInterlude"
    /\ out.pc = "Gone" => out.switch = NoEntry /\ out.interlude = NoInterlude

Differ(e, f) ==
    /\ e.by # NoCaller => e.by # f.by
    /\ e.track # NoTrack => e.track # f.track

\* No two commands are of one caller or bring one track.
Apart(q, e, s, i) ==
    /\ \A m, n \in 1 .. Len(q) : m # n => Differ(q[m], q[n])
    /\ \A n \in 1 .. Len(q) : \A f \in {e, s, i} : Differ(q[n], f)
    /\ Differ(e, s) /\ Differ(e, i) /\ Differ(s, i)

HeldNow == Range(queue) \cup {out.entry, out.switch, out.interlude.switch}

\* A command in the thread is of a caller that waits for it.
Owned(cs, H) ==
    \A e \in H : e.by # NoCaller => cs[e.by] = [at |-> "Waiting", kind |-> e.kind, track |-> e.track]

\* Whoever waits has a command in the thread.
Present(cs, H) == \A c \in Callers : cs[c].at = "Waiting" => \E e \in H : e.by = c

Answers ==
    /\ out.pc # "Gone" => Apart(queue, out.entry, out.switch, out.interlude.switch)
    /\ out.pc # "Gone" => Owned(call, HeldNow) /\ Present(call, HeldNow)
    /\ out.pc = "Gone" => \A c \in Callers : call[c].at # "Waiting"
    /\ \A c \in Callers :
          /\ call[c].at = "Idle" => call[c].kind = "None"
          /\ call[c].kind \in Exchanges => call[c].track \in Tracks /\ call[c].at # "Joining"

\* A track that is undecided was never read, and the one that is played was.
Fresh ==
    /\ \A t \in Tracks : tracks[t].taken <= tracks[t].decoded
    /\ out.pc # "Gone" => \A e \in HeldNow : e.track \in Tracks => tracks[e.track].taken = 0
    /\ out.pc = "Clearing" /\ out.entry.kind = "SetCurrent" =>
          Available(out.entry.track) >= Watermark
    /\ out.current # NoTrack => tracks[out.current].taken >= 1

\* A pause holds the hardware, and so does the time in which the ring is cleared.
HeldWhilePaused ==
    /\ out.pc = "Clearing" => device.held
    /\ out.pc = "Clearing" /\ out.entry.kind \in {"SetCurrent", "Clear"} => out.paused
    /\ PausedIsHeld
    /\ BridgeHasItsStream

\* As long as nobody gave up, at most one exchange is under way, and the output plays the
\* track of the application or the one it is about to hear of.
OneExchange ==
    ~late =>
        /\ \A c, d \in Callers : call[c].kind \in Exchanges /\ call[d].kind \in Exchanges => c = d
        /\ out.pc # "Gone" => \A e \in HeldNow : e.kind \in AllKinds => e.by # NoCaller
        /\ out.current # NoTrack =>
              \/ \E c \in Callers : call[c].kind \in Exchanges /\ call[c].at = "Ok"
                                    /\ out.current = call[c].track
              \/ /\ out.current = slot
                 /\ \A c \in Callers : call[c].kind \in Exchanges => call[c].at # "Ok"

\* The anchor of the track that is current.
Latest(tl) == IF tl.pending # NoAnchor THEN tl.pending ELSE tl.active

\* What the timeline says of the n-th frame.
Says(tl, n) ==
    LET a == IF tl.pending # NoAnchor /\ n > tl.pending.frame THEN tl.pending ELSE tl.active
    IN  [track |-> a.track, at |-> n - a.frame]

\* The frames of the ring and those after it are the ones the timeline expects of the
\* track t, of which n are taken; those of a tone stand for as many frames of the track.
Follows(d, pcm, tone, t, n, tl) ==
    LET ahead == d.ring \o pcm IN
    /\ d.stream = "Closed" => d.ring = <<>>
    /\ Latest(tl).track = t
    /\ t = NoTrack => tl = NewTimeline /\ d.heard.track \notin Tracks
    /\ t # NoTrack =>
          n + (IF tone THEN ToneFrames ELSE 0) = d.total + Len(ahead) - Latest(tl).frame
    /\ tl.pending # NoAnchor => tl.pending.frame < d.total + Len(d.ring)
    /\ tone => /\ \A i \in 1 .. Len(ahead) : ahead[i].track = "Tone"
               /\ tl.pending # NoAnchor => tl.pending.frame < d.total
    /\ ~tone => \A i \in 1 .. Len(ahead) : ahead[i] = Says(tl, d.total + i)
    /\ d.heard.track \in Tracks /\ Says(tl, d.total).at > 0 => d.heard = Says(tl, d.total)

TakenOf(t) == IF t = NoTrack THEN 0 ELSE tracks[t].taken

\* As long as no frame was dropped, the clock follows what is heard.
ClockFollows ==
    ~skewed =>
        /\ out.pc = "Clearing" => out.entry.kind = "Tone"
        /\ Follows(device, out.pending, out.tone.on, out.current, TakenOf(out.current), timeline)

IInv == Typed /\ Keeps /\ Answers /\ Fresh /\ HeldWhilePaused /\ OneExchange /\ ClockFollows
-----------------------------------------------------------------------------
(* The operators of the records *)

Config == StreamAssumption /\ OutputAssumption /\ NamesAssumption

\* No command stands for the absent one.
LEMMA Entry ==
    ASSUME Config
    PROVE  /\ NoEntry \in Entries /\ NoEntry \notin Commands
           /\ NoEntry.by = NoCaller /\ NoEntry.track = NoTrack /\ NoTrack \notin Tracks
           /\ NoCaller \notin Callers
           /\ \A e \in Commands : e \in Entries /\ (e.kind \notin Exchanges => e.track = NoTrack)
BY DEF Config, NamesAssumption, NoEntry, NoCaller, NoTrack, Entries, Commands, AllKinds,
       Exchanges, Interludes

\* An answer changes how a call stands and nothing else about it.
LEMMA AnsweredCalls ==
    ASSUME Config, NEW cs \in [Callers -> Calls], NEW e \in Entries, NEW r \in {"Ok", "Err"}
    PROVE  /\ Answered(cs, e, r) \in [Callers -> Calls]
           /\ \A c \in Callers : Answered(cs, e, r)[c] =
                 IF e.by = c THEN [cs[c] EXCEPT !.at = r] ELSE cs[c]
<1>1. CASE e.by = NoCaller
  BY <1>1, Entry DEF Answered, Calls
<1>2. CASE e.by # NoCaller
  BY <1>2, ZenonT(40) DEF Answered, Calls
<1> QED  BY <1>1, <1>2

LEMMA AllAnsweredCalls ==
    ASSUME NEW cs \in [Callers -> Calls], NEW E, NEW r \in {"Ok", "Err"}
    PROVE  AllAnswered(cs, E, r) \in [Callers -> Calls]
BY DEF AllAnswered, Calls

\* The operators of the stream, and what they leave alone.
LEMMA HeldDevice ==
    ASSUME NEW d \in Devices, NEW b \in BOOLEAN
    PROVE  /\ Held(d, b) \in Devices /\ Held(d, b).held = b
           /\ Held(d, b).stream = d.stream /\ Held(d, b).ring = d.ring
           /\ Held(d, b).total = d.total /\ Held(d, b).heard = d.heard
           /\ Held(d, b).clearing = d.clearing
BY DEF Devices, Held

LEMMA Rings ==
    /\ <<>> \in Seq(Sounds)
    /\ \A r \in Seq(Sounds) : r # <<>> => /\ Tail(r) \in Seq(Sounds) /\ Head(r) \in Sounds
                                         /\ Len(Tail(r)) = Len(r) - 1 /\ Len(r) >= 1
    /\ \A r, s \in Seq(Sounds) : r \o s \in Seq(Sounds) /\ Len(r \o s) = Len(r) + Len(s)
OBVIOUS

LEMMA ClearedDevice ==
    ASSUME NEW d \in Devices
    PROVE  /\ RingCleared(d) \in Devices /\ RingCleared(d).held = d.held
           /\ RingCleared(d).stream = d.stream
           /\ RingCleared(d).ring = <<>> \/ RingCleared(d).ring = d.ring
           /\ RingCleared(d).total = d.total /\ RingCleared(d).heard = d.heard
BY Rings DEF Devices, RingCleared

LEMMA StoppedDevice ==
    ASSUME NEW d \in Devices, NEW b \in BOOLEAN
    PROVE  /\ StreamStopped(d, b) \in Devices
           /\ StreamStopped(d, b).stream \in {"Closed", "Quarantined"}
           /\ StreamStopped(d, b).ring = <<>> \/ StreamStopped(d, b).ring = d.ring
           /\ StreamStopped(d, b).total = d.total /\ StreamStopped(d, b).heard = d.heard
BY Rings DEF Devices, StreamStopped, StreamStates

LEMMA OpenedDevice ==
    ASSUME NEW d \in Devices, NEW mode \in {"Output", "Duplex"}, NEW e \in Openings(d, mode)
    PROVE  /\ e \in Devices /\ e.stream \in {d.stream, mode, "Quarantined"}
           /\ e.ring = d.ring /\ e.total = d.total /\ e.heard = d.heard
BY DEF Devices, Opened, Openings, StreamStates

\* A stream that is stopped and opened again: it has an input if it was opened with one.
LEMMA ReopenedDevice ==
    ASSUME NEW d \in Devices, NEW b \in BOOLEAN, NEW mode \in {"Output", "Duplex"},
           NEW e \in Openings(StreamStopped(d, b), mode)
    PROVE  /\ e \in Devices /\ (Running(e) => e.stream = mode)
           /\ e.ring = <<>> \/ e.ring = d.ring
           /\ e.total = d.total /\ e.heard = d.heard
BY StoppedDevice, OpenedDevice DEF Running

LEMMA CallbackDevice ==
    ASSUME NEW d \in Devices
    PROVE  /\ CallbackRan(d) \in Devices
           /\ CallbackRan(d).stream = d.stream /\ CallbackRan(d).held = d.held
           /\ Len(CallbackRan(d).ring) <= Len(d.ring)
<1> DEFINE ring == IF d.clearing THEN <<>> ELSE d.ring
           e    == [d EXCEPT !.ring = ring, !.clearing = FALSE]
<1>1. ring \in Seq(Sounds) /\ Len(ring) <= Len(d.ring)
  <2>1. d.ring \in Seq(Sounds) /\ Len(d.ring) >= 0 /\ Len(<<>>) = 0
    BY DEF Devices
  <2>2. CASE d.clearing
    BY <2>1, <2>2, Rings
  <2>3. CASE ~d.clearing
    BY <2>1, <2>3
  <2> QED  BY <2>2, <2>3
<1>2. CallbackRan(d) = IF d.held \/ ring = <<>> THEN e
                       ELSE [e EXCEPT !.ring = Tail(ring), !.heard = Head(ring), !.total = @ + 1]
  BY DEF CallbackRan
<1>3. /\ e \in Devices /\ e.stream = d.stream /\ e.held = d.held /\ e.ring = ring
      /\ e.total = d.total /\ e.heard = d.heard
  <2> HIDE DEF ring
  <2> QED  BY <1>1 DEF Devices
<1> HIDE DEF e, ring
<1>4. CASE d.held \/ ring = <<>>
  BY <1>1, <1>2, <1>3, <1>4
<1>5. CASE ~(d.held \/ ring = <<>>)
  <2>1. Tail(ring) \in Seq(Sounds) /\ Head(ring) \in Sounds /\ Len(Tail(ring)) = Len(ring) - 1
    BY <1>1, <1>5, Rings
  <2>2. e.total + 1 \in Nat /\ Len(d.ring) \in Nat /\ Len(ring) \in Nat
    BY <1>1, <1>3 DEF Devices
  <2> DEFINE rest == Tail(ring)
             hd   == Head(ring)
  <2>3. CallbackRan(d) = [e EXCEPT !.ring = rest, !.heard = hd, !.total = e.total + 1]
    BY <1>2, <1>5
  <2>4. Len(rest) <= Len(d.ring)
    BY <1>1, <2>1, <2>2
  <2>5. rest \in Seq(Sounds) /\ hd \in Sounds
    BY <2>1
  <2> HIDE DEF rest, hd
  <2>6. CallbackRan(d) \in Devices
    BY <1>3, <2>2, <2>3, <2>5 DEF Devices
  <2>7. CallbackRan(d).stream = e.stream /\ CallbackRan(d).held = e.held /\ CallbackRan(d).ring = rest
    BY <1>3, <2>3 DEF Devices
  <2> QED  BY <1>3, <2>4, <2>6, <2>7
<1> QED  BY <1>4, <1>5

LEMMA PrimedDevice ==
    ASSUME NEW d \in Devices, NEW s \in Seq(Sounds)
    PROVE  /\ Primed(d, s) \in Devices /\ Written(d, s) = Primed(d, s)
           /\ Primed(d, s).stream = d.stream /\ Primed(d, s).held = d.held
           /\ Primed(d, s).total = d.total /\ Primed(d, s).heard = d.heard
           /\ Primed(d, s).ring = d.ring \o s
           /\ Len(Primed(d, s).ring) = Len(d.ring) + Len(s)
<1>1. d.ring \o s \in Seq(Sounds) /\ Len(d.ring \o s) = Len(d.ring) + Len(s)
  BY Rings DEF Devices
<1>2. Primed(d, s) = [d EXCEPT !.ring = d.ring \o s] /\ Written(d, s) = Primed(d, s)
  BY DEF Primed, Written
<1> QED  BY <1>1, <1>2 DEF Devices

\* The operators of the timeline.
LEMMA TimelineTypes ==
    ASSUME NEW tl \in Timelines, NEW t \in Tracks, NEW n \in Nat
    PROVE  /\ NewTimeline \in Timelines /\ NoAnchor \in Anchors
           /\ Replaced(tl, t, n) \in Timelines
           /\ CrossfadeQueued(tl, t, n) \in Timelines
BY DEF Timelines, NewTimeline, Replaced, CrossfadeQueued, NoAnchor, Anchor, Anchors, NoTrack

LEMMA PromotedTypes ==
    ASSUME NEW tl \in Timelines, NEW n \in Nat
    PROVE  Promoted(tl, n) \in Timelines
BY DEF Timelines, Promoted, NoAnchor, Anchors, NoTrack

\* What an insert may become while it is mixed in.
LEMMA MixedInsert ==
    ASSUME Config, NEW i \in Inserts, NEW m \in Mixes(i)
    PROVE  /\ m.to \in Inserts /\ m.ok \in {"None", "Ok", "Err"}
           /\ m.ok = "None" => m.to.switch = i.switch
           /\ m.ok # "None" => m.to.switch = NoEntry /\ i.switch # NoEntry
BY Entry DEF Mixes, Inserts, NoInterlude
-----------------------------------------------------------------------------
(* The types *)

LEMMA UnnamedEntry ==
    ASSUME Config, NEW e \in Entries, NEW c \in Callers
    PROVE  /\ Unnamed(e, c) \in Entries /\ Unnamed(e, c).kind = e.kind /\ Unnamed(e, c).track = e.track
           /\ Unnamed(e, c).by = IF e.by = c THEN NoCaller ELSE e.by
           /\ e = NoEntry => Unnamed(e, c) = NoEntry
           /\ e \in Commands => Unnamed(e, c) \in Commands /\ Unnamed(e, c) # NoEntry
<1>1. /\ Unnamed(e, c) \in Entries /\ Unnamed(e, c).kind = e.kind /\ Unnamed(e, c).track = e.track
      /\ Unnamed(e, c).by = IF e.by = c THEN NoCaller ELSE e.by
  BY DEF Unnamed, Entries
<1>2. NoEntry.by # c
  BY Entry
<1> QED  BY <1>1, <1>2, Entry DEF Commands, Unnamed

LEMMA TypedAsk ==
    ASSUME Config, Typed, NEW c \in Callers, Ask(c)
    PROVE  Typed'
<1>1. PICK k \in Kinds, t \in Tracks \cup {NoTrack} :
          /\ call[c].at = "Idle" /\ sent < MaxCommands /\ MayAsk(k, t) /\ sent' = sent + 1
          /\ IF out.pc # "Gone" /\ Len(queue) < QueueCapacity
             THEN /\ queue' = Append(queue, [kind |-> k, by |-> c, track |-> t])
                  /\ call' = [call EXCEPT ![c] = [at |-> "Waiting", kind |-> k, track |-> t]]
             ELSE /\ call' = [call EXCEPT ![c] = [at |-> "Err", kind |-> k, track |-> t]]
                  /\ UNCHANGED queue
          /\ UNCHANGED <<out, device, timeline, tracks, slot, skewed, late, wish>>
  BY DEF Ask
<1>2. k \in AllKinds /\ (k \in Exchanges <=> t \in Tracks)
  BY <1>1, Entry DEF Config, OutputAssumption, MayAsk
<1>3. call' \in [Callers -> Calls]
  <2>1. \A a \in {"Waiting", "Err"} : [at |-> a, kind |-> k, track |-> t] \in Calls
    BY <1>2 DEF Calls
  <2> QED  BY <1>1, <2>1 DEF Typed
<1>4. [kind |-> k, by |-> c, track |-> t] \in Commands
  BY <1>2 DEF Commands, Entries
<1>5. queue' \in Seq(Commands) /\ Len(queue') <= QueueCapacity
  <2>1. queue \in Seq(Commands) /\ Len(queue) <= QueueCapacity /\ QueueCapacity \in Nat
    BY DEF Typed, Config, OutputAssumption
  <2>2. CASE out.pc # "Gone" /\ Len(queue) < QueueCapacity
    <3> DEFINE e == [kind |-> k, by |-> c, track |-> t]
    <3>1. queue' = Append(queue, e) /\ e \in Commands
      BY <1>1, <1>4, <2>2
    <3> HIDE DEF e
    <3> QED  BY <2>1, <2>2, <3>1
  <2>3. CASE ~(out.pc # "Gone" /\ Len(queue) < QueueCapacity)
    BY <1>1, <2>1, <2>3
  <2> QED  BY <2>2, <2>3
<1>6. sent' \in 0 .. MaxCommands
  BY <1>1 DEF Typed, Config, OutputAssumption
<1> QED  BY <1>1, <1>3, <1>5, <1>6 DEF Typed

LEMMA TypedGiveUp ==
    ASSUME Config, Typed, NEW c \in Callers, GiveUp(c)
    PROVE  Typed'
<1>1. call' \in [Callers -> Calls]
  BY DEF Typed, Calls, GiveUp
<1>2. queue' \in Seq(Commands) /\ Len(queue') = Len(queue)
  <2>1. \A n \in 1 .. Len(queue) : Unnamed(queue[n], c) \in Commands
    BY UnnamedEntry, Entry DEF Typed
  <2> QED  BY <2>1 DEF GiveUp, Typed
<1>3. out' \in Threads
  BY UnnamedEntry DEF GiveUp, Typed, Threads, Inserts
<1> QED  BY <1>1, <1>2, <1>3 DEF Typed, GiveUp

LEMMA TypedSettle ==
    ASSUME Config, Typed, Answers, NEW c \in Callers, Settle(c)
    PROVE  Typed'
<1>1. call' \in [Callers -> Calls]
  BY DEF Typed, Calls, Settle
<1>2. /\ slot' \in Tracks \cup {NoTrack}
      /\ tracks' \in [Tracks -> Progress]
  <2> DEFINE a == call[c]
  <2>1. a \in Calls /\ (a.kind \in Exchanges => a.track \in Tracks)
    BY DEF Typed, Answers
  <2>2. tracks \in [Tracks -> Progress] /\ slot \in Tracks \cup {NoTrack}
    BY DEF Typed
  <2>3. \A t \in Tracks : [tracks EXCEPT ![t].live = FALSE] \in [Tracks -> Progress]
    BY <2>2 DEF Progress
  <2>4. CASE a.kind \notin Exchanges
    BY <2>2, <2>4 DEF Settle
  <2>5. CASE a.kind \in Exchanges /\ a.at = "Ok"
    BY <2>1, <2>2, <2>3, <2>5 DEF Settle
  <2>6. CASE a.kind \in Exchanges /\ a.at # "Ok"
    BY <2>1, <2>2, <2>3, <2>6 DEF Settle
  <2> QED  BY <2>4, <2>5, <2>6
<1> QED  BY <1>1, <1>2 DEF Typed, Settle

LEMMA TypedJoined ==
    ASSUME Typed, NEW c \in Callers, Joined(c)
    PROVE  Typed'
BY DEF Typed, Calls, Joined

LEMMA TypedWorld ==
    ASSUME Config, Typed, (\E t \in Tracks : TrackFed(t)) \/ MicrophoneFails \/ Callback
    PROVE  Typed'
<1>1. ASSUME NEW t \in Tracks, TrackFed(t) PROVE Typed'
  <2>1. tracks \in [Tracks -> Progress] /\ TrackLength \in Nat
    BY DEF Typed, Config, OutputAssumption
  <2>2. tracks[t].decoded + 1 \in 0 .. TrackLength
    BY <1>1, <2>1 DEF TrackFed, Progress
  <2>3. tracks' \in [Tracks -> Progress]
    BY <1>1, <2>1, <2>2 DEF TrackFed, Progress
  <2> QED  BY <1>1, <2>3 DEF TrackFed, Typed
<1>2. CASE MicrophoneFails
  <2>1. out' \in Threads
    BY <1>2 DEF MicrophoneFails, Typed, Threads
  <2> QED  BY <1>2, <2>1 DEF MicrophoneFails, Typed
<1>3. CASE Callback
  <2>1. device' \in Devices /\ Len(device'.ring) <= RingCapacity
    BY <1>3, CallbackDevice DEF Callback, Typed, Devices, Config, StreamAssumption
  <2>2. skewed' \in BOOLEAN
    BY <1>3 DEF Callback
  <2> QED  BY <1>3, <2>1, <2>2 DEF Callback, Typed
<1> QED  BY <1>1, <1>2, <1>3

\* The command that is handled, and what is left of the channel.
LEMMA Handled ==
    ASSUME Config, Typed, NEW k, Handles(k)
    PROVE  /\ Hd \in Commands /\ Hd \in Entries /\ Hd.kind = k /\ out.pc = "Loop"
           /\ queue # <<>> /\ queue' = Tail(queue)
           /\ queue' \in Seq(Commands) /\ Len(queue') <= QueueCapacity
           /\ k \in Exchanges => Hd.track \in Tracks
           /\ k \notin Exchanges => Hd.track = NoTrack
<1>1. queue \in Seq(Commands) /\ Len(queue) <= QueueCapacity /\ queue # <<>> /\ QueueCapacity \in Nat
  BY DEF Typed, Handles, Config, OutputAssumption
<1>2. Head(queue) \in Commands /\ Tail(queue) \in Seq(Commands) /\ Len(Tail(queue)) <= QueueCapacity
  BY <1>1
<1>3. Hd \in Commands /\ Hd.kind = k
  BY <1>2 DEF Hd, Handles
<1> QED  BY <1>1, <1>2, <1>3, Entry DEF Handles, Commands

LEMMA TypedThreadEnds ==
    ASSUME Config, Typed, NEW cs \in [Callers -> Calls], NEW b \in BOOLEAN, ThreadEnds(cs, b)
    PROVE  /\ call' \in [Callers -> Calls] /\ device' \in Devices /\ Len(device'.ring) <= RingCapacity
           /\ skewed' \in BOOLEAN
<1>1. call' \in [Callers -> Calls] /\ skewed' \in BOOLEAN
  BY AllAnsweredCalls DEF ThreadEnds
<1>2. device' \in Devices /\ (device'.ring = <<>> \/ device'.ring = device.ring)
  BY StoppedDevice DEF ThreadEnds, Typed
<1>3. Len(<<>>) = 0 /\ RingCapacity \in Nat
  BY DEF Config, StreamAssumption
<1> QED  BY <1>1, <1>2, <1>3 DEF Typed

LEMMA TypedEnded ==
    ASSUME Config, Typed
    PROVE  /\ Ended \in Threads /\ [Ended EXCEPT !.failed = TRUE] \in Threads
           /\ Promoted(timeline, device.total) \in Timelines
<1>1. Ended \in Threads
  BY Entry DEF Ended, Typed, Threads, Inserts, NoInterlude
<1>2. [Ended EXCEPT !.failed = TRUE] \in Threads
  BY <1>1 DEF Threads
<1>3. Promoted(timeline, device.total) \in Timelines
  BY PromotedTypes DEF Typed, Devices
<1> QED  BY <1>1, <1>2, <1>3

\* The commands of the track.
LEMMA TypedTrackCommands ==
    ASSUME Config, Typed, HandleAdjust \/ HandleSetCurrent \/ HandleCrossfadeTo \/ HandleTone
    PROVE  Typed'
<1>0. /\ \A e \in Entries, r \in {"Ok", "Err"} : Answered(call, e, r) \in [Callers -> Calls]
      /\ out.switch \in Entries /\ RingCapacity \in Nat /\ Len(<<>>) = 0
      /\ call \in [Callers -> Calls] /\ device \in Devices /\ Len(device.ring) <= RingCapacity
  BY AnsweredCalls DEF Typed, Threads, Config, StreamAssumption
<1>9. RingCleared(Held(device, TRUE)) \in Devices /\ Len(RingCleared(Held(device, TRUE)).ring) <= RingCapacity
  <2> DEFINE d == Held(device, TRUE)
  <2>1. d \in Devices /\ d.ring = device.ring
    BY <1>0, HeldDevice
  <2> HIDE DEF d
  <2>2. RingCleared(d) \in Devices /\ (RingCleared(d).ring = <<>> \/ RingCleared(d).ring = d.ring)
    BY <2>1, ClearedDevice
  <2>3. Len(RingCleared(d).ring) <= RingCapacity
    BY <1>0, <2>1, <2>2
  <2> QED  BY <2>2, <2>3 DEF d
<1>1. CASE HandleAdjust
  <2>1. Handles("Adjust") /\ call' = Answered(call, Hd, "Ok")
    BY <1>1 DEF HandleAdjust
  <2> QED  BY <1>0, <1>1, <2>1, Handled DEF HandleAdjust, Typed
<1>2. CASE HandleSetCurrent
  <2>1. Handles("SetCurrent")
    BY <1>2 DEF HandleSetCurrent
  <2>2. Hd \in Entries /\ queue' \in Seq(Commands) /\ Len(queue') <= QueueCapacity
    BY <2>1, Handled
  <2> DEFINE before == Answered(call, out.switch, "Err")
  <2>3. before \in [Callers -> Calls] /\ Answered(before, Hd, "Err") \in [Callers -> Calls]
    BY <1>0, <2>2, AnsweredCalls
  <2>4. call' \in [Callers -> Calls] /\ skewed' \in BOOLEAN
    BY <1>2, <2>3 DEF HandleSetCurrent
  <2>5. device' \in Devices /\ Len(device'.ring) <= RingCapacity
    BY <1>0, <1>9, <1>2 DEF HandleSetCurrent
  <2>6. out' \in Threads
    <3>1. <<>> \in Seq(Sounds) /\ NoTone \in [on : BOOLEAN, restore : BOOLEAN] /\ NoEntry \in Entries
      BY Rings, Entry DEF NoTone
    <3>2. out \in Threads
      BY DEF Typed
    <3>3. \/ out' = [out EXCEPT !.switch = NoEntry, !.pending = <<>>, !.tone = NoTone]
          \/ out' = [out EXCEPT !.switch = NoEntry, !.pending = <<>>, !.tone = NoTone,
                               !.paused = TRUE, !.pc = "Clearing", !.entry = Hd]
      BY <1>2 DEF HandleSetCurrent
    <3> HIDE DEF Hd
    <3>4. [out EXCEPT !.switch = NoEntry, !.pending = <<>>, !.tone = NoTone] \in Threads
      BY <3>1, <3>2 DEF Threads
    <3>5. [out EXCEPT !.switch = NoEntry, !.pending = <<>>, !.tone = NoTone, !.paused = TRUE,
                      !.pc = "Clearing", !.entry = Hd] \in Threads
      BY <2>2, <3>1, <3>2 DEF Threads
    <3> QED  BY <3>3, <3>4, <3>5
  <2> QED  BY <1>2, <2>2, <2>4, <2>5, <2>6 DEF HandleSetCurrent, Typed
<1>3. CASE HandleCrossfadeTo
  <2>1. Handles("CrossfadeTo")
    BY <1>3 DEF HandleCrossfadeTo
  <2>2. Hd \in Entries /\ queue' \in Seq(Commands) /\ Len(queue') <= QueueCapacity
    BY <2>1, Handled
  <2>3. call' \in [Callers -> Calls]
    BY <1>0, <1>3, <2>2 DEF HandleCrossfadeTo
  <2>4. out' \in Threads
    BY <1>3, <2>2 DEF HandleCrossfadeTo, Typed, Threads
  <2> QED  BY <1>3, <2>2, <2>3, <2>4 DEF HandleCrossfadeTo, Typed
<1>4. CASE HandleTone
  <2>1. Handles("Tone")
    BY <1>4 DEF HandleTone
  <2>2. Hd \in Entries /\ queue' \in Seq(Commands) /\ Len(queue') <= QueueCapacity
    BY <2>1, Handled
  <2>3. call' \in [Callers -> Calls] /\ skewed' \in BOOLEAN
    BY <1>0, <1>4, <2>2 DEF HandleTone, Typed
  <2>4. out' \in Threads
    <3>1. out \in Threads /\ <<>> \in Seq(Sounds)
      BY Rings DEF Typed
    <3>2. out' \in {out, [out EXCEPT !.pending = <<>>, !.pc = "Clearing", !.entry = Hd]}
      BY <1>4 DEF HandleTone
    <3> HIDE DEF Hd
    <3> QED  BY <2>2, <3>1, <3>2, ZenonT(40) DEF Threads
  <2>5. device' \in Devices /\ Len(device'.ring) <= RingCapacity
    BY <1>0, <1>9, <1>4 DEF HandleTone
  <2> QED  BY <1>4, <2>2, <2>3, <2>4, <2>5 DEF HandleTone, Typed
<1> QED  BY <1>1, <1>2, <1>3, <1>4

LEMMA TypedInsertCommands ==
    ASSUME Config, Typed, Keeps,
           HandleStartInterlude \/ HandleCrossfadeInterlude \/ HandleInterludeMode
    PROVE  Typed'
<1>0. /\ \A cs \in [Callers -> Calls], e \in Entries, r \in {"Ok", "Err"} :
             Answered(cs, e, r) \in [Callers -> Calls]
      /\ out.interlude.switch \in Entries /\ out.interlude \in Inserts /\ NoEntry \in Entries
      /\ call \in [Callers -> Calls]
  BY AnsweredCalls, Entry DEF Typed, Threads, Inserts
<1>1. \E k \in AllKinds : Handles(k)
  BY DEF HandleStartInterlude, HandleCrossfadeInterlude, HandleInterludeMode, InterludeMode,
         AllKinds, Interludes
<1>2. Hd \in Entries /\ queue' \in Seq(Commands) /\ Len(queue') <= QueueCapacity
  BY <1>1, Handled
<1>3. CASE HandleStartInterlude
  <2>1. call' \in [Callers -> Calls]
    <3>1. call' \in {Answered(Answered(call, out.interlude.switch, "Err"), Hd, "Ok"),
                    Answered(call, Hd, "Err")}
      BY <1>3 DEF HandleStartInterlude
    <3> QED  BY <1>0, <1>2, <3>1
  <2>2. out' \in Threads
    BY <1>0, <1>3, SMTT(30) DEF HandleStartInterlude, Typed, Threads, Inserts
  <2> QED  BY <1>2, <1>3, <2>1, <2>2 DEF HandleStartInterlude, Typed
<1>4. CASE HandleCrossfadeInterlude
  <2>1. call' \in [Callers -> Calls]
    BY <1>0, <1>2, <1>4 DEF HandleCrossfadeInterlude
  <2>2. out' \in Threads
    <3>1. out \in Threads
      BY DEF Typed
    <3>2. out' \in {out, [out EXCEPT !.interlude.switch = Hd]}
      BY <1>4 DEF HandleCrossfadeInterlude
    <3> HIDE DEF Hd
    <3>3. [out EXCEPT !.interlude.switch = Hd] \in Threads
      BY <1>2, <3>1 DEF Threads, Inserts
    <3> QED  BY <3>1, <3>2, <3>3
  <2> QED  BY <1>2, <1>4, <2>1, <2>2 DEF HandleCrossfadeInterlude, Typed
<1>5. CASE HandleInterludeMode
  <2>1. call' \in [Callers -> Calls]
    <3>1. \/ call' = Answered(call, Hd, "Ok")
          \/ call' = Answered(Answered(call, out.interlude.switch, "Err"), Hd, "Ok")
      BY <1>5 DEF HandleInterludeMode
    <3>2. Answered(call, out.interlude.switch, "Err") \in [Callers -> Calls]
      BY <1>0
    <3> HIDE DEF Hd
    <3> QED  BY <1>0, <1>2, <3>1, <3>2
  <2>2. out' \in Threads
    <3>1. out \in Threads
      BY DEF Typed
    <3>2. \/ out' = out
          \/ \E mode \in {"Paused", "On", "Release"}, e \in {out.interlude.switch, NoEntry} :
                out' = [out EXCEPT !.interlude = [mode |-> mode, switch |-> e]]
      BY <1>5 DEF HandleInterludeMode, InterludeMode
    <3>3. \A mode \in {"Paused", "On", "Release"}, e \in Entries :
             [out EXCEPT !.interlude = [mode |-> mode, switch |-> e]] \in Threads
      BY <3>1 DEF Threads, Inserts
    <3> QED  BY <1>0, <3>1, <3>2, <3>3
  <2> QED  BY <1>2, <1>5, <2>1, <2>2 DEF HandleInterludeMode, Typed
<1> QED  BY <1>3, <1>4, <1>5

LEMMA TypedMicrophoneCommands ==
    ASSUME Config, Typed, HandleEnableMic \/ HandleDisableMic
    PROVE  Typed'
<1>0. /\ \A r \in {"Ok", "Err"} : Answered(call, Hd, r) \in [Callers -> Calls]
      /\ queue' \in Seq(Commands) /\ Len(queue') <= QueueCapacity
  <2>1. \E k \in AllKinds : Handles(k)
    BY DEF HandleEnableMic, HandleDisableMic, AllKinds
  <2>2. Hd \in Entries /\ queue' \in Seq(Commands) /\ Len(queue') <= QueueCapacity
    BY <2>1, Handled
  <2> QED  BY <2>2, AnsweredCalls DEF Typed
<1>1. device \in Devices /\ out.paused \in BOOLEAN /\ Len(device.ring) <= RingCapacity
      /\ RingCapacity \in Nat /\ Len(<<>>) = 0 /\ skewed \in BOOLEAN
  BY DEF Typed, Threads, Config, StreamAssumption
<1>2. CASE HandleEnableMic
  <2>1. skewed' \in BOOLEAN /\ call' \in [Callers -> Calls] /\ out' \in Threads
    <3>1. /\ \E r \in {"Ok", "Err"} : call' = Answered(call, Hd, r)
          /\ skewed' = skewed \/ skewed' = (skewed \/ device.ring # <<>>)
          /\ out' = out \/ out' = [out EXCEPT !.bridge = "Held"]
      BY <1>2 DEF HandleEnableMic
    <3>2. out \in Threads /\ [out EXCEPT !.bridge = "Held"] \in Threads
      BY DEF Typed, Threads
    <3> QED  BY <1>0, <1>1, <3>1, <3>2
  <2>2. device' \in Devices /\ Len(device'.ring) <= RingCapacity
    <3>1. CASE out.bridge # "None"
      BY <1>1, <1>2, <3>1 DEF HandleEnableMic
    <3>2. CASE out.bridge = "None"
      <4>0. PICK closes \in BOOLEAN : \E d \in Openings(StreamStopped(device, closes), "Duplex") :
               \E e \in (IF Running(d) THEN {d} ELSE Openings(d, "Output")) :
                  device' = Held(e, out.paused)
        BY <1>2, <3>2 DEF HandleEnableMic
      <4>1. PICK d \in Openings(StreamStopped(device, closes), "Duplex") :
               \E e \in (IF Running(d) THEN {d} ELSE Openings(d, "Output")) :
                  device' = Held(e, out.paused)
        BY <4>0
      <4>2. PICK e \in {d} \cup Openings(d, "Output") : device' = Held(e, out.paused)
        BY <4>1
      <4>3. d \in Devices /\ (d.ring = <<>> \/ d.ring = device.ring)
        BY <1>1, ReopenedDevice
      <4>4. e \in Devices /\ e.ring = d.ring
        BY <4>3, OpenedDevice
      <4>5. device' \in Devices /\ device'.ring = e.ring
        BY <1>1, <4>2, <4>4, HeldDevice
      <4> QED  BY <1>1, <4>3, <4>4, <4>5
    <3> QED  BY <3>1, <3>2
  <2> QED  BY <1>0, <1>2, <2>1, <2>2 DEF HandleEnableMic, Typed
<1>3. CASE HandleDisableMic
  <2>1. skewed' \in BOOLEAN /\ call' \in [Callers -> Calls] /\ out' \in Threads
    BY <1>0, <1>1, <1>3 DEF HandleDisableMic, Typed, Threads
  <2>2. device' \in Devices /\ Len(device'.ring) <= RingCapacity
    <3>0. PICK closes \in BOOLEAN : \E d \in Openings(StreamStopped(device, closes), "Output") :
             device' = Held(d, out.paused)
      BY <1>3 DEF HandleDisableMic
    <3>1. PICK d \in Openings(StreamStopped(device, closes), "Output") :
             device' = Held(d, out.paused)
      BY <3>0
    <3>2. d \in Devices /\ (d.ring = <<>> \/ d.ring = device.ring)
      BY <1>1, ReopenedDevice
    <3>3. device' \in Devices /\ device'.ring = d.ring
      BY <1>1, <3>1, <3>2, HeldDevice
    <3> QED  BY <1>1, <3>2, <3>3
  <2> QED  BY <1>0, <1>3, <2>1, <2>2 DEF HandleDisableMic, Typed
<1> QED  BY <1>2, <1>3

LEMMA TypedPauseCommands ==
    ASSUME Config, Typed, HandlePause \/ HandleResume
    PROVE  Typed'
<1>1. \E k \in AllKinds : Handles(k)
  BY DEF HandlePause, HandleResume, AllKinds
<1>2. Hd \in Entries /\ queue' \in Seq(Commands) /\ Len(queue') <= QueueCapacity
  BY <1>1, Handled
<1>3. /\ call \in [Callers -> Calls] /\ out \in Threads /\ device \in Devices
      /\ Len(device.ring) <= RingCapacity /\ out.switch \in Entries /\ NoEntry \in Entries
  BY Entry DEF Typed, Threads
<1>4. Promoted(timeline, device.total) \in Timelines
  BY TypedEnded
<1>5. \A b \in BOOLEAN : Held(device, b) \in Devices /\ Len(Held(device, b).ring) <= RingCapacity
  BY <1>3, HeldDevice
<1>6. CASE HandlePause
  <2>1. call' \in [Callers -> Calls]
    <3>1. Answered(call, out.switch, "Err") \in [Callers -> Calls]
      BY <1>3, AnsweredCalls
    <3> QED  BY <1>2, <1>6, <3>1, AnsweredCalls DEF HandlePause
  <2>2. out' \in Threads
    BY <1>3, <1>6 DEF HandlePause, Threads
  <2> QED  BY <1>2, <1>4, <1>5, <1>6, <2>1, <2>2 DEF HandlePause, Typed
<1>7. CASE HandleResume
  <2>1. call' \in [Callers -> Calls]
    <3>1. \E r \in {"Ok", "Err"} : call' = Answered(call, Hd, r)
      BY <1>7 DEF HandleResume
    <3> QED  BY <1>2, <1>3, <3>1, AnsweredCalls
  <2>2. out' \in Threads
    BY <1>3, <1>7, ZenonT(40) DEF HandleResume, Threads
  <2>3. device' \in Devices /\ Len(device'.ring) <= RingCapacity
    BY <1>3, <1>5, <1>7 DEF HandleResume
  <2>4. timeline' \in Timelines /\ wish' \in {"Pause", "Resume", "None"}
    BY <1>4, <1>7 DEF HandleResume, Typed
  <2> QED  BY <1>2, <1>7, <2>1, <2>2, <2>3, <2>4 DEF HandleResume, Typed
<1> QED  BY <1>6, <1>7

LEMMA TypedEndCommands ==
    ASSUME Config, Typed, HandleClear \/ HandleStop
    PROVE  Typed'
<1>1. \E k \in AllKinds : Handles(k)
  BY DEF HandleClear, HandleStop, AllKinds
<1>2. Hd \in Entries /\ queue' \in Seq(Commands) /\ Len(queue') <= QueueCapacity
  BY <1>1, Handled
<1>3. /\ call \in [Callers -> Calls] /\ out \in Threads /\ device \in Devices
      /\ Len(device.ring) <= RingCapacity /\ RingCapacity \in Nat /\ Len(<<>>) = 0
  BY DEF Typed, Config, StreamAssumption
<1>4. CASE HandleClear
  <2>1. call' \in [Callers -> Calls]
    BY <1>3, <1>4, AllAnsweredCalls DEF HandleClear
  <2>2. out' \in Threads
    <3>1. /\ <<>> \in Seq(Sounds) /\ NoTone \in [on : BOOLEAN, restore : BOOLEAN]
          /\ NoEntry \in Entries /\ NoInterlude \in Inserts
      BY Rings, Entry DEF NoTone, NoInterlude, Inserts
    <3>2. out' = [out EXCEPT !.pc = "Clearing", !.entry = Hd, !.switch = NoEntry, !.pending = <<>>,
                          !.current = NoTrack, !.tone = NoTone, !.interlude = NoInterlude,
                          !.bridge = "None", !.paused = TRUE]
      BY <1>4 DEF HandleClear
    <3> HIDE DEF Hd
    <3> QED  BY <1>2, <1>3, <3>1, <3>2 DEF Threads
  <2>3. device' \in Devices /\ Len(device'.ring) <= RingCapacity
    <3> DEFINE d == Held(device, TRUE)
    <3>1. d \in Devices /\ d.ring = device.ring
      BY <1>3, HeldDevice
    <3>2. device' = RingCleared(d)
      BY <1>4 DEF HandleClear
    <3> HIDE DEF d
    <3>3. device' \in Devices /\ (device'.ring = <<>> \/ device'.ring = device.ring)
      BY <3>1, <3>2, ClearedDevice
    <3> QED  BY <1>3, <3>3
  <2>4. timeline' \in Timelines /\ wish' = "None" /\ skewed' = TRUE
    BY <1>4 DEF HandleClear, NewTimeline, Timelines, Anchors, NoAnchor, NoTrack
  <2> QED  BY <1>2, <1>4, <2>1, <2>2, <2>3, <2>4 DEF HandleClear, Typed
<1>5. CASE HandleStop
  <2>1. PICK closes \in BOOLEAN : ThreadEnds(Answered(call, Hd, "Ok"), closes)
    BY <1>5 DEF HandleStop
  <2>2. Answered(call, Hd, "Ok") \in [Callers -> Calls]
    BY <1>2, <1>3, AnsweredCalls
  <2>3. /\ call' \in [Callers -> Calls] /\ device' \in Devices /\ Len(device'.ring) <= RingCapacity
        /\ skewed' \in BOOLEAN
    BY <2>1, <2>2, TypedThreadEnds
  <2> QED  BY <1>2, <1>5, <2>3, TypedEnded DEF HandleStop, Typed
<1> QED  BY <1>4, <1>5

\* The answer to a crossfade of the insert.
LEMMA InterludeAnsweredCalls ==
    ASSUME Config, Typed, NEW m \in Mixes(out.interlude)
    PROVE  /\ InterludeAnswered(call, m) \in [Callers -> Calls]
           /\ m.to \in Inserts
           /\ \A e \in Entries, r \in {"Ok", "Err"} :
                 Answered(InterludeAnswered(call, m), e, r) \in [Callers -> Calls]
<1>1. /\ out.interlude \in Inserts /\ out.interlude.switch \in Entries
      /\ call \in [Callers -> Calls]
  BY DEF Typed, Threads, Inserts
<1>2. m.to \in Inserts /\ m.ok \in {"None", "Ok", "Err"}
  BY <1>1, MixedInsert
<1>3. InterludeAnswered(call, m) \in [Callers -> Calls]
  BY <1>1, <1>2, AnsweredCalls DEF InterludeAnswered
<1> QED  BY <1>2, <1>3, AnsweredCalls

\* Frames that are taken from a track.
LEMMA TakenTracks ==
    ASSUME Config, Typed, NEW t \in Tracks, NEW n \in Nat, n <= Available(t)
    PROVE  /\ Taken(t, n) \in [Tracks -> Progress]
           /\ Taken(t, n)[t].taken = tracks[t].taken + n
           /\ Taken(t, n)[t].decoded = tracks[t].decoded
           /\ \A u \in Tracks \ {t} : Taken(t, n)[u] = tracks[u]
           /\ Frames(t, n) \in Seq(Sounds) /\ Len(Frames(t, n)) = n
<1>1. tracks \in [Tracks -> Progress] /\ TrackLength \in Nat
  BY DEF Typed, Config, OutputAssumption
<1>2. tracks[t].taken \in Nat /\ tracks[t].decoded \in Nat /\ tracks[t].decoded <= TrackLength
  BY <1>1 DEF Progress
<1>3. tracks[t].taken + n \in 0 .. TrackLength
  BY <1>1, <1>2 DEF Available
<1>4. \A i \in 1 .. n : [track |-> t, at |-> tracks[t].taken + i] \in Sounds
  BY <1>2 DEF Sounds
<1>5. Frames(t, n) \in Seq(Sounds) /\ Len(Frames(t, n)) = n
  BY <1>4 DEF Frames
<1> QED  BY <1>1, <1>2, <1>3, <1>5 DEF Taken, Progress

LEMMA TypedClearing ==
    ASSUME Config, Typed, Keeps, Fresh, Clearing
    PROVE  Typed'
<1>1. /\ call \in [Callers -> Calls] /\ out \in Threads /\ device \in Devices
      /\ timeline \in Timelines /\ device.total \in Nat
      /\ Len(device.ring) <= RingCapacity /\ out.entry \in Entries /\ NoEntry \in Entries
  BY Entry DEF Typed, Threads, Devices
<1>2. \A r \in {"Ok", "Err"} : Answered(call, out.entry, r) \in [Callers -> Calls]
  BY <1>1, AnsweredCalls
<1>3. CASE SetCurrentCommits
  <2> DEFINE t == out.entry.track
             s == Frames(t, Watermark)
  <2>1. t \in Tracks /\ Watermark \in Nat /\ Watermark <= Available(t)
    BY <1>3, SMTT(30)
       DEF SetCurrentCommits, Keeps, Fresh, Commands, Exchanges, Config, StreamAssumption
  <2>2. tracks' \in [Tracks -> Progress] /\ s \in Seq(Sounds)
    BY <1>3, <2>1, TakenTracks, SMTT(30) DEF SetCurrentCommits
  <2>3. PICK m \in Mixes(out.interlude) :
           IF CanPrime(device, s)
           THEN /\ device' = Primed(device, s)
                /\ timeline' = Replaced(timeline, t, device.total)
                /\ out' = [out EXCEPT !.pc = "Loop", !.entry = NoEntry, !.current = t,
                                      !.interlude = m.to]
                /\ call' = Answered(InterludeAnswered(call, m), out.entry, "Ok")
                /\ skewed' = FALSE
           ELSE /\ out' = [out EXCEPT !.pc = "Loop", !.entry = NoEntry,
                                      !.current = NoTrack, !.interlude = m.to]
                /\ call' = Answered(InterludeAnswered(call, m), out.entry, "Err")
                /\ UNCHANGED <<device, timeline, skewed>>
    BY <1>3 DEF SetCurrentCommits
  <2>4. call' \in [Callers -> Calls] /\ m.to \in Inserts
    BY <1>1, <2>3, InterludeAnsweredCalls
  <2>5. device' \in Devices /\ Len(device'.ring) <= RingCapacity
    BY <1>1, <2>2, <2>3, PrimedDevice DEF CanPrime
  <2>6. timeline' \in Timelines /\ skewed' \in BOOLEAN
    <3>1. skewed \in BOOLEAN /\ Replaced(timeline, t, device.total) \in Timelines
      BY <1>1, <2>1, TimelineTypes DEF Typed
    <3> HIDE DEF t, s
    <3> QED  BY <1>1, <2>3, <3>1
  <2>7. out' \in Threads
    <3> HIDE DEF t, s
    <3>1. \A u \in Tracks \cup {NoTrack} :
             [out EXCEPT !.pc = "Loop", !.entry = NoEntry, !.current = u, !.interlude = m.to] \in Threads
      BY <1>1, <2>4 DEF Threads
    <3> QED  BY <2>1, <2>3, <3>1
  <2>8. UNCHANGED <<queue, slot, sent, late>> /\ wish' = "None"
    BY <1>3 DEF SetCurrentCommits
  <2> QED  BY <2>2, <2>4, <2>5, <2>6, <2>7, <2>8 DEF Typed
<1>4. CASE ToneStarts
  <2>1. ToneSamples \in Seq(Sounds)
    <3>1. ToneFrames \in Nat /\ \A i \in 1 .. ToneFrames : [track |-> "Tone", at |-> i] \in Sounds
      BY DEF Sounds, Config, OutputAssumption
    <3> QED  BY <3>1 DEF ToneSamples
  <2>2. out' \in Threads
    <3>1. out' = [out EXCEPT !.pc = "Loop", !.entry = NoEntry, !.pending = ToneSamples,
                          !.tone = [on |-> TRUE, restore |-> out.paused], !.paused = FALSE]
      BY <1>4 DEF ToneStarts
    <3>2. [on |-> TRUE, restore |-> out.paused] \in [on : BOOLEAN, restore : BOOLEAN]
      BY <1>1 DEF Threads
    <3> QED  BY <1>1, <2>1, <3>1, <3>2 DEF Threads
  <2>3. device' \in Devices /\ Len(device'.ring) <= RingCapacity
    BY <1>1, <1>4, HeldDevice DEF ToneStarts
  <2> QED  BY <1>2, <1>4, <2>2, <2>3 DEF ToneStarts, Typed
<1>5. CASE ClearDone \/ ClearingTimesOut
  <2>1. out' \in Threads
    BY <1>1, <1>5, ZenonT(40) DEF ClearDone, ClearingTimesOut, Threads
  <2> QED  BY <1>2, <1>5, <2>1 DEF ClearDone, ClearingTimesOut, Typed
<1> QED  BY <1>3, <1>4, <1>5 DEF Clearing

LEMMA TypedMicrophoneTakenBack ==
    ASSUME Config, Typed, MicrophoneTakenBack
    PROVE  Typed'
<1>1. /\ call \in [Callers -> Calls] /\ out \in Threads /\ device \in Devices
      /\ Len(device.ring) <= RingCapacity /\ RingCapacity \in Nat /\ Len(<<>>) = 0
  BY DEF Typed, Config, StreamAssumption
<1>2. PICK closes \in BOOLEAN : \E d \in Openings(StreamStopped(device, closes), "Output") :
         IF Running(d)
         THEN /\ device' = Held(d, out.paused)
              /\ out' = [out EXCEPT !.bridge = "None"]
              /\ skewed' = (skewed \/ device.ring # <<>>)
              /\ UNCHANGED <<call, timeline>>
         ELSE /\ ThreadEnds(call, closes)
              /\ out' = [Ended EXCEPT !.failed = TRUE]
              /\ timeline' = Promoted(timeline, device.total)
  BY DEF MicrophoneTakenBack
<1>3. PICK d \in Openings(StreamStopped(device, closes), "Output") :
         IF Running(d)
         THEN /\ device' = Held(d, out.paused)
              /\ out' = [out EXCEPT !.bridge = "None"]
              /\ skewed' = (skewed \/ device.ring # <<>>)
              /\ UNCHANGED <<call, timeline>>
         ELSE /\ ThreadEnds(call, closes)
              /\ out' = [Ended EXCEPT !.failed = TRUE]
              /\ timeline' = Promoted(timeline, device.total)
  BY <1>2
<1>4. UNCHANGED <<queue, tracks, slot, sent, late, wish>>
  BY DEF MicrophoneTakenBack
<1>5. CASE Running(d)
  <2>1. d \in Devices /\ (d.ring = <<>> \/ d.ring = device.ring)
    BY <1>1, ReopenedDevice
  <2>2. device' \in Devices /\ device'.ring = d.ring
    <3>1. out.paused \in BOOLEAN /\ device' = Held(d, out.paused)
      BY <1>1, <1>3, <1>5 DEF Threads
    <3> QED  BY <2>1, <3>1, HeldDevice
  <2>3. out' \in Threads /\ skewed' \in BOOLEAN
    <3>1. out' = [out EXCEPT !.bridge = "None"] /\ skewed' = (skewed \/ device.ring # <<>>)
      BY <1>3, <1>5
    <3>2. skewed \in BOOLEAN
      BY DEF Typed
    <3> QED  BY <1>1, <3>1, <3>2 DEF Threads
  <2> QED  BY <1>1, <1>3, <1>4, <1>5, <2>1, <2>2, <2>3 DEF Typed
<1>6. CASE ~Running(d)
  <2>1. /\ call' \in [Callers -> Calls] /\ device' \in Devices /\ Len(device'.ring) <= RingCapacity
        /\ skewed' \in BOOLEAN
    BY <1>1, <1>3, <1>6, TypedThreadEnds
  <2> QED  BY <1>3, <1>4, <1>6, <2>1, TypedEnded DEF Typed
<1> QED  BY <1>5, <1>6

LEMMA TypedTurn ==
    ASSUME Config, Typed, Keeps, Fresh, Answers,
           ClockRefreshed \/ ToneEnds \/ SwitchRefused \/ SwitchCommits \/ Refill \/ Write
    PROVE  Typed'
<1>1. /\ call \in [Callers -> Calls] /\ out \in Threads /\ device \in Devices /\ skewed \in BOOLEAN
      /\ timeline \in Timelines /\ device.total \in Nat /\ tracks \in [Tracks -> Progress]
      /\ Len(device.ring) <= RingCapacity /\ out.switch \in Entries /\ NoEntry \in Entries
      /\ RingCapacity \in Nat /\ Watermark \in Nat /\ Watermark <= RingCapacity /\ ToneFrames \in Nat
      /\ TrackLength \in Nat
  BY Entry DEF Typed, Threads, Devices, Config, StreamAssumption, OutputAssumption
<1>2. CASE ClockRefreshed
  <2>1. timeline' \in Timelines
    BY <1>2, TypedEnded DEF ClockRefreshed
  <2> QED  BY <1>2, <2>1 DEF ClockRefreshed, Typed
<1>3. CASE ToneEnds
  <2> DEFINE t == out.current
             n == IF t = NoTrack THEN 0
                  ELSE IF Available(t) < ToneFrames THEN Available(t) ELSE ToneFrames
  <2>1. out' \in Threads
    <3>1. out' = [out EXCEPT !.tone = NoTone, !.paused = out.tone.restore]
      BY <1>3 DEF ToneEnds
    <3>2. NoTone \in [on : BOOLEAN, restore : BOOLEAN] /\ out.tone.restore \in BOOLEAN
      BY <1>1 DEF NoTone, Threads
    <3> QED  BY <1>1, <3>1, <3>2 DEF Threads
  <2>2. device' \in Devices /\ Len(device'.ring) <= RingCapacity
    BY <1>1, <1>3, HeldDevice DEF ToneEnds, Threads
  <2>3. tracks' \in [Tracks -> Progress]
    <3>1. CASE t = NoTrack
      BY <1>1, <1>3, <3>1 DEF ToneEnds
    <3>2. CASE t # NoTrack
      <4>1. t \in Tracks
        BY <1>1, <3>2 DEF Threads
      <4>2. Available(t) \in Nat
        BY <1>1, <4>1 DEF Fresh, Available, Progress
      <4>3. n \in Nat /\ n <= Available(t)
        BY <1>1, <4>2
      <4> HIDE DEF n
      <4>4. tracks' = Taken(t, n)
        BY <1>3, <3>2 DEF ToneEnds, n
      <4> QED  BY <4>1, <4>3, <4>4, TakenTracks
    <3> QED  BY <3>1, <3>2
  <2>4. skewed' \in BOOLEAN /\ UNCHANGED <<call, queue, timeline, slot, sent, late, wish>>
    BY <1>3 DEF ToneEnds
  <2> QED  BY <2>1, <2>2, <2>3, <2>4 DEF Typed
<1>4. CASE SwitchRefused
  <2>1. out' \in Threads
    BY <1>1, <1>4, ZenonT(40) DEF SwitchRefused, Threads
  <2>2. call' \in [Callers -> Calls]
    BY <1>1, <1>4, AnsweredCalls DEF SwitchRefused
  <2> QED  BY <1>4, <2>1, <2>2 DEF SwitchRefused, Typed
<1>5. CASE SwitchCommits
  <2> DEFINE new == out.switch.track
             old == out.current
             s   == Frames(new, 1)
  <2>1. new \in Tracks /\ old \in Tracks /\ out.switch # NoEntry
    BY <1>1, <1>5, ZenonT(40) DEF SwitchCommits, Switches, Keeps, Threads, Commands, Exchanges
  <2>2. /\ tracks[new].taken = 0 /\ tracks[old].taken >= 1
        /\ Available(new) >= 1 /\ RingCapacity - Len(device.ring) >= 1
    <3>1. out.switch \in HeldNow /\ out.pc # "Gone"
      BY <1>5, ZenonT(40) DEF HeldNow, SwitchCommits, Switches, Turn
    <3>2. old # NoTrack
      BY <2>1, Entry
    <3> QED  BY <1>5, <2>1, <3>1, <3>2, ZenonT(40) DEF Fresh, SwitchCommits, CanFade
  <2>3. new # old
    BY <1>1, <2>1, <2>2
  <2>4. tracks' \in [Tracks -> Progress]
    <3>1. \A t \in Tracks : tracks[t].taken \in 0 .. TrackLength /\ tracks[t].decoded \in 0 .. TrackLength
      BY <1>1 DEF Progress
    <3>2. /\ Available(old) >= 1 => tracks[old].taken + 1 \in 0 .. TrackLength
          /\ tracks[new].taken + 1 \in 0 .. TrackLength
      BY <1>1, <2>1, <2>2, <3>1, SMTT(30) DEF Available
    <3>3. tracks' = [tracks EXCEPT ![old].taken = IF Available(old) >= 1 THEN @ + 1 ELSE @,
                                   ![new].taken = @ + 1]
      BY <1>5, ZenonT(40) DEF SwitchCommits
    <3> HIDE DEF old, new
    <3> QED  BY <1>1, <2>1, <2>3, <3>1, <3>2, <3>3, ZenonT(40) DEF Progress
  <2>5. s \in Seq(Sounds) /\ Len(s) = 1
    BY <2>1, <2>2, TakenTracks, ZenonT(40)
  <2>6. PICK m \in Mixes(out.interlude) :
           IF CanPrime(device, s)
           THEN /\ device' = Primed(device, s)
                /\ timeline' = CrossfadeQueued(timeline, new, FadeFrame)
                /\ out' = [out EXCEPT !.current = new, !.switch = NoEntry, !.interlude = m.to]
                /\ call' = Answered(InterludeAnswered(call, m), out.switch, "Ok")
                /\ skewed' = (skewed \/ timeline.pending # NoAnchor)
           ELSE /\ out' = [out EXCEPT !.switch = NoEntry, !.interlude = m.to]
                /\ call' = Answered(InterludeAnswered(call, m), out.switch, "Err")
                /\ skewed' = TRUE
                /\ UNCHANGED <<device, timeline>>
    BY <1>5, ZenonT(40) DEF SwitchCommits
  <2>7. call' \in [Callers -> Calls] /\ m.to \in Inserts
    BY <1>1, <2>6, InterludeAnsweredCalls
  <2>8. device' \in Devices /\ Len(device'.ring) <= RingCapacity
    BY <1>1, <2>5, <2>6, PrimedDevice DEF CanPrime
  <2>9. timeline' \in Timelines /\ skewed' \in BOOLEAN
    <3>1. FadeFrame \in Nat
      BY <1>1 DEF FadeFrame, Devices
    <3>2. CrossfadeQueued(timeline, new, FadeFrame) \in Timelines
      BY <1>1, <2>1, <3>1, TimelineTypes
    <3> QED  BY <1>1, <2>6, <3>2
  <2>10. out' \in Threads
    <3> HIDE DEF new, old, s
    <3>1. /\ [out EXCEPT !.current = new, !.switch = NoEntry, !.interlude = m.to] \in Threads
          /\ [out EXCEPT !.switch = NoEntry, !.interlude = m.to] \in Threads
      BY <1>1, <2>1, <2>7, ZenonT(40) DEF Threads
    <3> QED  BY <2>6, <3>1, ZenonT(40)
  <2>11. UNCHANGED <<queue, slot, sent, late, wish>>
    BY <1>5, ZenonT(40) DEF SwitchCommits
  <2> QED  BY <2>4, <2>7, <2>8, <2>9, <2>10, <2>11 DEF Typed
<1>6. CASE Refill
  <2>1. out.current \in Tracks /\ 1 <= Available(out.current)
    BY <1>1, <1>6 DEF Refill, Threads
  <2>2. tracks' \in [Tracks -> Progress] /\ Frames(out.current, 1) \in Seq(Sounds)
    BY <1>6, <2>1, TakenTracks DEF Refill
  <2>3. PICK m \in Mixes(out.interlude) :
          /\ out' = [out EXCEPT !.pending = Frames(out.current, 1), !.interlude = m.to]
          /\ call' = InterludeAnswered(call, m)
    BY <1>6 DEF Refill
  <2>4. call' \in [Callers -> Calls] /\ m.to \in Inserts
    BY <2>3, InterludeAnsweredCalls
  <2>5. out' \in Threads
    BY <1>1, <2>2, <2>3, <2>4 DEF Threads
  <2> QED  BY <1>6, <2>2, <2>4, <2>5 DEF Refill, Typed
<1>7. CASE Write
  <2>1. UNCHANGED <<queue, tracks, slot, sent, late, wish>>
    BY <1>7 DEF Write
  <2>2. CASE Running(device)
    <3> DEFINE w == <<Head(out.pending)>>
    <3>1. /\ out.pending # <<>> /\ WritableFrames(device) >= 1 /\ device' = Written(device, w)
          /\ out' = [out EXCEPT !.pending = Tail(@)]
          /\ UNCHANGED <<call, timeline, skewed>>
      BY <1>7, <2>2 DEF Write
    <3>2. out.pending \in Seq(Sounds)
      BY <1>1 DEF Threads
    <3>3. Head(out.pending) \in Sounds /\ Tail(out.pending) \in Seq(Sounds)
      BY <3>1, <3>2, Rings
    <3>4. w \in Seq(Sounds) /\ Len(w) = 1
      BY <3>3
    <3>5. Len(device.ring) < Watermark
      BY <3>1 DEF WritableFrames
    <3> HIDE DEF w
    <3>6. device' \in Devices /\ Len(device'.ring) = Len(device.ring) + 1
      BY <1>1, <3>1, <3>4, PrimedDevice, ZenonT(40)
    <3>7. Len(device'.ring) <= RingCapacity
      BY <1>1, <3>5, <3>6 DEF Devices
    <3>8. out' \in Threads
      BY <1>1, <3>1, <3>3 DEF Threads
    <3> QED  BY <2>1, <3>1, <3>6, <3>7, <3>8 DEF Typed
  <2>3. CASE ~Running(device)
    <3>1. PICK closes \in BOOLEAN : ThreadEnds(call, closes)
      BY <1>7, <2>3 DEF Write
    <3>2. /\ call' \in [Callers -> Calls] /\ device' \in Devices /\ Len(device'.ring) <= RingCapacity
          /\ skewed' \in BOOLEAN
      BY <1>1, <3>1, TypedThreadEnds
    <3> QED  BY <1>7, <2>1, <2>3, <3>2, TypedEnded DEF Write, Typed
  <2> QED  BY <2>2, <2>3
<1> QED  BY <1>2, <1>3, <1>4, <1>5, <1>6, <1>7

\* Every step keeps the types.
LEMMA TypedNext ==
    ASSUME Config, Typed, Keeps, Fresh, Answers, Next
    PROVE  Typed'
<1>1. CASE \E c \in Callers : Ask(c) \/ GiveUp(c) \/ Settle(c) \/ Joined(c)
  BY <1>1, TypedAsk, TypedGiveUp, TypedSettle, TypedJoined
<1>2. CASE (\E t \in Tracks : TrackFed(t)) \/ MicrophoneFails \/ Callback
  BY <1>2, TypedWorld
<1>3. CASE Handler
  BY <1>3, TypedTrackCommands, TypedInsertCommands, TypedMicrophoneCommands, TypedPauseCommands,
     TypedEndCommands DEF Handler
<1>4. CASE Clearing
  BY <1>4, TypedClearing
<1>5. CASE Loop
  BY <1>5, TypedMicrophoneTakenBack, TypedTurn DEF Loop
<1> QED  BY <1>1, <1>2, <1>3, <1>4, <1>5 DEF Next, Thread
-----------------------------------------------------------------------------
(* The commands in the thread *)

\* The thread decides the commands D: an exchange among them with the result r.
Decided(D, r) ==
    \A c \in Callers :
        /\ call'[c].kind = call[c].kind /\ call'[c].track = call[c].track
        /\ IF \E d \in D : d.by = c
           THEN /\ call'[c].at \in {"Ok", "Err"}
                /\ call[c].kind \in Exchanges => call'[c].at = r
           ELSE call'[c].at = call[c].at

\* Of the commands in the thread just D are forgotten, and nothing like them stays.
Forgotten(D) ==
    /\ D \subseteq HeldNow
    /\ HeldNow' \subseteq HeldNow \cup {NoEntry}
    /\ HeldNow \subseteq HeldNow' \cup D \cup {NoEntry}
    /\ \A d \in D, e \in HeldNow' : Differ(d, e)
    /\ Apart(queue, out.entry, out.switch, out.interlude.switch)'

\* The commands that leave their places in the thread.
Released ==
    {e \in {out.entry} : out'.entry # e} \cup {e \in {out.switch} : out'.switch # e}
    \cup {e \in {out.interlude.switch} : out'.interlude.switch # e}

LEMMA HeldEntries ==
    ASSUME Config, Typed
    PROVE  /\ HeldNow \subseteq Entries
           /\ queue \in Seq(Commands) /\ Range(queue) \subseteq Commands
           /\ out.entry \in Entries /\ out.switch \in Entries /\ out.interlude.switch \in Entries
           /\ \A e \in Entries : e.by \in Callers \cup {NoCaller} /\ e.track \in Tracks \cup {NoTrack}
<1>1. Range(queue) \subseteq Commands
  BY DEF Typed, Range
<1>2. out.entry \in Entries /\ out.switch \in Entries /\ out.interlude.switch \in Entries
  BY DEF Typed, Threads, Inserts
<1> QED  BY <1>1, <1>2, Entry DEF HeldNow, Typed, Entries

\* The channel without the command that is handled.
LEMMA ChannelTail ==
    ASSUME NEW S, NEW q \in Seq(S), q # <<>>, NEW e, NEW s, NEW i, Apart(q, e, s, i)
    PROVE  /\ Range(q) = {Head(q)} \cup Range(Tail(q))
           /\ Apart(Tail(q), e, s, i)
           /\ \A x \in Range(Tail(q)) \cup {e, s, i} : Differ(Head(q), x)
           /\ \A x \in Range(q), y \in {e, s, i} : Differ(x, y)
<1>1. /\ Len(q) \in Nat /\ Len(q) >= 1 /\ Len(Tail(q)) = Len(q) - 1 /\ Head(q) = q[1]
      /\ \A n \in 1 .. Len(Tail(q)) : n + 1 \in 1 .. Len(q) /\ Tail(q)[n] = q[n + 1]
      /\ DOMAIN q = 1 .. Len(q) /\ DOMAIN Tail(q) = 1 .. Len(Tail(q))
  OBVIOUS
<1>2. Range(q) = {Head(q)} \cup Range(Tail(q))
  <2>1. ASSUME NEW n \in 1 .. Len(q) PROVE q[n] \in {Head(q)} \cup Range(Tail(q))
    <3>1. CASE n = 1
      BY <1>1, <3>1
    <3>2. CASE n # 1
      <4>1. n - 1 \in 1 .. Len(Tail(q)) /\ Tail(q)[n - 1] = q[n]
        BY <1>1, <3>2
      <4> QED  BY <1>1, <4>1 DEF Range
    <3> QED  BY <3>1, <3>2
  <2>2. \A n \in 1 .. Len(Tail(q)) : Tail(q)[n] \in Range(q)
    BY <1>1 DEF Range
  <2>3. Head(q) \in Range(q)
    BY <1>1 DEF Range
  <2> QED  BY <1>1, <2>1, <2>2, <2>3 DEF Range
<1>3. Apart(Tail(q), e, s, i)
  BY <1>1 DEF Apart
<1>4. \A n \in 1 .. Len(Tail(q)) : Differ(Head(q), Tail(q)[n])
  BY <1>1 DEF Apart
<1>5. \A n \in 1 .. Len(q) : \A y \in {e, s, i} : Differ(q[n], y)
  BY DEF Apart
<1>6. 1 \in 1 .. Len(q)
  BY <1>1
<1> QED  BY <1>1, <1>2, <1>3, <1>4, <1>5, <1>6 DEF Range

LEMMA ChannelAppend ==
    ASSUME NEW S, NEW q \in Seq(S), NEW h \in S
    PROVE  Range(Append(q, h)) = Range(q) \cup {h}
<1>1. /\ Len(Append(q, h)) = Len(q) + 1 /\ Append(q, h)[Len(q) + 1] = h /\ Len(q) \in Nat
      /\ \A n \in 1 .. Len(q) : Append(q, h)[n] = q[n]
      /\ DOMAIN q = 1 .. Len(q) /\ DOMAIN Append(q, h) = 1 .. Len(q) + 1
  OBVIOUS
<1>2. \A n \in 1 .. Len(q) + 1 : n \in 1 .. Len(q) \/ n = Len(q) + 1
  BY <1>1
<1> QED  BY <1>1, <1>2 DEF Range

\* To differ is symmetric, and every command differs from the absent one.
LEMMA DifferFacts ==
    ASSUME Config
    PROVE  /\ \A e, f : Differ(e, f) => Differ(f, e)
           /\ \A e : Differ(NoEntry, e)
           /\ \A e : e.by \in Callers \cup {NoCaller} /\ e.track \in Tracks \cup {NoTrack}
                        => Differ(e, NoEntry)
BY Entry DEF Differ

\* Places that keep what they have or are emptied stay apart.
LEMMA Emptied ==
    ASSUME Config, NEW q \in Seq(Commands), NEW e \in Entries, NEW s \in Entries, NEW i \in Entries,
           NEW e2 \in {e, NoEntry}, NEW s2 \in {s, NoEntry}, NEW i2 \in {i, NoEntry},
           Apart(q, e, s, i)
    PROVE  /\ Apart(q, e2, s2, i2)
           /\ \A d \in {x \in {e} : e2 # x} \cup {x \in {s} : s2 # x} \cup {x \in {i} : i2 # x},
                 f \in Range(q) \cup {e2, s2, i2} : Differ(d, f)
<1>1. \A x \in Entries : Differ(x, NoEntry) /\ Differ(NoEntry, x)
  BY DifferFacts, Entry DEF Entries
<1>2. /\ \A x \in Range(q) : x \in Entries /\ Differ(x, e) /\ Differ(x, s) /\ Differ(x, i)
      /\ \A x \in Range(q) : Differ(e, x) /\ Differ(s, x) /\ Differ(i, x)
  <2>1. \A x \in Range(q) : x \in Commands /\ Differ(x, e) /\ Differ(x, s) /\ Differ(x, i)
    BY DEF Apart, Range
  <2> QED  BY <2>1, DifferFacts, Entry
<1>3. Differ(e, s) /\ Differ(e, i) /\ Differ(s, i) /\ Differ(s, e) /\ Differ(i, e) /\ Differ(i, s)
  BY DifferFacts DEF Apart
<1>4. \A n \in 1 .. Len(q) : q[n] \in Range(q)
  BY DEF Range
<1>5. Apart(q, e2, s2, i2)
  <2>1. \A m, n \in 1 .. Len(q) : m # n => Differ(q[m], q[n])
    BY DEF Apart
  <2>2. \A n \in 1 .. Len(q) : \A f \in {e2, s2, i2} : Differ(q[n], f)
    BY <1>1, <1>2, <1>4
  <2>3. Differ(e2, s2) /\ Differ(e2, i2) /\ Differ(s2, i2)
    BY <1>1, <1>3, Entry
  <2> QED  BY <2>1, <2>2, <2>3 DEF Apart
<1>6. \A d \in {x \in {e} : e2 # x} \cup {x \in {s} : s2 # x} \cup {x \in {i} : i2 # x},
         f \in Range(q) \cup {e2, s2, i2} : Differ(d, f)
  BY <1>1, <1>2, <1>3
<1> QED  BY <1>5, <1>6

\* A step that handles no command.
LEMMA NothingHandled ==
    ASSUME Config, Typed, Apart(queue, out.entry, out.switch, out.interlude.switch), queue' = queue,
           out'.entry \in {out.entry, NoEntry}, out'.switch \in {out.switch, NoEntry},
           out'.interlude.switch \in {out.interlude.switch, NoEntry}
    PROVE  Forgotten(Released)
<1>1. /\ Apart(queue, out'.entry, out'.switch, out'.interlude.switch)
      /\ \A d \in Released, f \in Range(queue) \cup {out'.entry, out'.switch, out'.interlude.switch} :
            Differ(d, f)
  BY HeldEntries, Emptied, SMTT(30) DEF Released
<1>2. HeldNow' = Range(queue) \cup {out'.entry, out'.switch, out'.interlude.switch}
  BY DEF HeldNow
<1>3. Released \subseteq HeldNow /\ HeldNow' \subseteq HeldNow \cup {NoEntry}
  BY <1>2 DEF Released, HeldNow
<1>4. HeldNow \subseteq HeldNow' \cup Released
  BY <1>2 DEF Released, HeldNow
<1> QED  BY <1>1, <1>2, <1>3, <1>4 DEF Forgotten

\* A step that answers the command it handles.
LEMMA HandledAtOnce ==
    ASSUME Config, Typed, Apart(queue, out.entry, out.switch, out.interlude.switch),
           queue # <<>>, queue' = Tail(queue),
           out'.entry \in {out.entry, NoEntry}, out'.switch \in {out.switch, NoEntry},
           out'.interlude.switch \in {out.interlude.switch, NoEntry}
    PROVE  Forgotten({Hd} \cup Released)
<1>1. /\ Range(queue) = {Hd} \cup Range(Tail(queue))
      /\ Apart(Tail(queue), out.entry, out.switch, out.interlude.switch)
      /\ \A x \in Range(Tail(queue)) \cup {out.entry, out.switch, out.interlude.switch} : Differ(Hd, x)
  BY HeldEntries, ChannelTail DEF Hd
<1>2. Tail(queue) \in Seq(Commands) /\ Hd \in Entries
  BY HeldEntries, Entry DEF Hd
<1>3. /\ Apart(Tail(queue), out'.entry, out'.switch, out'.interlude.switch)
      /\ \A d \in Released,
            f \in Range(Tail(queue)) \cup {out'.entry, out'.switch, out'.interlude.switch} : Differ(d, f)
  <2>1. /\ out.entry \in Entries /\ out.switch \in Entries /\ out.interlude.switch \in Entries
        /\ Apart(Tail(queue), out.entry, out.switch, out.interlude.switch)
        /\ Tail(queue) \in Seq(Commands)
    BY <1>1, <1>2, HeldEntries
  <2> DEFINE rest == Tail(queue)
  <2>3. rest \in Seq(Commands) /\ Apart(rest, out.entry, out.switch, out.interlude.switch)
    BY <2>1
  <2> HIDE DEF rest
  <2>4. /\ Apart(rest, out'.entry, out'.switch, out'.interlude.switch)
        /\ \A d \in Released,
              f \in Range(rest) \cup {out'.entry, out'.switch, out'.interlude.switch} : Differ(d, f)
    BY <2>1, <2>3, Emptied, SMTT(30) DEF Released
  <2> QED  BY <2>4 DEF rest
<1>4. HeldNow' = Range(Tail(queue)) \cup {out'.entry, out'.switch, out'.interlude.switch}
  BY DEF HeldNow
<1>5. {Hd} \cup Released \subseteq HeldNow /\ HeldNow' \subseteq HeldNow \cup {NoEntry}
  BY <1>1, <1>4 DEF Released, HeldNow
<1>6. HeldNow \subseteq HeldNow' \cup {Hd} \cup Released
  BY <1>1, <1>4 DEF Released, HeldNow
<1>7. Differ(Hd, NoEntry)
  BY <1>2, HeldEntries, DifferFacts
<1>8. \A f \in HeldNow' : Differ(Hd, f)
  BY <1>1, <1>4, <1>7
<1> QED  BY <1>3, <1>4, <1>5, <1>6, <1>8 DEF Forgotten

\* A step that keeps the command it handles in a place that was free.
LEMMA HandledLater ==
    ASSUME Config, Typed, Apart(queue, out.entry, out.switch, out.interlude.switch),
           queue # <<>>, queue' = Tail(queue),
           \/ /\ out'.entry = Hd /\ out.entry = NoEntry
              /\ out'.switch \in {out.switch, NoEntry}
              /\ out'.interlude.switch \in {out.interlude.switch, NoEntry}
           \/ /\ out'.switch = Hd /\ out.switch = NoEntry
              /\ out'.entry \in {out.entry, NoEntry}
              /\ out'.interlude.switch \in {out.interlude.switch, NoEntry}
           \/ /\ out'.interlude.switch = Hd /\ out.interlude.switch = NoEntry
              /\ out'.entry \in {out.entry, NoEntry} /\ out'.switch \in {out.switch, NoEntry}
    PROVE  Forgotten(Released)
<1>1. /\ Range(queue) = {Hd} \cup Range(Tail(queue))
      /\ Apart(Tail(queue), out.entry, out.switch, out.interlude.switch)
      /\ \A x \in Range(Tail(queue)) \cup {out.entry, out.switch, out.interlude.switch} : Differ(Hd, x)
  BY HeldEntries, ChannelTail DEF Hd
<1>2. Tail(queue) \in Seq(Commands) /\ Hd \in Entries
  BY HeldEntries, Entry DEF Hd
<1> DEFINE e2 == IF out'.entry = Hd /\ out.entry = NoEntry THEN NoEntry ELSE out'.entry
           s2 == IF out'.switch = Hd /\ out.switch = NoEntry THEN NoEntry ELSE out'.switch
           i2 == IF out'.interlude.switch = Hd /\ out.interlude.switch = NoEntry THEN NoEntry
                 ELSE out'.interlude.switch
           D  == {x \in {out.entry} : e2 # x} \cup {x \in {out.switch} : s2 # x}
                 \cup {x \in {out.interlude.switch} : i2 # x}
<1>3. /\ Apart(Tail(queue), e2, s2, i2)
      /\ \A d \in D, f \in Range(Tail(queue)) \cup {e2, s2, i2} : Differ(d, f)
  <2>1. e2 \in {out.entry, NoEntry} /\ s2 \in {out.switch, NoEntry}
        /\ i2 \in {out.interlude.switch, NoEntry}
    OBVIOUS
  <2> HIDE DEF e2, s2, i2
  <2>2. /\ out.entry \in Entries /\ out.switch \in Entries /\ out.interlude.switch \in Entries
        /\ Apart(Tail(queue), out.entry, out.switch, out.interlude.switch)
        /\ Tail(queue) \in Seq(Commands)
    BY <1>1, <1>2, HeldEntries
  <2> DEFINE rest == Tail(queue)
  <2>3. rest \in Seq(Commands) /\ Apart(rest, out.entry, out.switch, out.interlude.switch)
    BY <2>2
  <2> HIDE DEF rest
  <2>4. /\ Apart(rest, e2, s2, i2)
        /\ \A d \in D, f \in Range(rest) \cup {e2, s2, i2} : Differ(d, f)
    BY <2>1, <2>2, <2>3, Emptied, SMTT(30)
  <2> QED  BY <2>4 DEF rest
<1>4. HeldNow' = Range(Tail(queue)) \cup {out'.entry, out'.switch, out'.interlude.switch}
  BY DEF HeldNow
<1>5. Released \subseteq HeldNow /\ HeldNow' \subseteq HeldNow \cup {NoEntry}
  BY <1>1, <1>4 DEF Released, HeldNow
<1>6. HeldNow \subseteq HeldNow' \cup Released
  BY <1>1, <1>4 DEF Released, HeldNow
<1>7. /\ \A x \in Entries : Differ(x, NoEntry) /\ Differ(NoEntry, x)
      /\ \A x \in Range(Tail(queue)) \cup {out.entry, out.switch, out.interlude.switch} :
            Differ(Hd, x) /\ Differ(x, Hd)
      /\ Released \subseteq D \cup {NoEntry}
  BY <1>1, HeldEntries, DifferFacts DEF Released
<1>8. \A d \in D : d \in {out.entry, out.switch, out.interlude.switch}
  OBVIOUS
<1>9. \A d \in Released, f \in HeldNow' : Differ(d, f)
  BY <1>3, <1>4, <1>7, <1>8, DifferFacts
<1>10. Apart(Tail(queue), out'.entry, out'.switch, out'.interlude.switch)
  <2>1. \A n \in 1 .. Len(Tail(queue)) : Tail(queue)[n] \in Range(Tail(queue))
    <3>1. DOMAIN Tail(queue) = 1 .. Len(Tail(queue))
      BY <1>2
    <3> QED  BY <3>1 DEF Range
  <2>2. \A x \in {e2, s2, i2} : x \in {out.entry, out.switch, out.interlude.switch, NoEntry}
    OBVIOUS
  <2>3. \A x \in {e2, s2, i2} : Differ(Hd, x) /\ Differ(x, Hd)
    BY <1>2, <1>7, <2>2
  <2>4. /\ out'.entry \in {e2, Hd} /\ out'.switch \in {s2, Hd} /\ out'.interlude.switch \in {i2, Hd}
        /\ \/ out'.switch = s2 /\ out'.interlude.switch = i2
           \/ out'.entry = e2 /\ out'.interlude.switch = i2
           \/ out'.entry = e2 /\ out'.switch = s2
    OBVIOUS
  <2> HIDE DEF e2, s2, i2
  <2>5. \A n \in 1 .. Len(Tail(queue)) : Differ(Tail(queue)[n], Hd)
    BY <1>7, <2>1
  <2>6. Differ(out'.entry, out'.switch) /\ Differ(out'.entry, out'.interlude.switch)
        /\ Differ(out'.switch, out'.interlude.switch)
    BY <1>3, <2>3, <2>4 DEF Apart
  <2> QED  BY <1>3, <2>4, <2>5, <2>6 DEF Apart
<1> QED  BY <1>4, <1>5, <1>6, <1>9, <1>10 DEF Forgotten

\* What every command in the thread is.
LEMMA HeldCommands ==
    ASSUME Config, Typed, Keeps
    PROVE  /\ \A e \in HeldNow : e = NoEntry \/ e \in Commands
           /\ Undecided = {e.track : e \in HeldNow} \ {NoTrack}
           /\ \A e \in HeldNow : e.track # NoTrack => e.kind \in Exchanges /\ e.track \in Tracks
<1>1. \A e \in HeldNow : e = NoEntry \/ e \in Commands
  <2>1. \A e \in Range(queue) : e \in Commands
    BY HeldEntries
  <2>2. \A e \in {out.entry, out.switch, out.interlude.switch} : e = NoEntry \/ e \in Commands
    BY DEF Keeps
  <2> QED  BY <2>1, <2>2 DEF HeldNow
<1>2. out.interlude.switch.track = NoTrack
  BY Entry DEF Keeps, Exchanges
<1>3. Undecided = {e.track : e \in HeldNow} \ {NoTrack}
  BY <1>2 DEF Undecided, HeldNow
<1>4. \A e \in HeldNow : e.track # NoTrack => e.kind \in Exchanges /\ e.track \in Tracks
  BY <1>1, Entry DEF Commands
<1> QED  BY <1>1, <1>3, <1>4

\* A step of the thread that decides D and goes on.
Passes(D, r) ==
    /\ Decided(D, r) /\ Forgotten(D)
    /\ out.pc # "Gone" /\ out'.pc # "Gone"
    /\ UNCHANGED <<slot, late>>
    /\ \/ r = "Err" /\ out'.current \in {out.current, NoTrack}
       \/ /\ r = "Ok" /\ out'.current \in Tracks
          /\ \A d \in D : d.track \in {NoTrack, out'.current}
          /\ \E d \in D : d.track = out'.current

\* A step with which the thread ends.
Ends ==
    /\ out.pc # "Gone" /\ out'.pc = "Gone"
    /\ UNCHANGED <<slot, late>> /\ out'.current = out.current
    /\ \A c \in Callers :
          /\ call'[c].kind = call[c].kind /\ call'[c].track = call[c].track
          /\ IF call[c].at = "Waiting"
             THEN /\ call'[c].at \in {"Ok", "Err"}
                  /\ call[c].kind \in Exchanges => call'[c].at = "Err"
             ELSE call'[c].at = call[c].at

\* Whoever is decided was waiting, and the command is the caller's.
LEMMA DecidedWaits ==
    ASSUME Config, Typed, Answers, NEW D, NEW r, Decided(D, r), Forgotten(D), out.pc # "Gone",
           NEW c \in Callers
    PROVE  /\ \A e \in HeldNow : e.by = c =>
                 call[c] = [at |-> "Waiting", kind |-> e.kind, track |-> e.track]
           /\ (\E d \in D : d.by = c) => call[c].at = "Waiting"
           /\ \A e \in HeldNow' : e.by = c => e \in HeldNow /\ ~\E d \in D : d.by = c
           /\ call[c].at = "Waiting" /\ (~\E d \in D : d.by = c) =>
                 \E e \in HeldNow \cap HeldNow' : e.by = c
<1>1. c # NoCaller
  BY Entry
<1>2. \A e \in HeldNow : e.by = c =>
         call[c] = [at |-> "Waiting", kind |-> e.kind, track |-> e.track]
  BY <1>1 DEF Answers, Owned
<1>3. (\E d \in D : d.by = c) => call[c].at = "Waiting"
  <2> SUFFICES ASSUME NEW d \in D, d.by = c PROVE call[c].at = "Waiting"
    OBVIOUS
  <2>1. d \in HeldNow
    BY DEF Forgotten
  <2>2. call[c] = [at |-> "Waiting", kind |-> d.kind, track |-> d.track]
    BY <1>2, <2>1
  <2> QED  BY <2>2
<1>4. \A e \in HeldNow' : e.by = c => e \in HeldNow /\ ~\E d \in D : d.by = c
  BY <1>1, Entry DEF Forgotten, Differ
<1>5. ASSUME call[c].at = "Waiting", ~\E d \in D : d.by = c
      PROVE  \E e \in HeldNow \cap HeldNow' : e.by = c
  <2>1. PICK e \in HeldNow : e.by = c
    BY <1>5 DEF Answers, Present
  <2>2. e # NoEntry /\ e \notin D
    BY <1>1, <1>5, <2>1, Entry
  <2> QED  BY <2>1, <2>2 DEF Forgotten
<1> QED  BY <1>2, <1>3, <1>4, <1>5

LEMMA PassesAnswers ==
    ASSUME Config, Typed, Typed', Answers, NEW D, NEW r \in {"Ok", "Err"}, Passes(D, r)
    PROVE  Answers'
<1>1. /\ Decided(D, r) /\ Forgotten(D) /\ out.pc # "Gone" /\ out'.pc # "Gone"
      /\ call \in [Callers -> Calls] /\ call' \in [Callers -> Calls]
  BY DEF Passes, Typed
<1>2. Apart(queue, out.entry, out.switch, out.interlude.switch)'
  BY <1>1 DEF Forgotten
<1>3. Owned(call, HeldNow)'
  <2> SUFFICES ASSUME NEW e \in HeldNow', e.by # NoCaller
               PROVE  call'[e.by] = [at |-> "Waiting", kind |-> e.kind, track |-> e.track]
    BY DEF Owned
  <2>1. e.by \in Callers
    <3>1. e \in HeldNow
      BY <1>1, Entry DEF Forgotten
    <3> QED  BY <3>1, HeldEntries
  <2>2. /\ call[e.by] = [at |-> "Waiting", kind |-> e.kind, track |-> e.track]
        /\ ~\E d \in D : d.by = e.by
    BY <1>1, <2>1, DecidedWaits
  <2>3. call'[e.by].at = "Waiting" /\ call'[e.by].kind = e.kind /\ call'[e.by].track = e.track
    BY <1>1, <2>1, <2>2 DEF Decided
  <2> QED  BY <1>1, <2>1, <2>3 DEF Calls
<1>4. Present(call, HeldNow)'
  <2> SUFFICES ASSUME NEW c \in Callers, call'[c].at = "Waiting"
               PROVE  \E e \in HeldNow' : e.by = c
    BY DEF Present
  <2>1. ~(\E d \in D : d.by = c) /\ call[c].at = "Waiting"
    BY <1>1 DEF Decided
  <2> QED  BY <1>1, <2>1, DecidedWaits
<1>5. \A c \in Callers :
         /\ call'[c].at = "Idle" => call'[c].kind = "None"
         /\ call'[c].kind \in Exchanges => call'[c].track \in Tracks /\ call'[c].at # "Joining"
  BY <1>1 DEF Decided, Answers
<1> QED  BY <1>1, <1>2, <1>3, <1>4, <1>5 DEF Answers

LEMMA EndsAnswers ==
    ASSUME Config, Typed, Answers, Ends
    PROVE  Answers'
BY DEF Ends, Answers

LEMMA PassesOneExchange ==
    ASSUME Config, Typed, Keeps, Answers, OneExchange, NEW D, NEW r \in {"Ok", "Err"}, Passes(D, r)
    PROVE  OneExchange'
<1> SUFFICES ASSUME ~late
             PROVE  /\ \A c, d \in Callers :
                          call'[c].kind \in Exchanges /\ call'[d].kind \in Exchanges => c = d
                    /\ \A e \in HeldNow' : e.kind \in AllKinds => e.by # NoCaller
                    /\ out'.current # NoTrack =>
                          \/ \E c \in Callers : call'[c].kind \in Exchanges /\ call'[c].at = "Ok"
                                                /\ out'.current = call'[c].track
                          \/ /\ out'.current = slot
                             /\ \A c \in Callers : call'[c].kind \in Exchanges => call'[c].at # "Ok"
  BY DEF OneExchange, Passes
<1>1. Decided(D, r) /\ Forgotten(D) /\ out.pc # "Gone"
  BY DEF Passes
<1>2. \A c, d \in Callers : call'[c].kind \in Exchanges /\ call'[d].kind \in Exchanges => c = d
  BY <1>1 DEF Decided, OneExchange
<1>3. \A e \in HeldNow' : e.kind \in AllKinds => e.by # NoCaller
  <2>1. NoEntry.kind \notin AllKinds
    BY DEF NoEntry, AllKinds, Exchanges, Interludes
  <2> QED  BY <1>1, <2>1 DEF Forgotten, OneExchange
<1>4. ASSUME out'.current # NoTrack, r = "Err", out'.current \in {out.current, NoTrack}
      PROVE  \/ \E c \in Callers : call'[c].kind \in Exchanges /\ call'[c].at = "Ok"
                                   /\ out'.current = call'[c].track
             \/ /\ out'.current = slot
                /\ \A c \in Callers : call'[c].kind \in Exchanges => call'[c].at # "Ok"
  <2>1. out'.current = out.current
    BY <1>4
  <2>2. CASE \E c \in Callers : call[c].kind \in Exchanges /\ call[c].at = "Ok"
                                /\ out.current = call[c].track
    <3>1. PICK c \in Callers : call[c].kind \in Exchanges /\ call[c].at = "Ok"
                               /\ out.current = call[c].track
      BY <2>2
    <3>2. ~\E d \in D : d.by = c
      BY <1>1, <3>1, DecidedWaits
    <3>3. call'[c].kind \in Exchanges /\ call'[c].at = "Ok" /\ out'.current = call'[c].track
      BY <1>1, <2>1, <3>1, <3>2 DEF Decided
    <3> QED  BY <3>3
  <2>3. CASE out.current = slot /\ \A c \in Callers : call[c].kind \in Exchanges => call[c].at # "Ok"
    BY <1>1, <1>4, <2>1, <2>3 DEF Decided
  <2> QED  BY <1>4, <2>1, <2>2, <2>3 DEF OneExchange
<1>5. ASSUME r = "Ok", out'.current \in Tracks, \E d \in D : d.track = out'.current
      PROVE  \E c \in Callers : call'[c].kind \in Exchanges /\ call'[c].at = "Ok"
                                /\ out'.current = call'[c].track
  <2>1. PICK d \in D : d.track = out'.current
    BY <1>5
  <2>2. d \in HeldNow /\ d.track # NoTrack
    BY <1>1, <1>5, <2>1, Entry DEF Forgotten
  <2>3. d.kind \in Exchanges /\ d.kind \in AllKinds
    BY <2>2, HeldCommands DEF AllKinds
  <2>4. d.by \in Callers
    BY <1>1, <2>2, <2>3, HeldEntries DEF OneExchange
  <2>5. call[d.by].kind = d.kind /\ call[d.by].track = d.track
    <3>1. call[d.by] = [at |-> "Waiting", kind |-> d.kind, track |-> d.track]
      BY <1>1, <2>2, <2>4, DecidedWaits
    <3> QED  BY <3>1
  <2>6. call'[d.by].kind = d.kind /\ call'[d.by].track = d.track /\ call'[d.by].at = "Ok"
    BY <1>1, <1>5, <2>3, <2>4, <2>5 DEF Decided
  <2> QED  BY <2>1, <2>3, <2>4, <2>6
<1> QED  BY <1>2, <1>3, <1>4, <1>5 DEF Passes

LEMMA EndsOneExchange ==
    ASSUME Config, Typed, OneExchange, Ends
    PROVE  OneExchange'
<1> SUFFICES ASSUME ~late
             PROVE  /\ \A c, d \in Callers :
                          call'[c].kind \in Exchanges /\ call'[d].kind \in Exchanges => c = d
                    /\ out'.current # NoTrack =>
                          \/ \E c \in Callers : call'[c].kind \in Exchanges /\ call'[c].at = "Ok"
                                                /\ out'.current = call'[c].track
                          \/ /\ out'.current = slot
                             /\ \A c \in Callers : call'[c].kind \in Exchanges => call'[c].at # "Ok"
  BY DEF OneExchange, Ends
<1>1. \A c \in Callers : call'[c].kind = call[c].kind /\ call'[c].track = call[c].track
                         /\ (call[c].at = "Ok" => call'[c].at = "Ok")
                         /\ (call[c].kind \in Exchanges /\ call[c].at # "Ok" => call'[c].at # "Ok")
  BY DEF Ends
<1> QED  BY <1>1 DEF OneExchange, Ends
-----------------------------------------------------------------------------
(* The steps as those of AudioOutput *)

\* What AudioOutput sees of the calls.
Told(cs) == [c \in Callers |-> IF cs[c].kind \in Exchanges
                               THEN [at |-> cs[c].at, track |-> cs[c].track]
                               ELSE [at |-> "None", track |-> NoTrack]]

\* The callers of the tracks S hear the result r.
LEMMA PassesHeard ==
    ASSUME Config, Typed, Keeps, Answers, NEW D, NEW r \in {"Ok", "Err"}, Decided(D, r),
           Forgotten(D), out.pc # "Gone", NEW S, S = {d.track : d \in D} \ {NoTrack}
    PROVE  \A c \in Callers :
              Told(call')[c] = IF Told(call)[c].at = "Waiting" /\ Told(call)[c].track \in S
                               THEN [Told(call)[c] EXCEPT !.at = r] ELSE Told(call)[c]
<1> SUFFICES ASSUME NEW c \in Callers
             PROVE  Told(call')[c] = IF Told(call)[c].at = "Waiting" /\ Told(call)[c].track \in S
                                     THEN [Told(call)[c] EXCEPT !.at = r] ELSE Told(call)[c]
  BY DEF Told
<1>1. call'[c].kind = call[c].kind /\ call'[c].track = call[c].track
  BY DEF Decided
<1>2. CASE call[c].kind \notin Exchanges
  BY <1>1, <1>2 DEF Told
<1>3. CASE call[c].kind \in Exchanges
  <2>1. Told(call)[c] = [at |-> call[c].at, track |-> call[c].track]
        /\ Told(call')[c] = [at |-> call'[c].at, track |-> call[c].track]
    BY <1>1, <1>3 DEF Told
  <2>2. call[c].track \in Tracks
    BY <1>3 DEF Answers
  <2>3. ASSUME NEW d \in D, d.by = c
        PROVE  call[c].at = "Waiting" /\ call[c].track \in S /\ call'[c].at = r
    <3>0. d \in HeldNow
      BY DEF Forgotten
    <3>4. call[c].at = "Waiting"
      BY <2>3, DecidedWaits
    <3>5. call'[c].at = r
      BY <1>3, <2>3 DEF Decided
    <3>1. d \in HeldNow /\ call[c].at = "Waiting" /\ call'[c].at = r
      BY <3>0, <3>4, <3>5
    <3>2. call[c] = [at |-> "Waiting", kind |-> d.kind, track |-> d.track]
      BY <2>3, <3>1, DecidedWaits
    <3>3. d.track # NoTrack /\ call[c].track = d.track
      BY <2>2, <3>2, Entry
    <3> QED  BY <3>1, <3>3
  <2>4. ASSUME call[c].at = "Waiting", call[c].track \in S, ~\E d \in D : d.by = c
        PROVE  FALSE
    <3>1. PICK e \in HeldNow \cap HeldNow' : e.by = c
      BY <2>4, DecidedWaits
    <3>2. call[c] = [at |-> "Waiting", kind |-> e.kind, track |-> e.track]
      BY <3>1, DecidedWaits
    <3>3. PICK d \in D : d.track = call[c].track
      BY <2>4
    <3>4. d.track # NoTrack /\ d.track = e.track
      BY <2>2, <3>2, <3>3, Entry
    <3> QED  BY <3>1, <3>4 DEF Forgotten, Differ
  <2>5. (~\E d \in D : d.by = c) => call'[c].at = call[c].at
    BY DEF Decided
  <2> QED  BY <2>1, <2>3, <2>4, <2>5
<1> QED  BY <1>2, <1>3

LEMMA PassesUndecided ==
    ASSUME Config, Typed, Typed', Keeps, Keeps', NEW D, Forgotten(D), NEW S,
           S = {d.track : d \in D} \ {NoTrack}
    PROVE  S \subseteq Undecided /\ Undecided' = Undecided \ S
<1>1. Undecided = {e.track : e \in HeldNow} \ {NoTrack}
  BY HeldCommands
<1>2. Undecided' = {e.track : e \in HeldNow'} \ {NoTrack}
  <2>1. (out.interlude.switch.track = NoTrack)'
    BY Entry DEF Keeps, Exchanges
  <2> QED  BY <2>1 DEF Undecided, HeldNow
<1>3. S \subseteq Undecided
  BY <1>1 DEF Forgotten
<1>4. ASSUME NEW t \in Undecided' PROVE t \in Undecided \ S
  <2>1. PICK e \in HeldNow' : e.track = t /\ t # NoTrack
    BY <1>2
  <2>2. e \in HeldNow /\ \A d \in D : d.track # t
    BY <2>1, Entry DEF Forgotten, Differ
  <2> QED  BY <1>1, <2>1, <2>2
<1>5. ASSUME NEW t \in Undecided \ S PROVE t \in Undecided'
  <2>1. PICK e \in HeldNow : e.track = t /\ t # NoTrack
    BY <1>1
  <2>2. e \in HeldNow'
    BY <1>5, <2>1, Entry DEF Forgotten
  <2> QED  BY <1>2, <2>1, <2>2
<1> QED  BY <1>3, <1>4, <1>5

LEMMA PassesRefine ==
    ASSUME Config, Typed, Typed', Keeps, Keeps', Answers, NEW D, NEW r \in {"Ok", "Err"},
           Passes(D, r)
    PROVE  Abstract!OutputNext
<1>1. Decided(D, r) /\ Forgotten(D) /\ out.pc # "Gone" /\ out'.pc # "Gone"
  BY DEF Passes
<1>2. PICK S : S = {d.track : d \in D} \ {NoTrack}
  OBVIOUS
<1>3. S \subseteq Undecided /\ Undecided' = Undecided \ S
  BY <1>1, <1>2, PassesUndecided
<1>4. Told(call') = [c \in Callers |->
                        IF Told(call)[c].at = "Waiting" /\ Told(call)[c].track \in S
                        THEN [Told(call)[c] EXCEPT !.at = r] ELSE Told(call)[c]]
  <2>1. \A c \in Callers :
           Told(call')[c] = IF Told(call)[c].at = "Waiting" /\ Told(call)[c].track \in S
                            THEN [Told(call)[c] EXCEPT !.at = r] ELSE Told(call)[c]
    BY <1>1, <1>2, PassesHeard
  <2> QED  BY <2>1 DEF Told
<1>5. CASE r = "Err" /\ out'.current = out.current
  <2>1. Abstract!Refuses(S)
    BY <1>1, <1>3, <1>4, <1>5 DEF Abstract!Refuses, Abstract!Heard, Told
  <2>2. S \in SUBSET (IF out.pc = "Gone" THEN {} ELSE Undecided)
    BY <1>1, <1>3
  <2> QED  BY <2>1, <2>2 DEF Abstract!OutputNext
<1>6. CASE r = "Err" /\ out'.current = NoTrack
  <2>1. Abstract!Silences(S)
    BY <1>1, <1>3, <1>4, <1>6 DEF Abstract!Silences, Abstract!Heard, Abstract!NoTrack, NoTrack, Told
  <2>2. S \in SUBSET (IF out.pc = "Gone" THEN {} ELSE Undecided)
    BY <1>1, <1>3
  <2> QED  BY <2>1, <2>2 DEF Abstract!OutputNext
<1>7. CASE /\ r = "Ok" /\ out'.current \in Tracks
           /\ \A d \in D : d.track \in {NoTrack, out'.current}
           /\ \E d \in D : d.track = out'.current
  <2>1. PICK t \in Tracks : t = out'.current
    BY <1>7
  <2>2. S = {t}
    BY <1>2, <1>7, <2>1, Entry
  <2>3. Abstract!Plays(t)
    BY <1>1, <1>3, <1>4, <1>7, <2>1, <2>2 DEF Abstract!Plays, Abstract!Heard, Told
  <2> QED  BY <2>1, <2>3 DEF Abstract!OutputNext
<1> QED  BY <1>5, <1>6, <1>7 DEF Passes

LEMMA EndsRefine ==
    ASSUME Config, Typed, Keeps, Answers, Ends
    PROVE  Abstract!OutputNext
<1>1. Told(call') = [c \in Callers |->
                        IF Told(call)[c].at = "Waiting" /\ Told(call)[c].track \in Undecided
                        THEN [Told(call)[c] EXCEPT !.at = "Err"] ELSE Told(call)[c]]
  <2> SUFFICES ASSUME NEW c \in Callers
               PROVE  Told(call')[c] =
                          IF Told(call)[c].at = "Waiting" /\ Told(call)[c].track \in Undecided
                          THEN [Told(call)[c] EXCEPT !.at = "Err"] ELSE Told(call)[c]
    BY DEF Told
  <2>1. call'[c].kind = call[c].kind /\ call'[c].track = call[c].track
    BY DEF Ends
  <2>2. CASE call[c].kind \notin Exchanges
    BY <2>1, <2>2 DEF Told
  <2>3. CASE call[c].kind \in Exchanges /\ call[c].at # "Waiting"
    BY <2>1, <2>3 DEF Told, Ends
  <2>4. CASE call[c].kind \in Exchanges /\ call[c].at = "Waiting"
    <3>1. PICK e \in HeldNow : e.by = c
      BY <2>4 DEF Answers, Ends, Present
    <3>2. call[c] = [at |-> "Waiting", kind |-> e.kind, track |-> e.track]
      BY <3>1, Entry DEF Answers, Ends, Owned
    <3>3. call[c].track \in Tracks /\ call[c].track = e.track
      BY <2>4, <3>2 DEF Answers
    <3>4. call[c].track \in Undecided
      BY <3>3, HeldCommands, Entry
    <3>5. call'[c].at = "Err"
      BY <2>4 DEF Ends
    <3> QED  BY <2>1, <2>4, <3>4, <3>5 DEF Told
  <2> QED  BY <2>2, <2>3, <2>4
<1>2. PICK S : S = Undecided
  OBVIOUS
<1>3. Abstract!Silences(S)
  BY <1>1, <1>2 DEF Ends, Abstract!Silences, Abstract!Heard, Abstract!NoTrack, NoTrack, Told
<1>4. S \in SUBSET (IF out.pc = "Gone" THEN {} ELSE Undecided)
  BY <1>2 DEF Ends
<1> QED  BY <1>3, <1>4 DEF Abstract!OutputNext
-----------------------------------------------------------------------------
(* The steps of the thread: each decides some commands, or ends the thread *)

\* Two commands are answered, each as the exchange that it may be.
LEMMA DecidedTwice ==
    ASSUME Config, Typed, Answers, out.pc # "Gone", NEW e \in HeldNow \cup {NoEntry},
           NEW f \in HeldNow \cup {NoEntry}, NEW x \in {"Ok", "Err"}, NEW y \in {"Ok", "Err"},
           NEW r, e.kind \in Exchanges => x = r, f.kind \in Exchanges => y = r,
           e.by # NoCaller => e.by # f.by,
           call' = Answered(Answered(call, e, x), f, y),
           NEW D, D \subseteq {e, f, NoEntry}, {e, f} \subseteq D \cup {NoEntry}
    PROVE  Decided(D, r)
<1>1. e \in Entries /\ f \in Entries /\ NoEntry.by = NoCaller /\ NoCaller \notin Callers
  BY HeldEntries, Entry
<1>2. call \in [Callers -> Calls]
  BY DEF Typed
<1>3. /\ Answered(call, e, x) \in [Callers -> Calls]
      /\ \A c \in Callers : Answered(call, e, x)[c] =
            IF e.by = c THEN [call[c] EXCEPT !.at = x] ELSE call[c]
  BY <1>1, <1>2, AnsweredCalls
<1>4. \A c \in Callers : call'[c] =
         IF f.by = c THEN [Answered(call, e, x)[c] EXCEPT !.at = y] ELSE Answered(call, e, x)[c]
  BY <1>1, <1>3, AnsweredCalls
<1> SUFFICES ASSUME NEW c \in Callers
             PROVE  /\ call'[c].kind = call[c].kind /\ call'[c].track = call[c].track
                    /\ IF \E d \in D : d.by = c
                       THEN /\ call'[c].at \in {"Ok", "Err"}
                            /\ call[c].kind \in Exchanges => call'[c].at = r
                       ELSE call'[c].at = call[c].at
  BY DEF Decided
<1>5. (\E d \in D : d.by = c) <=> (e.by = c \/ f.by = c)
  BY <1>1
<1>6. \A g \in {e, f} : g.by = c => call[c].kind = g.kind
  <2> SUFFICES ASSUME NEW g \in {e, f}, g.by = c PROVE call[c].kind = g.kind
    OBVIOUS
  <2>1. g \in HeldNow
    BY <1>1
  <2>2. call[c] = [at |-> "Waiting", kind |-> g.kind, track |-> g.track]
    BY <1>1, <2>1 DEF Answers, Owned
  <2> QED  BY <2>2
<1>7. call[c] \in Calls
  BY <1>2
<1>8. CASE f.by = c
  <2>1. e.by # c
    BY <1>1, <1>8
  <2>2. call'[c] = [call[c] EXCEPT !.at = y]
    BY <1>3, <1>4, <1>8, <2>1
  <2>3. call'[c].at = y /\ call'[c].kind = call[c].kind /\ call'[c].track = call[c].track
    BY <1>7, <2>2 DEF Calls
  <2> QED  BY <1>5, <1>6, <1>8, <2>3
<1>9. CASE f.by # c /\ e.by = c
  <2>2. call'[c] = [call[c] EXCEPT !.at = x]
    BY <1>3, <1>4, <1>9
  <2>3. call'[c].at = x /\ call'[c].kind = call[c].kind /\ call'[c].track = call[c].track
    BY <1>7, <2>2 DEF Calls
  <2> QED  BY <1>5, <1>6, <1>9, <2>3
<1>10. CASE f.by # c /\ e.by # c
  <2>1. call'[c] = call[c]
    BY <1>3, <1>4, <1>10
  <2> QED  BY <1>5, <1>10, <2>1
<1> QED  BY <1>8, <1>9, <1>10

\* A handler that answers its command, and s if that is set aside.
LEMMA HandlerAnswers ==
    ASSUME Config, Typed, Answers, NEW k, Handles(k), NEW s \in HeldNow \cup {NoEntry},
           NEW x \in {"Ok", "Err"}, x = "Err" \/ k \notin Exchanges,
           call' = Answered(Answered(call, s, "Err"), Hd, x),
           out'.pc = "Loop", UNCHANGED <<slot, late>>, out'.current = out.current,
           out'.entry \in {out.entry, NoEntry}, out'.switch \in {out.switch, NoEntry},
           out'.interlude.switch \in {out.interlude.switch, NoEntry},
           s \in {NoEntry, out.entry, out.switch, out.interlude.switch},
           Released \subseteq {s, NoEntry}, s \in Released \cup {NoEntry}
    PROVE  \E D : Passes(D, "Err")
<1>1. /\ out.pc = "Loop" /\ Hd.kind = k /\ Hd \in Commands /\ queue # <<>> /\ queue' = Tail(queue)
      /\ Apart(queue, out.entry, out.switch, out.interlude.switch)
  BY Handled DEF Answers
<1>2. PICK D : D = {Hd} \cup Released
  OBVIOUS
<1>3. Forgotten(D)
  BY <1>1, <1>2, HandledAtOnce
<1>4. Hd \in HeldNow
  BY <1>2, <1>3 DEF Forgotten
<1>5. \A g \in {NoEntry, out.entry, out.switch, out.interlude.switch} :
         g.by # NoCaller => g.by # Hd.by
  BY <1>1, HeldEntries, ChannelTail, Entry DEF Differ, Hd
<1>6. Decided(D, "Err")
  <2>1. s.kind \in Exchanges => "Err" = "Err"
    OBVIOUS
  <2>2. Hd.kind \in Exchanges => x = "Err"
    BY <1>1
  <2>3. D \subseteq {s, Hd, NoEntry} /\ {s, Hd} \subseteq D \cup {NoEntry}
    BY <1>2
  <2>4. PICK h : h = Hd
    OBVIOUS
  <2> QED  BY <1>1, <1>4, <1>5, <2>2, <2>3, <2>4, DecidedTwice
<1>7. Passes(D, "Err")
  BY <1>1, <1>3, <1>6 DEF Passes
<1> QED  BY <1>7

\* A handler that keeps its command for later, and answers s.
LEMMA HandlerKeeps ==
    ASSUME Config, Typed, Answers, NEW k, Handles(k), NEW s \in HeldNow \cup {NoEntry},
           call' = Answered(Answered(call, s, "Err"), NoEntry, "Err"),
           out'.pc # "Gone", UNCHANGED <<slot, late>>, out'.current \in {out.current, NoTrack},
           \/ /\ out'.entry = Hd /\ out.entry = NoEntry
              /\ out'.switch \in {out.switch, NoEntry}
              /\ out'.interlude.switch \in {out.interlude.switch, NoEntry}
           \/ /\ out'.switch = Hd /\ out.switch = NoEntry
              /\ out'.entry \in {out.entry, NoEntry}
              /\ out'.interlude.switch \in {out.interlude.switch, NoEntry}
           \/ /\ out'.interlude.switch = Hd /\ out.interlude.switch = NoEntry
              /\ out'.entry \in {out.entry, NoEntry} /\ out'.switch \in {out.switch, NoEntry},
           Released \subseteq {s, NoEntry}, s \in Released \cup {NoEntry}
    PROVE  \E D : Passes(D, "Err")
<1>1. /\ out.pc = "Loop" /\ queue # <<>> /\ queue' = Tail(queue)
      /\ Apart(queue, out.entry, out.switch, out.interlude.switch)
  BY Handled DEF Answers
<1>2. PICK D : D = Released
  OBVIOUS
<1>3. Forgotten(D)
  BY <1>1, <1>2, HandledLater
<1>4. Decided(D, "Err")
  <2>1. D \subseteq {s, NoEntry} /\ {s, NoEntry} \subseteq D \cup {NoEntry}
    BY <1>2
  <2>2. PICK n : n = NoEntry
    OBVIOUS
  <2>3. s.by # NoCaller => s.by # n.by
    BY <2>2, Entry
  <2> QED  BY <1>1, <2>1, <2>2, <2>3, DecidedTwice
<1>5. Passes(D, "Err")
  BY <1>1, <1>3, <1>4 DEF Passes
<1> QED  BY <1>5

\* A step without a command of the channel that answers e and i.
LEMMA StepAnswers ==
    ASSUME Config, Typed, Answers, out.pc # "Gone", out'.pc # "Gone", queue' = queue,
           UNCHANGED <<slot, late>>,
           NEW e \in HeldNow \cup {NoEntry}, NEW i \in HeldNow \cup {NoEntry},
           NEW x \in {"Ok", "Err"}, NEW y \in {"Ok", "Err"}, NEW r \in {"Ok", "Err"},
           i.kind \notin Exchanges, i.track = NoTrack, e.kind \in Exchanges => y = r,
           i.by # NoCaller => i.by # e.by,
           call' = Answered(Answered(call, i, x), e, y),
           out'.entry \in {out.entry, NoEntry}, out'.switch \in {out.switch, NoEntry},
           out'.interlude.switch \in {out.interlude.switch, NoEntry},
           Released \subseteq {e, i, NoEntry}, {e, i} \subseteq Released \cup {NoEntry},
           \/ r = "Err" /\ out'.current \in {out.current, NoTrack}
           \/ r = "Ok" /\ out'.current \in Tracks /\ e.track = out'.current
    PROVE  \E D : Passes(D, r)
<1>1. Apart(queue, out.entry, out.switch, out.interlude.switch)
  BY DEF Answers
<1>2. PICK D : D = Released
  OBVIOUS
<1>3. Forgotten(D)
  BY <1>1, <1>2, NothingHandled
<1>4. Decided(D, r)
  <2>1. D \subseteq {i, e, NoEntry} /\ {i, e} \subseteq D \cup {NoEntry}
    BY <1>2
  <2> QED  BY <2>1, DecidedTwice
<1>5. ASSUME r = "Ok", out'.current \in Tracks, e.track = out'.current
      PROVE  (\A d \in D : d.track \in {NoTrack, out'.current}) /\ \E d \in D : d.track = out'.current
  BY <1>2, <1>5, Entry
<1>6. Passes(D, r)
  BY <1>3, <1>4, <1>5 DEF Passes
<1> QED  BY <1>6
-----------------------------------------------------------------------------
(* Every action of the thread decides *)

Decides == (\E D : Passes(D, "Err")) \/ (\E D : Passes(D, "Ok")) \/ Ends

LEMMA NoAnswer ==
    ASSUME Config
    PROVE  \A cs, x : Answered(cs, NoEntry, x) = cs
BY Entry DEF Answered

\* What Typed says of the thread's places.
LEMMA Places ==
    ASSUME Config, Typed
    PROVE  /\ out \in Threads /\ call \in [Callers -> Calls]
           /\ out.interlude \in Inserts
           /\ out.entry \in HeldNow /\ out.switch \in HeldNow /\ out.interlude.switch \in HeldNow
           /\ NoEntry \in HeldNow \cup {NoEntry}
BY DEF Typed, Threads, HeldNow

\* Only an exchange of the track can be an entry that waits for the ring or a candidate.
LEMMA DecideTrack ==
    ASSUME Config, Typed, Keeps, Answers,
           HandleAdjust \/ HandleSetCurrent \/ HandleCrossfadeTo \/ HandleTone
    PROVE  Decides
<1>1. /\ out \in Threads /\ out.interlude \in Inserts /\ out.switch \in HeldNow
      /\ \A cs, x : Answered(cs, NoEntry, x) = cs
  BY Places, NoAnswer
<1>2. CASE HandleAdjust
  <2>1. Handles("Adjust") /\ out' = out /\ UNCHANGED <<slot, late>>
        /\ call' = Answered(Answered(call, NoEntry, "Err"), Hd, "Ok")
    BY <1>1, <1>2 DEF HandleAdjust
  <2>2. out.pc = "Loop" /\ "Adjust" \notin Exchanges
    BY <2>1, Handled DEF Exchanges
  <2>3. Released = {}
    BY <2>1 DEF Released
  <2> QED  BY <2>1, <2>2, <2>3, HandlerAnswers DEF Decides
<1>3. CASE HandleSetCurrent
  <2>1. Handles("SetCurrent") /\ UNCHANGED <<slot, late>> /\ out.pc = "Loop" /\ out.entry = NoEntry
    BY <1>3, Handled DEF HandleSetCurrent, Keeps
  <2>2. CASE Available(Hd.track) < Watermark
    <3>1. out' = [out EXCEPT !.switch = NoEntry, !.pending = <<>>, !.tone = NoTone]
          /\ call' = Answered(Answered(call, out.switch, "Err"), Hd, "Err")
      BY <1>3, <2>2 DEF HandleSetCurrent
    <3>2. /\ out'.pc = "Loop" /\ out'.entry = out.entry /\ out'.switch = NoEntry
          /\ out'.interlude = out.interlude /\ out'.current = out.current
      BY <1>1, <2>1, <3>1 DEF Threads
    <3>3. Released \subseteq {out.switch, NoEntry} /\ out.switch \in Released \cup {NoEntry}
      BY <3>2 DEF Released
    <3> QED  BY <1>1, <2>1, <3>1, <3>2, <3>3, HandlerAnswers DEF Decides
  <2>3. CASE ~(Available(Hd.track) < Watermark)
    <3>1. out' = [out EXCEPT !.switch = NoEntry, !.pending = <<>>, !.tone = NoTone,
                             !.paused = TRUE, !.pc = "Clearing", !.entry = Hd]
          /\ call' = Answered(Answered(call, out.switch, "Err"), NoEntry, "Err")
      BY <1>1, <1>3, <2>3 DEF HandleSetCurrent
    <3>2. /\ out'.pc = "Clearing" /\ out'.entry = Hd /\ out'.switch = NoEntry
          /\ out'.interlude = out.interlude /\ out'.current = out.current
      <4> HIDE DEF Hd
      <4> QED  BY <1>1, <2>1, <3>1 DEF Threads
    <3>3. Released \subseteq {out.switch, NoEntry} /\ out.switch \in Released \cup {NoEntry}
      BY <2>1, <3>2 DEF Released
    <3> QED  BY <1>1, <2>1, <3>1, <3>2, <3>3, HandlerKeeps DEF Decides
  <2> QED  BY <2>2, <2>3
<1>4. CASE HandleCrossfadeTo
  <2>1. Handles("CrossfadeTo") /\ UNCHANGED <<slot, late>> /\ out.pc = "Loop" /\ out.entry = NoEntry
    BY <1>4, Handled DEF HandleCrossfadeTo, Keeps
  <2>2. CASE out' = out /\ call' = Answered(call, Hd, "Err")
    <3>1. Released = {} /\ call' = Answered(Answered(call, NoEntry, "Err"), Hd, "Err")
      BY <1>1, <2>2 DEF Released
    <3> QED  BY <1>1, <2>1, <2>2, <3>1, HandlerAnswers DEF Decides
  <2>3. CASE out' = [out EXCEPT !.switch = Hd] /\ call' = call /\ out.switch = NoEntry
    <3>1. call' = Answered(Answered(call, NoEntry, "Err"), NoEntry, "Err")
      BY <1>1, <2>3
    <3>2. /\ out'.pc = "Loop" /\ out'.entry = out.entry /\ out'.switch = Hd
          /\ out'.interlude = out.interlude /\ out'.current = out.current
      <4> HIDE DEF Hd
      <4> QED  BY <1>1, <2>1, <2>3 DEF Threads
    <3>3. Released \subseteq {NoEntry, NoEntry}
      BY <2>3, <3>2 DEF Released
    <3> QED  BY <1>1, <2>1, <2>3, <3>1, <3>2, <3>3, HandlerKeeps DEF Decides
  <2> QED  BY <1>4, <2>2, <2>3 DEF HandleCrossfadeTo
<1>5. CASE HandleTone
  <2>1. Handles("Tone") /\ UNCHANGED <<slot, late>> /\ out.pc = "Loop" /\ out.entry = NoEntry
    BY <1>5, Handled DEF HandleTone, Keeps
  <2>2. CASE out' = out /\ call' = Answered(call, Hd, "Err")
    <3>1. Released = {} /\ call' = Answered(Answered(call, NoEntry, "Err"), Hd, "Err")
      BY <1>1, <2>2 DEF Released
    <3> QED  BY <1>1, <2>1, <2>2, <3>1, HandlerAnswers DEF Decides
  <2>3. CASE out' = [out EXCEPT !.pending = <<>>, !.pc = "Clearing", !.entry = Hd] /\ call' = call
    <3>1. call' = Answered(Answered(call, NoEntry, "Err"), NoEntry, "Err")
      BY <1>1, <2>3
    <3>2. /\ out'.pc = "Clearing" /\ out'.entry = Hd /\ out'.switch = out.switch
          /\ out'.interlude = out.interlude /\ out'.current = out.current
      <4> HIDE DEF Hd
      <4> QED  BY <1>1, <2>1, <2>3 DEF Threads
    <3>3. Released \subseteq {NoEntry, NoEntry}
      BY <2>1, <3>2 DEF Released
    <3> QED  BY <1>1, <2>1, <2>3, <3>1, <3>2, <3>3, HandlerKeeps DEF Decides
  <2> QED  BY <1>5, <2>2, <2>3 DEF HandleTone
<1> QED  BY <1>2, <1>3, <1>4, <1>5

LEMMA DecideInsert ==
    ASSUME Config, Typed, Keeps, Answers,
           HandleStartInterlude \/ HandleCrossfadeInterlude \/ HandleInterludeMode
    PROVE  Decides
<1>1. /\ out \in Threads /\ out.interlude \in Inserts /\ out.interlude.switch \in HeldNow
      /\ \A cs, x : Answered(cs, NoEntry, x) = cs
  BY Places, NoAnswer
<1>2. PICK k \in AllKinds : Handles(k) /\ k \notin Exchanges
  BY DEF HandleStartInterlude, HandleCrossfadeInterlude, HandleInterludeMode, InterludeMode,
         AllKinds, Interludes, Exchanges
<1>3. out.pc = "Loop" /\ out.entry = NoEntry /\ UNCHANGED <<slot, late>>
  BY <1>2, Handled DEF HandleStartInterlude, HandleCrossfadeInterlude, HandleInterludeMode, Keeps
<1>4. ASSUME out' = out, NEW x \in {"Ok", "Err"}, call' = Answered(call, Hd, x)
      PROVE  Decides
  <2>1. Released = {} /\ call' = Answered(Answered(call, NoEntry, "Err"), Hd, x)
    BY <1>1, <1>4 DEF Released
  <2> QED  BY <1>1, <1>2, <1>3, <1>4, <2>1, HandlerAnswers DEF Decides
<1>5. ASSUME NEW i \in Inserts, out' = [out EXCEPT !.interlude = i],
             NEW s \in {NoEntry, out.interlude.switch},
             i.switch = (IF s = NoEntry THEN out.interlude.switch ELSE NoEntry),
             call' = Answered(Answered(call, s, "Err"), Hd, "Ok")
      PROVE  Decides
  <2>1. /\ out'.pc = "Loop" /\ out'.entry = out.entry /\ out'.switch = out.switch
        /\ out'.interlude = i /\ out'.current = out.current
    BY <1>1, <1>3, <1>5 DEF Threads
  <2>2. Released \subseteq {s, NoEntry} /\ s \in Released \cup {NoEntry}
    BY <1>5, <2>1 DEF Released
  <2>3. i.switch \in {out.interlude.switch, NoEntry} /\ s \in HeldNow \cup {NoEntry}
    BY <1>1, <1>5
  <2> QED  BY <1>2, <1>3, <1>5, <2>1, <2>2, <2>3, HandlerAnswers DEF Decides
<1>6. CASE HandleStartInterlude
  <2>1. CASE /\ out' = [out EXCEPT !.interlude = [mode |-> "On", switch |-> NoEntry]]
             /\ call' = Answered(Answered(call, out.interlude.switch, "Err"), Hd, "Ok")
    <3>1. [mode |-> "On", switch |-> NoEntry] \in Inserts
      BY Entry DEF Inserts
    <3>2. PICK i \in Inserts : i = [mode |-> "On", switch |-> NoEntry]
      BY <3>1
    <3>3. i.switch = NoEntry /\ out' = [out EXCEPT !.interlude = i]
      BY <2>1, <3>2
    <3> QED  BY <1>5, <2>1, <3>3
  <2> QED  BY <1>4, <1>6, <2>1 DEF HandleStartInterlude
<1>7. CASE HandleCrossfadeInterlude
  <2>1. CASE /\ out.interlude.switch = NoEntry
             /\ out' = [out EXCEPT !.interlude.switch = Hd] /\ call' = call
    <3>1. call' = Answered(Answered(call, NoEntry, "Err"), NoEntry, "Err")
      BY <1>1, <2>1
    <3>2. /\ out'.pc = "Loop" /\ out'.entry = out.entry /\ out'.switch = out.switch
          /\ out'.interlude.switch = Hd /\ out'.current = out.current
      <4> HIDE DEF Hd
      <4> QED  BY <1>1, <1>3, <2>1 DEF Threads, Inserts
    <3>3. Released \subseteq {NoEntry, NoEntry}
      BY <2>1, <3>2 DEF Released
    <3> QED  BY <1>1, <1>2, <1>3, <2>1, <3>1, <3>2, <3>3, HandlerKeeps DEF Decides
  <2> QED  BY <1>4, <1>7, <2>1 DEF HandleCrossfadeInterlude
<1>8. CASE HandleInterludeMode
  <2>1. PICK l \in DOMAIN InterludeMode :
           IF out.interlude.mode = "None"
           THEN call' = Answered(call, Hd, "Ok") /\ UNCHANGED out
           ELSE /\ out' = [out EXCEPT !.interlude =
                              [mode   |-> InterludeMode[l],
                               switch |-> IF l = "ResumeInterlude" THEN out.interlude.switch
                                          ELSE NoEntry]]
                /\ call' = Answered(IF l = "ResumeInterlude" THEN call
                                    ELSE Answered(call, out.interlude.switch, "Err"), Hd, "Ok")
    BY <1>8 DEF HandleInterludeMode
  <2>2. CASE out.interlude.mode = "None"
    BY <1>4, <2>1, <2>2
  <2>3. CASE out.interlude.mode # "None"
    <3>1. PICK s : s = IF l = "ResumeInterlude" THEN NoEntry ELSE out.interlude.switch
      OBVIOUS
    <3>2. PICK i : i = [mode   |-> InterludeMode[l],
                        switch |-> IF l = "ResumeInterlude" THEN out.interlude.switch ELSE NoEntry]
      OBVIOUS
    <3>3. i \in Inserts
      BY <1>1, <3>2, Entry DEF Inserts, InterludeMode
    <3>4. i.switch = (IF s = NoEntry THEN out.interlude.switch ELSE NoEntry)
      BY <3>1, <3>2
    <3>5. out' = [out EXCEPT !.interlude = i]
      BY <2>1, <2>3, <3>2
    <3>6. call' = Answered(Answered(call, s, "Err"), Hd, "Ok")
      BY <1>1, <2>1, <2>3, <3>1
    <3> QED  BY <1>5, <3>1, <3>3, <3>4, <3>5, <3>6
  <2> QED  BY <2>2, <2>3
<1> QED  BY <1>6, <1>7, <1>8

LEMMA DecideStream ==
    ASSUME Config, Typed, Keeps, Answers,
           HandleEnableMic \/ HandleDisableMic \/ HandlePause \/ HandleResume
    PROVE  Decides
<1>1. /\ out \in Threads /\ out.interlude \in Inserts /\ out.switch \in HeldNow
      /\ \A cs, x : Answered(cs, NoEntry, x) = cs
  BY Places, NoAnswer
<1>2. PICK k \in AllKinds : Handles(k) /\ k \notin Exchanges
  <2>1. Handles("EnableMic") \/ Handles("DisableMic") \/ Handles("Pause") \/ Handles("Resume")
    BY DEF HandleEnableMic, HandleDisableMic, HandlePause, HandleResume
  <2>2. {"EnableMic", "DisableMic", "Pause", "Resume"} \subseteq AllKinds \ Exchanges
    BY DEF AllKinds, Exchanges
  <2> QED  BY <2>1, <2>2
<1>3. out.pc = "Loop" /\ out.entry = NoEntry /\ UNCHANGED <<slot, late>>
  BY <1>2, Handled DEF HandleEnableMic, HandleDisableMic, HandlePause, HandleResume, Keeps
<1>4. ASSUME out'.pc = "Loop", out'.entry = out.entry, out'.switch = out.switch,
             out'.interlude = out.interlude, out'.current = out.current,
             NEW x \in {"Ok", "Err"}, call' = Answered(call, Hd, x)
      PROVE  Decides
  <2>1. Released = {} /\ call' = Answered(Answered(call, NoEntry, "Err"), Hd, x)
    BY <1>1, <1>4 DEF Released
  <2> QED  BY <1>1, <1>2, <1>3, <1>4, <2>1, HandlerAnswers DEF Decides
<1>5. CASE HandleEnableMic
  <2>1. out' = out \/ out' = [out EXCEPT !.bridge = "Held"]
    BY <1>5 DEF HandleEnableMic
  <2>2. \E x \in {"Ok", "Err"} : call' = Answered(call, Hd, x)
    BY <1>5 DEF HandleEnableMic
  <2>3. /\ out'.pc = "Loop" /\ out'.entry = out.entry /\ out'.switch = out.switch
        /\ out'.interlude = out.interlude /\ out'.current = out.current
    BY <1>1, <1>3, <2>1 DEF Threads
  <2> QED  BY <1>4, <2>2, <2>3
<1>6. CASE HandleDisableMic
  <2>1. out' = [out EXCEPT !.bridge = "None"]
    BY <1>6 DEF HandleDisableMic
  <2>2. \E x \in {"Ok", "Err"} : call' = Answered(call, Hd, x)
    BY <1>6 DEF HandleDisableMic
  <2>3. /\ out'.pc = "Loop" /\ out'.entry = out.entry /\ out'.switch = out.switch
        /\ out'.interlude = out.interlude /\ out'.current = out.current
    BY <1>1, <1>3, <2>1 DEF Threads
  <2> QED  BY <1>4, <2>2, <2>3
<1>7. CASE HandlePause
  <2>1. /\ out' = [out EXCEPT !.switch = NoEntry, !.paused = TRUE]
        /\ call' = Answered(Answered(call, out.switch, "Err"), Hd, "Ok")
    BY <1>7 DEF HandlePause
  <2>2. /\ out'.pc = "Loop" /\ out'.entry = out.entry /\ out'.switch = NoEntry
        /\ out'.interlude = out.interlude /\ out'.current = out.current
    BY <1>1, <1>3, <2>1 DEF Threads
  <2>3. Released \subseteq {out.switch, NoEntry} /\ out.switch \in Released \cup {NoEntry}
    BY <2>2 DEF Released
  <2> QED  BY <1>1, <1>2, <1>3, <2>1, <2>2, <2>3, HandlerAnswers DEF Decides
<1>8. CASE HandleResume
  <2>1. out' = out \/ out' = [out EXCEPT !.paused = FALSE]
    BY <1>8 DEF HandleResume
  <2>2. \E x \in {"Ok", "Err"} : call' = Answered(call, Hd, x)
    BY <1>8 DEF HandleResume
  <2>3. /\ out'.pc = "Loop" /\ out'.entry = out.entry /\ out'.switch = out.switch
        /\ out'.interlude = out.interlude /\ out'.current = out.current
    BY <1>1, <1>3, <2>1 DEF Threads
  <2> QED  BY <1>4, <2>2, <2>3
<1> QED  BY <1>5, <1>6, <1>7, <1>8

\* A command that silences the output.
LEMMA DecideClear ==
    ASSUME Config, Typed, Keeps, Answers, HandleClear
    PROVE  Decides
<1>1. /\ out \in Threads /\ out.interlude \in Inserts /\ call \in [Callers -> Calls]
      /\ out.switch \in HeldNow /\ out.interlude.switch \in HeldNow
  BY Places
<1>2. Handles("Clear") /\ out.pc = "Loop" /\ out.entry = NoEntry /\ UNCHANGED <<slot, late>>
      /\ queue # <<>> /\ queue' = Tail(queue)
      /\ Apart(queue, out.entry, out.switch, out.interlude.switch)
  BY Handled DEF HandleClear, Keeps, Answers
<1>3. /\ out'.pc = "Clearing" /\ out'.entry = Hd /\ out'.switch = NoEntry
      /\ out'.interlude.switch = NoEntry /\ out'.current = NoTrack
  <2>1. out' = [out EXCEPT !.pc = "Clearing", !.entry = Hd, !.switch = NoEntry, !.pending = <<>>,
                           !.current = NoTrack, !.tone = NoTone, !.interlude = NoInterlude,
                           !.bridge = "None", !.paused = TRUE]
    BY DEF HandleClear
  <2> HIDE DEF Hd
  <2> QED  BY <1>1, <2>1 DEF Threads, NoInterlude
<1>4. PICK D : D = Released
  OBVIOUS
<1>5. Forgotten(D)
  BY <1>2, <1>3, <1>4, HandledLater
<1>6. D \cup {NoEntry} = {out.switch, out.interlude.switch, NoEntry}
  BY <1>2, <1>3, <1>4 DEF Released
<1>7. Decided(D, "Err")
  <2> SUFFICES ASSUME NEW c \in Callers
               PROVE  /\ call'[c].kind = call[c].kind /\ call'[c].track = call[c].track
                      /\ IF \E d \in D : d.by = c
                         THEN /\ call'[c].at \in {"Ok", "Err"}
                              /\ call[c].kind \in Exchanges => call'[c].at = "Err"
                         ELSE call'[c].at = call[c].at
    BY DEF Decided
  <2>1. call' = AllAnswered(call, {out.switch, out.interlude.switch}, "Err")
    BY DEF HandleClear
  <2>2. call'[c] = IF \E e \in {out.switch, out.interlude.switch} : e.by = c
                   THEN [call[c] EXCEPT !.at = "Err"] ELSE call[c]
    BY <2>1 DEF AllAnswered
  <2>3. (\E e \in {out.switch, out.interlude.switch} : e.by = c) <=> (\E d \in D : d.by = c)
    BY <1>6, Entry
  <2>4. call[c] \in Calls
    BY <1>1
  <2> QED  BY <2>2, <2>3, <2>4 DEF Calls
<1>8. Passes(D, "Err")
  BY <1>2, <1>3, <1>5, <1>7 DEF Passes
<1> QED  BY <1>8 DEF Decides

\* The commands that were kept until the ring is empty.
LEMMA DecideClearing ==
    ASSUME Config, Typed, Keeps, Answers, Clearing
    PROVE  Decides
<1>1. /\ out \in Threads /\ out.interlude \in Inserts
      /\ out.entry \in HeldNow /\ out.interlude.switch \in HeldNow
      /\ \A cs, x : Answered(cs, NoEntry, x) = cs
  BY Places, NoAnswer, ZenonT(40)
<1>2. /\ out.pc = "Clearing" /\ queue' = queue /\ UNCHANGED <<slot, late>>
      /\ out.entry \in Commands /\ out.switch = NoEntry
      /\ Apart(queue, out.entry, out.switch, out.interlude.switch)
  BY ZenonT(40)
     DEF Clearing, SetCurrentCommits, ToneStarts, ClearDone, ClearingTimesOut, Keeps, Answers
<1>3. out.interlude.switch.kind \notin Exchanges /\ out.interlude.switch.track = NoTrack
  BY Entry DEF Keeps, Exchanges, NoEntry
<1>4. out.interlude.switch.by # NoCaller => out.interlude.switch.by # out.entry.by
  BY <1>2 DEF Apart, Differ
<1>5. ASSUME NEW i \in Inserts, i.switch \in {out.interlude.switch, NoEntry},
             out'.pc = "Loop", out'.entry = NoEntry, out'.switch = out.switch,
             out'.interlude = i,
             NEW x \in {"Ok", "Err"}, NEW y \in {"Ok", "Err"}, NEW r \in {"Ok", "Err"},
             out.entry.kind \in Exchanges => y = r,
             call' = Answered(Answered(call, IF i.switch = out.interlude.switch THEN NoEntry
                                             ELSE out.interlude.switch, x), out.entry, y),
             \/ r = "Err" /\ out'.current \in {out.current, NoTrack}
             \/ r = "Ok" /\ out'.current \in Tracks /\ out.entry.track = out'.current
      PROVE  Decides
  <2>1. PICK s : s = IF i.switch = out.interlude.switch THEN NoEntry ELSE out.interlude.switch
    OBVIOUS
  <2>2. s \in HeldNow \cup {NoEntry} /\ s.kind \notin Exchanges /\ s.track = NoTrack
        /\ (s.by # NoCaller => s.by # out.entry.by)
    BY <1>1, <1>3, <1>4, <2>1, Entry DEF NoEntry, Exchanges
  <2>3. Released \subseteq {out.entry, s, NoEntry} /\ {out.entry, s} \subseteq Released \cup {NoEntry}
    BY <1>2, <1>5, <2>1 DEF Released
  <2>4. call' = Answered(Answered(call, s, x), out.entry, y)
    BY <1>5, <2>1
  <2>5. \E D : Passes(D, r)
    BY <1>1, <1>2, <1>5, <2>2, <2>3, <2>4, StepAnswers, SMTT(30)
  <2> QED  BY <2>5 DEF Decides
<1>6. CASE SetCurrentCommits
  <2>1. PICK m \in Mixes(out.interlude) :
           IF CanPrime(device, Frames(out.entry.track, Watermark))
           THEN /\ out' = [out EXCEPT !.pc = "Loop", !.entry = NoEntry, !.current = out.entry.track,
                                      !.interlude = m.to]
                /\ call' = Answered(InterludeAnswered(call, m), out.entry, "Ok")
           ELSE /\ out' = [out EXCEPT !.pc = "Loop", !.entry = NoEntry,
                                      !.current = NoTrack, !.interlude = m.to]
                /\ call' = Answered(InterludeAnswered(call, m), out.entry, "Err")
    BY <1>6 DEF SetCurrentCommits
  <2>2. /\ m.to \in Inserts /\ m.ok \in {"None", "Ok", "Err"}
        /\ m.ok = "None" => m.to.switch = out.interlude.switch
        /\ m.ok # "None" => m.to.switch = NoEntry /\ out.interlude.switch # NoEntry
    BY <1>1, MixedInsert
  <2>3. PICK x \in {"Ok", "Err"} : m.ok # "None" => x = m.ok
    BY <2>2
  <2>4. InterludeAnswered(call, m) =
           Answered(call, IF m.to.switch = out.interlude.switch THEN NoEntry
                          ELSE out.interlude.switch, x)
    BY <1>1, <2>2, <2>3 DEF InterludeAnswered
  <2>5. out.entry.track \in Tracks
    BY <1>2, <1>6 DEF SetCurrentCommits, Commands, Exchanges
  <2>6. PICK i \in Inserts : i = m.to
    BY <2>2
  <2>7. CASE CanPrime(device, Frames(out.entry.track, Watermark))
    <3>1. /\ out' = [out EXCEPT !.pc = "Loop", !.entry = NoEntry, !.current = out.entry.track,
                                !.interlude = i]
          /\ call' = Answered(InterludeAnswered(call, m), out.entry, "Ok")
      BY <2>1, <2>6, <2>7
    <3>2. /\ out'.pc = "Loop" /\ out'.entry = NoEntry /\ out'.switch = out.switch
          /\ out'.interlude = i /\ out'.current = out.entry.track
      BY <1>1, <3>1 DEF Threads
    <3> QED  BY <1>5, <2>2, <2>4, <2>5, <2>6, <3>1, <3>2
  <2>8. CASE ~CanPrime(device, Frames(out.entry.track, Watermark))
    <3>1. /\ out' = [out EXCEPT !.pc = "Loop", !.entry = NoEntry, !.current = NoTrack,
                                !.interlude = i]
          /\ call' = Answered(InterludeAnswered(call, m), out.entry, "Err")
      BY <2>1, <2>6, <2>8
    <3>2. /\ out'.pc = "Loop" /\ out'.entry = NoEntry /\ out'.switch = out.switch
          /\ out'.interlude = i /\ out'.current = NoTrack
      BY <1>1, <3>1 DEF Threads
    <3> QED  BY <1>5, <2>2, <2>4, <2>6, <3>1, <3>2
  <2> QED  BY <2>7, <2>8, SMTT(30)
<1>7. ASSUME out'.pc = "Loop", out'.entry = NoEntry, out'.switch = out.switch,
             out'.interlude = out.interlude, out'.current = out.current, NEW y \in {"Ok", "Err"},
             out.entry.kind \in Exchanges => y = "Err", call' = Answered(call, out.entry, y)
      PROVE  Decides
  <2>1. call' = Answered(Answered(call, IF out.interlude.switch = out.interlude.switch
                                        THEN NoEntry ELSE out.interlude.switch, "Err"), out.entry, y)
    BY <1>1, <1>7
  <2> QED  BY <1>1, <1>5, <1>7, <2>1
<1>8. CASE ToneStarts
  <2>1. /\ out' = [out EXCEPT !.pc = "Loop", !.entry = NoEntry, !.pending = ToneSamples,
                              !.tone = [on |-> TRUE, restore |-> out.paused], !.paused = FALSE]
        /\ call' = Answered(call, out.entry, "Ok") /\ out.entry.kind \notin Exchanges
    BY <1>8 DEF ToneStarts, Exchanges
  <2>2. /\ out'.pc = "Loop" /\ out'.entry = NoEntry /\ out'.switch = out.switch
        /\ out'.interlude = out.interlude /\ out'.current = out.current
    BY <1>1, <2>1 DEF Threads
  <2> QED  BY <1>7, <2>1, <2>2
<1>9. CASE ClearDone \/ ClearingTimesOut
  <2>1. /\ out' = [out EXCEPT !.pc = "Loop", !.entry = NoEntry]
        /\ \/ call' = Answered(call, out.entry, "Ok") /\ out.entry.kind \notin Exchanges
           \/ call' = Answered(call, out.entry, "Err")
    BY <1>9 DEF ClearDone, ClearingTimesOut, Exchanges
  <2>2. /\ out'.pc = "Loop" /\ out'.entry = NoEntry /\ out'.switch = out.switch
        /\ out'.interlude = out.interlude /\ out'.current = out.current
    BY <1>1, <2>1 DEF Threads
  <2> QED  BY <1>7, <2>1, <2>2
<1> QED  BY <1>6, <1>8, <1>9 DEF Clearing

\* The thread returns: whoever waits has his answer.
LEMMA AllEnd ==
    ASSUME Config, Typed, Keeps, Answers, out.pc = "Loop", NEW b \in BOOLEAN,
           \/ queue' = queue /\ ThreadEnds(call, b)
           \/ Handles("Stop") /\ ThreadEnds(Answered(call, Hd, "Ok"), b),
           out'.pc = "Gone", out'.current = out.current, UNCHANGED <<slot, late>>
    PROVE  Ends
<1>1. /\ call \in [Callers -> Calls] /\ out.entry = NoEntry /\ NoEntry.by = NoCaller
      /\ NoCaller \notin Callers
      /\ \A c \in Callers : call[c].at = "Waiting" => \E e \in HeldNow : e.by = c
      /\ Apart(queue, out.entry, out.switch, out.interlude.switch)
  BY Entry DEF Typed, Keeps, Answers, Present
<1>0. ASSUME NEW c \in Callers, NEW e \in HeldNow, e.by = c
      PROVE  call[c].at = "Waiting" /\ call[c].kind = e.kind
  <2>1. call[c] = [at |-> "Waiting", kind |-> e.kind, track |-> e.track]
    BY <1>0, <1>1 DEF Answers, Owned
  <2> QED  BY <2>1
<1>2. PICK held : held = Range(queue') \cup {out.switch, out.interlude.switch}
  OBVIOUS
<1>3. CASE queue' = queue /\ ThreadEnds(call, b)
  <2>1. \A c \in Callers : call'[c] = IF \E e \in held : e.by = c
                                      THEN [call[c] EXCEPT !.at = "Err"] ELSE call[c]
    BY <1>2, <1>3 DEF ThreadEnds, AllAnswered
  <2>2. held \cup {NoEntry} = HeldNow \cup {NoEntry}
    BY <1>1, <1>2, <1>3 DEF HeldNow
  <2>3. \A c \in Callers : (\E e \in held : e.by = c) <=> call[c].at = "Waiting"
    <3> TAKE c \in Callers
    <3>1. (\E e \in held : e.by = c) <=> (\E e \in HeldNow : e.by = c)
      BY <1>1, <2>2
    <3> QED  BY <1>0, <1>1, <3>1
  <2>4. \A c \in Callers :
          /\ call'[c].kind = call[c].kind /\ call'[c].track = call[c].track
          /\ call[c].at = "Waiting" => call'[c].at = "Err"
          /\ call[c].at # "Waiting" => call'[c].at = call[c].at
    <3> TAKE c \in Callers
    <3>1. call[c] \in Calls
      BY <1>1
    <3>2. CASE call[c].at = "Waiting"
      <4>1. call'[c] = [call[c] EXCEPT !.at = "Err"]
        BY <2>1, <2>3, <3>2
      <4> QED  BY <3>1, <3>2, <4>1 DEF Calls
    <3>3. CASE call[c].at # "Waiting"
      <4>1. call'[c] = call[c]
        BY <2>1, <2>3, <3>3
      <4> QED  BY <3>3, <4>1
    <3> QED  BY <3>2, <3>3
  <2> QED  BY <1>3, <2>4 DEF Ends
<1>4. CASE Handles("Stop") /\ ThreadEnds(Answered(call, Hd, "Ok"), b)
  <2>1. /\ Hd \in Entries /\ Hd.kind \notin Exchanges /\ queue # <<>> /\ queue' = Tail(queue)
    BY <1>4, Handled DEF Exchanges
  <2>2. /\ Range(queue) = {Hd} \cup Range(Tail(queue))
        /\ \A x \in Range(Tail(queue)) \cup {out.entry, out.switch, out.interlude.switch} :
              Differ(Hd, x)
    BY <1>1, <2>1, HeldEntries, ChannelTail DEF Hd
  <2>3. \A c \in Callers : Answered(call, Hd, "Ok")[c] =
           IF Hd.by = c THEN [call[c] EXCEPT !.at = "Ok"] ELSE call[c]
    BY <1>1, <2>1, AnsweredCalls
  <2>4. \A c \in Callers : call'[c] = IF \E e \in held : e.by = c
                                      THEN [Answered(call, Hd, "Ok")[c] EXCEPT !.at = "Err"]
                                      ELSE Answered(call, Hd, "Ok")[c]
    BY <1>2, <1>4 DEF ThreadEnds, AllAnswered
  <2>5. held \cup {Hd, NoEntry} = HeldNow \cup {NoEntry} /\ Hd \in HeldNow
    BY <1>1, <1>2, <2>1, <2>2 DEF HeldNow
  <2>6. \A c \in Callers : Hd.by = c => ~\E e \in held : e.by = c
    BY <1>1, <1>2, <2>1, <2>2 DEF Differ
  <2>7. \A c \in Callers : (\E e \in held : e.by = c) \/ Hd.by = c <=> call[c].at = "Waiting"
    <3> TAKE c \in Callers
    <3>1. (\E e \in held : e.by = c) \/ Hd.by = c <=> (\E e \in HeldNow : e.by = c)
      <4>1. (\E e \in held : e.by = c) \/ Hd.by = c
               <=> \E e \in held \cup {Hd, NoEntry} : e.by = c
        BY <1>1
      <4>2. (\E e \in HeldNow : e.by = c) <=> \E e \in HeldNow \cup {NoEntry} : e.by = c
        BY <1>1
      <4> QED  BY <2>5, <4>1, <4>2
    <3> QED  BY <1>0, <1>1, <3>1
  <2>8. \A c \in Callers : Hd.by = c => call[c].kind \notin Exchanges
    BY <1>0, <2>1, <2>5
  <2>9. \A c \in Callers :
          /\ call'[c].kind = call[c].kind /\ call'[c].track = call[c].track
          /\ call[c].at = "Waiting" =>
                \/ call'[c].at = "Err"
                \/ call'[c].at = "Ok" /\ call[c].kind \notin Exchanges
          /\ call[c].at # "Waiting" => call'[c].at = call[c].at
    <3> TAKE c \in Callers
    <3>0. call[c] \in Calls
      BY <1>1
    <3>1. CASE Hd.by = c
      <4>1. call'[c] = [call[c] EXCEPT !.at = "Ok"]
        BY <2>3, <2>4, <2>6, <3>1
      <4>2. call[c].at = "Waiting"
        BY <2>7, <3>1
      <4> QED  BY <2>8, <3>0, <3>1, <4>1, <4>2 DEF Calls
    <3>2. CASE Hd.by # c /\ \E e \in held : e.by = c
      <4>1. call'[c] = [call[c] EXCEPT !.at = "Err"]
        BY <2>3, <2>4, <3>2
      <4>2. call[c].at = "Waiting"
        BY <2>7, <3>2
      <4> QED  BY <3>0, <4>1, <4>2 DEF Calls
    <3>3. CASE Hd.by # c /\ ~\E e \in held : e.by = c
      <4>1. call'[c] = call[c]
        BY <2>3, <2>4, <3>3
      <4>2. call[c].at # "Waiting"
        BY <2>7, <3>3
      <4> QED  BY <4>1, <4>2
    <3> QED  BY <3>1, <3>2, <3>3
  <2> QED  BY <1>4, <2>9 DEF Ends
<1> QED  BY <1>3, <1>4

LEMMA DecideEnd ==
    ASSUME Config, Typed, Keeps, Answers, HandleStop \/ MicrophoneTakenBack \/ Write
    PROVE  Decides
<1>1. /\ out \in Threads /\ out.interlude \in Inserts
      /\ \A cs, x : Answered(cs, NoEntry, x) = cs
  BY Places, NoAnswer
<1>2. /\ [Ended EXCEPT !.failed = TRUE].pc = "Gone" /\ Ended.pc = "Gone"
      /\ [Ended EXCEPT !.failed = TRUE].current = out.current /\ Ended.current = out.current
  BY <1>1 DEF Ended, Threads
<1>3. CASE HandleStop
  <2>1. PICK b \in BOOLEAN : ThreadEnds(Answered(call, Hd, "Ok"), b)
    BY <1>3 DEF HandleStop
  <2>2. Handles("Stop") /\ out' = Ended /\ UNCHANGED <<slot, late>> /\ out.pc = "Loop"
    BY <1>3 DEF HandleStop, Handles
  <2> QED  BY <1>2, <2>1, <2>2, AllEnd DEF Decides
<1>4. ASSUME queue' = queue, out.pc = "Loop", UNCHANGED <<slot, late>>, NEW b \in BOOLEAN,
             ThreadEnds(call, b), out' = [Ended EXCEPT !.failed = TRUE]
      PROVE  Decides
  <2>1. out'.pc = "Gone" /\ out'.current = out.current
    BY <1>2, <1>4
  <2> QED  BY <1>4, <2>1, AllEnd DEF Decides
<1>5. ASSUME queue' = queue, out.pc = "Loop", UNCHANGED <<slot, late>>, call' = call,
             out'.pc = "Loop", out'.entry = out.entry, out'.switch = out.switch,
             out'.interlude = out.interlude, out'.current = out.current
      PROVE  Decides
  <2>1. Released = {}
    BY <1>5 DEF Released
  <2>2. call' = Answered(Answered(call, NoEntry, "Err"), NoEntry, "Err")
    BY <1>1, <1>5
  <2>3. NoEntry.kind \notin Exchanges /\ NoEntry.track = NoTrack /\ NoEntry.by = NoCaller
    BY Entry DEF NoEntry, Exchanges
  <2>4. PICK n : n = NoEntry
    OBVIOUS
  <2>5. \E D : Passes(D, "Err")
    BY <1>5, <2>1, <2>2, <2>3, <2>4, StepAnswers
  <2> QED  BY <2>5 DEF Decides
<1>6. CASE MicrophoneTakenBack
  <2>1. queue' = queue /\ out.pc = "Loop" /\ UNCHANGED <<slot, late>>
    BY <1>6 DEF MicrophoneTakenBack
  <2>2. \/ call' = call /\ out' = [out EXCEPT !.bridge = "None"]
        \/ \E b \in BOOLEAN : ThreadEnds(call, b) /\ out' = [Ended EXCEPT !.failed = TRUE]
    BY <1>6 DEF MicrophoneTakenBack
  <2>3. CASE call' = call /\ out' = [out EXCEPT !.bridge = "None"]
    <3>1. /\ out'.pc = "Loop" /\ out'.entry = out.entry /\ out'.switch = out.switch
          /\ out'.interlude = out.interlude /\ out'.current = out.current
      BY <1>1, <2>1, <2>3 DEF Threads
    <3> QED  BY <1>5, <2>1, <2>3, <3>1
  <2> QED  BY <1>4, <2>1, <2>2, <2>3
<1>7. CASE Write
  <2>1. queue' = queue /\ out.pc = "Loop" /\ UNCHANGED <<slot, late>>
    BY <1>7 DEF Write, Turn
  <2>2. \/ call' = call /\ out' = [out EXCEPT !.pending = Tail(out.pending)]
        \/ \E b \in BOOLEAN : ThreadEnds(call, b) /\ out' = [Ended EXCEPT !.failed = TRUE]
    BY <1>7 DEF Write
  <2>3. CASE call' = call /\ out' = [out EXCEPT !.pending = Tail(out.pending)]
    <3> DEFINE rest == Tail(out.pending)
    <3>0. out' = [out EXCEPT !.pending = rest]
      BY <2>3
    <3> HIDE DEF rest
    <3>1. /\ out'.pc = "Loop" /\ out'.entry = out.entry /\ out'.switch = out.switch
          /\ out'.interlude = out.interlude /\ out'.current = out.current
      BY <1>1, <2>1, <3>0 DEF Threads
    <3> QED  BY <1>5, <2>1, <2>3, <3>1
  <2> QED  BY <1>4, <2>1, <2>2, <2>3
<1> QED  BY <1>3, <1>6, <1>7

\* A turn of the loop.
LEMMA DecideTurn ==
    ASSUME Config, Typed, Keeps, Answers,
           ClockRefreshed \/ ToneEnds \/ SwitchRefused \/ SwitchCommits \/ Refill
    PROVE  Decides
<1>1. /\ out \in Threads /\ out.interlude \in Inserts
      /\ out.switch \in HeldNow /\ out.interlude.switch \in HeldNow
      /\ \A cs, x : Answered(cs, NoEntry, x) = cs
  BY Places, NoAnswer, ZenonT(40)
<1>2. /\ out.pc = "Loop" /\ queue' = queue /\ UNCHANGED <<slot, late>> /\ out.entry = NoEntry
      /\ Apart(queue, out.entry, out.switch, out.interlude.switch)
  BY ZenonT(40)
     DEF ClockRefreshed, ToneEnds, SwitchRefused, SwitchCommits, Refill, Switches, Turn, Keeps,
         Answers
<1>3. out.interlude.switch.kind \notin Exchanges /\ out.interlude.switch.track = NoTrack
  BY Entry DEF Keeps, Exchanges, NoEntry
<1>4. out.interlude.switch.by # NoCaller => out.interlude.switch.by # out.switch.by
  BY <1>2 DEF Apart, Differ
<1>5. NoEntry.kind \notin Exchanges /\ NoEntry.track = NoTrack /\ NoEntry.by = NoCaller
  BY Entry DEF NoEntry, Exchanges
\* The candidate e leaves or there is none, the insert becomes i.
<1>6. ASSUME NEW i \in Inserts, i.switch \in {out.interlude.switch, NoEntry},
             NEW e \in {out.switch, NoEntry},
             out'.pc = "Loop", out'.entry = out.entry,
             out'.switch = (IF e = NoEntry THEN out.switch ELSE NoEntry), out'.interlude = i,
             NEW x \in {"Ok", "Err"}, NEW r \in {"Ok", "Err"},
             call' = Answered(Answered(call, IF i.switch = out.interlude.switch THEN NoEntry
                                             ELSE out.interlude.switch, x), e, r),
             \/ r = "Err" /\ out'.current \in {out.current, NoTrack}
             \/ r = "Ok" /\ out'.current \in Tracks /\ e.track = out'.current
      PROVE  Decides
  <2>1. PICK s : s = IF i.switch = out.interlude.switch THEN NoEntry ELSE out.interlude.switch
    OBVIOUS
  <2>2. s \in HeldNow \cup {NoEntry} /\ s.kind \notin Exchanges /\ s.track = NoTrack
        /\ (s.by # NoCaller => s.by # e.by)
    BY <1>1, <1>3, <1>4, <1>5, <1>6, <2>1
  <2>3. Released \subseteq {e, s, NoEntry} /\ {e, s} \subseteq Released \cup {NoEntry}
    BY <1>6, <2>1 DEF Released
  <2>4. call' = Answered(Answered(call, s, x), e, r)
    BY <1>6, <2>1
  <2>5. e \in HeldNow \cup {NoEntry} /\ out'.switch \in {out.switch, NoEntry}
    BY <1>1, <1>6
  <2>6. \E D : Passes(D, r)
    BY <1>2, <1>6, <2>2, <2>3, <2>4, <2>5, StepAnswers
  <2> QED  BY <2>6 DEF Decides
<1>7. CASE ClockRefreshed \/ ToneEnds
  <2>1. out' = out \/ out' = [out EXCEPT !.tone = NoTone, !.paused = out.tone.restore]
    BY <1>7 DEF ClockRefreshed, ToneEnds
  <2>2. call' = call
    BY <1>7 DEF ClockRefreshed, ToneEnds
  <2>3. /\ out'.pc = "Loop" /\ out'.entry = out.entry /\ out'.switch = out.switch
        /\ out'.interlude = out.interlude /\ out'.current = out.current
    BY <1>1, <1>2, <2>1 DEF Threads
  <2>4. call' = Answered(Answered(call, IF out.interlude.switch = out.interlude.switch THEN NoEntry
                                        ELSE out.interlude.switch, "Err"), NoEntry, "Err")
    BY <1>1, <2>2
  <2> QED  BY <1>1, <1>6, <2>3, <2>4
<1>8. CASE SwitchRefused
  <2>1. out' = [out EXCEPT !.switch = NoEntry] /\ call' = Answered(call, out.switch, "Err")
        /\ out.switch # NoEntry
    BY <1>8 DEF SwitchRefused, Switches
  <2>3. /\ out'.pc = "Loop" /\ out'.entry = out.entry /\ out'.switch = NoEntry
        /\ out'.interlude = out.interlude /\ out'.current = out.current
    BY <1>1, <1>2, <2>1 DEF Threads
  <2>4. call' = Answered(Answered(call, IF out.interlude.switch = out.interlude.switch THEN NoEntry
                                        ELSE out.interlude.switch, "Err"), out.switch, "Err")
    BY <1>1, <2>1
  <2> QED  BY <1>1, <1>6, <2>1, <2>3, <2>4
<1>9. ASSUME NEW m \in Mixes(out.interlude)
      PROVE  /\ m.to \in Inserts /\ m.to.switch \in {out.interlude.switch, NoEntry}
             /\ \E x \in {"Ok", "Err"} : InterludeAnswered(call, m) =
                   Answered(call, IF m.to.switch = out.interlude.switch THEN NoEntry
                                  ELSE out.interlude.switch, x)
  <2>1. /\ m.to \in Inserts /\ m.ok \in {"None", "Ok", "Err"}
        /\ m.ok = "None" => m.to.switch = out.interlude.switch
        /\ m.ok # "None" => m.to.switch = NoEntry /\ out.interlude.switch # NoEntry
    BY <1>1, <1>9, MixedInsert
  <2>2. PICK x \in {"Ok", "Err"} : m.ok # "None" => x = m.ok
    BY <2>1
  <2>3. InterludeAnswered(call, m) =
           Answered(call, IF m.to.switch = out.interlude.switch THEN NoEntry
                          ELSE out.interlude.switch, x)
    BY <1>1, <2>1, <2>2 DEF InterludeAnswered
  <2> QED  BY <2>1, <2>3
<1>10. CASE Refill
  <2>1. PICK m \in Mixes(out.interlude) :
           /\ out' = [out EXCEPT !.pending = Frames(out.current, 1), !.interlude = m.to]
           /\ call' = InterludeAnswered(call, m)
    BY <1>10 DEF Refill
  <2>2. PICK i \in Inserts : i = m.to /\ i.switch \in {out.interlude.switch, NoEntry}
    BY <1>9
  <2>3. PICK x \in {"Ok", "Err"} : InterludeAnswered(call, m) =
           Answered(call, IF i.switch = out.interlude.switch THEN NoEntry
                          ELSE out.interlude.switch, x)
    BY <1>9, <2>2
  <2>4. PICK p : p = Frames(out.current, 1)
    OBVIOUS
  <2>5. /\ out'.pc = "Loop" /\ out'.entry = out.entry /\ out'.switch = out.switch
        /\ out'.interlude = i /\ out'.current = out.current
    BY <1>1, <1>2, <2>1, <2>2, <2>4 DEF Threads
  <2>6. call' = Answered(Answered(call, IF i.switch = out.interlude.switch THEN NoEntry
                                        ELSE out.interlude.switch, x), NoEntry, "Err")
    BY <1>1, <2>1, <2>3
  <2> QED  BY <1>6, <2>2, <2>5, <2>6
<1>11. CASE SwitchCommits
  <2>1. PICK m \in Mixes(out.interlude) :
           \/ /\ out' = [out EXCEPT !.current = out.switch.track, !.switch = NoEntry,
                                    !.interlude = m.to]
              /\ call' = Answered(InterludeAnswered(call, m), out.switch, "Ok")
           \/ /\ out' = [out EXCEPT !.switch = NoEntry, !.interlude = m.to]
              /\ call' = Answered(InterludeAnswered(call, m), out.switch, "Err")
    BY <1>11, ZenonT(40) DEF SwitchCommits
  <2>2. PICK i \in Inserts : i = m.to /\ i.switch \in {out.interlude.switch, NoEntry}
    BY <1>9
  <2>3. PICK x \in {"Ok", "Err"} : InterludeAnswered(call, m) =
           Answered(call, IF i.switch = out.interlude.switch THEN NoEntry
                          ELSE out.interlude.switch, x)
    BY <1>9, <2>2
  <2>4. out.switch # NoEntry /\ out.switch.track \in Tracks
    BY <1>11, ZenonT(40) DEF SwitchCommits, Switches, Keeps, Commands, Exchanges
  <2>5. CASE /\ out' = [out EXCEPT !.current = out.switch.track, !.switch = NoEntry,
                                   !.interlude = m.to]
             /\ call' = Answered(InterludeAnswered(call, m), out.switch, "Ok")
    <3>1. /\ out'.pc = "Loop" /\ out'.entry = out.entry /\ out'.switch = NoEntry
          /\ out'.interlude = i /\ out'.current = out.switch.track
      BY <1>1, <1>2, <2>2, <2>5 DEF Threads
    <3> QED  BY <1>6, <2>2, <2>3, <2>4, <2>5, <3>1
  <2>6. CASE /\ out' = [out EXCEPT !.switch = NoEntry, !.interlude = m.to]
             /\ call' = Answered(InterludeAnswered(call, m), out.switch, "Err")
    <3>1. /\ out'.pc = "Loop" /\ out'.entry = out.entry /\ out'.switch = NoEntry
          /\ out'.interlude = i /\ out'.current = out.current
      BY <1>1, <1>2, <2>2, <2>6 DEF Threads
    <3> QED  BY <1>6, <2>2, <2>3, <2>4, <2>6, <3>1
  <2> QED  BY <2>1, <2>5, <2>6, ZenonT(40)
<1> QED  BY <1>7, <1>8, <1>10, <1>11, ZenonT(40)

\* Every step of the thread decides.
LEMMA ThreadDecides ==
    ASSUME Config, Typed, Keeps, Answers, Thread
    PROVE  Decides
<1>1. Handler => Decides
  BY DecideTrack, DecideInsert, DecideStream, DecideClear, DecideEnd DEF Handler
<1>2. Loop => Decides
  BY DecideEnd, DecideTurn DEF Loop
<1> QED  BY <1>1, <1>2, DecideClearing DEF Thread
-----------------------------------------------------------------------------
(* The steps of the callers and of the world *)

LEMMA SeenUnchanged ==
    ASSUME out'.pc = out.pc, out'.current = out.current,
           out.pc # "Gone" => Undecided' = Undecided,
           \A d \in Callers : Told(call')[d] = Told(call)[d]
    PROVE  UNCHANGED Abstract!outputVars
<1>1. Told(call') = Told(call)
  BY DEF Told
<1> QED  BY <1>1 DEF Abstract!outputVars, Told

\* The stream, the microphone and the mixers change nothing of the commands.
LEMMA WorldKeeps ==
    ASSUME Config, Typed, Answers, OneExchange, UNCHANGED <<call, queue, slot, late>>,
           out' = out \/ out' = [out EXCEPT !.bridge = "Revoked"]
    PROVE  Answers' /\ OneExchange' /\ UNCHANGED Abstract!outputVars
<1>1. /\ out'.pc = out.pc /\ out'.entry = out.entry /\ out'.switch = out.switch
      /\ out'.interlude = out.interlude /\ out'.current = out.current
  BY Places DEF Threads
<1>2. HeldNow' = HeldNow /\ Undecided' = Undecided
  BY <1>1 DEF HeldNow, Undecided
<1>3. Answers'
  BY <1>1, <1>2 DEF Answers, Owned, Present
<1>4. OneExchange'
  BY <1>1, <1>2 DEF OneExchange
<1> QED  BY <1>1, <1>2, <1>3, <1>4, SeenUnchanged

\* No command of a caller is in the thread when the caller is not waiting.
LEMMA NotWaiting ==
    ASSUME Config, Answers, out.pc # "Gone", NEW c \in Callers, call[c].at # "Waiting",
           NEW e \in HeldNow
    PROVE  e.by # c
<1>1. c # NoCaller
  BY Entry
<1>2. e.by = c => call[c] = [at |-> "Waiting", kind |-> e.kind, track |-> e.track]
  BY <1>1 DEF Answers, Owned
<1> QED  BY <1>2

\* A command that joins the channel.
LEMMA JoinsApart ==
    ASSUME NEW S, NEW q \in Seq(S), NEW h \in S, NEW e, NEW s, NEW i, Apart(q, e, s, i),
           \A x \in Range(q) \cup {e, s, i} : Differ(h, x) /\ Differ(x, h)
    PROVE  Apart(Append(q, h), e, s, i)
<1>1. /\ Len(Append(q, h)) = Len(q) + 1 /\ Append(q, h)[Len(q) + 1] = h /\ Len(q) \in Nat
      /\ \A n \in 1 .. Len(q) : Append(q, h)[n] = q[n] /\ q[n] \in Range(q)
      /\ \A n \in 1 .. Len(q) + 1 : n \in 1 .. Len(q) \/ n = Len(q) + 1
  <2>1. DOMAIN q = 1 .. Len(q)
    OBVIOUS
  <2> QED  BY <2>1 DEF Range
<1> DEFINE p == Append(q, h)
<1>2. \A m, n \in 1 .. Len(p) : m # n => Differ(p[m], p[n])
  <2> SUFFICES ASSUME NEW m \in 1 .. Len(q) + 1, NEW n \in 1 .. Len(q) + 1, m # n
               PROVE  Differ(p[m], p[n])
    BY <1>1
  <2>1. CASE m \in 1 .. Len(q) /\ n \in 1 .. Len(q)
    BY <1>1, <2>1 DEF Apart
  <2>2. CASE m = Len(q) + 1 \/ n = Len(q) + 1
    BY <1>1, <2>2
  <2> QED  BY <1>1, <2>1, <2>2
<1>3. \A n \in 1 .. Len(p) : \A f \in {e, s, i} : Differ(p[n], f)
  BY <1>1 DEF Apart
<1> QED  BY <1>2, <1>3 DEF Apart

\* What an asking caller does, told in both cases.
LEMMA AskFacts ==
    ASSUME Config, Typed, Keeps, Answers, OneExchange, NEW c \in Callers, NEW k \in Kinds,
           NEW t \in Tracks \cup {NoTrack}, call[c].at = "Idle", MayAsk(k, t),
           NEW at \in {"Waiting", "Err"},
           call' = [call EXCEPT ![c] = [at |-> at, kind |-> k, track |-> t]]
    PROVE  /\ k \in AllKinds
           /\ call[c].kind \notin Exchanges
           /\ \A d \in Callers \ {c} : call'[d] = call[d]
           /\ call'[c].at = at /\ call'[c].kind = k /\ call'[c].track = t
           /\ call'[c] = [at |-> at, kind |-> k, track |-> t]
           /\ k \in Exchanges => /\ t \in Tracks
                                 /\ \A d \in Callers : call[d].kind \notin Exchanges
           /\ k \notin Exchanges => t = NoTrack
<1>1. call \in [Callers -> Calls] /\ k \in AllKinds
  BY DEF Typed, Config, OutputAssumption
<1>2. \A d \in Callers : call[d].at = "Idle" => call[d].kind \notin Exchanges
  BY DEF Answers, Exchanges
<1>3. /\ \A d \in Callers \ {c} : call'[d] = call[d]
      /\ call'[c] = [at |-> at, kind |-> k, track |-> t]
  BY <1>1
<1>4. k \in Exchanges => t \in Tracks /\ \A d \in Callers : call[d].kind \notin Exchanges
  BY <1>2 DEF MayAsk
<1>5. k \notin Exchanges => t = NoTrack
  BY DEF MayAsk
<1> QED  BY <1>1, <1>2, <1>3, <1>4, <1>5

LEMMA AskKeeps ==
    ASSUME Config, Typed, Typed', Keeps, Answers, OneExchange, NEW c \in Callers, Ask(c)
    PROVE  Answers' /\ OneExchange' /\ (Abstract!OutputNext \/ UNCHANGED Abstract!outputVars)
<1>1. PICK k \in Kinds : \E t \in Tracks \cup {NoTrack} :
          /\ call[c].at = "Idle" /\ MayAsk(k, t)
          /\ IF out.pc # "Gone" /\ Len(queue) < QueueCapacity
             THEN /\ queue' = Append(queue, [kind |-> k, by |-> c, track |-> t])
                  /\ call' = [call EXCEPT ![c] = [at |-> "Waiting", kind |-> k, track |-> t]]
             ELSE /\ call' = [call EXCEPT ![c] = [at |-> "Err", kind |-> k, track |-> t]]
                  /\ UNCHANGED queue
          /\ UNCHANGED <<out, slot, late>>
  BY DEF Ask
<1>2. PICK t \in Tracks \cup {NoTrack} :
          /\ call[c].at = "Idle" /\ MayAsk(k, t)
          /\ IF out.pc # "Gone" /\ Len(queue) < QueueCapacity
             THEN /\ queue' = Append(queue, [kind |-> k, by |-> c, track |-> t])
                  /\ call' = [call EXCEPT ![c] = [at |-> "Waiting", kind |-> k, track |-> t]]
             ELSE /\ call' = [call EXCEPT ![c] = [at |-> "Err", kind |-> k, track |-> t]]
                  /\ UNCHANGED queue
          /\ UNCHANGED <<out, slot, late>>
  BY <1>1
<1>3. PICK at \in {"Waiting", "Err"} :
          /\ call' = [call EXCEPT ![c] = [at |-> at, kind |-> k, track |-> t]]
          /\ at = "Waiting" <=> (out.pc # "Gone" /\ Len(queue) < QueueCapacity)
  BY <1>2
<1>4. /\ k \in AllKinds /\ call[c].kind \notin Exchanges /\ call[c].at = "Idle"
      /\ \A d \in Callers \ {c} : call'[d] = call[d]
      /\ call'[c].at = at /\ call'[c].kind = k /\ call'[c].track = t
      /\ call'[c] = [at |-> at, kind |-> k, track |-> t]
      /\ k \in Exchanges => /\ t \in Tracks
                            /\ \A d \in Callers : call[d].kind \notin Exchanges
                            /\ Told(call)[c] = [at |-> "None", track |-> NoTrack]
                            /\ \A d \in Callers : Told(call')[d] =
                                       IF d = c THEN [at |-> at, track |-> t] ELSE Told(call)[d]
      /\ k \notin Exchanges => t = NoTrack /\ \A d \in Callers : Told(call')[d] = Told(call)[d]
  <2>1. call' = [call EXCEPT ![c] = [at |-> at, kind |-> k, track |-> t]]
        /\ call[c].at = "Idle" /\ MayAsk(k, t)
    BY <1>2, <1>3
  <2>2. /\ k \in AllKinds /\ call[c].kind \notin Exchanges
        /\ \A d \in Callers \ {c} : call'[d] = call[d]
        /\ call'[c] = [at |-> at, kind |-> k, track |-> t]
    BY <2>1, AskFacts, ZenonT(40)
  <2>3. call'[c].at = at /\ call'[c].kind = k /\ call'[c].track = t
    BY <2>2
  <2>4. k \in Exchanges => t \in Tracks /\ \A d \in Callers : call[d].kind \notin Exchanges
    BY <2>1, AskFacts
  <2>5. k \notin Exchanges => t = NoTrack
    BY <2>1, AskFacts, ZenonT(40)
  <2>6. k \in Exchanges => /\ Told(call)[c] = [at |-> "None", track |-> NoTrack]
                            /\ \A d \in Callers : Told(call')[d] =
                                  IF d = c THEN [at |-> at, track |-> t] ELSE Told(call)[d]
    BY <2>2, <2>3, <2>4 DEF Told
  <2>7. k \notin Exchanges => \A d \in Callers : Told(call')[d] = Told(call)[d]
    <3> SUFFICES ASSUME k \notin Exchanges, NEW d \in Callers PROVE Told(call')[d] = Told(call)[d]
      OBVIOUS
    <3> QED  BY <2>2, <2>3 DEF Told
  <2> QED  BY <2>1, <2>2, <2>3, <2>4, <2>5, <2>6, <2>7
<1>5. c # NoCaller
  BY Entry
\* The command that joins, if it does.
<1>6. PICK h : h = [kind |-> k, by |-> c, track |-> t]
  OBVIOUS
<1>7. h \in Commands /\ h.by = c /\ h.track = t /\ h.kind = k
  BY <1>4, <1>6, Entry DEF Commands, Entries
<1>8. CASE at = "Waiting"
  <2>1. out.pc # "Gone" /\ queue' = Append(queue, h) /\ queue \in Seq(Commands) /\ out' = out
    BY <1>2, <1>3, <1>6, <1>8, HeldEntries
  <2>2. HeldNow' = HeldNow \cup {h} /\ Range(queue') = Range(queue) \cup {h}
    BY <1>7, <2>1, ChannelAppend DEF HeldNow
  <2>3. \A x \in HeldNow : x.by # c
    BY <1>4, <2>1, NotWaiting
  <2>4. \A x \in HeldNow : k \in Exchanges => x.track # t
    <3> SUFFICES ASSUME k \in Exchanges, NEW x \in HeldNow PROVE x.track # t
      OBVIOUS
    <3>1. CASE x \in Range(queue)
      <4>1. PICK n \in 1 .. Len(queue) : x = queue[n]
        BY <2>1, <3>1 DEF Range
      <4> QED  BY <1>2, <4>1 DEF MayAsk
    <3>2. CASE x \in {out.entry, out.switch}
      BY <1>2, <3>2 DEF MayAsk
    <3>3. CASE x = out.interlude.switch
      <4>1. x.track = NoTrack
        BY <3>3, Entry DEF Keeps, Exchanges
      <4> QED  BY <1>4, <4>1, Entry
    <3> QED  BY <3>1, <3>2, <3>3 DEF HeldNow
  <2>5. \A x \in HeldNow : Differ(h, x) /\ Differ(x, h)
    BY <1>4, <1>7, <2>3, <2>4 DEF Differ
  <2>6. Apart(queue', out'.entry, out'.switch, out'.interlude.switch)
    <3>1. \A x \in Range(queue) \cup {out.entry, out.switch, out.interlude.switch} :
             Differ(h, x) /\ Differ(x, h)
      BY <2>5 DEF HeldNow
    <3>2. Apart(queue, out.entry, out.switch, out.interlude.switch)
      BY <2>1 DEF Answers
    <3>3. Apart(Append(queue, h), out.entry, out.switch, out.interlude.switch)
      BY <1>7, <2>1, <3>1, <3>2, JoinsApart
    <3> QED  BY <2>1, <3>3
  <2>7. Owned(call, HeldNow)'
    <3> SUFFICES ASSUME NEW e \in HeldNow', e.by # NoCaller
                 PROVE  call'[e.by] = [at |-> "Waiting", kind |-> e.kind, track |-> e.track]
      BY DEF Owned
    <3>1. CASE e = h
      BY <1>4, <1>7, <1>8, <3>1
    <3>2. CASE e \in HeldNow
      <4>1. e.by \in Callers \ {c}
        BY <2>3, <3>2, HeldEntries
      <4>2. call[e.by] = [at |-> "Waiting", kind |-> e.kind, track |-> e.track]
        BY <2>1, <3>2 DEF Answers, Owned
      <4> QED  BY <1>4, <4>1, <4>2
    <3> QED  BY <2>2, <3>1, <3>2
  <2>8. Present(call, HeldNow)'
    <3> SUFFICES ASSUME NEW d \in Callers, call'[d].at = "Waiting" PROVE \E e \in HeldNow' : e.by = d
      BY DEF Present
    <3>1. CASE d = c
      BY <1>7, <2>2, <3>1
    <3>2. CASE d # c
      BY <1>4, <2>1, <2>2, <3>2 DEF Answers, Present
    <3> QED  BY <3>1, <3>2
  <2>9. Answers'
    BY <1>4, <1>8, <2>1, <2>6, <2>7, <2>8, SMTT(30) DEF Answers, AllKinds
  <2>10. OneExchange'
    <3>1. \A e \in HeldNow' : e.kind \in AllKinds /\ ~late => e.by # NoCaller
      BY <1>5, <1>7, <2>1, <2>2 DEF OneExchange
    <3>2. ~late => \A d, f \in Callers :
             call'[d].kind \in Exchanges /\ call'[f].kind \in Exchanges => d = f
      BY <1>4 DEF OneExchange
    <3>3. ~late /\ out.current # NoTrack =>
              \/ \E d \in Callers : call'[d].kind \in Exchanges /\ call'[d].at = "Ok"
                                    /\ out.current = call'[d].track
              \/ /\ out.current = slot
                 /\ \A d \in Callers : call'[d].kind \in Exchanges => call'[d].at # "Ok"
      <4> SUFFICES ASSUME ~late, out.current # NoTrack
                   PROVE  \/ \E d \in Callers : call'[d].kind \in Exchanges /\ call'[d].at = "Ok"
                                                /\ out.current = call'[d].track
                          \/ /\ out.current = slot
                             /\ \A d \in Callers : call'[d].kind \in Exchanges => call'[d].at # "Ok"
        OBVIOUS
      <4>1. CASE \E d \in Callers : call[d].kind \in Exchanges /\ call[d].at = "Ok"
                                    /\ out.current = call[d].track
        BY <1>4, <4>1
      <4>2. CASE /\ out.current = slot
                 /\ \A d \in Callers : call[d].kind \in Exchanges => call[d].at # "Ok"
        BY <1>4, <1>8, <4>2
      <4> QED  BY <4>1, <4>2 DEF OneExchange
    <3> QED  BY <1>2, <3>1, <3>2, <3>3 DEF OneExchange
  <2>11. CASE k \in Exchanges
    <3>1. Undecided' = Undecided \cup {t}
      <4>1. Range(queue') \cup {out'.entry, out'.switch}
               = Range(queue) \cup {out.entry, out.switch} \cup {h}
        BY <2>1, <2>2
      <4> QED  BY <1>4, <1>7, <2>11, <4>1, Entry DEF Undecided
    <3>2. PICK u \in Tracks : u = t
      BY <1>4, <2>11
    <3>3. Abstract!Asks(c, u)
      BY <1>4, <1>8, <2>1, <2>11, <3>1, <3>2, ZenonT(40) DEF Abstract!Asks, Told
    <3>4. Abstract!OutputNext
      BY <3>3 DEF Abstract!OutputNext
    <3> QED  BY <2>9, <2>10, <3>4
  <2>12. CASE k \notin Exchanges
    <3>1. Undecided' = Undecided
      <4>1. Range(queue') \cup {out'.entry, out'.switch}
               = Range(queue) \cup {out.entry, out.switch} \cup {h}
        BY <2>1, <2>2
      <4> QED  BY <1>4, <1>7, <2>12, <4>1 DEF Undecided
    <3> QED  BY <1>4, <2>1, <2>9, <2>10, <2>12, <3>1, SeenUnchanged
  <2> QED  BY <2>11, <2>12
<1>9. CASE at = "Err"
  <2>1. UNCHANGED <<queue, out>> /\ HeldNow' = HeldNow /\ Undecided' = Undecided
    BY <1>2, <1>3, <1>9 DEF HeldNow, Undecided
  <2>2. Answers'
    <3>1. CASE out.pc # "Gone"
      <4>1. Owned(call, HeldNow)'
        <5> SUFFICES ASSUME NEW e \in HeldNow, e.by # NoCaller
                     PROVE  call'[e.by] = [at |-> "Waiting", kind |-> e.kind, track |-> e.track]
          BY <2>1 DEF Owned
        <5>1. e.by \in Callers \ {c}
          BY <1>4, <3>1, HeldEntries, NotWaiting
        <5>2. call[e.by] = [at |-> "Waiting", kind |-> e.kind, track |-> e.track]
          BY <3>1 DEF Answers, Owned
        <5> QED  BY <1>4, <5>1, <5>2
      <4>2. Present(call, HeldNow)'
        BY <1>4, <1>9, <2>1, <3>1 DEF Answers, Present
      <4> QED  BY <1>4, <1>9, <2>1, <3>1, <4>1, <4>2 DEF Answers, AllKinds
    <3>2. CASE out.pc = "Gone"
      BY <1>4, <1>9, <2>1, <3>2 DEF Answers, AllKinds
    <3> QED  BY <3>1, <3>2
  <2>3. OneExchange'
    <3>2. ~late => \A d, f \in Callers :
             call'[d].kind \in Exchanges /\ call'[f].kind \in Exchanges => d = f
      BY <1>4 DEF OneExchange
    <3>3. ~late /\ out.current # NoTrack =>
              \/ \E d \in Callers : call'[d].kind \in Exchanges /\ call'[d].at = "Ok"
                                    /\ out.current = call'[d].track
              \/ /\ out.current = slot
                 /\ \A d \in Callers : call'[d].kind \in Exchanges => call'[d].at # "Ok"
      <4> SUFFICES ASSUME ~late, out.current # NoTrack
                   PROVE  \/ \E d \in Callers : call'[d].kind \in Exchanges /\ call'[d].at = "Ok"
                                                /\ out.current = call'[d].track
                          \/ /\ out.current = slot
                             /\ \A d \in Callers : call'[d].kind \in Exchanges => call'[d].at # "Ok"
        OBVIOUS
      <4>1. CASE \E d \in Callers : call[d].kind \in Exchanges /\ call[d].at = "Ok"
                                    /\ out.current = call[d].track
        BY <1>4, <4>1
      <4>2. CASE /\ out.current = slot
                 /\ \A d \in Callers : call[d].kind \in Exchanges => call[d].at # "Ok"
        BY <1>4, <1>9, <4>2
      <4> QED  BY <4>1, <4>2 DEF OneExchange
    <3> QED  BY <1>2, <2>1, <3>2, <3>3 DEF OneExchange
  <2>4. CASE k \in Exchanges
    <3>1. PICK u \in Tracks : u = t
      BY <1>4, <2>4
    <3>2. Abstract!IsTurnedAway(c, u)
      BY <1>4, <1>9, <2>1, <2>4, <3>1, ZenonT(40) DEF Abstract!IsTurnedAway, Told
    <3>3. Abstract!OutputNext
      BY <3>2 DEF Abstract!OutputNext
    <3> QED  BY <2>2, <2>3, <3>3
  <2>5. CASE k \notin Exchanges
    BY <1>4, <2>1, <2>2, <2>3, <2>5, SeenUnchanged
  <2> QED  BY <2>4, <2>5
<1> QED  BY <1>8, <1>9

\* A command keeps its place and its track when its caller gives up.
LEMMA GiveUpPlaces ==
    ASSUME Config, Typed, NEW c \in Callers, GiveUp(c)
    PROVE  /\ out'.pc = out.pc /\ out'.current = out.current
           /\ out'.entry = Unnamed(out.entry, c) /\ out'.switch = Unnamed(out.switch, c)
           /\ out'.interlude.mode = out.interlude.mode
           /\ out'.interlude.switch = Unnamed(out.interlude.switch, c)
           /\ out'.pending = out.pending /\ out'.tone = out.tone /\ out'.paused = out.paused
           /\ out'.bridge = out.bridge
           /\ Len(queue') = Len(queue)
           /\ \A n \in 1 .. Len(queue) : queue'[n] = Unnamed(queue[n], c)
           /\ HeldNow' = {Unnamed(e, c) : e \in HeldNow}
<1>1. /\ out'.pc = out.pc /\ out'.current = out.current
      /\ out'.entry = Unnamed(out.entry, c) /\ out'.switch = Unnamed(out.switch, c)
      /\ out'.interlude.mode = out.interlude.mode
      /\ out'.interlude.switch = Unnamed(out.interlude.switch, c)
      /\ out'.pending = out.pending /\ out'.tone = out.tone /\ out'.paused = out.paused
      /\ out'.bridge = out.bridge
  <2>1. out \in Threads /\ out.interlude \in Inserts
    BY Places
  <2>2. out' = [out EXCEPT !.entry = Unnamed(out.entry, c), !.switch = Unnamed(out.switch, c),
                           !.interlude.switch = Unnamed(out.interlude.switch, c)]
    BY DEF GiveUp
  <2> QED  BY <2>1, <2>2 DEF Threads, Inserts
<1>2. Len(queue) \in Nat /\ queue' = [i \in 1 .. Len(queue) |-> Unnamed(queue[i], c)]
  BY HeldEntries DEF GiveUp
<1>3. /\ Len(queue') = Len(queue) /\ DOMAIN queue' = 1 .. Len(queue)
      /\ DOMAIN queue = 1 .. Len(queue)
      /\ \A n \in 1 .. Len(queue) : queue'[n] = Unnamed(queue[n], c)
  BY <1>2, HeldEntries
<1>4. Range(queue') = {Unnamed(e, c) : e \in Range(queue)}
  BY <1>3 DEF Range
<1>5. HeldNow' = Range(queue') \cup {out'.entry, out'.switch, out'.interlude.switch}
  BY DEF HeldNow
<1>6. HeldNow' = {Unnamed(e, c) : e \in HeldNow}
  BY <1>1, <1>4, <1>5 DEF HeldNow
<1> QED  BY <1>1, <1>3, <1>6

LEMMA GiveUpKeeps ==
    ASSUME Config, Typed, Typed', Keeps, Keeps', Answers, NEW c \in Callers, GiveUp(c)
    PROVE  Answers' /\ OneExchange' /\ (Abstract!OutputNext \/ UNCHANGED Abstract!outputVars)
<1>1. /\ out'.pc = out.pc /\ out'.current = out.current
      /\ out'.entry = Unnamed(out.entry, c) /\ out'.switch = Unnamed(out.switch, c)
      /\ out'.interlude.switch = Unnamed(out.interlude.switch, c)
      /\ Len(queue') = Len(queue)
      /\ \A n \in 1 .. Len(queue) : queue'[n] = Unnamed(queue[n], c)
      /\ HeldNow' = {Unnamed(e, c) : e \in HeldNow}
  BY GiveUpPlaces
<1>2. /\ call[c].at = "Waiting" /\ call' = [call EXCEPT ![c].at = "Err"]
      /\ call \in [Callers -> Calls] /\ out.pc # "Gone" /\ c # NoCaller /\ late' = TRUE
  BY Entry DEF GiveUp, Typed, Answers
<1>3. /\ \A d \in Callers \ {c} : call'[d] = call[d]
      /\ call'[c].at = "Err" /\ call'[c].kind = call[c].kind /\ call'[c].track = call[c].track
  BY <1>2 DEF Calls
<1>4. /\ HeldNow \subseteq Entries
      /\ \A e \in Entries : /\ Unnamed(e, c).kind = e.kind /\ Unnamed(e, c).track = e.track
                            /\ Unnamed(e, c).by = IF e.by = c THEN NoCaller ELSE e.by
      /\ \A n \in 1 .. Len(queue) : queue[n] \in Entries
      /\ out.entry \in Entries /\ out.switch \in Entries /\ out.interlude.switch \in Entries
  <2>1. \A n \in 1 .. Len(queue) : queue[n] \in Entries
    BY HeldEntries, Entry
  <2> QED  BY <2>1, HeldEntries, UnnamedEntry
<1>5. \A e, f \in Entries : Differ(e, f) => Differ(Unnamed(e, c), Unnamed(f, c))
  <2> SUFFICES ASSUME NEW e \in Entries, NEW f \in Entries, Differ(e, f)
               PROVE  Differ(Unnamed(e, c), Unnamed(f, c))
    OBVIOUS
  <2>1. /\ Unnamed(e, c).track = e.track /\ Unnamed(f, c).track = f.track
        /\ Unnamed(e, c).by = IF e.by = c THEN NoCaller ELSE e.by
        /\ Unnamed(f, c).by = IF f.by = c THEN NoCaller ELSE f.by
    BY <1>4
  <2> QED  BY <2>1 DEF Differ
<1>6. Apart(queue', out'.entry, out'.switch, out'.interlude.switch)
  BY <1>1, <1>2, <1>4, <1>5 DEF Apart, Answers
<1>7. Owned(call, HeldNow)'
  <2> SUFFICES ASSUME NEW g \in HeldNow', g.by # NoCaller
               PROVE  call'[g.by] = [at |-> "Waiting", kind |-> g.kind, track |-> g.track]
    BY DEF Owned
  <2>1. PICK e \in HeldNow : g = Unnamed(e, c)
    BY <1>1
  <2>2. g.kind = e.kind /\ g.track = e.track /\ g.by = e.by /\ e.by # c
    BY <1>4, <2>1
  <2>3. call[e.by] = [at |-> "Waiting", kind |-> e.kind, track |-> e.track]
    BY <1>2, <2>2 DEF Answers, Owned
  <2>4. e.by \in Callers \ {c}
    BY <2>2, HeldEntries
  <2> QED  BY <1>3, <2>2, <2>3, <2>4
<1>8. Present(call, HeldNow)'
  <2> SUFFICES ASSUME NEW d \in Callers, call'[d].at = "Waiting" PROVE \E g \in HeldNow' : g.by = d
    BY DEF Present
  <2>1. d # c /\ call[d].at = "Waiting"
    BY <1>3
  <2>2. PICK e \in HeldNow : e.by = d
    BY <1>2, <2>1 DEF Answers, Present
  <2>3. Unnamed(e, c).by = d /\ Unnamed(e, c) \in HeldNow'
    BY <1>1, <1>4, <2>1, <2>2
  <2> QED  BY <2>3
<1>9. Answers'
  BY <1>1, <1>2, <1>3, <1>6, <1>7, <1>8 DEF Answers
<1>10. OneExchange'
  BY <1>2 DEF OneExchange
<1>11. Undecided' = Undecided
  <2>1. Undecided = {e.track : e \in HeldNow} \ {NoTrack}
    BY HeldCommands
  <2>2. Undecided' = {e.track : e \in HeldNow'} \ {NoTrack}
    <3>1. (out.interlude.switch.track = NoTrack)'
      BY Entry DEF Keeps, Exchanges
    <3> QED  BY <3>1 DEF Undecided, HeldNow
  <2>3. {e.track : e \in HeldNow'} = {e.track : e \in HeldNow}
    <3>1. \A g \in HeldNow' : \E e \in HeldNow : g.track = e.track
      BY <1>1, <1>4
    <3>2. \A e \in HeldNow : \E g \in HeldNow' : g.track = e.track
      BY <1>1, <1>4
    <3> QED  BY <3>1, <3>2
  <2> QED  BY <2>1, <2>2, <2>3
<1>12. CASE call[c].kind \in Exchanges
  <2>1. /\ Told(call)[c] = [at |-> "Waiting", track |-> call[c].track]
        /\ \A d \in Callers : Told(call')[d] =
              IF d = c THEN [at |-> "Err", track |-> call[c].track] ELSE Told(call)[d]
    BY <1>2, <1>3, <1>12 DEF Told
  <2>2. Told(call') = [Told(call) EXCEPT ![c].at = "Err"]
    BY <2>1 DEF Told
  <2>3. Abstract!GivesUp(c)
    BY <1>1, <1>2, <1>11, <2>1, <2>2 DEF Abstract!GivesUp, Told
  <2> QED  BY <1>9, <1>10, <2>3 DEF Abstract!OutputNext
<1>13. CASE call[c].kind \notin Exchanges
  <2>1. \A d \in Callers : Told(call')[d] = Told(call)[d]
    BY <1>3, <1>13 DEF Told
  <2> QED  BY <1>1, <1>9, <1>10, <1>11, <2>1, SeenUnchanged
<1> QED  BY <1>12, <1>13

\* A caller who has its answer, or whose thread is joined.
LEMMA SettleKeeps ==
    ASSUME Config, Typed, Typed', Keeps, Answers, OneExchange, NEW c \in Callers,
           Settle(c) \/ Joined(c)
    PROVE  Answers' /\ OneExchange' /\ (Abstract!OutputNext \/ UNCHANGED Abstract!outputVars)
<1>1. /\ call[c].at \in {"Ok", "Err", "Joining"} /\ call \in [Callers -> Calls]
      /\ UNCHANGED <<queue, out, late>> /\ c # NoCaller
      /\ call[c].kind \in Exchanges => call[c].at # "Joining" /\ call[c].track \in Tracks
  BY Entry DEF Settle, Joined, Typed, Answers
<1>2. /\ \A d \in Callers \ {c} : call'[d] = call[d]
      /\ \/ call'[c] = [at |-> "Idle", kind |-> "None", track |-> NoTrack]
         \/ /\ call[c].kind = "Stop" /\ call'[c] = [call[c] EXCEPT !.at = "Joining"]
  BY <1>1 DEF Settle, Joined
<1>3. /\ call'[c].at \in {"Idle", "Joining"} /\ call'[c].kind \notin Exchanges
      /\ call'[c].at = "Idle" => call'[c].kind = "None"
  BY <1>1, <1>2 DEF Calls, Exchanges
<1>4. HeldNow' = HeldNow /\ Undecided' = Undecided
  BY <1>1 DEF HeldNow, Undecided
<1>5. ASSUME out.pc # "Gone" PROVE Owned(call, HeldNow)' /\ Present(call, HeldNow)'
  <2>1. ASSUME NEW e \in HeldNow, e.by # NoCaller
        PROVE  call'[e.by] = [at |-> "Waiting", kind |-> e.kind, track |-> e.track]
    <3>1. e.by # c
      BY <1>1, <1>5, NotWaiting
    <3>2. e.by \in Callers \ {c}
      BY <2>1, <3>1, HeldEntries
    <3>3. call[e.by] = [at |-> "Waiting", kind |-> e.kind, track |-> e.track]
      BY <1>5, <2>1 DEF Answers, Owned
    <3> QED  BY <1>2, <3>2, <3>3
  <2>2. ASSUME NEW d \in Callers, call'[d].at = "Waiting" PROVE \E e \in HeldNow : e.by = d
    <3>1. d # c /\ call[d].at = "Waiting"
      BY <1>2, <1>3, <2>2
    <3> QED  BY <1>5, <3>1 DEF Answers, Present
  <2> QED  BY <1>4, <2>1, <2>2 DEF Owned, Present
<1>6. Answers'
  <2>1. \A d \in Callers : /\ call'[d].at = "Idle" => call'[d].kind = "None"
                           /\ call'[d].kind \in Exchanges =>
                                 call'[d].track \in Tracks /\ call'[d].at # "Joining"
    BY <1>2, <1>3 DEF Answers
  <2>2. out.pc = "Gone" => \A d \in Callers : call'[d].at # "Waiting"
    BY <1>2, <1>3 DEF Answers
  <2> QED  BY <1>1, <1>5, <2>1, <2>2 DEF Answers
<1>7. OneExchange'
  <2> SUFFICES ASSUME ~late
               PROVE  /\ \A d, e \in Callers :
                            call'[d].kind \in Exchanges /\ call'[e].kind \in Exchanges => d = e
                      /\ out.current # NoTrack =>
                            \/ \E d \in Callers : call'[d].kind \in Exchanges /\ call'[d].at = "Ok"
                                                  /\ out.current = call'[d].track
                            \/ /\ out.current = slot'
                               /\ \A d \in Callers : call'[d].kind \in Exchanges => call'[d].at # "Ok"
    BY <1>1, <1>4 DEF OneExchange
  <2>1. \A d, e \in Callers : call'[d].kind \in Exchanges /\ call'[e].kind \in Exchanges => d = e
    BY <1>2, <1>3 DEF OneExchange
  <2>2. ASSUME out.current # NoTrack, call[c].kind \in Exchanges
        PROVE  out.current = slot'
               /\ \A d \in Callers : call'[d].kind \in Exchanges => call'[d].at # "Ok"
    <3>1. \A d \in Callers : call[d].kind \in Exchanges => d = c
      BY <2>2 DEF OneExchange
    <3>2. \A d \in Callers : call'[d].kind \notin Exchanges
      BY <1>2, <1>3, <3>1
    <3>3. Settle(c)
      BY <1>1, <2>2 DEF Joined
    <3>4. CASE call[c].at = "Ok"
      <4>1. slot' = call[c].track
        BY <2>2, <3>3, <3>4 DEF Settle
      <4> QED  BY <2>2, <3>1, <3>2, <3>4, <4>1 DEF OneExchange
    <3>5. CASE call[c].at # "Ok"
      <4>1. slot' = slot
        BY <2>2, <3>3, <3>5 DEF Settle
      <4> QED  BY <2>2, <3>1, <3>2, <3>5, <4>1 DEF OneExchange
    <3> QED  BY <3>4, <3>5
  <2>3. ASSUME out.current # NoTrack, call[c].kind \notin Exchanges
        PROVE  \/ \E d \in Callers : call'[d].kind \in Exchanges /\ call'[d].at = "Ok"
                                     /\ out.current = call'[d].track
               \/ /\ out.current = slot'
                  /\ \A d \in Callers : call'[d].kind \in Exchanges => call'[d].at # "Ok"
    <3>1. slot' = slot
      BY <2>3 DEF Settle, Joined
    <3>2. CASE \E d \in Callers : call[d].kind \in Exchanges /\ call[d].at = "Ok"
                                  /\ out.current = call[d].track
      BY <1>2, <2>3, <3>2
    <3>3. CASE /\ out.current = slot
               /\ \A d \in Callers : call[d].kind \in Exchanges => call[d].at # "Ok"
      BY <1>2, <1>3, <3>1, <3>3
    <3> QED  BY <2>3, <3>2, <3>3 DEF OneExchange
  <2> QED  BY <2>1, <2>2, <2>3
<1>8. CASE call[c].kind \in Exchanges
  <2>1. /\ Told(call)[c] = [at |-> call[c].at, track |-> call[c].track]
        /\ \A d \in Callers : Told(call')[d] =
              IF d = c THEN [at |-> "None", track |-> NoTrack] ELSE Told(call)[d]
    BY <1>2, <1>3, <1>8 DEF Told
  <2>2. Told(call') = [Told(call) EXCEPT ![c] = [at |-> "None", track |-> NoTrack]]
    BY <2>1 DEF Told
  <2>3. call[c].at \in {"Ok", "Err"}
    BY <1>1, <1>8
  <2>4. Abstract!Settles(c)
    BY <1>1, <1>4, <2>1, <2>2, <2>3
       DEF Abstract!Settles, Abstract!NoAsk, Abstract!NoTrack, NoTrack, Told
  <2> QED  BY <1>6, <1>7, <2>4 DEF Abstract!OutputNext
<1>9. CASE call[c].kind \notin Exchanges
  <2>1. \A d \in Callers : Told(call')[d] = Told(call)[d]
    BY <1>2, <1>3, <1>9 DEF Told
  <2> QED  BY <1>1, <1>4, <1>6, <1>7, <2>1, SeenUnchanged
<1> QED  BY <1>8, <1>9

\* No step forgets or answers twice, and each is one of the abstract output or none.
LEMMA NextKeepsAnswers ==
    ASSUME Config, Typed, Typed', Keeps, Keeps', Answers, OneExchange, Next
    PROVE  Answers' /\ OneExchange' /\ (Abstract!OutputNext \/ UNCHANGED Abstract!outputVars)
<1>1. CASE Thread
  <2>1. Decides
    BY <1>1, ThreadDecides
  <2>2. ASSUME NEW D, NEW r \in {"Ok", "Err"}, Passes(D, r)
        PROVE  Answers' /\ OneExchange' /\ Abstract!OutputNext
    BY <2>2, PassesAnswers, PassesOneExchange, PassesRefine
  <2>3. CASE Ends
    BY <2>3, EndsAnswers, EndsOneExchange, EndsRefine
  <2> QED  BY <2>1, <2>2, <2>3 DEF Decides
<1>2. CASE \E t \in Tracks : TrackFed(t)
  <2>1. UNCHANGED <<call, queue, out, slot, late>>
    BY <1>2 DEF TrackFed
  <2> QED  BY <2>1, WorldKeeps
<1>3. CASE MicrophoneFails \/ Callback
  <2>1. UNCHANGED <<call, queue, slot, late>>
        /\ (out' = out \/ out' = [out EXCEPT !.bridge = "Revoked"])
    BY <1>3 DEF MicrophoneFails, Callback
  <2> QED  BY <2>1, WorldKeeps
<1> QED  BY <1>1, <1>2, <1>3, AskKeeps, GiveUpKeeps, SettleKeeps DEF Next
-----------------------------------------------------------------------------
(* What the thread keeps for later *)

LEMMA KeepsInLoop ==
    ASSUME Config, Typed, Keeps, out.pc # "Gone", out'.pc = "Loop", out'.entry = NoEntry,
           out'.switch \in {out.switch, NoEntry},
           out'.switch # NoEntry => /\ out'.current = out.current /\ out'.paused = out.paused
                                    /\ out'.tone = out.tone,
           out'.interlude.switch \in {out.interlude.switch, NoEntry}
    PROVE  Keeps'
BY DEF Keeps

LEMMA KeepsHandler ==
    ASSUME Config, Typed, Keeps, Handler
    PROVE  Keeps'
<1>1. /\ out \in Threads /\ out.interlude \in Inserts /\ out.pc = "Loop" /\ out.entry = NoEntry
  <2>1. out.pc = "Loop"
    BY DEF Handler, Handles, HandleAdjust, HandleSetCurrent, HandleCrossfadeTo, HandleTone,
           HandleStartInterlude, HandleCrossfadeInterlude, HandleInterludeMode, HandleEnableMic,
           HandleDisableMic, HandlePause, HandleResume, HandleClear, HandleStop
  <2> QED  BY <2>1, Places DEF Keeps
<1>2. ASSUME \/ out' = out \/ out' = [out EXCEPT !.bridge = "Held"]
             \/ out' = [out EXCEPT !.bridge = "None"]
             \/ out' = [out EXCEPT !.switch = NoEntry, !.pending = <<>>, !.tone = NoTone]
             \/ out' = [out EXCEPT !.switch = NoEntry, !.paused = TRUE]
      PROVE  Keeps'
  <2>1. /\ out'.pc = "Loop" /\ out'.entry = NoEntry /\ out'.switch \in {out.switch, NoEntry}
        /\ out'.switch # NoEntry => /\ out'.current = out.current /\ out'.paused = out.paused
                                    /\ out'.tone = out.tone
        /\ out'.interlude = out.interlude
    BY <1>1, <1>2, ZenonT(40) DEF Threads
  <2> QED  BY <1>1, <2>1, KeepsInLoop
<1>3. CASE HandleAdjust \/ HandleEnableMic \/ HandleDisableMic \/ HandlePause
  BY <1>2, <1>3 DEF HandleAdjust, HandleEnableMic, HandleDisableMic, HandlePause
<1>4. CASE HandleResume
  <2>1. CASE out' = [out EXCEPT !.paused = FALSE]
    <3>1. /\ out'.pc = "Loop" /\ out'.entry = NoEntry /\ out'.switch = out.switch
          /\ out'.current = out.current /\ out'.paused = FALSE /\ out'.tone = out.tone
          /\ out'.interlude = out.interlude
      BY <1>1, <2>1 DEF Threads
    <3> QED  BY <1>1, <3>1 DEF Keeps
  <2> QED  BY <1>2, <1>4, <2>1 DEF HandleResume
\* The commands that wait for the ring.
<1>5. ASSUME out'.pc = "Clearing", out'.entry = Hd, out'.switch = NoEntry, out'.pending = <<>>,
             ~out'.tone.on, out'.interlude.switch \in {out.interlude.switch, NoEntry},
             NEW k \in {"SetCurrent", "Tone", "Clear"}, Handles(k)
      PROVE  Keeps'
  <2>1. Hd \in Commands /\ Hd.kind = k
    BY <1>5, Handled
  <2> QED  BY <1>5, <2>1 DEF Keeps
<1>6. CASE HandleSetCurrent
  <2>1. CASE out' = [out EXCEPT !.switch = NoEntry, !.pending = <<>>, !.tone = NoTone,
                                !.paused = TRUE, !.pc = "Clearing", !.entry = Hd]
    <3>1. /\ out'.pc = "Clearing" /\ out'.entry = Hd /\ out'.switch = NoEntry
          /\ out'.pending = <<>> /\ out'.tone = NoTone /\ out'.interlude = out.interlude
      <4> HIDE DEF Hd
      <4> QED  BY <1>1, <2>1 DEF Threads
    <3>2. ~NoTone.on /\ Handles("SetCurrent")
      BY <1>6 DEF NoTone, HandleSetCurrent
    <3> QED  BY <1>5, <3>1, <3>2
  <2> QED  BY <1>2, <1>6, <2>1 DEF HandleSetCurrent
<1>7. CASE HandleCrossfadeTo
  <2>1. CASE /\ out' = [out EXCEPT !.switch = Hd]
             /\ out.current # NoTrack /\ ~out.paused /\ ~out.tone.on
    <3>1. /\ out'.pc = "Loop" /\ out'.entry = NoEntry /\ out'.switch = Hd
          /\ out'.current = out.current /\ out'.paused = out.paused /\ out'.tone = out.tone
          /\ out'.interlude = out.interlude
      <4> HIDE DEF Hd
      <4> QED  BY <1>1, <2>1 DEF Threads
    <3>2. Hd \in Commands /\ Hd.kind = "CrossfadeTo"
      BY <1>7, Handled DEF HandleCrossfadeTo
    <3> QED  BY <2>1, <3>1, <3>2 DEF Keeps
  <2> QED  BY <1>2, <1>7, <2>1 DEF HandleCrossfadeTo
<1>8. CASE HandleTone
  <2>1. CASE /\ out' = [out EXCEPT !.pending = <<>>, !.pc = "Clearing", !.entry = Hd]
             /\ out.switch = NoEntry /\ ~out.tone.on
    <3>1. /\ out'.pc = "Clearing" /\ out'.entry = Hd /\ out'.switch = NoEntry
          /\ out'.pending = <<>> /\ out'.tone = out.tone /\ out'.interlude = out.interlude
      <4> HIDE DEF Hd
      <4> QED  BY <1>1, <2>1 DEF Threads
    <3>2. Handles("Tone")
      BY <1>8 DEF HandleTone
    <3> QED  BY <1>5, <2>1, <3>1, <3>2
  <2> QED  BY <1>2, <1>8, <2>1 DEF HandleTone
<1>9. CASE HandleClear
  <2>1. out' = [out EXCEPT !.pc = "Clearing", !.entry = Hd, !.switch = NoEntry, !.pending = <<>>,
                           !.current = NoTrack, !.tone = NoTone, !.interlude = NoInterlude,
                           !.bridge = "None", !.paused = TRUE]
    BY <1>9 DEF HandleClear
  <2>2. /\ out'.pc = "Clearing" /\ out'.entry = Hd /\ out'.switch = NoEntry
        /\ out'.pending = <<>> /\ out'.tone = NoTone /\ out'.interlude = NoInterlude
    <4> HIDE DEF Hd
    <4> QED  BY <1>1, <2>1 DEF Threads
  <2>3. ~NoTone.on /\ Handles("Clear") /\ NoInterlude.switch = NoEntry
    BY <1>9 DEF NoTone, HandleClear, NoInterlude
  <2> QED  BY <1>5, <2>2, <2>3
<1>10. CASE HandleStop
  <2>1. /\ out'.pc = "Gone" /\ out'.entry = NoEntry /\ out'.switch = NoEntry
        /\ out'.interlude = NoInterlude
    BY <1>1, <1>10 DEF HandleStop, Ended, Threads
  <2> QED  BY <2>1 DEF Keeps, NoInterlude
\* The commands of the insert.
<1>11. ASSUME NEW i, out' = [out EXCEPT !.interlude = i],
              i.switch \in {out.interlude.switch, NoEntry}
       PROVE  Keeps'
  <2>1. /\ out'.pc = "Loop" /\ out'.entry = NoEntry /\ out'.switch = out.switch
        /\ out'.current = out.current /\ out'.paused = out.paused /\ out'.tone = out.tone
        /\ out'.interlude = i
    BY <1>1, <1>11 DEF Threads
  <2> QED  BY <1>1, <1>11, <2>1, KeepsInLoop
<1>12. CASE HandleStartInterlude
  <2>1. CASE out' = [out EXCEPT !.interlude = [mode |-> "On", switch |-> NoEntry]]
    BY <1>11, <2>1
  <2> QED  BY <1>2, <1>12, <2>1 DEF HandleStartInterlude
<1>13. CASE HandleCrossfadeInterlude
  <2>1. CASE out' = [out EXCEPT !.interlude.switch = Hd]
    <3>1. /\ out'.pc = "Loop" /\ out'.entry = NoEntry /\ out'.switch = out.switch
          /\ out'.current = out.current /\ out'.paused = out.paused /\ out'.tone = out.tone
          /\ out'.interlude.switch = Hd
      <4> HIDE DEF Hd
      <4> QED  BY <1>1, <2>1 DEF Threads, Inserts
    <3>2. Hd \in Commands /\ Hd.kind = "CrossfadeInterlude"
      BY <1>13, Handled DEF HandleCrossfadeInterlude
    <3> QED  BY <1>1, <3>1, <3>2 DEF Keeps
  <2> QED  BY <1>2, <1>13, <2>1 DEF HandleCrossfadeInterlude
<1>14. CASE HandleInterludeMode
  <2>1. PICK l \in DOMAIN InterludeMode :
           \/ out' = out
           \/ out' = [out EXCEPT !.interlude =
                        [mode   |-> InterludeMode[l],
                         switch |-> IF l = "ResumeInterlude" THEN out.interlude.switch ELSE NoEntry]]
    BY <1>14 DEF HandleInterludeMode
  <2>2. PICK i : i = [mode   |-> InterludeMode[l],
                      switch |-> IF l = "ResumeInterlude" THEN out.interlude.switch ELSE NoEntry]
    BY ZenonT(40)
  <2>3. i.switch \in {out.interlude.switch, NoEntry}
    BY <2>2
  <2> QED  BY <1>2, <1>11, <2>1, <2>2, <2>3
<1> QED  BY <1>3, <1>4, <1>6, <1>7, <1>8, <1>9, <1>10, <1>12, <1>13, <1>14 DEF Handler

LEMMA KeepsClearingOrLoop ==
    ASSUME Config, Typed, Keeps, Clearing \/ Loop
    PROVE  Keeps'
<1>1. /\ out \in Threads /\ out.interlude \in Inserts /\ out.pc # "Gone" /\ NoInterlude.switch = NoEntry
  BY Places, ZenonT(40)
     DEF Clearing, SetCurrentCommits, ToneStarts, ClearDone, ClearingTimesOut, Loop,
         MicrophoneTakenBack, ClockRefreshed, ToneEnds, SwitchRefused, SwitchCommits, Refill, Write,
         Switches, Turn, NoInterlude
<1>2. \A m \in Mixes(out.interlude) : m.to.switch \in {out.interlude.switch, NoEntry}
  BY <1>1, MixedInsert, ZenonT(40)
<1>3. CASE Clearing
  <2>1. out.switch = NoEntry /\ out.pc = "Clearing"
    BY <1>3, ZenonT(40)
       DEF Clearing, SetCurrentCommits, ToneStarts, ClearDone, ClearingTimesOut, Keeps
  <2>2. /\ out'.pc = "Loop" /\ out'.entry = NoEntry /\ out'.switch = NoEntry
        /\ out'.interlude.switch \in {out.interlude.switch, NoEntry}
    <3>1. CASE SetCurrentCommits
      <4>1. PICK m \in Mixes(out.interlude) :
               \/ out' = [out EXCEPT !.pc = "Loop", !.entry = NoEntry,
                                     !.current = out.entry.track, !.interlude = m.to]
               \/ out' = [out EXCEPT !.pc = "Loop", !.entry = NoEntry, !.current = NoTrack,
                                     !.interlude = m.to]
        BY <3>1 DEF SetCurrentCommits
      <4> QED  BY <1>1, <1>2, <2>1, <4>1, ZenonT(40) DEF Threads
    <3>2. CASE ToneStarts
      <4>1. out' = [out EXCEPT !.pc = "Loop", !.entry = NoEntry, !.pending = ToneSamples,
                               !.tone = [on |-> TRUE, restore |-> out.paused], !.paused = FALSE]
        BY <3>2 DEF ToneStarts
      <4> QED  BY <1>1, <2>1, <4>1 DEF Threads
    <3>3. CASE ClearDone \/ ClearingTimesOut
      BY <1>1, <2>1, <3>3 DEF ClearDone, ClearingTimesOut, Threads
    <3> QED  BY <1>3, <3>1, <3>2, <3>3 DEF Clearing
  <2> QED  BY <1>1, <2>2, KeepsInLoop, ZenonT(40)
<1>4. CASE Loop /\ out'.pc # "Gone"
  <2>1. out.pc = "Loop" /\ out.entry = NoEntry
    BY <1>4, ZenonT(40)
       DEF Loop, MicrophoneTakenBack, ClockRefreshed, ToneEnds, SwitchRefused, SwitchCommits,
           Refill, Write, Switches, Turn, Keeps
  <2>2. CASE out' = out \/ out' = [out EXCEPT !.bridge = "None"] \/ out' = [out EXCEPT !.switch = NoEntry]
    <3>1. /\ out'.pc = "Loop" /\ out'.entry = NoEntry /\ out'.switch \in {out.switch, NoEntry}
          /\ out'.current = out.current /\ out'.paused = out.paused /\ out'.tone = out.tone
          /\ out'.interlude = out.interlude
      BY <1>1, <2>1, <2>2 DEF Threads
    <3> QED  BY <1>1, <3>1, KeepsInLoop
  <2>3. CASE MicrophoneTakenBack
    <3>1. [Ended EXCEPT !.failed = TRUE].pc = "Gone"
      BY <1>1 DEF Ended, Threads
    <3> QED  BY <1>4, <2>2, <2>3, <3>1 DEF MicrophoneTakenBack
  <2>4. CASE ClockRefreshed \/ SwitchRefused
    BY <2>2, <2>4 DEF ClockRefreshed, SwitchRefused
  <2>5. CASE ToneEnds
    <3>1. out.switch = NoEntry
      BY <2>5 DEF Keeps, ToneEnds
    <3>2. out' = [out EXCEPT !.tone = NoTone, !.paused = out.tone.restore]
      BY <2>5 DEF ToneEnds
    <3>3. /\ out'.pc = "Loop" /\ out'.entry = NoEntry /\ out'.switch = NoEntry
          /\ out'.interlude = out.interlude
      BY <1>1, <2>1, <3>1, <3>2, ZenonT(40) DEF Threads
    <3> QED  BY <1>1, <3>3, KeepsInLoop
  <2>6. CASE SwitchCommits
    <3>1. PICK m \in Mixes(out.interlude) :
             \/ out' = [out EXCEPT !.current = out.switch.track, !.switch = NoEntry,
                                   !.interlude = m.to]
             \/ out' = [out EXCEPT !.switch = NoEntry, !.interlude = m.to]
      BY <2>6, ZenonT(40) DEF SwitchCommits
    <3>2. /\ out'.pc = "Loop" /\ out'.entry = NoEntry /\ out'.switch = NoEntry
          /\ out'.interlude.switch \in {out.interlude.switch, NoEntry}
      BY <1>1, <1>2, <2>1, <3>1, ZenonT(40) DEF Threads
    <3> QED  BY <1>1, <3>2, KeepsInLoop, ZenonT(40)
  <2>7. CASE Refill
    <3>1. PICK m \in Mixes(out.interlude) :
             out' = [out EXCEPT !.pending = Frames(out.current, 1), !.interlude = m.to]
      BY <2>7 DEF Refill
    <3>2. PICK p : p = Frames(out.current, 1)
      OBVIOUS
    <3>3. /\ out'.pc = "Loop" /\ out'.entry = NoEntry /\ out'.switch = out.switch
          /\ out'.current = out.current /\ out'.paused = out.paused /\ out'.tone = out.tone
          /\ out'.interlude.switch \in {out.interlude.switch, NoEntry}
      BY <1>1, <1>2, <2>1, <3>1, <3>2 DEF Threads
    <3> QED  BY <1>1, <3>3, KeepsInLoop
  <2>8. CASE Write
    <3>1. [Ended EXCEPT !.failed = TRUE].pc = "Gone"
      BY <1>1 DEF Ended, Threads
    <3>2. PICK p : p = Tail(out.pending)
      OBVIOUS
    <3>3. out' = [out EXCEPT !.pending = p]
      BY <1>4, <2>8, <3>1, <3>2 DEF Write
    <3>4. /\ out'.pc = "Loop" /\ out'.entry = NoEntry /\ out'.switch = out.switch
          /\ out'.current = out.current /\ out'.paused = out.paused /\ out'.tone = out.tone
          /\ out'.interlude = out.interlude
      BY <1>1, <2>1, <3>3 DEF Threads
    <3> QED  BY <1>1, <3>4, KeepsInLoop
  <2> QED  BY <1>4, <2>3, <2>4, <2>5, <2>6, <2>7, <2>8, ZenonT(40) DEF Loop
<1>5. CASE Loop /\ out'.pc = "Gone"
  <2>1. out.pc = "Loop"
    BY <1>5, ZenonT(40)
       DEF Loop, MicrophoneTakenBack, ClockRefreshed, ToneEnds, SwitchRefused, SwitchCommits,
           Refill, Write, Switches, Turn
  <2>2. CASE out' = [Ended EXCEPT !.failed = TRUE]
    <3>1. /\ out'.pc = "Gone" /\ out'.entry = NoEntry /\ out'.switch = NoEntry
          /\ out'.interlude = NoInterlude
      BY <1>1, <2>2 DEF Ended, Threads
    <3> QED  BY <1>1, <3>1 DEF Keeps
  <2>3. CASE MicrophoneTakenBack
    <3>1. [out EXCEPT !.bridge = "None"].pc = "Loop"
      BY <1>1, <2>1 DEF Threads
    <3> QED  BY <1>5, <2>2, <2>3, <3>1 DEF MicrophoneTakenBack
  <2>4. CASE Write
    <3>1. PICK p : p = Tail(out.pending)
      OBVIOUS
    <3>2. [out EXCEPT !.pending = p].pc = "Loop"
      BY <1>1, <2>1 DEF Threads
    <3> QED  BY <1>5, <2>2, <2>4, <3>1, <3>2 DEF Write
  <2>5. CASE ClockRefreshed \/ ToneEnds \/ SwitchRefused
    BY <1>1, <1>5, <2>1, <2>5, ZenonT(40) DEF ClockRefreshed, ToneEnds, SwitchRefused, Threads
  <2>6. CASE SwitchCommits
    <3>1. PICK m \in Mixes(out.interlude) :
             \/ out' = [out EXCEPT !.current = out.switch.track, !.switch = NoEntry,
                                   !.interlude = m.to]
             \/ out' = [out EXCEPT !.switch = NoEntry, !.interlude = m.to]
      BY <2>6 DEF SwitchCommits
    <3> QED  BY <1>1, <1>5, <2>1, <3>1 DEF Threads
  <2>7. CASE Refill
    <3>1. PICK m \in Mixes(out.interlude) :
             out' = [out EXCEPT !.pending = Frames(out.current, 1), !.interlude = m.to]
      BY <2>7 DEF Refill
    <3>2. PICK p : p = Frames(out.current, 1)
      OBVIOUS
    <3> QED  BY <1>1, <1>5, <2>1, <3>1, <3>2 DEF Threads
  <2> QED  BY <1>5, <2>3, <2>4, <2>5, <2>6, <2>7, ZenonT(40) DEF Loop
<1> QED  BY <1>3, <1>4, <1>5, ZenonT(40)

LEMMA KeepsNext ==
    ASSUME Config, Typed, Keeps, Next
    PROVE  Keeps'
<1>1. CASE Thread
  BY <1>1, KeepsHandler, KeepsClearingOrLoop DEF Thread
<1>2. ASSUME NEW c \in Callers, GiveUp(c) PROVE Keeps'
  <2>1. /\ out'.pc = out.pc /\ out'.current = out.current
        /\ out'.entry = Unnamed(out.entry, c) /\ out'.switch = Unnamed(out.switch, c)
        /\ out'.interlude.mode = out.interlude.mode
        /\ out'.interlude.switch = Unnamed(out.interlude.switch, c)
        /\ out'.pending = out.pending /\ out'.tone = out.tone /\ out'.paused = out.paused
    BY <1>2, GiveUpPlaces
  <2>2. /\ out.entry \in Entries /\ out.switch \in Entries /\ out.interlude.switch \in Entries
        /\ out.interlude \in Inserts /\ out \in Threads
        /\ Unnamed(NoEntry, c) = NoEntry
        /\ \A e \in Entries : /\ Unnamed(e, c).kind = e.kind
                              /\ e \in Commands => Unnamed(e, c) \in Commands
    BY HeldEntries, Places, UnnamedEntry, Entry
  <2>3. out.pc = "Gone" => out'.interlude = out.interlude
    <3>1. out' = [out EXCEPT !.entry = Unnamed(out.entry, c), !.switch = Unnamed(out.switch, c),
                             !.interlude.switch = Unnamed(out.interlude.switch, c)]
      BY <1>2 DEF GiveUp
    <3>2. out.pc = "Gone" => out.interlude.switch = NoEntry
      BY DEF Keeps, NoInterlude
    <3> QED  BY <2>2, <3>1, <3>2 DEF Threads, Inserts
  <2> QED  BY <2>1, <2>2, <2>3 DEF Keeps
<1>3. ASSUME out' = out \/ out' = [out EXCEPT !.bridge = "Revoked"] PROVE Keeps'
  <2>1. /\ out'.pc = out.pc /\ out'.entry = out.entry /\ out'.switch = out.switch
        /\ out'.interlude = out.interlude /\ out'.current = out.current
        /\ out'.pending = out.pending /\ out'.tone = out.tone /\ out'.paused = out.paused
    BY <1>3, Places DEF Threads
  <2> QED  BY <2>1 DEF Keeps
<1>4. ASSUME NEW c \in Callers, Ask(c) \/ Settle(c) \/ Joined(c) PROVE Keeps'
  BY <1>3, <1>4 DEF Ask, Settle, Joined
<1>5. CASE (\E t \in Tracks : TrackFed(t)) \/ MicrophoneFails \/ Callback
  BY <1>3, <1>5 DEF TrackFed, MicrophoneFails, Callback
<1> QED  BY <1>1, <1>2, <1>4, <1>5 DEF Next
-----------------------------------------------------------------------------
(* What was read of the tracks *)

LEMMA Counts ==
    ASSUME Config, Typed
    PROVE  /\ tracks \in [Tracks -> Progress] /\ TrackLength \in Nat
           /\ \A u \in Tracks : tracks[u].taken \in Nat /\ tracks[u].decoded \in Nat
<1>1. tracks \in [Tracks -> Progress] /\ TrackLength \in Nat
  BY DEF Typed, Config, OutputAssumption
<1>2. \A p \in Progress : p.taken \in Nat /\ p.decoded \in Nat
  BY <1>1 DEF Progress
<1> QED  BY <1>1, <1>2

\* A step that reads no track.
LEMMA FreshUnread ==
    ASSUME Config, Typed, Typed', Keeps, Fresh,
           \A t \in Tracks : tracks'[t].taken = tracks[t].taken /\ tracks'[t].decoded >= tracks[t].decoded,
           out'.current \in {out.current, NoTrack},
           out'.pc # "Gone" => out.pc # "Gone",
           out'.pc # "Gone" =>
              \A e \in HeldNow' : e.track \in Tracks =>
                 tracks[e.track].taken = 0,
           out'.pc = "Clearing" /\ out'.entry.kind = "SetCurrent" =>
              /\ out'.entry.track \in Tracks
              /\ Available(out'.entry.track) >= Watermark
    PROVE  Fresh'
<1>1. \A t \in Tracks : /\ tracks'[t].taken \in Nat /\ tracks'[t].decoded \in Nat
                        /\ tracks[t].taken \in Nat /\ tracks[t].decoded \in Nat
  BY DEF Typed, Progress, Config, OutputAssumption
<1>2. \A t \in Tracks : tracks'[t].taken <= tracks'[t].decoded
  BY <1>1 DEF Fresh
<1>3. Watermark \in Nat
  BY DEF Config, StreamAssumption
<1>4. out'.pc = "Clearing" /\ out'.entry.kind = "SetCurrent" =>
         tracks'[out'.entry.track].decoded - tracks'[out'.entry.track].taken >= Watermark
  BY <1>1, <1>3 DEF Available
<1>5. out'.current # NoTrack => tracks'[out'.current].taken >= 1
  <2> SUFFICES ASSUME out'.current # NoTrack PROVE tracks'[out'.current].taken >= 1
    OBVIOUS
  <2>1. out'.current = out.current /\ out.current \in Tracks
    BY Places DEF Threads
  <2> QED  BY <2>1 DEF Fresh
<1> QED  BY <1>2, <1>4, <1>5 DEF Fresh, Available

\* The commands that are held after a step of the thread were held before it.
LEMMA ThreadHolds ==
    ASSUME Config, Typed, Keeps, Answers, Thread
    PROVE  /\ out.pc # "Gone"
           /\ out'.pc # "Gone" => HeldNow' \subseteq HeldNow \cup {NoEntry}
<1>1. Decides
  BY ThreadDecides
<1>2. ASSUME NEW D, NEW r, Passes(D, r)
      PROVE  out.pc # "Gone" /\ HeldNow' \subseteq HeldNow \cup {NoEntry}
  BY <1>2 DEF Passes, Forgotten
<1> QED  BY <1>1, <1>2 DEF Decides, Ends

LEMMA FreshThreadUnread ==
    ASSUME Config, Typed, Typed', Keeps, Answers, Fresh, Thread, UNCHANGED tracks,
           out'.current \in {out.current, NoTrack},
           out'.pc = "Clearing" /\ out'.entry.kind = "SetCurrent" =>
              /\ out'.entry.track \in Tracks
              /\ Available(out'.entry.track) >= Watermark
    PROVE  Fresh'
<1>1. /\ out.pc # "Gone" /\ (out'.pc # "Gone" => HeldNow' \subseteq HeldNow \cup {NoEntry})
  BY ThreadHolds
<1>2. NoEntry.track \notin Tracks
  BY Entry
<1>3. \A e \in HeldNow : e.track \in Tracks => tracks[e.track].taken = 0
  BY <1>1 DEF Fresh
<1>4. \A t \in Tracks : tracks'[t].taken = tracks[t].taken /\ tracks'[t].decoded >= tracks[t].decoded
  BY DEF Typed, Progress, Config, OutputAssumption
<1> QED  BY <1>1, <1>2, <1>3, <1>4, FreshUnread

LEMMA FreshHandler ==
    ASSUME Config, Typed, Typed', Keeps, Answers, Fresh, Handler
    PROVE  Fresh'
<1>1. /\ out \in Threads /\ out.interlude \in Inserts /\ out.pc = "Loop" /\ Thread /\ UNCHANGED tracks
  <2>1. out.pc = "Loop" /\ UNCHANGED tracks
    BY DEF Handler, Handles, HandleAdjust, HandleSetCurrent, HandleCrossfadeTo, HandleTone,
           HandleStartInterlude, HandleCrossfadeInterlude, HandleInterludeMode, HandleEnableMic,
           HandleDisableMic, HandlePause, HandleResume, HandleClear, HandleStop
  <2> QED  BY <2>1, Places DEF Thread
<1>2. ASSUME out'.pc \in {"Loop", "Gone"}, out'.current = out.current PROVE Fresh'
  BY <1>1, <1>2, FreshThreadUnread
<1>3. CASE HandleSetCurrent
  <2>1. Handles("SetCurrent") /\ Hd \in Commands /\ Hd.track \in Tracks
    BY <1>3, Handled DEF HandleSetCurrent, Exchanges
  <2>2. CASE out' = [out EXCEPT !.switch = NoEntry, !.pending = <<>>, !.tone = NoTone]
    BY <1>1, <1>2, <2>2 DEF Threads
  <2>3. CASE /\ out' = [out EXCEPT !.switch = NoEntry, !.pending = <<>>, !.tone = NoTone,
                                   !.paused = TRUE, !.pc = "Clearing", !.entry = Hd]
             /\ ~(Available(Hd.track) < Watermark)
    <3>1. out'.current = out.current /\ out'.entry = Hd
      <4> HIDE DEF Hd
      <4> QED  BY <1>1, <2>3 DEF Threads
    <3>2. Available(Hd.track) \in Int /\ Watermark \in Nat
      BY <2>1, SMTT(30) DEF Available, Typed, Progress, Config, OutputAssumption, StreamAssumption
    <3>3. Available(Hd.track) >= Watermark
      BY <2>3, <3>2
    <3> QED  BY <1>1, <2>1, <3>1, <3>3, FreshThreadUnread
  <2> QED  BY <1>3, <2>2, <2>3 DEF HandleSetCurrent
<1>4. ASSUME NEW k, Handles(k), k # "SetCurrent", out'.current \in {out.current, NoTrack},
             out'.entry = Hd
      PROVE  Fresh'
  <2>1. out'.entry.kind # "SetCurrent"
    BY <1>4, Handled
  <2> QED  BY <1>1, <1>4, <2>1, FreshThreadUnread
<1>5. CASE HandleTone
  <2>1. CASE out' = [out EXCEPT !.pending = <<>>, !.pc = "Clearing", !.entry = Hd]
    <3>1. out'.current = out.current /\ out'.entry = Hd
      <4> HIDE DEF Hd
      <4> QED  BY <1>1, <2>1 DEF Threads
    <3>2. Handles("Tone") /\ "Tone" # "SetCurrent"
      BY <1>5 DEF HandleTone
    <3> QED  BY <1>4, <3>1, <3>2
  <2> QED  BY <1>1, <1>2, <1>5, <2>1 DEF HandleTone
<1>6. CASE HandleClear
  <2>1. out' = [out EXCEPT !.pc = "Clearing", !.entry = Hd, !.switch = NoEntry, !.pending = <<>>,
                           !.current = NoTrack, !.tone = NoTone, !.interlude = NoInterlude,
                           !.bridge = "None", !.paused = TRUE]
    BY <1>6 DEF HandleClear
  <2>2. out'.current = NoTrack /\ out'.entry = Hd
    <3> HIDE DEF Hd
    <3> QED  BY <1>1, <2>1 DEF Threads
  <2>3. Handles("Clear") /\ "Clear" # "SetCurrent"
    BY <1>6 DEF HandleClear
  <2> QED  BY <1>4, <2>2, <2>3
<1>7. CASE HandleAdjust \/ HandleEnableMic \/ HandleDisableMic \/ HandlePause \/ HandleResume
  <2>1. \/ out' = out \/ out' = [out EXCEPT !.bridge = "Held"]
        \/ out' = [out EXCEPT !.bridge = "None"]
        \/ out' = [out EXCEPT !.switch = NoEntry, !.paused = TRUE]
        \/ out' = [out EXCEPT !.paused = FALSE]
    BY <1>7 DEF HandleAdjust, HandleEnableMic, HandleDisableMic, HandlePause, HandleResume
  <2>2. out'.pc = "Loop" /\ out'.current = out.current
    BY <1>1, <2>1, ZenonT(40) DEF Threads
  <2> QED  BY <1>2, <2>2
<1>8. CASE HandleCrossfadeTo \/ HandleCrossfadeInterlude
  <2>1. \/ out' = out \/ out' = [out EXCEPT !.switch = Hd]
        \/ out' = [out EXCEPT !.interlude.switch = Hd]
    BY <1>8 DEF HandleCrossfadeTo, HandleCrossfadeInterlude
  <2>2. out'.pc = "Loop" /\ out'.current = out.current
    <3> HIDE DEF Hd
    <3> QED  BY <1>1, <2>1 DEF Threads, Inserts
  <2> QED  BY <1>2, <2>2
<1>9. CASE HandleStartInterlude \/ HandleInterludeMode
  <2>1. out' = out \/ \E i : out' = [out EXCEPT !.interlude = i]
    BY <1>9 DEF HandleStartInterlude, HandleInterludeMode
  <2>2. out'.pc = "Loop" /\ out'.current = out.current
    BY <1>1, <2>1 DEF Threads
  <2> QED  BY <1>2, <2>2
<1>10. CASE HandleStop
  <2>1. out'.pc = "Gone" /\ out'.current = out.current
    BY <1>1, <1>10 DEF HandleStop, Ended, Threads
  <2> QED  BY <1>2, <2>1
<1> QED  BY <1>3, <1>5, <1>6, <1>7, <1>8, <1>9, <1>10 DEF Handler

\* Who is read: the track that is played, or the one whose turn it is.
LEMMA FreshRead ==
    ASSUME Config, Typed, Typed', Keeps, Answers, Fresh, Thread, out'.pc = "Loop",
           NEW R \in SUBSET Tracks,
           \A t \in Tracks : /\ tracks'[t].taken <= tracks'[t].decoded
                             /\ tracks'[t].taken >= tracks[t].taken
                             /\ t \notin R => tracks'[t].taken = tracks[t].taken,
           \A e \in HeldNow' : e.track \notin R,
           \/ out'.current \in {out.current, NoTrack}
           \/ out'.current \in Tracks /\ tracks'[out'.current].taken >= 1
    PROVE  Fresh'
<1>1. out.pc # "Gone" /\ HeldNow' \subseteq HeldNow \cup {NoEntry} /\ NoEntry.track \notin Tracks
  BY ThreadHolds, Entry
<1>2. \A e \in HeldNow' : e.track \in Tracks => tracks'[e.track].taken = 0
  BY <1>1 DEF Fresh
<1>3. out'.current # NoTrack => tracks'[out'.current].taken >= 1
  <2> SUFFICES ASSUME out'.current # NoTrack, out'.current = out.current
               PROVE  tracks'[out'.current].taken >= 1
    OBVIOUS
  <2>1. out.current \in Tracks
    BY Places DEF Threads
  <2>2. tracks'[out.current].taken \in Nat /\ tracks[out.current].taken \in Nat
    <3>1. tracks \in [Tracks -> Progress] /\ tracks' \in [Tracks -> Progress]
      BY DEF Typed
    <3>2. TrackLength \in Nat
      BY DEF Config, OutputAssumption
    <3> QED  BY <2>1, <3>1, <3>2 DEF Progress
  <2> QED  BY <2>1, <2>2 DEF Fresh
<1> QED  BY <1>2, <1>3 DEF Fresh

LEMMA FreshClearing ==
    ASSUME Config, Typed, Typed', Keeps, Answers, Fresh, Clearing
    PROVE  Fresh'
<1>1. out \in Threads /\ out.interlude \in Inserts /\ Thread /\ out.entry \in Commands
      /\ out.pc = "Clearing"
  BY Places, ZenonT(40)
     DEF Thread, Clearing, SetCurrentCommits, ToneStarts, ClearDone, ClearingTimesOut, Keeps
<1>2. CASE ToneStarts
  <2>1. out' = [out EXCEPT !.pc = "Loop", !.entry = NoEntry, !.pending = ToneSamples,
                           !.tone = [on |-> TRUE, restore |-> out.paused], !.paused = FALSE]
        /\ UNCHANGED tracks
    BY <1>2 DEF ToneStarts
  <2>2. out'.pc = "Loop" /\ out'.current = out.current
    BY <1>1, <2>1 DEF Threads
  <2> QED  BY <1>1, <2>1, <2>2, FreshThreadUnread
<1>3. CASE ClearDone \/ ClearingTimesOut
  <2>1. out' = [out EXCEPT !.pc = "Loop", !.entry = NoEntry] /\ UNCHANGED tracks
    BY <1>3 DEF ClearDone, ClearingTimesOut
  <2>2. out'.pc = "Loop" /\ out'.current = out.current
    BY <1>1, <2>1 DEF Threads
  <2> QED  BY <1>1, <2>1, <2>2, FreshThreadUnread
<1>4. CASE SetCurrentCommits
  <2>1. PICK t \in Tracks : t = out.entry.track
    BY <1>1, <1>4 DEF SetCurrentCommits, Commands, Exchanges
  <2>2. Watermark \in Nat /\ Watermark >= 1 /\ Watermark <= Available(t)
    BY <1>4, <2>1
       DEF Config, StreamAssumption, Fresh, SetCurrentCommits, Available, Typed, Progress,
                      OutputAssumption
  <2>3. tracks' = Taken(t, Watermark)
    BY <1>4, <2>1 DEF SetCurrentCommits
  <2>4. /\ tracks'[t].taken = tracks[t].taken + Watermark
        /\ tracks'[t].decoded = tracks[t].decoded
        /\ \A u \in Tracks \ {t} : tracks'[u] = tracks[u]
    BY <2>2, <2>3, TakenTracks
  <2>5. \A u \in Tracks : tracks[u].taken \in Nat /\ tracks[u].decoded \in Nat
    BY Counts
  <2>6. \A u \in Tracks : /\ tracks'[u].taken <= tracks'[u].decoded
                          /\ tracks'[u].taken >= tracks[u].taken
                          /\ u \notin {t} => tracks'[u].taken = tracks[u].taken
    BY <2>2, <2>4, <2>5, SMTT(30) DEF Available, Fresh
  <2>7. tracks'[t].taken >= 1
    BY <2>2, <2>4, <2>5, SMTT(30)
  <2>8. PICK m \in Mixes(out.interlude) :
           \/ out' = [out EXCEPT !.pc = "Loop", !.entry = NoEntry, !.current = out.entry.track,
                                 !.interlude = m.to]
           \/ out' = [out EXCEPT !.pc = "Loop", !.entry = NoEntry, !.current = NoTrack,
                                 !.interlude = m.to]
    BY <1>4 DEF SetCurrentCommits
  <2>9. out'.pc = "Loop" /\ out'.entry = NoEntry /\ out'.current \in {t, NoTrack}
        /\ out'.switch = out.switch /\ out'.interlude.switch \in {out.interlude.switch, NoEntry}
    <3>1. m.to.switch \in {out.interlude.switch, NoEntry}
      BY <1>1, MixedInsert
    <3> QED  BY <1>1, <2>1, <2>8, <3>1, ZenonT(40) DEF Threads
  <2>10. \A e \in HeldNow' : e.track \notin {t}
    <3>1. Apart(queue, out.entry, out.switch, out.interlude.switch) /\ queue' = queue
      BY <1>1, <1>4 DEF Answers, SetCurrentCommits
    <3>2. Forgotten(Released) /\ out.entry \in Released
      <4>1. out.entry # NoEntry
        BY <1>1, Entry
      <4> QED  BY <2>9, <3>1, <4>1, NothingHandled DEF Released
    <3> QED  BY <2>1, <3>2, Entry DEF Forgotten, Differ
  <2>11. PICK R : R = {t}
    OBVIOUS
  <2> QED  BY <1>1, <2>6, <2>7, <2>9, <2>10, <2>11, FreshRead
<1> QED  BY <1>2, <1>3, <1>4, ZenonT(40) DEF Clearing

LEMMA FreshLoop ==
    ASSUME Config, Typed, Typed', Keeps, Answers, Fresh, Loop
    PROVE  Fresh'
<1>1. out \in Threads /\ out.interlude \in Inserts /\ Thread /\ out.pc = "Loop"
  BY Places, ZenonT(40)
     DEF Thread, Loop, MicrophoneTakenBack, ClockRefreshed, ToneEnds, SwitchRefused,
         SwitchCommits, Refill, Write, Switches, Turn
<1>2. \A u \in Tracks : tracks[u].taken \in Nat /\ tracks[u].decoded \in Nat
  BY Counts
<1>3. HeldNow' \subseteq HeldNow \cup {NoEntry} \/ out'.pc = "Gone"
  BY <1>1, ThreadHolds
<1>4. \A e \in HeldNow : e.track # out.current \/ out.current = NoTrack
  <2> SUFFICES ASSUME NEW e \in HeldNow, e.track = out.current, out.current # NoTrack PROVE FALSE
    OBVIOUS
  <2>1. out.current \in Tracks
    BY <1>1 DEF Threads
  <2> QED  BY <1>1, <1>2, <2>1 DEF Fresh
<1>5. ASSUME UNCHANGED tracks, out'.pc \in {"Loop", "Gone"}, out'.current = out.current PROVE Fresh'
  BY <1>1, <1>5, FreshThreadUnread
<1>6. CASE MicrophoneTakenBack \/ Write
  <2>1. PICK p : p = Tail(out.pending)
    OBVIOUS
  <2>2. \/ out' = [out EXCEPT !.bridge = "None"] \/ out' = [out EXCEPT !.pending = p]
        \/ out' = [Ended EXCEPT !.failed = TRUE]
    BY <1>6, <2>1 DEF MicrophoneTakenBack, Write
  <2>3. UNCHANGED tracks
    BY <1>6 DEF MicrophoneTakenBack, Write
  <2>4. out'.pc \in {"Loop", "Gone"} /\ out'.current = out.current
    BY <1>1, <2>2, ZenonT(40) DEF Threads, Ended
  <2> QED  BY <1>5, <2>3, <2>4
<1>7. CASE ClockRefreshed \/ SwitchRefused
  <2>1. UNCHANGED tracks /\ (out' = out \/ out' = [out EXCEPT !.switch = NoEntry])
    BY <1>7 DEF ClockRefreshed, SwitchRefused
  <2>2. out'.pc = "Loop" /\ out'.current = out.current
    BY <1>1, <2>1 DEF Threads
  <2> QED  BY <1>5, <2>1, <2>2
\* The current track is read.
<1>8. ASSUME NEW n \in Nat, out.current # NoTrack, n <= Available(out.current),
             tracks' = Taken(out.current, n), out'.pc = "Loop", out'.current = out.current
      PROVE  Fresh'
  <2>1. PICK t \in Tracks : t = out.current
    BY <1>1, <1>8 DEF Threads
  <2>2. /\ tracks'[t].taken = tracks[t].taken + n /\ tracks'[t].decoded = tracks[t].decoded
        /\ \A u \in Tracks \ {t} : tracks'[u] = tracks[u]
    BY <1>8, <2>1, TakenTracks
  <2>3. \A u \in Tracks : /\ tracks'[u].taken <= tracks'[u].decoded
                          /\ tracks'[u].taken >= tracks[u].taken
                          /\ u \notin {t} => tracks'[u].taken = tracks[u].taken
    BY <1>2, <1>8, <2>1, <2>2 DEF Available, Fresh
  <2>4. \A e \in HeldNow' : e.track \notin {t}
    BY <1>3, <1>4, <1>8, <2>1, Entry
  <2>5. PICK R : R = {t}
    OBVIOUS
  <2> QED  BY <1>1, <1>8, <2>3, <2>4, <2>5, FreshRead
<1>9. CASE ToneEnds
  <2>1. out' = [out EXCEPT !.tone = NoTone, !.paused = out.tone.restore]
    BY <1>9 DEF ToneEnds
  <2>2. out'.pc = "Loop" /\ out'.current = out.current
    BY <1>1, <2>1 DEF Threads
  <2>3. CASE out.current = NoTrack
    BY <1>5, <1>9, <2>2, <2>3 DEF ToneEnds
  <2>4. CASE out.current # NoTrack
    <3>1. PICK n : n = IF Available(out.current) < ToneFrames THEN Available(out.current)
                       ELSE ToneFrames
      OBVIOUS
    <3>2. tracks' = Taken(out.current, n)
      BY <1>9, <2>4, <3>1 DEF ToneEnds
    <3>3. out.current \in Tracks /\ ToneFrames \in Nat
      BY <1>1, <2>4 DEF Threads, Config, OutputAssumption
    <3>4. n \in Nat /\ n <= Available(out.current)
      BY <1>2, <3>1, <3>3 DEF Available, Fresh
    <3> QED  BY <1>8, <2>2, <2>4, <3>2, <3>4
  <2> QED  BY <2>3, <2>4
<1>10. CASE Refill
  <2>1. PICK m \in Mixes(out.interlude) :
           out' = [out EXCEPT !.pending = Frames(out.current, 1), !.interlude = m.to]
    BY <1>10 DEF Refill
  <2>2. PICK p : p = Frames(out.current, 1)
    OBVIOUS
  <2>3. out'.pc = "Loop" /\ out'.current = out.current
    BY <1>1, <2>1, <2>2 DEF Threads
  <2>4. out.current # NoTrack /\ 1 <= Available(out.current) /\ tracks' = Taken(out.current, 1)
    <3>1. out.current # NoTrack /\ Available(out.current) >= 1 /\ tracks' = Taken(out.current, 1)
      BY <1>10 DEF Refill
    <3>2. Available(out.current) \in Int
      BY <1>1, <1>2, <3>1 DEF Threads, Available
    <3> QED  BY <3>1, <3>2
  <2> QED  BY <1>8, <2>3, <2>4
<1>11. CASE SwitchCommits
  <2>1. /\ out.switch # NoEntry /\ out.switch \in Commands /\ out.switch.kind = "CrossfadeTo"
        /\ out.current # NoTrack
    BY <1>11 DEF SwitchCommits, Switches, Keeps
  <2>2. PICK new \in Tracks : new = out.switch.track
    BY <2>1 DEF Commands, Exchanges
  <2>3. PICK old \in Tracks : old = out.current
    BY <1>1, <2>1 DEF Threads
  <2>4. tracks[new].taken = 0 /\ tracks[old].taken >= 1 /\ old # new
    <3>1. out.switch \in HeldNow
      BY DEF HeldNow
    <3>2. tracks[new].taken = 0
      BY <1>1, <2>2, <3>1 DEF Fresh
    <3> QED  BY <2>1, <2>3, <3>2 DEF Fresh
  <2>5. tracks' = [tracks EXCEPT ![old].taken = IF Available(old) >= 1 THEN tracks[old].taken + 1
                                                ELSE tracks[old].taken,
                                 ![new].taken = tracks[new].taken + 1]
    BY <1>11, <2>2, <2>3, <2>4 DEF SwitchCommits, Typed
  <2>6. /\ tracks'[old].taken = (IF Available(old) >= 1 THEN tracks[old].taken + 1
                                 ELSE tracks[old].taken)
        /\ tracks'[old].decoded = tracks[old].decoded
        /\ tracks'[new].taken = tracks[new].taken + 1
        /\ tracks'[new].decoded = tracks[new].decoded
        /\ \A u \in Tracks \ {old, new} : tracks'[u] = tracks[u]
    BY <2>4, <2>5, ZenonT(40) DEF Typed, Progress
  <2>7. Available(new) >= 1
    BY <1>11, <2>2 DEF SwitchCommits, CanFade
  <2>8. \A u \in Tracks : /\ tracks'[u].taken <= tracks'[u].decoded
                          /\ tracks'[u].taken >= tracks[u].taken
                          /\ u \notin {old, new} => tracks'[u].taken = tracks[u].taken
    BY <1>2, <2>6, <2>7 DEF Available, Fresh
  <2>9. PICK m \in Mixes(out.interlude) :
           \/ out' = [out EXCEPT !.current = out.switch.track, !.switch = NoEntry,
                                 !.interlude = m.to]
           \/ out' = [out EXCEPT !.switch = NoEntry, !.interlude = m.to]
    BY <1>11, ZenonT(40) DEF SwitchCommits
  <2>10. /\ out'.pc = "Loop" /\ out'.entry = out.entry /\ out'.switch = NoEntry
         /\ out'.interlude.switch \in {out.interlude.switch, NoEntry}
         /\ out'.current \in {out.current, new}
    <3>1. m.to.switch \in {out.interlude.switch, NoEntry}
      BY <1>1, MixedInsert
    <3> QED  BY <1>1, <2>2, <2>9, <3>1, ZenonT(40) DEF Threads
  <2>11. \A e \in HeldNow' : e.track # new
    <3>1. Apart(queue, out.entry, out.switch, out.interlude.switch) /\ queue' = queue
      BY <1>1, <1>11 DEF Answers, SwitchCommits
    <3>2. Forgotten(Released) /\ out.switch \in Released
      BY <2>1, <2>10, <3>1, NothingHandled DEF Released
    <3> QED  BY <2>2, <3>2, Entry DEF Forgotten, Differ
  <2>12. \A e \in HeldNow' : e.track # old
    BY <1>3, <1>4, <2>3, <2>10, Entry
  <2>13. PICK R \in SUBSET Tracks : R = {old, new}
    OBVIOUS
  <2>14. tracks'[new].taken >= 1
    BY <2>4, <2>6
  <2> QED  BY <1>1, <2>8, <2>10, <2>11, <2>12, <2>13, <2>14, FreshRead
<1> QED  BY <1>6, <1>7, <1>9, <1>10, <1>11 DEF Loop

LEMMA FreshNext ==
    ASSUME Config, Typed, Typed', Keeps, Keeps', Answers, Answers', Fresh, Next
    PROVE  Fresh'
<1>1. CASE Thread
  BY <1>1, FreshHandler, FreshClearing, FreshLoop DEF Thread
<1>2. \A u \in Tracks : /\ tracks[u].taken \in Nat /\ tracks[u].decoded \in Nat
                        /\ tracks[u].taken <= tracks[u].decoded
  BY DEF Typed, Progress, Config, OutputAssumption, Fresh
<1>3. out.pc = "Clearing" /\ out.entry.kind = "SetCurrent" =>
         out.entry.track \in Tracks /\ Available(out.entry.track) >= Watermark
  BY DEF Keeps, Commands, Exchanges, Fresh
<1>4. out.pc # "Gone" => \A e \in HeldNow : e.track \in Tracks => tracks[e.track].taken = 0
  BY DEF Fresh
<1>5. CASE \E c \in Callers : Ask(c)
  <2>1. PICK c \in Callers : Ask(c)
    BY <1>5
  <2>2. UNCHANGED <<tracks, out>>
    BY <2>1 DEF Ask
  <2>3. PICK k \in Kinds : \E t \in Tracks \cup {NoTrack} :
           /\ MayAsk(k, t)
           /\ queue' = queue \/ queue' = Append(queue, [kind |-> k, by |-> c, track |-> t])
    BY <2>1 DEF Ask
  <2>4. PICK t \in Tracks \cup {NoTrack} :
           /\ MayAsk(k, t)
           /\ queue' = queue \/ queue' = Append(queue, [kind |-> k, by |-> c, track |-> t])
    BY <2>3
  <2>5. t \in Tracks => tracks[t].taken = 0
    BY <2>4, Entry DEF MayAsk
  <2>6. PICK h : h = [kind |-> k, by |-> c, track |-> t]
    OBVIOUS
  <2>7. HeldNow' \subseteq HeldNow \cup {h}
    <3>1. Range(queue') \subseteq Range(queue) \cup {h}
      <4>1. CASE queue' = queue
        BY <4>1
      <4>2. CASE queue' = Append(queue, h)
        <5>1. queue \in Seq(Commands \cup {h})
          BY HeldEntries
        <5> QED  BY <4>2, <5>1, ChannelAppend
      <4> QED  BY <2>4, <2>6, <4>1, <4>2
    <3> QED  BY <2>2, <3>1 DEF HeldNow
  <2>8. out'.pc # "Gone" => \A e \in HeldNow' : e.track \in Tracks => tracks[e.track].taken = 0
    BY <1>4, <2>2, <2>5, <2>6, <2>7
  <2> QED  BY <1>2, <1>3, <2>2, <2>8, FreshUnread
<1>6. CASE \E c \in Callers : GiveUp(c)
  <2>1. PICK c \in Callers : GiveUp(c)
    BY <1>6
  <2>2. /\ out'.pc = out.pc /\ out'.current = out.current /\ UNCHANGED tracks
        /\ out'.entry = Unnamed(out.entry, c)
        /\ HeldNow' = {Unnamed(e, c) : e \in HeldNow}
    BY <2>1, GiveUpPlaces DEF GiveUp
  <2>3. \A e \in Entries : Unnamed(e, c).track = e.track /\ Unnamed(e, c).kind = e.kind
    BY UnnamedEntry
  <2>4. out'.pc # "Gone" => \A e \in HeldNow' : e.track \in Tracks => tracks[e.track].taken = 0
    BY <1>4, <2>2, <2>3, HeldEntries
  <2>5. out'.entry.kind = out.entry.kind /\ out'.entry.track = out.entry.track
    BY <2>2, <2>3, HeldEntries
  <2> QED  BY <1>2, <1>3, <2>2, <2>4, <2>5, FreshUnread
<1>7. ASSUME UNCHANGED queue, out' = out \/ out' = [out EXCEPT !.bridge = "Revoked"],
             \A t \in Tracks : tracks'[t].taken = tracks[t].taken
                               /\ tracks'[t].decoded >= tracks[t].decoded
      PROVE  Fresh'
  <2>1. /\ out'.pc = out.pc /\ out'.entry = out.entry /\ out'.switch = out.switch
        /\ out'.interlude = out.interlude /\ out'.current = out.current
    BY <1>7, Places DEF Threads
  <2>2. HeldNow' = HeldNow
    BY <1>7, <2>1 DEF HeldNow
  <2> QED  BY <1>3, <1>4, <1>7, <2>1, <2>2, FreshUnread
<1>8. CASE \E c \in Callers : Settle(c) \/ Joined(c)
  <2>1. PICK c \in Callers : Settle(c) \/ Joined(c)
    BY <1>8
  <2>2. UNCHANGED <<queue, out>>
    BY <2>1 DEF Settle, Joined
  <2>3. \A t \in Tracks : tracks'[t].taken = tracks[t].taken /\ tracks'[t].decoded = tracks[t].decoded
    <3>1. \/ tracks' = tracks \/ tracks' = [tracks EXCEPT ![slot].live = FALSE]
          \/ tracks' = [tracks EXCEPT ![call[c].track].live = FALSE]
      BY <2>1 DEF Settle, Joined
    <3>2. ASSUME NEW u, tracks' = [tracks EXCEPT ![u].live = FALSE], NEW t \in Tracks
          PROVE  tracks'[t].taken = tracks[t].taken /\ tracks'[t].decoded = tracks[t].decoded
      <4>1. tracks[t] \in Progress /\ tracks \in [Tracks -> Progress]
        BY Counts
      <4>2. tracks'[t] = tracks[t] \/ tracks'[t] = [tracks[t] EXCEPT !.live = FALSE]
        BY <3>2, <4>1
      <4> QED  BY <4>1, <4>2 DEF Progress
    <3>3. PICK u, v : u = slot /\ v = call[c].track
      OBVIOUS
    <3>4. \/ tracks' = tracks \/ tracks' = [tracks EXCEPT ![u].live = FALSE]
          \/ tracks' = [tracks EXCEPT ![v].live = FALSE]
      BY <3>1, <3>3
    <3> QED  BY <3>2, <3>4
  <2> QED  BY <1>2, <1>7, <2>2, <2>3
<1>9. CASE \E t \in Tracks : TrackFed(t)
  <2>1. PICK t \in Tracks : TrackFed(t)
    BY <1>9
  <2>2. UNCHANGED <<queue, out>> /\ tracks' = [tracks EXCEPT ![t].decoded = tracks[t].decoded + 1]
    BY <2>1 DEF TrackFed
  <2>3. \A u \in Tracks : tracks'[u].taken = tracks[u].taken /\ tracks'[u].decoded >= tracks[u].decoded
    BY <1>2, <2>2, SMTT(30) DEF Typed, Progress
  <2> QED  BY <1>7, <2>2, <2>3
<1>10. CASE MicrophoneFails \/ Callback
  <2>1. UNCHANGED <<queue, tracks>> /\ (out' = out \/ out' = [out EXCEPT !.bridge = "Revoked"])
    BY <1>10 DEF MicrophoneFails, Callback
  <2> QED  BY <1>2, <1>7, <2>1
<1> QED  BY <1>1, <1>5, <1>6, <1>8, <1>9, <1>10 DEF Next
-----------------------------------------------------------------------------
(* What holds the hardware *)

\* A step that leaves the flag of the stream and the stream alone.
LEMMA HeldAsBefore ==
    ASSUME HeldWhilePaused, out'.pc = out.pc, out'.entry.kind = out.entry.kind,
           out'.paused = out.paused, out.pc = "Gone" => out'.bridge = out.bridge,
           out'.bridge = "Held" => out.bridge = "Held",
           device'.held = device.held, device'.stream = device.stream
    PROVE  HeldWhilePaused'
BY DEF HeldWhilePaused, PausedIsHeld, BridgeHasItsStream, Running

\* A step that sets the flag from the pause of the thread.
LEMMA HeldByPause ==
    ASSUME HeldWhilePaused, out'.pc = "Loop", device'.held = out'.paused,
           out'.bridge = "Held" => device'.stream = "Duplex"
    PROVE  HeldWhilePaused'
BY DEF HeldWhilePaused, PausedIsHeld, BridgeHasItsStream, Running

\* A step that begins to clear the ring.
LEMMA HeldForClearing ==
    ASSUME Typed, HeldWhilePaused, out'.pc = "Clearing",
           device' = RingCleared(Held(device, TRUE)), out'.bridge \in {out.bridge, "None"},
           out'.entry.kind \in {"SetCurrent", "Clear"} => out'.paused
    PROVE  HeldWhilePaused'
<1>1. device \in Devices
  BY DEF Typed
<1>2. Held(device, TRUE) \in Devices /\ Held(device, TRUE).held
      /\ Held(device, TRUE).stream = device.stream
  BY <1>1, HeldDevice
<1>3. device'.held /\ device'.stream = device.stream
  BY <1>2, ClearedDevice
<1> QED  BY <1>3 DEF HeldWhilePaused, PausedIsHeld, BridgeHasItsStream, Running

\* A step with which the thread ends.
LEMMA HeldNoMore ==
    ASSUME Typed, HeldWhilePaused, NEW cs, NEW b \in BOOLEAN, ThreadEnds(cs, b),
           out'.pc = "Gone", out'.bridge = "None"
    PROVE  HeldWhilePaused'
<1>1. device \in Devices
  BY DEF Typed
<1>2. device'.stream \in {"Closed", "Quarantined"}
  BY <1>1, StoppedDevice DEF ThreadEnds
<1> QED  BY <1>2 DEF HeldWhilePaused, PausedIsHeld, BridgeHasItsStream, Running

LEMMA HeldHandler ==
    ASSUME Config, Typed, Typed', HeldWhilePaused, Handler
    PROVE  HeldWhilePaused'
<1>1. /\ out \in Threads /\ out.interlude \in Inserts /\ out.pc = "Loop" /\ device \in Devices
      /\ out.paused \in BOOLEAN
  <2>1. out.pc = "Loop"
    BY DEF Handler, Handles, HandleAdjust, HandleSetCurrent, HandleCrossfadeTo, HandleTone,
           HandleStartInterlude, HandleCrossfadeInterlude, HandleInterludeMode, HandleEnableMic,
           HandleDisableMic, HandlePause, HandleResume, HandleClear, HandleStop
  <2>2. device \in Devices
    BY DEF Typed
  <2> QED  BY <2>1, <2>2, Places DEF Threads
<1>2. ASSUME UNCHANGED device,
             \/ out' = out \/ out' = [out EXCEPT !.switch = Hd]
             \/ out' = [out EXCEPT !.switch = NoEntry, !.pending = <<>>, !.tone = NoTone]
             \/ out' = [out EXCEPT !.interlude.switch = Hd]
             \/ \E i : out' = [out EXCEPT !.interlude = i]
      PROVE  HeldWhilePaused'
  <2>1. /\ out'.pc = out.pc /\ out'.entry = out.entry /\ out'.paused = out.paused
        /\ out'.bridge = out.bridge
    <3> HIDE DEF Hd
    <3> QED  BY <1>1, <1>2, ZenonT(40) DEF Threads, Inserts
  <2> QED  BY <1>2, <2>1, HeldAsBefore
<1>3. CASE HandleAdjust \/ HandleCrossfadeTo \/ HandleStartInterlude \/ HandleCrossfadeInterlude
           \/ HandleInterludeMode
  BY <1>2, <1>3 DEF HandleAdjust, HandleCrossfadeTo, HandleStartInterlude,
                    HandleCrossfadeInterlude, HandleInterludeMode
<1>4. CASE HandleSetCurrent
  <2>1. CASE /\ out' = [out EXCEPT !.switch = NoEntry, !.pending = <<>>, !.tone = NoTone,
                                   !.paused = TRUE, !.pc = "Clearing", !.entry = Hd]
             /\ device' = RingCleared(Held(device, TRUE))
    <3>1. out'.pc = "Clearing" /\ out'.bridge = out.bridge /\ out'.paused
      <4> HIDE DEF Hd
      <4> QED  BY <1>1, <2>1 DEF Threads
    <3> QED  BY <2>1, <3>1, HeldForClearing
  <2> QED  BY <1>2, <1>4, <2>1 DEF HandleSetCurrent
<1>5. CASE HandleTone
  <2>1. CASE /\ out' = [out EXCEPT !.pending = <<>>, !.pc = "Clearing", !.entry = Hd]
             /\ device' = RingCleared(Held(device, TRUE))
    <3>1. out'.pc = "Clearing" /\ out'.bridge = out.bridge /\ out'.entry = Hd
      <4> HIDE DEF Hd
      <4> QED  BY <1>1, <2>1 DEF Threads
    <3>2. Hd.kind = "Tone"
      BY <1>5, Handled DEF HandleTone
    <3> QED  BY <2>1, <3>1, <3>2, HeldForClearing
  <2> QED  BY <1>2, <1>5, <2>1 DEF HandleTone
<1>6. CASE HandleClear
  <2>1. /\ out' = [out EXCEPT !.pc = "Clearing", !.entry = Hd, !.switch = NoEntry, !.pending = <<>>,
                              !.current = NoTrack, !.tone = NoTone, !.interlude = NoInterlude,
                              !.bridge = "None", !.paused = TRUE]
        /\ device' = RingCleared(Held(device, TRUE))
    BY <1>6 DEF HandleClear
  <2>2. out'.pc = "Clearing" /\ out'.bridge = "None" /\ out'.paused
    <3> HIDE DEF Hd
    <3> QED  BY <1>1, <2>1 DEF Threads
  <2> QED  BY <2>1, <2>2, HeldForClearing
<1>7. CASE HandleStop
  <2>1. PICK b \in BOOLEAN : ThreadEnds(Answered(call, Hd, "Ok"), b)
    BY <1>7 DEF HandleStop
  <2>2. out'.pc = "Gone" /\ out'.bridge = "None"
    BY <1>1, <1>7 DEF HandleStop, Ended, Threads
  <2> QED  BY <2>1, <2>2, HeldNoMore
<1>8. CASE HandlePause
  <2>1. /\ out' = [out EXCEPT !.switch = NoEntry, !.paused = TRUE] /\ device' = Held(device, TRUE)
    BY <1>8 DEF HandlePause
  <2>2. out'.pc = "Loop" /\ out'.bridge = out.bridge /\ out'.paused = TRUE
    BY <1>1, <2>1 DEF Threads
  <2>3. device'.held = TRUE /\ device'.stream = device.stream
    BY <1>1, <2>1, HeldDevice
  <2> QED  BY <2>2, <2>3, HeldByPause DEF HeldWhilePaused, BridgeHasItsStream
<1>9. CASE HandleResume
  <2>1. CASE /\ out' = [out EXCEPT !.paused = FALSE] /\ device' = Held(device, FALSE)
    <3>1. out'.pc = "Loop" /\ out'.bridge = out.bridge /\ out'.paused = FALSE
      BY <1>1, <2>1 DEF Threads
    <3>2. device'.held = FALSE /\ device'.stream = device.stream
      BY <1>1, <2>1, HeldDevice
    <3> QED  BY <3>1, <3>2, HeldByPause DEF HeldWhilePaused, BridgeHasItsStream
  <2> QED  BY <1>2, <1>9, <2>1 DEF HandleResume
<1>10. CASE HandleDisableMic
  <2>1. PICK b \in BOOLEAN : \E d \in Openings(StreamStopped(device, b), "Output") :
           device' = Held(d, out.paused)
    BY <1>10 DEF HandleDisableMic
  <2>2. PICK d \in Openings(StreamStopped(device, b), "Output") : device' = Held(d, out.paused)
    BY <2>1
  <2>3. d \in Devices
    BY <1>1, ReopenedDevice
  <2>4. device'.held = out.paused
    BY <1>1, <2>2, <2>3, HeldDevice
  <2>5. out'.pc = "Loop" /\ out'.bridge = "None" /\ out'.paused = out.paused
    BY <1>1, <1>10 DEF HandleDisableMic, Threads
  <2> QED  BY <2>4, <2>5, HeldByPause
<1>11. CASE HandleEnableMic
  <2>1. CASE out' = out /\ device' = device
    BY <1>2, <2>1
  <2>2. CASE out.bridge = "None"
    <3>1. PICK b \in BOOLEAN : \E d \in Openings(StreamStopped(device, b), "Duplex") :
             /\ \E e \in (IF Running(d) THEN {d} ELSE Openings(d, "Output")) :
                   device' = Held(e, out.paused)
             /\ out' = IF Running(d) THEN [out EXCEPT !.bridge = "Held"] ELSE out
      BY <1>11, <2>2 DEF HandleEnableMic
    <3>2. PICK d \in Openings(StreamStopped(device, b), "Duplex") :
             /\ \E e \in (IF Running(d) THEN {d} ELSE Openings(d, "Output")) :
                   device' = Held(e, out.paused)
             /\ out' = IF Running(d) THEN [out EXCEPT !.bridge = "Held"] ELSE out
      BY <3>1
    <3>3. d \in Devices /\ (Running(d) => d.stream = "Duplex")
      BY <1>1, ReopenedDevice
    <3>4. CASE Running(d)
      <4>1. device' = Held(d, out.paused) /\ out' = [out EXCEPT !.bridge = "Held"]
        BY <3>2, <3>4
      <4>2. device'.held = out.paused /\ device'.stream = "Duplex"
        BY <1>1, <3>3, <3>4, <4>1, HeldDevice
      <4>3. out'.pc = "Loop" /\ out'.paused = out.paused
        BY <1>1, <4>1 DEF Threads
      <4> QED  BY <4>2, <4>3, HeldByPause
    <3>5. CASE ~Running(d)
      <4>1. PICK e \in Openings(d, "Output") : device' = Held(e, out.paused)
        BY <3>2, <3>5
      <4>2. e \in Devices
        BY <3>3, OpenedDevice
      <4>3. device'.held = out.paused
        BY <1>1, <4>1, <4>2, HeldDevice
      <4>4. out' = out
        BY <3>2, <3>5
      <4> QED  BY <1>1, <2>2, <4>3, <4>4, HeldByPause
    <3> QED  BY <3>4, <3>5
  <2> QED  BY <1>11, <2>1, <2>2 DEF HandleEnableMic
<1> QED  BY <1>3, <1>4, <1>5, <1>6, <1>7, <1>8, <1>9, <1>10, <1>11 DEF Handler

LEMMA HeldClearingOrLoop ==
    ASSUME Config, Typed, Typed', Keeps, Fresh, HeldWhilePaused, Clearing \/ Loop
    PROVE  HeldWhilePaused'
<1>1. /\ out \in Threads /\ out.interlude \in Inserts /\ device \in Devices
      /\ out.paused \in BOOLEAN /\ out.tone.restore \in BOOLEAN
  <2>2. device \in Devices
    BY DEF Typed
  <2> QED  BY <2>2, Places DEF Threads
<1>2. CASE SetCurrentCommits
  <2>1. PICK t \in Tracks : t = out.entry.track
    BY <1>2 DEF SetCurrentCommits, Keeps, Commands, Exchanges
  <2>2. Watermark \in Nat /\ Watermark <= Available(t)
    BY <1>2, <2>1
       DEF Config, StreamAssumption, Fresh, SetCurrentCommits, Available, Typed, Progress,
                      OutputAssumption
  <2>3. PICK s : s = Frames(t, Watermark)
    OBVIOUS
  <2>4. s \in Seq(Sounds)
    BY <2>2, <2>3, TakenTracks, SMTT(30)
  <2>5. PICK m \in Mixes(out.interlude) :
           \/ /\ device' = Primed(device, s)
              /\ out' = [out EXCEPT !.pc = "Loop", !.entry = NoEntry, !.current = t,
                                    !.interlude = m.to]
           \/ /\ device' = device
              /\ out' = [out EXCEPT !.pc = "Loop", !.entry = NoEntry, !.current = NoTrack,
                                    !.interlude = m.to]
    BY <1>2, <2>1, <2>3 DEF SetCurrentCommits
  <2>6. device'.held = device.held /\ device'.stream = device.stream
    BY <1>1, <2>4, <2>5, PrimedDevice
  <2>7. out'.pc = "Loop" /\ out'.paused = out.paused /\ out'.bridge = out.bridge
    BY <1>1, <2>5, ZenonT(40) DEF Threads
  <2> QED  BY <1>2, <2>6, <2>7
           DEF SetCurrentCommits, HeldWhilePaused, PausedIsHeld, BridgeHasItsStream, Running
<1>3. CASE ToneStarts
  <2>1. /\ out' = [out EXCEPT !.pc = "Loop", !.entry = NoEntry, !.pending = ToneSamples,
                              !.tone = [on |-> TRUE, restore |-> out.paused], !.paused = FALSE]
        /\ device' = Held(device, FALSE)
    BY <1>3 DEF ToneStarts
  <2>2. out'.pc = "Loop" /\ out'.bridge = out.bridge /\ out'.paused = FALSE
    BY <1>1, <2>1 DEF Threads
  <2>3. device'.held = FALSE /\ device'.stream = device.stream
    BY <1>1, <2>1, HeldDevice
  <2> QED  BY <2>2, <2>3, HeldByPause DEF HeldWhilePaused, BridgeHasItsStream
<1>4. CASE ClearDone \/ ClearingTimesOut
  <2>1. /\ out' = [out EXCEPT !.pc = "Loop", !.entry = NoEntry] /\ UNCHANGED device
        /\ out.pc = "Clearing"
    BY <1>4 DEF ClearDone, ClearingTimesOut
  <2>2. out'.pc = "Loop" /\ out'.bridge = out.bridge /\ out'.paused = out.paused
    BY <1>1, <2>1 DEF Threads
  <2> QED  BY <2>1, <2>2 DEF HeldWhilePaused, PausedIsHeld, BridgeHasItsStream, Running
<1>5. ASSUME NEW b \in BOOLEAN, ThreadEnds(call, b), out' = [Ended EXCEPT !.failed = TRUE]
      PROVE  HeldWhilePaused'
  <2>1. out'.pc = "Gone" /\ out'.bridge = "None"
    BY <1>1, <1>5 DEF Ended, Threads
  <2> QED  BY <1>5, <2>1, HeldNoMore
<1>6. CASE MicrophoneTakenBack
  <2>1. PICK b \in BOOLEAN : \E d \in Openings(StreamStopped(device, b), "Output") :
          IF Running(d)
          THEN device' = Held(d, out.paused) /\ out' = [out EXCEPT !.bridge = "None"]
          ELSE ThreadEnds(call, b) /\ out' = [Ended EXCEPT !.failed = TRUE]
    BY <1>6 DEF MicrophoneTakenBack
  <2>2. PICK d \in Openings(StreamStopped(device, b), "Output") :
          IF Running(d)
          THEN device' = Held(d, out.paused) /\ out' = [out EXCEPT !.bridge = "None"]
          ELSE ThreadEnds(call, b) /\ out' = [Ended EXCEPT !.failed = TRUE]
    BY <2>1
  <2>3. CASE Running(d)
    <3>1. d \in Devices
      BY <1>1, ReopenedDevice
    <3>2. device'.held = out.paused
      <4>1. Held(d, out.paused).held = out.paused
        BY <1>1, <3>1, HeldDevice
      <4> QED  BY <2>2, <2>3, <4>1
    <3>3. out'.pc = "Loop" /\ out'.bridge = "None" /\ out'.paused = out.paused
      BY <1>1, <1>6, <2>2, <2>3 DEF MicrophoneTakenBack, Threads
    <3> QED  BY <3>2, <3>3, HeldByPause
  <2> QED  BY <1>5, <2>2, <2>3
<1>7. CASE ClockRefreshed \/ SwitchRefused
  <2>1. UNCHANGED device /\ (out' = out \/ out' = [out EXCEPT !.switch = NoEntry])
    BY <1>7 DEF ClockRefreshed, SwitchRefused
  <2>2. /\ out'.pc = out.pc /\ out'.entry = out.entry /\ out'.paused = out.paused
        /\ out'.bridge = out.bridge
    BY <1>1, <2>1 DEF Threads
  <2> QED  BY <2>1, <2>2, HeldAsBefore
<1>8. CASE ToneEnds
  <2>1. /\ out' = [out EXCEPT !.tone = NoTone, !.paused = out.tone.restore]
        /\ device' = Held(device, out.tone.restore) /\ out.pc = "Loop"
    BY <1>8 DEF ToneEnds, Turn
  <2>2. out'.pc = "Loop" /\ out'.bridge = out.bridge /\ out'.paused = out.tone.restore
    BY <1>1, <2>1 DEF Threads
  <2>3. device'.held = out.tone.restore /\ device'.stream = device.stream
    BY <1>1, <2>1, HeldDevice
  <2> QED  BY <2>2, <2>3, HeldByPause DEF HeldWhilePaused, BridgeHasItsStream
<1>9. CASE SwitchCommits
  <2>1. PICK t \in Tracks : t = out.switch.track
    BY <1>9 DEF SwitchCommits, Switches, Keeps, Commands, Exchanges
  <2>2. PICK s : s = Frames(t, 1)
    OBVIOUS
  <2>3. s \in Seq(Sounds)
    <3>1. 1 <= Available(t)
      BY <1>9, <2>1, Counts DEF SwitchCommits, CanFade, Available
    <3> QED  BY <2>2, <3>1, TakenTracks
  <2>4. PICK m \in Mixes(out.interlude) :
           \/ /\ device' = Primed(device, s)
              /\ out' = [out EXCEPT !.current = t, !.switch = NoEntry, !.interlude = m.to]
           \/ /\ device' = device
              /\ out' = [out EXCEPT !.switch = NoEntry, !.interlude = m.to]
    BY <1>9, <2>1, <2>2, ZenonT(40) DEF SwitchCommits
  <2>5. device'.held = device.held /\ device'.stream = device.stream
    BY <1>1, <2>3, <2>4, PrimedDevice
  <2>6. /\ out'.pc = out.pc /\ out'.entry = out.entry /\ out'.paused = out.paused
        /\ out'.bridge = out.bridge
    BY <1>1, <2>4, ZenonT(40) DEF Threads
  <2> QED  BY <2>5, <2>6, HeldAsBefore
<1>10. CASE Refill
  <2>1. PICK m \in Mixes(out.interlude) :
           out' = [out EXCEPT !.pending = Frames(out.current, 1), !.interlude = m.to]
    BY <1>10 DEF Refill
  <2>2. PICK p : p = Frames(out.current, 1)
    OBVIOUS
  <2>3. /\ out'.pc = out.pc /\ out'.entry = out.entry /\ out'.paused = out.paused
        /\ out'.bridge = out.bridge
    BY <1>1, <2>1, <2>2 DEF Threads
  <2>4. UNCHANGED device
    BY <1>10 DEF Refill
  <2> QED  BY <2>3, <2>4, HeldAsBefore
<1>11. CASE Write
  <2>1. CASE Running(device)
    <3>1. PICK p, s : p = Tail(out.pending) /\ s = <<Head(out.pending)>>
      OBVIOUS
    <3>2. out' = [out EXCEPT !.pending = p] /\ device' = Written(device, s)
      BY <1>11, <2>1, <3>1 DEF Write
    <3>3. s \in Seq(Sounds)
      BY <1>1, <1>11, <3>1, Rings DEF Write, Threads
    <3>4. device'.held = device.held /\ device'.stream = device.stream
      BY <1>1, <3>2, <3>3, PrimedDevice
    <3>5. /\ out'.pc = out.pc /\ out'.entry = out.entry /\ out'.paused = out.paused
          /\ out'.bridge = out.bridge
      BY <1>1, <3>2 DEF Threads
    <3> QED  BY <3>4, <3>5, HeldAsBefore
  <2>2. CASE ~Running(device)
    <3>1. \E b \in BOOLEAN : ThreadEnds(call, b)
      BY <1>11, <2>2 DEF Write
    <3>2. out' = [Ended EXCEPT !.failed = TRUE]
      BY <1>11, <2>2 DEF Write
    <3> QED  BY <1>5, <3>1, <3>2
  <2> QED  BY <2>1, <2>2
<1> QED  BY <1>2, <1>3, <1>4, <1>6, <1>7, <1>8, <1>9, <1>10, <1>11 DEF Clearing, Loop

LEMMA HeldNext ==
    ASSUME Config, Typed, Typed', Keeps, Fresh, HeldWhilePaused, Next
    PROVE  HeldWhilePaused'
<1>1. CASE Thread
  BY <1>1, HeldHandler, HeldClearingOrLoop DEF Thread
<1>2. device \in Devices /\ out \in Threads
  BY DEF Typed
<1>3. ASSUME NEW c \in Callers, GiveUp(c) PROVE HeldWhilePaused'
  <2>1. /\ out'.pc = out.pc /\ out'.entry.kind = out.entry.kind /\ out'.paused = out.paused
        /\ out'.bridge = out.bridge
    BY <1>3, GiveUpPlaces, HeldEntries, UnnamedEntry
  <2>2. UNCHANGED device
    BY <1>3 DEF GiveUp
  <2> QED  BY <2>1, <2>2, HeldAsBefore
<1>4. ASSUME NEW c \in Callers, Ask(c) \/ Settle(c) \/ Joined(c) PROVE HeldWhilePaused'
  <2>1. UNCHANGED <<out, device>>
    BY <1>4 DEF Ask, Settle, Joined
  <2> QED  BY <2>1, HeldAsBefore
<1>5. CASE \E t \in Tracks : TrackFed(t)
  <2>1. UNCHANGED <<out, device>>
    BY <1>5 DEF TrackFed
  <2> QED  BY <2>1, HeldAsBefore
<1>6. CASE Callback
  <2>1. UNCHANGED out /\ device' = CallbackRan(device)
    BY <1>6 DEF Callback
  <2>2. device'.held = device.held /\ device'.stream = device.stream
    BY <1>2, <2>1, CallbackDevice
  <2> QED  BY <2>1, <2>2, HeldAsBefore
<1>7. CASE MicrophoneFails
  <2>1. UNCHANGED device /\ out' = [out EXCEPT !.bridge = "Revoked"] /\ out.bridge = "Held"
    BY <1>7 DEF MicrophoneFails
  <2>2. /\ out'.pc = out.pc /\ out'.entry = out.entry /\ out'.paused = out.paused
        /\ out'.bridge = "Revoked" /\ out.pc # "Gone"
    BY <1>2, <2>1 DEF Threads, HeldWhilePaused, BridgeHasItsStream
  <2> QED  BY <2>1, <2>2, HeldAsBefore
<1> QED  BY <1>1, <1>3, <1>4, <1>5, <1>6, <1>7 DEF Next

-----------------------------------------------------------------------------
(* The clock *)

\* What is left alone, or opened again with an empty ring.
LEMMA FollowsAlike ==
    ASSUME NEW d, NEW e, NEW p, NEW o, NEW t, NEW n, NEW tl, Follows(d, p, o, t, n, tl),
           e.ring = d.ring, e.total = d.total, e.heard = d.heard,
           e.stream = "Closed" => e.ring = <<>>
    PROVE  Follows(e, p, o, t, n, tl)
BY DEF Follows

\* A frame that has not been heard is told alike before and after its anchor is promoted.
LEMMA PromotedSays ==
    ASSUME NEW tl \in Timelines, NEW k \in Nat
    PROVE  /\ Latest(Promoted(tl, k)) = Latest(tl)
           /\ \A i \in Nat : i > k => Says(Promoted(tl, k), i) = Says(tl, i)
           /\ Says(Promoted(tl, k), k) = Says(tl, k) \/ Says(Promoted(tl, k), k).at = 0
           /\ Promoted(tl, k) = tl \/ Promoted(tl, k).pending = NoAnchor
           /\ Promoted(NewTimeline, k) = NewTimeline
<1>1. NoAnchor.frame = 0 /\ tl.pending.frame \in Nat /\ tl.active.frame \in Nat
  BY DEF Timelines, Anchors, NoAnchor
<1>2. CASE tl.pending # NoAnchor /\ k >= tl.pending.frame
  <2>1. /\ Promoted(tl, k).active = tl.pending /\ Promoted(tl, k).pending = NoAnchor
    BY <1>2 DEF Promoted
  <2>2. \A i \in Nat : Says(Promoted(tl, k), i) =
                          [track |-> tl.pending.track, at |-> i - tl.pending.frame]
    BY <2>1 DEF Says
  <2>3. \A i \in Nat : i > tl.pending.frame =>
            Says(tl, i) = [track |-> tl.pending.track, at |-> i - tl.pending.frame]
    BY <1>2 DEF Says
  <2>4. k = tl.pending.frame \/ k > tl.pending.frame
    BY <1>1, <1>2
  <2>5. Says(Promoted(tl, k), k) = Says(tl, k) \/ Says(Promoted(tl, k), k).at = 0
    BY <1>1, <2>2, <2>3, <2>4
  <2>6. \A i \in Nat : i > k => Says(Promoted(tl, k), i) = Says(tl, i)
    BY <1>1, <1>2, <2>2, <2>3
  <2>7. Latest(Promoted(tl, k)) = Latest(tl)
    BY <1>2, <2>1 DEF Latest
  <2> QED  BY <2>1, <2>5, <2>6, <2>7 DEF Promoted, NewTimeline
<1>3. CASE ~(tl.pending # NoAnchor /\ k >= tl.pending.frame)
  <2>1. Promoted(tl, k) = tl
    BY <1>3 DEF Promoted
  <2> QED  BY <2>1 DEF Promoted, NewTimeline
<1> QED  BY <1>2, <1>3

LEMMA FollowsPromoted ==
    ASSUME NEW d \in Devices, NEW p \in Seq(Sounds), NEW o \in BOOLEAN, NEW t, NEW n,
           NEW tl \in Timelines, Follows(d, p, o, t, n, tl)
    PROVE  Follows(d, p, o, t, n, Promoted(tl, d.total))
<1>1. PICK to : to = Promoted(tl, d.total)
  OBVIOUS
<1>2. d.total \in Nat
  BY DEF Devices
<1>3. /\ Latest(to) = Latest(tl) /\ \A i \in Nat : i > d.total => Says(to, i) = Says(tl, i)
      /\ Says(to, d.total) = Says(tl, d.total) \/ Says(to, d.total).at = 0
      /\ to = tl \/ to.pending = NoAnchor
      /\ tl = NewTimeline => to = NewTimeline
  BY <1>1, <1>2, PromotedSays
<1>4. PICK a : a = d.ring \o p
  OBVIOUS
<1>5. \A i \in 1 .. Len(a) : d.total + i \in Nat /\ d.total + i > d.total
  BY <1>2
<1>6. \A i \in 1 .. Len(a) : Says(to, d.total + i) = Says(tl, d.total + i)
  BY <1>3, <1>5
<1>7. /\ d.stream = "Closed" => d.ring = <<>>
      /\ Latest(tl).track = t
      /\ t = NoTrack => tl = NewTimeline /\ d.heard.track \notin Tracks
      /\ t # NoTrack => n + (IF o THEN ToneFrames ELSE 0) = d.total + Len(a) - Latest(tl).frame
      /\ tl.pending # NoAnchor => tl.pending.frame < d.total + Len(d.ring)
      /\ o => /\ \A i \in 1 .. Len(a) : a[i].track = "Tone"
              /\ tl.pending # NoAnchor => tl.pending.frame < d.total
      /\ ~o => \A i \in 1 .. Len(a) : a[i] = Says(tl, d.total + i)
      /\ d.heard.track \in Tracks /\ Says(tl, d.total).at > 0 => d.heard = Says(tl, d.total)
  BY <1>4 DEF Follows
<1>8. d.heard.track \in Tracks /\ Says(to, d.total).at > 0 => d.heard = Says(to, d.total)
  BY <1>3, <1>7
<1>9. Follows(d, p, o, t, n, to)
  BY <1>3, <1>4, <1>6, <1>7, <1>8 DEF Follows
<1> QED  BY <1>1, <1>9

LEMMA PoppedAhead ==
    ASSUME NEW q \in Seq(Sounds), q # <<>>, NEW p \in Seq(Sounds), NEW a, NEW b,
           a = q \o p, b = Tail(q) \o p
    PROVE  /\ Len(a) = Len(b) + 1 /\ a[1] = Head(q) /\ Len(b) \in Nat /\ Len(a) \in Nat
           /\ \A i \in 1 .. Len(b) : b[i] = a[i + 1]
<1>1. PICK r : r = Tail(q)
  OBVIOUS
<1>2. /\ r \in Seq(Sounds) /\ Len(q) = Len(r) + 1 /\ Len(r) \in Nat /\ Len(p) \in Nat
      /\ \A i \in 1 .. Len(r) : r[i] = q[i + 1]
  BY <1>1
<1>3. /\ Len(a) = Len(q) + Len(p) /\ \A i \in 1 .. Len(q) + Len(p) :
            a[i] = IF i <= Len(q) THEN q[i] ELSE p[i - Len(q)]
  OBVIOUS
<1>4. /\ Len(b) = Len(r) + Len(p) /\ \A i \in 1 .. Len(r) + Len(p) :
            b[i] = IF i <= Len(r) THEN r[i] ELSE p[i - Len(r)]
  BY <1>1, <1>2
<1>5. ASSUME NEW i \in 1 .. Len(b) PROVE b[i] = a[i + 1]
  <2>1. i \in Nat /\ i >= 1 /\ i <= Len(r) + Len(p)
    BY <1>2, <1>4
  <2>2. CASE i <= Len(r)
    <3>1. b[i] = r[i] /\ i + 1 \in 1 .. Len(q) + Len(p) /\ i + 1 <= Len(q)
      BY <1>2, <1>4, <2>1, <2>2
    <3>2. a[i + 1] = q[i + 1] /\ i \in 1 .. Len(r)
      BY <1>2, <1>3, <2>1, <2>2, <3>1
    <3> QED  BY <1>2, <3>1, <3>2
  <2>3. CASE i > Len(r)
    <3>1. b[i] = p[i - Len(r)]
      BY <1>2, <1>4, <2>1, <2>3
    <3>2. i + 1 \in 1 .. Len(q) + Len(p) /\ i + 1 > Len(q) /\ i + 1 - Len(q) = i - Len(r)
      BY <1>2, <2>1, <2>3
    <3>3. a[i + 1] = p[i - Len(r)]
      BY <1>2, <1>3, <3>2
    <3> QED  BY <3>1, <3>3
  <2> QED  BY <1>2, <2>1, <2>2, <2>3
<1>6. a[1] = Head(q)
  <2>1. 1 \in 1 .. Len(q) + Len(p) /\ 1 <= Len(q)
    BY <1>2
  <2> QED  BY <1>3, <2>1
<1>7. Len(a) = Len(b) + 1 /\ Len(b) \in Nat /\ Len(a) \in Nat
  <2>1. Len(a) = Len(q) + Len(p) /\ Len(b) = Len(r) + Len(p)
    BY <1>3, <1>4
  <2>2. Len(q) = Len(r) + 1 /\ Len(r) \in Nat /\ Len(p) \in Nat
    BY <1>2
  <2> QED  BY <2>1, <2>2
<1> QED  BY <1>5, <1>6, <1>7

\* The callback pops the first frame and counts it.
LEMMA FollowsCallback ==
    ASSUME Config, NEW d \in Devices, NEW p \in Seq(Sounds), NEW o \in BOOLEAN,
           NEW t \in Tracks \cup {NoTrack}, NEW n \in Nat,
           NEW tl \in Timelines, Follows(d, p, o, t, n, tl), d.clearing => d.ring = <<>>,
           d.stream # "Closed"
    PROVE  Follows(CallbackRan(d), p, o, t, n, tl)
<1>1. PICK e : e = CallbackRan(d)
  OBVIOUS
<1>2. CASE d.held \/ d.ring = <<>>
  <2>1. e = [d EXCEPT !.ring = d.ring, !.clearing = FALSE]
    BY <1>1, <1>2 DEF CallbackRan
  <2>2. e.ring = d.ring /\ e.total = d.total /\ e.heard = d.heard /\ e.stream # "Closed"
    BY <2>1 DEF Devices
  <2> QED  BY <1>1, <2>2, FollowsAlike
<1>3. CASE ~(d.held \/ d.ring = <<>>)
  <2>1. PICK r, h : r = Tail(d.ring) /\ h = Head(d.ring)
    OBVIOUS
  <2>2. /\ d.ring \in Seq(Sounds) /\ d.ring # <<>> /\ d.total \in Nat /\ Len(d.ring) \in Nat
    BY <1>3 DEF Devices
  <2>3. /\ r \in Seq(Sounds) /\ h \in Sounds /\ Len(r) = Len(d.ring) - 1 /\ Len(d.ring) >= 1
    BY <2>1, <2>2, Rings
  <2>4. e = [d EXCEPT !.ring = r, !.clearing = FALSE, !.heard = h, !.total = d.total + 1]
    BY <1>1, <1>3, <2>1 DEF CallbackRan, Devices
  <2>5. e.ring = r /\ e.total = d.total + 1 /\ e.heard = h /\ e.stream = d.stream
    BY <2>4 DEF Devices
  <2>6. PICK a, b : a = d.ring \o p /\ b = r \o p
    OBVIOUS
  <2>7. /\ Len(a) = Len(b) + 1 /\ a[1] = h /\ Len(b) \in Nat /\ Len(a) \in Nat
        /\ \A i \in 1 .. Len(b) : b[i] = a[i + 1]
    <3>1. PICK q : q = d.ring
      OBVIOUS
    <3>2. q \in Seq(Sounds) /\ q # <<>> /\ a = q \o p /\ b = Tail(q) \o p /\ h = Head(q)
      BY <2>1, <2>2, <2>6, <3>1
    <3> QED  BY <3>2, PoppedAhead
  <2>8. /\ Latest(tl).track = t
        /\ t = NoTrack => tl = NewTimeline /\ d.heard.track \notin Tracks
        /\ t # NoTrack => n + (IF o THEN ToneFrames ELSE 0) = d.total + Len(a) - Latest(tl).frame
        /\ tl.pending # NoAnchor => tl.pending.frame < d.total + Len(d.ring)
        /\ o => /\ \A i \in 1 .. Len(a) : a[i].track = "Tone"
                /\ tl.pending # NoAnchor => tl.pending.frame < d.total
        /\ ~o => \A i \in 1 .. Len(a) : a[i] = Says(tl, d.total + i)
    BY <2>6 DEF Follows
  <2>9. /\ o => h.track = "Tone"
        /\ ~o => h = Says(tl, d.total + 1)
    BY <2>7, <2>8
  <2>10. "Tone" \notin Tracks /\ NoTrack \notin Tracks
    BY DEF Config, NamesAssumption, NoTrack
  <2>11. t = NoTrack => h.track \notin Tracks
    <3>1. Says(NewTimeline, d.total + 1).track = NoTrack
      BY DEF Says, NewTimeline, NoAnchor, NoTrack
    <3> QED  BY <2>8, <2>9, <2>10, <3>1
  <2>12. \A i \in 1 .. Len(b) : i + 1 \in 1 .. Len(a) /\ d.total + (i + 1) = (d.total + 1) + i
    <3>1. d.total \in Nat
      BY <2>2
    <3>2. Len(a) = Len(b) + 1 /\ Len(b) \in Nat
      BY <2>7
    <3> QED  BY <3>1, <3>2
  <2>13. ~o => \A i \in 1 .. Len(b) : b[i] = Says(tl, (d.total + 1) + i)
    BY <2>7, <2>8, <2>12
  <2>14. o => \A i \in 1 .. Len(b) : b[i].track = "Tone"
    BY <2>7, <2>8, <2>12
  <2>15. h.track \in Tracks => h = Says(tl, d.total + 1)
    BY <2>9, <2>10
  <2>16. /\ d.total + Len(a) = (d.total + 1) + Len(b)
         /\ d.total + Len(d.ring) = (d.total + 1) + Len(r)
    <3>1. PICK tot, len : tot = d.total /\ len = Len(d.ring)
      OBVIOUS
    <3>2. tot \in Nat /\ len \in Nat /\ Len(r) = len - 1
      BY <2>2, <2>3, <3>1
    <3>3. tot + len = (tot + 1) + Len(r)
      BY <3>2
    <3>4. PICK k, m : k = Len(a) /\ m = Len(b)
      OBVIOUS
    <3>5. k = m + 1 /\ m \in Nat
      BY <2>7, <3>4
    <3>6. tot + k = (tot + 1) + m
      BY <3>2, <3>5
    <3> QED  BY <3>1, <3>3, <3>4, <3>6
  <2>17. o => (tl.pending # NoAnchor => tl.pending.frame < d.total + 1)
    BY <2>2, <2>8 DEF Timelines, Anchors
  <2>18. /\ b = e.ring \o p /\ e.stream # "Closed"
         /\ Latest(tl).track = t
         /\ t = NoTrack => tl = NewTimeline /\ e.heard.track \notin Tracks
         /\ t # NoTrack => n + (IF o THEN ToneFrames ELSE 0) = e.total + Len(b) - Latest(tl).frame
         /\ tl.pending # NoAnchor => tl.pending.frame < e.total + Len(e.ring)
    <3>1. e.total + Len(b) = d.total + Len(a) /\ e.total + Len(e.ring) = d.total + Len(d.ring)
      BY <2>5, <2>16
    <3>2. t # NoTrack => n + (IF o THEN ToneFrames ELSE 0) = e.total + Len(b) - Latest(tl).frame
      <4>1. PICK x, f, k : x = d.total + Len(a) /\ f = Latest(tl).frame
                           /\ k = IF o THEN ToneFrames ELSE 0
        OBVIOUS
      <4>2. d.total \in Nat /\ Len(a) \in Nat /\ Latest(tl).frame \in Nat /\ ToneFrames \in Nat
        BY <2>2, <2>7 DEF Timelines, Anchors, Latest, Config, OutputAssumption
      <4>3. x \in Nat /\ f \in Nat /\ k \in Nat
        BY <4>1, <4>2
      <4>4. t # NoTrack => n + k = d.total + Len(a) - Latest(tl).frame
        BY <2>8, <4>1
      <4>5. t # NoTrack => n + k = x - f
        BY <4>1, <4>2, <4>3, <4>4, SMTT(30)
      <4>6. x = e.total + Len(b)
        BY <3>1, <4>1
      <4>7. e.total + Len(b) - Latest(tl).frame = x - f
        <5>1. e.total \in Nat /\ Len(b) \in Nat
          BY <2>2, <2>5, <2>7
        <5>2. f = Latest(tl).frame /\ x = e.total + Len(b)
          BY <4>1, <4>6
        <5> QED  BY <4>3, <5>1, <5>2, SMTT(30)
      <4> QED  BY <4>1, <4>5, <4>7
    <3>3. tl.pending # NoAnchor => tl.pending.frame < e.total + Len(e.ring)
      BY <2>8, <3>1
    <3> QED  BY <2>5, <2>6, <2>8, <2>11, <3>2, <3>3
  <2>19. /\ o => /\ \A i \in 1 .. Len(b) : b[i].track = "Tone"
                 /\ tl.pending # NoAnchor => tl.pending.frame < e.total
         /\ ~o => \A i \in 1 .. Len(b) : b[i] = Says(tl, e.total + i)
         /\ e.heard.track \in Tracks => e.heard = Says(tl, e.total)
    BY <2>5, <2>13, <2>14, <2>15, <2>17
  <2>20. Follows(e, p, o, t, n, tl)
    BY <2>18, <2>19 DEF Follows
  <2> QED  BY <1>1, <2>20
<1> QED  BY <1>2, <1>3

\* A first track is primed into the empty ring.
LEMMA FollowsReplaced ==
    ASSUME Config, NEW d \in Devices, NEW t \in Tracks, NEW n \in Nat, NEW s \in Seq(Sounds),
           NEW tl, d.ring = <<>>, d.stream # "Closed", Len(s) = n,
           \A i \in 1 .. n : s[i] = [track |-> t, at |-> i]
    PROVE  Follows(Primed(d, s), <<>>, FALSE, t, n, Replaced(tl, t, d.total))
<1>1. PICK e, to : e = Primed(d, s) /\ to = Replaced(tl, t, d.total)
  OBVIOUS
<1>2. /\ e.ring = <<>> \o s /\ e.total = d.total /\ e.heard = d.heard /\ e.stream # "Closed"
      /\ d.total \in Nat
  BY <1>1, PrimedDevice, SMTT(30) DEF Devices
<1>3. e.ring = s /\ e.ring \o <<>> = s
  BY <1>2
<1>4. NoTrack \notin Tracks /\ t # NoTrack
  BY Entry
<1>5. to.pending = NoAnchor /\ to.active = [track |-> t, frame |-> d.total]
  BY <1>1 DEF Replaced, Anchor
<1>6. /\ Latest(to) = [track |-> t, frame |-> d.total]
      /\ \A i : Says(to, i) = [track |-> t, at |-> i - d.total]
  BY <1>5 DEF Latest, Says
<1>7. \A i \in 1 .. n : s[i] = Says(to, d.total + i)
  <2> SUFFICES ASSUME NEW i \in 1 .. n PROVE s[i] = Says(to, d.total + i)
    OBVIOUS
  <2>1. (d.total + i) - d.total = i
    BY <1>2
  <2> QED  BY <1>6, <2>1
<1>8. ~(Says(to, d.total).at > 0)
  BY <1>2, <1>6
<1>9. n + 0 = d.total + Len(s) - d.total
  BY <1>2
<1>10. Follows(e, <<>>, FALSE, t, n, to)
  BY <1>2, <1>3, <1>4, <1>5, <1>6, <1>7, <1>8, <1>9 DEF Follows
<1> QED  BY <1>1, <1>10

\* A frame of the track that fades in goes behind what the ring holds, and so does its anchor.
LEMMA FollowsFaded ==
    ASSUME Config, NEW d \in Devices, NEW old \in Tracks, NEW t \in Tracks, NEW n \in Nat,
           NEW s \in Seq(Sounds), s = <<[track |-> t, at |-> 1]>>,
           NEW tl \in Timelines, tl.pending = NoAnchor, d.stream # "Closed",
           Follows(d, <<>>, FALSE, old, n, tl)
    PROVE  Follows(Primed(d, s), <<>>, FALSE, t, 1,
                   CrossfadeQueued(tl, t, d.total + Len(d.ring)))
<1>1. PICK e, len : e = Primed(d, s) /\ len = Len(d.ring)
  OBVIOUS
<1>2. PICK to : to = CrossfadeQueued(tl, t, d.total + len)
  OBVIOUS
<1>3. /\ e.ring = d.ring \o s /\ e.total = d.total /\ e.heard = d.heard /\ e.stream # "Closed"
      /\ d.total \in Nat /\ d.ring \in Seq(Sounds) /\ len \in Nat
  <2>1. d.total \in Nat /\ d.ring \in Seq(Sounds)
    BY DEF Devices
  <2>2. len \in Nat
    BY <1>1, <2>1
  <2> QED  BY <1>1, <2>1, <2>2, PrimedDevice
<1>4. /\ e.ring \o <<>> = e.ring /\ d.ring \o <<>> = d.ring /\ Len(e.ring) = len + 1
      /\ e.ring[len + 1] = [track |-> t, at |-> 1]
      /\ \A i \in 1 .. len : e.ring[i] = d.ring[i]
  BY <1>1, <1>3, SMTT(30)
<1>5. NoTrack \notin Tracks /\ t # NoTrack
  BY Entry
<1>6. PICK new : new = [track |-> t, frame |-> d.total + len]
  OBVIOUS
<1>7. /\ to.pending = new /\ to.active = tl.active
      /\ new # NoAnchor /\ new.track = t /\ new.frame = d.total + len
  BY <1>2, <1>5, <1>6 DEF CrossfadeQueued, Anchor, NoAnchor, NoTrack, Timelines
<1>8. Latest(to) = new
  BY <1>7 DEF Latest
<1>9. \A i \in Nat : i <= d.total + len => Says(to, i) = Says(tl, i)
  BY <1>3, <1>7 DEF Says
<1>10. Says(to, d.total + (len + 1)) = [track |-> t, at |-> 1]
  <2>1. d.total + (len + 1) > d.total + len /\ (d.total + (len + 1)) - (d.total + len) = 1
    BY <1>3
  <2> QED  BY <1>7, <2>1 DEF Says
<1>11. /\ \A i \in 1 .. len : d.ring[i] = Says(tl, d.total + i)
       /\ d.heard.track \in Tracks /\ Says(tl, d.total).at > 0 => d.heard = Says(tl, d.total)
  BY <1>1, <1>4 DEF Follows
<1>12. ASSUME NEW i \in 1 .. len + 1 PROVE e.ring[i] = Says(to, d.total + i)
  <2>1. CASE i = len + 1
    BY <1>4, <1>10, <2>1
  <2>2. CASE i # len + 1
    <3>1. i \in 1 .. len /\ d.total + i \in Nat /\ d.total + i <= d.total + len
      BY <1>3, <2>2
    <3> QED  BY <1>4, <1>9, <1>11, <3>1
  <2> QED  BY <2>1, <2>2
<1>13. Says(to, d.total) = Says(tl, d.total)
  BY <1>3, <1>9
<1>14. /\ 1 + 0 = d.total + (len + 1) - (d.total + len)
       /\ d.total + len < d.total + (len + 1)
  BY <1>3
<1>15. Follows(e, <<>>, FALSE, t, 1, to)
  BY <1>3, <1>4, <1>5, <1>7, <1>8, <1>11, <1>12, <1>13, <1>14, ZenonT(40) DEF Follows
<1> QED  BY <1>1, <1>2, <1>15

\* A frame is taken from the track that is played.
LEMMA FollowsRefilled ==
    ASSUME Config, NEW d \in Devices, NEW t \in Tracks, NEW n \in Nat, NEW s \in Seq(Sounds),
           s = <<[track |-> t, at |-> n + 1]>>, NEW tl \in Timelines,
           Follows(d, <<>>, FALSE, t, n, tl)
    PROVE  Follows(d, s, FALSE, t, n + 1, tl)
<1>1. PICK len, a : len = Len(d.ring) /\ a = d.ring \o s
  OBVIOUS
<1>2. /\ d.ring \in Seq(Sounds) /\ len \in Nat /\ d.total \in Nat /\ d.ring \o <<>> = d.ring
  BY <1>1 DEF Devices
<1>3. /\ Len(a) = len + 1 /\ a[len + 1] = [track |-> t, at |-> n + 1]
      /\ \A i \in 1 .. len : a[i] = d.ring[i]
  BY <1>1, <1>2
<1>4. NoTrack \notin Tracks /\ t # NoTrack
  BY Entry
<1>5. /\ d.stream = "Closed" => d.ring = <<>>
      /\ Latest(tl).track = t
      /\ n + 0 = d.total + len - Latest(tl).frame
      /\ tl.pending # NoAnchor => tl.pending.frame < d.total + len
      /\ \A i \in 1 .. len : d.ring[i] = Says(tl, d.total + i)
      /\ d.heard.track \in Tracks /\ Says(tl, d.total).at > 0 => d.heard = Says(tl, d.total)
  BY <1>1, <1>2, <1>4 DEF Follows
<1>6. tl.pending.frame \in Nat /\ tl.active.frame \in Nat /\ Latest(tl).frame \in Nat
  BY DEF Timelines, Anchors, Latest
<1>7. n + 1 = d.total + (len + 1) - Latest(tl).frame
  BY <1>2, <1>5, <1>6, SMTT(30)
<1>8. Says(tl, d.total + (len + 1)) = [track |-> t, at |-> n + 1]
  <2>1. PICK k, f : k = d.total + (len + 1) /\ f = tl.pending.frame
    OBVIOUS
  <2>2. tl.pending # NoAnchor => f < d.total + len
    BY <1>5, <2>1
  <2>3. tl.pending # NoAnchor => k > f
    BY <1>2, <1>6, <2>1, <2>2
  <2>4. Says(tl, k) = [track |-> Latest(tl).track, at |-> k - Latest(tl).frame]
    BY <2>1, <2>3 DEF Says, Latest
  <2>5. n + 1 = k - Latest(tl).frame
    BY <1>2, <1>6, <1>7, <2>1
  <2>6. Says(tl, k) = [track |-> t, at |-> n + 1]
    BY <1>5, <2>4, <2>5
  <2> QED  BY <2>1, <2>6
<1>9. ASSUME NEW i \in 1 .. len + 1 PROVE a[i] = Says(tl, d.total + i)
  <2>1. CASE i = len + 1
    BY <1>3, <1>8, <2>1
  <2>2. CASE i # len + 1
    <3>1. i \in 1 .. len
      BY <1>2, <2>2
    <3> QED  BY <1>3, <1>5, <3>1
  <2> QED  BY <2>1, <2>2
<1>10. (n + 1) + 0 = d.total + (len + 1) - Latest(tl).frame
  BY <1>7
<1> QED  BY <1>1, <1>3, <1>4, <1>5, <1>9, <1>10 DEF Follows

\* The first frame that waits goes into the ring.
LEMMA FollowsWritten ==
    ASSUME NEW d \in Devices, NEW p \in Seq(Sounds), p # <<>>, NEW o \in BOOLEAN, NEW t, NEW n,
           NEW s \in Seq(Sounds), s = <<Head(p)>>, NEW tl \in Timelines, d.stream # "Closed",
           Follows(d, p, o, t, n, tl)
    PROVE  Follows(Written(d, s), Tail(p), o, t, n, tl)
<1>1. PICK e, r, q : e = Written(d, s) /\ r = Tail(p) /\ q = d.ring
  OBVIOUS
<1>2. /\ q \in Seq(Sounds) /\ r \in Seq(Sounds) /\ p = s \o r
  BY <1>1 DEF Devices
<1>3. /\ e.ring = q \o s /\ e.total = d.total /\ e.heard = d.heard /\ e.stream # "Closed"
      /\ d.total \in Nat /\ Len(q) \in Nat
  <2>1. d.total \in Nat
    BY DEF Devices
  <2>2. Len(q) \in Nat
    BY <1>2
  <2>3. Written(d, s) = Primed(d, s)
    BY DEF Written, Primed
  <2>4. e = Primed(d, s)
    BY <1>1, <2>3
  <2>5. /\ Primed(d, s).stream = d.stream /\ Primed(d, s).total = d.total
        /\ Primed(d, s).heard = d.heard /\ Primed(d, s).ring = d.ring \o s
    BY PrimedDevice
  <2> QED  BY <1>1, <2>1, <2>2, <2>4, <2>5
<1>4. (q \o s) \o r = q \o p
  BY <1>2, ConcatAssociative
<1>5. e.ring \o r = d.ring \o p
  BY <1>1, <1>3, <1>4
<1>6. Len(e.ring) = Len(q) + 1
  BY <1>2, <1>3
<1>7. tl.pending # NoAnchor => tl.pending.frame < e.total + Len(e.ring)
  <2>1. tl.pending # NoAnchor => tl.pending.frame < d.total + Len(q)
    BY <1>1 DEF Follows
  <2>2. tl.pending.frame \in Nat
    BY DEF Timelines, Anchors
  <2> QED  BY <1>3, <1>6, <2>1, <2>2, SMTT(30)
<1>8. Follows(e, r, o, t, n, tl)
  BY <1>3, <1>5, <1>7 DEF Follows
<1> QED  BY <1>1, <1>8

\* A tone begins in the empty ring, and ends in it: its frames are skipped in the track.
LEMMA FollowsTone ==
    ASSUME Config, NEW d \in Devices, NEW e, NEW p \in Seq(Sounds), NEW t, NEW n \in Nat,
           NEW tl \in Timelines, d.ring = <<>>, e.ring = <<>>, e.total = d.total,
           e.heard = d.heard, t # NoTrack \/ n = 0
    PROVE  /\ /\ Follows(d, <<>>, FALSE, t, n, tl) /\ Len(p) = ToneFrames
              /\ \A i \in 1 .. Len(p) : p[i].track = "Tone"
              => Follows(e, p, TRUE, t, n, tl)
           /\ /\ Follows(d, <<>>, TRUE, t, n, tl) /\ t # NoTrack
              => Follows(e, <<>>, FALSE, t, n + ToneFrames, tl)
<1>1. /\ d.total \in Nat /\ ToneFrames \in Nat /\ <<>> \o <<>> = <<>> /\ Len(<<>>) = 0
      /\ d.total + 0 = d.total /\ <<>> \o p = p
      /\ Latest(tl).frame \in Nat
  BY DEF Devices, Config, OutputAssumption, Timelines, Anchors, Latest
<1>2. ASSUME Follows(d, <<>>, FALSE, t, n, tl), Len(p) = ToneFrames,
             \A i \in 1 .. Len(p) : p[i].track = "Tone"
      PROVE  Follows(e, p, TRUE, t, n, tl)
  <2>1. /\ Latest(tl).track = t
        /\ t = NoTrack => tl = NewTimeline /\ d.heard.track \notin Tracks
        /\ t # NoTrack => n + 0 = d.total + 0 - Latest(tl).frame
        /\ tl.pending # NoAnchor => tl.pending.frame < d.total + 0
        /\ d.heard.track \in Tracks /\ Says(tl, d.total).at > 0 => d.heard = Says(tl, d.total)
    BY <1>1, <1>2 DEF Follows
  <2>2. t # NoTrack => n + ToneFrames = d.total + Len(p) - Latest(tl).frame
    BY <1>1, <1>2, <2>1
  <2>3. tl.pending # NoAnchor => tl.pending.frame < d.total
    BY <1>1, <2>1
  <2> QED  BY <1>1, <1>2, <2>1, <2>2, <2>3 DEF Follows
<1>3. ASSUME Follows(d, <<>>, TRUE, t, n, tl), t # NoTrack
      PROVE  Follows(e, <<>>, FALSE, t, n + ToneFrames, tl)
  <2>1. /\ Latest(tl).track = t
        /\ n + ToneFrames = d.total + 0 - Latest(tl).frame
        /\ tl.pending # NoAnchor => tl.pending.frame < d.total + 0
        /\ d.heard.track \in Tracks /\ Says(tl, d.total).at > 0 => d.heard = Says(tl, d.total)
    BY <1>1, <1>3 DEF Follows
  <2>2. (n + ToneFrames) + 0 = d.total + 0 - Latest(tl).frame
    BY <1>1, <2>1
  <2> QED  BY <1>1, <1>3, <2>1, <2>2 DEF Follows
<1> QED  BY <1>2, <1>3

\* What a step that drops no frame leaves of the clock.
LEMMA ClockStays ==
    ASSUME Config, Typed, Typed', ClockFollows,
           ~skewed' =>
              /\ ~skewed
              /\ out'.pc = "Clearing" => \/ out'.entry.kind = "Tone"
                                         \/ out.pc = "Clearing" /\ out'.entry.kind = out.entry.kind
              /\ device'.ring = device.ring /\ device'.total = device.total
              /\ device'.heard = device.heard
              /\ device'.stream = "Closed" => device.stream = "Closed" \/ device.ring = <<>>
              /\ out'.pending = out.pending /\ out'.tone.on = out.tone.on
              /\ out'.current = out.current
              /\ \A t \in Tracks : tracks'[t].taken = tracks[t].taken
              /\ timeline' \in {timeline, Promoted(timeline, device.total)}
    PROVE  ClockFollows'
<1> SUFFICES ASSUME ~skewed' PROVE ClockFollows'
  BY DEF ClockFollows
<1>1. /\ device \in Devices /\ out \in Threads /\ timeline \in Timelines
      /\ out.current \in Tracks \cup {NoTrack}
  BY DEF Typed, Threads
<1>2. out.pending \in Seq(Sounds) /\ out.tone.on \in BOOLEAN
  BY <1>1 DEF Threads
<1>3. PICK d, e, p, o, t, tl, to :
          /\ d = device /\ e = device' /\ p = out.pending /\ o = out.tone.on /\ t = out.current
          /\ tl = timeline /\ to = timeline'
  OBVIOUS
<1>4. PICK n : n = TakenOf(t)
  OBVIOUS
<1>5. Follows(d, p, o, t, n, tl) /\ (out.pc = "Clearing" => out.entry.kind = "Tone")
  BY <1>3, <1>4 DEF ClockFollows
<1>6. TakenOf(out.current)' = n
  BY <1>1, <1>3, <1>4 DEF TakenOf
<1>7. to = tl \/ to = Promoted(tl, d.total)
  BY <1>3
<1>8. Follows(d, p, o, t, n, to)
  <2>1. d \in Devices /\ p \in Seq(Sounds) /\ o \in BOOLEAN /\ tl \in Timelines
    BY <1>1, <1>2, <1>3
  <2> QED  BY <1>5, <1>7, <2>1, FollowsPromoted
<1>9. e.stream = "Closed" => e.ring = <<>>
  <2>1. d.stream = "Closed" => d.ring = <<>>
    BY <1>5 DEF Follows
  <2> QED  BY <1>3, <2>1
<1>10. e.ring = d.ring /\ e.total = d.total /\ e.heard = d.heard
  BY <1>3
<1>11. Follows(e, p, o, t, n, to)
  BY <1>8, <1>9, <1>10, FollowsAlike
<1>12. /\ device' = e /\ out'.pending = p /\ out'.tone.on = o /\ out'.current = t /\ timeline' = to
       /\ out'.pc = "Clearing" => out'.entry.kind = "Tone"
  BY <1>3, <1>5
<1> QED  BY <1>6, <1>11, <1>12 DEF ClockFollows

\* A microphone that is opened or taken back: an empty ring stays empty.
LEMMA ClockReopened ==
    ASSUME Config, Typed, Typed', ClockFollows, out.pc = "Loop", UNCHANGED <<timeline, tracks>>,
           device'.ring = <<>> \/ device'.ring = device.ring,
           device'.total = device.total, device'.heard = device.heard,
           skewed' = (skewed \/ device.ring # <<>>),
           out'.pc = out.pc, out'.pending = out.pending, out'.tone.on = out.tone.on,
           out'.current = out.current
    PROVE  ClockFollows'
BY ClockStays

LEMMA ClockHandler ==
    ASSUME Config, Typed, Typed', Keeps, ClockFollows, Handler
    PROVE  ClockFollows'
<1>1. /\ out \in Threads /\ out.interlude \in Inserts /\ out.pc = "Loop" /\ UNCHANGED tracks
      /\ device \in Devices /\ out.paused \in BOOLEAN
  <2>1. out.pc = "Loop" /\ UNCHANGED tracks
    BY DEF Handler, Handles, HandleAdjust, HandleSetCurrent, HandleCrossfadeTo, HandleTone,
           HandleStartInterlude, HandleCrossfadeInterlude, HandleInterludeMode, HandleEnableMic,
           HandleDisableMic, HandlePause, HandleResume, HandleClear, HandleStop
  <2> QED  BY <2>1 DEF Typed, Threads
<1>2. ASSUME UNCHANGED <<device, timeline, skewed>>, out'.pc = out.pc, out'.pending = out.pending,
             out'.tone = out.tone, out'.current = out.current
      PROVE  ClockFollows'
  BY <1>1, <1>2, ClockStays
<1>3. ASSUME NEW b \in BOOLEAN, device' = device \/ device' = Held(device, b),
             timeline' = Promoted(timeline, device.total) \/ timeline' = timeline,
             UNCHANGED skewed, out'.pc = out.pc, out'.pending = out.pending,
             out'.tone = out.tone, out'.current = out.current
      PROVE  ClockFollows'
  <2>1. /\ device'.ring = device.ring /\ device'.total = device.total
        /\ device'.heard = device.heard /\ device'.stream = device.stream
    BY <1>1, <1>3, HeldDevice
  <2> QED  BY <1>1, <1>3, <2>1, ClockStays
<1>4. ASSUME skewed' PROVE ClockFollows'
  BY <1>4 DEF ClockFollows
<1>5. CASE HandleAdjust
  BY <1>2, <1>5 DEF HandleAdjust
<1>6. CASE HandleSetCurrent
  <2>1. CASE Available(Hd.track) < Watermark
    <3>1. /\ out' = [out EXCEPT !.switch = NoEntry, !.pending = <<>>, !.tone = NoTone]
          /\ skewed' = (skewed \/ out.pending # <<>> \/ out.tone.on)
          /\ UNCHANGED <<device, timeline>>
      BY <1>6, <2>1 DEF HandleSetCurrent
    <3>2. /\ out'.pc = out.pc /\ out'.current = out.current /\ out'.pending = <<>>
          /\ out'.tone.on = FALSE
      BY <1>1, <3>1 DEF Threads, NoTone
    <3>3. out.tone.on \in BOOLEAN
      BY <1>1 DEF Threads
    <3>4. CASE ~skewed'
      <4>1. out'.pending = out.pending /\ out'.tone.on = out.tone.on
        BY <3>1, <3>2, <3>3, <3>4
      <4> QED  BY <1>1, <3>1, <3>2, <4>1, ClockStays
    <3> QED  BY <1>4, <3>4
  <2>2. CASE ~(Available(Hd.track) < Watermark)
    BY <1>4, <1>6, <2>2 DEF HandleSetCurrent
  <2> QED  BY <2>1, <2>2
<1>7. CASE HandleCrossfadeTo
  <2>1. out' = [out EXCEPT !.switch = Hd] \/ UNCHANGED out
    BY <1>7 DEF HandleCrossfadeTo
  <2>2. UNCHANGED <<device, timeline, skewed>>
    BY <1>7 DEF HandleCrossfadeTo
  <2> QED  BY <1>1, <1>2, <2>1, <2>2 DEF Threads
<1>8. CASE HandleTone
  <2>1. CASE UNCHANGED <<out, device, skewed>>
    BY <1>2, <1>8, <2>1 DEF HandleTone
  <2>2. CASE ~UNCHANGED <<out, device, skewed>>
    <3>1. /\ out' = [out EXCEPT !.pending = <<>>, !.pc = "Clearing", !.entry = Hd]
          /\ device' = RingCleared(Held(device, TRUE)) /\ UNCHANGED timeline
          /\ skewed' = (skewed \/ out.pending # <<>>) /\ Hd.kind = "Tone"
      BY <1>8, <2>2 DEF HandleTone, Handles
    <3>2. PICK f : f = Hd
      OBVIOUS
    <3>3. /\ out'.pc = "Clearing" /\ out'.entry.kind = "Tone" /\ out'.pending = <<>>
          /\ out'.tone = out.tone /\ out'.current = out.current
      BY <1>1, <3>1, <3>2 DEF Threads
    <3>4. PICK d : d = Held(device, TRUE)
      OBVIOUS
    <3>5. /\ d \in Devices /\ d.ring = device.ring /\ d.total = device.total
          /\ d.heard = device.heard /\ d.stream = device.stream
      BY <1>1, <3>4, HeldDevice
    <3>6. /\ device'.total = device.total /\ device'.heard = device.heard
          /\ device'.stream = device.stream
          /\ device'.ring = device.ring \/ device.stream = "Closed"
      <4>1. device' = RingCleared(d)
        BY <3>1, <3>4
      <4>2. d.stream # "Closed" => RingCleared(d).ring = d.ring
        BY <3>5 DEF RingCleared, Devices
      <4> QED  BY <3>5, <4>1, <4>2, ClearedDevice
    <3>7. CASE ~skewed'
      <4>1. device.stream = "Closed" => device.ring = <<>>
        BY <3>1, <3>7 DEF ClockFollows, Follows
      <4>2. device'.ring = device.ring
        <5>1. device'.ring = <<>> \/ device'.ring = device.ring
          BY <3>1, <3>4, <3>5, ClearedDevice
        <5> QED  BY <3>6, <4>1, <5>1
      <4> QED  BY <1>1, <3>1, <3>3, <3>6, <4>2, ClockStays
    <3> QED  BY <1>4, <3>7
  <2> QED  BY <2>1, <2>2
<1>9. CASE HandleStartInterlude
  <2>1. \/ out' = [out EXCEPT !.interlude = [mode |-> "On", switch |-> NoEntry]] \/ UNCHANGED out
    BY <1>9 DEF HandleStartInterlude
  <2>2. UNCHANGED <<device, timeline, skewed>>
    BY <1>9 DEF HandleStartInterlude
  <2> QED  BY <1>1, <1>2, <2>1, <2>2 DEF Threads
<1>10. CASE HandleCrossfadeInterlude
  <2>1. out' = [out EXCEPT !.interlude.switch = Hd] \/ UNCHANGED out
    BY <1>10 DEF HandleCrossfadeInterlude
  <2>2. UNCHANGED <<device, timeline, skewed>>
    BY <1>10 DEF HandleCrossfadeInterlude
  <2> QED  BY <1>1, <1>2, <2>1, <2>2 DEF Threads
<1>11. CASE HandleInterludeMode
  <2>1. \E i : out' = [out EXCEPT !.interlude = i] \/ UNCHANGED out
    BY <1>11 DEF HandleInterludeMode
  <2>2. UNCHANGED <<device, timeline, skewed>>
    BY <1>11 DEF HandleInterludeMode
  <2> QED  BY <1>1, <1>2, <2>1, <2>2 DEF Threads
<1>12. CASE HandleEnableMic
  <2>1. CASE UNCHANGED <<out, device, skewed>>
    BY <1>2, <1>12, <2>1 DEF HandleEnableMic
  <2>2. CASE ~UNCHANGED <<out, device, skewed>>
    <3>1. PICK b \in BOOLEAN : \E d \in Openings(StreamStopped(device, b), "Duplex") :
              /\ \E e \in (IF Running(d) THEN {d} ELSE Openings(d, "Output")) :
                    device' = Held(e, out.paused)
              /\ out' = IF Running(d) THEN [out EXCEPT !.bridge = "Held"] ELSE out
              /\ skewed' = (skewed \/ device.ring # <<>>)
      BY <1>12, <2>2 DEF HandleEnableMic
    <3>2. PICK d \in Openings(StreamStopped(device, b), "Duplex") :
              /\ \E e \in (IF Running(d) THEN {d} ELSE Openings(d, "Output")) :
                    device' = Held(e, out.paused)
              /\ out' = IF Running(d) THEN [out EXCEPT !.bridge = "Held"] ELSE out
              /\ skewed' = (skewed \/ device.ring # <<>>)
      BY <3>1
    <3>3. /\ d \in Devices /\ (d.ring = <<>> \/ d.ring = device.ring)
          /\ d.total = device.total /\ d.heard = device.heard
      BY <1>1, ReopenedDevice
    <3>4. PICK e \in (IF Running(d) THEN {d} ELSE Openings(d, "Output")) :
              device' = Held(e, out.paused)
      BY <3>2
    <3>5. e \in Devices /\ e.ring = d.ring /\ e.total = d.total /\ e.heard = d.heard
      <4>1. CASE Running(d)
        BY <3>3, <4>1
      <4>2. CASE ~Running(d)
        <5>1. e \in Openings(d, "Output") /\ "Output" \in {"Output", "Duplex"}
          BY <4>2
        <5> QED  BY <3>3, <5>1, OpenedDevice
      <4> QED  BY <4>1, <4>2
    <3>6. /\ device'.ring = <<>> \/ device'.ring = device.ring
          /\ device'.total = device.total /\ device'.heard = device.heard
      BY <1>1, <3>3, <3>4, <3>5, HeldDevice
    <3>7. /\ out'.pc = out.pc /\ out'.pending = out.pending /\ out'.tone.on = out.tone.on
          /\ out'.current = out.current
      BY <1>1, <3>2 DEF Threads
    <3>8. UNCHANGED <<timeline, tracks>>
      BY <1>12 DEF HandleEnableMic
    <3> QED  BY <1>1, <3>2, <3>6, <3>7, <3>8, ClockReopened
  <2> QED  BY <2>1, <2>2
<1>13. CASE HandleDisableMic
  <2>1. PICK b \in BOOLEAN : \E d \in Openings(StreamStopped(device, b), "Output") :
              device' = Held(d, out.paused)
    BY <1>13 DEF HandleDisableMic
  <2>2. PICK d \in Openings(StreamStopped(device, b), "Output") : device' = Held(d, out.paused)
    BY <2>1
  <2>3. /\ d \in Devices /\ (d.ring = <<>> \/ d.ring = device.ring)
        /\ d.total = device.total /\ d.heard = device.heard
    BY <1>1, ReopenedDevice
  <2>4. /\ device'.ring = <<>> \/ device'.ring = device.ring
        /\ device'.total = device.total /\ device'.heard = device.heard
    <3>1. /\ Held(d, out.paused).ring = d.ring /\ Held(d, out.paused).total = d.total
          /\ Held(d, out.paused).heard = d.heard
      BY <1>1, <2>3, HeldDevice
    <3> QED  BY <2>2, <2>3, <3>1
  <2>5. out' = [out EXCEPT !.bridge = "None"] /\ skewed' = (skewed \/ device.ring # <<>>)
        /\ UNCHANGED <<timeline, tracks>>
    BY <1>13 DEF HandleDisableMic
  <2>6. /\ out'.pc = out.pc /\ out'.pending = out.pending /\ out'.tone.on = out.tone.on
        /\ out'.current = out.current
    BY <1>1, <2>5 DEF Threads
  <2> QED  BY <1>1, <2>4, <2>5, <2>6, ClockReopened
<1>14. CASE HandlePause
  <2>1. /\ out' = [out EXCEPT !.switch = NoEntry, !.paused = TRUE] /\ device' = Held(device, TRUE)
        /\ timeline' = Promoted(timeline, device.total) /\ UNCHANGED skewed
    BY <1>14 DEF HandlePause
  <2> QED  BY <1>1, <1>3, <2>1 DEF Threads
<1>15. CASE HandleResume
  <2>1. /\ UNCHANGED skewed
        /\ timeline' = Promoted(timeline, device.total) \/ timeline' = timeline
        /\ \/ UNCHANGED <<out, device>>
           \/ out' = [out EXCEPT !.paused = FALSE] /\ device' = Held(device, FALSE)
    BY <1>15 DEF HandleResume
  <2> QED  BY <1>1, <1>3, <2>1 DEF Threads
<1>16. CASE HandleClear \/ HandleStop
  BY <1>4, <1>16 DEF HandleClear, HandleStop, ThreadEnds
<1> QED  BY <1>5, <1>6, <1>7, <1>8, <1>9, <1>10, <1>11, <1>12, <1>13, <1>14, <1>15, <1>16
   DEF Handler

LEMMA ClockClearing ==
    ASSUME Config, Typed, Typed', Keeps, Fresh, ClockFollows, Clearing
    PROVE  ClockFollows'
<1>1. /\ out \in Threads /\ out.interlude \in Inserts /\ device \in Devices
      /\ timeline \in Timelines
  BY ZenonT(40) DEF Typed, Threads
<1>2. /\ out.pc = "Clearing" /\ out.entry \in Commands /\ out.pending = <<>> /\ out.tone.on = FALSE
  <2>1. out.pc = "Clearing"
    BY ZenonT(40) DEF Clearing, SetCurrentCommits, ToneStarts, ClearDone, ClearingTimesOut
  <2>2. out.tone.on \in BOOLEAN
    BY <1>1 DEF Threads
  <2> QED  BY <2>1, <2>2, ZenonT(40) DEF Keeps
<1>3. CASE SetCurrentCommits
  <2>1. PICK t, s : t = out.entry.track /\ s = Frames(t, Watermark)
    OBVIOUS
  <2>2. t \in Tracks /\ out.entry \in HeldNow
    BY <1>2, <1>3, <2>1, SMTT(30) DEF SetCurrentCommits, Commands, Exchanges, HeldNow
  <2>3. tracks[t].taken = 0 /\ Watermark \in Nat
    BY <1>2, <2>1, <2>2 DEF Fresh, Config, StreamAssumption
  <2>4. PICK m \in Mixes(out.interlude) :
            IF CanPrime(device, s)
            THEN /\ device' = Primed(device, s)
                 /\ timeline' = Replaced(timeline, t, device.total)
                 /\ out' = [out EXCEPT !.pc = "Loop", !.entry = NoEntry, !.current = t,
                                       !.interlude = m.to]
            ELSE UNCHANGED skewed
    BY <1>3, <2>1 DEF SetCurrentCommits
  <2>5. CASE ~CanPrime(device, s)
    <3>1. UNCHANGED skewed /\ out.entry.kind = "SetCurrent"
      BY <1>3, <2>4, <2>5 DEF SetCurrentCommits
    <3> QED  BY <1>2, <3>1 DEF ClockFollows
  <2>6. CASE CanPrime(device, s)
    <3>1. PICK i : i = m.to
      OBVIOUS
    <3>2. /\ device' = Primed(device, s) /\ timeline' = Replaced(timeline, t, device.total)
          /\ out' = [out EXCEPT !.pc = "Loop", !.entry = NoEntry, !.current = t, !.interlude = i]
      BY <2>4, <2>6, <3>1
    <3>3. out'.pc = "Loop" /\ out'.current = t /\ out'.pending = <<>> /\ out'.tone.on = FALSE
      BY <1>1, <1>2, <3>2 DEF Threads
    <3>4. tracks' = Taken(t, Watermark) /\ device.ring = <<>>
      BY <1>3, <2>1 DEF SetCurrentCommits
    <3>5. tracks'[t].taken = Watermark
      <4>1. tracks \in [Tracks -> Progress]
        BY DEF Typed
      <4> QED  BY <2>2, <2>3, <3>4, <4>1 DEF Taken, Progress
    <3>6. device.stream # "Closed"
      BY <2>6 DEF CanPrime, Running
    <3>7. s \in Seq(Sounds) /\ Len(s) = Watermark
          /\ \A i_1 \in 1 .. Watermark : s[i_1] = [track |-> t, at |-> i_1]
      <4>1. s = [i_1 \in 1 .. Watermark |-> [track |-> t, at |-> 0 + i_1]]
        BY <2>1, <2>3 DEF Frames
      <4>2. \A i_1 \in 1 .. Watermark : 0 + i_1 = i_1 /\ [track |-> t, at |-> i_1] \in Sounds
        BY <2>2, <2>3 DEF Sounds
      <4> QED  BY <2>3, <4>1, <4>2
    <3>8. Follows(device', <<>>, FALSE, t, Watermark, timeline')
      BY <1>1, <2>2, <2>3, <3>2, <3>4, <3>6, <3>7, FollowsReplaced
    <3>9. TakenOf(out.current)' = Watermark
      BY <2>2, <3>3, <3>5, Entry DEF TakenOf
    <3> QED  BY <3>3, <3>8, <3>9 DEF ClockFollows
  <2> QED  BY <2>5, <2>6
<1>4. CASE ToneStarts
  <2>1. PICK p, c : p = ToneSamples /\ c = [on |-> TRUE, restore |-> out.paused]
    OBVIOUS
  <2>2. /\ out' = [out EXCEPT !.pc = "Loop", !.entry = NoEntry, !.pending = p, !.tone = c,
                              !.paused = FALSE]
        /\ device' = Held(device, FALSE) /\ device.ring = <<>> /\ UNCHANGED <<timeline, tracks, skewed>>
    BY <1>4, <2>1 DEF ToneStarts
  <2>3. /\ out'.pc = "Loop" /\ out'.pending = p /\ out'.tone.on = TRUE
        /\ out'.current = out.current
    BY <1>1, <2>1, <2>2 DEF Threads
  <2>4. /\ device'.ring = <<>> /\ device'.total = device.total /\ device'.heard = device.heard
    BY <1>1, <2>2, HeldDevice
  <2>5. p \in Seq(Sounds) /\ Len(p) = ToneFrames /\ \A i \in 1 .. Len(p) : p[i].track = "Tone"
    <3>1. ToneFrames \in Nat
      BY DEF Config, OutputAssumption
    <3>2. p = [i \in 1 .. ToneFrames |-> [track |-> "Tone", at |-> i]]
      BY <2>1 DEF ToneSamples
    <3>3. \A i \in 1 .. ToneFrames : [track |-> "Tone", at |-> i] \in Sounds
      BY <3>1 DEF Sounds
    <3> QED  BY <3>1, <3>2, <3>3
  <2>6. PICK t, n : t = out.current /\ n = TakenOf(out.current)
    OBVIOUS
  <2>7. n \in Nat /\ (t # NoTrack \/ n = 0) /\ TakenOf(out.current)' = n
    BY <1>1, <2>2, <2>3, <2>6, Counts DEF TakenOf, Threads
  <2>8. CASE ~skewed
    <3>1. Follows(device, <<>>, FALSE, t, n, timeline)
      BY <1>2, <2>6, <2>8 DEF ClockFollows
    <3>2. Follows(device', p, TRUE, t, n, timeline)
      BY <1>1, <2>2, <2>4, <2>5, <2>7, <3>1, FollowsTone
    <3> QED  BY <2>2, <2>3, <2>6, <2>7, <3>2 DEF ClockFollows
  <2>9. CASE skewed
    BY <2>2, <2>9 DEF ClockFollows
  <2> QED  BY <2>8, <2>9
<1>5. CASE ClearDone
  BY <1>2, <1>5 DEF ClearDone, ClockFollows
<1>6. CASE ClearingTimesOut
  <2>1. out' = [out EXCEPT !.pc = "Loop", !.entry = NoEntry]
        /\ UNCHANGED <<device, timeline, tracks, skewed>>
    BY <1>6 DEF ClearingTimesOut
  <2>2. /\ out'.pc = "Loop" /\ out'.pending = out.pending /\ out'.tone = out.tone
        /\ out'.current = out.current
    BY <1>1, <2>1 DEF Threads
  <2> QED  BY <2>1, <2>2, ClockStays
<1> QED  BY <1>3, <1>4, <1>5, <1>6 DEF Clearing

LEMMA ClockLoop ==
    ASSUME Config, Typed, Typed', Keeps, Fresh, ClockFollows, Loop
    PROVE  ClockFollows'
<1>1. /\ out \in Threads /\ out.interlude \in Inserts /\ device \in Devices
      /\ timeline \in Timelines /\ out.current \in Tracks \cup {NoTrack}
      /\ out.tone.on \in BOOLEAN /\ out.paused \in BOOLEAN /\ out.pending \in Seq(Sounds)
  BY ZenonT(40) DEF Typed, Threads
<1>2. out.pc = "Loop"
  BY ZenonT(40)
     DEF Loop, MicrophoneTakenBack, ClockRefreshed, ToneEnds, SwitchRefused, SwitchCommits, Refill,
         Write, Switches, Turn
<1>3. ASSUME skewed' PROVE ClockFollows'
  BY <1>3 DEF ClockFollows
<1>4. /\ NoTrack \notin Tracks /\ \A u \in Tracks : tracks[u].taken \in Nat
      /\ tracks \in [Tracks -> Progress]
  BY Entry, Counts
<1>5. CASE MicrophoneTakenBack
  <2>1. PICK b \in BOOLEAN : \E d \in Openings(StreamStopped(device, b), "Output") :
          IF Running(d)
          THEN /\ device' = Held(d, out.paused)
               /\ out' = [out EXCEPT !.bridge = "None"]
               /\ skewed' = (skewed \/ device.ring # <<>>)
               /\ UNCHANGED timeline
          ELSE ThreadEnds(call, b)
    BY <1>5 DEF MicrophoneTakenBack
  <2>2. PICK d \in Openings(StreamStopped(device, b), "Output") :
          IF Running(d)
          THEN /\ device' = Held(d, out.paused)
               /\ out' = [out EXCEPT !.bridge = "None"]
               /\ skewed' = (skewed \/ device.ring # <<>>)
               /\ UNCHANGED timeline
          ELSE ThreadEnds(call, b)
    BY <2>1
  <2>3. CASE Running(d)
    <3>1. /\ d \in Devices /\ (d.ring = <<>> \/ d.ring = device.ring)
          /\ d.total = device.total /\ d.heard = device.heard
      BY <1>1, ReopenedDevice
    <3>2. /\ Held(d, out.paused).ring = d.ring /\ Held(d, out.paused).total = d.total
          /\ Held(d, out.paused).heard = d.heard
      BY <1>1, <3>1, HeldDevice
    <3>3. /\ device'.ring = <<>> \/ device'.ring = device.ring
          /\ device'.total = device.total /\ device'.heard = device.heard
      BY <2>2, <2>3, <3>1, <3>2
    <3>4. out' = [out EXCEPT !.bridge = "None"] /\ skewed' = (skewed \/ device.ring # <<>>)
          /\ UNCHANGED <<timeline, tracks>>
      BY <1>5, <2>2, <2>3 DEF MicrophoneTakenBack
    <3>5. /\ out'.pc = out.pc /\ out'.pending = out.pending /\ out'.tone.on = out.tone.on
          /\ out'.current = out.current
      BY <1>1, <3>4 DEF Threads
    <3> QED  BY <1>2, <3>3, <3>4, <3>5, ClockReopened
  <2>4. CASE ~Running(d)
    BY <1>3, <2>2, <2>4 DEF ThreadEnds
  <2> QED  BY <2>3, <2>4
<1>6. CASE ClockRefreshed
  <2>1. timeline' = Promoted(timeline, device.total) /\ UNCHANGED <<out, device, tracks, skewed>>
    BY <1>6 DEF ClockRefreshed
  <2> QED  BY <1>2, <2>1, ClockStays
<1>7. CASE ToneEnds
  <2>1. PICK t, k : /\ t = out.current
                    /\ k = IF t = NoTrack THEN 0
                           ELSE IF Available(t) < ToneFrames THEN Available(t) ELSE ToneFrames
    OBVIOUS
  <2>2. /\ tracks' = (IF t = NoTrack THEN tracks ELSE Taken(t, k))
        /\ skewed' = (skewed \/ k < ToneFrames)
        /\ out' = [out EXCEPT !.tone = NoTone, !.paused = out.tone.restore]
        /\ device' = Held(device, out.tone.restore) /\ UNCHANGED timeline
        /\ out.pending = <<>> /\ out.tone.on /\ device.ring = <<>>
    BY <1>7, <2>1 DEF ToneEnds
  <2>3. out'.pc = "Loop" /\ out'.pending = <<>> /\ out'.tone.on = FALSE /\ out'.current = t
    BY <1>1, <1>2, <2>1, <2>2 DEF Threads, NoTone
  <2>4. /\ device'.ring = <<>> /\ device'.total = device.total /\ device'.heard = device.heard
    <3>1. out.tone.restore \in BOOLEAN
      BY <1>1 DEF Threads
    <3> QED  BY <1>1, <2>2, <3>1, HeldDevice
  <2>5. CASE ~skewed'
    <3>1. ToneFrames \in Nat /\ ToneFrames > 0
      BY DEF Config, OutputAssumption
    <3>2. t # NoTrack /\ t \in Tracks /\ k = ToneFrames
      <4>1. t # NoTrack
        BY <2>1, <2>2, <2>5, <3>1
      <4>2. ~(k < ToneFrames)
        BY <2>2, <2>5
      <4> QED  BY <1>1, <2>1, <3>1, <4>1, <4>2
    <3>3. PICK n : n = tracks[t].taken
      OBVIOUS
    <3>4. n \in Nat /\ TakenOf(t) = n /\ TakenOf(out.current)' = n + ToneFrames
      <4>1. tracks'[t].taken = n + ToneFrames
        BY <1>4, <2>2, <3>1, <3>2, <3>3 DEF Taken, Progress
      <4> QED  BY <1>4, <2>3, <3>2, <3>3, <4>1 DEF TakenOf
    <3>5. Follows(device, <<>>, TRUE, t, n, timeline)
      BY <1>1, <2>1, <2>2, <2>5, <3>4 DEF ClockFollows
    <3>6. Follows(device', <<>>, FALSE, t, n + ToneFrames, timeline)
      <4>1. <<>> \in Seq(Sounds)
        OBVIOUS
      <4> QED  BY <1>1, <2>2, <2>4, <3>2, <3>4, <3>5, <4>1, FollowsTone, ZenonT(40)
    <3> QED  BY <2>2, <2>3, <3>4, <3>6 DEF ClockFollows
  <2> QED  BY <1>3, <2>5
<1>8. CASE SwitchRefused
  <2>1. out' = [out EXCEPT !.switch = NoEntry] /\ UNCHANGED <<device, timeline, tracks, skewed>>
    BY <1>8 DEF SwitchRefused
  <2>2. /\ out'.pc = out.pc /\ out'.pending = out.pending /\ out'.tone = out.tone
        /\ out'.current = out.current
    BY <1>1, <2>1 DEF Threads
  <2> QED  BY <1>2, <2>1, <2>2, ClockStays
<1>9. CASE SwitchCommits
  <2>1. PICK new, old, s : new = out.switch.track /\ old = out.current /\ s = Frames(new, 1)
    OBVIOUS
  <2>2. /\ out.pending = <<>> /\ out.tone.on = FALSE /\ out.switch \in Commands
        /\ out.switch.kind = "CrossfadeTo" /\ old # NoTrack /\ out.switch \in HeldNow
    BY <1>1, <1>9, <2>1 DEF SwitchCommits, Switches, Keeps, HeldNow
  <2>3. new \in Tracks /\ old \in Tracks
    BY <1>1, <2>1, <2>2 DEF Commands, Exchanges
  <2>4. tracks[new].taken = 0 /\ tracks[old].taken >= 1 /\ new # old
    BY <1>2, <2>1, <2>2, <2>3 DEF Fresh
  <2>5. PICK m \in Mixes(out.interlude) :
            IF CanPrime(device, s)
            THEN /\ device' = Primed(device, s)
                 /\ timeline' = CrossfadeQueued(timeline, new, FadeFrame)
                 /\ out' = [out EXCEPT !.current = new, !.switch = NoEntry, !.interlude = m.to]
                 /\ skewed' = (skewed \/ timeline.pending # NoAnchor)
            ELSE skewed' = TRUE
    BY <1>9, <2>1 DEF SwitchCommits
  <2>6. CASE CanPrime(device, s) /\ ~skewed'
    <3>1. PICK i : i = m.to
      OBVIOUS
    <3>2. /\ device' = Primed(device, s)
          /\ timeline' = CrossfadeQueued(timeline, new, device.total + Len(device.ring))
          /\ out' = [out EXCEPT !.current = new, !.switch = NoEntry, !.interlude = i]
          /\ ~skewed /\ timeline.pending = NoAnchor
      BY <2>5, <2>6, <3>1 DEF FadeFrame
    <3>3. /\ out'.pc = "Loop" /\ out'.current = new /\ out'.pending = <<>>
          /\ out'.tone.on = FALSE
      BY <1>1, <1>2, <2>2, <3>2 DEF Threads
    <3>4. tracks'[new].taken = 1
      <4>1. PICK x : tracks' = [tracks EXCEPT ![old].taken = x, ![new].taken = @ + 1]
        BY <1>9, <2>1 DEF SwitchCommits
      <4> QED  BY <1>4, <2>3, <2>4, <4>1, SMTT(30) DEF Progress
    <3>5. s = <<[track |-> new, at |-> 1]>> /\ s \in Seq(Sounds)
      <4>1. s = [i_1 \in 1 .. 1 |-> [track |-> new, at |-> 0 + i_1]]
        BY <2>1, <2>4 DEF Frames
      <4>2. [track |-> new, at |-> 1] \in Sounds
        BY <2>3 DEF Sounds
      <4>3. s = <<[track |-> new, at |-> 1]>>
        BY <4>1
      <4> QED  BY <4>2, <4>3
    <3>6. device.stream # "Closed"
      BY <2>6 DEF CanPrime, Running
    <3>7. PICK n : n = tracks[old].taken
      OBVIOUS
    <3>8. n \in Nat /\ TakenOf(old) = n /\ TakenOf(out.current)' = 1
      BY <1>4, <2>3, <3>3, <3>4, <3>7 DEF TakenOf
    <3>9. Follows(device, <<>>, FALSE, old, n, timeline)
      BY <2>1, <2>2, <3>2, <3>8 DEF ClockFollows
    <3>10. Follows(device', <<>>, FALSE, new, 1, timeline')
      BY <1>1, <2>3, <3>2, <3>5, <3>6, <3>8, <3>9, FollowsFaded
    <3> QED  BY <3>3, <3>8, <3>10 DEF ClockFollows
  <2> QED  BY <1>3, <2>5, <2>6
<1>10. CASE Refill
  <2>1. PICK t, s : t = out.current /\ s = Frames(t, 1)
    OBVIOUS
  <2>2. PICK m \in Mixes(out.interlude) :
            out' = [out EXCEPT !.pending = s, !.interlude = m.to]
    BY <1>10, <2>1 DEF Refill
  <2>3. PICK i : i = m.to
    OBVIOUS
  <2>4. out' = [out EXCEPT !.pending = s, !.interlude = i]
    BY <2>2, <2>3
  <2>5. /\ out.pending = <<>> /\ out.tone.on = FALSE /\ t \in Tracks
        /\ tracks' = Taken(t, 1) /\ UNCHANGED <<device, timeline, skewed>>
    BY <1>1, <1>10, <2>1 DEF Refill
  <2>6. /\ out'.pc = "Loop" /\ out'.current = t /\ out'.pending = s /\ out'.tone.on = FALSE
    BY <1>1, <1>2, <2>1, <2>4, <2>5 DEF Threads
  <2>7. PICK n : n = tracks[t].taken
    OBVIOUS
  <2>8. n \in Nat /\ TakenOf(t) = n /\ TakenOf(out.current)' = n + 1
    <3>1. tracks'[t].taken = n + 1
      BY <1>4, <2>5, <2>7 DEF Taken, Progress
    <3> QED  BY <1>4, <2>5, <2>6, <2>7, <3>1 DEF TakenOf
  <2>9. s = <<[track |-> t, at |-> n + 1]>> /\ s \in Seq(Sounds)
    <3>1. s = [i_1 \in 1 .. 1 |-> [track |-> t, at |-> n + i_1]]
      BY <2>1, <2>7 DEF Frames
    <3>2. [track |-> t, at |-> n + 1] \in Sounds
      BY <2>5, <2>8 DEF Sounds
    <3>3. s = <<[track |-> t, at |-> n + 1]>>
      BY <3>1
    <3> QED  BY <3>2, <3>3
  <2>10. CASE ~skewed
    <3>1. Follows(device, <<>>, FALSE, t, n, timeline)
      BY <2>1, <2>5, <2>8, <2>10 DEF ClockFollows
    <3>2. Follows(device, s, FALSE, t, n + 1, timeline)
      BY <1>1, <2>5, <2>8, <2>9, <3>1, FollowsRefilled
    <3> QED  BY <2>5, <2>6, <2>8, <3>2 DEF ClockFollows
  <2> QED  BY <1>3, <2>5, <2>10
<1>11. CASE Write
  <2>1. CASE Running(device)
    <3>1. PICK p, s, r : p = out.pending /\ s = <<Head(p)>> /\ r = Tail(p)
      OBVIOUS
    <3>2. /\ out' = [out EXCEPT !.pending = r] /\ device' = Written(device, s) /\ p # <<>>
          /\ UNCHANGED <<timeline, tracks, skewed>>
      BY <1>11, <2>1, <3>1 DEF Write
    <3>3. /\ out'.pc = "Loop" /\ out'.current = out.current /\ out'.pending = r
          /\ out'.tone = out.tone
      BY <1>1, <1>2, <3>2 DEF Threads
    <3>4. p \in Seq(Sounds) /\ s \in Seq(Sounds) /\ device.stream # "Closed"
      BY <1>1, <2>1, <3>1, <3>2, Rings DEF Running
    <3>5. PICK n : n = TakenOf(out.current)
      OBVIOUS
    <3>6. TakenOf(out.current)' = n
      BY <3>2, <3>3, <3>5 DEF TakenOf
    <3>7. CASE ~skewed
      <4>1. Follows(device, p, out.tone.on, out.current, n, timeline)
        BY <3>1, <3>5, <3>7 DEF ClockFollows
      <4>2. Follows(device', r, out.tone.on, out.current, n, timeline)
        BY <1>1, <3>1, <3>2, <3>4, <4>1, FollowsWritten
      <4> QED  BY <3>2, <3>3, <3>6, <4>2 DEF ClockFollows
    <3> QED  BY <1>3, <3>2, <3>7
  <2>2. CASE ~Running(device)
    BY <1>3, <1>11, <2>2 DEF Write, ThreadEnds
  <2> QED  BY <2>1, <2>2
<1> QED  BY <1>5, <1>6, <1>7, <1>8, <1>9, <1>10, <1>11 DEF Loop

LEMMA ClockNext ==
    ASSUME Config, Typed, Typed', Keeps, Fresh, ClockFollows, Next
    PROVE  ClockFollows'
<1>1. CASE Thread
  BY <1>1, ClockHandler, ClockClearing, ClockLoop DEF Thread
<1>2. /\ device \in Devices /\ out \in Threads /\ out.current \in Tracks \cup {NoTrack}
      /\ tracks \in [Tracks -> Progress] /\ timeline \in Timelines
  BY DEF Typed, Threads
<1>3. ASSUME NEW c \in Callers, GiveUp(c) PROVE ClockFollows'
  <2>1. /\ out'.pc = out.pc /\ out'.entry = Unnamed(out.entry, c) /\ out'.current = out.current
    BY <1>3, GiveUpPlaces
  <2>2. out'.pending = out.pending /\ out'.tone = out.tone
    BY <1>2, <1>3 DEF GiveUp, Threads
  <2>3. out'.entry.kind = out.entry.kind
    BY <1>2, <2>1 DEF Unnamed, Threads, Entries
  <2>4. UNCHANGED <<device, timeline, tracks, skewed>>
    BY <1>3 DEF GiveUp
  <2> QED  BY <2>1, <2>2, <2>3, <2>4, ClockStays
<1>4. ASSUME NEW c \in Callers, Ask(c) \/ Settle(c) \/ Joined(c) PROVE ClockFollows'
  <2>1. UNCHANGED <<out, device, timeline, skewed>>
    BY <1>4 DEF Ask, Settle, Joined
  <2>2. \A t \in Tracks : tracks'[t].taken = tracks[t].taken
    <3>1. CASE UNCHANGED tracks
      BY <3>1
    <3>2. CASE \E u : tracks' = [tracks EXCEPT ![u].live = FALSE]
      BY <1>2, <3>2 DEF Progress
    <3> QED  BY <1>4, <3>1, <3>2 DEF Ask, Settle, Joined
  <2> QED  BY <2>1, <2>2, ClockStays
<1>5. CASE \E t \in Tracks : TrackFed(t)
  <2>1. UNCHANGED <<out, device, timeline, skewed>>
    BY <1>5 DEF TrackFed
  <2>2. \A t \in Tracks : tracks'[t].taken = tracks[t].taken
    BY <1>2, <1>5 DEF TrackFed, Progress
  <2> QED  BY <2>1, <2>2, ClockStays
<1>6. CASE MicrophoneFails
  <2>1. UNCHANGED <<device, timeline, tracks, skewed>> /\ out' = [out EXCEPT !.bridge = "Revoked"]
    BY <1>6 DEF MicrophoneFails
  <2>2. /\ out'.pc = out.pc /\ out'.pending = out.pending /\ out'.tone = out.tone
        /\ out'.current = out.current /\ out'.entry = out.entry
    BY <1>2, <2>1 DEF Threads
  <2> QED  BY <2>1, <2>2, ClockStays
<1>7. CASE Callback
  <2>1. /\ device' = CallbackRan(device) /\ UNCHANGED <<out, timeline, tracks>>
        /\ device.stream # "Closed"
        /\ skewed' = (skewed \/ (device.clearing /\ device.ring # <<>>))
    BY <1>7 DEF Callback
  <2>2. PICK n, p, o, t : /\ n = TakenOf(out.current) /\ p = out.pending /\ o = out.tone.on
                          /\ t = out.current
    OBVIOUS
  <2>3. /\ n \in Nat /\ p \in Seq(Sounds) /\ o \in BOOLEAN /\ t \in Tracks \cup {NoTrack}
    BY <1>2, <2>2, Counts DEF TakenOf, Threads
  <2>4. CASE ~skewed'
    <3>1. Follows(device, p, o, t, n, timeline) /\ (device.clearing => device.ring = <<>>)
      BY <2>1, <2>2, <2>4 DEF ClockFollows
    <3>2. Follows(device', p, o, t, n, timeline)
      BY <1>2, <2>1, <2>3, <3>1, FollowsCallback
    <3>3. TakenOf(out.current)' = n /\ (out.pc = "Clearing" => out.entry.kind = "Tone")
      BY <2>1, <2>2, <2>4 DEF TakenOf, ClockFollows
    <3> QED  BY <2>1, <2>2, <3>2, <3>3 DEF ClockFollows
  <2>5. CASE skewed'
    BY <2>5 DEF ClockFollows
  <2> QED  BY <2>4, <2>5
<1> QED  BY <1>1, <1>3, <1>4, <1>5, <1>6, <1>7 DEF Next

-----------------------------------------------------------------------------
(* The specification *)

LEMMA InitHolds ==
    ASSUME Config, Init
    PROVE  IInv /\ DecidesOnceStart
<1>1. /\ NoEntry \in Entries /\ NoEntry.by = NoCaller /\ NoEntry.track = NoTrack
      /\ NoEntry \notin Commands /\ NoTrack \notin Tracks /\ NoEntry.kind \notin AllKinds
      /\ NoInterlude.switch = NoEntry /\ NoInterlude \in Inserts
  BY Entry DEF NoEntry, NoInterlude, Inserts, AllKinds, Exchanges, Interludes
<1>2. device \in Devices /\ device.ring = <<>> /\ device.held /\ device.stream = "Output"
      /\ Len(device.ring) = 0 /\ device.heard = Silence /\ device.total = 0
  <2>1. <<>> \in Seq(Sounds) /\ Len(<<>>) = 0
    OBVIOUS
  <2>2. Silence \in Sounds
    BY DEF Silence, Sounds
  <2> QED  BY <2>1, <2>2 DEF Init, Opened, NewStream, Devices, StreamStates
<1>3. out.interlude = NoInterlude /\ out.tone = NoTone /\ out.pending = <<>>
      /\ out.pc = "Loop" /\ out.entry = NoEntry /\ out.switch = NoEntry /\ out.current = NoTrack
      /\ out.paused = TRUE /\ out.bridge = "None" /\ out.failed = FALSE
  BY DEF Init
<1>4. out \in Threads
  <2>1. <<>> \in Seq(Sounds)
    OBVIOUS
  <2> QED  BY <1>1, <2>1 DEF Init, Threads, NoTone
<1>5. /\ QueueCapacity \in Nat /\ RingCapacity \in Nat /\ MaxCommands \in Nat /\ TrackLength \in Nat
  BY DEF Config, OutputAssumption, StreamAssumption
<1>6. Typed
  <2>1. queue \in Seq(Commands) /\ Len(queue) = 0
    BY DEF Init
  <2>2. timeline \in Timelines
    BY DEF Init, NewTimeline, NoAnchor, Timelines, Anchors, NoTrack
  <2>3. call \in [Callers -> Calls]
    BY DEF Init, Calls
  <2>4. tracks \in [Tracks -> Progress]
    BY <1>5 DEF Init, Progress
  <2>5. /\ slot \in Tracks \cup {NoTrack} /\ sent = 0 /\ skewed \in BOOLEAN /\ late \in BOOLEAN
        /\ wish \in {"Pause", "Resume", "None"}
    BY DEF Init
  <2>6. /\ Len(queue) <= QueueCapacity /\ Len(device.ring) <= RingCapacity
        /\ sent \in 0 .. MaxCommands
    BY <1>2, <1>5, <2>1, <2>5
  <2> QED  BY <1>2, <1>4, <2>1, <2>2, <2>3, <2>4, <2>5, <2>6 DEF Typed
<1>7. Keeps
  BY <1>1, <1>3 DEF Keeps
<1>8. HeldNow = {NoEntry} /\ Len(queue) = 0 /\ queue = <<>>
  <2>1. queue = <<>> /\ Range(queue) = {}
    BY DEF Init, Range
  <2> QED  BY <1>1, <1>3, <2>1 DEF HeldNow
<1>9. \A c \in Callers : call[c].at = "Idle" /\ call[c].kind = "None"
  BY DEF Init
<1>10. Answers
  <2>1. Apart(queue, out.entry, out.switch, out.interlude.switch)
    BY <1>1, <1>3, <1>8 DEF Apart, Differ
  <2>2. Owned(call, HeldNow) /\ Present(call, HeldNow)
    BY <1>1, <1>8, <1>9 DEF Owned, Present
  <2>3. "None" \notin Exchanges
    BY DEF Exchanges
  <2> QED  BY <1>3, <1>9, <2>1, <2>2, <2>3 DEF Answers
<1>11. Fresh
  <2>1. \A t \in Tracks : tracks[t].taken = 0 /\ tracks[t].decoded = 0
    BY DEF Init
  <2> QED  BY <1>1, <1>3, <1>8, <2>1 DEF Fresh
<1>12. HeldWhilePaused
  BY <1>2, <1>3 DEF HeldWhilePaused, PausedIsHeld, BridgeHasItsStream
<1>13. OneExchange
  <2>1. "None" \notin Exchanges
    BY DEF Exchanges
  <2> QED  BY <1>1, <1>3, <1>8, <1>9, <2>1 DEF OneExchange
<1>14. DecidesOnceStart
  <2>1. Undecided = {}
    BY <1>1, <1>3, <1>8 DEF Undecided, HeldNow
  <2>2. "None" \notin Exchanges
    BY DEF Exchanges
  <2> QED  BY <1>3, <1>9, <2>1, <2>2
           DEF DecidesOnceStart, Abstract!OutputInit, Abstract!NoTrack, Abstract!NoAsk, NoTrack
<1>15. ClockFollows
  <2>1. /\ <<>> \o <<>> = <<>> /\ Len(<<>>) = 0 /\ timeline = NewTimeline
    BY DEF Init
  <2>2. Latest(NewTimeline).track = NoTrack /\ NewTimeline.pending = NoAnchor
    BY DEF Latest, NewTimeline, NoAnchor, NoTrack
  <2>3. Silence.track \notin Tracks
    BY DEF Silence, Config, NamesAssumption
  <2>4. out.tone.on = FALSE
    BY <1>3 DEF NoTone
  <2>5. Follows(device, <<>>, FALSE, NoTrack, 0, NewTimeline)
    BY <1>2, <2>1, <2>2, <2>3 DEF Follows
  <2> QED  BY <1>3, <2>1, <2>4, <2>5 DEF ClockFollows, TakenOf
<1> QED  BY <1>6, <1>7, <1>10, <1>11, <1>12, <1>13, <1>14, <1>15 DEF IInv

\* A step keeps the invariant, and is a step of the abstract output or none.
LEMMA StepHolds ==
    ASSUME Config, IInv, [Next]_vars
    PROVE  IInv' /\ (Abstract!OutputNext \/ UNCHANGED Abstract!outputVars)
<1>1. CASE Next
  <2>1. Typed'
    BY <1>1, TypedNext DEF IInv
  <2>2. Keeps'
    BY <1>1, KeepsNext DEF IInv
  <2>3. Answers' /\ OneExchange' /\ (Abstract!OutputNext \/ UNCHANGED Abstract!outputVars)
    BY <1>1, <2>1, <2>2, NextKeepsAnswers DEF IInv
  <2>4. Fresh'
    BY <1>1, <2>1, <2>2, <2>3, FreshNext DEF IInv
  <2>5. HeldWhilePaused'
    BY <1>1, <2>1, HeldNext DEF IInv
  <2>6. ClockFollows'
    BY <1>1, <2>1, ClockNext DEF IInv
  <2> QED  BY <2>1, <2>2, <2>3, <2>4, <2>5, <2>6 DEF IInv
<1>2. CASE UNCHANGED vars
  <2>1. Typed'
    BY <1>2 DEF IInv, vars, Typed
  <2>2. Keeps'
    BY <1>2 DEF IInv, vars, Keeps
  <2>3. Answers'
    BY <1>2 DEF IInv, vars, Answers, HeldNow
  <2>4. Fresh'
    BY <1>2 DEF IInv, vars, Fresh, HeldNow, Available
  <2>5. HeldWhilePaused'
    BY <1>2 DEF IInv, vars, HeldWhilePaused, PausedIsHeld, BridgeHasItsStream
  <2>6. OneExchange'
    BY <1>2 DEF IInv, vars, OneExchange, HeldNow
  <2>7. UNCHANGED Abstract!outputVars
    BY <1>2 DEF vars, Abstract!outputVars, Undecided
  <2>8. ClockFollows'
    BY <1>2 DEF IInv, vars, ClockFollows, TakenOf
  <2> QED  BY <2>1, <2>2, <2>3, <2>4, <2>5, <2>6, <2>7, <2>8 DEF IInv
<1> QED  BY <1>1, <1>2

\* The inductive invariant: the types, what the thread keeps, that every call that waits
\* has its one command, that an undecided track was not read, and what the clock follows.
THEOREM OutputInvariant == ASSUME Config PROVE Spec => []IInv
<1>1. Init => IInv
  BY InitHolds
<1>2. IInv /\ [Next]_vars => IInv'
  BY StepHolds
<1> QED  BY <1>1, <1>2, PTL DEF Spec

\* The variables keep their types: the channel and the ring stay within their capacities
\* and no track is read past what its task decoded.
THEOREM TypesHold == ASSUME Config PROVE Spec => []TypeOK
<1>1. IInv => TypeOK
  <2> SUFFICES ASSUME IInv PROVE TypeOK
    OBVIOUS
  <2>1. Typed
    BY DEF IInv
  <2>2. Commands \subseteq Entries
    BY DEF Commands
  <2>3. queue \in Seq(Entries)
    BY <2>1, <2>2 DEF Typed
  <2>4. out \in Threads
    BY <2>1 DEF Typed
  <2>5. /\ out.pc \in {"Loop", "Clearing", "Gone"}
        /\ out.entry \in Entries /\ out.switch \in Entries /\ out.interlude \in Inserts
        /\ out.current \in Tracks \cup {NoTrack}
        /\ out.bridge \in {"None", "Held", "Revoked"}
        /\ out.tone \in [on : BOOLEAN, restore : BOOLEAN]
        /\ out.paused \in BOOLEAN /\ out.failed \in BOOLEAN
    BY <2>4 DEF Threads
  <2>6. out.interlude.switch \in Entries /\ out.interlude.mode \in {"None", "On", "Paused", "Release"}
    BY <2>5 DEF Inserts
  <2>7. out.tone.on \in BOOLEAN /\ out.tone.restore \in BOOLEAN
    BY <2>5
  <2>8. device.stream \in StreamStates
    BY <2>1 DEF Typed, Devices
  <2>9. timeline.active.track \in Tracks \cup {NoTrack}
    BY <2>1 DEF Typed, Timelines, Anchors
  <2> QED  BY <2>1, <2>3, <2>5, <2>6, <2>7, <2>8, <2>9 DEF TypeOK, Typed, Calls, Progress
<1> QED  BY <1>1, OutputInvariant, PTL

\* No handler of output_loop forgets the caller of a candidate it replaces, and none keeps
\* a command it has answered: who waits is in exactly one place of the thread.
THEOREM EveryCallIsAnsweredOnce == ASSUME Config PROVE Spec => []WaitingCallIsHeld
<1>1. IInv => WaitingCallIsHeld
  <2> SUFFICES ASSUME IInv, NEW c \in Callers, call[c].at = "Waiting"
               PROVE  Cardinality({i \in 1 .. Len(queue) : queue[i].by = c})
                      + Cardinality({p \in {"entry", "switch", "interlude"} :
                            LET e == CASE p = "entry" -> out.entry
                                       [] p = "switch" -> out.switch
                                       [] p = "interlude" -> out.interlude.switch
                            IN  e.by = c}) = 1
    BY DEF WaitingCallIsHeld
  <2> DEFINE Q == {i \in 1 .. Len(queue) : queue[i].by = c}
             At(p) == CASE p = "entry" -> out.entry
                        [] p = "switch" -> out.switch
                        [] p = "interlude" -> out.interlude.switch
             P == {p \in {"entry", "switch", "interlude"} : At(p).by = c}
  <2>1. /\ Apart(queue, out.entry, out.switch, out.interlude.switch)
        /\ Present(call, HeldNow) /\ c # NoCaller /\ queue \in Seq(Commands)
    BY Entry DEF IInv, Answers, Typed
  <2>2. /\ At("entry") = out.entry /\ At("switch") = out.switch
        /\ At("interlude") = out.interlude.switch
    OBVIOUS
  <2>3. P = {p \in {"entry", "switch", "interlude"} :
                 \/ p = "entry" /\ out.entry.by = c
                 \/ p = "switch" /\ out.switch.by = c
                 \/ p = "interlude" /\ out.interlude.switch.by = c}
    BY <2>2
  <2> HIDE DEF At
  <2>4. PICK e \in HeldNow : e.by = c
    BY <2>1 DEF Present
  <2>5. (\E n \in Q : Q = {n} /\ P = {}) \/ (\E p \in P : P = {p} /\ Q = {})
    <3>1. CASE e \in Range(queue)
      <4>1. PICK n \in 1 .. Len(queue) : e = queue[n]
        BY <2>1, <3>1 DEF Range
      <4>2. \A m \in 1 .. Len(queue) : queue[m].by = c => m = n
        BY <2>1, <2>4, <4>1 DEF Apart, Differ
      <4>3. out.entry.by # c /\ out.switch.by # c /\ out.interlude.switch.by # c
        BY <2>1, <2>4, <4>1 DEF Apart, Differ
      <4>4. Q = {n}
        BY <2>4, <4>1, <4>2
      <4>5. P = {}
        BY <2>3, <4>3
      <4> QED  BY <4>4, <4>5
    <3>2. CASE e \in {out.entry, out.switch, out.interlude.switch}
      <4>1. \A n \in 1 .. Len(queue) : queue[n].by # c
        BY <2>1, <2>4, <3>2 DEF Apart, Differ
      <4>2. Q = {}
        BY <4>1
      <4>3. /\ ~(out.entry.by = c /\ out.switch.by = c)
            /\ ~(out.entry.by = c /\ out.interlude.switch.by = c)
            /\ ~(out.switch.by = c /\ out.interlude.switch.by = c)
        BY <2>1 DEF Apart, Differ
      <4>4. \E p \in P : P = {p}
        BY <2>3, <2>4, <3>2, <4>3
      <4> QED  BY <4>2, <4>4
    <3> QED  BY <2>4, <3>1, <3>2 DEF HeldNow
  <2> HIDE DEF P, Q
  <2>6. Cardinality({}) = 0 /\ \A x : Cardinality({x}) = 1
    BY FS_EmptySet, FS_Singleton
  <2>7. Cardinality(Q) + Cardinality(P) = 1
    <3>1. CASE \E n \in Q : Q = {n} /\ P = {}
      <4>1. Cardinality(Q) = 1 /\ Cardinality(P) = 0
        BY <2>6, <3>1
      <4> QED  BY <4>1
    <3>2. CASE \E p \in P : P = {p} /\ Q = {}
      <4>1. Cardinality(Q) = 0 /\ Cardinality(P) = 1
        BY <2>6, <3>2
      <4> QED  BY <4>1
    <3> QED  BY <2>5, <3>1, <3>2
  <2> QED  BY <2>7 DEF P, Q, At
<1> QED  BY <1>1, OutputInvariant, PTL

\* As long as no frame was dropped, the estimate of the timeline is the frame that the
\* callback has heard last: its track, and how much of it was heard.
THEOREM ClockIsHeard == ASSUME Config PROVE Spec => []ClockNamesWhatIsHeard
<1>1. IInv => ClockNamesWhatIsHeard
  <2> SUFFICES ASSUME IInv, ~skewed, device.heard.track \in Tracks,
                      Estimate(timeline, device.total).at > 0
               PROVE  Estimate(timeline, device.total) = device.heard
    BY DEF ClockNamesWhatIsHeard
  <2>1. PICK k, tl : k = device.total /\ tl = timeline
    OBVIOUS
  <2>2. k \in Nat /\ tl \in Timelines /\ tl.pending.frame \in Nat /\ tl.active.frame \in Nat
    BY <2>1 DEF IInv, Typed, Devices, Timelines, Anchors
  <2>3. Says(tl, k).at > 0 => device.heard = Says(tl, k)
    BY <2>1 DEF IInv, ClockFollows, Follows
  <2>4. Estimate(tl, k).at > 0
    BY <2>1
  <2>5. Estimate(tl, k) = Says(tl, k)
    <3>1. CASE tl.pending # NoAnchor /\ k >= tl.pending.frame
      <4>1. Estimate(tl, k) = [track |-> tl.pending.track, at |-> k - tl.pending.frame]
        BY <3>1 DEF Estimate, Promoted
      <4>2. k > tl.pending.frame
        BY <2>2, <2>4, <4>1
      <4> QED  BY <3>1, <4>1, <4>2 DEF Says
    <3>2. CASE ~(tl.pending # NoAnchor /\ k >= tl.pending.frame)
      <4>1. Estimate(tl, k) = [track |-> tl.active.track, at |-> k - tl.active.frame]
        BY <3>2 DEF Estimate, Promoted
      <4>2. ~(tl.pending # NoAnchor /\ k > tl.pending.frame)
        BY <2>2, <3>2
      <4> QED  BY <4>1, <4>2 DEF Says
    <3> QED  BY <3>1, <3>2
  <2> QED  BY <2>1, <2>3, <2>4, <2>5
<1> QED  BY <1>1, OutputInvariant, PTL

\* If nobody gave up, what is played is the track whose task the owner keeps alive.
THEOREM SlotIsPlayed == ASSUME Config PROVE Spec => []CurrentIsTheSlot
<1>1. IInv => CurrentIsTheSlot
  <2> SUFFICES ASSUME IInv, ~late, ~Exchanging, out.current # NoTrack PROVE out.current = slot
    BY DEF CurrentIsTheSlot
  <2>1. \A c \in Callers : call[c].kind \notin Exchanges
    BY DEF Exchanging, IInv, Answers, Exchanges
  <2> QED  BY <2>1 DEF IInv, OneExchange
<1> QED  BY <1>1, OutputInvariant, PTL

\* Pausing cancels the candidate that waits, so resuming commits none.
THEOREM PauseCancelsTheCandidate == ASSUME Config PROVE Spec => []PausedHasNoCandidate
<1>1. IInv => PausedHasNoCandidate
  BY DEF IInv, Keeps, PausedHasNoCandidate
<1> QED  BY <1>1, OutputInvariant, PTL

\* Whatever closes and opens the stream while the output is paused leaves it held.
THEOREM PauseHoldsTheHardware == ASSUME Config PROVE Spec => []PausedIsHeld
<1>1. IInv => PausedIsHeld
  BY DEF IInv, HeldWhilePaused
<1> QED  BY <1>1, OutputInvariant, PTL

\* The bridge of the microphone belongs to a duplex stream and dies with the thread.
THEOREM BridgeIsOfTheStream == ASSUME Config PROVE Spec => []BridgeHasItsStream
<1>1. IInv => BridgeHasItsStream
  BY DEF IInv, HeldWhilePaused
<1> QED  BY <1>1, OutputInvariant, PTL

\* The thread implements the abstract output: each exchange is decided once and its caller
\* hears how.
THEOREM OutputDecidesOnce == ASSUME Config PROVE Spec => DecidesOnce
<1>1. Init => Abstract!OutputInit
  BY InitHolds DEF DecidesOnceStart
<1>2. IInv /\ [Next]_vars => [Abstract!OutputNext]_(Abstract!outputVars)
  BY StepHolds
<1> QED  BY <1>1, <1>2, OutputInvariant, PTL DEF Spec, DecidesOnce, Abstract!OutputSpec
=============================================================================

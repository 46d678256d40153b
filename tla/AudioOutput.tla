---------------------------- MODULE AudioOutput ----------------------------
(***************************************************************************)
(* What the output thread of audio_cycle_output.rs promises to the owner   *)
(* of the tracks in commands.rs.  An exchange of the track is asked by one *)
(* caller and decided once: the output plays the new track and the caller  *)
(* hears Ok, or the new track is refused and what played goes on.  Only a  *)
(* command that silences the output takes the track away.  A caller that   *)
(* gives up has its Err at once; its track is undecided until the thread   *)
(* comes to it.                                                            *)
(*                                                                         *)
(* AudioCycleOutput implements this; AudioCycle is built on it.            *)
(***************************************************************************)
CONSTANTS Callers, Tracks

NoTrack == "None"
NoAsk   == [at |-> "None", track |-> NoTrack]

VARIABLES
    playing,   \* the track that is played
    asked,     \* the tracks that are undecided
    answer     \* what each caller knows of its exchange

outputVars == <<playing, asked, answer>>

OutputTypeOK ==
    /\ playing \in Tracks \cup {NoTrack}
    /\ asked \subseteq Tracks
    /\ answer \in [Callers -> [at : {"None", "Waiting", "Ok", "Err"}, track : Tracks \cup {NoTrack}]]

OutputInit ==
    /\ playing = NoTrack
    /\ asked = {}
    /\ answer = [c \in Callers |-> NoAsk]

\* The callers that wait for one of these tracks hear how it was decided.
Heard(S, result) ==
    [c \in Callers |->
        IF answer[c].at = "Waiting" /\ answer[c].track \in S
        THEN [answer[c] EXCEPT !.at = result] ELSE answer[c]]

Asks(c, t) ==
    /\ answer[c].at = "None"
    /\ asked' = asked \cup {t}
    /\ answer' = [answer EXCEPT ![c] = [at |-> "Waiting", track |-> t]]
    /\ UNCHANGED playing

\* The channel is full or the thread is gone.
IsTurnedAway(c, t) ==
    /\ answer[c].at = "None"
    /\ answer' = [answer EXCEPT ![c] = [at |-> "Err", track |-> t]]
    /\ UNCHANGED <<playing, asked>>

Plays(t) ==
    /\ t \in asked
    /\ playing' = t
    /\ asked' = asked \ {t}
    /\ answer' = Heard({t}, "Ok")

\* Candidates that fail, are cancelled by a pause or replaced by another track.
Refuses(S) ==
    /\ S \subseteq asked
    /\ asked' = asked \ S
    /\ answer' = Heard(S, "Err")
    /\ UNCHANGED playing

\* Clear, the end of the thread, or a first track that can not be primed.
Silences(S) ==
    /\ S \subseteq asked
    /\ playing' = NoTrack
    /\ asked' = asked \ S
    /\ answer' = Heard(S, "Err")

GivesUp(c) ==
    /\ answer[c].at = "Waiting"
    /\ answer' = [answer EXCEPT ![c].at = "Err"]
    /\ UNCHANGED <<playing, asked>>

Settles(c) ==
    /\ answer[c].at \in {"Ok", "Err"}
    /\ answer' = [answer EXCEPT ![c] = NoAsk]
    /\ UNCHANGED <<playing, asked>>

OutputNext ==
    \/ \E c \in Callers, t \in Tracks : Asks(c, t) \/ IsTurnedAway(c, t)
    \/ \E c \in Callers : GivesUp(c) \/ Settles(c)
    \/ \E t \in Tracks : Plays(t)
    \/ \E S \in SUBSET asked : Refuses(S) \/ Silences(S)

OutputSpec == OutputInit /\ [][OutputNext]_outputVars
=============================================================================

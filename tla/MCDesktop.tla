----------------------------- MODULE MCDesktop ------------------------------
(*****************************************************************************)
(* The processing of the media and the resources of the desktop program,     *)
(* each in the instances that one scenario checks.                           *)
(*****************************************************************************)
EXTENDS Naturals, Sequences, TLC

CONSTANTS b1, b2, k1, k2

Film == [name |-> "film", kind |-> "Video"]
Song == [name |-> "song", kind |-> "Audio"]
One  == <<Film>>
Two  == <<Film, Song>>

VARIABLES
    scenario,   \* the instance that runs
    \* MediaProcessing
    core, rendererOn, worker, slot, transition, op, disk, seen, issued,
    \* RuntimeResources
    final, partial, record, status, cancel, phase, job, asked, faults, cancels, starts,
    runs, damaged, cleared, late

mediaVars == <<core, rendererOn, worker, slot, transition, op, disk, seen, issued>>
resourcesVars == <<final, partial, record, status, cancel, phase, job, asked, faults,
                   cancels, starts, runs, damaged, cleared, late>>
vars == <<scenario, mediaVars, resourcesVars>>

\* The sound: candidates that are prepared, committed and discarded while the parameters
\* change.
Sound == INSTANCE MediaProcessing WITH
    Configs <- {k1, k2}, Duration <- 2, MaxPoolItems <- 3, FirstConfig <- k1,
    MaxWorkers <- 2, MayTimeOut <- TRUE, Background <- {b1, b2},
    Kinds <- {"Poll", "Prepare", "Commit", "Discard", "Profile", "Stop"},
    Pools <- {One, Two}, FirstPool <- One, MaxOps <- 4

\* The picture: its files are released while another is rendered.
Picture == INSTANCE MediaProcessing WITH
    Configs <- {k1, k2}, Duration <- 2, MaxPoolItems <- 3, FirstConfig <- k1,
    MaxWorkers <- 2, MayTimeOut <- TRUE, Background <- {b1},
    Kinds <- {"Poll", "Start", "Commit", "Discard", "Release", "Complete"},
    Pools <- {One, Two}, FirstPool <- One, MaxOps <- 5

\* Both at once, while the pool is edited, emptied and played on.
Pool == INSTANCE MediaProcessing WITH
    Configs <- {k1, k2}, Duration <- 2, MaxPoolItems <- 3, FirstConfig <- k1,
    MaxWorkers <- 2, MayTimeOut <- TRUE, Background <- {b1, b2},
    Kinds <- {"Prepare", "Start", "Edit", "Complete", "Stop"}, Pools <- {One, Two, <<>>},
    FirstPool <- Two, MaxOps <- 3

\* The picture, whose cache is cleaned up.
Cache == INSTANCE MediaProcessing WITH
    Configs <- {k1, k2}, Duration <- 2, MaxPoolItems <- 3, FirstConfig <- k1,
    MaxWorkers <- 2, MayTimeOut <- TRUE, Background <- {b1},
    Kinds <- {"Start", "Commit", "Release", "Cleanup", "Stop", "Play"}, Pools <- {One, Two},
    FirstPool <- One, MaxOps <- 5

\* The switches of the two domains, while both are processed.
Switches == INSTANCE MediaProcessing WITH
    Configs <- {k1, k2}, Duration <- 2, MaxPoolItems <- 3, FirstConfig <- k1,
    MaxWorkers <- 2, MayTimeOut <- TRUE, Background <- {b1, b2},
    Kinds <- {"Prepare", "Start", "Switch"}, Pools <- {One, Two}, FirstPool <- One,
    MaxOps <- 3

\* Two files of the runtime, three operations, a cancellation, a restart and three
\* failures.
Runtime == INSTANCE RuntimeResources WITH
    NFiles <- 2, Size <- 2, MaxRequests <- 3, Operations <- {"install", "import", "clear"},
    Outage <- FALSE, MaxFaults <- 2, MaxCancels <- 1, MaxStarts <- 3, MaxRuns <- 2,
    Damages <- TRUE

ASSUME SoundValues == Sound!CoreAssumption /\ Sound!MediaAssumption
ASSUME PictureValues == Picture!CoreAssumption /\ Picture!MediaAssumption
ASSUME PoolValues == Pool!CoreAssumption /\ Pool!MediaAssumption
ASSUME CacheValues == Cache!CoreAssumption /\ Cache!MediaAssumption
ASSUME SwitchesValues == Switches!CoreAssumption /\ Switches!MediaAssumption
ASSUME RuntimeValues == Runtime!ResourceAssumption

\* The variables of a part that does not run.
Unused == "unused"
NoMedia == core = Unused /\ rendererOn = Unused /\ worker = Unused /\ slot = Unused /\
            transition = Unused /\ op = Unused /\ disk = Unused /\ seen = Unused /\
            issued = Unused
NoResources == final = Unused /\ partial = Unused /\ record = Unused /\ status = Unused /\
                cancel = Unused /\ phase = Unused /\ job = Unused /\ asked = Unused /\
                faults = Unused /\ cancels = Unused /\ starts = Unused /\ runs = Unused /\
                damaged = Unused /\ cleared = Unused /\ late = Unused

OnlyMedia == NoResources
OnlyResources == NoMedia

Init ==
    \/ scenario = "Sound" /\ Sound!Init /\ OnlyMedia
    \/ scenario = "Picture" /\ Picture!Init /\ OnlyMedia
    \/ scenario = "Pool" /\ Pool!Init /\ OnlyMedia
    \/ scenario = "Cache" /\ Cache!Init /\ OnlyMedia
    \/ scenario = "Switches" /\ Switches!Init /\ OnlyMedia
    \/ scenario = "Runtime" /\ Runtime!Init /\ OnlyResources

Next ==
    /\ UNCHANGED scenario
    /\ \/ scenario = "Sound" /\ Sound!Next /\ UNCHANGED <<resourcesVars>>
       \/ scenario = "Picture" /\ Picture!Next /\ UNCHANGED <<resourcesVars>>
       \/ scenario = "Pool" /\ Pool!Next /\ UNCHANGED <<resourcesVars>>
       \/ scenario = "Cache" /\ Cache!Next /\ UNCHANGED <<resourcesVars>>
       \/ scenario = "Switches" /\ Switches!Next /\ UNCHANGED <<resourcesVars>>
       \/ scenario = "Runtime" /\ Runtime!Next /\ UNCHANGED <<mediaVars>>

Spec == Init /\ [][Next]_vars

Symmetry == Permutations({b1, b2})

-----------------------------------------------------------------------------
\* The types of the variables of every part.
TypeOK ==
    /\ scenario = "Sound" => Sound!TypeOK
    /\ scenario = "Picture" => Picture!TypeOK
    /\ scenario = "Pool" => Pool!TypeOK
    /\ scenario = "Cache" => Cache!TypeOK
    /\ scenario = "Switches" => Switches!TypeOK
    /\ scenario = "Runtime" => Runtime!TypeOK

\* One thread renders for a domain: FFmpeg does not run twice. (the slots, which are filled
\* after the thread was spawned, and the stops that give up)
OneThreadPerDomain ==
    /\ scenario = "Sound" => Sound!OneThreadPerDomain
    /\ scenario = "Pool" => Pool!OneThreadPerDomain
    /\ scenario = "Switches" => Switches!OneThreadPerDomain

\* A thread writes what the core waits for from it or nothing: a failure or a late result
\* of one candidate leaves the next one alone (mark_audio_media_processing_failed compares
\* nothing); and the sound that is switched to was rendered with the parameters, and under
\* the revision, that are in force from this moment (commit_audio_media_candidate).
ThreadsWriteTheirOwn ==
    [][scenario = "Sound" => Sound!ThreadsWriteTheirOwnStep /\ Sound!SoundHasItsParametersStep]_vars

\* A file the core refers to is in the cache (the release, the discard, the sweep of the
\* cache and the deletion of refused results against what is committed meanwhile), and it
\* was made for what plays: the picture for its generation, the sound for its generation
\* and its loop.
NamedFilesExist ==
    /\ scenario = "Picture" => Picture!NamedFilesExist
    /\ scenario = "Cache" => Cache!NamedFilesExist
    /\ scenario = "Pool" => Pool!ArtifactsBelong

\* What is installed is verified, however operations were cancelled, broken off or
\* overtaken by the end of the application.
InstallationIsSound == scenario = "Runtime" => Runtime!InstallationIsSound

=============================================================================

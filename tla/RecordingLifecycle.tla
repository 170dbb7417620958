------------------------- MODULE RecordingLifecycle -------------------------
(***************************************************************************)
(* What the lifecycle diagram of record_session.py promises of a recording *)
(* id, without connections, owners or timers: audio is appended to one wav *)
(* that outlives suspensions, and a recording ends exactly once, either in *)
(* a task that holds all of its audio or deleted.                          *)
(***************************************************************************)
EXTENDS Naturals, Sequences

CONSTANTS
    Chunk,      \* audio chunks
    AppendIn    \* the states in which the wav may grow

VARIABLES
    life,       \* "none", "active" or "suspended"
    wav,        \* the audio of the current recording
    recordings  \* the audio of the recordings that became tasks

vars == <<life, wav, recordings>>

Init ==
    /\ life = "none"
    /\ wav = <<>>
    /\ recordings = <<>>

Start ==
    /\ life = "none"
    /\ life' = "active"
    /\ UNCHANGED <<wav, recordings>>

Grow ==
    /\ life \in AppendIn
    /\ \E chunk \in Chunk : wav' = Append(wav, chunk)
    /\ UNCHANGED <<life, recordings>>

Suspend ==
    /\ life = "active"
    /\ life' = "suspended"
    /\ UNCHANGED <<wav, recordings>>

Resume ==
    /\ life = "suspended"
    /\ life' = "active"
    /\ UNCHANGED <<wav, recordings>>

\* Explicit stop or grace expiry.  Nothing recorded means no task.
Finalize ==
    /\ life # "none"
    /\ life' = "none"
    /\ wav' = <<>>
    /\ recordings' = IF wav = <<>> THEN recordings ELSE Append(recordings, wav)

\* Discard, or a failure.
Vanish ==
    /\ life # "none"
    /\ life' = "none"
    /\ wav' = <<>>
    /\ UNCHANGED recordings

Next == Start \/ Grow \/ Suspend \/ Resume \/ Finalize \/ Vanish

Spec == Init /\ [][Next]_vars
=============================================================================

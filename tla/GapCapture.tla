----------------------------- MODULE GapCapture -----------------------------
(***************************************************************************)
(* The local capture that covers an outage (wsRecorderClient.ts, lines     *)
(* 237-285): a MediaRecorder whose slices are kept in gapChunks and joined *)
(* to gapBlob when the connection is back or the recording stops.          *)
(*                                                                         *)
(* MediaRecorder belongs to the browser: a recorder collects the audio     *)
(* heard since its last slice and hands it over in a dataavailable event,  *)
(* dispatched later by the event loop, in order.                           *)
(***************************************************************************)
EXTENDS Naturals, Sequences, Functions

CONSTANTS
    MaxAudio,    \* bound: units of audio the microphone delivers
    MaxOutages,  \* bound: outages in one recording, hence gap recorders
    Hurry        \* may a drop or a stop come while finalizeGapCapture waits

GapAssumption ==
    /\ MaxAudio \in Nat /\ MaxOutages \in Nat
    /\ Hurry \in BOOLEAN

ASSUME GapAssumption

Null == 0
Recorders == 1..MaxOutages
Units == 1..MaxAudio
Phases == {"streaming", "outage", "stopping", "ended", "cancelled"}

VARIABLES
    phase,       \* a member of Phases
    made,        \* MediaRecorders created; the newest has this number
    gapRecorder, \* this.gapRecorder: a recorder or Null
    running,     \* recorders in state 'recording'
    held,        \* what each recorder collected since its last slice
    events,      \* dataavailable events not dispatched yet, oldest first
    gapChunks,   \* the slices kept, joined
    gapBlob,     \* retained outage audio
    finalizing,  \* recorders whose finalizeGapCapture awaits its 300 ms
    awaited,     \* the recorder stopRecording waits for, or Null
    uploaded,    \* the gap audio handed to the upload when the stop is done
    heard,       \* units of audio heard so far
    missed,      \* history: units heard during an outage
    kept         \* history: units of slices that entered gapChunks

vars == <<phase, made, gapRecorder, running, held, events, gapChunks, gapBlob,
          finalizing, awaited, uploaded, heard, missed, kept>>

Init ==
    /\ phase = "streaming"
    /\ made = 0
    /\ gapRecorder = Null
    /\ running = {}
    /\ held = [r \in Recorders |-> <<>>]
    /\ events = <<>>
    /\ gapChunks = <<>> /\ gapBlob = <<>>
    /\ finalizing = {}
    /\ awaited = Null
    /\ uploaded = <<>>
    /\ heard = 0
    /\ missed = {} /\ kept = {}

\* No capture of an earlier outage is still being finalized.
Settled == finalizing = {} /\ events = <<>>

\* A dataavailable event; without data it is ignored by its handler.
Queue(data) == IF data = <<>> THEN events ELSE Append(events, data)

-----------------------------------------------------------------------------
(* The browser.                                                            *)

\* The microphone delivers a unit of audio to every running recorder.
Hear ==
    /\ phase \in {"streaming", "outage"}
    /\ heard < MaxAudio
    /\ heard' = heard + 1
    /\ held' = [r \in Recorders |->
                  IF r \in running THEN Append(held[r], heard + 1) ELSE held[r]]
    /\ missed' = IF phase = "outage" THEN missed \cup {heard + 1} ELSE missed
    /\ UNCHANGED <<phase, made, gapRecorder, running, events, gapChunks,
                   gapBlob, finalizing, awaited, uploaded, kept>>

\* The 1000 ms timeslice of a running recorder ends.
Slice(r) ==
    /\ r \in running
    /\ held[r] # <<>>
    /\ events' = Queue(held[r])
    /\ held' = [held EXCEPT ![r] = <<>>]
    /\ UNCHANGED <<phase, made, gapRecorder, running, gapChunks, gapBlob,
                   finalizing, awaited, uploaded, heard, missed, kept>>

\* ondataavailable: the slice is kept while there is a gap recorder, whichever
\* recorder it comes from.
KeepSlice ==
    /\ events # <<>>
    /\ IF gapRecorder # Null
         THEN /\ gapChunks' = gapChunks \o Head(events)
              /\ kept' = kept \cup Range(Head(events))
         ELSE UNCHANGED <<gapChunks, kept>>
    /\ events' = Tail(events)
    /\ UNCHANGED <<phase, made, gapRecorder, running, held, gapBlob,
                   finalizing, awaited, uploaded, heard, missed>>

-----------------------------------------------------------------------------
(* The client.                                                             *)

\* handleConnectionLost: startGapRecorder, unless one is running.
LoseConnection ==
    /\ phase = "streaming"
    /\ Hurry \/ Settled
    /\ made < MaxOutages
    /\ phase' = "outage"
    /\ IF gapRecorder = Null
         THEN /\ made' = made + 1
              /\ gapRecorder' = made + 1
              /\ running' = running \cup {made + 1}
              /\ gapChunks' = <<>>
         ELSE UNCHANGED <<made, gapRecorder, running, gapChunks>>
    /\ UNCHANGED <<held, events, gapBlob, finalizing, awaited, uploaded,
                   heard, missed, kept>>

\* finalizeGapCapture up to its await: the recorder is detached, then asked
\* for the data it holds.
BeginFinalize ==
    IF gapRecorder = Null
      THEN UNCHANGED <<gapRecorder, held, events, finalizing>>
      ELSE /\ gapRecorder' = Null
           /\ events' = Queue(held[gapRecorder])
           /\ held' = [held EXCEPT ![gapRecorder] = <<>>]
           /\ finalizing' = finalizing \cup {gapRecorder}

\* adoptSocket after a reconnect.
Reconnect ==
    /\ phase = "outage"
    /\ phase' = "streaming"
    /\ BeginFinalize
    /\ UNCHANGED <<made, running, gapChunks, gapBlob, awaited, uploaded,
                   heard, missed, kept>>

\* Mutant: a later outage replaces what an earlier one left.
ReplaceBlob == IF gapChunks = <<>> THEN gapBlob ELSE gapChunks

\* Mutant: the parts are joined in the wrong order.
PrependToBlob == gapChunks \o gapBlob

JoinedBlob == gapBlob \o gapChunks

\* finalizeGapCapture after its await.  300 ms are enough for the event loop
\* to dispatch what was queued before.
FinishFinalize(r) ==
    /\ r \in finalizing
    /\ events = <<>>
    /\ finalizing' = finalizing \ {r}
    /\ running' = running \ {r}
    /\ events' = Queue(held[r])
    /\ held' = [held EXCEPT ![r] = <<>>]
    /\ gapBlob' = JoinedBlob
    /\ gapChunks' = <<>>
    /\ UNCHANGED <<phase, made, gapRecorder, awaited, uploaded, heard, missed, kept>>

\* stopRecording: it awaits finalizeGapCapture, which returns at once when the
\* recorder was detached before.
StopRecording ==
    /\ phase \in {"streaming", "outage"}
    /\ Hurry \/ Settled
    /\ phase' = "stopping"
    /\ awaited' = gapRecorder
    /\ BeginFinalize
    /\ UNCHANGED <<made, running, gapChunks, gapBlob, uploaded, heard, missed, kept>>

\* discardGap.
DiscardGap ==
    /\ running' = running \ {gapRecorder}
    /\ gapRecorder' = Null
    /\ gapChunks' = <<>>
    /\ gapBlob' = <<>>

\* The stop is answered (or was undeliverable): the blob is captured for the
\* upload, then resetAll discards the gap state.
StopDone ==
    /\ phase = "stopping"
    /\ awaited \notin finalizing
    /\ phase' = "ended"
    /\ uploaded' = gapBlob
    /\ DiscardGap
    /\ UNCHANGED <<made, held, events, finalizing, awaited, heard, missed, kept>>

\* Mutant: a cancelled recording keeps its retained audio.
CancelKeepingBlob ==
    /\ phase \in {"streaming", "outage"}
    /\ phase' = "cancelled"
    /\ running' = running \ {gapRecorder}
    /\ UNCHANGED <<gapRecorder, gapChunks, gapBlob, made, held, events,
                   finalizing, awaited, uploaded, heard, missed, kept>>

\* cancelRecording.
CancelRecording ==
    /\ phase \in {"streaming", "outage"}
    /\ phase' = "cancelled"
    /\ DiscardGap
    /\ UNCHANGED <<made, held, events, finalizing, awaited, uploaded,
                   heard, missed, kept>>

Next ==
    \/ Hear \/ KeepSlice
    \/ \E r \in Recorders : Slice(r) \/ FinishFinalize(r)
    \/ LoseConnection \/ Reconnect
    \/ StopRecording \/ StopDone \/ CancelRecording

Spec == Init /\ [][Next]_vars

-----------------------------------------------------------------------------
TypeOK ==
    /\ phase \in Phases
    /\ made \in 0..MaxOutages
    /\ gapRecorder \in running \cup {Null}
    /\ running \subseteq Recorders /\ finalizing \subseteq running
    /\ held \in [Recorders -> Seq(Units)]
    /\ events \in Seq(Seq(Units))
    /\ gapChunks \in Seq(Units) /\ gapBlob \in Seq(Units) /\ uploaded \in Seq(Units)
    /\ awaited \in Recorders \cup {Null}
    /\ heard \in 0..MaxAudio
    /\ missed \subseteq Units /\ kept \subseteq Units

Increasing(s) == \A i, j \in DOMAIN s : i < j => s[i] < s[j]

\* The retained audio plays in the order it was heard, with nothing twice.
RetainedInOrder == Increasing(gapBlob \o gapChunks) /\ Increasing(uploaded)

\* What is retained was heard during an outage: the second task never repeats
\* audio that was also streamed into the main recording.
RetainsOnlyOutages ==
    Range(gapBlob) \cup Range(gapChunks) \cup Range(uploaded) \subseteq missed

\* "appended to gapBlob so repeated outages in one session accumulate into one
\* blob" (wsRecorderClient.ts:252-253): a slice that was kept stays until a stop
\* has handed it to the upload; only a cancel may drop it.
KeptSlicesSurvive ==
    phase # "cancelled" =>
      kept \subseteq Range(gapBlob) \cup Range(gapChunks) \cup Range(uploaded)

\* "Stop the gap recorder and RETAIN its audio": once the recorder of an
\* outage is finalized, all the audio of the outage is in the blob.  It does not
\* hold, the last slice is dropped.
OutageIsRetained ==
    phase = "streaming" /\ Settled =>
        missed \subseteq Range(gapBlob)

\* A recording that is over leaves no retained audio for the next one.
NothingIsLeft ==
    phase \in {"ended", "cancelled"} /\ finalizing = {} => gapBlob = <<>> /\ gapRecorder = Null

\* What is retained is audio of this recording's outages and nothing else.
RetainsOnlyTheOutages == TypeOK /\ RetainsOnlyOutages /\ NothingIsLeft
=============================================================================

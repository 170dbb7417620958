---------------------------- MODULE RecordSession ----------------------------
(***************************************************************************)
(* The server side of one live recording: RecorderManager (recorder.py),   *)
(* RecordingSessionService (record_session.py) and the websocket endpoint  *)
(* (record.py) for ONE recording id.  Recordings of different ids share no *)
(* state, so one id is the general case.                                   *)
(*                                                                         *)
(* The code runs on one asyncio event loop: a stretch of a handler between *)
(* two points that really suspend is one action here.  The coroutines of   *)
(* RecorderManager contain no await, hence never suspend.                  *)
(*                                                                         *)
(* The client is unconstrained: any connection may send any frame at any   *)
(* time.  RecordProtocol restricts it to what the web client does.         *)
(***************************************************************************)
EXTENDS Naturals, Sequences, Functions

CONSTANTS
    Conns,        \* websocket connections; each gets a fresh conn_id (a uuid)
    MaxChunks,    \* bound: audio chunks the server receives in a behaviour
    Faults,       \* which of "io", "crash", "delete" the environment may do
    StreamingASR, \* settings.streaming_asr_enabled
    NoRec,        \* no entry in _active_recordings
    Nobody        \* owner None

Chunks == 1..MaxChunks

\* An entry of _active_recordings; pending and written are the chunks held in
\* memory and those in the wav.  An owner is a conn_id or None.
Recordings ==
    [state : {"active", "suspended"}, owner : Conns \cup {Nobody},
     rateSet : BOOLEAN, wav : BOOLEAN,
     pending : Seq(Chunks), written : Seq(Chunks)]

RecordSessionAssumption ==
    /\ MaxChunks \in Nat
    /\ Faults \subseteq {"io", "crash", "delete"}
    /\ StreamingASR \in BOOLEAN
    /\ Nobody \notin Conns
    /\ NoRec \notin Recordings

ASSUME RecordSessionAssumption

VARIABLES
    rec,        \* _active_recordings.get(task_id)
    timer,      \* a pending grace finalizer is registered for task_id
    pc,         \* where the handler of each connection is
    reply,      \* the last status frame each connection was sent
    tasks,      \* the audio of every pipeline task created, in order
    sent,       \* chunks received so far; chunk n is the n-th one received
    discarded,  \* chunks deleted by a discard frame or by DELETE
    dropped,    \* chunks add_chunk ignored because there was no session
    failed      \* chunks lost to an I/O error or to a crash of the server

sessionVars == <<rec, timer>>
connVars == <<pc, reply>>
fates == <<discarded, dropped, failed>>
vars == <<rec, timer, pc, reply, tasks, sent, discarded, dropped, failed>>

Replies == {"none", "resumed", "busy", "discarded", "done", "error"}

\* "accepting": the handshake is under way; "loop": receiving frames;
\* "finalizing": a stop frame was handled and finalize_streaming is awaited.
Places == {"accepting", "loop", "finalizing", "closed"}

FreshRecording ==
    [state |-> "active", owner |-> Nobody, rateSet |-> FALSE, wav |-> FALSE,
     pending |-> <<>>, written |-> <<>>]

-----------------------------------------------------------------------------
(* RecorderManager: what each method makes of the entry it is given.       *)

\* Mutant: the guard compares nothing and the newcomer takes over.
AttachAnyway(r, c) == TRUE

\* attach_owner's guard: free, or already ours.
MayAttach(r, c) == r.owner \in {Nobody, c}

Attached(r, c) == [r EXCEPT !.owner = c, !.state = "active"]

\* Mutant: a released session keeps a marker instead of None.
DetachedMarked(r, c) == IF r.owner = c THEN [r EXCEPT !.owner = "free"] ELSE r

Detached(r, c) == IF r.owner = c THEN [r EXCEPT !.owner = Nobody] ELSE r

Suspended(r) == [r EXCEPT !.state = "suspended", !.owner = Nobody]

Resumed(r, c) == [r EXCEPT !.state = "active", !.owner = c]

\* Mutant: the wav is opened without flushing what was received before it.
WavOpenedUnflushed(r) == [r EXCEPT !.rateSet = TRUE, !.wav = TRUE]

\* set_sample_rate, first positive rate: the wav is opened and takes what was
\* received before it.
WavOpened(r) ==
    [r EXCEPT !.rateSet = TRUE, !.wav = TRUE,
              !.written = @ \o r.pending, !.pending = <<>>]

ChunkAdded(r, n) ==
    IF r.wav THEN [r EXCEPT !.written = Append(@, n)]
             ELSE [r EXCEPT !.pending = Append(@, n)]

\* Mutant: a recording that never got a sample rate counts as empty.
OnlyWritten(r) == IF r.wav THEN r.written ELSE <<>>

\* The file stop_recording leaves: the open wav, or one written from pending.
FinalAudio(r) == IF r.wav THEN r.written ELSE r.pending

\* Everything received for the recording, in the order of the file.
Audio(r) == r.written \o r.pending

Live == rec # NoRec
AudioOf(r) == IF r = NoRec THEN {} ELSE Range(Audio(r))

-----------------------------------------------------------------------------
(* Steps shared by several handlers.                                       *)

TypeOK ==
    /\ rec \in Recordings \cup {NoRec}
    /\ timer \in BOOLEAN
    /\ pc \in [Conns -> Places]
    /\ reply \in [Conns -> Replies]
    /\ tasks \in Seq(Seq(Chunks))
    /\ sent \in 0..MaxChunks
    /\ discarded \subseteq Chunks
    /\ dropped \subseteq Chunks
    /\ failed \subseteq Chunks

Init ==
    /\ rec = NoRec
    /\ timer = FALSE
    /\ pc = [c \in Conns |-> "accepting"]
    /\ reply = [c \in Conns |-> "none"]
    /\ tasks = <<>>
    /\ sent = 0
    /\ discarded = {} /\ dropped = {} /\ failed = {}

Goto(c, place) == pc' = [pc EXCEPT ![c] = place]
Send(c, frame) == reply' = [reply EXCEPT ![c] = frame]

\* Mutant: the session is suspended but no grace timer is armed.
LeaveUnarmed(r, c) ==
    LET d == IF r = NoRec THEN r ELSE Detached(r, c) IN
    /\ Goto(c, "closed")
    /\ rec' = IF d # NoRec /\ d.state = "active" THEN Suspended(d) ELSE d
    /\ timer' = timer

\* The handler of c leaves its loop without an intent, r being the session at
\* that moment: release it, suspend it if it is active, arm the grace timer.
Leave(r, c) ==
    LET d == IF r = NoRec THEN r ELSE Detached(r, c)
        suspends == d # NoRec /\ d.state = "active"
    IN  /\ Goto(c, "closed")
        /\ rec' = IF suspends THEN Suspended(d) ELSE d
        /\ timer' = (timer \/ suspends)

\* finalize_audio_to_task creates a task (and stop_recording a file).
CreatesTask == Live /\ FinalAudio(rec) # <<>>

\* finalize_audio_to_task, all steps succeeding.  The session is popped first.
FinalizeAudio ==
    /\ rec' = NoRec
    /\ tasks' = IF CreatesTask THEN Append(tasks, FinalAudio(rec)) ELSE tasks
    /\ UNCHANGED fates

\* ... or closing, moving or registering the file fails: the session is gone
\* from the registry, and the exception reaches the caller.
FinalizeFails ==
    /\ "io" \in Faults
    /\ Live
    /\ rec' = NoRec
    /\ failed' = failed \cup AudioOf(rec)
    /\ UNCHANGED <<tasks, discarded, dropped>>

\* discard_recording: the file and the session are deleted.
DiscardRecording ==
    /\ rec' = NoRec
    /\ discarded' = discarded \cup AudioOf(rec)
    /\ UNCHANGED <<tasks, sent, dropped, failed>>

-----------------------------------------------------------------------------
(* The websocket endpoint.                                                 *)

\* _begin_session after accept: a suspended session is resumed and its timer
\* cancelled; with no session one is started.
ResumeSession(c) ==
    /\ Live /\ rec.state = "suspended"
    /\ timer' = FALSE
    /\ rec' = Resumed(rec, c)
    /\ Goto(c, "loop")
    /\ Send(c, "resumed")

\* Mutant: a stale timer survives the start of a new session.
StartKeepingTimer(c) ==
    /\ ~Live
    /\ timer' = timer
    /\ rec' = Attached(FreshRecording, c)
    /\ Goto(c, "loop")
    /\ UNCHANGED reply

StartSession(c) ==
    /\ ~Live
    /\ timer' = FALSE
    /\ rec' = Attached(FreshRecording, c)
    /\ Goto(c, "loop")
    /\ UNCHANGED reply

\* An active session nobody owns is taken over, without a resumed frame.
AdoptSession(c) ==
    /\ Live /\ rec.state = "active"
    /\ MayAttach(rec, c)
    /\ rec' = Attached(rec, c)
    /\ Goto(c, "loop")
    /\ UNCHANGED <<timer, reply>>

RejectBusy(c) ==
    /\ Live /\ rec.state = "active"
    /\ ~MayAttach(rec, c)
    /\ Goto(c, "closed")
    /\ Send(c, "busy")
    /\ UNCHANGED sessionVars

BeginSession(c) ==
    /\ pc[c] = "accepting"
    /\ \/ ResumeSession(c) \/ StartSession(c)
       \/ AdoptSession(c)  \/ RejectBusy(c)
    /\ UNCHANGED <<tasks, sent, fates>>

\* A binary frame.  add_chunk asks neither for the owner nor for the state.
HandleAudioChunk(c) ==
    /\ pc[c] = "loop"
    /\ sent < MaxChunks
    /\ sent' = sent + 1
    /\ IF Live
         THEN rec' = ChunkAdded(rec, sent + 1) /\ UNCHANGED dropped
         ELSE dropped' = dropped \cup {sent + 1} /\ UNCHANGED rec
    /\ UNCHANGED <<timer, connVars, tasks, discarded, failed>>

\* writeframes raises: the catch-all ends the loop as a disconnect would.
AudioChunkFails(c) ==
    /\ "io" \in Faults
    /\ pc[c] = "loop"
    /\ sent < MaxChunks
    /\ sent' = sent + 1
    /\ Live /\ rec.wav
    /\ failed' = failed \cup {sent + 1}
    /\ Leave(rec, c)
    /\ UNCHANGED <<reply, tasks, discarded, dropped>>

\* Mutant: every config frame opens the wav, and opening truncates the file.
ConfigReopens(c) ==
    /\ pc[c] = "loop"
    /\ Live
    /\ rec' = WavOpened([rec EXCEPT !.written = <<>>])
    /\ UNCHANGED <<timer, connVars, tasks, sent, fates>>

\* A config frame with a positive rate; only the first one of a session counts.
HandleConfig(c) ==
    /\ pc[c] = "loop"
    /\ Live /\ ~rec.rateSet
    /\ rec' = WavOpened(rec)
    /\ UNCHANGED <<timer, connVars, tasks, sent, fates>>

\* Opening or flushing the wav raises after sample_rate_set was assigned.
ConfigFails(c) ==
    /\ "io" \in Faults
    /\ pc[c] = "loop"
    /\ Live /\ ~rec.rateSet
    /\ Leave([rec EXCEPT !.rateSet = TRUE], c)
    /\ UNCHANGED <<reply, tasks, sent, fates>>

\* Disconnect, liveness timeout, or a frame the handler raises on.
Disconnect(c) ==
    /\ pc[c] = "loop"
    /\ Leave(rec, c)
    /\ UNCHANGED <<reply, tasks, sent, fates>>

Discard(c) ==
    /\ pc[c] = "loop"
    /\ Goto(c, "closed")
    /\ Send(c, "discarded")
    /\ timer' = FALSE
    /\ DiscardRecording

\* A stop frame while a streaming ASR session exists: the connection lets go
\* of the recording and waits for finalize_streaming before finalizing it.
StopStreaming(c) ==
    /\ StreamingASR
    /\ pc[c] = "loop"
    /\ Goto(c, "finalizing")
    /\ rec' = IF Live THEN Detached(rec, c) ELSE rec
    /\ timer' = FALSE
    /\ UNCHANGED <<reply, tasks, sent, fates>>

\* Mutant: an empty recording is finalized without an error frame.
FinalizeQuietly(c) ==
    /\ Goto(c, "closed")
    /\ \/ FinalizeAudio /\ IF CreatesTask THEN Send(c, "done") ELSE UNCHANGED reply
       \/ FinalizeFails /\ UNCHANGED reply
    /\ UNCHANGED sent

\* The end of the stop path, whatever session there is by then.
Finalize(c) ==
    /\ Goto(c, "closed")
    /\ \/ FinalizeAudio /\ Send(c, IF CreatesTask THEN "done" ELSE "error")
       \/ FinalizeFails /\ UNCHANGED reply
    /\ UNCHANGED sent

\* A stop frame without a streaming session: no await on the way.
Stop(c) ==
    /\ pc[c] = "loop"
    /\ timer' = FALSE
    /\ Finalize(c)

FinishStop(c) ==
    /\ pc[c] = "finalizing"
    /\ Finalize(c)
    /\ UNCHANGED timer

-----------------------------------------------------------------------------
(* The timer, the REST endpoint, and the process.                          *)

\* finalize_after_grace once its sleep ends; a timer cancelled before its task
\* runs again never gets here.
GraceExpire ==
    /\ timer
    /\ timer' = FALSE
    /\ IF Live /\ rec.state = "suspended"
         THEN FinalizeAudio \/ FinalizeFails
         ELSE UNCHANGED <<rec, tasks, fates>>
    /\ UNCHANGED <<connVars, sent>>

\* DELETE /api/record/{id}; without a session it still cancels the timer.
Delete ==
    /\ "delete" \in Faults
    /\ timer' = FALSE
    /\ DiscardRecording
    /\ UNCHANGED connVars

\* The process dies.  Sessions live in memory: the next process knows none,
\* and the wav stays behind in the temporary directory.
Crash ==
    /\ "crash" \in Faults
    /\ rec' = NoRec
    /\ timer' = FALSE
    /\ pc' = [c \in Conns |->
                IF pc[c] \in {"loop", "finalizing"} THEN "closed" ELSE pc[c]]
    /\ failed' = failed \cup AudioOf(rec)
    /\ UNCHANGED <<reply, tasks, sent, discarded, dropped>>

ConnStep(c) ==
    \/ BeginSession(c) \/ HandleAudioChunk(c) \/ AudioChunkFails(c)
    \/ HandleConfig(c) \/ ConfigFails(c)      \/ Disconnect(c)
    \/ Discard(c)      \/ StopStreaming(c)    \/ Stop(c)
    \/ FinishStop(c)

Next ==
    \/ \E c \in Conns : ConnStep(c)
    \/ GraceExpire
    \/ Delete
    \/ Crash

Spec == Init /\ [][Next]_vars

(***************************************************************************)
(* The event loop runs every timer and every coroutine whose await ended.  *)
(* A connection that stays in its loop is a client that stopped sending    *)
(* (chunks are finite here): the liveness timeout then ends it.            *)
(***************************************************************************)
Fairness ==
    /\ WF_vars(GraceExpire)
    /\ \A c \in Conns : WF_vars(FinishStop(c)) /\ WF_vars(Disconnect(c))

FairSpec == Spec /\ Fairness

-----------------------------------------------------------------------------
(* Properties.                                                             *)

InTasks == UNION {Range(tasks[i]) : i \in DOMAIN tasks}

\* No received audio vanishes or is counted twice: every chunk is in the live
\* recording, in exactly one task, explicitly discarded, ignored for want of a
\* session, or lost to a fault (recorder.py: stop_recording, set_sample_rate).
EveryChunkHasOneFate ==
    /\ 1..sent = UNION {AudioOf(rec), InTasks, discarded, dropped, failed}
    /\ AudioOf(rec) \cap (InTasks \cup discarded \cup dropped \cup failed) = {}
    /\ InTasks \cap (discarded \cup dropped \cup failed) = {}
    /\ \A i, j \in DOMAIN tasks :
          i # j => Range(tasks[i]) \cap Range(tasks[j]) = {}

\* A live session is never at the mercy of an old grace timer, so audio that a
\* client is streaming is not cut off by a timer of an earlier suspension.
TimerNeverOnActive == timer /\ Live => rec.state = "suspended"

Stopping == \E c \in Conns : pc[c] = "finalizing"

\* No session is left in the registry that nothing would ever finalize: an
\* active one has an owner in its loop, a suspended one an armed grace timer,
\* or a stop is about to finalize it.
NoAbandonedSession ==
    Live => /\ rec.state = "active" =>
                  (rec.owner \in Conns /\ pc[rec.owner] = "loop") \/ Stopping
            /\ rec.state = "suspended" =>
                  rec.owner = Nobody /\ (timer \/ Stopping)

\* The audio is in memory until the wav is opened and in the wav from then on:
\* stop_recording looks only in one of the two.
AudioInOnePlace ==
    Live => IF rec.wav THEN rec.pending = <<>> ELSE rec.written = <<>>

\* "active - a websocket owns the session and streams audio into a wav file":
\* every connection in its loop owns the live session.
LoopOwnsSession ==
    \A c \in Conns : pc[c] = "loop" =>
        Live /\ rec.state = "active" /\ rec.owner = c

\* Reconnecting continues the file: the audio of a session is only appended to.
WavOnlyGrows ==
    [][Live /\ rec' # NoRec =>
          /\ Len(Audio(rec')) >= Len(Audio(rec))
          /\ SubSeq(Audio(rec'), 1, Len(Audio(rec))) = Audio(rec)]_vars

\* A recording ends once its clients are gone: it is not kept for ever.
EveryRecordingEnds == Live ~> ~Live

\* A stop that waits for the streaming session is answered in the end.
StopIsAnswered ==
    \A c \in Conns : pc[c] = "finalizing" ~> reply[c] \in {"done", "error"}

\* The session does what the lifecycle diagram says.  Where connections can
\* outlive their session (a streaming finalize, DELETE) a suspended wav grows.
Lifecycle ==
    INSTANCE RecordingLifecycle WITH
        Chunk <- Chunks,
        AppendIn <- IF StreamingASR \/ "delete" \in Faults
                    THEN {"active", "suspended"} ELSE {"active"},
        life <- IF Live THEN rec.state ELSE "none",
        wav <- IF Live THEN Audio(rec) ELSE <<>>,
        recordings <- tasks

ImplementsLifecycle == Lifecycle!Spec
=============================================================================

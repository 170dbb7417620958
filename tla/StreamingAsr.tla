---------------------------- MODULE StreamingAsr ----------------------------
(***************************************************************************)
(* Live text while recording: the streaming half of one websocket          *)
(* connection (WsRecordingSession in routers/record.py) and the model it   *)
(* shares with every other one (services/asr_streaming.py).                *)
(*                                                                         *)
(* A config frame starts a loader task, which loads the model in a thread, *)
(* creates a session in a thread, and then feeds it the chunks that came   *)
(* meanwhile.  The handler goes on receiving, the user may change the      *)
(* settings, and the connection may end: each of these can come between    *)
(* any two steps of the loader.                                            *)
(***************************************************************************)
EXTENDS Integers, Sequences, SequencesExt

CONSTANTS
    MaxChunks,   \* bound of the model: chunks received
    ChunkLen,    \* samples of a chunk
    Ratio,       \* input samples per sample at the model's rate
    Stride,      \* CHUNK_STRIDE_16K: what the model is given at a time
    Overlap,     \* RESAMPLE_OVERLAP: input samples resampled a second time
    BufferMax,   \* chunks that fit into AUDIO_BUFFER_MAX_SECONDS
    MaxPosts,    \* bound of the model: changes of the settings
    SlowSend,    \* whether a send may have to wait for the client to read
    NoSession    \* absence of a streaming session

ASSUME StreamingAsrAssumption ==
    /\ {MaxChunks, ChunkLen, Ratio, Stride, Overlap, BufferMax} \subseteq Nat \ {0}
    /\ MaxPosts \in Nat
    /\ SlowSend \in BOOLEAN

VARIABLES
    enabled,     \* settings.streaming_asr_enabled
    instance,    \* StreamingASR._instance: its number, 0 for None
    loaded,      \* instances whose model is there
    threads,     \* instances a thread is loading for nobody who waits
    loader,      \* the loader task: place, its instance, chunks left to replay
    loading,     \* model_loading is not None
    session,     \* streaming_session
    final,       \* final_streaming_session
    ready,       \* streaming_ready
    cancelled,   \* the flag of that name
    buffer,      \* audio_buffer, as chunk numbers
    place,       \* of the handler: "loop", "finalizing", "closed"
    gone,        \* the client's end of the socket is closed
    sent,        \* chunks received so far
    posts,       \* changes of the settings so far
    overtaken    \* history: a chunk was fed in the middle of a replay

modelVars == <<instance, loaded, threads>>
feedVars  == <<session, ready, buffer>>
vars == <<enabled, modelVars, loader, loading, feedVars, final, cancelled,
          place, gone, sent, posts, overtaken>>

Instances == 1..(MaxPosts + 1)
Samples   == 1..(MaxChunks * ChunkLen)
Running   == {"start", "loading", "loaded", "creating", "returning", "created", "replay"}
Idle      == [at |-> "ended", inst |-> 0, todo |-> <<>>]

-----------------------------------------------------------------------------
(* StreamingASRSession: positions in the recording, never samples.         *)

Sessions ==
    [raw : Seq(Samples), processed : Nat, resampled : Seq(Samples),
     heard : Seq(Samples), model : BOOLEAN]

\* None is not a session.
ASSUME NoSessionAssumption == NoSession \notin Sessions

NewSession(hasModel) ==
    [raw |-> <<>>, processed |-> 0, resampled |-> <<>>, heard |-> <<>>,
     model |-> hasModel]

SamplesOf(c) == [i \in 1..ChunkLen |-> (c - 1) * ChunkLen + i]

From(s, n) == SubSeq(s, n + 1, Len(s))

\* librosa.resample at an integer ratio: one position for every Ratio of the input.
Resampled(s) ==
    [i \in 1..((Len(s) + Ratio - 1) \div Ratio) |-> s[(i - 1) * Ratio + 1]]

\* Mutant: what was resampled a second time stays in.
SeamKept(s, out) == 0

\* How much of a newly resampled segment repeats the one before.
SeamCut(s, out) ==
    LET cut == Overlap \div Ratio
    IN IF s.processed >= Overlap /\ 0 < cut /\ cut < Len(out) THEN cut ELSE 0

\* _process_buffer: the model is given whole strides.  A session created
\* between a load and an unload has no model, and every call of it raises.
Processed(s, out) ==
    LET n == (Len(out) \div Stride) * Stride
    IN [s EXCEPT !.resampled = From(out, n),
                 !.heard = IF s.model THEN @ \o SubSeq(out, 1, n) ELSE @]

\* add_pcm_chunk.
AddChunk(s, c) ==
    LET raw  == s.raw \o SamplesOf(c)
        seg  == From(raw, IF s.processed > Overlap THEN s.processed - Overlap ELSE 0)
        out  == Resampled(seg)
        trim == IF Len(raw) > Overlap THEN Len(raw) - Overlap ELSE 0
    IN IF (Len(raw) - s.processed) \div Ratio < Stride
         THEN [s EXCEPT !.raw = raw]
         ELSE Processed([s EXCEPT !.raw = From(raw, trim),
                                  !.processed = Len(raw) - trim],
                        s.resampled \o From(out, SeamCut(s, out)))

\* Mutant: what is left at the end of a recording is not flushed.
FinalUnflushed(s) == [s EXCEPT !.resampled = <<>>]

\* finalize: what was resampled and is short of a stride.
Finalized(s) ==
    [s EXCEPT !.resampled = <<>>,
              !.heard = IF s.model THEN @ \o s.resampled ELSE @]

-----------------------------------------------------------------------------
Init ==
    /\ enabled \in BOOLEAN
    /\ instance = 0 /\ loaded = {} /\ threads = {}
    /\ loader = Idle /\ loading = FALSE
    /\ session = NoSession /\ final = NoSession
    /\ ready = FALSE /\ cancelled = FALSE /\ buffer = <<>>
    /\ place = "loop" /\ gone = FALSE
    /\ sent = 0 /\ posts = 0 /\ overtaken = FALSE

(***************************************************************************)
(* The model: StreamingASR.                                                *)
(***************************************************************************)

NewInstance == posts + 1

\* unload: of the instance that is in place, if any.
Unloaded == loaded \ {instance}

\* POST /settings with streaming_asr_enabled = false.
Disable ==
    /\ posts < MaxPosts
    /\ posts' = posts + 1
    /\ enabled' = FALSE
    /\ instance' = 0 /\ loaded' = Unloaded
    /\ UNCHANGED <<threads, loader, loading, feedVars, final, cancelled, place,
                   gone, sent, overtaken>>

\* POST /settings with streaming_asr_enabled = true or another model name: an
\* instance with another name replaces the old one, and a thread loads it.
Enable(renamed) ==
    /\ posts < MaxPosts
    /\ posts' = posts + 1
    /\ enabled' = TRUE
    /\ IF instance # 0 /\ ~renamed
         THEN UNCHANGED <<instance, loaded>> /\ threads' = threads \cup {instance}
         ELSE /\ instance' = NewInstance' /\ loaded' = Unloaded
              /\ threads' = threads \cup {NewInstance'}
    /\ UNCHANGED <<loader, loading, feedVars, final, cancelled, place, gone,
                   sent, overtaken>>

\* load in a thread of its own, under the load lock; or the load fails.
ThreadLoads(i) ==
    /\ i \in threads
    /\ threads' = threads \ {i}
    /\ loaded' \in {loaded \cup {i}, loaded}
    /\ UNCHANGED <<enabled, instance, loader, loading, feedVars, final,
                   cancelled, place, gone, sent, posts, overtaken>>

(***************************************************************************)
(* The loader task: _load_and_create_session.                              *)
(***************************************************************************)

\* get_instance, then to_thread(load).
LoaderStarts ==
    /\ loader.at = "start"
    /\ instance' = IF instance = 0 THEN NewInstance ELSE instance
    /\ loader' = [loader EXCEPT !.at = "loading", !.inst = instance']
    /\ UNCHANGED <<enabled, loaded, threads, loading, feedVars, final,
                   cancelled, place, gone, sent, posts, overtaken>>

\* load has the model: once for itself, once more inside create_session.
ModelLoads ==
    /\ loader.at \in {"loading", "creating"}
    /\ loaded' = loaded \cup {loader.inst}
    /\ loader' = [loader EXCEPT !.at = IF @ = "loading" THEN "loaded" ELSE "returning"]
    /\ UNCHANGED <<enabled, instance, threads, loading, feedVars, final,
                   cancelled, place, gone, sent, posts, overtaken>>

\* After the await: a cancelled connection wants no session.
LoaderResumes ==
    /\ loader.at = "loaded"
    /\ loader' = IF cancelled THEN Idle ELSE [loader EXCEPT !.at = "creating"]
    /\ UNCHANGED <<enabled, modelVars, loading, feedVars, final, cancelled,
                   place, gone, sent, posts, overtaken>>

\* load returns self.model after it has let go of the lock.
CreateReturns ==
    /\ loader.at = "returning"
    /\ \E hasModel \in {loader.inst \in loaded} :
          loader' = [loader EXCEPT !.at = "created", !.todo = <<hasModel>>]
    /\ UNCHANGED <<enabled, modelVars, loading, feedVars, final, cancelled,
                   place, gone, sent, posts, overtaken>>

\* The session after each of the chunks fed to it, one by one.
Fed(s, chunks) ==
    LET fed[n \in 0..Len(chunks)] ==
          IF n = 0 THEN s ELSE AddChunk(fed[n - 1], chunks[n])
    IN fed

\* The replay loop runs on through n chunks.  Then all are fed, or a partial
\* text has to wait for the client, or it cannot be sent and the rest is left.
Replay(s, chunks, n) ==
    /\ session' = Fed(s, chunks)[n]
    /\ \/ n = Len(chunks) /\ loader' = Idle
       \/ /\ n \in 1..(Len(chunks) - 1)
          /\ \/ SlowSend /\ loader' = [loader EXCEPT !.at = "replay", !.todo = From(chunks, n)]
             \/ gone /\ loader' = Idle

\* The session is put in place, and the buffered chunks are fed to it.
InstallSession ==
    /\ loader.at = "created"
    /\ ready' = TRUE /\ buffer' = <<>>
    /\ \E n \in 0..Len(buffer) : Replay(NewSession(Head(loader.todo)), buffer, n)
    /\ UNCHANGED <<enabled, modelVars, loading, final, cancelled, place, gone,
                   sent, posts, overtaken>>

\* A send that had to wait is through; or it failed, and the rest is left.
ReplayResumes ==
    /\ loader.at = "replay"
    /\ \/ \E n \in 1..Len(loader.todo) : Replay(session, loader.todo, n)
       \/ gone /\ loader' = Idle /\ UNCHANGED session
    /\ UNCHANGED <<enabled, modelVars, loading, ready, buffer, final, cancelled,
                   place, gone, sent, posts, overtaken>>

\* Mutant: the chunks of a load that failed stay in the buffer.
FailureKeepsBuffer == buffer

\* What a failed load leaves of the buffer.
BufferAfterFailure == <<>>

\* load-failed: a model that cannot be loaded, a session that cannot be
\* created, a chunk that is not PCM.  A later config frame may try again.
LoadFails ==
    /\ loader.at \in {"loading", "creating", "created", "replay"}
    /\ loader' = Idle /\ loading' = FALSE
    /\ ready' = FALSE /\ session' = NoSession
    /\ buffer' = BufferAfterFailure
    /\ UNCHANGED <<enabled, modelVars, final, cancelled, place, gone, sent,
                   posts, overtaken>>

LoaderStep ==
    LoaderStarts \/ ModelLoads \/ LoaderResumes \/ CreateReturns
    \/ InstallSession \/ ReplayResumes

(***************************************************************************)
(* The handler.                                                            *)
(***************************************************************************)

\* Mutant: the flag alone has to stop the loader.
CancelByFlag == loader

\* task.cancel(): the loader ends at the await it is in.
CancelLoader == Idle

\* cancel_streaming.  A thread that is loading goes on by itself.
CancelStreaming ==
    /\ cancelled' = TRUE
    /\ loader' = CancelLoader
    /\ threads' = IF loader.at \in {"loading", "creating"}
                    THEN threads \cup {loader.inst} ELSE threads
    /\ loading' = FALSE
    /\ final' = IF session # NoSession THEN session ELSE final
    /\ session' = NoSession /\ ready' = FALSE /\ buffer' = <<>>

\* A config frame with a positive rate.
Config ==
    /\ place = "loop" /\ enabled /\ ~loading
    /\ loading' = TRUE
    /\ loader' = [Idle EXCEPT !.at = "start"]
    /\ UNCHANGED <<enabled, modelVars, feedVars, final, cancelled, place, gone,
                   sent, posts, overtaken>>

\* The oldest chunks make room for the new one.
Capped(s) == From(s, IF Len(s) > BufferMax THEN Len(s) - BufferMax ELSE 0)

HandleChunk ==
    /\ place = "loop" /\ sent < MaxChunks
    /\ sent' = sent + 1
    /\ CASE ~enabled ->
              /\ IF loading \/ session # NoSession
                   THEN CancelStreaming
                   ELSE UNCHANGED <<cancelled, loader, threads, loading, final, feedVars>>
              /\ UNCHANGED overtaken
         [] enabled /\ ready ->
              /\ session' = AddChunk(session, sent')
              /\ overtaken' = (overtaken \/ loader.at = "replay")
              /\ UNCHANGED <<cancelled, loader, threads, loading, final, ready, buffer>>
         [] enabled /\ ~ready ->
              /\ buffer' = IF loading THEN Capped(Append(buffer, sent')) ELSE buffer
              /\ UNCHANGED <<cancelled, loader, threads, loading, final, session,
                             ready, overtaken>>
    /\ UNCHANGED <<enabled, instance, loaded, place, gone, posts>>

\* The client's end closes; frames it sent before may still be in the socket.
ClientGone ==
    /\ ~gone /\ place = "loop"
    /\ gone' = TRUE
    /\ UNCHANGED <<enabled, modelVars, loader, loading, feedVars, final,
                   cancelled, place, sent, posts, overtaken>>

\* The loop ends without a stop: disconnect, discard, or liveness timeout.
Leave ==
    /\ place = "loop"
    /\ CancelStreaming
    /\ place' = "closed"
    /\ UNCHANGED <<enabled, instance, loaded, gone, sent, posts, overtaken>>

\* A stop frame: the session captured on the way out is finalized in a thread.
Stop ==
    /\ place = "loop"
    /\ CancelStreaming
    /\ place' = IF final' = NoSession THEN "closed" ELSE "finalizing"
    /\ UNCHANGED <<enabled, instance, loaded, gone, sent, posts, overtaken>>

FinalizeStreaming ==
    /\ place = "finalizing"
    /\ final' = Finalized(final)
    /\ place' = "closed"
    /\ UNCHANGED <<enabled, modelVars, loader, loading, feedVars, cancelled,
                   gone, sent, posts, overtaken>>

Next ==
    \/ Disable
    \/ \E renamed \in BOOLEAN : Enable(renamed)
    \/ \E i \in Instances : ThreadLoads(i)
    \/ LoaderStep
    \/ LoadFails
    \/ Config \/ HandleChunk \/ ClientGone
    \/ Leave \/ Stop \/ FinalizeStreaming

Spec == Init /\ [][Next]_vars

\* Loading a model ends, one way or the other, and so does a send.
FairSpec == Spec /\ WF_vars(LoaderStep) /\ WF_vars(FinalizeStreaming)

-----------------------------------------------------------------------------
(* Properties.                                                             *)

TypeOK ==
    /\ enabled \in BOOLEAN /\ instance \in Instances \cup {0}
    /\ loaded \subseteq Instances /\ threads \subseteq Instances
    /\ loader.at \in Running \cup {"ended"} /\ loader.inst \in Instances \cup {0}
    /\ {session, final} \subseteq Sessions \cup {NoSession}
    /\ {loading, ready, cancelled, gone, overtaken} \subseteq BOOLEAN
    /\ buffer \in Seq(1..MaxChunks) /\ Len(buffer) <= BufferMax
    /\ place \in {"loop", "finalizing", "closed"}
    /\ sent \in 0..MaxChunks /\ posts \in 0..MaxPosts

\* The order of the recording: no step back, and none over more than one
\* position of the model's rate.
Gapless(s) == \A i \in 1..(Len(s) - 1) : s[i + 1] - s[i] \in 0..Ratio

\* "On completion they replay into the fresh session so no audio is lost": the
\* model hears the recording in order, nothing left out and nothing twice,
\* across the replay of the buffer and the seams of the resampling.  Not so
\* once a chunk has overtaken a replay that waits for a slow client.
HeardInOrder ==
    \A s \in {session, final} \ {NoSession} :
        ~overtaken /\ ~gone => Gapless(s.heard \o s.resampled)

\* A recording that was stopped has been heard to the end, up to the audio that
\* was not enough for another stride.
FinalTextIsWhole ==
    place = "closed" /\ final # NoSession /\ final.heard # <<>> /\ ~overtaken /\ ~gone
      /\ final.resampled = <<>> =>
          Last(final.raw) - Last(final.heard) < Ratio * (Stride + 1)

TextIsTheRecording == HeardInOrder /\ FinalTextIsWhole

\* Once the streaming work of a connection is cancelled no session appears
\* again, whatever the loader and its threads were at; and while there is a
\* session that is ready, it is there to be fed.
CancelIsFinal ==
    /\ TypeOK
    /\ cancelled => session = NoSession /\ ~ready
    /\ ready <=> session # NoSession
    /\ place # "loop" => loader.at = "ended" /\ buffer = <<>>

\* Audio held back for a model that loads does not stay in the buffer: it is
\* fed, or given up with the load.
BufferIsDrained == (buffer # <<>> /\ ~cancelled) ~> (buffer = <<>>)
=============================================================================

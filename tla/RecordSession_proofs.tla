------------------------ MODULE RecordSession_proofs ------------------------
(* Safety of RecordSession for any number of connections and chunks.       *)
EXTENDS RecordSession, SequenceTheorems, TLAPS

USE RecordSessionAssumption DEF RecordSessionAssumption

\* Each update of a session yields a session.
LEMMA RecordingUpdates ==
    ASSUME NEW r \in Recordings, NEW c \in Conns
    PROVE  /\ Attached(r, c) \in Recordings
           /\ Detached(r, c) \in Recordings
           /\ Suspended(r) \in Recordings
           /\ Resumed(r, c) \in Recordings
           /\ WavOpened(r) \in Recordings
           /\ [r EXCEPT !.rateSet = TRUE] \in Recordings
           /\ \A n \in Chunks : ChunkAdded(r, n) \in Recordings
  <1>1. r.written \o r.pending \in Seq(Chunks)
    BY ConcatProperties DEF Recordings
  <1>2. <<>> \in Seq(Chunks)
    BY EmptySeq
  <1>3. \A n \in Chunks : /\ Append(r.written, n) \in Seq(Chunks)
                          /\ Append(r.pending, n) \in Seq(Chunks)
    BY AppendProperties DEF Recordings
  <1> QED
    BY <1>1, <1>2, <1>3
    DEF Recordings, Attached, Detached, Suspended, Resumed, WavOpened, ChunkAdded

\* The audio left by stop_recording is a sequence of chunks.
LEMMA FinalAudioType ==
    ASSUME NEW r \in Recordings
    PROVE  FinalAudio(r) \in Seq(Chunks)
  BY DEF Recordings, FinalAudio

LEMMA FreshType == FreshRecording \in Recordings
  BY EmptySeq DEF FreshRecording, Recordings

\* Leaving the loop keeps the types and closes the connection.
LEMMA LeaveType ==
    ASSUME TypeOK, NEW c \in Conns, NEW r \in Recordings \cup {NoRec}, Leave(r, c)
    PROVE  /\ rec' \in Recordings \cup {NoRec}
           /\ timer' \in BOOLEAN
           /\ pc' \in [Conns -> Places]
  <1>1. CASE r = NoRec
    BY <1>1 DEF Leave, TypeOK, Goto, Places
  <1>2. CASE r # NoRec
    <2>1. Detached(r, c) \in Recordings /\ Suspended(Detached(r, c)) \in Recordings
      BY <1>2, RecordingUpdates
    <2> QED
      BY <1>2, <2>1 DEF Leave, TypeOK, Goto, Places
  <1> QED
    BY <1>1, <1>2

LEMMA AudioType == TypeOK => AudioOf(rec) \subseteq Chunks
  <1>1. CASE rec = NoRec
    BY <1>1 DEF AudioOf
  <1>2. CASE TypeOK /\ rec # NoRec
    <2>1. Audio(rec) \in Seq(Chunks)
      BY <1>2, ConcatProperties DEF TypeOK, Recordings, Audio
    <2> QED
      BY <1>2, <2>1, LenProperties, ElementOfSeq DEF AudioOf, Range
  <1> QED
    BY <1>1, <1>2

LEMMA FinalizeAudioType ==
    ASSUME TypeOK, FinalizeAudio \/ FinalizeFails
    PROVE  /\ rec' = NoRec
           /\ tasks' \in Seq(Seq(Chunks))
           /\ discarded' \subseteq Chunks
           /\ dropped' \subseteq Chunks
           /\ failed' \subseteq Chunks
  <1>1. AudioOf(rec) \subseteq Chunks
    BY AudioType
  <1>2. CASE FinalizeAudio
    <2>1. CreatesTask => FinalAudio(rec) \in Seq(Chunks)
      BY FinalAudioType DEF TypeOK, CreatesTask, Live
    <2> QED
      BY <1>2, <2>1, AppendProperties DEF FinalizeAudio, TypeOK, fates
  <1>3. CASE FinalizeFails
    BY <1>1, <1>3 DEF FinalizeFails, TypeOK
  <1> QED
    BY <1>2, <1>3

\* Types are preserved by every action.
LEMMA TypeStep == TypeOK /\ [Next]_vars => TypeOK'
  <1> SUFFICES ASSUME TypeOK, [Next]_vars
               PROVE  TypeOK'
    OBVIOUS
  <1> USE DEF TypeOK, Goto, Send, Places, Replies, sessionVars, connVars, fates
  <1>1. ASSUME NEW c \in Conns, BeginSession(c)
        PROVE  TypeOK'
    <2>1. CASE ResumeSession(c)
      BY <1>1, <2>1, RecordingUpdates DEF BeginSession, ResumeSession, Live
    <2>2. CASE StartSession(c)
      BY <1>1, <2>2, RecordingUpdates, FreshType DEF BeginSession, StartSession
    <2>3. CASE AdoptSession(c)
      BY <1>1, <2>3, RecordingUpdates DEF BeginSession, AdoptSession, Live
    <2>4. CASE RejectBusy(c)
      BY <1>1, <2>4 DEF BeginSession, RejectBusy
    <2> QED
      BY <1>1, <2>1, <2>2, <2>3, <2>4 DEF BeginSession
  <1>2. ASSUME NEW c \in Conns, HandleAudioChunk(c)
        PROVE  TypeOK'
    <2>1. sent + 1 \in Chunks /\ sent' \in 0..MaxChunks
      BY <1>2 DEF HandleAudioChunk, Chunks
    <2>2. CASE Live
      <3>1. ChunkAdded(rec, sent + 1) \in Recordings
        BY <1>2, <2>1, <2>2, RecordingUpdates DEF Live
      <3> QED
        BY <1>2, <2>1, <2>2, <3>1 DEF HandleAudioChunk
    <2>3. CASE ~Live
      BY <1>2, <2>1, <2>3 DEF HandleAudioChunk
    <2> QED
      BY <2>2, <2>3
  <1>3. ASSUME NEW c \in Conns, AudioChunkFails(c)
        PROVE  TypeOK'
    <2>1. sent + 1 \in Chunks /\ sent' \in 0..MaxChunks
      BY <1>3 DEF AudioChunkFails, Chunks
    <2>2. Leave(rec, c) /\ rec \in Recordings
      BY <1>3 DEF AudioChunkFails, Live
    <2> QED
      BY <1>3, <2>1, <2>2, LeaveType DEF AudioChunkFails
  <1>4. ASSUME NEW c \in Conns, HandleConfig(c)
        PROVE  TypeOK'
    BY <1>4, RecordingUpdates DEF HandleConfig, Live
  <1>5. ASSUME NEW c \in Conns, ConfigFails(c)
        PROVE  TypeOK'
    <2>1. [rec EXCEPT !.rateSet = TRUE] \in Recordings
      BY <1>5, RecordingUpdates DEF ConfigFails, Live
    <2> QED
      BY <1>5, <2>1, LeaveType DEF ConfigFails
  <1>6. ASSUME NEW c \in Conns, Disconnect(c)
        PROVE  TypeOK'
    BY <1>6, LeaveType DEF Disconnect
  <1>7. ASSUME NEW c \in Conns, Discard(c)
        PROVE  TypeOK'
    BY <1>7, AudioType DEF Discard, DiscardRecording
  <1>8. ASSUME NEW c \in Conns, StopStreaming(c)
        PROVE  TypeOK'
    BY <1>8, RecordingUpdates DEF StopStreaming, Live
  <1>9. ASSUME NEW c \in Conns, Finalize(c), timer' \in BOOLEAN
        PROVE  TypeOK'
    <2>1. FinalizeAudio \/ FinalizeFails
      BY <1>9 DEF Finalize
    <2>2. pc' \in [Conns -> Places] /\ reply' \in [Conns -> Replies] /\ sent' = sent
      BY <1>9 DEF Finalize
    <2> QED
      BY <1>9, <2>1, <2>2, FinalizeAudioType
  <1>10. CASE GraceExpire
    <2>1. CASE FinalizeAudio \/ FinalizeFails
      BY <1>10, <2>1, FinalizeAudioType DEF GraceExpire
    <2>2. CASE UNCHANGED <<rec, tasks, fates>>
      BY <1>10, <2>2 DEF GraceExpire
    <2> QED
      BY <1>10, <2>1, <2>2 DEF GraceExpire
  <1>11. CASE Delete
    BY <1>11, AudioType DEF Delete, DiscardRecording
  <1>12. CASE Crash
    BY <1>12, AudioType DEF Crash
  <1>13. CASE UNCHANGED vars
    BY <1>13 DEF vars
  <1>14. ASSUME NEW c \in Conns, Stop(c) \/ FinishStop(c)
         PROVE  TypeOK'
    BY <1>9, <1>14 DEF Stop, FinishStop
  <1> QED
    BY <1>1, <1>2, <1>3, <1>4, <1>5, <1>6, <1>7, <1>8, <1>10, <1>11, <1>12,
       <1>13, <1>14 DEF Next, ConnStep

LEMMA TypeInit == Init => TypeOK
  <1>1. <<>> \in Seq(Seq(Chunks))
    BY EmptySeq
  <1>2. Init => pc \in [Conns -> Places] /\ reply \in [Conns -> Replies]
    BY DEF Init, Places, Replies
  <1>3. 0 \in 0..MaxChunks
    OBVIOUS
  <1> QED
    BY <1>1, <1>2, <1>3 DEF Init, TypeOK

\* Every variable has its type in every reachable state.
THEOREM TypeCorrect == Spec => []TypeOK
  BY TypeInit, TypeStep, PTL DEF Spec

-----------------------------------------------------------------------------
(* Sessions, owners and timers.                                            *)

SessionInv ==
    /\ TypeOK
    /\ TimerNeverOnActive
    /\ NoAbandonedSession
    /\ AudioInOnePlace

\* The part of SessionInv that speaks of one session and its surroundings.
Kept == TimerNeverOnActive /\ NoAbandonedSession /\ AudioInOnePlace

\* Leaving the loop keeps the session attended: it arms the timer.
LEMMA LeaveKeeps ==
    ASSUME SessionInv, NEW c \in Conns, pc[c] = "loop",
           NEW r \in Recordings \cup {NoRec}, Leave(r, c),
           (r = NoRec) <=> (rec = NoRec),
           r # NoRec => /\ r.state = rec.state /\ r.owner = rec.owner
                        /\ r.wav = rec.wav /\ r.pending = rec.pending
                        /\ r.written = rec.written
    PROVE  Kept'
  <1> USE DEF SessionInv, TypeOK, Kept, TimerNeverOnActive, NoAbandonedSession,
              AudioInOnePlace, Live, Stopping, Leave, Goto
  <1>1. CASE r = NoRec
    BY <1>1
  <1>2. CASE r # NoRec /\ r.state = "active"
    <2>1. rec' = Suspended(Detached(r, c)) /\ timer' /\ rec' \in Recordings
      <3>1. Detached(r, c) \in Recordings
        BY <1>2, RecordingUpdates
      <3>2. Detached(r, c).state = "active" /\ Detached(r, c) # NoRec
        BY <1>2, <3>1 DEF Detached, Recordings
      <3>3. Suspended(Detached(r, c)) \in Recordings
        BY <3>1, RecordingUpdates
      <3>4. rec' = Suspended(Detached(r, c))
        BY <1>2, <3>2
      <3>5. timer'
        BY <1>2, <3>2
      <3> QED
        BY <3>3, <3>4, <3>5
    <2>2. rec'.state = "suspended" /\ rec'.owner = Nobody
      BY <1>2, <2>1 DEF Suspended, Detached, Recordings
    <2>3. /\ rec'.wav = rec.wav /\ rec'.pending = rec.pending
          /\ rec'.written = rec.written
      BY <1>2, <2>1 DEF Suspended, Detached, Recordings
    <2> QED
      BY <1>2, <2>1, <2>2, <2>3
  <1>3. CASE r # NoRec /\ r.state = "suspended"
    <2>1. Detached(r, c) = r
      BY <1>3 DEF Detached, Recordings
    <2>2. rec' = r /\ timer' = timer
      BY <1>3, <2>1
    <2>3. Stopping => Stopping'
      OBVIOUS
    <2> QED
      BY <1>3, <2>2, <2>3
  <1> QED
    BY <1>1, <1>2, <1>3 DEF Recordings

\* Without a session there is nothing to keep.
LEMMA NothingLive == rec' = NoRec => Kept'
  BY DEF Kept, TimerNeverOnActive, NoAbandonedSession, AudioInOnePlace, Live

LEMMA SessionStep == SessionInv /\ [Next]_vars => SessionInv'
  <1> SUFFICES ASSUME SessionInv, [Next]_vars
               PROVE  Kept'
    BY TypeStep DEF SessionInv, Kept
  <1> USE DEF SessionInv, TypeOK, Live, Goto, sessionVars, connVars
  <1>1. ASSUME NEW c \in Conns, BeginSession(c)
        PROVE  Kept'
    <2> USE DEF Kept, TimerNeverOnActive, NoAbandonedSession,
                AudioInOnePlace, Stopping
    <2>1. CASE ResumeSession(c)
      <3>1. /\ rec'.state = "active" /\ rec'.owner = c
            /\ rec'.wav = rec.wav /\ rec'.pending = rec.pending
            /\ rec'.written = rec.written
        BY <2>1 DEF ResumeSession, Resumed, Recordings
      <3> QED
        BY <2>1, <3>1 DEF ResumeSession
    <2>2. CASE StartSession(c)
      <3>1. /\ rec'.state = "active" /\ rec'.owner = c
            /\ rec'.wav = FALSE /\ rec'.written = <<>>
        BY <2>2 DEF StartSession, Attached, FreshRecording
      <3> QED
        BY <2>2, <3>1 DEF StartSession
    <2>3. CASE AdoptSession(c)
      <3>1. /\ rec'.state = "active" /\ rec'.owner = c
            /\ rec'.wav = rec.wav /\ rec'.pending = rec.pending
            /\ rec'.written = rec.written
        BY <2>3 DEF AdoptSession, Attached, Recordings
      <3> QED
        BY <2>3, <3>1 DEF AdoptSession
    <2>4. CASE RejectBusy(c)
      <3>1. \A d \in Conns : pc[d] \in {"loop", "finalizing"} => pc'[d] = pc[d]
        BY <1>1, <2>4 DEF BeginSession, RejectBusy
      <3> QED
        BY <2>4, <3>1 DEF RejectBusy
    <2> QED
      BY <1>1, <2>1, <2>2, <2>3, <2>4 DEF BeginSession
  <1>2. ASSUME NEW c \in Conns, HandleAudioChunk(c)
        PROVE  Kept'
    <2> USE DEF Kept, TimerNeverOnActive, NoAbandonedSession,
                AudioInOnePlace, Stopping
    <2>1. CASE Live
      <3>1. /\ rec'.state = rec.state /\ rec'.owner = rec.owner
            /\ rec'.wav = rec.wav
            /\ IF rec.wav THEN rec'.pending = rec.pending
                          ELSE rec'.written = rec.written
        BY <1>2, <2>1 DEF HandleAudioChunk, ChunkAdded, Recordings
      <3> QED
        BY <1>2, <2>1, <3>1 DEF HandleAudioChunk
    <2>2. CASE ~Live
      BY <1>2, <2>2, NothingLive DEF HandleAudioChunk
    <2> QED
      BY <2>1, <2>2
  <1>3. ASSUME NEW c \in Conns, AudioChunkFails(c)
        PROVE  Kept'
    BY <1>3, LeaveKeeps DEF AudioChunkFails
  <1>4. ASSUME NEW c \in Conns, HandleConfig(c)
        PROVE  Kept'
    <2>1. /\ rec'.state = rec.state /\ rec'.owner = rec.owner
          /\ rec'.pending = <<>> /\ rec'.wav
      BY <1>4 DEF HandleConfig, WavOpened, Recordings
    <2> QED
      BY <1>4, <2>1 DEF HandleConfig, Kept, TimerNeverOnActive,
         NoAbandonedSession, AudioInOnePlace, Stopping
  <1>5. ASSUME NEW c \in Conns, ConfigFails(c)
        PROVE  Kept'
    <2> DEFINE r == [rec EXCEPT !.rateSet = TRUE]
    <2>1. r \in Recordings
      BY <1>5, RecordingUpdates DEF ConfigFails
    <2>2. /\ r.state = rec.state /\ r.owner = rec.owner
          /\ r.wav = rec.wav /\ r.pending = rec.pending
          /\ r.written = rec.written
      BY <1>5 DEF ConfigFails, Recordings
    <2> HIDE DEF r
    <2> QED
      BY <1>5, <2>1, <2>2, LeaveKeeps DEF ConfigFails, r
  <1>6. ASSUME NEW c \in Conns, Disconnect(c)
        PROVE  Kept'
    BY <1>6, LeaveKeeps DEF Disconnect
  <1>7. ASSUME NEW c \in Conns, Discard(c)
        PROVE  Kept'
    BY <1>7, NothingLive DEF Discard, DiscardRecording
  <1>8. ASSUME NEW c \in Conns, StopStreaming(c)
        PROVE  Kept'
    <2>1. Stopping' /\ ~timer'
      BY <1>8 DEF StopStreaming, Stopping
    <2>2. CASE Live
      <3>1. /\ rec'.state = rec.state
            /\ rec'.wav = rec.wav /\ rec'.pending = rec.pending
            /\ rec'.written = rec.written
            /\ rec'.owner \in {rec.owner, Nobody}
        BY <1>8, <2>2 DEF StopStreaming, Detached, Recordings
      <3> QED
        BY <2>1, <2>2, <3>1 DEF Kept, TimerNeverOnActive, NoAbandonedSession,
           AudioInOnePlace
    <2>3. CASE ~Live
      BY <1>8, <2>3, NothingLive DEF StopStreaming
    <2> QED
      BY <2>2, <2>3
  <1>9. ASSUME NEW c \in Conns, Stop(c) \/ FinishStop(c)
        PROVE  Kept'
    BY <1>9, NothingLive
    DEF Stop, FinishStop, Finalize, FinalizeAudio, FinalizeFails
  <1>10. CASE GraceExpire
    <2>1. CASE Live /\ rec.state = "suspended"
      BY <1>10, <2>1, NothingLive DEF GraceExpire, FinalizeAudio, FinalizeFails
    <2>2. CASE ~Live
      BY <1>10, <2>2, NothingLive DEF GraceExpire
    <2>3. Live => rec.state = "suspended"
      BY <1>10 DEF GraceExpire, TimerNeverOnActive
    <2> QED
      BY <2>1, <2>2, <2>3
  <1>11. CASE Delete
    BY <1>11, NothingLive DEF Delete, DiscardRecording
  <1>12. CASE Crash
    BY <1>12, NothingLive DEF Crash
  <1>13. CASE UNCHANGED vars
    BY <1>13 DEF vars, Kept, TimerNeverOnActive, NoAbandonedSession,
       AudioInOnePlace, Stopping
  <1> QED
    BY <1>1, <1>2, <1>3, <1>4, <1>5, <1>6, <1>7, <1>8, <1>9, <1>10, <1>11,
       <1>12, <1>13 DEF Next, ConnStep

LEMMA SessionInvariant == Spec => []SessionInv
  <1>1. Init => SessionInv
    BY TypeInit DEF Init, SessionInv, TimerNeverOnActive, NoAbandonedSession,
       AudioInOnePlace, Live
  <1> QED
    BY <1>1, SessionStep, PTL DEF Spec

\* A live session is never at the mercy of the timer of an old suspension.
THEOREM StaleTimerHarmless == Spec => []TimerNeverOnActive
  BY SessionInvariant, PTL DEF SessionInv

\* Every session in the registry has somebody who will finalize it.
THEOREM NoSessionLeaks == Spec => []NoAbandonedSession
  BY SessionInvariant, PTL DEF SessionInv

\* stop_recording never has audio both in memory and in the file.
THEOREM AudioIsInOnePlace == Spec => []AudioInOnePlace
  BY SessionInvariant, PTL DEF SessionInv

-----------------------------------------------------------------------------
(* The single-owner discipline, where no connection can outlive its        *)
(* session: no DELETE, and no await between stop and finalize.             *)

OwnerInv == TypeOK /\ LoopOwnsSession /\ ~Stopping

\* One connection in its loop excludes every other.
LEMMA OneInLoop ==
    ASSUME OwnerInv, NEW c \in Conns, pc[c] = "loop"
    PROVE  /\ Live /\ rec.state = "active" /\ rec.owner = c
           /\ \A d \in Conns \ {c} : pc[d] # "loop"
  BY DEF OwnerInv, LoopOwnsSession

\* The steps that keep it.
OwnerNext ==
    \/ \E c \in Conns :
          \/ BeginSession(c) \/ HandleAudioChunk(c) \/ AudioChunkFails(c)
          \/ HandleConfig(c) \/ ConfigFails(c) \/ Disconnect(c)
          \/ Discard(c) \/ Stop(c)
    \/ GraceExpire
    \/ Crash

LEMMA OwnerKept ==
    ASSUME OwnerInv, OwnerNext \/ UNCHANGED vars
    PROVE  OwnerInv'
  <1> SUFFICES LoopOwnsSession' /\ ~Stopping'
    BY TypeStep DEF OwnerInv, OwnerNext, Next, ConnStep
  <1> USE DEF OwnerInv, TypeOK, LoopOwnsSession, Stopping, Live, Goto,
              sessionVars, connVars
  \* A step of c that ends its loop leaves nobody in a loop.
  <1>1. ASSUME NEW c \in Conns, pc[c] = "loop", Goto(c, "closed")
        PROVE  LoopOwnsSession' /\ ~Stopping'
    BY <1>1, OneInLoop
  <1>2. ASSUME NEW c \in Conns, BeginSession(c)
        PROVE  LoopOwnsSession' /\ ~Stopping'
    <2>1. CASE ResumeSession(c)
      <3>1. rec'.state = "active" /\ rec'.owner = c /\ rec' \in Recordings
        BY <2>1, RecordingUpdates DEF ResumeSession, Resumed, Recordings
      <3> QED
        BY <2>1, <3>1 DEF ResumeSession
    <2>2. CASE StartSession(c)
      <3>1. rec'.state = "active" /\ rec'.owner = c /\ rec' \in Recordings
        BY <2>2, FreshType, RecordingUpdates
        DEF StartSession, Attached, FreshRecording
      <3> QED
        BY <2>2, <3>1 DEF StartSession
    <2>3. CASE AdoptSession(c)
      <3>1. rec'.state = "active" /\ rec'.owner = c /\ rec' \in Recordings
        BY <2>3, RecordingUpdates DEF AdoptSession, Attached, Recordings
      <3>2. \A d \in Conns \ {c} : pc[d] # "loop"
        BY <1>2, <2>3 DEF BeginSession, AdoptSession, MayAttach
      <3> QED
        BY <2>3, <3>1, <3>2 DEF AdoptSession
    <2>4. CASE RejectBusy(c)
      BY <2>4 DEF RejectBusy
    <2> QED
      BY <1>2, <2>1, <2>2, <2>3, <2>4 DEF BeginSession
  <1>3. ASSUME NEW c \in Conns, HandleAudioChunk(c)
        PROVE  LoopOwnsSession' /\ ~Stopping'
    <2>1. Live /\ sent + 1 \in Chunks
      BY <1>3, OneInLoop DEF HandleAudioChunk, Chunks
    <2>2. ChunkAdded(rec, sent + 1) \in Recordings
      BY <2>1, RecordingUpdates
    <2>3. /\ rec'.state = rec.state /\ rec'.owner = rec.owner
          /\ rec' \in Recordings
      BY <1>3, <2>1, <2>2, ZenonT(30) DEF HandleAudioChunk, ChunkAdded, Recordings
    <2> QED
      BY <1>3, <2>3 DEF HandleAudioChunk
  <1>4. ASSUME NEW c \in Conns, HandleConfig(c)
        PROVE  LoopOwnsSession' /\ ~Stopping'
    <2>1. /\ rec'.state = rec.state /\ rec'.owner = rec.owner
          /\ rec' \in Recordings
      BY <1>4, RecordingUpdates DEF HandleConfig, WavOpened, Recordings
    <2> QED
      BY <1>4, <2>1 DEF HandleConfig
  <1>5. ASSUME NEW c \in Conns,
               AudioChunkFails(c) \/ ConfigFails(c) \/ Disconnect(c)
               \/ Discard(c) \/ Stop(c)
        PROVE  LoopOwnsSession' /\ ~Stopping'
    BY <1>1, <1>5 DEF AudioChunkFails, ConfigFails, Disconnect, Discard, Stop,
       Finalize, Leave
  <1>6. CASE GraceExpire
    <2>1. CASE Live /\ rec.state = "suspended"
      BY <1>6, <2>1 DEF GraceExpire
    <2>2. CASE ~(Live /\ rec.state = "suspended")
      BY <1>6, <2>2 DEF GraceExpire
    <2> QED
      BY <2>1, <2>2
  <1>7. CASE Crash
    BY <1>7 DEF Crash
  <1>8. CASE UNCHANGED vars
    BY <1>8 DEF vars
  <1> QED
    BY <1>2, <1>3, <1>4, <1>5, <1>6, <1>7, <1>8 DEF OwnerNext

LEMMA OwnerStep ==
    ASSUME ~StreamingASR, "delete" \notin Faults
    PROVE  OwnerInv /\ [Next]_vars => OwnerInv'
  BY OwnerKept DEF Next, ConnStep, OwnerNext, OwnerInv, Stopping,
     StopStreaming, FinishStop, Delete

LEMMA OwnerInvariant ==
    ASSUME ~StreamingASR, "delete" \notin Faults
    PROVE  Spec => []OwnerInv
  <1>1. Init => OwnerInv
    BY TypeInit DEF Init, OwnerInv, LoopOwnsSession, Stopping
  <1>2. OwnerInv /\ [Next]_vars => OwnerInv'
    BY OwnerStep
  <1> QED
    BY <1>1, <1>2, PTL DEF Spec

\* Without DELETE and without a streaming finalize, every connection in its
\* loop owns the live session: at most one streams, and what it streams is
\* recorded.
THEOREM SingleOwner ==
    ASSUME ~StreamingASR, "delete" \notin Faults
    PROVE  Spec => []LoopOwnsSession
  <1>1. OwnerInv => LoopOwnsSession
    BY DEF OwnerInv
  <1>2. Spec => []OwnerInv
    BY OwnerInvariant
  <1> QED
    BY <1>1, <1>2, PTL

-----------------------------------------------------------------------------
(* The fate of every chunk.                                                *)

LEMMA RangeOfAppend ==
    ASSUME NEW S, NEW s \in Seq(S), NEW e \in S
    PROVE  Range(Append(s, e)) = Range(s) \cup {e}
  <1>1. /\ Len(Append(s, e)) = Len(s) + 1 /\ Append(s, e)[Len(s) + 1] = e
        /\ \A i \in 1..Len(s) : Append(s, e)[i] = s[i]
        /\ Append(s, e) \in Seq(S)
    BY AppendProperties
  <1>2. /\ DOMAIN s = 1..Len(s) /\ Len(s) \in Nat
        /\ DOMAIN Append(s, e) = 1..(Len(s) + 1)
    BY <1>1, LenProperties
  <1> QED
    BY <1>1, <1>2 DEF Range

LEMMA RangeOfConcat ==
    ASSUME NEW S, NEW s \in Seq(S), NEW t \in Seq(S)
    PROVE  Range(s \o t) = Range(s) \cup Range(t)
  <1>1. /\ s \o t \in Seq(S) /\ Len(s \o t) = Len(s) + Len(t)
        /\ \A i \in 1..(Len(s) + Len(t)) :
             (s \o t)[i] = IF i <= Len(s) THEN s[i] ELSE t[i - Len(s)]
    BY ConcatProperties
  <1>2. /\ DOMAIN s = 1..Len(s) /\ Len(s) \in Nat
        /\ DOMAIN t = 1..Len(t) /\ Len(t) \in Nat
        /\ DOMAIN (s \o t) = 1..(Len(s) + Len(t))
    BY <1>1, LenProperties
  <1>3. \A i \in 1..Len(s) : (s \o t)[i] = s[i] /\ i \in 1..(Len(s) + Len(t))
    BY <1>1, <1>2
  <1>4. \A j \in 1..Len(t) : /\ (s \o t)[Len(s) + j] = t[j]
                             /\ Len(s) + j \in 1..(Len(s) + Len(t))
    BY <1>1, <1>2
  <1>5. \A i \in 1..(Len(s) + Len(t)) :
           i \in 1..Len(s) \/ i - Len(s) \in 1..Len(t)
    BY <1>2
  <1>6. Range(s \o t) \subseteq Range(s) \cup Range(t)
    BY <1>1, <1>2, <1>5 DEF Range
  <1>7. Range(s) \subseteq Range(s \o t)
    BY <1>2, <1>3 DEF Range
  <1>8. Range(t) \subseteq Range(s \o t)
    BY <1>2, <1>4 DEF Range
  <1> QED
    BY <1>6, <1>7, <1>8

\* The chunks of a session, part by part.
ChunksOf(r) == Range(r.written) \cup Range(r.pending)

LEMMA AudioIsChunks ==
    ASSUME NEW r \in Recordings
    PROVE  AudioOf(r) = ChunksOf(r)
  <1>1. r # NoRec /\ r.written \in Seq(Chunks) /\ r.pending \in Seq(Chunks)
    BY DEF Recordings
  <1> QED
    BY <1>1, RangeOfConcat DEF AudioOf, Audio, ChunksOf

LEMMA RangeOfEmpty == Range(<<>>) = {}
  BY DEF Range

\* Only a chunk that is added changes what a session holds.
LEMMA UpdatesKeepChunks ==
    ASSUME NEW r \in Recordings, NEW c \in Conns
    PROVE  /\ AudioOf(Attached(r, c)) = AudioOf(r)
           /\ AudioOf(Detached(r, c)) = AudioOf(r)
           /\ AudioOf(Suspended(r)) = AudioOf(r)
           /\ AudioOf(Resumed(r, c)) = AudioOf(r)
           /\ AudioOf([r EXCEPT !.rateSet = TRUE]) = AudioOf(r)
           /\ AudioOf(WavOpened(r)) = AudioOf(r)
           /\ \A n \in Chunks : AudioOf(ChunkAdded(r, n)) = AudioOf(r) \cup {n}
  <1>1. r.written \in Seq(Chunks) /\ r.pending \in Seq(Chunks)
    BY DEF Recordings
  <1>2. ASSUME NEW q \in Recordings,
               q.written = r.written, q.pending = r.pending
        PROVE  AudioOf(q) = AudioOf(r)
    BY <1>2, AudioIsChunks DEF ChunksOf
  <1>3. AudioOf(Attached(r, c)) = AudioOf(r)
    <2>1. Attached(r, c).written = r.written /\ Attached(r, c).pending = r.pending
      BY DEF Attached, Recordings
    <2>2. Attached(r, c) \in Recordings
      BY RecordingUpdates
    <2> QED
      BY <1>2, <2>1, <2>2
  <1>4. AudioOf(Detached(r, c)) = AudioOf(r)
    BY <1>2, RecordingUpdates DEF Detached, Recordings
  <1>5. AudioOf(Suspended(r)) = AudioOf(r)
    <2>1. Suspended(r).written = r.written /\ Suspended(r).pending = r.pending
      BY DEF Suspended, Recordings
    <2>2. Suspended(r) \in Recordings
      BY RecordingUpdates
    <2> QED
      BY <1>2, <2>1, <2>2
  <1>6. AudioOf(Resumed(r, c)) = AudioOf(r)
    <2>1. Resumed(r, c).written = r.written /\ Resumed(r, c).pending = r.pending
      BY DEF Resumed, Recordings
    <2>2. Resumed(r, c) \in Recordings
      BY RecordingUpdates
    <2> QED
      BY <1>2, <2>1, <2>2
  <1>7. AudioOf([r EXCEPT !.rateSet = TRUE]) = AudioOf(r)
    BY <1>2, RecordingUpdates DEF Recordings
  <1>8. AudioOf(WavOpened(r)) = AudioOf(r)
    <2>1. /\ WavOpened(r).written = r.written \o r.pending
          /\ WavOpened(r).pending = <<>>
      BY DEF WavOpened, Recordings
    <2>2. ChunksOf(WavOpened(r)) = ChunksOf(r)
      BY <1>1, <2>1, RangeOfConcat, RangeOfEmpty DEF ChunksOf
    <2> QED
      BY <2>2, AudioIsChunks, RecordingUpdates
  <1>9. ASSUME NEW n \in Chunks
        PROVE  AudioOf(ChunkAdded(r, n)) = AudioOf(r) \cup {n}
    <2>1. CASE r.wav
      <3>1. /\ ChunkAdded(r, n).written = Append(r.written, n)
            /\ ChunkAdded(r, n).pending = r.pending
        BY <2>1 DEF ChunkAdded, Recordings
      <3>2. ChunksOf(ChunkAdded(r, n)) = ChunksOf(r) \cup {n}
        BY <1>1, <3>1, RangeOfAppend DEF ChunksOf
      <3> QED
        BY <1>9, <3>2, AudioIsChunks, RecordingUpdates
    <2>2. CASE ~r.wav
      <3>1. /\ ChunkAdded(r, n).pending = Append(r.pending, n)
            /\ ChunkAdded(r, n).written = r.written
        BY <2>2 DEF ChunkAdded, Recordings
      <3>2. ChunksOf(ChunkAdded(r, n)) = ChunksOf(r) \cup {n}
        BY <1>1, <3>1, RangeOfAppend DEF ChunksOf
      <3> QED
        BY <1>9, <3>2, AudioIsChunks, RecordingUpdates
    <2> QED
      BY <2>1, <2>2
  <1> QED
    BY <1>3, <1>4, <1>5, <1>6, <1>7, <1>8, <1>9

\* A step that moves no audio, or removes the session and puts its audio in
\* one of the sets, keeps every chunk's fate.
LEMMA FatesKept ==
    ASSUME TypeOK, EveryChunkHasOneFate, tasks' = tasks, sent' = sent,
           \/ /\ AudioOf(rec') = AudioOf(rec)
              /\ UNCHANGED fates
           \/ /\ rec' = NoRec
              /\ discarded' = discarded \cup AudioOf(rec)
              /\ UNCHANGED <<dropped, failed>>
           \/ /\ rec' = NoRec
              /\ failed' = failed \cup AudioOf(rec)
              /\ UNCHANGED <<dropped, discarded>>
    PROVE  EveryChunkHasOneFate'
  <1>1. rec' = NoRec => AudioOf(rec') = {}
    BY DEF AudioOf
  <1>2. InTasks' = InTasks
    BY DEF InTasks
  <1> QED
    BY <1>1, <1>2 DEF EveryChunkHasOneFate, fates

\* The next chunk joins the session, or the dropped or the failed chunks.
LEMMA FateOfNewChunk ==
    ASSUME TypeOK, EveryChunkHasOneFate, tasks' = tasks, sent' = sent + 1,
           discarded' = discarded,
           \/ /\ AudioOf(rec') = AudioOf(rec) \cup {sent + 1}
              /\ dropped' = dropped /\ failed' = failed
           \/ /\ AudioOf(rec') = AudioOf(rec)
              /\ dropped' = dropped \cup {sent + 1} /\ failed' = failed
           \/ /\ AudioOf(rec') = AudioOf(rec)
              /\ failed' = failed \cup {sent + 1} /\ dropped' = dropped
    PROVE  EveryChunkHasOneFate'
  <1>1. InTasks' = InTasks
    BY DEF InTasks
  <1>2. 1..(sent + 1) = (1..sent) \cup {sent + 1} /\ sent + 1 \notin 1..sent
    BY DEF TypeOK
  <1>3. /\ sent + 1 \notin AudioOf(rec) /\ sent + 1 \notin InTasks
        /\ sent + 1 \notin discarded /\ sent + 1 \notin dropped
        /\ sent + 1 \notin failed
    BY <1>2 DEF EveryChunkHasOneFate
  <1>4. 1..sent' = UNION {AudioOf(rec'), InTasks', discarded', dropped', failed'}
    BY <1>1, <1>2 DEF EveryChunkHasOneFate
  <1>5. AudioOf(rec') \cap (InTasks' \cup discarded' \cup dropped' \cup failed') = {}
    BY <1>1, <1>3 DEF EveryChunkHasOneFate
  <1>6. InTasks' \cap (discarded' \cup dropped' \cup failed') = {}
    BY <1>1, <1>3 DEF EveryChunkHasOneFate
  <1>7. \A i, j \in DOMAIN tasks' :
           i # j => Range(tasks'[i]) \cap Range(tasks'[j]) = {}
    BY DEF EveryChunkHasOneFate
  <1> QED
    BY <1>4, <1>5, <1>6, <1>7 DEF EveryChunkHasOneFate, InTasks

\* Finalizing moves all the audio of the session into one new task.
LEMMA FateOfFinalized ==
    ASSUME SessionInv, EveryChunkHasOneFate, FinalizeAudio, sent' = sent
    PROVE  EveryChunkHasOneFate'
  <1>1. AudioOf(rec') = {} /\ UNCHANGED fates
    BY DEF FinalizeAudio, AudioOf
  <1>2. Live => AudioOf(rec) = Range(FinalAudio(rec))
    <2>1. Live => rec \in Recordings
      BY DEF SessionInv, TypeOK, Live
    <2> QED
      BY <2>1, AudioIsChunks, RangeOfEmpty
      DEF SessionInv, AudioInOnePlace, ChunksOf, FinalAudio
  <1>3. CASE ~CreatesTask
    <2>1. AudioOf(rec) = {}
      BY <1>2, <1>3, RangeOfEmpty DEF CreatesTask, AudioOf, Live
    <2> QED
      BY <1>1, <1>3, <2>1 DEF FinalizeAudio, EveryChunkHasOneFate, InTasks, fates
  <1>4. CASE CreatesTask
    <2> DEFINE a == FinalAudio(rec)
               n == Len(tasks) + 1
    <2>1. a \in Seq(Chunks) /\ tasks \in Seq(Seq(Chunks)) /\ Range(a) = AudioOf(rec)
      BY <1>2, <1>4, FinalAudioType DEF CreatesTask, Live, SessionInv, TypeOK
    <2>2. tasks' = Append(tasks, a)
      BY <1>4 DEF FinalizeAudio
    <2>3. /\ DOMAIN tasks = 1..Len(tasks) /\ Len(tasks) \in Nat
          /\ DOMAIN tasks' = 1..n /\ tasks'[n] = a
          /\ \A i \in 1..Len(tasks) : tasks'[i] = tasks[i]
      <3> HIDE DEF a
      <3> QED
        BY <2>1, <2>2, AppendProperties, LenProperties
    <2>4. 1..n = (1..Len(tasks)) \cup {n} /\ n \notin 1..Len(tasks)
      BY <2>3
    <2> HIDE DEF a, n
    <2>5. InTasks' = InTasks \cup AudioOf(rec)
      BY <2>1, <2>3, <2>4 DEF InTasks
    <2>6. \A i \in DOMAIN tasks : Range(tasks[i]) \cap AudioOf(rec) = {}
      BY DEF EveryChunkHasOneFate, InTasks
    <2>7. \A i, j \in DOMAIN tasks' :
             i # j => Range(tasks'[i]) \cap Range(tasks'[j]) = {}
      BY <2>1, <2>3, <2>4, <2>6 DEF EveryChunkHasOneFate
    <2>8. /\ AudioOf(rec') = {} /\ discarded' = discarded
          /\ dropped' = dropped /\ failed' = failed
      BY <1>1 DEF fates
    <2>9. 1..sent' = UNION {AudioOf(rec'), InTasks', discarded', dropped', failed'}
      BY <2>5, <2>8 DEF EveryChunkHasOneFate
    <2>10. /\ AudioOf(rec') \cap (InTasks' \cup discarded' \cup dropped' \cup failed') = {}
           /\ InTasks' \cap (discarded' \cup dropped' \cup failed') = {}
      BY <2>5, <2>8 DEF EveryChunkHasOneFate
    <2> QED
      BY <2>7, <2>9, <2>10 DEF EveryChunkHasOneFate, InTasks
  <1> QED
    BY <1>3, <1>4

LEMMA LeaveKeepsAudio ==
    ASSUME NEW r \in Recordings \cup {NoRec}, NEW c \in Conns, Leave(r, c)
    PROVE  AudioOf(rec') = AudioOf(r)
  <1>1. CASE r = NoRec
    BY <1>1 DEF Leave
  <1>2. CASE r # NoRec
    <2>1. /\ Detached(r, c) \in Recordings
          /\ AudioOf(Detached(r, c)) = AudioOf(r)
      BY <1>2, RecordingUpdates, UpdatesKeepChunks
    <2>2. AudioOf(Suspended(Detached(r, c))) = AudioOf(r)
      BY <2>1, UpdatesKeepChunks
    <2> QED
      BY <1>2, <2>1, <2>2 DEF Leave
  <1> QED
    BY <1>1, <1>2

LEMMA FateStep ==
    SessionInv /\ EveryChunkHasOneFate /\ [Next]_vars => EveryChunkHasOneFate'
  <1> SUFFICES ASSUME SessionInv, EveryChunkHasOneFate, [Next]_vars
               PROVE  EveryChunkHasOneFate'
    OBVIOUS
  <1>t. TypeOK
    BY DEF SessionInv
  <1>r. Live => rec \in Recordings
    BY <1>t DEF TypeOK, Live
  <1>n. AudioOf(NoRec) = {}
    BY DEF AudioOf
  <1>1. ASSUME NEW c \in Conns, BeginSession(c)
        PROVE  EveryChunkHasOneFate'
    <2>1. tasks' = tasks /\ sent' = sent /\ UNCHANGED fates
      BY <1>1 DEF BeginSession
    <2>2. CASE ResumeSession(c) \/ AdoptSession(c)
      <3>1. AudioOf(rec') = AudioOf(rec)
        <4>1. CASE ResumeSession(c)
          <5>1. rec \in Recordings /\ rec' = Resumed(rec, c)
            BY <1>r, <4>1 DEF ResumeSession
          <5> QED
            BY <5>1, UpdatesKeepChunks
        <4>2. CASE AdoptSession(c)
          <5>1. rec \in Recordings /\ rec' = Attached(rec, c)
            BY <1>r, <4>2 DEF AdoptSession
          <5> QED
            BY <5>1, UpdatesKeepChunks
        <4> QED
          BY <2>2, <4>1, <4>2
      <3> QED
        BY <1>t, <2>1, <3>1, FatesKept
    <2>3. CASE StartSession(c)
      <3>1. /\ FreshRecording.written = <<>> /\ FreshRecording.pending = <<>>
        BY DEF FreshRecording
      <3>2. AudioOf(FreshRecording) = {}
        BY <3>1, AudioIsChunks, FreshType, RangeOfEmpty DEF ChunksOf
      <3>3. AudioOf(rec') = {}
        BY <2>3, <3>2, FreshType, UpdatesKeepChunks DEF StartSession
      <3>4. AudioOf(rec) = {}
        BY <1>n, <2>3 DEF StartSession, Live
      <3> QED
        BY <1>t, <2>1, <3>3, <3>4, FatesKept
    <2>4. CASE RejectBusy(c)
      BY <1>t, <2>1, <2>4, FatesKept DEF RejectBusy, sessionVars
    <2> QED
      BY <1>1, <2>2, <2>3, <2>4 DEF BeginSession
  <1>2. ASSUME NEW c \in Conns, HandleAudioChunk(c)
        PROVE  EveryChunkHasOneFate'
    <2>1. sent + 1 \in Chunks
      BY <1>2, <1>t DEF HandleAudioChunk, TypeOK, Chunks
    <2>2. CASE Live
      <3>1. AudioOf(rec') = AudioOf(rec) \cup {sent + 1}
        <4>1. rec' = ChunkAdded(rec, sent + 1)
          BY <1>2, <2>2 DEF HandleAudioChunk
        <4> QED
          BY <1>2, <1>r, <2>1, <2>2, <4>1, UpdatesKeepChunks
      <3> QED
        BY <1>2, <1>t, <2>2, <3>1, FateOfNewChunk DEF HandleAudioChunk
    <2>3. CASE ~Live
      BY <1>2, <1>t, <2>3, FateOfNewChunk DEF HandleAudioChunk
    <2> QED
      BY <2>2, <2>3
  <1>3. ASSUME NEW c \in Conns, AudioChunkFails(c)
        PROVE  EveryChunkHasOneFate'
    <2>1. AudioOf(rec') = AudioOf(rec)
      BY <1>3, <1>r, LeaveKeepsAudio DEF AudioChunkFails
    <2> QED
      BY <1>3, <1>t, <2>1, FateOfNewChunk DEF AudioChunkFails
  <1>4. ASSUME NEW c \in Conns, HandleConfig(c)
        PROVE  EveryChunkHasOneFate'
    <2>1. AudioOf(rec') = AudioOf(rec)
      BY <1>4, <1>r, UpdatesKeepChunks DEF HandleConfig
    <2> QED
      BY <1>4, <1>t, <2>1, FatesKept DEF HandleConfig
  <1>5. ASSUME NEW c \in Conns, ConfigFails(c)
        PROVE  EveryChunkHasOneFate'
    <2>1. /\ [rec EXCEPT !.rateSet = TRUE] \in Recordings
          /\ AudioOf([rec EXCEPT !.rateSet = TRUE]) = AudioOf(rec)
      BY <1>5, <1>r, RecordingUpdates, UpdatesKeepChunks DEF ConfigFails
    <2>2. AudioOf(rec') = AudioOf(rec)
      BY <1>5, <2>1, LeaveKeepsAudio DEF ConfigFails
    <2> QED
      BY <1>5, <1>t, <2>2, FatesKept DEF ConfigFails
  <1>6. ASSUME NEW c \in Conns, Disconnect(c)
        PROVE  EveryChunkHasOneFate'
    <2>1. AudioOf(rec') = AudioOf(rec)
      BY <1>6, <1>t, LeaveKeepsAudio DEF Disconnect, TypeOK
    <2> QED
      BY <1>6, <1>t, <2>1, FatesKept DEF Disconnect
  <1>7. ASSUME DiscardRecording
        PROVE  EveryChunkHasOneFate'
    BY <1>7, <1>t, FatesKept DEF DiscardRecording
  <1>8. ASSUME NEW c \in Conns, StopStreaming(c)
        PROVE  EveryChunkHasOneFate'
    <2>1. AudioOf(rec') = AudioOf(rec)
      BY <1>8, <1>r, UpdatesKeepChunks DEF StopStreaming
    <2> QED
      BY <1>8, <1>t, <2>1, FatesKept DEF StopStreaming
  <1>9. ASSUME FinalizeAudio \/ FinalizeFails, sent' = sent
        PROVE  EveryChunkHasOneFate'
    BY <1>9, <1>t, FateOfFinalized, FatesKept DEF FinalizeFails
  <1>10. CASE GraceExpire
    <2>1. CASE UNCHANGED <<rec, tasks, fates>>
      BY <1>10, <1>t, <2>1, FatesKept DEF GraceExpire
    <2> QED
      BY <1>9, <1>10, <2>1 DEF GraceExpire
  <1>11. CASE Crash
    BY <1>11, <1>t, FatesKept DEF Crash
  <1>12. CASE UNCHANGED vars
    BY <1>12, <1>t, FatesKept DEF vars, fates
  <1> QED
    BY <1>1, <1>2, <1>3, <1>4, <1>5, <1>6, <1>7, <1>8, <1>9, <1>10, <1>11, <1>12
    DEF Next, ConnStep, Discard, Delete, Stop, FinishStop, Finalize

\* No chunk of received audio vanishes or is recorded twice, whatever the
\* interleaving of connections, timers, failures, crashes and deletions.
THEOREM NoAudioVanishes == Spec => []EveryChunkHasOneFate
  <1>1. Init => EveryChunkHasOneFate
    <2>1. Init => AudioOf(rec) = {} /\ InTasks = {} /\ 1..sent = {}
      BY DEF Init, AudioOf, InTasks
    <2> QED
      BY <2>1 DEF Init, EveryChunkHasOneFate
  <1> QED
    BY <1>1, SessionInvariant, FateStep, PTL DEF Spec

-----------------------------------------------------------------------------
(* The audio of a session as one sequence, and the lifecycle.               *)

LEMMA ConcatFacts ==
    ASSUME NEW s \in Seq(Chunks), NEW t \in Seq(Chunks), NEW n \in Chunks
    PROVE  /\ s \o t \in Seq(Chunks)
           /\ s \o <<>> = s /\ <<>> \o s = s
           /\ s \o Append(t, n) = Append(s \o t, n)
  BY ConcatProperties, ConcatEmptySeq, AppendIsConcat, ConcatAssociative, EmptySeq

\* Only a chunk that is added changes what a session holds, at its end.
LEMMA UpdatesKeepAudio ==
    ASSUME NEW r \in Recordings, NEW c \in Conns
    PROVE  /\ Audio(r) \in Seq(Chunks)
           /\ Audio(Attached(r, c)) = Audio(r)
           /\ Audio(Detached(r, c)) = Audio(r)
           /\ Audio(Suspended(r)) = Audio(r)
           /\ Audio(Resumed(r, c)) = Audio(r)
           /\ Audio([r EXCEPT !.rateSet = TRUE]) = Audio(r)
           /\ Audio(WavOpened(r)) = Audio(r)
           /\ \A n \in Chunks :
                 (r.wav => r.pending = <<>>) =>
                     /\ Audio(ChunkAdded(r, n)) = Append(Audio(r), n)
                     /\ ChunkAdded(r, n).state = r.state
  <1>1. r.written \in Seq(Chunks) /\ r.pending \in Seq(Chunks)
    BY DEF Recordings
  <1>2. Audio(r) \in Seq(Chunks)
    BY <1>1, ConcatProperties DEF Audio
  <1>3. /\ Attached(r, c).written = r.written /\ Attached(r, c).pending = r.pending
        /\ Suspended(r).written = r.written /\ Suspended(r).pending = r.pending
        /\ Resumed(r, c).written = r.written /\ Resumed(r, c).pending = r.pending
    BY DEF Attached, Suspended, Resumed, Recordings
  <1>4. Audio(Detached(r, c)) = Audio(r)
    BY DEF Detached, Audio, Recordings
  <1>5. Audio([r EXCEPT !.rateSet = TRUE]) = Audio(r)
    BY DEF Audio, Recordings
  <1>6. Audio(WavOpened(r)) = Audio(r)
    <2>1. /\ WavOpened(r).written = r.written \o r.pending
          /\ WavOpened(r).pending = <<>>
      BY DEF WavOpened, Recordings
    <2>2. (r.written \o r.pending) \o <<>> = r.written \o r.pending
      BY <1>1, ConcatProperties, ConcatEmptySeq
    <2> QED
      BY <2>1, <2>2 DEF Audio
  <1>7. ASSUME NEW n \in Chunks, r.wav => r.pending = <<>>
        PROVE  /\ Audio(ChunkAdded(r, n)) = Append(Audio(r), n)
               /\ ChunkAdded(r, n).state = r.state
    <2>1. CASE r.wav
      <3>1. /\ ChunkAdded(r, n).written = Append(r.written, n)
            /\ ChunkAdded(r, n).pending = <<>> /\ r.pending = <<>>
            /\ ChunkAdded(r, n).state = r.state
        BY <1>7, <2>1 DEF ChunkAdded, Recordings
      <3>2. Append(r.written, n) \in Seq(Chunks)
        BY <1>1, <1>7, AppendProperties
      <3> QED
        BY <1>1, <1>7, <3>1, <3>2, ConcatFacts DEF Audio
    <2>2. CASE ~r.wav
      <3>1. /\ ChunkAdded(r, n).pending = Append(r.pending, n)
            /\ ChunkAdded(r, n).written = r.written
            /\ ChunkAdded(r, n).state = r.state
        BY <2>2 DEF ChunkAdded, Recordings
      <3>2. r.written \o Append(r.pending, n) = Append(r.written \o r.pending, n)
        <4> DEFINE w == r.written
                   q == r.pending
        <4>1. w \in Seq(Chunks) /\ q \in Seq(Chunks)
          BY <1>1
        <4> HIDE DEF w, q
        <4>2. w \o Append(q, n) = Append(w \o q, n)
          BY <1>7, <4>1, ConcatFacts
        <4> QED
          BY <4>2 DEF w, q
      <3> QED
        BY <3>1, <3>2 DEF Audio
    <2> QED
      BY <2>1, <2>2
  <1> QED
    BY <1>2, <1>3, <1>4, <1>5, <1>6, <1>7 DEF Audio

\* What a step may do to the session of the recording id and to its tasks.
Continues ==
    /\ Live /\ rec' # NoRec
    /\ Audio(rec') = Audio(rec)
    /\ tasks' = tasks

Grows ==
    /\ Live /\ rec' # NoRec
    /\ rec'.state = rec.state
    /\ sent + 1 \in Chunks /\ sent' = sent + 1
    /\ Audio(rec') = Append(Audio(rec), sent + 1)
    /\ \E c \in Conns : pc[c] = "loop"
    /\ tasks' = tasks

Starts ==
    /\ ~Live /\ rec' # NoRec
    /\ rec'.state = "active" /\ Audio(rec') = <<>>
    /\ tasks' = tasks

Ends ==
    /\ Live /\ rec' = NoRec
    /\ \/ tasks' = tasks
       \/ tasks' = IF Audio(rec) = <<>> THEN tasks ELSE Append(tasks, Audio(rec))

Rests == ~Live /\ rec' = NoRec /\ tasks' = tasks

SessionMoves == Continues \/ Grows \/ Starts \/ Ends \/ Rests

\* Leaving the loop keeps the audio.
LEMMA LeaveContinues ==
    ASSUME NEW r \in Recordings \cup {NoRec}, NEW c \in Conns, Leave(r, c),
           (r = NoRec) <=> (rec = NoRec),
           r # NoRec => Audio(r) = Audio(rec),
           tasks' = tasks
    PROVE  Continues \/ Rests
  <1>1. CASE r = NoRec
    BY <1>1 DEF Leave, Rests, Live
  <1>2. CASE r # NoRec
    <2>1. /\ Detached(r, c) \in Recordings
          /\ Audio(Detached(r, c)) = Audio(r)
      BY <1>2, RecordingUpdates, UpdatesKeepAudio
    <2>2. /\ Suspended(Detached(r, c)) \in Recordings
          /\ Audio(Suspended(Detached(r, c))) = Audio(r)
      BY <2>1, RecordingUpdates, UpdatesKeepAudio
    <2> QED
      BY <1>2, <2>1, <2>2 DEF Leave, Continues, Live
  <1> QED
    BY <1>1, <1>2

\* stop_recording leaves the whole audio of the session.
LEMMA FinalizeMoves ==
    ASSUME SessionInv, FinalizeAudio \/ FinalizeFails
    PROVE  Ends \/ Rests
  <1>1. CASE FinalizeFails
    BY <1>1 DEF FinalizeFails, Ends
  <1>2. CASE FinalizeAudio /\ ~Live
    BY <1>2 DEF FinalizeAudio, CreatesTask, Rests
  <1>3. CASE FinalizeAudio /\ Live
    <2>1. rec \in Recordings
      BY <1>3 DEF SessionInv, TypeOK, Live
    <2>2. rec.written \in Seq(Chunks) /\ rec.pending \in Seq(Chunks)
      BY <2>1 DEF Recordings
    <2>3. Audio(rec) = FinalAudio(rec)
      BY <1>3, <2>2, ConcatEmptySeq DEF SessionInv, AudioInOnePlace, Audio, FinalAudio
    <2> QED
      BY <1>3, <2>3 DEF FinalizeAudio, CreatesTask, Ends
  <1> QED
    BY <1>1, <1>2, <1>3

LEMMA EveryStepMoves == SessionInv /\ [Next]_vars => SessionMoves
  <1> SUFFICES ASSUME SessionInv, [Next]_vars
               PROVE  SessionMoves
    OBVIOUS
  <1>t. TypeOK
    BY DEF SessionInv
  <1>r. Live => rec \in Recordings
    BY <1>t DEF TypeOK, Live
  <1>1. ASSUME NEW c \in Conns, BeginSession(c)
        PROVE  SessionMoves
    <2>1. tasks' = tasks
      BY <1>1 DEF BeginSession
    <2>2. CASE ResumeSession(c)
      <3>1. Live /\ rec \in Recordings /\ rec' = Resumed(rec, c)
        BY <1>r, <2>2 DEF ResumeSession
      <3>2. rec' \in Recordings /\ Audio(rec') = Audio(rec)
        BY <3>1, RecordingUpdates, UpdatesKeepAudio
      <3> QED
        BY <2>1, <3>1, <3>2 DEF SessionMoves, Continues
    <2>3. CASE AdoptSession(c)
      <3>1. Live /\ rec \in Recordings /\ rec' = Attached(rec, c)
        BY <1>r, <2>3 DEF AdoptSession
      <3>2. rec' \in Recordings /\ Audio(rec') = Audio(rec)
        BY <3>1, RecordingUpdates, UpdatesKeepAudio
      <3> QED
        BY <2>1, <3>1, <3>2 DEF SessionMoves, Continues
    <2>4. CASE StartSession(c)
      <3>1. ~Live /\ rec' = Attached(FreshRecording, c)
        BY <2>4 DEF StartSession
      <3>2. rec' \in Recordings /\ Audio(rec') = Audio(FreshRecording)
        BY <3>1, FreshType, RecordingUpdates, UpdatesKeepAudio
      <3>3. Audio(FreshRecording) = <<>> /\ rec'.state = "active"
        BY <3>1, ConcatEmptySeq, EmptySeq DEF Audio, FreshRecording, Attached
      <3> QED
        BY <2>1, <3>1, <3>2, <3>3 DEF SessionMoves, Starts
    <2>5. CASE RejectBusy(c)
      BY <2>1, <2>5 DEF RejectBusy, sessionVars, SessionMoves, Continues, Live
    <2> QED
      BY <1>1, <2>2, <2>3, <2>4, <2>5 DEF BeginSession
  <1>2. ASSUME NEW c \in Conns, HandleAudioChunk(c)
        PROVE  SessionMoves
    <2>1. sent + 1 \in Chunks /\ pc[c] = "loop" /\ tasks' = tasks
      BY <1>2, <1>t DEF HandleAudioChunk, TypeOK, Chunks
    <2>2. CASE Live
      <3>1. rec \in Recordings /\ rec' = ChunkAdded(rec, sent + 1)
        BY <1>2, <1>r, <2>2 DEF HandleAudioChunk
      <3>2. rec.wav => rec.pending = <<>>
        BY <2>2 DEF SessionInv, AudioInOnePlace
      <3>3. /\ rec' \in Recordings /\ rec'.state = rec.state
            /\ Audio(rec') = Append(Audio(rec), sent + 1)
        BY <1>2, <2>1, <3>1, <3>2, RecordingUpdates, UpdatesKeepAudio
      <3> QED
        BY <1>2, <2>1, <2>2, <3>3 DEF HandleAudioChunk, SessionMoves, Grows
    <2>3. CASE ~Live
      BY <1>2, <2>1, <2>3 DEF HandleAudioChunk, SessionMoves, Rests, Live
    <2> QED
      BY <2>2, <2>3
  <1>3. ASSUME NEW c \in Conns, AudioChunkFails(c)
        PROVE  SessionMoves
    <2>1. rec \in Recordings \cup {NoRec} /\ Leave(rec, c) /\ tasks' = tasks
      BY <1>3, <1>t DEF AudioChunkFails, TypeOK
    <2> QED
      BY <2>1, LeaveContinues DEF SessionMoves
  <1>4. ASSUME NEW c \in Conns, HandleConfig(c)
        PROVE  SessionMoves
    <2>1. rec \in Recordings /\ rec' = WavOpened(rec) /\ Live /\ tasks' = tasks
      BY <1>4, <1>r DEF HandleConfig
    <2>2. rec' \in Recordings /\ Audio(rec') = Audio(rec)
      BY <1>4, <2>1, RecordingUpdates, UpdatesKeepAudio
    <2> QED
      BY <2>1, <2>2 DEF SessionMoves, Continues
  <1>5. ASSUME NEW c \in Conns, ConfigFails(c)
        PROVE  SessionMoves
    <2> DEFINE r == [rec EXCEPT !.rateSet = TRUE]
    <2>1. r \in Recordings /\ Audio(r) = Audio(rec) /\ Live
      BY <1>5, <1>r, RecordingUpdates, UpdatesKeepAudio DEF ConfigFails
    <2>2. Leave(r, c) /\ tasks' = tasks
      BY <1>5 DEF ConfigFails
    <2> HIDE DEF r
    <2> QED
      BY <1>5, <2>1, <2>2, LeaveContinues DEF SessionMoves, Live
  <1>6. ASSUME NEW c \in Conns, Disconnect(c)
        PROVE  SessionMoves
    <2>1. rec \in Recordings \cup {NoRec} /\ Leave(rec, c) /\ tasks' = tasks
      BY <1>6, <1>t DEF Disconnect, TypeOK
    <2> QED
      BY <2>1, LeaveContinues DEF SessionMoves
  <1>7. ASSUME DiscardRecording
        PROVE  SessionMoves
    BY <1>7 DEF DiscardRecording, SessionMoves, Ends, Rests
  <1>8. ASSUME NEW c \in Conns, StopStreaming(c)
        PROVE  SessionMoves
    <2>1. CASE Live
      <3>1. rec \in Recordings /\ rec' = Detached(rec, c) /\ tasks' = tasks
        BY <1>8, <1>r, <2>1 DEF StopStreaming
      <3>2. rec' \in Recordings /\ Audio(rec') = Audio(rec)
        BY <1>8, <3>1, RecordingUpdates, UpdatesKeepAudio
      <3> QED
        BY <2>1, <3>1, <3>2 DEF SessionMoves, Continues
    <2>2. CASE ~Live
      BY <1>8, <2>2 DEF StopStreaming, SessionMoves, Rests, Live
    <2> QED
      BY <2>1, <2>2
  <1>9. ASSUME FinalizeAudio \/ FinalizeFails
        PROVE  SessionMoves
    BY <1>9, FinalizeMoves DEF SessionMoves
  <1>10. ASSUME rec' = rec, tasks' = tasks
         PROVE  SessionMoves
    BY <1>10 DEF SessionMoves, Continues, Rests, Live
  <1>11. CASE GraceExpire
    BY <1>9, <1>10, <1>11 DEF GraceExpire
  <1>12. CASE Crash
    BY <1>12 DEF Crash, SessionMoves, Ends, Rests
  <1>13. CASE UNCHANGED vars
    BY <1>10, <1>13 DEF vars
  <1> QED
    BY <1>1, <1>2, <1>3, <1>4, <1>5, <1>6, <1>7, <1>8, <1>9, <1>11, <1>12, <1>13
    DEF Next, ConnStep, Discard, Delete, Stop, FinishStop, Finalize

\* What was received later comes later.
Rising(s, limit) ==
    /\ \A m, n \in DOMAIN s : m < n => s[m] < s[n]
    /\ \A n \in DOMAIN s : s[n] <= limit

\* The audio of a session and of each task is in the order it was received.
ChunksInOrder ==
    /\ Live => Rising(Audio(rec), sent)
    /\ \A i \in DOMAIN tasks : Rising(tasks[i], sent)

LEMMA RisingGrows ==
    ASSUME NEW s \in Seq(Chunks), NEW limit \in Nat, NEW more \in Nat, limit <= more,
           Rising(s, limit)
    PROVE  /\ Rising(s, more)
           /\ limit + 1 \in Chunks => Rising(Append(s, limit + 1), limit + 1)
  <1>1. \A n \in DOMAIN s : s[n] \in Nat
    BY DEF Chunks
  <1> QED
    BY <1>1 DEF Rising

\* Whatever the step, the order is kept.
LEMMA ChunksInOrderStep ==
    ASSUME SessionInv, [Next]_vars, ChunksInOrder, sent' \in {sent, sent + 1}
    PROVE  ChunksInOrder'
  <1>1. sent \in Nat /\ sent' \in Nat /\ sent <= sent'
    BY DEF SessionInv, TypeOK
  <1>2. \A i \in DOMAIN tasks : tasks[i] \in Seq(Chunks) /\ Rising(tasks[i], sent')
    BY <1>1, RisingGrows DEF SessionInv, TypeOK, ChunksInOrder
  <1>3. Live => Audio(rec) \in Seq(Chunks) /\ Rising(Audio(rec), sent')
    <2>1. Live => Audio(rec) \in Seq(Chunks)
      BY ConcatProperties DEF SessionInv, TypeOK, Live, Audio, Recordings
    <2> QED
      BY <1>1, <2>1, RisingGrows DEF ChunksInOrder
  <1>4. CASE Continues \/ Rests
    BY <1>2, <1>3, <1>4 DEF Continues, Rests, ChunksInOrder, Live
  <1>5. CASE Grows
    BY <1>1, <1>2, <1>3, <1>5, RisingGrows DEF Grows, ChunksInOrder, Live
  <1>6. CASE Starts
    BY <1>2, <1>6 DEF Starts, ChunksInOrder, Live, Rising
  <1>7. CASE Ends
    <2>1. CASE tasks' = tasks
      BY <1>2, <1>7, <2>1 DEF Ends, ChunksInOrder, Live
    <2>2. CASE tasks' = Append(tasks, Audio(rec))
      <3> DEFINE a == Audio(rec)
      <3>1. a \in Seq(Chunks) /\ Rising(a, sent') /\ tasks \in Seq(Seq(Chunks))
        BY <1>3, <1>7 DEF Ends, SessionInv, TypeOK
      <3>2. tasks' = Append(tasks, a) /\ ~Live'
        BY <1>7, <2>2 DEF Ends, Live
      <3> HIDE DEF a
      <3>3. \A i \in DOMAIN tasks' : tasks'[i] = a \/ (i \in DOMAIN tasks /\ tasks'[i] = tasks[i])
        BY <3>1, <3>2
      <3> QED
        BY <1>2, <3>1, <3>2, <3>3 DEF ChunksInOrder
    <2> QED
      BY <1>7, <2>1, <2>2 DEF Ends
  <1> QED
    BY <1>4, <1>5, <1>6, <1>7, EveryStepMoves DEF SessionMoves

\* Reconnecting continues the file: whatever reconnects, fails or is retried,
\* the audio of a session is only appended to.
THEOREM WavIsAppendOnly == Spec => WavOnlyGrows
  <1>1. ASSUME SessionInv, [Next]_vars, Live, rec' # NoRec
        PROVE  /\ Len(Audio(rec')) >= Len(Audio(rec))
               /\ SubSeq(Audio(rec'), 1, Len(Audio(rec))) = Audio(rec)
    <2> DEFINE a == Audio(rec)
    <2>1. a \in Seq(Chunks)
      <3>1. rec \in Recordings
        BY <1>1 DEF SessionInv, TypeOK, Live
      <3> QED
        BY <3>1, ConcatProperties DEF Audio, Recordings
    <2>2. Continues \/ Grows
      BY <1>1, EveryStepMoves DEF SessionMoves, Starts, Ends, Rests
    <2>3. Audio(rec') = a \/ \E n \in Chunks : Audio(rec') = Append(a, n)
      BY <2>2 DEF Continues, Grows
    <2> HIDE DEF a
    <2>4. Len(a) >= Len(a) /\ SubSeq(a, 1, Len(a)) = a
      BY <2>1
    <2>5. ASSUME NEW n \in Chunks
          PROVE  /\ Len(Append(a, n)) >= Len(a)
                 /\ SubSeq(Append(a, n), 1, Len(a)) = a
      BY <2>1, <2>5
    <2> QED
      BY <2>3, <2>4, <2>5 DEF a
  <1>2. SessionInv /\ [Next]_vars =>
          [Live /\ rec' # NoRec =>
             /\ Len(Audio(rec')) >= Len(Audio(rec))
             /\ SubSeq(Audio(rec'), 1, Len(Audio(rec))) = Audio(rec)]_vars
    BY <1>1
  <1> QED
    BY <1>2, SessionInvariant, PTL DEF Spec, WavOnlyGrows

\* Each step of the session is a step of the lifecycle, or leaves it alone.
LEMMA LifecycleStep ==
    ASSUME SessionInv, [Next]_vars,
           \/ StreamingASR \/ "delete" \in Faults
           \/ OwnerInv
    PROVE  [Lifecycle!Next]_(Lifecycle!vars)
  <1>1. /\ Live => rec \in Recordings
        /\ rec' # NoRec => rec' \in Recordings
    BY TypeStep DEF SessionInv, TypeOK, Live
  <1>2. CASE Continues
    <2>1. rec.state \in {"active", "suspended"} /\ rec'.state \in {"active", "suspended"}
      BY <1>1, <1>2 DEF Continues, Recordings
    <2> QED
      BY <1>2, <2>1 DEF Continues, Live, Lifecycle!Next, Lifecycle!vars,
         Lifecycle!Suspend, Lifecycle!Resume
  <1>3. CASE Grows
    <2>1. rec.state \in {"active", "suspended"}
      BY <1>1, <1>3 DEF Grows, Recordings
    <2>2. OwnerInv => rec.state = "active"
      BY <1>3 DEF Grows, OwnerInv, LoopOwnsSession
    <2>3. Lifecycle!Grow
      BY <1>3, <2>1, <2>2 DEF Grows, Live, Lifecycle!Grow
    <2> QED
      BY <2>3 DEF Lifecycle!Next
  <1>4. CASE Starts
    BY <1>4 DEF Starts, Live, Lifecycle!Next, Lifecycle!Start
  <1>5. CASE Ends
    <2>1. rec.state # "none"
      BY <1>1, <1>5 DEF Ends, Recordings
    <2> QED
      BY <1>5, <2>1 DEF Ends, Live, Lifecycle!Next, Lifecycle!Finalize, Lifecycle!Vanish
  <1>6. CASE Rests
    BY <1>6 DEF Rests, Live, Lifecycle!vars
  <1> QED
    BY <1>2, <1>3, <1>4, <1>5, <1>6, EveryStepMoves DEF SessionMoves

\* The session implements the lifecycle diagram of record_session.py: it is
\* one wav that outlives suspensions and ends once, in a task that holds all
\* of its audio or deleted.
THEOREM RefinesLifecycle == Spec => ImplementsLifecycle
  <1>1. Init => Lifecycle!Init
    BY DEF Init, Live, Lifecycle!Init
  <1>2. CASE StreamingASR \/ "delete" \in Faults
    <2>1. SessionInv /\ [Next]_vars => [Lifecycle!Next]_(Lifecycle!vars)
      BY <1>2, LifecycleStep
    <2> QED
      BY <1>1, <2>1, SessionInvariant, PTL DEF Spec, ImplementsLifecycle, Lifecycle!Spec
  <1>3. CASE ~StreamingASR /\ "delete" \notin Faults
    <2>1. SessionInv /\ OwnerInv /\ [Next]_vars => [Lifecycle!Next]_(Lifecycle!vars)
      BY LifecycleStep
    <2>2. Spec => []OwnerInv
      BY <1>3, OwnerInvariant
    <2> QED
      BY <1>1, <2>1, <2>2, SessionInvariant, PTL
      DEF Spec, ImplementsLifecycle, Lifecycle!Spec
  <1> QED
    BY <1>2, <1>3
=============================================================================

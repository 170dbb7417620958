------------------------- MODULE StreamingAsr_proofs -------------------------
(***************************************************************************)
(* Two properties of one live-text connection, for any number of chunks    *)
(* and of changes of the settings, and any resampling.                     *)
(*                                                                         *)
(* CancelIsFinal: a cancelled connection gets no session any more.  The    *)
(* flag stops the loader at one place only, so past that place it has not  *)
(* been cancelled (LoaderOK).  And what it installs is a session, whatever *)
(* it replayed: the replay is a recursive function over the buffer, which  *)
(* is shown to be defined, and to yield sessions, by looking at the least  *)
(* number of chunks for which it would not.                                *)
(*                                                                         *)
(* TextIsTheRecording: the model hears the recording in order.  Whole says *)
(* what a session fed with the chunks up to c is made of: what it has      *)
(* heard, what is resampled and what is raw are adjoining stretches of the *)
(* recording.  BufferFollows says that the audio held back for a load is   *)
(* what came last.  That a replay keeps Whole is the same argument by the  *)
(* least number of chunks.  The theorem is for resampling whose seams fit  *)
(* (SeamsFit), as they do at 16, 32 and 48 kHz.                            *)
(***************************************************************************)
EXTENDS StreamingAsr, SequenceTheorems, WellFoundedInduction, TLAPS

USE NoSessionAssumption DEF NoSessionAssumption

\* The constants, each with its type.
LEMMA Parameters ==
    /\ MaxChunks \in Nat \ {0} /\ ChunkLen \in Nat \ {0} /\ Ratio \in Nat \ {0}
    /\ Stride \in Nat \ {0} /\ Overlap \in Nat \ {0} /\ BufferMax \in Nat \ {0}
    /\ MaxPosts \in Nat /\ SlowSend \in BOOLEAN
  BY StreamingAsrAssumption DEF StreamingAsrAssumption

USE Parameters

\* What is left of a whole number of parts.
LEMMA WholeParts ==
    ASSUME NEW n \in Nat, NEW k \in Nat \ {0}
    PROVE  /\ (n \div k) * k \in 0..n
           /\ n \div k \in Nat
  OBVIOUS

\* Multiplication keeps the order.
LEMMA Products ==
    ASSUME NEW a \in Nat, NEW b \in Nat, NEW k \in Nat, a <= b
    PROVE  a * k <= b * k /\ a * k \in Nat
  OBVIOUS

-----------------------------------------------------------------------------
(* The operators on sessions.                                              *)

\* A chunk is a piece of the recording (add_pcm_chunk).
LEMMA SamplesOfType ==
    ASSUME NEW c \in 1..MaxChunks
    PROVE  SamplesOf(c) \in Seq(Samples)
<1>1. ASSUME NEW i \in 1..ChunkLen PROVE (c - 1) * ChunkLen + i \in Samples
  <2>1. c * ChunkLen <= MaxChunks * ChunkLen /\ (c - 1) * ChunkLen \in Nat
    BY Products
  <2>2. (c - 1) * ChunkLen + ChunkLen = c * ChunkLen
    OBVIOUS
  <2> QED BY <2>1, <2>2 DEF Samples
<1> QED BY <1>1 DEF SamplesOf

\* The rest of a sequence, and its length.
LEMMA FromType ==
    ASSUME NEW S, NEW s \in Seq(S), NEW n \in Nat
    PROVE  From(s, n) \in Seq(S) /\ Len(From(s, n)) = (IF n <= Len(s) THEN Len(s) - n ELSE 0)
<1>1. CASE n <= Len(s)
  BY <1>1 DEF From
<1>2. CASE ~(n <= Len(s))
  <2>1. From(s, n) = <<>>
    BY <1>2 DEF From
  <2> QED BY <1>2, <2>1
<1> QED BY <1>1, <1>2

\* Resampling picks positions that are there (librosa.resample).
LEMMA ResampledType ==
    ASSUME NEW s \in Seq(Samples)
    PROVE  Resampled(s) \in Seq(Samples)
<1> DEFINE n == (Len(s) + Ratio - 1) \div Ratio
<1>1. n \in Nat /\ n * Ratio <= Len(s) + Ratio - 1
  <2>1. Len(s) + Ratio - 1 \in Nat
    OBVIOUS
  <2> QED BY <2>1, WholeParts
<1>4. Resampled(s) = [i \in 1..n |-> s[(i - 1) * Ratio + 1]]
  BY DEF Resampled
<1> HIDE DEF n
<1>2. ASSUME NEW i \in 1..n PROVE (i - 1) * Ratio + 1 \in 1..Len(s)
  <2>1. i * Ratio <= n * Ratio /\ (i - 1) * Ratio \in Nat
    <3>1. i \in Nat /\ i - 1 \in Nat /\ i <= n /\ Ratio \in Nat
      BY <1>1
    <3> QED BY <1>1, <3>1, Products
  <2>2. (i - 1) * Ratio + Ratio = i * Ratio
    BY <1>1
  <2> DEFINE a == (i - 1) * Ratio
  <2>3. a \in Nat /\ a + Ratio <= Len(s) + Ratio - 1
    <3>1. i * Ratio \in Nat /\ n * Ratio \in Nat
      BY <1>1, Products
    <3> QED BY <1>1, <2>1, <2>2, <3>1
  <2> HIDE DEF a
  <2>4. a + 1 \in 1..Len(s)
    BY <2>3
  <2> QED BY <2>4 DEF a
<1>3. \A i \in 1..n : s[(i - 1) * Ratio + 1] \in Samples
  BY <1>2
<1> QED BY <1>1, <1>3, <1>4

\* A session that was fed a chunk is a session (add_pcm_chunk, _process_buffer).
LEMMA AddChunkType ==
    ASSUME NEW s \in Sessions, NEW c \in 1..MaxChunks
    PROVE  AddChunk(s, c) \in Sessions
<1> DEFINE raw  == s.raw \o SamplesOf(c)
           old  == IF s.processed > Overlap THEN s.processed - Overlap ELSE 0
           out  == Resampled(From(raw, old))
           trim == IF Len(raw) > Overlap THEN Len(raw) - Overlap ELSE 0
           cut  == SeamCut(s, out)
           left == s.resampled \o From(out, cut)
           t    == [s EXCEPT !.raw = From(raw, trim), !.processed = Len(raw) - trim]
<1>1. raw \in Seq(Samples)
  BY SamplesOfType DEF Sessions
<1> HIDE DEF raw
<1>2. old \in Nat /\ trim \in Nat /\ Len(raw) - trim \in Nat
  BY <1>1 DEF Sessions
<1> HIDE DEF old, trim
<1>3. out \in Seq(Samples) /\ From(raw, trim) \in Seq(Samples)
  BY <1>1, <1>2, FromType, ResampledType
<1> HIDE DEF out
<1>4. cut \in Nat
  BY WholeParts DEF SeamCut
<1> HIDE DEF cut
<1>5. left \in Seq(Samples)
  BY <1>3, <1>4, FromType DEF Sessions
<1> HIDE DEF left
<1>6. t \in Sessions
  BY <1>2, <1>3 DEF Sessions
<1> HIDE DEF t
<1>7. Processed(t, left) \in Sessions
  <2> DEFINE n == (Len(left) \div Stride) * Stride
  <2>1. n \in 0..Len(left)
    BY <1>5, WholeParts
  <2> HIDE DEF n
  <2>2. From(left, n) \in Seq(Samples) /\ SubSeq(left, 1, n) \in Seq(Samples)
    BY <1>5, <2>1, FromType, SubSeqProperties
  <2>3. t.heard \o SubSeq(left, 1, n) \in Seq(Samples)
    BY <1>6, <2>2 DEF Sessions
  <2> QED BY <1>6, <2>2, <2>3 DEF Processed, Sessions, n
<1>8. [s EXCEPT !.raw = raw] \in Sessions
  BY <1>1 DEF Sessions
<1>9. AddChunk(s, c) \in {[s EXCEPT !.raw = raw], Processed(t, left)}
  BY DEF AddChunk, raw, old, out, trim, cut, left, t
<1> QED BY <1>7, <1>8, <1>9

-----------------------------------------------------------------------------
(* A replay, by its number of chunks.                                      *)

\* A set of numbers has a least one.
LEMMA Smallest ==
    ASSUME NEW S, S \subseteq Nat, S # {}
    PROVE  \E x \in S : \A y \in S : x <= y
<1> DEFINE R == {ss \in Nat \X Nat : ss[1] < ss[2]}
<1>1. IsWellFoundedOn(R, Nat)
  BY NatLessThanWellFounded DEF OpToRel
<1> HIDE DEF R
<1>2. \E x \in S : \A y \in S : <<y, x>> \notin R
  BY <1>1, WFMin
<1>3. \A x, y \in Nat : <<y, x>> \notin R => x <= y
  BY DEF R
<1> QED BY <1>2, <1>3

\* The sessions after the first k chunks.
Feeds(g, s, chunks, k) ==
    /\ g \in [0..k -> Sessions] /\ g[0] = s
    /\ \A n \in 1..k : g[n] = AddChunk(g[n - 1], chunks[n])

\* They exist, for every number of chunks.
LEMMA FeedsExist ==
    ASSUME NEW s \in Sessions, NEW chunks \in Seq(1..MaxChunks)
    PROVE  \E g : Feeds(g, s, chunks, Len(chunks))
<1> DEFINE Never == {k \in 0..Len(chunks) : ~\E g : Feeds(g, s, chunks, k)}
<1>1. SUFFICES ASSUME Never # {} PROVE FALSE
  <2>1. Len(chunks) \in 0..Len(chunks)
    OBVIOUS
  <2> QED BY <2>1
<1>2. PICK k \in Never : \A m \in Never : k <= m
  <2>1. Never \subseteq Nat
    OBVIOUS
  <2> QED BY <1>1, <2>1, Smallest
<1>3. CASE k = 0
  <2>1. Feeds([n \in 0..0 |-> s], s, chunks, 0)
    BY DEF Feeds
  <2> QED BY <1>2, <1>3, <2>1
<1>4. CASE k # 0
  <2>1. k - 1 \in 0..Len(chunks) /\ k \in 1..Len(chunks) /\ k - 1 \notin Never
    BY <1>2, <1>4
  <2>2. PICK g : Feeds(g, s, chunks, k - 1)
    BY <2>1
  <2> DEFINE next == AddChunk(g[k - 1], chunks[k])
             h == [n \in 0..k |-> IF n < k THEN g[n] ELSE next]
  <2>3. g \in [0..k - 1 -> Sessions] /\ chunks[k] \in 1..MaxChunks
    BY <2>1, <2>2 DEF Feeds
  <2>4. next \in Sessions
    BY <2>1, <2>3, AddChunkType
  <2> HIDE DEF next
  <2>5. h \in [0..k -> Sessions] /\ h[0] = s
    BY <2>1, <2>2, <2>3, <2>4 DEF Feeds
  <2>6. ASSUME NEW n \in 1..k PROVE h[n] = AddChunk(h[n - 1], chunks[n])
    <3>1. h[n - 1] = g[n - 1]
      BY <2>1, <2>6
    <3>2. CASE n = k
      BY <2>1, <3>1, <3>2 DEF next
    <3>3. CASE n # k
      <4>1. n \in 1..k - 1 /\ h[n] = g[n]
        BY <2>1, <2>6, <3>3
      <4> QED BY <2>2, <3>1, <4>1 DEF Feeds
    <3> QED BY <3>2, <3>3
  <2> HIDE DEF h
  <2>7. Feeds(h, s, chunks, k)
    BY <2>5, <2>6 DEF Feeds
  <2> QED BY <1>2, <2>7
<1> QED BY <1>3, <1>4

\* So the recursive definition of the replay defines something.
LEMMA FedIsDefined ==
    ASSUME NEW s \in Sessions, NEW chunks \in Seq(1..MaxChunks)
    PROVE  Fed(s, chunks) =
             [n \in 0..Len(chunks) |->
                IF n = 0 THEN s ELSE AddChunk(Fed(s, chunks)[n - 1], chunks[n])]
<1> DEFINE IsFed(f) ==
             f = [n \in 0..Len(chunks) |->
                    IF n = 0 THEN s ELSE AddChunk(f[n - 1], chunks[n])]
<1>1. PICK g : Feeds(g, s, chunks, Len(chunks))
  BY FeedsExist
<1>2. IsFed(g)
  <2>1. ASSUME NEW n \in 0..Len(chunks)
        PROVE  g[n] = IF n = 0 THEN s ELSE AddChunk(g[n - 1], chunks[n])
    BY <1>1, <2>1 DEF Feeds
  <2> QED BY <1>1, <2>1 DEF Feeds
<1>3. Fed(s, chunks) = CHOOSE f : IsFed(f)
  BY DEF Fed
<1> HIDE DEF IsFed
<1>4. IsFed(CHOOSE f : IsFed(f))
  BY <1>2, Zenon
<1>5. IsFed(Fed(s, chunks))
  BY <1>3, <1>4
<1> QED BY <1>5 DEF IsFed

\* A session that was replayed to is a session.
LEMMA FedType ==
    ASSUME NEW s \in Sessions, NEW chunks \in Seq(1..MaxChunks), NEW n \in 0..Len(chunks)
    PROVE  Fed(s, chunks)[n] \in Sessions
<1> DEFINE fed == Fed(s, chunks)
           Never == {k \in 0..Len(chunks) : fed[k] \notin Sessions}
<1>1. \A k \in 0..Len(chunks) : fed[k] = IF k = 0 THEN s ELSE AddChunk(fed[k - 1], chunks[k])
  BY FedIsDefined
<1> HIDE DEF fed
<1>2. SUFFICES ASSUME Never # {} PROVE FALSE
  BY DEF fed
<1>3. PICK k \in Never : \A m \in Never : k <= m
  <2>1. Never \subseteq Nat
    OBVIOUS
  <2> QED BY <1>2, <2>1, Smallest
<1>4. k # 0
  BY <1>1, <1>3
<1>5. k - 1 \in 0..Len(chunks) /\ k - 1 \notin Never /\ chunks[k] \in 1..MaxChunks
  BY <1>3, <1>4
<1>6. fed[k - 1] \in Sessions /\ fed[k] = AddChunk(fed[k - 1], chunks[k])
  BY <1>1, <1>3, <1>4, <1>5
<1> QED BY <1>3, <1>5, <1>6, AddChunkType
-----------------------------------------------------------------------------
(* The invariant.                                                          *)

\* What a place of the loader says of the rest: it has an instance once it has
\* started, it knows whether the new session has a model, it replays into the
\* session that is there, and a cancelled one gets no further than the flag.
LoaderOK ==
    /\ loader \in [at : Running \cup {"ended"}, inst : Instances \cup {0},
                   todo : Seq(BOOLEAN) \cup Seq(1..MaxChunks)]
    /\ loader.at \in Running \ {"start"} => loader.inst \in Instances
    /\ loader.at = "created" => \E b \in BOOLEAN : loader.todo = <<b>>
    /\ loader.at = "replay" => loader.todo \in Seq(1..MaxChunks) /\ ready
    /\ cancelled => loader.at \in {"ended", "start", "loading", "loaded"}

\* What a thread finalizes is a session.
FinalOK == place = "finalizing" => final # NoSession

StreamInv == CancelIsFinal /\ LoaderOK /\ FinalOK

\* create_session.
LEMMA NewSessionType ==
    ASSUME NEW b \in BOOLEAN
    PROVE  NewSession(b) \in Sessions
BY DEF NewSession, Sessions

\* finalize.
LEMMA FinalizedType ==
    ASSUME NEW s \in Sessions
    PROVE  Finalized(s) \in Sessions
<1> DEFINE heard == IF s.model THEN s.heard \o s.resampled ELSE s.heard
<1>1. heard \in Seq(Samples) /\ <<>> \in Seq(Samples)
  BY DEF Sessions
<1>2. Finalized(s) = [s EXCEPT !.resampled = <<>>, !.heard = heard]
  BY DEF Finalized
<1> HIDE DEF heard
<1> QED BY <1>1, <1>2 DEF Sessions

\* The buffer stays within its limit (handle_audio_chunk).
LEMMA CappedType ==
    ASSUME NEW s \in Seq(1..MaxChunks), NEW c \in 1..MaxChunks
    PROVE  Capped(Append(s, c)) \in Seq(1..MaxChunks) /\ Len(Capped(Append(s, c))) <= BufferMax
<1> DEFINE t == Append(s, c)
           n == IF Len(t) > BufferMax THEN Len(t) - BufferMax ELSE 0
<1>1. t \in Seq(1..MaxChunks) /\ Len(t) \in Nat
  OBVIOUS
<1> HIDE DEF t
<1>2. n \in Nat /\ n <= Len(t) /\ Len(t) - n <= BufferMax
  BY <1>1
<1> HIDE DEF n
<1>3. From(t, n) \in Seq(1..MaxChunks) /\ Len(From(t, n)) = Len(t) - n
  BY <1>1, <1>2, FromType
<1> QED BY <1>2, <1>3 DEF Capped, t, n

\* What a piece of a replay leaves: a session, and a loader that has ended or
\* has the rest to feed.
LEMMA ReplayKeeps ==
    ASSUME LoaderOK, NEW s \in Sessions, NEW chunks \in Seq(1..MaxChunks),
           NEW n \in 0..Len(chunks), Replay(s, chunks, n)
    PROVE  /\ session' \in Sessions
           /\ \/ loader' = Idle
              \/ /\ loader' = [loader EXCEPT !.at = "replay", !.todo = From(chunks, n)]
                 /\ From(chunks, n) \in Seq(1..MaxChunks)
<1>1. session' \in Sessions
  BY FedType DEF Replay
<1>2. From(chunks, n) \in Seq(1..MaxChunks)
  BY FromType
<1> QED BY <1>1, <1>2 DEF Replay

\* A loader that has ended.
LEMMA IdleIsOK ==
    /\ Idle \in [at : Running \cup {"ended"}, inst : Instances \cup {0},
                 todo : Seq(BOOLEAN) \cup Seq(1..MaxChunks)]
    /\ Idle.at = "ended"
BY DEF Idle
-----------------------------------------------------------------------------
(* Every step keeps it.                                                    *)

\* What cancel_streaming leaves.
LEMMA CancelKeeps ==
    ASSUME StreamInv, CancelStreaming
    PROVE  /\ loader' = Idle /\ threads' \subseteq Instances
           /\ session' = NoSession /\ final' \in Sessions \cup {NoSession}
           /\ loading' = FALSE /\ ready' = FALSE /\ cancelled' = TRUE /\ buffer' = <<>>
<1>1. loader.at \in {"loading", "creating"} => loader.inst \in Instances
  BY DEF StreamInv, LoaderOK, Running
<1>2. threads' \subseteq Instances
  BY <1>1 DEF StreamInv, CancelIsFinal, TypeOK, CancelStreaming
<1>3. final' \in Sessions \cup {NoSession}
  BY DEF StreamInv, CancelIsFinal, TypeOK, CancelStreaming
<1> QED BY <1>2, <1>3 DEF CancelStreaming, CancelLoader

\* A connection begins without a loader and without a session.
LEMMA InitEstablishesStreamInv ==
    ASSUME Init
    PROVE  StreamInv
<1>1. TypeOK
  <2>1. /\ loader.at \in Running \cup {"ended"} /\ loader.inst \in Instances \cup {0}
        /\ buffer \in Seq(1..MaxChunks) /\ Len(buffer) <= BufferMax
    BY IdleIsOK DEF Init
  <2>2. sent \in 0..MaxChunks /\ posts \in 0..MaxPosts
    BY DEF Init
  <2> QED BY <2>1, <2>2 DEF Init, TypeOK
<1>2. LoaderOK
  BY IdleIsOK DEF Init, LoaderOK, Idle, Running
<1>3. loader.at = "ended"
  BY IdleIsOK DEF Init
<1> QED BY <1>1, <1>2, <1>3 DEF Init, StreamInv, CancelIsFinal, FinalOK

\* The settings, and the threads that load for nobody.
LEMMA ModelStepKeeps ==
    ASSUME StreamInv,
           Disable \/ (\E renamed \in BOOLEAN : Enable(renamed))
             \/ (\E i \in Instances : ThreadLoads(i))
    PROVE  StreamInv'
<1>1. UNCHANGED <<loader, loading, session, ready, buffer, final, cancelled, place,
                  gone, sent, overtaken>>
  BY DEF Disable, Enable, ThreadLoads, feedVars
<1>2. /\ enabled' \in BOOLEAN /\ instance' \in Instances \cup {0}
      /\ loaded' \subseteq Instances /\ threads' \subseteq Instances
      /\ posts' \in 0..MaxPosts
  <2>1. CASE Disable
    <3>1. posts' = posts + 1 /\ posts < MaxPosts /\ posts \in 0..MaxPosts
      BY <2>1 DEF Disable, StreamInv, CancelIsFinal, TypeOK
    <3>2. posts' \in 0..MaxPosts
      BY <3>1
    <3> QED BY <2>1, <3>2 DEF Disable, Unloaded, StreamInv, CancelIsFinal, TypeOK
  <2>2. CASE \E renamed \in BOOLEAN : Enable(renamed)
    <3>1. posts' = posts + 1 /\ posts < MaxPosts /\ posts \in 0..MaxPosts
      BY <2>2 DEF Enable, StreamInv, CancelIsFinal, TypeOK
    <3>2. NewInstance' \in Instances
      BY <3>1 DEF NewInstance, Instances
    <3>3. instance # 0 => instance \in Instances
      BY DEF StreamInv, CancelIsFinal, TypeOK
    <3> QED BY <2>2, <3>1, <3>2, <3>3 DEF Enable, Unloaded, StreamInv, CancelIsFinal, TypeOK
  <2>3. CASE \E i \in Instances : ThreadLoads(i)
    BY <2>3 DEF ThreadLoads, modelVars, StreamInv, CancelIsFinal, TypeOK
  <2> QED BY <2>1, <2>2, <2>3
<1>3. TypeOK'
  BY <1>1, <1>2 DEF StreamInv, CancelIsFinal, TypeOK, Instances
<1>4. LoaderOK'
  BY <1>1 DEF StreamInv, LoaderOK, Instances
<1> QED BY <1>1, <1>3, <1>4 DEF StreamInv, CancelIsFinal, FinalOK

\* The loader on its way to a session, before there is one.
LEMMA LoadStepKeeps ==
    ASSUME StreamInv, LoaderStarts \/ ModelLoads \/ LoaderResumes \/ CreateReturns
    PROVE  StreamInv'
<1>1. UNCHANGED <<enabled, threads, loading, session, ready, buffer, final, cancelled,
                  place, gone, sent, posts, overtaken>>
  BY DEF LoaderStarts, ModelLoads, LoaderResumes, CreateReturns, modelVars, feedVars
<1>2. /\ loader \in [at : Running \cup {"ended"}, inst : Instances \cup {0},
                     todo : Seq(BOOLEAN) \cup Seq(1..MaxChunks)]
      /\ loader.at \in Running \ {"start"} => loader.inst \in Instances
      /\ cancelled => loader.at \in {"ended", "start", "loading", "loaded"}
  BY DEF StreamInv, LoaderOK
<1>3. NewInstance \in Instances /\ instance \in Instances \cup {0}
  BY DEF NewInstance, Instances, StreamInv, CancelIsFinal, TypeOK
<1>4. /\ instance' \in Instances \cup {0} /\ loaded' \subseteq Instances
      /\ LoaderOK' /\ loader.at # "ended"
  <2>1. CASE LoaderStarts
    <3>1. instance' \in Instances
      BY <1>3, <2>1 DEF LoaderStarts
    <3>2. loader' = [loader EXCEPT !.at = "loading", !.inst = instance'] /\ loader.at = "start"
      BY <2>1 DEF LoaderStarts
    <3>3. LoaderOK'
      BY <1>1, <1>2, <3>1, <3>2 DEF LoaderOK, Running, Instances
    <3> QED BY <2>1, <3>1, <3>2, <3>3 DEF LoaderStarts, StreamInv, CancelIsFinal, TypeOK
  <2>2. CASE ModelLoads
    <3>1. loader.inst \in Instances /\ loader.at \in {"loading", "creating"}
      BY <1>2, <2>2 DEF ModelLoads, Running
    <3>2. loader' = [loader EXCEPT !.at = IF loader.at = "loading" THEN "loaded" ELSE "returning"]
      BY <2>2 DEF ModelLoads
    <3>3. LoaderOK'
      BY <1>1, <1>2, <3>1, <3>2 DEF LoaderOK, Running, Instances
    <3> QED BY <1>3, <2>2, <3>1, <3>3 DEF ModelLoads, StreamInv, CancelIsFinal, TypeOK
  <2>3. CASE LoaderResumes
    <3>1. LoaderOK'
      <4>1. CASE cancelled
        BY <1>1, <2>3, <4>1, IdleIsOK DEF LoaderResumes, LoaderOK, Running, Instances
      <4>2. CASE ~cancelled
        BY <1>1, <1>2, <2>3, <4>2 DEF LoaderResumes, LoaderOK, Running, Instances
      <4> QED BY <4>1, <4>2
    <3> QED BY <2>3, <3>1 DEF LoaderResumes, modelVars, StreamInv, CancelIsFinal, TypeOK
  <2>4. CASE CreateReturns
    <3>1. PICK b \in BOOLEAN :
            loader.at = "returning" /\ loader' = [loader EXCEPT !.at = "created", !.todo = <<b>>]
      <4>1. PICK b \in {loader.inst \in loaded} :
              loader.at = "returning" /\ loader' = [loader EXCEPT !.at = "created", !.todo = <<b>>]
        BY <2>4 DEF CreateReturns
      <4>2. b \in BOOLEAN
        <5>1. CASE loader.inst \in loaded
          BY <4>1, <5>1
        <5>2. CASE loader.inst \notin loaded
          BY <4>1, <5>2
        <5> QED BY <5>1, <5>2
      <4> QED BY <4>1, <4>2
    <3>2. <<b>> \in Seq(BOOLEAN)
      OBVIOUS
    <3>3. LoaderOK'
      BY <1>1, <1>2, <3>1, <3>2 DEF LoaderOK, Running, Instances
    <3> QED BY <2>4, <3>3 DEF CreateReturns, modelVars, StreamInv, CancelIsFinal, TypeOK
  <2> QED BY <2>1, <2>2, <2>3, <2>4
<1>5. TypeOK'
  <2>1. loader'.at \in Running \cup {"ended"} /\ loader'.inst \in (Instances \cup {0})'
    BY <1>4 DEF LoaderOK
  <2> QED BY <1>1, <1>4, <2>1 DEF StreamInv, CancelIsFinal, TypeOK, Instances
<1> QED BY <1>1, <1>4, <1>5 DEF StreamInv, CancelIsFinal, FinalOK

\* A session is put in place, or fed on, only while nothing is cancelled.
LEMMA FeedStepKeeps ==
    ASSUME StreamInv, InstallSession \/ ReplayResumes
    PROVE  StreamInv'
<1>1. /\ UNCHANGED <<enabled, instance, loaded, threads, loading, final, cancelled,
                     place, gone, sent, posts, overtaken>>
      /\ loader.at \in {"created", "replay"}
  BY DEF InstallSession, ReplayResumes, modelVars
<1>2. ~cancelled /\ place = "loop" /\ loader.inst \in Instances
  BY <1>1 DEF StreamInv, LoaderOK, CancelIsFinal, TypeOK, Running
<1>3. /\ session' \in Sessions /\ ready' = TRUE
      /\ buffer' \in Seq(1..MaxChunks) /\ Len(buffer') <= BufferMax
      /\ \/ loader' = Idle
         \/ \E todo \in Seq(1..MaxChunks) : loader' = [loader EXCEPT !.at = "replay", !.todo = todo]
  <2>1. CASE InstallSession
    <3>1. PICK b \in BOOLEAN : loader.todo = <<b>>
      BY <2>1 DEF InstallSession, StreamInv, LoaderOK
    <3>2. NewSession(Head(loader.todo)) \in Sessions
      BY <3>1, NewSessionType
    <3>3. buffer \in Seq(1..MaxChunks)
      BY DEF StreamInv, CancelIsFinal, TypeOK
    <3>4. PICK n \in 0..Len(buffer) : Replay(NewSession(Head(loader.todo)), buffer, n)
      BY <2>1 DEF InstallSession
    <3>5. LoaderOK
      BY DEF StreamInv
    <3>6. /\ session' \in Sessions
          /\ \/ loader' = Idle
             \/ /\ loader' = [loader EXCEPT !.at = "replay", !.todo = From(buffer, n)]
                /\ From(buffer, n) \in Seq(1..MaxChunks)
      BY <3>2, <3>3, <3>4, <3>5, ReplayKeeps
    <3>7. ready' = TRUE /\ buffer' \in Seq(1..MaxChunks) /\ Len(buffer') <= BufferMax
      BY <2>1 DEF InstallSession
    <3> QED BY <3>6, <3>7
  <2>2. CASE ReplayResumes
    <3>1. /\ loader.todo \in Seq(1..MaxChunks) /\ ready /\ session \in Sessions
          /\ buffer \in Seq(1..MaxChunks) /\ Len(buffer) <= BufferMax
          /\ ready \in BOOLEAN /\ LoaderOK
      BY <2>2 DEF ReplayResumes, StreamInv, LoaderOK, CancelIsFinal, TypeOK
    <3>2. ready' = TRUE /\ buffer' = buffer
      BY <2>2, <3>1 DEF ReplayResumes
    <3>3. CASE \E n \in 1..Len(loader.todo) : Replay(session, loader.todo, n)
      <4>1. PICK n \in 0..Len(loader.todo) : Replay(session, loader.todo, n)
        BY <3>1, <3>3
      <4> QED BY <3>1, <3>2, <4>1, ReplayKeeps
    <3>4. CASE loader' = Idle /\ UNCHANGED session
      BY <3>1, <3>2, <3>4
    <3> QED BY <2>2, <3>3, <3>4 DEF ReplayResumes
  <2> QED BY <2>1, <2>2
<1>4. LoaderOK'
  <2>1. CASE loader' = Idle
    BY <1>1, <2>1, IdleIsOK DEF LoaderOK, Running, Instances
  <2>2. CASE \E todo \in Seq(1..MaxChunks) : loader' = [loader EXCEPT !.at = "replay", !.todo = todo]
    <3>1. PICK todo \in Seq(1..MaxChunks) : loader' = [loader EXCEPT !.at = "replay", !.todo = todo]
      BY <2>2
    <3>2. loader \in [at : Running \cup {"ended"}, inst : Instances \cup {0},
                      todo : Seq(BOOLEAN) \cup Seq(1..MaxChunks)]
      BY DEF StreamInv, LoaderOK
    <3> QED BY <1>1, <1>2, <1>3, <3>1, <3>2 DEF LoaderOK, Running, Instances
  <2> QED BY <1>3, <2>1, <2>2
<1>5. TypeOK'
  <2>1. loader'.at \in Running \cup {"ended"} /\ loader'.inst \in (Instances \cup {0})'
    BY <1>4 DEF LoaderOK
  <2> QED BY <1>1, <1>3, <2>1 DEF StreamInv, CancelIsFinal, TypeOK, Instances
<1>6. session' # NoSession
  BY <1>3
<1> QED BY <1>1, <1>2, <1>3, <1>4, <1>5, <1>6 DEF StreamInv, CancelIsFinal, FinalOK
\* load-failed puts everything back.
LEMMA LoadFailsKeeps ==
    ASSUME StreamInv, LoadFails
    PROVE  StreamInv'
<1>1. /\ loader' = Idle /\ loading' = FALSE /\ ready' = FALSE /\ session' = NoSession
      /\ buffer' = <<>>
      /\ UNCHANGED <<enabled, instance, loaded, threads, final, cancelled, place, gone,
                     sent, posts, overtaken>>
  BY DEF LoadFails, modelVars, BufferAfterFailure
<1>2. LoaderOK'
  BY <1>1, IdleIsOK DEF LoaderOK, Running, Instances
<1>3. TypeOK'
  <2>1. /\ loader'.at \in Running \cup {"ended"} /\ loader'.inst \in (Instances \cup {0})'
        /\ buffer' \in Seq(1..MaxChunks) /\ Len(buffer') <= BufferMax
    BY <1>1, IdleIsOK DEF Instances
  <2> QED BY <1>1, <2>1 DEF StreamInv, CancelIsFinal, TypeOK, Instances
<1> QED BY <1>1, <1>2, <1>3, IdleIsOK DEF StreamInv, CancelIsFinal, FinalOK

\* A config frame starts a loader, which has no instance yet.
LEMMA ConfigKeeps ==
    ASSUME StreamInv, Config
    PROVE  StreamInv'
<1>1. /\ loader' = [Idle EXCEPT !.at = "start"] /\ loading' = TRUE /\ place = "loop"
      /\ UNCHANGED <<enabled, instance, loaded, threads, session, ready, buffer, final,
                     cancelled, place, gone, sent, posts, overtaken>>
  BY DEF Config, modelVars, feedVars
<1>2. LoaderOK'
  BY <1>1, IdleIsOK DEF LoaderOK, Running, Instances
<1>3. TypeOK'
  <2>1. loader'.at \in Running \cup {"ended"} /\ loader'.inst \in (Instances \cup {0})'
    BY <1>2 DEF LoaderOK
  <2> QED BY <1>1, <2>1 DEF StreamInv, CancelIsFinal, TypeOK, Instances
<1> QED BY <1>1, <1>2, <1>3 DEF StreamInv, CancelIsFinal, FinalOK

\* A chunk cancels the streaming that was switched off, is fed to the session,
\* or waits for it.
LEMMA HandleChunkKeeps ==
    ASSUME StreamInv, HandleChunk
    PROVE  StreamInv'
<1>1. /\ place = "loop" /\ sent' = sent + 1 /\ sent' \in 1..MaxChunks
      /\ UNCHANGED <<enabled, instance, loaded, place, gone, posts>>
  BY DEF HandleChunk, StreamInv, CancelIsFinal, TypeOK
<1>2. CASE CancelStreaming /\ UNCHANGED overtaken
  <2>1. /\ loader' = Idle /\ threads' \subseteq Instances
        /\ session' = NoSession /\ final' \in Sessions \cup {NoSession}
        /\ loading' = FALSE /\ ready' = FALSE /\ cancelled' = TRUE /\ buffer' = <<>>
    BY <1>2, CancelKeeps
  <2>2. LoaderOK'
    BY <2>1, IdleIsOK DEF LoaderOK, Running, Instances
  <2>3. TypeOK'
    <3>1. /\ loader'.at \in Running \cup {"ended"} /\ loader'.inst \in (Instances \cup {0})'
          /\ buffer' \in Seq(1..MaxChunks) /\ Len(buffer') <= BufferMax
      BY <2>1, IdleIsOK DEF Instances
    <3>2. sent' \in 0..MaxChunks /\ overtaken' = overtaken
      BY <1>1, <1>2
    <3> QED BY <1>1, <2>1, <3>1, <3>2 DEF StreamInv, CancelIsFinal, TypeOK, Instances
  <2> QED BY <1>1, <2>1, <2>2, <2>3, IdleIsOK DEF StreamInv, CancelIsFinal, FinalOK
<1>3. CASE UNCHANGED <<cancelled, loader, threads, loading, final, feedVars, overtaken>>
  <2>1. LoaderOK'
    BY <1>3 DEF StreamInv, LoaderOK, Instances, feedVars
  <2>2. TypeOK'
    BY <1>1, <1>3 DEF StreamInv, CancelIsFinal, TypeOK, Instances, feedVars
  <2> QED BY <1>1, <1>3, <2>1, <2>2 DEF StreamInv, CancelIsFinal, FinalOK, feedVars
<1>4. CASE /\ ready
           /\ session' = AddChunk(session, sent')
           /\ overtaken' = (overtaken \/ loader.at = "replay")
           /\ UNCHANGED <<cancelled, loader, threads, loading, final, ready, buffer>>
  <2>1. session \in Sessions
    BY <1>4 DEF StreamInv, CancelIsFinal, TypeOK
  <2>2. session' \in Sessions
    BY <1>1, <1>4, <2>1, AddChunkType
  <2>3. overtaken' \in BOOLEAN
    BY <1>4, Zenon
  <2>4. LoaderOK'
    BY <1>4 DEF StreamInv, LoaderOK, Instances
  <2>5. TypeOK'
    BY <1>1, <1>4, <2>2, <2>3 DEF StreamInv, CancelIsFinal, TypeOK, Instances
  <2>6. session' # NoSession /\ session # NoSession
    BY <2>1, <2>2
  <2> QED BY <1>1, <1>4, <2>4, <2>5, <2>6 DEF StreamInv, CancelIsFinal, FinalOK
<1>5. CASE /\ buffer' \in {Capped(Append(buffer, sent')), buffer}
           /\ UNCHANGED <<cancelled, loader, threads, loading, final, session, ready, overtaken>>
  <2>1. buffer' \in Seq(1..MaxChunks) /\ Len(buffer') <= BufferMax
    BY <1>1, <1>5, CappedType DEF StreamInv, CancelIsFinal, TypeOK
  <2>2. LoaderOK'
    BY <1>5 DEF StreamInv, LoaderOK, Instances
  <2>3. TypeOK'
    BY <1>1, <1>5, <2>1 DEF StreamInv, CancelIsFinal, TypeOK, Instances
  <2> QED BY <1>1, <1>5, <2>2, <2>3 DEF StreamInv, CancelIsFinal, FinalOK
<1>6. enabled \in BOOLEAN /\ ready \in BOOLEAN
  BY DEF StreamInv, CancelIsFinal, TypeOK
<1> QED BY <1>2, <1>3, <1>4, <1>5, <1>6 DEF HandleChunk

\* The handler ends, or the client's end of the socket closes.
LEMMA EndStepKeeps ==
    ASSUME StreamInv, ClientGone \/ Leave \/ Stop \/ FinalizeStreaming
    PROVE  StreamInv'
<1>1. CASE ClientGone
  <2>1. LoaderOK'
    BY <1>1 DEF ClientGone, StreamInv, LoaderOK, Instances, modelVars, feedVars
  <2>2. TypeOK'
    BY <1>1 DEF ClientGone, StreamInv, CancelIsFinal, TypeOK, Instances, modelVars, feedVars
  <2> QED BY <1>1, <2>1, <2>2 DEF ClientGone, StreamInv, CancelIsFinal, FinalOK, modelVars, feedVars
<1>2. CASE Leave \/ Stop
  <2>1. /\ CancelStreaming
        /\ place' \in {"closed", "finalizing"}
        /\ place' = "finalizing" => final' # NoSession
        /\ UNCHANGED <<enabled, instance, loaded, gone, sent, posts, overtaken>>
    BY <1>2 DEF Leave, Stop
  <2>2. /\ loader' = Idle /\ threads' \subseteq Instances
        /\ session' = NoSession /\ final' \in Sessions \cup {NoSession}
        /\ loading' = FALSE /\ ready' = FALSE /\ cancelled' = TRUE /\ buffer' = <<>>
    BY <2>1, CancelKeeps
  <2>3. LoaderOK'
    BY <2>2, IdleIsOK DEF LoaderOK, Running, Instances
  <2>4. TypeOK'
    <3>1. /\ loader'.at \in Running \cup {"ended"} /\ loader'.inst \in (Instances \cup {0})'
          /\ buffer' \in Seq(1..MaxChunks) /\ Len(buffer') <= BufferMax
      BY <2>2, IdleIsOK DEF Instances
    <3> QED BY <2>1, <2>2, <3>1 DEF StreamInv, CancelIsFinal, TypeOK, Instances
  <2> QED BY <2>1, <2>2, <2>3, <2>4, IdleIsOK DEF StreamInv, CancelIsFinal, FinalOK
<1>3. CASE FinalizeStreaming
  <2>1. final \in Sessions
    BY <1>3 DEF FinalizeStreaming, StreamInv, CancelIsFinal, TypeOK, FinalOK
  <2>2. final' \in Sessions
    BY <1>3, <2>1, FinalizedType DEF FinalizeStreaming
  <2>3. LoaderOK'
    BY <1>3 DEF FinalizeStreaming, StreamInv, LoaderOK, Instances, modelVars, feedVars
  <2>4. TypeOK'
    BY <1>3, <2>2 DEF FinalizeStreaming, StreamInv, CancelIsFinal, TypeOK, Instances, modelVars, feedVars
  <2> QED BY <1>3, <2>3, <2>4 DEF FinalizeStreaming, StreamInv, CancelIsFinal, FinalOK, modelVars, feedVars
<1> QED BY <1>1, <1>2, <1>3

\* Nothing happens.
LEMMA StutterKeeps ==
    ASSUME StreamInv, UNCHANGED vars
    PROVE  StreamInv'
<1>1. LoaderOK'
  BY DEF vars, StreamInv, LoaderOK, Instances, modelVars, feedVars
<1>2. TypeOK'
  BY DEF vars, StreamInv, CancelIsFinal, TypeOK, Instances, modelVars, feedVars
<1> QED BY <1>1, <1>2 DEF vars, StreamInv, CancelIsFinal, FinalOK, modelVars, feedVars

\* Every step keeps the invariant.
LEMMA NextKeepsStreamInv == StreamInv /\ [Next]_vars => StreamInv'
BY ModelStepKeeps, LoadStepKeeps, FeedStepKeeps, LoadFailsKeeps, ConfigKeeps,
   HandleChunkKeeps, EndStepKeeps, StutterKeeps DEF Next, LoaderStep

\* Once the streaming work of a connection is cancelled, no loader and no
\* thread puts a session back, and a session that is ready is there to be fed
\* (cancel_streaming and _load_and_create_session of routers/record.py).
THEOREM CancelledStaysCancelled == Spec => []CancelIsFinal
<1>1. Init => StreamInv
  BY InitEstablishesStreamInv
<1>2. StreamInv => CancelIsFinal
  BY DEF StreamInv
<1> QED BY <1>1, <1>2, NextKeepsStreamInv, PTL DEF Spec
-----------------------------------------------------------------------------
(* The audio the model hears.                                              *)

\* What a session's model has heard and what waits for the next stride; of a
\* session without a model, what waits.
Audible(s) == IF s.model THEN s.heard \o s.resampled ELSE s.resampled

\* A stretch of the recording, after position a.
Stretch(s, a) == \A i \in 1..Len(s) : s[i] = a + i

\* Where the raw audio of a session begins that was fed up to chunk c.
Base(s, c) == c * ChunkLen - Len(s.raw)

\* The session was fed everything up to chunk c since some chunk before.  Its
\* raw audio goes on to the end of that chunk; what is audible has no gap and
\* ends less than a sample of the model's rate short of what was resampled,
\* and what was not is short of a stride.
Whole(s, c) ==
    /\ Stretch(s.raw, Base(s, c))
    /\ s.processed \in {0, Overlap} /\ s.processed <= Len(s.raw)
    /\ (Len(s.raw) - s.processed) \div Ratio < Stride
    /\ s.processed = 0 => s.heard = <<>> /\ s.resampled = <<>>
    /\ ~s.model => s.heard = <<>>
    /\ Gapless(Audible(s))
    /\ Audible(s) # <<>> =>
         Base(s, c) + s.processed - Last(Audible(s)) \in 0..(Ratio - 1)

\* A division with its remainder.
LEMMA Division ==
    ASSUME NEW n \in Nat, NEW k \in Nat \ {0}
    PROVE  /\ n \div k \in Nat /\ (n \div k) * k \in Nat
           /\ (n \div k) * k <= n /\ n < (n \div k) * k + k
           /\ n % k = n - (n \div k) * k
  OBVIOUS

\* Two parts without a gap, and none between them.
LEMMA GaplessJoined ==
    ASSUME NEW s \in Seq(Samples), NEW t \in Seq(Samples), Gapless(s), Gapless(t),
           s # <<>> /\ t # <<>> => t[1] - s[Len(s)] \in 0..Ratio
    PROVE  /\ s \o t \in Seq(Samples) /\ Gapless(s \o t)
           /\ t # <<>> => s \o t # <<>> /\ Last(s \o t) = Last(t)
<1> DEFINE st == s \o t
<1>1. /\ st \in Seq(Samples) /\ Len(st) = Len(s) + Len(t)
      /\ \A i \in 1..Len(st) : st[i] = IF i <= Len(s) THEN s[i] ELSE t[i - Len(s)]
  OBVIOUS
<1> HIDE DEF st
<1>2. ASSUME NEW i \in 1..(Len(st) - 1) PROVE st[i + 1] - st[i] \in 0..Ratio
  <2>1. CASE i < Len(s)
    <3>1. st[i + 1] = s[i + 1] /\ st[i] = s[i] /\ i \in 1..(Len(s) - 1)
      BY <1>1, <1>2, <2>1
    <3> QED BY <3>1 DEF Gapless
  <2>2. CASE i = Len(s)
    <3>1. st[i + 1] = t[1] /\ st[i] = s[Len(s)] /\ s # <<>> /\ t # <<>>
      BY <1>1, <1>2, <2>2
    <3> QED BY <3>1
  <2>3. CASE i > Len(s)
    <3>1. /\ st[i + 1] = t[(i - Len(s)) + 1] /\ st[i] = t[i - Len(s)]
          /\ i - Len(s) \in 1..(Len(t) - 1)
      BY <1>1, <1>2, <2>3
    <3> QED BY <3>1 DEF Gapless
  <2> QED BY <1>1, <1>2, <2>1, <2>2, <2>3
<1>3. ASSUME t # <<>> PROVE st # <<>> /\ Last(st) = Last(t)
  <2>1. Len(t) \in Nat \ {0} /\ Len(st) \in 1..Len(st) /\ ~(Len(st) <= Len(s))
    BY <1>1, <1>3
  <2>2. st[Len(st)] = t[Len(t)]
    BY <1>1, <2>1
  <2> QED BY <1>1, <2>1, <2>2 DEF Last
<1>4. Gapless(st)
  BY <1>2 DEF Gapless
<1> QED BY <1>1, <1>3, <1>4 DEF st

\* The rest of a part without a gap.
LEMMA GaplessFrom ==
    ASSUME NEW s \in Seq(Samples), NEW n \in 0..Len(s), Gapless(s)
    PROVE  /\ Gapless(From(s, n))
           /\ \A i \in 1..Len(From(s, n)) : From(s, n)[i] = s[n + i]
           /\ From(s, n) # <<>> => Last(From(s, n)) = Last(s)
<1> DEFINE t == From(s, n)
<1>1. t \in Seq(Samples) /\ Len(t) = Len(s) - n
  BY FromType
<1>2. \A i \in 1..Len(t) : t[i] = s[n + i]
  BY <1>1 DEF From
<1> HIDE DEF t
<1>3. ASSUME NEW i \in 1..(Len(t) - 1) PROVE t[i + 1] - t[i] \in 0..Ratio
  <2>1. n + i \in 1..(Len(s) - 1) /\ t[i] = s[n + i] /\ t[i + 1] = s[(n + i) + 1]
    BY <1>1, <1>2, <1>3, SMTT(30)
  <2> QED BY <2>1 DEF Gapless
<1>4. t # <<>> => Last(t) = Last(s)
  BY <1>1, <1>2 DEF Last
<1>5. Gapless(t)
  BY <1>3 DEF Gapless
<1> QED BY <1>2, <1>4, <1>5 DEF t

\* A sequence is its two parts.
LEMMA Parts ==
    ASSUME NEW s \in Seq(Samples), NEW n \in 0..Len(s)
    PROVE  /\ SubSeq(s, 1, n) \in Seq(Samples) /\ From(s, n) \in Seq(Samples)
           /\ SubSeq(s, 1, n) \o From(s, n) = s
<1> DEFINE h == SubSeq(s, 1, n)
           t == From(s, n)
<1>1. h \in Seq(Samples) /\ Len(h) = n /\ \A i \in 1..n : h[i] = s[i]
  BY SubSeqProperties
<1>2. t \in Seq(Samples) /\ Len(t) = Len(s) - n
  BY FromType
<1>3. \A i \in 1..Len(t) : t[i] = s[n + i]
  BY <1>2 DEF From
<1> HIDE DEF h, t
<1>4. Len(h \o t) = Len(s) /\ h \o t \in Seq(Samples)
  BY <1>1, <1>2
<1>5. ASSUME NEW i \in 1..Len(s) PROVE (h \o t)[i] = s[i]
  <2>1. CASE i <= n
    BY <1>1, <1>2, <1>5, <2>1
  <2>2. CASE i > n
    <3>1. i - n \in 1..Len(t) /\ (h \o t)[i] = t[i - n]
      BY <1>1, <1>2, <1>5, <2>2
    <3>2. t[i - n] = s[n + (i - n)]
      BY <1>3, <3>1
    <3> QED BY <1>5, <3>1, <3>2
  <2>3. i <= n \/ i > n
    BY <1>5
  <2> QED BY <2>1, <2>2, <2>3
<1>6. h \o t = s
  BY <1>4, <1>5, SeqEqual
<1> QED BY <1>1, <1>2, <1>6 DEF h, t

\* Resampling a stretch: one position of every Ratio, to the end.
LEMMA ResampledStretch ==
    ASSUME NEW s \in Seq(Samples), NEW a \in Int, Stretch(s, a), s # <<>>
    PROVE  /\ Resampled(s) \in Seq(Samples) /\ Resampled(s) # <<>>
           /\ \A i \in 1..Len(Resampled(s)) : Resampled(s)[i] = a + (i - 1) * Ratio + 1
           /\ Gapless(Resampled(s))
           /\ a + Len(s) - Last(Resampled(s)) \in 0..(Ratio - 1)
           /\ Len(Resampled(s)) * Ratio >= Len(s)
<1> DEFINE out == Resampled(s)
           n == (Len(s) + Ratio - 1) \div Ratio
<1>1. n \in Nat /\ n * Ratio <= Len(s) + Ratio - 1 /\ n * Ratio >= Len(s) /\ n * Ratio \in Nat
  <2> DEFINE m == Len(s) + Ratio - 1
  <2>1. m \in Nat /\ m >= Len(s)
    OBVIOUS
  <2>2. n = m \div Ratio
    OBVIOUS
  <2> HIDE DEF m, n
  <2>3. n \in Nat /\ n * Ratio \in Nat /\ n * Ratio <= m /\ m < n * Ratio + Ratio
    BY <2>1, <2>2, Division
  <2> QED BY <2>3 DEF m
<1>2. out \in Seq(Samples)
  BY ResampledType
<1>3. out = [i \in 1..n |-> s[(i - 1) * Ratio + 1]]
  BY DEF Resampled
<1> HIDE DEF n, out
<1>4. Len(out) = n
  BY <1>1, <1>2, <1>3
<1>5. n # 0
  BY <1>1
<1>6. ASSUME NEW i \in 1..n PROVE out[i] = a + (i - 1) * Ratio + 1
  <2> DEFINE j == (i - 1) * Ratio
  <2>1. i * Ratio <= n * Ratio /\ j \in Nat
    BY <1>1, Products
  <2>2. j + Ratio = i * Ratio
    BY <1>1
  <2> HIDE DEF j
  <2>3. j + 1 \in 1..Len(s)
    BY <1>1, <2>1, <2>2
  <2>4. out[i] = s[j + 1]
    BY <1>3 DEF j
  <2> QED BY <2>3, <2>4 DEF Stretch, j
<1>7. ASSUME NEW i \in 1..(n - 1) PROVE out[i + 1] - out[i] \in 0..Ratio
  <2> DEFINE j == (i - 1) * Ratio
  <2>1. i * Ratio = j + Ratio /\ j \in Int
    OBVIOUS
  <2>2. out[i] = a + j + 1 /\ out[i + 1] = a + ((i + 1) - 1) * Ratio + 1
    BY <1>1, <1>6
  <2>3. ((i + 1) - 1) * Ratio = i * Ratio
    OBVIOUS
  <2> QED BY <2>1, <2>2, <2>3
<1>8. a + Len(s) - Last(out) \in 0..(Ratio - 1)
  <2>1. Last(out) = a + (n - 1) * Ratio + 1
    BY <1>1, <1>4, <1>5, <1>6 DEF Last
  <2>2. (n - 1) * Ratio = n * Ratio - Ratio
    BY <1>1
  <2> QED BY <1>1, <2>1, <2>2
<1>9. Gapless(out)
  BY <1>4, <1>7 DEF Gapless
<1>10. out # <<>>
  BY <1>2, <1>4, <1>5
<1> QED BY <1>1, <1>2, <1>4, <1>6, <1>8, <1>9, <1>10 DEF out

\* What the overlap has to be for the seams to fit: nearly a multiple of the
\* ratio, and no longer than what is resampled at a time (asr_streaming.py:19-23:
\* 256 samples against 9600 at the model's rate; 16, 32 and 48 kHz fit).
SeamsFit == Overlap % Ratio <= 1 /\ Overlap <= Stride * Ratio

\* The next chunk lengthens the raw audio of a session.
LEMMA RawGrows ==
    ASSUME NEW c \in Nat, c + 1 \in 1..MaxChunks, NEW s \in Sessions, Whole(s, c)
    PROVE  LET raw == s.raw \o SamplesOf(c + 1) IN
             /\ raw \in Seq(Samples) /\ Len(raw) = Len(s.raw) + ChunkLen
             /\ Base(s, c) \in Int /\ Base(s, c) = (c + 1) * ChunkLen - Len(raw)
             /\ Stretch(raw, Base(s, c))
<1> DEFINE new == SamplesOf(c + 1)
           k   == c * ChunkLen
<1>1. new \in Seq(Samples) /\ s.raw \in Seq(Samples)
  BY SamplesOfType DEF Sessions
<1>2. k \in Nat /\ (c + 1) * ChunkLen = k + ChunkLen /\ ((c + 1) - 1) * ChunkLen = k
  OBVIOUS
<1>3. Len(new) = ChunkLen /\ \A i \in 1..ChunkLen : new[i] = k + i
  BY <1>1, <1>2 DEF SamplesOf
<1>4. Base(s, c) = k - Len(s.raw)
  BY DEF Base
<1> HIDE DEF new, k
<1>5. Len(s.raw \o new) = Len(s.raw) + ChunkLen /\ s.raw \o new \in Seq(Samples)
  BY <1>1, <1>3
<1>6. ASSUME NEW i \in 1..Len(s.raw \o new) PROVE (s.raw \o new)[i] = Base(s, c) + i
  <2>1. CASE i <= Len(s.raw)
    <3>1. i \in 1..Len(s.raw) /\ (s.raw \o new)[i] = s.raw[i]
      BY <1>1, <1>5, <1>6, <2>1
    <3> QED BY <3>1 DEF Whole, Stretch
  <2>2. CASE i > Len(s.raw)
    <3>1. i - Len(s.raw) \in 1..ChunkLen /\ (s.raw \o new)[i] = new[i - Len(s.raw)]
      BY <1>1, <1>3, <1>5, <1>6, <2>2
    <3>2. new[i - Len(s.raw)] = k + (i - Len(s.raw))
      BY <1>3, <3>1
    <3>3. Len(s.raw) \in Int /\ i \in Int /\ k \in Int
      BY <1>1, <1>2, <1>6
    <3>4. k + (i - Len(s.raw)) = (k - Len(s.raw)) + i
      BY <3>3
    <3> QED BY <1>4, <3>1, <3>2, <3>4
  <2>3. i <= Len(s.raw) \/ i > Len(s.raw)
    BY <1>1, <1>5, <1>6
  <2> QED BY <2>1, <2>2, <2>3
<1>7. Base(s, c) \in Int /\ Base(s, c) = (c + 1) * ChunkLen - Len(s.raw \o new)
  BY <1>1, <1>2, <1>4, <1>5
<1>8. Stretch(s.raw \o new, Base(s, c))
  BY <1>6 DEF Stretch
<1> QED BY <1>5, <1>7, <1>8 DEF new

\* The seam: what is cut of a newly resampled segment leaves neither a gap nor
\* a step back (add_pcm_chunk, asr_streaming.py:49-58).
LEMMA SeamFits ==
    ASSUME SeamsFit, NEW c \in Nat, NEW s \in Sessions, Whole(s, c),
           NEW raw \in Seq(Samples), Base(s, c) \in Int, Stretch(raw, Base(s, c)),
           Len(raw) >= s.processed + Stride * Ratio, raw # <<>>
    PROVE  LET out == Resampled(raw)
               kept == From(out, SeamCut(s, out))
           IN /\ kept \in Seq(Samples) /\ Audible(s) \o kept \in Seq(Samples)
              /\ Gapless(Audible(s) \o kept) /\ Audible(s) \o kept # <<>>
              /\ Last(Audible(s) \o kept) = Last(out)
<1> DEFINE a == Base(s, c)
           out == Resampled(raw)
           cut == SeamCut(s, out)
           kept == From(out, cut)
           told == Audible(s)
<1>1. /\ out \in Seq(Samples) /\ out # <<>> /\ Gapless(out) /\ Len(out) * Ratio >= Len(raw)
      /\ \A i \in 1..Len(out) : out[i] = a + (i - 1) * Ratio + 1
  BY ResampledStretch
<1>2. told \in Seq(Samples) /\ Gapless(told)
  BY DEF Sessions, Whole, Audible
<1>3. /\ s.processed \in {0, Overlap}
      /\ s.processed = 0 => told = <<>>
  BY DEF Whole, Audible
<1>4. told # <<>> => a + s.processed - Last(told) \in 0..(Ratio - 1)
  BY DEF Whole
<1>5. cut = LET q == Overlap \div Ratio
            IN IF s.processed >= Overlap /\ 0 < q /\ q < Len(out) THEN q ELSE 0
  BY DEF SeamCut
<1> HIDE DEF a, out, cut, told
<1>10. a \in Int /\ Len(out) \in Nat \ {0}
  BY <1>1 DEF a
<1>6. /\ cut \in 0..(Len(out) - 1)
      /\ told # <<>> /\ kept # <<>> => kept[1] - told[Len(told)] \in 0..Ratio
  <2>1. CASE s.processed = 0
    <3>1. cut = 0 /\ told = <<>>
      BY <1>3, <1>5, <2>1
    <3> QED BY <1>1, <3>1
  <2>2. CASE s.processed = Overlap
    <3> DEFINE q == Overlap \div Ratio
    <3>1. /\ q \in Nat /\ q * Ratio \in Nat /\ q * Ratio <= Overlap
          /\ q * Ratio >= Overlap - 1
      <4>1. /\ q \in Nat /\ q * Ratio \in Nat /\ q * Ratio <= Overlap
            /\ Overlap % Ratio = Overlap - q * Ratio
        BY Division
      <4> HIDE DEF q
      <4> QED BY <4>1 DEF SeamsFit
    <3> HIDE DEF q
    <3>2. q < Len(out)
      <4>1. SUFFICES ASSUME Len(out) <= q PROVE FALSE
        BY <1>1, <3>1
      <4>2. Len(out) * Ratio <= q * Ratio /\ Len(out) * Ratio \in Nat
        <5>1. Len(out) \in Nat /\ Ratio \in Nat /\ q \in Nat
          BY <1>10, <3>1
        <5> QED BY <4>1, <5>1, Products
      <4>3. Stride * Ratio \in Nat \ {0}
        OBVIOUS
      <4>4. Len(raw) > Overlap
        BY <2>2, <4>3
      <4> QED BY <1>1, <3>1, <4>2, <4>4
    <3>3. cut = q
      BY <1>5, <2>2, <3>1, <3>2 DEF q
    <3>4. ASSUME told # <<>>, kept # <<>> PROVE kept[1] - told[Len(told)] \in 0..Ratio
      <4>1. 1 \in 1..Len(kept) /\ q \in 0..Len(out)
        BY <1>1, <3>1, <3>2, <3>3, <3>4, FromType
      <4>2. kept[1] = out[q + 1]
        BY <1>1, <3>3, <4>1, GaplessFrom
      <4>3. out[q + 1] = a + q * Ratio + 1
        <5>1. q + 1 \in 1..Len(out) /\ (q + 1) - 1 = q
          BY <1>1, <3>1, <3>2
        <5> QED BY <1>1, <5>1
      <4>4. a + Overlap - told[Len(told)] \in 0..(Ratio - 1) /\ told[Len(told)] \in Int
        BY <1>2, <1>4, <2>2, <3>4 DEF Last, Samples
      <4> DEFINE e == told[Len(told)]
                 m == q * Ratio
      <4>5. e \in Int /\ m \in Int /\ a + Overlap - e \in 0..(Ratio - 1) /\ m \in (Overlap - 1)..Overlap
        BY <3>1, <4>4
      <4> HIDE DEF e, m
      <4>6. (a + m + 1) - e \in 0..Ratio
        BY <1>10, <4>5
      <4> QED BY <4>2, <4>3, <4>6 DEF e, m
    <3> QED BY <3>1, <3>2, <3>3, <3>4
  <2> QED BY <1>3, <2>1, <2>2
<1>7. /\ kept \in Seq(Samples) /\ Len(kept) = Len(out) - cut /\ kept # <<>>
  <2>1. cut \in Nat /\ cut < Len(out)
    BY <1>6, <1>10
  <2>2. kept \in Seq(Samples) /\ Len(kept) = Len(out) - cut
    BY <1>1, <1>10, <2>1, FromType
  <2> QED BY <1>10, <2>1, <2>2
<1>8. Gapless(kept) /\ Last(kept) = Last(out)
  BY <1>1, <1>6, <1>7, GaplessFrom
<1> HIDE DEF kept
<1>9. /\ told \o kept \in Seq(Samples) /\ Gapless(told \o kept)
      /\ told \o kept # <<>> /\ Last(told \o kept) = Last(kept)
  BY <1>2, <1>6, <1>7, <1>8, GaplessJoined
<1> QED BY <1>7, <1>8, <1>9 DEF told, kept, cut, out
\* From the start on is all of it.
LEMMA FromStart ==
    ASSUME NEW s \in Seq(Samples)
    PROVE  From(s, 0) = s
<1>1. From(s, 0) \in Seq(Samples) /\ Len(From(s, 0)) = Len(s)
  BY FromType
<1>2. \A i \in 1..Len(s) : From(s, 0)[i] = s[i]
  BY <1>1 DEF From
<1> QED BY <1>1, <1>2, SeqEqual

\* Concatenating three parts.
LEMMA Associated ==
    ASSUME NEW s \in Seq(Samples), NEW t \in Seq(Samples), NEW u \in Seq(Samples)
    PROVE  (s \o t) \o u = s \o (t \o u)
BY ConcatAssociative

\* The end of a stretch is a stretch.
LEMMA EndOfStretch ==
    ASSUME NEW s \in Seq(Samples), NEW a \in Int, Stretch(s, a), NEW k \in 0..Len(s)
    PROVE  /\ From(s, Len(s) - k) \in Seq(Samples) /\ Len(From(s, Len(s) - k)) = k
           /\ Stretch(From(s, Len(s) - k), a + Len(s) - k)
<1> DEFINE n == Len(s) - k
           t == From(s, n)
<1>1. n \in Nat /\ n <= Len(s) /\ Len(s) - n = k
  OBVIOUS
<1>2. a + Len(s) - k = a + n
  OBVIOUS
<1> HIDE DEF n
<1>3. t \in Seq(Samples) /\ Len(t) = k
  BY <1>1, FromType
<1>4. \A i \in 1..k : t[i] = s[n + i] /\ n + i \in 1..Len(s)
  BY <1>1, <1>3 DEF From
<1> HIDE DEF t
<1>5. ASSUME NEW i \in 1..k PROVE t[i] = (a + n) + i
  <2>1. t[i] = s[n + i] /\ n + i \in 1..Len(s)
    BY <1>4
  <2>2. s[n + i] = a + (n + i)
    BY <2>1 DEF Stretch
  <2> QED BY <1>1, <2>1, <2>2
<1>6. Stretch(t, a + n)
  BY <1>3, <1>5 DEF Stretch
<1> QED BY <1>2, <1>3, <1>6 DEF t, n

\* The model hears whole strides of what is there, and no text is lost or
\* doubled by that (_process_buffer).
LEMMA ProcessedAudible ==
    ASSUME NEW t \in Sessions, NEW left \in Seq(Samples), ~t.model => t.heard = <<>>
    PROVE  LET r == Processed(t, left)
               all == IF t.model THEN t.heard \o left ELSE left
           IN /\ r.raw = t.raw /\ r.processed = t.processed /\ r.model = t.model
              /\ ~r.model => r.heard = <<>>
              /\ Gapless(all) => Gapless(Audible(r))
              /\ Gapless(all) /\ Audible(r) # <<>> => Last(Audible(r)) = Last(all)
<1> DEFINE n == (Len(left) \div Stride) * Stride
           r == Processed(t, left)
<1>1. n \in 0..Len(left)
  <2>1. Len(left) \in Nat
    OBVIOUS
  <2> QED BY <2>1, WholeParts
<1>2. /\ r.raw = t.raw /\ r.processed = t.processed /\ r.model = t.model
      /\ r.resampled = From(left, n)
      /\ r.heard = IF t.model THEN t.heard \o SubSeq(left, 1, n) ELSE t.heard
  BY DEF Processed, Sessions
<1> HIDE DEF n, r
<1>3. /\ SubSeq(left, 1, n) \in Seq(Samples) /\ From(left, n) \in Seq(Samples)
      /\ SubSeq(left, 1, n) \o From(left, n) = left
  BY <1>1, Parts
<1>4. CASE t.model
  <2>1. Audible(r) = (t.heard \o SubSeq(left, 1, n)) \o From(left, n)
    BY <1>2, <1>4 DEF Audible
  <2>2. t.heard \in Seq(Samples)
    BY DEF Sessions
  <2>3. Audible(r) = t.heard \o left
    <3> DEFINE h == t.heard
               u == SubSeq(left, 1, n)
               v == From(left, n)
    <3>1. h \in Seq(Samples) /\ u \in Seq(Samples) /\ v \in Seq(Samples)
      BY <1>3, <2>2
    <3>2. u \o v = left /\ Audible(r) = (h \o u) \o v
      BY <1>3, <2>1
    <3> HIDE DEF h, u, v
    <3>3. (h \o u) \o v = h \o (u \o v)
      BY ONLY <3>1, Associated, ZenonT(30)
    <3> QED BY <3>2, <3>3, Zenon DEF h
  <2> QED BY <1>2, <1>4, <2>3 DEF r
<1>5. CASE ~t.model
  <2>1. Audible(r) = From(left, n) /\ r.heard = <<>>
    BY <1>2, <1>5 DEF Audible
  <2>2. Gapless(left) => Gapless(From(left, n)) /\ (From(left, n) # <<>> => Last(From(left, n)) = Last(left))
    BY <1>1, GaplessFrom
  <2> QED BY <1>2, <1>5, <2>1, <2>2 DEF r
<1> QED BY <1>4, <1>5

\* A number of samples that makes a stride at the model's rate.
LEMMA FullStride ==
    ASSUME NEW n \in Nat, ~(n \div Ratio < Stride)
    PROVE  n >= Stride * Ratio /\ Stride * Ratio \in Nat
<1> DEFINE d == n \div Ratio
<1>1. d \in Nat /\ d * Ratio <= n /\ d * Ratio \in Nat /\ Stride <= d
  BY Division
<1> HIDE DEF d
<1>2. Stride * Ratio <= d * Ratio /\ Stride * Ratio \in Nat
  BY <1>1, Products
<1> QED BY <1>1, <1>2
\* A chunk that is fed in its turn leaves the session whole (add_pcm_chunk).
LEMMA AddChunkWhole ==
    ASSUME SeamsFit, NEW c \in Nat, c + 1 \in 1..MaxChunks, NEW s \in Sessions, Whole(s, c)
    PROVE  Whole(AddChunk(s, c + 1), c + 1)
<1> DEFINE raw  == s.raw \o SamplesOf(c + 1)
           a    == Base(s, c)
           end  == (c + 1) * ChunkLen
           out  == Resampled(raw)
           kept == From(out, SeamCut(s, out))
           left == s.resampled \o kept
           trim == IF Len(raw) > Overlap THEN Len(raw) - Overlap ELSE 0
           t    == [s EXCEPT !.raw = From(raw, trim), !.processed = Len(raw) - trim]
           grown == [s EXCEPT !.raw = raw]
<1>1. /\ raw \in Seq(Samples) /\ Len(raw) = Len(s.raw) + ChunkLen
      /\ a \in Int /\ a = end - Len(raw) /\ Stretch(raw, a)
  BY RawGrows
<1>2. s.processed \in {0, Overlap} /\ s.processed <= Len(s.raw) /\ Len(s.raw) \in Nat
  BY DEF Whole, Sessions
<1>3. AddChunk(s, c + 1) = IF (Len(raw) - s.processed) \div Ratio < Stride
                             THEN grown ELSE Processed(t, left)
  <2>1. (IF s.processed > Overlap THEN s.processed - Overlap ELSE 0) = 0
    BY <1>2
  <2>2. From(raw, 0) = raw
    BY <1>1, FromStart
  <2> QED BY <2>1, <2>2 DEF AddChunk
<1>4. raw # <<>> /\ end \in Nat /\ Len(raw) \in Nat /\ Len(raw) - s.processed \in Nat
  <2>1. end \in Nat
    OBVIOUS
  <2> HIDE DEF raw, end
  <2>2. Len(raw) \in Nat \ {0} /\ Len(raw) - s.processed \in Nat
    BY <1>1, <1>2
  <2> QED BY <2>1, <2>2
<1> HIDE DEF raw, a, end
<1>5. CASE (Len(raw) - s.processed) \div Ratio < Stride
  <2>1. /\ grown.raw = raw /\ grown.processed = s.processed /\ grown.heard = s.heard
        /\ grown.resampled = s.resampled /\ grown.model = s.model
    BY DEF Sessions
  <2> HIDE DEF grown
  <2>2. Audible(grown) = Audible(s)
    BY <2>1 DEF Audible
  <2>3. Base(grown, c + 1) = a
    BY <1>1, <2>1 DEF Base, end
  <2>4. s.processed <= Len(raw)
    BY <1>1, <1>2
  <2>5. Whole(grown, c + 1)
    BY <1>1, <1>5, <2>1, <2>2, <2>3, <2>4 DEF Whole, a
  <2> QED BY <1>3, <1>5, <2>5
<1>6. CASE ~((Len(raw) - s.processed) \div Ratio < Stride)
  <2>1. Len(raw) >= s.processed + Stride * Ratio /\ Stride * Ratio \in Nat
    <3>1. Len(raw) - s.processed >= Stride * Ratio /\ Stride * Ratio \in Nat
      BY <1>4, <1>6, FullStride
    <3> QED BY <1>2, <1>4, <3>1
  <2>2. /\ kept \in Seq(Samples) /\ Gapless(Audible(s) \o kept) /\ Audible(s) \o kept # <<>>
        /\ Last(Audible(s) \o kept) = Last(out)
    BY <1>1, <1>4, <2>1, SeamFits DEF a
  <2>3. a + Len(raw) - Last(out) \in 0..(Ratio - 1) /\ a + Len(raw) = end
    <3>1. a + Len(raw) - Last(out) \in 0..(Ratio - 1)
      BY <1>1, <1>4, ResampledStretch
    <3> HIDE DEF out
    <3>2. a + Len(raw) = end
      <4>1. a \in Int /\ a = end - Len(raw)
        BY <1>1
      <4>2. end \in Int /\ Len(raw) \in Int
        BY <1>4
      <4> QED BY ONLY <4>1, <4>2
    <3> QED BY <3>1, <3>2
  <2> HIDE DEF kept, out
  <2>4. Overlap \in 0..Len(raw) /\ trim = Len(raw) - Overlap /\ Len(raw) - trim = Overlap
    BY <1>2, <1>4, <2>1 DEF SeamsFit
  <2> HIDE DEF trim
  <2>5. /\ From(raw, trim) \in Seq(Samples) /\ Len(From(raw, trim)) = Overlap
        /\ Stretch(From(raw, trim), end - Overlap)
    <3>1. /\ From(raw, Len(raw) - Overlap) \in Seq(Samples)
          /\ Len(From(raw, Len(raw) - Overlap)) = Overlap
          /\ Stretch(From(raw, Len(raw) - Overlap), a + Len(raw) - Overlap)
      BY <1>1, <2>4, EndOfStretch
    <3>2. a + Len(raw) - Overlap = end - Overlap
      <4>1. a \in Int /\ end \in Int /\ Len(raw) \in Int /\ Overlap \in Int
        BY <1>1, <1>4
      <4> QED BY ONLY <2>3, <4>1
    <3> QED BY <2>4, <3>1, <3>2, Zenon
  <2>6. /\ t \in Sessions /\ t.raw = From(raw, trim) /\ t.processed = Overlap
        /\ t.model = s.model /\ t.heard = s.heard
    BY <2>4, <2>5 DEF Sessions
  <2> HIDE DEF t
  <2>7. left \in Seq(Samples) /\ (~s.model => s.heard = <<>>)
    BY <2>2 DEF Sessions, Whole
  <2>8. Audible(s) \o kept = IF t.model THEN t.heard \o left ELSE left
    <3>1. s.heard \in Seq(Samples) /\ s.resampled \in Seq(Samples)
      BY DEF Sessions
    <3>2. (s.heard \o s.resampled) \o kept = s.heard \o left
      BY ONLY <2>2, <3>1, Associated, ZenonT(30)
    <3> QED BY <2>6, <3>2 DEF Audible
  <2> HIDE DEF left
  <2> DEFINE r == Processed(t, left)
  <2>9. /\ r.raw = From(raw, trim) /\ r.processed = Overlap
        /\ ~r.model => r.heard = <<>>
        /\ Gapless(Audible(r))
        /\ Audible(r) # <<>> => Last(Audible(r)) = Last(out)
    BY <2>2, <2>6, <2>7, <2>8, ProcessedAudible
  <2> HIDE DEF r
  <2>10. Base(r, c + 1) = end - Overlap
    BY <2>5, <2>9 DEF Base, end
  <2>11. (Overlap - Overlap) \div Ratio < Stride /\ Overlap # 0 /\ Overlap <= Overlap
    <3>1. Overlap - Overlap = 0 /\ 0 \div Ratio = 0
      OBVIOUS
    <3> QED BY <3>1
  <2>12. Audible(r) # <<>> =>
           (end - Overlap) + Overlap - Last(Audible(r)) \in 0..(Ratio - 1)
    <3>1. SUFFICES ASSUME Audible(r) # <<>>
                   PROVE  (end - Overlap) + Overlap - Last(Audible(r)) \in 0..(Ratio - 1)
      OBVIOUS
    <3>2. (end - Overlap) + Overlap = a + Len(raw) /\ Last(Audible(r)) = Last(out)
      BY <1>4, <2>3, <2>9, <3>1
    <3>3. Last(out) \in Int
      BY <1>1, <1>4, ResampledStretch, SMTT(30) DEF Last, Samples, out
    <3>4. a \in Int /\ end \in Int /\ Len(raw) \in Int /\ Overlap \in Int /\ Ratio \in Int
      BY <1>1, <1>4
    <3> QED BY ONLY <2>3, <3>2, <3>3, <3>4
  <2>13. Whole(r, c + 1)
    BY <2>5, <2>9, <2>10, <2>11, <2>12 DEF Whole
  <2> QED BY <1>3, <1>6, <2>13 DEF r
<1> QED BY <1>5, <1>6
\* finalize hears the rest.
LEMMA FinalizedWhole ==
    ASSUME NEW c \in Nat, NEW s \in Sessions, Whole(s, c)
    PROVE  Whole(Finalized(s), c)
<1> DEFINE f == Finalized(s)
<1>1. /\ f.raw = s.raw /\ f.processed = s.processed /\ f.model = s.model /\ f.resampled = <<>>
      /\ f.heard = IF s.model THEN s.heard \o s.resampled ELSE s.heard
  BY DEF Finalized, Sessions
<1> HIDE DEF f
<1>2. s.heard \in Seq(Samples) /\ s.resampled \in Seq(Samples)
  BY DEF Sessions
<1>3. Audible(f) = Audible(s) \/ Audible(f) = <<>>
  <2>1. CASE s.model
    <3>1. (s.heard \o s.resampled) \o <<>> = s.heard \o s.resampled
      BY <1>2
    <3> QED BY <1>1, <2>1, <3>1 DEF Audible
  <2>2. CASE ~s.model
    BY <1>1, <2>2 DEF Audible
  <2> QED BY <2>1, <2>2
<1>4. Gapless(Audible(f))
  <2>1. Gapless(<<>>)
    BY DEF Gapless
  <2> QED BY <1>3, <2>1 DEF Whole
<1>5. Base(f, c) = Base(s, c)
  BY <1>1 DEF Base
<1>6. ~s.model => f.heard = <<>>
  BY <1>1 DEF Whole
<1>7. s.processed = 0 => f.heard = <<>> /\ f.resampled = <<>>
  <2>1. s.processed = 0 => s.heard = <<>> /\ s.resampled = <<>>
    BY DEF Whole
  <2> QED BY <1>1, <2>1
<1>8. Whole(f, c)
  BY <1>1, <1>3, <1>4, <1>5, <1>6, <1>7 DEF Whole
<1> QED BY <1>8 DEF f

\* A new session has been fed nothing.
LEMMA NewSessionWhole ==
    ASSUME NEW b \in BOOLEAN, NEW c \in Nat
    PROVE  Whole(NewSession(b), c)
<1> DEFINE s == NewSession(b)
<1>1. /\ s.raw = <<>> /\ s.processed = 0 /\ s.heard = <<>> /\ s.resampled = <<>>
  BY DEF NewSession
<1> HIDE DEF s
<1>2. Audible(s) = <<>>
  BY <1>1 DEF Audible
<1>3. Gapless(<<>>) /\ Stretch(<<>>, Base(s, c))
  BY DEF Gapless, Stretch
<1>4. (Len(s.raw) - s.processed) \div Ratio < Stride
  <2>1. Len(<<>>) - 0 = 0 /\ 0 \div Ratio = 0
    OBVIOUS
  <2> QED BY <1>1, <2>1
<1>5. Whole(s, c)
  BY <1>1, <1>2, <1>3, <1>4 DEF Whole
<1> QED BY <1>5 DEF s

-----------------------------------------------------------------------------
(* The chunks that wait.                                                   *)

\* Chunks up to c, none left out.
Follows(s, c) == \A i \in 1..Len(s) : s[i] = c - Len(s) + i

\* What a replay still has to feed.
Waiting == IF loader.at = "replay" THEN loader.todo ELSE <<>>

\* Audio is held back for a load, and is the audio that came last.
BufferFollows ==
    /\ buffer # <<>> => loading /\ ~ready
    /\ Follows(buffer, sent)
    /\ ~loading => loader.at = "ended"

\* What was fed and what waits make up the recording, as far as it came.
TextIsWhole ==
    ~overtaken /\ ~gone =>
        /\ Follows(Waiting, sent)
        /\ session # NoSession => Whole(session, sent - Len(Waiting))
        /\ final # NoSession => \E c \in Nat : Whole(final, c)

TextInv == StreamInv /\ BufferFollows /\ TextIsWhole

\* The rest of what waits.
LEMMA FollowsFrom ==
    ASSUME NEW s \in Seq(1..MaxChunks), NEW c \in Int, Follows(s, c), NEW n \in 0..Len(s)
    PROVE  Follows(From(s, n), c)
<1> DEFINE t == From(s, n)
<1>1. t \in Seq(1..MaxChunks) /\ Len(t) = Len(s) - n
  BY FromType
<1>2. \A i \in 1..Len(t) : t[i] = s[n + i]
  BY <1>1 DEF From
<1> HIDE DEF t
<1>3. ASSUME NEW i \in 1..Len(t) PROVE t[i] = c - Len(t) + i
  <2>1. n + i \in 1..Len(s) /\ t[i] = s[n + i]
    BY <1>1, <1>2, SMTT(30)
  <2>2. s[n + i] = c - Len(s) + (n + i)
    BY <2>1 DEF Follows
  <2> QED BY <1>1, <2>1, <2>2
<1> QED BY <1>3 DEF Follows, t

\* The next chunk waits behind them.
LEMMA FollowsAppend ==
    ASSUME NEW s \in Seq(1..MaxChunks), NEW c \in Nat, Follows(s, c), c + 1 \in 1..MaxChunks
    PROVE  Follows(Capped(Append(s, c + 1)), c + 1)
<1> DEFINE t == Append(s, c + 1)
           n == IF Len(t) > BufferMax THEN Len(t) - BufferMax ELSE 0
<1>1. /\ t \in Seq(1..MaxChunks) /\ Len(t) = Len(s) + 1
      /\ \A i \in 1..Len(t) : t[i] = IF i <= Len(s) THEN s[i] ELSE c + 1
  OBVIOUS
<1> HIDE DEF t
<1>2. ASSUME NEW i \in 1..Len(t) PROVE t[i] = (c + 1) - Len(t) + i
  <2>1. CASE i <= Len(s)
    <3>1. i \in 1..Len(s) /\ t[i] = s[i]
      BY <1>1, <2>1
    <3>2. s[i] = c - Len(s) + i
      BY <3>1 DEF Follows
    <3> QED BY <1>1, <3>1, <3>2
  <2>2. CASE ~(i <= Len(s))
    BY <1>1, <2>2
  <2> QED BY <2>1, <2>2
<1>3. Follows(t, c + 1)
  BY <1>2 DEF Follows
<1>4. n \in 0..Len(t)
  BY <1>1
<1> HIDE DEF n
<1>5. Follows(From(t, n), c + 1)
  BY <1>1, <1>3, <1>4, FollowsFrom
<1> QED BY <1>5 DEF Capped, t, n

\* A replay feeds them in their turn.
LEMMA FedWhole ==
    ASSUME SeamsFit, NEW s \in Sessions, NEW chunks \in Seq(1..MaxChunks), NEW d \in Nat,
           Follows(chunks, d), Whole(s, d - Len(chunks)), NEW n \in 0..Len(chunks)
    PROVE  Whole(Fed(s, chunks)[n], d - Len(chunks) + n)
<1> DEFINE fed == Fed(s, chunks)
           c0 == d - Len(chunks)
           Never == {k \in 0..Len(chunks) : ~Whole(fed[k], c0 + k)}
<1>1. \A k \in 0..Len(chunks) : fed[k] = IF k = 0 THEN s ELSE AddChunk(fed[k - 1], chunks[k])
  BY FedIsDefined
<1>2. \A k \in 0..Len(chunks) : fed[k] \in Sessions
  BY FedType
<1>3. c0 \in Int /\ Whole(s, c0)
  OBVIOUS
<1> HIDE DEF fed
<1>4. SUFFICES ASSUME Never # {} PROVE FALSE
  BY DEF fed
<1>5. PICK k \in Never : \A m \in Never : k <= m
  <2>1. Never \subseteq Nat
    OBVIOUS
  <2> QED BY <1>4, <2>1, Smallest
<1>6. k # 0
  <2>1. c0 + 0 = c0 /\ 0 \in 0..Len(chunks)
    BY <1>3
  <2>2. fed[0] = s
    BY <1>1, <2>1
  <2> QED BY <1>3, <1>5, <2>1, <2>2
<1>7. k \in 1..Len(chunks) /\ k - 1 \in 0..Len(chunks) /\ k - 1 \notin Never
  BY <1>5, <1>6
<1>8. chunks[k] = (c0 + (k - 1)) + 1 /\ chunks[k] \in 1..MaxChunks /\ c0 + (k - 1) \in Nat
  BY <1>3, <1>7 DEF Follows
<1>9. fed[k - 1] \in Sessions /\ fed[k] = AddChunk(fed[k - 1], chunks[k])
  BY <1>1, <1>2, <1>6, <1>7
<1>10. Whole(fed[k - 1], c0 + (k - 1))
  BY <1>7
<1> HIDE DEF c0
<1>11. Whole(fed[k], (c0 + (k - 1)) + 1)
  BY <1>8, <1>9, <1>10, AddChunkWhole
<1>12. (c0 + (k - 1)) + 1 = c0 + k
  BY <1>3, <1>7
<1> QED BY <1>5, <1>11, <1>12
\* What waits is a number of chunks that came.
LEMMA WaitingType ==
    ASSUME StreamInv, Follows(Waiting, sent)
    PROVE  /\ Waiting \in Seq(1..MaxChunks) /\ sent \in Nat
           /\ sent - Len(Waiting) \in Nat
<1>1. Waiting \in Seq(1..MaxChunks) /\ sent \in Nat
  <2>1. loader.at = "replay" => loader.todo \in Seq(1..MaxChunks)
    BY DEF StreamInv, LoaderOK
  <2>2. sent \in Nat
    BY DEF StreamInv, CancelIsFinal, TypeOK
  <2>3. <<>> \in Seq(1..MaxChunks)
    OBVIOUS
  <2>4. CASE loader.at = "replay"
    BY <2>1, <2>2, <2>4 DEF Waiting
  <2>5. CASE loader.at # "replay"
    BY <2>2, <2>3, <2>5 DEF Waiting
  <2> QED BY <2>4, <2>5
<1>2. CASE Len(Waiting) = 0
  BY <1>1, <1>2
<1>3. CASE Len(Waiting) # 0
  <2>1. 1 \in 1..Len(Waiting) /\ Len(Waiting) \in Nat
    BY <1>1, <1>3
  <2>2. Waiting[1] = sent - Len(Waiting) + 1 /\ Waiting[1] \in 1..MaxChunks
    BY <1>1, <2>1 DEF Follows
  <2> QED BY <1>1, <2>1, <2>2
<1> QED BY <1>1, <1>2, <1>3

-----------------------------------------------------------------------------
(* Every step keeps the text whole.                                        *)

LEMMA InitIsWhole ==
    ASSUME Init
    PROVE  BufferFollows /\ TextIsWhole
<1>1. loader.at = "ended"
  BY IdleIsOK DEF Init
<1>2. BufferFollows
  BY <1>1 DEF Init, BufferFollows, Follows
<1>3. TextIsWhole
  BY <1>1 DEF Init, TextIsWhole, Waiting, Follows
<1> QED BY <1>2, <1>3

\* The loader and the model, before there is a session to feed.
LEMMA LoadStepIsWhole ==
    ASSUME TextInv,
           \/ Disable \/ (\E renamed \in BOOLEAN : Enable(renamed))
           \/ (\E i \in Instances : ThreadLoads(i))
           \/ LoaderStarts \/ ModelLoads \/ LoaderResumes \/ CreateReturns
    PROVE  BufferFollows' /\ TextIsWhole'
<1>1. UNCHANGED <<loading, session, ready, buffer, final, gone, sent, overtaken>>
  BY DEF Disable, Enable, ThreadLoads, LoaderStarts, ModelLoads, LoaderResumes,
         CreateReturns, modelVars, feedVars
<1>2. \/ loader' = loader
      \/ loader.at # "ended" /\ loader.at # "replay" /\ loader'.at # "replay"
  <2>1. loader \in [at : Running \cup {"ended"}, inst : Instances \cup {0},
                    todo : Seq(BOOLEAN) \cup Seq(1..MaxChunks)]
    BY DEF TextInv, StreamInv, LoaderOK
  <2>2. CASE LoaderStarts
    BY <2>1, <2>2 DEF LoaderStarts
  <2>3. CASE ModelLoads
    BY <2>1, <2>3 DEF ModelLoads
  <2>4. CASE LoaderResumes
    BY <2>1, <2>4, IdleIsOK DEF LoaderResumes
  <2>5. CASE CreateReturns
    <3>1. \E b : loader' = [loader EXCEPT !.at = "created", !.todo = b]
      BY <2>5 DEF CreateReturns
    <3> QED BY <2>1, <2>5, <3>1 DEF CreateReturns
  <2> QED BY <2>2, <2>3, <2>4, <2>5 DEF Disable, Enable, ThreadLoads
<1>3. Waiting' = Waiting
  BY <1>2 DEF Waiting
<1>4. BufferFollows'
  BY <1>1, <1>2 DEF TextInv, BufferFollows, Follows
<1>5. TextIsWhole'
  BY <1>1, <1>3 DEF TextInv, TextIsWhole, Follows
<1> QED BY <1>4, <1>5

\* A replay, or a piece of one.
LEMMA ReplayIsWhole ==
    ASSUME SeamsFit, LoaderOK, NEW s \in Sessions, NEW chunks \in Seq(1..MaxChunks),
           sent \in Nat, Follows(chunks, sent), Whole(s, sent - Len(chunks)),
           NEW n \in 0..Len(chunks), Replay(s, chunks, n), ~gone, sent' = sent
    PROVE  Follows(Waiting', sent') /\ Whole(session', sent' - Len(Waiting'))
<1>1. Whole(session', sent - Len(chunks) + n)
  BY FedWhole DEF Replay
<1>2. Len(chunks) \in Nat
  OBVIOUS
<1>3. CASE n = Len(chunks) /\ loader' = Idle
  <2>1. Waiting' = <<>>
    BY <1>3, IdleIsOK DEF Waiting
  <2>2. sent - Len(chunks) + n = sent - Len(<<>>)
    BY <1>2, <1>3
  <2> QED BY <1>1, <2>1, <2>2 DEF Follows
<1>4. CASE loader' = [loader EXCEPT !.at = "replay", !.todo = From(chunks, n)]
  <2>1. loader \in [at : Running \cup {"ended"}, inst : Instances \cup {0},
                    todo : Seq(BOOLEAN) \cup Seq(1..MaxChunks)]
    BY DEF LoaderOK
  <2>2. Waiting' = From(chunks, n)
    BY <1>4, <2>1 DEF Waiting
  <2>3. Follows(From(chunks, n), sent)
    BY FollowsFrom
  <2>4. Len(From(chunks, n)) = Len(chunks) - n
    BY FromType
  <2>5. sent - (Len(chunks) - n) = sent - Len(chunks) + n
    BY <1>2
  <2> QED BY <1>1, <2>2, <2>3, <2>4, <2>5
<1> QED BY <1>3, <1>4 DEF Replay
\* The session is put in place and fed what was held back, or fed on.
LEMMA FeedStepIsWhole ==
    ASSUME SeamsFit, TextInv, InstallSession \/ ReplayResumes
    PROVE  BufferFollows' /\ TextIsWhole'
<1>1. /\ UNCHANGED <<loading, final, gone, sent, overtaken>> /\ buffer' \in {<<>>, buffer}
      /\ buffer' = <<>> \/ ready' = ready
      /\ loader.at # "ended"
  BY DEF InstallSession, ReplayResumes
<1>2. BufferFollows'
  BY <1>1 DEF TextInv, BufferFollows, Follows
<1>3. SUFFICES ASSUME ~overtaken, ~gone
               PROVE  Follows(Waiting', sent') /\ Whole(session', sent' - Len(Waiting'))
  BY <1>1, <1>2 DEF TextInv, TextIsWhole
<1>4. LoaderOK /\ sent \in Nat /\ sent' = sent
  BY <1>1 DEF TextInv, StreamInv, CancelIsFinal, TypeOK
<1>5. CASE InstallSession
  <2>1. PICK b \in BOOLEAN : loader.todo = <<b>>
    BY <1>5 DEF InstallSession, TextInv, StreamInv, LoaderOK
  <2> DEFINE s == NewSession(Head(loader.todo))
  <2>2. PICK n \in 0..Len(buffer) : Replay(s, buffer, n)
    BY <1>5 DEF InstallSession
  <2>3. s = NewSession(b)
    BY <2>1
  <2> HIDE DEF s
  <2>4. buffer \in Seq(1..MaxChunks) /\ Follows(buffer, sent)
    BY DEF TextInv, BufferFollows, StreamInv, CancelIsFinal, TypeOK
  <2>5. sent - Len(buffer) \in Nat
    <3>1. CASE Len(buffer) = 0
      BY <1>4, <3>1
    <3>2. CASE Len(buffer) # 0
      <4>1. 1 \in 1..Len(buffer) /\ Len(buffer) \in Nat
        BY <2>4, <3>2
      <4>2. buffer[1] = sent - Len(buffer) + 1 /\ buffer[1] \in 1..MaxChunks
        BY <2>4, <4>1 DEF Follows
      <4> QED BY <1>4, <4>1, <4>2
    <3> QED BY <3>1, <3>2
  <2>6. s \in Sessions /\ Whole(s, sent - Len(buffer))
    BY <2>3, <2>5, NewSessionType, NewSessionWhole
  <2> QED BY <1>3, <1>4, <2>2, <2>4, <2>6, ReplayIsWhole
<1>6. CASE ReplayResumes
  <2>1. /\ loader.at = "replay" /\ loader.todo \in Seq(1..MaxChunks) /\ session \in Sessions
        /\ session # NoSession
    BY <1>6 DEF ReplayResumes, TextInv, StreamInv, LoaderOK, CancelIsFinal, TypeOK
  <2>2. Waiting = loader.todo
    BY <2>1 DEF Waiting
  <2>3. Follows(loader.todo, sent) /\ Whole(session, sent - Len(loader.todo))
    BY <1>3, <2>1, <2>2 DEF TextInv, TextIsWhole
  <2>4. PICK n \in 0..Len(loader.todo) : Replay(session, loader.todo, n)
    <3>1. Len(loader.todo) \in Nat
      BY <2>1
    <3> QED BY <1>3, <1>6, <3>1 DEF ReplayResumes
  <2> QED BY <1>3, <1>4, <2>1, <2>3, <2>4, ReplayIsWhole
<1> QED BY <1>1, <1>5, <1>6

\* What a cancelled session was fed is what it is finalized with.
LEMMA CancelIsWhole ==
    ASSUME TextInv, CancelStreaming, UNCHANGED <<gone, overtaken>>
    PROVE  BufferFollows' /\ TextIsWhole'
<1>1. StreamInv
  BY DEF TextInv
<1>2. /\ loader' = Idle /\ session' = NoSession /\ loading' = FALSE /\ buffer' = <<>>
  BY <1>1, CancelKeeps
<1>3. Waiting' = <<>>
  BY <1>2, IdleIsOK DEF Waiting
<1>4. BufferFollows'
  BY <1>2, IdleIsOK DEF BufferFollows, Follows
<1>5. SUFFICES ASSUME ~overtaken, ~gone, final' # NoSession
               PROVE  \E c \in Nat : Whole(final', c)
  BY <1>2, <1>3, <1>4 DEF TextIsWhole, Follows
<1>6. CASE session # NoSession
  <2>1. Follows(Waiting, sent) /\ Whole(session, sent - Len(Waiting)) /\ final' = session
    BY <1>5, <1>6 DEF TextInv, TextIsWhole, CancelStreaming
  <2>2. sent - Len(Waiting) \in Nat
    BY <1>1, <2>1, WaitingType
  <2> QED BY <2>1, <2>2
<1>7. CASE session = NoSession
  <2>1. final' = final
    BY <1>7 DEF CancelStreaming
  <2> QED BY <1>5, <2>1 DEF TextInv, TextIsWhole
<1> QED BY <1>6, <1>7

\* The other steps of the loader and of the handler.
LEMMA EndStepIsWhole ==
    ASSUME TextInv,
           LoadFails \/ Config \/ ClientGone \/ Leave \/ Stop \/ FinalizeStreaming \/ UNCHANGED vars
    PROVE  BufferFollows' /\ TextIsWhole'
<1>1. CASE LoadFails
  <2>1. /\ loader' = Idle /\ session' = NoSession /\ buffer' = <<>>
        /\ UNCHANGED <<final, gone, overtaken>>
    BY <1>1 DEF LoadFails, BufferAfterFailure
  <2>2. Waiting' = <<>> /\ loader'.at = "ended"
    BY <2>1, IdleIsOK DEF Waiting
  <2> QED BY <2>1, <2>2 DEF TextInv, BufferFollows, TextIsWhole, Follows
<1>2. CASE Config
  <2>1. /\ loader' = [Idle EXCEPT !.at = "start"] /\ loading' = TRUE /\ ~loading
        /\ UNCHANGED <<session, ready, buffer, final, gone, sent, overtaken>>
    BY <1>2 DEF Config, feedVars
  <2>2. Waiting' = <<>> /\ loader.at = "ended"
    BY <2>1, IdleIsOK DEF Waiting, TextInv, BufferFollows, Idle
  <2>3. Waiting = <<>>
    BY <2>2 DEF Waiting
  <2> QED BY <2>1, <2>2, <2>3 DEF TextInv, BufferFollows, TextIsWhole, Follows
<1>3. CASE ClientGone
  <2>1. gone' /\ UNCHANGED <<loading, loader, ready, buffer, sent>>
    BY <1>3 DEF ClientGone, feedVars
  <2> QED BY <2>1 DEF TextInv, BufferFollows, TextIsWhole, Follows
<1>4. CASE Leave \/ Stop
  BY <1>4, CancelIsWhole DEF Leave, Stop
<1>5. CASE FinalizeStreaming
  <2>1. /\ final' = Finalized(final) /\ place = "finalizing"
        /\ UNCHANGED <<loader, loading, session, ready, buffer, gone, sent, overtaken>>
    BY <1>5 DEF FinalizeStreaming, feedVars
  <2>2. final \in Sessions
    BY <2>1 DEF TextInv, StreamInv, FinalOK, CancelIsFinal, TypeOK
  <2>3. final # NoSession
    BY <2>2
  <2>4. ~overtaken /\ ~gone => \E c \in Nat : Whole(final', c)
    <3>1. SUFFICES ASSUME ~overtaken, ~gone PROVE \E c \in Nat : Whole(final', c)
      OBVIOUS
    <3>2. PICK c \in Nat : Whole(final, c)
      BY <2>3, <3>1 DEF TextInv, TextIsWhole
    <3> QED BY <2>1, <2>2, <3>2, FinalizedWhole
  <2>5. Waiting' = Waiting
    BY <2>1 DEF Waiting
  <2> QED BY <2>1, <2>4, <2>5 DEF TextInv, BufferFollows, TextIsWhole, Follows
<1>6. CASE UNCHANGED vars
  <2>1. Waiting' = Waiting
    BY <1>6 DEF Waiting, vars
  <2> QED BY <1>6, <2>1 DEF vars, feedVars, TextInv, BufferFollows, TextIsWhole, Follows
<1> QED BY <1>1, <1>2, <1>3, <1>4, <1>5, <1>6
\* A chunk is fed in its turn, or waits in its turn, or the text is not whole
\* any more because it overtakes a replay.
LEMMA HandleChunkIsWhole ==
    ASSUME SeamsFit, TextInv, HandleChunk
    PROVE  BufferFollows' /\ TextIsWhole'
<1>1. /\ sent' = sent + 1 /\ sent' \in 1..MaxChunks /\ sent \in Nat /\ UNCHANGED gone
  BY DEF HandleChunk, TextInv, StreamInv, CancelIsFinal, TypeOK
<1>2. CASE CancelStreaming /\ UNCHANGED overtaken
  BY <1>1, <1>2, CancelIsWhole
<1>3. CASE /\ ~loading /\ session = NoSession
           /\ UNCHANGED <<loader, loading, final, session, ready, buffer, overtaken>>
  <2>1. buffer = <<>> /\ loader.at = "ended"
    BY <1>3 DEF TextInv, BufferFollows
  <2>2. Waiting' = <<>> /\ Waiting = <<>>
    BY <1>3, <2>1 DEF Waiting
  <2> QED BY <1>1, <1>3, <2>1, <2>2 DEF TextInv, BufferFollows, TextIsWhole, Follows
<1>4. CASE /\ ready
           /\ session' = AddChunk(session, sent')
           /\ overtaken' = (overtaken \/ loader.at = "replay")
           /\ UNCHANGED <<loader, loading, final, ready, buffer>>
  <2>1. buffer = <<>> /\ session \in Sessions /\ session # NoSession
    BY <1>4 DEF TextInv, BufferFollows, StreamInv, CancelIsFinal, TypeOK
  <2>2. BufferFollows'
    BY <1>4, <2>1 DEF TextInv, BufferFollows, Follows
  <2>3. SUFFICES ASSUME ~overtaken', ~gone
                 PROVE  Follows(Waiting', sent') /\ Whole(session', sent' - Len(Waiting'))
    BY <1>1, <1>4, <2>2, <2>3 DEF TextInv, TextIsWhole
  <2>4. ~overtaken /\ Waiting = <<>> /\ Waiting' = <<>>
    BY <1>4, <2>3 DEF Waiting
  <2>5. sent - Len(<<>>) = sent /\ sent' - Len(<<>>) = sent'
    BY <1>1
  <2>6. Whole(session, sent)
    BY <2>1, <2>3, <2>4, <2>5 DEF TextInv, TextIsWhole
  <2>7. Whole(session', sent')
    BY <1>1, <1>4, <2>1, <2>6, AddChunkWhole
  <2> QED BY <2>4, <2>5, <2>7 DEF Follows
<1>5. CASE /\ loading /\ ~ready
           /\ buffer' = Capped(Append(buffer, sent'))
           /\ UNCHANGED <<loader, loading, final, session, ready, overtaken>>
  <2>1. buffer \in Seq(1..MaxChunks) /\ Follows(buffer, sent) /\ session = NoSession
    BY <1>5 DEF TextInv, BufferFollows, StreamInv, CancelIsFinal, TypeOK
  <2>2. Follows(buffer', sent')
    BY <1>1, <1>5, <2>1, FollowsAppend
  <2>3. loader.at # "replay"
    BY <1>5 DEF TextInv, StreamInv, LoaderOK
  <2>4. Waiting' = <<>>
    BY <1>5, <2>3 DEF Waiting
  <2>5. BufferFollows'
    BY <1>5, <2>2 DEF TextInv, BufferFollows
  <2>6. TextIsWhole'
    BY <1>1, <1>5, <2>1, <2>4 DEF TextInv, TextIsWhole, Follows
  <2> QED BY <2>5, <2>6
<1>6. enabled \in BOOLEAN /\ ready \in BOOLEAN /\ loading \in BOOLEAN /\ (~ready => session = NoSession)
  BY DEF TextInv, StreamInv, CancelIsFinal, TypeOK
<1> QED BY <1>2, <1>3, <1>4, <1>5, <1>6 DEF HandleChunk, feedVars

LEMMA NextKeepsText == SeamsFit => (TextInv /\ [Next]_vars => TextInv')
<1>1. SUFFICES ASSUME SeamsFit, TextInv, [Next]_vars PROVE TextInv'
  OBVIOUS
<1>2. StreamInv'
  BY <1>1, NextKeepsStreamInv DEF TextInv
<1>3. BufferFollows' /\ TextIsWhole'
  BY <1>1, LoadStepIsWhole, FeedStepIsWhole, EndStepIsWhole, HandleChunkIsWhole DEF Next, LoaderStep
<1> QED BY <1>2, <1>3 DEF TextInv

\* What a whole session has heard.
LEMMA WholeIsHeard ==
    ASSUME NEW c \in Int, NEW s \in Sessions, Whole(s, c)
    PROVE  /\ Gapless(s.heard \o s.resampled)
           /\ s.heard # <<>> /\ s.resampled = <<>> =>
                Last(s.raw) - Last(s.heard) < Ratio * (Stride + 1)
<1>1. /\ s.heard \in Seq(Samples) /\ s.resampled \in Seq(Samples) /\ s.raw \in Seq(Samples)
      /\ s.model \in BOOLEAN
  BY DEF Sessions
<1>2. Gapless(s.heard \o s.resampled)
  <2>1. CASE s.model
    BY <2>1 DEF Whole, Audible
  <2>2. CASE ~s.model
    <3>1. s.heard = <<>> /\ <<>> \o s.resampled = s.resampled
      BY <1>1, <2>2 DEF Whole
    <3> QED BY <2>2, <3>1 DEF Whole, Audible
  <2> QED BY <2>1, <2>2
<1>3. ASSUME s.heard # <<>>, s.resampled = <<>>
      PROVE  Last(s.raw) - Last(s.heard) < Ratio * (Stride + 1)
  <2>1. s.model /\ s.processed = Overlap /\ Overlap <= Len(s.raw)
    BY <1>3 DEF Whole
  <2>2. Audible(s) = s.heard
    <3>1. s.heard \o <<>> = s.heard
      BY <1>1
    <3> QED BY <1>3, <2>1, <3>1 DEF Audible
  <2> DEFINE a == Base(s, c)
             n == Len(s.raw) - Overlap
             e == Last(s.heard)
             d == n \div Ratio
             k == d * Ratio
             w == Stride * Ratio
  <2>3. a + Overlap - e \in 0..(Ratio - 1)
    BY <1>3, <2>1, <2>2 DEF Whole
  <2>4. Len(s.raw) \in 1..Len(s.raw) /\ n \in Nat
    BY <1>1, <2>1
  <2>5. Last(s.raw) = a + Len(s.raw)
    BY <2>4 DEF Whole, Stretch, Last
  <2>6. d < Stride
    BY <2>1 DEF Whole
  <2>7. a \in Int /\ e \in Int
    <3>1. a \in Int
      BY <1>1 DEF Base
    <3>2. Len(s.heard) \in 1..Len(s.heard)
      BY <1>1, <1>3
    <3> QED BY <1>1, <3>1, <3>2 DEF Last, Samples
  <2> HIDE DEF a, e
  <2>8. n = Len(s.raw) - Overlap /\ Len(s.raw) \in Nat
    BY <2>4
  <2> HIDE DEF n
  <2>9. d \in Nat /\ k \in Nat /\ n < k + Ratio
    BY <2>4, Division
  <2>10. Ratio * (Stride + 1) = w + Ratio /\ w \in Nat
    OBVIOUS
  <2>11. k <= w - Ratio
    <3> HIDE DEF d
    <3>1. (d + 1) * Ratio <= Stride * Ratio
      BY <2>6, <2>9, Products
    <3>2. (d + 1) * Ratio = k + Ratio
      BY <2>9
    <3> QED BY <2>9, <2>10, <3>1, <3>2
  <2> HIDE DEF k, w, d
  <2> QED BY SMTT(30), <2>3, <2>5, <2>7, <2>8, <2>9, <2>10, <2>11 DEF a, e
<1> QED BY <1>2, <1>3

\* "On completion they replay into the fresh session so no audio is lost"
\* (record.py:85-86), across the buffer, its replay and the seams of the
\* resampling, for chunks and settings changes of any number, and to the end of
\* the recording but for what was short of a stride.
THEOREM TextIsWhatWasSaid == ASSUME SeamsFit PROVE Spec => []TextIsTheRecording
<1>1. Init => TextInv
  BY InitEstablishesStreamInv, InitIsWhole DEF TextInv
<1>2. TextInv /\ [Next]_vars => TextInv'
  BY NextKeepsText
<1>3. TextInv => TextIsTheRecording
  <2>1. SUFFICES ASSUME TextInv PROVE TextIsTheRecording
    OBVIOUS
  <2>2. {session, final} \ {NoSession} \subseteq Sessions
    BY <2>1 DEF TextInv, StreamInv, CancelIsFinal, TypeOK
  <2>3. ASSUME ~overtaken, ~gone, NEW s \in {session, final} \ {NoSession}
        PROVE  \E c \in Int : Whole(s, c)
    <3>1. CASE s = session
      <4>1. Follows(Waiting, sent) /\ Whole(session, sent - Len(Waiting))
        BY <2>1, <2>3, <3>1 DEF TextInv, TextIsWhole
      <4>2. sent - Len(Waiting) \in Nat
        BY <2>1, <4>1, WaitingType DEF TextInv
      <4> QED BY <3>1, <4>1, <4>2
    <3>2. CASE s = final
      BY <2>1, <2>3, <3>2 DEF TextInv, TextIsWhole
    <3> QED BY <2>3, <3>1, <3>2
  <2>4. HeardInOrder
    BY <2>2, <2>3, WholeIsHeard DEF HeardInOrder
  <2>5. FinalTextIsWhole
    BY <2>2, <2>3, WholeIsHeard DEF FinalTextIsWhole
  <2> QED BY <2>4, <2>5 DEF TextIsTheRecording
<1> QED BY <1>1, <1>2, <1>3, PTL DEF Spec

=============================================================================

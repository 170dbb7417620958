-------------------------- MODULE GapCapture_proofs --------------------------
(***************************************************************************)
(* The retained audio of the outages, for every length of the recording    *)
(* and every number of outages, while nothing else happens in the window   *)
(* of a finalizeGapCapture (Hurry = FALSE, the calm recording: with        *)
(* Hurry = TRUE the three properties fail).                                *)
(*                                                                         *)
(* The properties speak of gapBlob and gapChunks only.  They are not       *)
(* inductive: what a later step moves there is still in a slice that is    *)
(* queued, or in the recorder.  GapInv follows the audio all the way.      *)
(***************************************************************************)
EXTENDS GapCapture, TLAPS

\* Every unit of the set A was heard before every unit of the set B.
Below(A, B) == \A a \in A, b \in B : a < b

\* The recorder of the outage is the only one that runs, and it runs for the
\* outage only.
OneRecorder ==
    /\ phase = "outage" <=> gapRecorder # Null
    /\ phase = "outage" => running = {gapRecorder} /\ finalizing = {}
    /\ phase # "outage" => running = finalizing
    /\ phase = "stopping" => finalizing \subseteq {awaited}

\* A recorder that was not created yet holds nothing.
NewIsEmpty ==
    \A r \in Recorders : r > made => held[r] = <<>> /\ r \notin running

\* gapChunks are waiting for a recorder or for the finalize that joins them.
ChunksAreJoined ==
    /\ phase # "outage" /\ finalizing = {} => gapChunks = <<>>
    /\ phase \in {"ended", "cancelled"} => gapChunks = <<>> /\ gapBlob = <<>>
    /\ phase # "ended" => uploaded = <<>>

\* What was retained, in gapBlob, gapChunks and the upload.
RetainedIsOrdered ==
    /\ missed \subseteq 1..heard
    /\ Range(gapBlob) \subseteq missed
    /\ Range(gapChunks) \subseteq missed
    /\ Range(uploaded) \subseteq missed
    /\ Increasing(gapBlob) /\ Increasing(gapChunks) /\ Increasing(uploaded)
    /\ Below(Range(gapBlob), Range(gapChunks))

\* A slice in order, of the units M, later than what is retained in B and C.
Later(s, B, C, M) ==
    /\ Increasing(s)
    /\ Range(s) \subseteq M
    /\ Below(B, Range(s))
    /\ Below(C, Range(s))

\* A slice on its way.
SliceIsLater(s) == Later(s, Range(gapBlob), Range(gapChunks), missed)

\* In an outage, the slices queued and what the recorder holds.
SlicesAreOrdered ==
    gapRecorder # Null =>
        /\ SliceIsLater(held[gapRecorder])
        /\ \A i \in DOMAIN events :
              /\ SliceIsLater(events[i])
              /\ Below(Range(events[i]), Range(held[gapRecorder]))
        /\ \A i, j \in DOMAIN events :
              i < j => Below(Range(events[i]), Range(events[j]))

GapInv ==
    /\ TypeOK
    /\ OneRecorder
    /\ NewIsEmpty
    /\ ChunksAreJoined
    /\ RetainedIsOrdered
    /\ SlicesAreOrdered
    /\ KeptSlicesSurvive

\* The hypothesis of the theorems: neither a drop nor a stop comes while an
\* earlier finalizeGapCapture waits.
Calm == Hurry = FALSE

-----------------------------------------------------------------------------
(* Sequences of units: what joining, appending and taking away do to the    *)
(* units in them and to their order.                                        *)

LEMMA EmptySlice ==
    /\ <<>> \in Seq(Units) /\ Range(<<>>) = {} /\ Increasing(<<>>)
  BY DEF Range, Increasing

LEMMA RangeOfUnits ==
    ASSUME NEW s \in Seq(Units)
    PROVE  Range(s) \subseteq Units /\ (s # <<>> => Range(s) # {})
  BY DEF Range

\* Joining two parts keeps the units of both, and the order if each is in
\* order and the first was heard before the second.
LEMMA Joining ==
    ASSUME NEW s \in Seq(Units), NEW t \in Seq(Units)
    PROVE  /\ s \o t \in Seq(Units)
           /\ Range(s \o t) = Range(s) \cup Range(t)
           /\ Increasing(s) /\ Increasing(t) /\ Below(Range(s), Range(t))
                => Increasing(s \o t)
<1> DEFINE j == s \o t
<1>1. /\ j \in Seq(Units) /\ DOMAIN j = 1..(Len(s) + Len(t))
      /\ \A i \in 1..Len(s) : j[i] = s[i]
      /\ \A i \in (Len(s) + 1)..(Len(s) + Len(t)) : j[i] = t[i - Len(s)]
  OBVIOUS
<1>2. Range(j) \subseteq Range(s) \cup Range(t)
  <2> SUFFICES ASSUME NEW i \in DOMAIN j PROVE j[i] \in Range(s) \cup Range(t)
    BY DEF Range
  <2>1. CASE i \in 1..Len(s)
    BY <2>1, <1>1 DEF Range
  <2>2. CASE i \notin 1..Len(s)
    <3>1. i - Len(s) \in DOMAIN t /\ j[i] = t[i - Len(s)]
      BY <2>2, <1>1
    <3> QED BY <3>1 DEF Range
  <2> QED BY <2>1, <2>2
<1>3. Range(s) \subseteq Range(j)
  BY <1>1 DEF Range
<1>4. Range(t) \subseteq Range(j)
  <2> SUFFICES ASSUME NEW k \in DOMAIN t PROVE t[k] \in Range(j)
    BY DEF Range
  <2>1. Len(s) + k \in DOMAIN j /\ j[Len(s) + k] = t[k]
    BY <1>1
  <2> QED BY <2>1 DEF Range
<1>5. ASSUME Increasing(s), Increasing(t), Below(Range(s), Range(t))
      PROVE  Increasing(j)
  <2> SUFFICES ASSUME NEW a \in DOMAIN j, NEW b \in DOMAIN j, a < b
               PROVE  j[a] < j[b]
    BY DEF Increasing
  <2>1. CASE b <= Len(s)
    BY <2>1, <1>1, <1>5 DEF Increasing
  <2>2. CASE a > Len(s)
    <3>1. /\ a - Len(s) \in DOMAIN t /\ b - Len(s) \in DOMAIN t
          /\ j[a] = t[a - Len(s)] /\ j[b] = t[b - Len(s)]
          /\ a - Len(s) < b - Len(s)
      BY <2>2, <1>1
    <3> QED BY <3>1, <1>5 DEF Increasing
  <2>3. CASE a <= Len(s) /\ b > Len(s)
    <3>1. /\ a \in DOMAIN s /\ b - Len(s) \in DOMAIN t
          /\ j[a] = s[a] /\ j[b] = t[b - Len(s)]
      BY <2>3, <1>1
    <3> QED BY <3>1, <1>5 DEF Below, Range
  <2> QED BY <2>1, <2>2, <2>3, <1>1
<1> QED BY <1>1, <1>2, <1>3, <1>4, <1>5

\* A recorder collects the unit heard last.
LEMMA Collecting ==
    ASSUME NEW s \in Seq(Units), NEW u \in Units
    PROVE  /\ Append(s, u) \in Seq(Units)
           /\ Range(Append(s, u)) = Range(s) \cup {u}
           /\ Increasing(s) /\ Below(Range(s), {u}) => Increasing(Append(s, u))
<1>1. Append(s, u) = s \o <<u>> /\ <<u>> \in Seq(Units)
  OBVIOUS
<1>2. Range(<<u>>) = {u} /\ Increasing(<<u>>)
  BY DEF Range, Increasing
<1> QED BY <1>1, <1>2, Joining

\* A slice is queued behind the others.
LEMMA Queueing ==
    ASSUME NEW q \in Seq(Seq(Units)), NEW d \in Seq(Units)
    PROVE  /\ Append(q, d) \in Seq(Seq(Units))
           /\ DOMAIN Append(q, d) = DOMAIN q \cup {Len(q) + 1}
           /\ \A i \in DOMAIN q : Append(q, d)[i] = q[i] /\ i < Len(q) + 1
           /\ Append(q, d)[Len(q) + 1] = d
  OBVIOUS

\* The first slice is dispatched.
LEMMA Dispatching ==
    ASSUME NEW q \in Seq(Seq(Units)), q # <<>>
    PROVE  /\ Tail(q) \in Seq(Seq(Units)) /\ Head(q) \in Seq(Units)
           /\ 1 \in DOMAIN q /\ Head(q) = q[1]
           /\ \A i \in DOMAIN Tail(q) :
                 i + 1 \in DOMAIN q /\ 1 < i + 1 /\ Tail(q)[i] = q[i + 1]
  OBVIOUS

-----------------------------------------------------------------------------
(* The recorders and the phases.                                            *)

LEMMA InitGap == Init => GapInv
<1> SUFFICES ASSUME Init PROVE GapInv
  OBVIOUS
<1> USE GapAssumption DEF GapAssumption, Init, Recorders, Null, Phases
<1>1. TypeOK
  BY EmptySlice DEF TypeOK
<1>2. OneRecorder /\ NewIsEmpty /\ ChunksAreJoined /\ SlicesAreOrdered
  BY DEF OneRecorder, NewIsEmpty, ChunksAreJoined, SlicesAreOrdered
<1>3. RetainedIsOrdered /\ KeptSlicesSurvive
  BY EmptySlice DEF RetainedIsOrdered, KeptSlicesSurvive, Below
<1> QED BY <1>1, <1>2, <1>3 DEF GapInv

\* What is queued stays well typed.
LEMMA QueueTyped ==
    ASSUME TypeOK, NEW d \in Seq(Units)
    PROVE  Queue(d) \in Seq(Seq(Units))
  BY Queueing DEF Queue, TypeOK

\* BeginFinalize leaves the recorder running, detached and empty.
LEMMA Beginning ==
    ASSUME TypeOK, OneRecorder, BeginFinalize, GapAssumption
    PROVE  /\ gapRecorder' = Null
           /\ held' \in [Recorders -> Seq(Units)]
           /\ events' \in Seq(Seq(Units))
           /\ \A r \in Recorders : held[r] = <<>> => held'[r] = <<>>
           /\ finalizing' = IF gapRecorder = Null THEN finalizing
                            ELSE finalizing \cup {gapRecorder}
<1>1. CASE gapRecorder = Null
  BY <1>1 DEF BeginFinalize, TypeOK
<1>2. CASE gapRecorder # Null
  <2>1. gapRecorder \in Recorders /\ held[gapRecorder] \in Seq(Units)
    BY <1>2 DEF TypeOK
  <2>2. events' \in Seq(Seq(Units))
    BY <1>2, <2>1, QueueTyped DEF BeginFinalize
  <2> QED BY <1>2, <2>1, <2>2, EmptySlice DEF BeginFinalize, TypeOK
<1> QED BY <1>1, <1>2

LEMMA ControlInvariant ==
    ASSUME Calm, GapInv, [Next]_vars
    PROVE  (TypeOK /\ OneRecorder /\ NewIsEmpty /\ ChunksAreJoined)'
<1> DEFINE Control == TypeOK /\ OneRecorder /\ NewIsEmpty /\ ChunksAreJoined
<1> USE GapAssumption DEF GapAssumption, Null, Phases
<1>0. TypeOK /\ OneRecorder /\ NewIsEmpty /\ ChunksAreJoined
  BY DEF GapInv
<1>1. CASE Hear
  <2>1. heard + 1 \in Units /\ heard' \in 0..MaxAudio
    BY <1>0, <1>1 DEF Hear, TypeOK, Units
  <2>2. \A r \in Recorders : held[r] \in Seq(Units) /\ Append(held[r], heard + 1) \in Seq(Units)
    BY <1>0, <2>1, Collecting DEF TypeOK
  <2>3. held' \in [Recorders -> Seq(Units)]
    BY <1>1, <2>2 DEF Hear
  <2>4. TypeOK'
    BY <1>0, <1>1, <2>1, <2>3 DEF Hear, TypeOK
  <2>5. NewIsEmpty'
    BY <1>0, <1>1 DEF Hear, NewIsEmpty
  <2> QED BY <1>0, <1>1, <2>4, <2>5 DEF Hear, OneRecorder, ChunksAreJoined
<1>2. ASSUME NEW r \in Recorders, Slice(r) PROVE Control'
  <2>1. events' \in Seq(Seq(Units))
    BY <1>0, <1>2, QueueTyped DEF Slice, TypeOK
  <2>2. held' \in [Recorders -> Seq(Units)]
    BY <1>0, <1>2, EmptySlice DEF Slice, TypeOK
  <2>3. TypeOK'
    BY <1>0, <1>2, <2>1, <2>2 DEF Slice, TypeOK
  <2>4. NewIsEmpty'
    BY <1>0, <1>2 DEF Slice, NewIsEmpty, TypeOK
  <2> QED BY <1>0, <1>2, <2>3, <2>4 DEF Slice, OneRecorder, ChunksAreJoined
<1>3. CASE KeepSlice
  <2>1. Tail(events) \in Seq(Seq(Units)) /\ Head(events) \in Seq(Units)
    BY <1>0, <1>3, Dispatching DEF KeepSlice, TypeOK
  <2>2. /\ gapChunks \o Head(events) \in Seq(Units)
        /\ Range(Head(events)) \subseteq Units
    BY <1>0, <2>1, Joining, RangeOfUnits DEF TypeOK
  <2>3. TypeOK'
    BY <1>0, <1>3, <2>1, <2>2 DEF KeepSlice, TypeOK
  <2>4. OneRecorder' /\ NewIsEmpty'
    BY <1>0, <1>3 DEF KeepSlice, OneRecorder, NewIsEmpty
  <2>5. ChunksAreJoined'
    BY <1>0, <1>3 DEF KeepSlice, OneRecorder, ChunksAreJoined
  <2> QED BY <2>3, <2>4, <2>5
<1>4. ASSUME NEW r \in Recorders, FinishFinalize(r) PROVE Control'
  <2>1. events' \in Seq(Seq(Units))
    BY <1>0, <1>4, QueueTyped DEF FinishFinalize, TypeOK
  <2>2. held' \in [Recorders -> Seq(Units)]
    BY <1>0, <1>4, EmptySlice DEF FinishFinalize, TypeOK
  <2>3. gapBlob' \in Seq(Units) /\ gapChunks' = <<>> /\ gapChunks' \in Seq(Units)
    BY <1>0, <1>4, Joining, EmptySlice DEF FinishFinalize, JoinedBlob, TypeOK
  <2>4. phase # "outage" /\ gapRecorder = Null
    BY <1>0, <1>4 DEF FinishFinalize, OneRecorder
  <2>5. TypeOK'
    BY <1>0, <1>4, <2>1, <2>2, <2>3, <2>4 DEF FinishFinalize, TypeOK
  <2>6. OneRecorder'
    BY <1>0, <1>4, <2>4 DEF FinishFinalize, OneRecorder
  <2>7. NewIsEmpty'
    BY <1>0, <1>4 DEF FinishFinalize, NewIsEmpty, TypeOK
  <2>8. ChunksAreJoined'
    BY <1>0, <1>4 DEF FinishFinalize, JoinedBlob, ChunksAreJoined
  <2> QED BY <2>5, <2>6, <2>7, <2>8
<1>5. CASE LoseConnection
  <2>1. /\ gapRecorder = Null /\ finalizing = {} /\ running = {}
        /\ made + 1 \in Recorders /\ made + 1 # Null
    BY <1>0, <1>5 DEF LoseConnection, Calm, Settled, OneRecorder, TypeOK, Recorders
  <2>2. /\ phase' = "outage" /\ made' = made + 1 /\ gapRecorder' = made + 1
        /\ running' = {made + 1} /\ gapChunks' = <<>>
    BY <1>5, <2>1 DEF LoseConnection
  <2>3. TypeOK'
    BY <1>0, <1>5, <2>1, <2>2, EmptySlice DEF LoseConnection, TypeOK, Recorders
  <2>4. OneRecorder'
    BY <1>5, <2>1, <2>2 DEF LoseConnection, OneRecorder
  <2>5. NewIsEmpty'
    BY <1>0, <1>5, <2>1, <2>2 DEF LoseConnection, NewIsEmpty, Recorders, TypeOK
  <2>6. ChunksAreJoined'
    BY <1>0, <1>5, <2>2 DEF LoseConnection, ChunksAreJoined
  <2> QED BY <2>3, <2>4, <2>5, <2>6
<1>6. CASE Reconnect
  <2>1. /\ gapRecorder' = Null
        /\ held' \in [Recorders -> Seq(Units)]
        /\ events' \in Seq(Seq(Units))
        /\ \A r \in Recorders : held[r] = <<>> => held'[r] = <<>>
        /\ finalizing' = {gapRecorder} /\ running' = {gapRecorder}
    BY <1>0, <1>6, Beginning DEF Reconnect, OneRecorder
  <2>2. TypeOK'
    BY <1>0, <1>6, <2>1 DEF Reconnect, TypeOK
  <2>3. OneRecorder' /\ ChunksAreJoined'
    BY <1>0, <1>6, <2>1 DEF Reconnect, OneRecorder, ChunksAreJoined
  <2>4. NewIsEmpty'
    BY <1>0, <1>6, <2>1 DEF Reconnect, NewIsEmpty
  <2> QED BY <2>2, <2>3, <2>4
<1>7. CASE StopRecording
  <2>1. /\ gapRecorder' = Null /\ awaited' = gapRecorder
        /\ held' \in [Recorders -> Seq(Units)]
        /\ events' \in Seq(Seq(Units))
        /\ \A r \in Recorders : held[r] = <<>> => held'[r] = <<>>
        /\ finalizing' = running
        /\ finalizing' \subseteq {awaited'}
        /\ gapRecorder = Null => finalizing' = {}
    BY <1>0, <1>7, Beginning DEF StopRecording, OneRecorder, Calm, Settled
  <2>2. TypeOK'
    BY <1>0, <1>7, <2>1 DEF StopRecording, TypeOK
  <2>3. OneRecorder'
    BY <1>0, <1>7, <2>1 DEF StopRecording, OneRecorder
  <2>4. ChunksAreJoined'
    BY <1>0, <1>7, <2>1 DEF StopRecording, OneRecorder, ChunksAreJoined
  <2>5. NewIsEmpty'
    BY <1>0, <1>7, <2>1 DEF StopRecording, NewIsEmpty
  <2> QED BY <2>2, <2>3, <2>4, <2>5
<1>8. CASE StopDone
  <2>1. gapRecorder = Null /\ running = {} /\ finalizing = {}
    BY <1>0, <1>8 DEF StopDone, OneRecorder
  <2>2. TypeOK'
    BY <1>0, <1>8, <2>1, EmptySlice DEF StopDone, DiscardGap, TypeOK
  <2>3. OneRecorder' /\ ChunksAreJoined' /\ NewIsEmpty'
    BY <1>0, <1>8, <2>1 DEF StopDone, DiscardGap, OneRecorder, ChunksAreJoined, NewIsEmpty
  <2> QED BY <2>2, <2>3
<1>9. CASE CancelRecording
  <2>1. /\ running' = finalizing
        /\ gapRecorder' = Null
    <3>1. CASE phase = "outage"
      BY <3>1, <1>0, <1>9 DEF CancelRecording, DiscardGap, OneRecorder
    <3>2. CASE phase # "outage"
      <4>1. 0 \notin finalizing /\ gapRecorder = 0 /\ running = finalizing
        BY <3>2, <1>0 DEF OneRecorder, TypeOK, Recorders
      <4>2. running' = running \ {0} /\ gapRecorder' = 0
        BY <4>1, <1>9 DEF CancelRecording, DiscardGap
      <4> QED BY <4>1, <4>2
    <3> QED BY <3>1, <3>2
  <2>2. TypeOK'
    BY <1>0, <1>9, <2>1, EmptySlice DEF CancelRecording, DiscardGap, TypeOK
  <2>3. OneRecorder' /\ ChunksAreJoined'
    BY <1>0, <1>9, <2>1 DEF CancelRecording, DiscardGap, OneRecorder, ChunksAreJoined
  <2>4. NewIsEmpty'
    BY <1>0, <1>9 DEF CancelRecording, DiscardGap, NewIsEmpty
  <2> QED BY <2>2, <2>3, <2>4
<1>10. CASE UNCHANGED vars
  BY <1>0, <1>10 DEF vars, TypeOK, OneRecorder, NewIsEmpty, ChunksAreJoined
<1> QED
  BY <1>1, <1>2, <1>3, <1>4, <1>5, <1>6, <1>7, <1>8, <1>9, <1>10 DEF Next

-----------------------------------------------------------------------------
(* The audio.                                                               *)

\* A part without units is in order with every other one.
LEMMA BelowEmpty ==
    ASSUME NEW A PROVE Below(A, {}) /\ Below({}, A)
  BY DEF Below

LEMMA OrderInvariant ==
    ASSUME Calm, GapInv, [Next]_vars
    PROVE  (RetainedIsOrdered /\ SlicesAreOrdered)'
<1> DEFINE Ordered == RetainedIsOrdered /\ SlicesAreOrdered
           LaterNow(s) == Later(s, Range(gapBlob), Range(gapChunks), missed)
           LaterThen(s) == Later(s, Range(gapBlob'), Range(gapChunks'), missed')
<1> USE GapAssumption DEF GapAssumption, Null
<1>0. /\ TypeOK /\ OneRecorder /\ NewIsEmpty /\ ChunksAreJoined
      /\ RetainedIsOrdered /\ SlicesAreOrdered
  BY DEF GapInv
<1>c. gapRecorder # Null =>
        /\ LaterNow(held[gapRecorder])
        /\ \A i \in DOMAIN events :
              LaterNow(events[i]) /\ Below(Range(events[i]), Range(held[gapRecorder]))
        /\ \A i, j \in DOMAIN events :
              i < j => Below(Range(events[i]), Range(events[j]))
  BY <1>0 DEF SlicesAreOrdered, SliceIsLater
<1>d. ASSUME /\ LaterThen(held'[gapRecorder'])
             /\ \A i \in DOMAIN events' :
                   /\ LaterThen(events'[i])
                   /\ Below(Range(events'[i]), Range(held'[gapRecorder']))
             /\ \A i, j \in DOMAIN events' :
                   i < j => Below(Range(events'[i]), Range(events'[j]))
      PROVE  SlicesAreOrdered'
  BY <1>d DEF SlicesAreOrdered, SliceIsLater
\* Where no recorder is attached, nothing on its way will be kept.
<1>a. ASSUME gapRecorder' = Null PROVE SlicesAreOrdered'
  BY <1>a DEF SlicesAreOrdered
<1>b. ASSUME UNCHANGED <<gapChunks, gapBlob, uploaded, heard, missed>>
      PROVE  RetainedIsOrdered'
  BY <1>0, <1>b DEF RetainedIsOrdered
<1>1. CASE Hear
  <2>1. heard + 1 \in Units /\ \A u \in missed : u < heard + 1
    BY <1>0, <1>1 DEF Hear, TypeOK, RetainedIsOrdered, Units
  <2>2. missed \subseteq missed' /\ missed' \subseteq 1..heard'
    BY <1>0, <1>1 DEF Hear, RetainedIsOrdered, TypeOK
  <2>3. RetainedIsOrdered'
    BY <1>0, <1>1, <2>2 DEF Hear, RetainedIsOrdered
  <2>4. SlicesAreOrdered'
    <3> SUFFICES ASSUME gapRecorder # Null PROVE SlicesAreOrdered'
      BY <1>1 DEF Hear, SlicesAreOrdered
    <3> DEFINE old == held[gapRecorder]
               all == Append(old, heard + 1)
    <3>1. /\ gapRecorder \in running /\ gapRecorder \in Recorders
          /\ old \in Seq(Units)
      BY <1>0 DEF TypeOK
    <3>2. held'[gapRecorder'] = all /\ missed' = missed \cup {heard + 1}
      BY <1>0, <1>1, <3>1 DEF Hear, OneRecorder
    <3>3. LaterNow(old)
      BY <1>c
    <3>4. Below(Range(old), {heard + 1})
      BY <2>1, <3>3 DEF Later, Below
    <3>5. Range(all) = Range(old) \cup {heard + 1} /\ Increasing(all)
      BY <2>1, <3>1, <3>3, <3>4, Collecting DEF Later
    <3> HIDE DEF all
    <3>6. \A A \in SUBSET missed : Below(A, Range(old)) => Below(A, Range(all))
      BY <2>1, <3>5 DEF Below
    <3>7. LaterThen(all)
      BY <1>0, <1>1, <2>2, <3>2, <3>3, <3>5, <3>6
         DEF Hear, Later, RetainedIsOrdered
    <3>8. ASSUME NEW i \in DOMAIN events
          PROVE  LaterThen(events[i]) /\ Below(Range(events[i]), Range(all))
      <4>1. LaterNow(events[i]) /\ Below(Range(events[i]), Range(old))
        BY <1>c
      <4> QED BY <1>1, <2>2, <4>1, <3>6 DEF Hear, Later
    <3> QED BY <1>1, <1>c, <1>d, <3>2, <3>7, <3>8 DEF Hear
  <2> QED BY <2>3, <2>4
<1>2. ASSUME NEW r \in Recorders, Slice(r) PROVE Ordered'
  <2>1. RetainedIsOrdered'
    BY <1>2, <1>b DEF Slice
  <2>2. SlicesAreOrdered'
    <3> SUFFICES ASSUME gapRecorder # Null PROVE SlicesAreOrdered'
      BY <1>2 DEF Slice, SlicesAreOrdered
    <3> DEFINE slice == held[r]
    <3>1. r = gapRecorder
      BY <1>0, <1>2 DEF Slice, OneRecorder
    <3>2. /\ slice \in Seq(Units) /\ events \in Seq(Seq(Units))
          /\ events' = Append(events, slice)
          /\ held'[gapRecorder'] = <<>>
      BY <1>0, <1>2, <3>1 DEF Slice, Queue, TypeOK
    <3>3. /\ LaterNow(slice)
          /\ \A i \in DOMAIN events :
                LaterNow(events[i]) /\ Below(Range(events[i]), Range(slice))
          /\ \A i, j \in DOMAIN events :
                i < j => Below(Range(events[i]), Range(events[j]))
      BY <1>c, <3>1
    <3>4. \A s : LaterNow(s) => LaterThen(s)
      BY <1>2 DEF Slice, Later
    <3>5. LaterThen(<<>>)
      BY EmptySlice, BelowEmpty DEF Later
    <3>6. /\ DOMAIN events' = DOMAIN events \cup {Len(events) + 1}
          /\ \A i \in DOMAIN events : events'[i] = events[i] /\ i < Len(events) + 1
          /\ events'[Len(events) + 1] = slice
      BY <3>2, Queueing
    <3> HIDE DEF slice
    <3>7. ASSUME NEW i \in DOMAIN events'
          PROVE  LaterThen(events'[i]) /\ Below(Range(events'[i]), Range(<<>>))
      <4>1. LaterNow(events'[i])
        BY <3>3, <3>6
      <4> QED BY <4>1, <1>2, EmptySlice, BelowEmpty DEF Slice, Later
    <3>8. ASSUME NEW i \in DOMAIN events', NEW j \in DOMAIN events', i < j
          PROVE  Below(Range(events'[i]), Range(events'[j]))
      <4>1. i \in DOMAIN events /\ i # Len(events) + 1
        BY <3>8, <3>6, <3>2
      <4> QED BY <4>1, <3>8, <3>3, <3>6
    <3>9. LaterThen(held'[gapRecorder'])
      BY <3>2, <3>5
    <3> QED BY <1>d, <3>2, <3>7, <3>8, <3>9
  <2> QED BY <2>1, <2>2
<1>3. CASE KeepSlice
  <2>1. CASE gapRecorder = Null
    BY <1>3, <2>1, <1>a, <1>b DEF KeepSlice
  <2>2. CASE gapRecorder # Null
    <3> DEFINE slice == Head(events)
               new == gapChunks \o slice
    <3>1. /\ Tail(events) \in Seq(Seq(Units)) /\ slice \in Seq(Units)
          /\ 1 \in DOMAIN events /\ slice = events[1]
          /\ \A i \in DOMAIN Tail(events) :
                i + 1 \in DOMAIN events /\ 1 < i + 1 /\ Tail(events)[i] = events[i + 1]
      BY <1>0, <1>3, Dispatching DEF KeepSlice, TypeOK
    <3>2. LaterNow(slice) /\ Below(Range(slice), Range(held[gapRecorder]))
      BY <1>c, <2>2, <3>1
    <3>3. gapChunks' = new /\ events' = Tail(events)
      BY <1>3, <2>2 DEF KeepSlice
    <3>4. Range(new) = Range(gapChunks) \cup Range(slice) /\ Increasing(new)
      BY <1>0, <3>1, <3>2, Joining DEF Later, RetainedIsOrdered, TypeOK
    <3> HIDE DEF new, slice
    <3>5. Range(new) \subseteq missed /\ Below(Range(gapBlob), Range(new))
      BY <1>0, <3>2, <3>4 DEF RetainedIsOrdered, Later, Below
    <3>6. RetainedIsOrdered'
      BY <1>0, <1>3, <3>3, <3>4, <3>5 DEF KeepSlice, RetainedIsOrdered
    <3>7. ASSUME NEW s, LaterNow(s), Below(Range(slice), Range(s))
          PROVE  LaterThen(s)
      BY <1>3, <3>3, <3>4, <3>7 DEF KeepSlice, Later, Below
    <3>8. LaterThen(held'[gapRecorder'])
      BY <1>c, <1>3, <2>2, <3>2, <3>7 DEF KeepSlice
    <3>9. ASSUME NEW i \in DOMAIN Tail(events)
          PROVE  /\ LaterThen(Tail(events)[i])
                 /\ Below(Range(Tail(events)[i]), Range(held[gapRecorder]))
      <4>1. i + 1 \in DOMAIN events /\ 1 < i + 1 /\ Tail(events)[i] = events[i + 1]
        BY <3>1
      <4>2. /\ LaterNow(events[i + 1])
            /\ Below(Range(events[i + 1]), Range(held[gapRecorder]))
            /\ Below(Range(slice), Range(events[i + 1]))
        BY <1>c, <2>2, <3>1, <4>1
      <4> QED BY <4>1, <4>2, <3>7, <3>3
    <3>10. ASSUME NEW i \in DOMAIN Tail(events), NEW j \in DOMAIN Tail(events), i < j
           PROVE  Below(Range(Tail(events)[i]), Range(Tail(events)[j]))
      <4>1. i + 1 < j + 1
        BY <3>10, <3>1
      <4> QED BY <1>c, <2>2, <3>1, <4>1
    <3>11. SlicesAreOrdered'
      BY <1>3, <1>d, <3>3, <3>8, <3>9, <3>10 DEF KeepSlice
    <3> QED BY <3>6, <3>11
  <2> QED BY <2>1, <2>2
<1>4. ASSUME NEW r \in Recorders, FinishFinalize(r) PROVE Ordered'
  <2>1. gapRecorder' = Null
    BY <1>0, <1>4 DEF FinishFinalize, OneRecorder
  <2>2. gapBlob' = gapBlob \o gapChunks /\ gapChunks' = <<>>
    BY <1>4 DEF FinishFinalize, JoinedBlob
  <2>3. Range(gapBlob') = Range(gapBlob) \cup Range(gapChunks) /\ Increasing(gapBlob')
    BY <1>0, <2>2, Joining DEF TypeOK, RetainedIsOrdered
  <2>4. Range(gapBlob') \subseteq missed
    BY <1>0, <2>3 DEF RetainedIsOrdered
  <2>5. RetainedIsOrdered'
    BY <1>0, <1>4, <2>2, <2>3, <2>4, EmptySlice, BelowEmpty
       DEF FinishFinalize, RetainedIsOrdered
  <2> QED BY <2>1, <2>5, <1>a
<1>5. CASE LoseConnection
  <2>1. /\ gapRecorder = Null /\ finalizing = {} /\ events = <<>>
        /\ made + 1 \in Recorders
    BY <1>0, <1>5 DEF LoseConnection, Calm, Settled, OneRecorder, TypeOK, Recorders
  <2>2. /\ gapRecorder' = made + 1 /\ gapChunks' = <<>>
        /\ events' = <<>> /\ held'[gapRecorder'] = <<>>
    BY <1>0, <1>5, <2>1 DEF LoseConnection, NewIsEmpty, TypeOK
  <2>3. RetainedIsOrdered'
    BY <1>0, <1>5, <2>2, EmptySlice, BelowEmpty DEF LoseConnection, RetainedIsOrdered
  <2>4. LaterThen(held'[gapRecorder'])
    BY <2>2, EmptySlice, BelowEmpty DEF Later
  <2>5. SlicesAreOrdered'
    BY <1>d, <2>2, <2>4
  <2> QED BY <2>3, <2>5
<1>6. CASE Reconnect
  <2>1. gapRecorder' = Null
    BY <1>0, <1>6, Beginning DEF Reconnect
  <2> QED BY <1>6, <2>1, <1>a, <1>b DEF Reconnect
<1>7. CASE StopRecording
  <2>1. gapRecorder' = Null
    BY <1>0, <1>7, Beginning DEF StopRecording
  <2> QED BY <1>7, <2>1, <1>a, <1>b DEF StopRecording
<1>8. CASE StopDone
  <2>1. RetainedIsOrdered'
    BY <1>0, <1>8, EmptySlice, BelowEmpty DEF StopDone, DiscardGap, RetainedIsOrdered
  <2> QED BY <1>8, <2>1, <1>a DEF StopDone, DiscardGap
<1>9. CASE CancelRecording
  <2>1. RetainedIsOrdered'
    BY <1>0, <1>9, EmptySlice, BelowEmpty DEF CancelRecording, DiscardGap, RetainedIsOrdered
  <2> QED BY <1>9, <2>1, <1>a DEF CancelRecording, DiscardGap
<1>10. CASE UNCHANGED vars
  BY <1>0, <1>10 DEF vars, RetainedIsOrdered, SlicesAreOrdered, SliceIsLater
<1> QED
  BY <1>1, <1>2, <1>3, <1>4, <1>5, <1>6, <1>7, <1>8, <1>9, <1>10 DEF Next

\* A slice that entered gapChunks leaves them for gapBlob, and gapBlob for the
\* upload, unless the recording is cancelled.
LEMMA KeptInvariant ==
    ASSUME Calm, GapInv, [Next]_vars
    PROVE  KeptSlicesSurvive'
<1> USE GapAssumption DEF GapAssumption, Null
<1>0. /\ TypeOK /\ OneRecorder /\ ChunksAreJoined /\ KeptSlicesSurvive
  BY DEF GapInv
<1>1. CASE Hear
  BY <1>0, <1>1 DEF Hear, KeptSlicesSurvive
<1>2. ASSUME NEW r \in Recorders, Slice(r) PROVE KeptSlicesSurvive'
  BY <1>0, <1>2 DEF Slice, KeptSlicesSurvive
<1>3. CASE KeepSlice
  <2>1. CASE gapRecorder = Null
    BY <1>0, <1>3, <2>1 DEF KeepSlice, KeptSlicesSurvive
  <2>2. CASE gapRecorder # Null
    <3>1. /\ gapChunks' = gapChunks \o Head(events)
          /\ kept' = kept \cup Range(Head(events))
          /\ Head(events) \in Seq(Units) /\ gapChunks \in Seq(Units)
      BY <1>0, <1>3, <2>2, Dispatching DEF KeepSlice, TypeOK
    <3>2. Range(gapChunks') = Range(gapChunks) \cup Range(Head(events))
      BY <3>1, Joining
    <3>3. phase # "cancelled"
      BY <1>0, <2>2 DEF OneRecorder
    <3>4. kept \subseteq Range(gapBlob) \cup Range(gapChunks) \cup Range(uploaded)
      BY <1>0, <3>3 DEF KeptSlicesSurvive
    <3> QED BY <1>3, <3>1, <3>2, <3>4 DEF KeepSlice, KeptSlicesSurvive
  <2> QED BY <2>1, <2>2
<1>4. ASSUME NEW r \in Recorders, FinishFinalize(r) PROVE KeptSlicesSurvive'
  <2>1. Range(gapBlob') = Range(gapBlob) \cup Range(gapChunks) /\ Range(gapChunks') = {}
    BY <1>0, <1>4, Joining, EmptySlice DEF FinishFinalize, JoinedBlob, TypeOK
  <2> QED BY <1>0, <1>4, <2>1 DEF FinishFinalize, KeptSlicesSurvive
<1>5. CASE LoseConnection
  <2>1. gapChunks = <<>> /\ gapChunks' = <<>>
    BY <1>0, <1>5 DEF LoseConnection, Calm, Settled, OneRecorder, ChunksAreJoined
  <2> QED BY <1>0, <1>5, <2>1 DEF LoseConnection, KeptSlicesSurvive
<1>6. CASE Reconnect
  BY <1>0, <1>6 DEF Reconnect, KeptSlicesSurvive
<1>7. CASE StopRecording
  BY <1>0, <1>7 DEF StopRecording, KeptSlicesSurvive
<1>8. CASE StopDone
  <2>1. uploaded' = gapBlob /\ gapBlob' = <<>> /\ gapChunks' = <<>>
    BY <1>8 DEF StopDone, DiscardGap
  <2>2. gapChunks = <<>> /\ uploaded = <<>>
    BY <1>0, <1>8 DEF StopDone, OneRecorder, ChunksAreJoined
  <2>3. kept \subseteq Range(gapBlob) /\ kept' = kept
    BY <1>0, <1>8, <2>2, EmptySlice DEF StopDone, KeptSlicesSurvive
  <2> QED BY <2>1, <2>3 DEF KeptSlicesSurvive
<1>9. CASE CancelRecording
  <2>1. phase' = "cancelled"
    BY <1>9 DEF CancelRecording
  <2> QED BY <2>1 DEF KeptSlicesSurvive
<1>10. CASE UNCHANGED vars
  BY <1>0, <1>10 DEF vars, KeptSlicesSurvive
<1> QED
  BY <1>1, <1>2, <1>3, <1>4, <1>5, <1>6, <1>7, <1>8, <1>9, <1>10 DEF Next

-----------------------------------------------------------------------------
(* The theorems.                                                            *)

LEMMA GapInvariance ==
    ASSUME Calm PROVE Spec => []GapInv
<1>1. GapInv /\ [Next]_vars => GapInv'
  <2> SUFFICES ASSUME GapInv, [Next]_vars PROVE GapInv'
    OBVIOUS
  <2>1. (TypeOK /\ OneRecorder /\ NewIsEmpty /\ ChunksAreJoined)'
    BY ControlInvariant
  <2>2. (RetainedIsOrdered /\ SlicesAreOrdered)'
    BY OrderInvariant
  <2>3. KeptSlicesSurvive'
    BY KeptInvariant
  <2> QED BY <2>1, <2>2, <2>3 DEF GapInv
<1> QED BY <1>1, InitGap, PTL DEF Spec

\* The audio that several outages leave, joined by finalizeGapCapture and
\* uploaded by the stop, plays in the order it was heard, with nothing twice.
THEOREM GapAudioIsInOrder ==
    ASSUME Calm PROVE Spec => []RetainedInOrder
<1>1. GapInv => RetainedInOrder
  <2> SUFFICES ASSUME GapInv PROVE RetainedInOrder
    OBVIOUS
  <2>1. TypeOK /\ RetainedIsOrdered
    BY DEF GapInv
  <2> QED BY <2>1, Joining DEF TypeOK, RetainedIsOrdered, RetainedInOrder
<1> QED BY <1>1, GapInvariance, PTL

\* The gap audio never repeats what was streamed into the main recording, and
\* a recording that ends leaves none of it to the next one.
THEOREM GapAudioIsTheOutages ==
    ASSUME Calm PROVE Spec => []RetainsOnlyTheOutages
<1>1. GapInv => RetainsOnlyTheOutages
  <2> SUFFICES ASSUME GapInv PROVE RetainsOnlyTheOutages
    OBVIOUS
  <2>1. TypeOK /\ RetainedIsOrdered /\ OneRecorder /\ ChunksAreJoined
    BY DEF GapInv
  <2>2. RetainsOnlyOutages
    BY <2>1 DEF RetainedIsOrdered, RetainsOnlyOutages
  <2>3. NothingIsLeft
    BY <2>1 DEF OneRecorder, ChunksAreJoined, NothingIsLeft
  <2> QED BY <2>1, <2>2, <2>3 DEF RetainsOnlyTheOutages
<1> QED BY <1>1, GapInvariance, PTL

\* A slice that was kept stays until a stop hands it to the upload, however many
\* outages follow: only a cancel drops it.
THEOREM KeptAudioIsUploaded ==
    ASSUME Calm PROVE Spec => []KeptSlicesSurvive
<1>1. GapInv => KeptSlicesSurvive
  BY DEF GapInv
<1> QED BY <1>1, GapInvariance, PTL
=============================================================================

------------------------ MODULE RecordProtocol_proofs ------------------------
(***************************************************************************)
(* Safety of the web client and the server together, for any number of     *)
(* sockets, units of audio and outages.                                    *)
(*                                                                         *)
(* Every step of the protocol is a step of RecordSession or leaves the     *)
(* server alone, so what RecordSession_proofs shows of a session holds     *)
(* here.  What it needs besides is the client's discipline: which frames   *)
(* and requests it may have under way, and when.                           *)
(***************************************************************************)
EXTENDS RecordProtocol, RecordSession_proofs

\* The frames the client sends.
Frames ==
    {Frame(kind) : kind \in {"config", "stop", "discard", "close"}}
      \cup {Pcm(u) : u \in Chunks}

WireOK == up \in [Conns -> Seq(Frames)]

\* Those that end no recording.
CalmFrames == {Frame("config"), Frame("close")} \cup {Pcm(u) : u \in Chunks}

CalmWire == up \in [Conns -> Seq(CalmFrames)]

\* Two cancels at most: one while the recording is being prepared, and one of
\* the recording that startRecording makes of it all the same.
CancelsCounted ==
    /\ deletes <= (IF "abandoned" \in endings THEN 1 ELSE 0)
                    + (IF "cancelled" \in endings THEN 1 ELSE 0)
    /\ "abandoned" \in endings => cl.ui # "preparing" /\ cl.start # "none"
    /\ "cancelled" \in endings => cl.start = "over" /\ cl.ui # "recording"

\* Where startRecording is, and what the page shows.
StartedInOrder ==
    /\ cl.start = "none" => cl.ui \notin {"preparing", "recording"}
    /\ cl.ui = "preparing" => cl.start # "over"
    /\ cl.ui \in {"recording", "stopping"} => cl.start = "over"
    /\ cl.stop # "none" => cl.start = "over" /\ cl.ui # "recording"
    /\ cl.stop = "local" => cl.mic # "stream"
    /\ "local" \in endings => cl.start = "over"

AudioOff == cl.mic = "off" /\ ~cl.stream
LoopOff == ~cl.retry /\ cl.probe = Nobody /\ ~cl.gapRec

\* Before and after a recording the microphone, the reconnect loop and the gap
\* recorder are off, but for the last two after a local recording.
RestsQuietly ==
    /\ cl.start = "media" => AudioOff /\ LoopOff
    /\ cl.start \in {"none", "over"} /\ cl.ui # "recording"
         /\ ~(cl.ui = "stopping" /\ cl.stop = "local") =>
          /\ AudioOff
          /\ "local" \in endings \/ LoopOff

\* startRecording has not come to its end, or the page is recording.
Going == Uncancelled /\ (cl.start # "over" \/ cl.ui = "recording")

\* As long as a recording goes on nothing that ends it is under way: the
\* connections have the single-owner discipline.
Undisturbed ==
    Going =>
        /\ LoopOwnsSession /\ ~Stopping
        /\ deletes = 0
        /\ CalmWire

\* A stop is delivered only by a page that is no longer recording, and that
\* did not record locally.
DeliversLate ==
    \A c \in Conns : sock[c].role = "deliver" =>
        cl.start = "over" /\ cl.ui # "recording" /\ cl.stop # "local"

USE RecordSessionAssumption DEF RecordSessionAssumption

-----------------------------------------------------------------------------
(* The client's fields.                                                     *)

\* The page and its microphone, and the sockets: the types, and the order in
\* which startRecording and stopRecording go.
PageInv ==
    /\ cl \in Client /\ sock \in [Conns -> Sockets]
    /\ StartedInOrder /\ RestsQuietly /\ DeliversLate

LEMMA SocketUpdates ==
    ASSUME sock \in [Conns -> Sockets]
    PROVE  /\ \A S : /\ Socks(S) \in [Conns -> Sockets]
                     /\ \A c \in Conns : Socks(S)[c].role = sock[c].role
           /\ \A c \in Conns, role \in {"fresh", "probe", "deliver"} :
                 Open(c, role) => /\ sock' \in [Conns -> Sockets]
                                  /\ sock'[c].role = role
                                  /\ \A d \in Conns \ {c} : sock'[d] = sock[d]
           /\ \A c \in Conns, role \in {"fresh", "attached"} :
                 Opened(c, role) => /\ sock' \in [Conns -> Sockets]
                                    /\ sock'[c].role = role
                                    /\ \A d \in Conns \ {c} : sock'[d] = sock[d]
  BY DEF Socks, Sockets, Open, Opened

\* resetAll, with what the page shows next.
LEMMA ResetPage ==
    ASSUME cl \in Client, NEW ui \in {"idle", "done", "cancelling", "gone"},
           cl' = [Reset(cl) EXCEPT !.ui = ui]
    PROVE  /\ cl' \in Client
           /\ cl'.ui = ui /\ cl'.start = cl.start /\ cl'.stop = cl.stop
           /\ AudioOff' /\ LoopOff'
<1>1. Reset(cl) = [cl EXCEPT !.mic = "off", !.stream = FALSE, !.gapRec = FALSE,
                             !.retry = FALSE, !.probe = Nobody,
                             !.reconnecting = FALSE, !.ws = Nobody]
  BY DEF Client, Reset, Quiet, Ungapped, LoopCancelled
<1>2. cl' = [cl EXCEPT !.mic = "off", !.stream = FALSE, !.gapRec = FALSE,
                       !.retry = FALSE, !.probe = Nobody, !.reconnecting = FALSE,
                       !.ws = Nobody, !.ui = ui]
  BY <1>1 DEF Client
<1>3. cl' \in Client
  BY <1>2, ZenonT(30) DEF Client
<1>4. /\ cl'.ui = ui /\ cl'.start = cl.start /\ cl'.stop = cl.stop
      /\ AudioOff'
  BY <1>2 DEF Client, AudioOff
<1>5. LoopOff'
  BY <1>2 DEF Client, LoopOff
<1> QED BY <1>3, <1>4, <1>5

\* A connection that is lost matters to a recording page only.
LEMMA LostPage ==
    ASSUME NEW k \in Client, NEW late \in BOOLEAN
    PROVE  /\ Lost(k, late) \in Client
           /\ Lost(k, late).ui = k.ui /\ Lost(k, late).start = k.start
           /\ Lost(k, late).stop = k.stop
           /\ k.ui # "recording" => Lost(k, late) = k
<1> DEFINE l == [k EXCEPT !.ws = Nobody, !.gapRec = k.gapRec \/ k.stream]
<1>1. /\ l \in Client /\ l.ui = k.ui /\ l.start = k.start /\ l.stop = k.stop
  BY DEF Client
<1>2. \/ Lost(k, late) = k
      \/ /\ k.ui = "recording"
         /\ \/ Lost(k, late) = LoopCancelled(l)
            \/ Lost(k, late) = [l EXCEPT !.reconnecting = TRUE, !.retry = TRUE]
  BY DEF Lost
<1> HIDE DEF l
<1>3. CASE Lost(k, late) = k
  BY <1>3
<1>4. CASE k.ui = "recording" /\ Lost(k, late) = LoopCancelled(l)
  <2>1. Lost(k, late) = [l EXCEPT !.retry = FALSE, !.probe = Nobody, !.reconnecting = FALSE]
    BY <1>4 DEF LoopCancelled
  <2>2. Lost(k, late) \in Client
    BY <1>1, <2>1 DEF Client
  <2> QED BY <1>1, <1>4, <2>1, <2>2 DEF Client
<1>5. CASE /\ k.ui = "recording"
           /\ Lost(k, late) = [l EXCEPT !.reconnecting = TRUE, !.retry = TRUE]
  <2> DEFINE m == [l EXCEPT !.reconnecting = TRUE, !.retry = TRUE]
  <2>1. m \in Client
    BY <1>1 DEF Client
  <2>2. m.ui = l.ui /\ m.start = l.start /\ m.stop = l.stop
    BY <1>1 DEF Client
  <2> HIDE DEF m
  <2>3. Lost(k, late) = m
    BY <1>5 DEF m
  <2> QED BY <1>1, <1>5, <2>1, <2>2, <2>3
<1> QED BY <1>2, <1>3, <1>4, <1>5

\* A step that switches nothing on.
LEMMA NothingOn ==
    ASSUME PageInv, cl' \in Client, sock' \in [Conns -> Sockets],
           cl'.ui = cl.ui, cl'.start = cl.start,
           cl.ui # "recording" =>
              /\ cl'.mic = cl.mic /\ cl'.stream = cl.stream
              /\ (cl'.gapRec => cl.gapRec) /\ (cl'.retry => cl.retry)
              /\ cl'.probe \in {cl.probe, Nobody},
           \/ cl'.stop = cl.stop
           \/ cl.start = "over" /\ cl.ui # "recording" /\ "local" \notin {cl.stop, cl'.stop},
           \A c \in Conns : sock'[c].role = "deliver" => sock[c].role = "deliver",
           endings' = endings
    PROVE  PageInv'
<1>1. StartedInOrder'
  BY DEF PageInv, StartedInOrder
<1>2. RestsQuietly'
  BY DEF PageInv, StartedInOrder, RestsQuietly, AudioOff, LoopOff, Client
<1>3. DeliversLate'
  BY DEF PageInv, DeliversLate
<1> QED BY <1>1, <1>2, <1>3 DEF PageInv

\* A step that resets the page, from any state.
LEMMA NothingLeft ==
    ASSUME PageInv, NEW ui \in {"idle", "done", "cancelling", "gone"},
           cl' = [Reset(cl) EXCEPT !.ui = ui],
           sock' \in [Conns -> Sockets],
           \A c \in Conns : sock'[c].role = "deliver" => sock[c].role = "deliver",
           "local" \in endings' => "local" \in endings
    PROVE  PageInv'
<1>1. /\ cl' \in Client
      /\ cl'.ui = ui /\ cl'.start = cl.start /\ cl'.stop = cl.stop
      /\ AudioOff' /\ LoopOff'
  BY ResetPage DEF PageInv
<1>2. StartedInOrder'
  BY <1>1 DEF PageInv, StartedInOrder, AudioOff
<1>3. RestsQuietly'
  BY <1>1 DEF RestsQuietly
<1>4. DeliversLate'
  BY <1>1 DEF PageInv, DeliversLate
<1> QED BY <1>1, <1>2, <1>3, <1>4 DEF PageInv

\* A socket that opens: what becomes of the page.
LEMMA OpenPage ==
    ASSUME PageInv, NEW c \in Conns, OnOpen(c)
    PROVE  /\ cl' \in Client /\ cl'.ui = cl.ui /\ cl'.start = cl.start
           /\ cl'.mic = cl.mic /\ cl'.stream = cl.stream /\ (cl'.gapRec => cl.gapRec)
           /\ cl'.retry = cl.retry /\ cl'.probe \in {cl.probe, Nobody}
           /\ \/ cl'.stop = cl.stop
              \/ sock[c].role = "deliver" /\ cl'.stop = "none"
<1>1. \/ cl' = cl
      \/ cl' = [cl EXCEPT !.opened = "yes"]
      \/ cl' = [cl EXCEPT !.ws = c, !.probe = Nobody, !.reconnecting = FALSE, !.gapRec = FALSE]
      \/ cl' = [cl EXCEPT !.ws = c, !.probe = Nobody]
      \/ /\ sock[c].role = "deliver"
         /\ cl' = [cl EXCEPT !.ws = c, !.probe = Nobody, !.stop = "none"]
  BY DEF OnOpen, Adopted, PageInv, Client
<1>2. CASE cl' = cl \/ cl' = [cl EXCEPT !.opened = "yes"]
  BY <1>2 DEF PageInv, Client
<1>3. CASE cl' = [cl EXCEPT !.ws = c, !.probe = Nobody, !.reconnecting = FALSE,
                            !.gapRec = FALSE]
  BY <1>3 DEF PageInv, Client
<1>4. CASE cl' = [cl EXCEPT !.ws = c, !.probe = Nobody]
  BY <1>4 DEF PageInv, Client
<1>5. CASE /\ sock[c].role = "deliver"
           /\ cl' = [cl EXCEPT !.ws = c, !.probe = Nobody, !.stop = "none"]
  BY <1>5 DEF PageInv, Client
<1> QED BY <1>1, <1>2, <1>3, <1>4, <1>5

\* A socket that closes: only a recording page starts anything.
LEMMA ClosePage ==
    ASSUME PageInv, NEW c \in Conns, NEW late \in BOOLEAN, OnClose(c, late)
    PROVE  /\ cl' \in Client /\ cl'.ui = cl.ui /\ cl'.start = cl.start
           /\ cl.ui # "recording" =>
                 /\ cl'.mic = cl.mic /\ cl'.stream = cl.stream
                 /\ (cl'.gapRec => cl.gapRec) /\ (cl'.retry => cl.retry)
                 /\ cl'.probe \in {cl.probe, Nobody}
           /\ \/ cl'.stop = cl.stop
              \/ sock[c].role = "deliver" /\ cl'.stop = "undelivered"
<1> DEFINE k == Lost(cl, late)
           m == [k EXCEPT !.probe = IF @ = c THEN Nobody ELSE @]
<1>1. \/ cl' = [cl EXCEPT !.opened = IF @ = "pending" THEN "no" ELSE @]
      \/ cl' = k
      \/ cl' = Lost(m, late)
      \/ sock[c].role = "deliver" /\ cl' = [cl EXCEPT !.stop = "undelivered"]
  BY DEF OnClose
<1>2. /\ k \in Client /\ k.ui = cl.ui /\ k.start = cl.start /\ k.stop = cl.stop
      /\ cl.ui # "recording" => k = cl
  BY LostPage DEF PageInv
<1> HIDE DEF k
<1>3. /\ m \in Client /\ m.ui = cl.ui /\ m.start = cl.start /\ m.stop = cl.stop
      /\ m.mic = k.mic /\ m.stream = k.stream /\ m.gapRec = k.gapRec
      /\ m.retry = k.retry /\ m.probe \in {k.probe, Nobody}
  BY <1>2 DEF Client
<1> HIDE DEF m
<1>4. /\ Lost(m, late) \in Client /\ Lost(m, late).ui = cl.ui
      /\ Lost(m, late).start = cl.start /\ Lost(m, late).stop = cl.stop
      /\ cl.ui # "recording" => Lost(m, late) = m
  BY <1>3, LostPage
<1>5. CASE cl' = k
  BY <1>5, <1>2
<1>6. CASE cl' = Lost(m, late)
  BY <1>6, <1>2, <1>3, <1>4
<1>7. CASE cl' = [cl EXCEPT !.opened = IF @ = "pending" THEN "no" ELSE @]
  BY <1>7 DEF PageInv, Client
<1>8. CASE sock[c].role = "deliver" /\ cl' = [cl EXCEPT !.stop = "undelivered"]
  BY <1>8 DEF PageInv, Client
<1> QED BY <1>1, <1>5, <1>6, <1>7, <1>8

\* Every step of the client keeps its page in order.
LEMMA PageStep ==
    ASSUME PageInv, ClientStep
    PROVE  PageInv'
<1> USE DEF history, clientVars
<1>1. ASSUME MediaFails PROVE PageInv'
  <2>1. cl' \in Client /\ sock' \in [Conns -> Sockets]
    BY <1>1, SocketUpdates DEF PageInv, MediaFails, Client
  <2>2. StartedInOrder'
    BY <1>1 DEF PageInv, MediaFails, StartedInOrder, Client
  <2>3. RestsQuietly'
    BY <1>1 DEF PageInv, MediaFails, RestsQuietly, StartedInOrder,
       AudioOff, LoopOff, Client
  <2>4. DeliversLate'
    BY <1>1, SocketUpdates DEF PageInv, MediaFails, DeliversLate, StartedInOrder, Client
  <2> QED BY <2>1, <2>2, <2>3, <2>4 DEF PageInv
<1>2. ASSUME OpenTimeout PROVE PageInv'
  <2>1. cl' \in Client /\ sock' \in [Conns -> Sockets]
    BY <1>2, SocketUpdates DEF PageInv, OpenTimeout, Client
  <2>2. StartedInOrder'
    BY <1>2 DEF PageInv, OpenTimeout, StartedInOrder, Client
  <2>3. RestsQuietly'
    BY <1>2 DEF PageInv, OpenTimeout, RestsQuietly, StartedInOrder,
       AudioOff, LoopOff, Client
  <2>4. DeliversLate'
    BY <1>2, SocketUpdates DEF PageInv, OpenTimeout, DeliversLate, StartedInOrder, Client
  <2> QED BY <2>1, <2>2, <2>3, <2>4 DEF PageInv
<1>3. ASSUME SocketFailed PROVE PageInv'
  <2>1. cl' \in Client /\ sock' \in [Conns -> Sockets]
    BY <1>3, SocketUpdates DEF PageInv, SocketFailed, GoLocal, Client
  <2>2. StartedInOrder'
    BY <1>3 DEF PageInv, SocketFailed, GoLocal, StartedInOrder, Client
  <2>3. RestsQuietly'
    BY <1>3 DEF PageInv, SocketFailed, GoLocal, RestsQuietly, StartedInOrder,
       AudioOff, LoopOff, Client
  <2>4. DeliversLate'
    BY <1>3, SocketUpdates DEF PageInv, SocketFailed, GoLocal, DeliversLate, StartedInOrder, Client
  <2> QED BY <2>1, <2>2, <2>3, <2>4 DEF PageInv
<1>4. ASSUME GraphFails PROVE PageInv'
  <2>1. cl' \in Client /\ sock' \in [Conns -> Sockets]
    BY <1>4, SocketUpdates DEF PageInv, GraphFails, GoLocal, Client
  <2>2. StartedInOrder'
    BY <1>4 DEF PageInv, GraphFails, GoLocal, StartedInOrder, Client
  <2>3. RestsQuietly'
    BY <1>4 DEF PageInv, GraphFails, GoLocal, RestsQuietly, StartedInOrder,
       AudioOff, LoopOff, Client
  <2>4. DeliversLate'
    BY <1>4, SocketUpdates DEF PageInv, GraphFails, GoLocal, DeliversLate, StartedInOrder, Client
  <2> QED BY <2>1, <2>2, <2>3, <2>4 DEF PageInv
<1>5. ASSUME GraphReady PROVE PageInv'
  <2>1. cl' \in Client /\ sock' \in [Conns -> Sockets]
    BY <1>5, SocketUpdates DEF PageInv, GraphReady, Client
  <2>2. StartedInOrder'
    BY <1>5 DEF PageInv, GraphReady, StartedInOrder, Client
  <2>3. RestsQuietly'
    BY <1>5 DEF PageInv, GraphReady, RestsQuietly, StartedInOrder,
       AudioOff, LoopOff, Client
  <2>4. DeliversLate'
    BY <1>5, SocketUpdates DEF PageInv, GraphReady, DeliversLate, StartedInOrder, Client
  <2> QED BY <2>1, <2>2, <2>3, <2>4 DEF PageInv
<1>6. ASSUME Ready PROVE PageInv'
  <2>1. cl' \in Client /\ sock' \in [Conns -> Sockets]
    BY <1>6, SocketUpdates DEF PageInv, Ready, Client
  <2>2. StartedInOrder'
    BY <1>6 DEF PageInv, Ready, StartedInOrder, Client
  <2>3. RestsQuietly'
    BY <1>6 DEF PageInv, Ready, RestsQuietly, StartedInOrder,
       AudioOff, LoopOff, Client
  <2>4. DeliversLate'
    BY <1>6, SocketUpdates DEF PageInv, Ready, DeliversLate, StartedInOrder, Client
  <2> QED BY <2>1, <2>2, <2>3, <2>4 DEF PageInv
<1>7. ASSUME Speak PROVE PageInv'
  <2>1. cl' \in Client /\ sock' \in [Conns -> Sockets]
    BY <1>7, SocketUpdates DEF PageInv, Speak, Client
  <2>2. StartedInOrder'
    BY <1>7 DEF PageInv, Speak, StartedInOrder, Client
  <2>3. RestsQuietly'
    BY <1>7 DEF PageInv, Speak, RestsQuietly, StartedInOrder,
       AudioOff, LoopOff, Client
  <2>4. DeliversLate'
    BY <1>7, SocketUpdates DEF PageInv, Speak, DeliversLate, StartedInOrder, Client
  <2> QED BY <2>1, <2>2, <2>3, <2>4 DEF PageInv
<1>8. ASSUME StopLocal PROVE PageInv'
  <2>1. cl' \in Client /\ sock' \in [Conns -> Sockets]
    BY <1>8, SocketUpdates DEF PageInv, StopLocal, Client
  <2>2. StartedInOrder'
    BY <1>8 DEF PageInv, StopLocal, StartedInOrder, Client
  <2>3. RestsQuietly'
    BY <1>8 DEF PageInv, StopLocal, RestsQuietly, StartedInOrder,
       AudioOff, LoopOff, Client
  <2>4. DeliversLate'
    BY <1>8, SocketUpdates DEF PageInv, StopLocal, DeliversLate, StartedInOrder, Client
  <2> QED BY <2>1, <2>2, <2>3, <2>4 DEF PageInv
<1>9. ASSUME LocalSaved PROVE PageInv'
  <2>1. cl' \in Client /\ sock' \in [Conns -> Sockets]
    BY <1>9, SocketUpdates, ZenonT(30) DEF PageInv, LocalSaved, Quiet, Client
  <2>2. StartedInOrder'
    BY <1>9 DEF PageInv, LocalSaved, Quiet, StartedInOrder, Client
  <2>3. RestsQuietly'
    BY <1>9 DEF PageInv, LocalSaved, Quiet, RestsQuietly, StartedInOrder,
       AudioOff, LoopOff, Client
  <2>4. DeliversLate'
    BY <1>9, SocketUpdates DEF PageInv, LocalSaved, Quiet, DeliversLate, StartedInOrder, Client
  <2> QED BY <2>1, <2>2, <2>3, <2>4 DEF PageInv
<1>10. ASSUME StopOnline PROVE PageInv'
  <2>1. cl' \in Client /\ sock' \in [Conns -> Sockets]
    BY <1>10, SocketUpdates DEF PageInv, StopOnline, Quiet, Ungapped, LoopCancelled, Client
  <2>2. StartedInOrder'
    BY <1>10 DEF PageInv, StopOnline, Quiet, Ungapped, LoopCancelled, StartedInOrder, Client
  <2>3. RestsQuietly'
    BY <1>10 DEF PageInv, StopOnline, Quiet, Ungapped, LoopCancelled, RestsQuietly, StartedInOrder,
       AudioOff, LoopOff, Client
  <2>4. DeliversLate'
    BY <1>10, SocketUpdates DEF PageInv, StopOnline, Quiet, Ungapped, LoopCancelled, DeliversLate, StartedInOrder, Client
  <2> QED BY <2>1, <2>2, <2>3, <2>4 DEF PageInv
<1>11. ASSUME StopOffline PROVE PageInv'
  <2>1. cl' \in Client /\ sock' \in [Conns -> Sockets]
    BY <1>11, SocketUpdates DEF PageInv, StopOffline, Quiet, Ungapped, LoopCancelled, Client
  <2>2. StartedInOrder'
    BY <1>11 DEF PageInv, StopOffline, Quiet, Ungapped, LoopCancelled, StartedInOrder, Client
  <2>3. RestsQuietly'
    BY <1>11 DEF PageInv, StopOffline, Quiet, Ungapped, LoopCancelled, RestsQuietly, StartedInOrder,
       AudioOff, LoopOff, Client
  <2>4. DeliversLate'
    BY <1>11, SocketUpdates DEF PageInv, StopOffline, Quiet, Ungapped, LoopCancelled, DeliversLate, StartedInOrder, Client
  <2> QED BY <2>1, <2>2, <2>3, <2>4 DEF PageInv
<1>12. ASSUME StopUndelivered PROVE PageInv'
  <2>1. cl' \in Client /\ sock' \in [Conns -> Sockets]
    BY <1>12, SocketUpdates DEF PageInv, StopUndelivered, Client
  <2>2. StartedInOrder'
    BY <1>12 DEF PageInv, StopUndelivered, StartedInOrder, Client
  <2>3. RestsQuietly'
    BY <1>12 DEF PageInv, StopUndelivered, RestsQuietly, StartedInOrder,
       AudioOff, LoopOff, Client
  <2>4. DeliversLate'
    BY <1>12, SocketUpdates DEF PageInv, StopUndelivered, DeliversLate, StartedInOrder, Client
  <2> QED BY <2>1, <2>2, <2>3, <2>4 DEF PageInv
<1>13. ASSUME BackToIdle PROVE PageInv'
  <2>1. cl' \in Client /\ sock' \in [Conns -> Sockets]
    BY <1>13, SocketUpdates DEF PageInv, BackToIdle, Client
  <2>2. StartedInOrder'
    BY <1>13 DEF PageInv, BackToIdle, StartedInOrder, Client
  <2>3. RestsQuietly'
    BY <1>13 DEF PageInv, BackToIdle, RestsQuietly, StartedInOrder,
       AudioOff, LoopOff, Client
  <2>4. DeliversLate'
    BY <1>13, SocketUpdates DEF PageInv, BackToIdle, DeliversLate, StartedInOrder, Client
  <2> QED BY <2>1, <2>2, <2>3, <2>4 DEF PageInv
<1>14. ASSUME NEW c \in Conns, StartRecording(c) PROVE PageInv'
  <2>1. cl' \in Client /\ sock' \in [Conns -> Sockets]
    BY <1>14, SocketUpdates DEF PageInv, StartRecording, Client
  <2>2. StartedInOrder'
    BY <1>14 DEF PageInv, StartRecording, StartedInOrder, Client
  <2>3. RestsQuietly'
    BY <1>14 DEF PageInv, StartRecording, RestsQuietly, StartedInOrder,
       AudioOff, LoopOff, Client
  <2>4. DeliversLate'
    BY <1>14, SocketUpdates DEF PageInv, StartRecording, DeliversLate, StartedInOrder, Client
  <2> QED BY <2>1, <2>2, <2>3, <2>4 DEF PageInv
<1>15. ASSUME NEW c \in Conns, Retry(c) PROVE PageInv'
  <2>1. cl' \in Client /\ sock' \in [Conns -> Sockets]
    BY <1>15, SocketUpdates DEF PageInv, Retry, Client
  <2>2. StartedInOrder'
    BY <1>15 DEF PageInv, Retry, StartedInOrder, Client
  <2>3. RestsQuietly'
    BY <1>15 DEF PageInv, Retry, RestsQuietly, StartedInOrder,
       AudioOff, LoopOff, Client
  <2>4. DeliversLate'
    BY <1>15, SocketUpdates DEF PageInv, Retry, DeliversLate, StartedInOrder, Client
  <2> QED BY <2>1, <2>2, <2>3, <2>4 DEF PageInv
<1>16. ASSUME NEW c \in Conns, DeliverStop(c) PROVE PageInv'
  <2>1. cl' \in Client /\ sock' \in [Conns -> Sockets]
    BY <1>16, SocketUpdates DEF PageInv, DeliverStop, Client
  <2>2. StartedInOrder'
    BY <1>16 DEF PageInv, DeliverStop, StartedInOrder, Client
  <2>3. RestsQuietly'
    BY <1>16 DEF PageInv, DeliverStop, RestsQuietly, StartedInOrder,
       AudioOff, LoopOff, Client
  <2>4. DeliversLate'
    BY <1>16, SocketUpdates DEF PageInv, DeliverStop, DeliversLate, StartedInOrder, Client
  <2> QED BY <2>1, <2>2, <2>3, <2>4 DEF PageInv
<1>17. ASSUME NEW c \in Conns, DeliverTimeout(c) PROVE PageInv'
  <2>1. cl' \in Client /\ sock' \in [Conns -> Sockets]
    BY <1>17, SocketUpdates DEF PageInv, DeliverTimeout, Client
  <2>2. StartedInOrder'
    BY <1>17 DEF PageInv, DeliverTimeout, StartedInOrder, Client
  <2>3. RestsQuietly'
    BY <1>17 DEF PageInv, DeliverTimeout, RestsQuietly, StartedInOrder,
       AudioOff, LoopOff, Client
  <2>4. DeliversLate'
    BY <1>17, SocketUpdates DEF PageInv, DeliverTimeout, DeliversLate, StartedInOrder, Client
  <2> QED BY <2>1, <2>2, <2>3, <2>4 DEF PageInv
<1>18. ASSUME MediaAcquired \/ SocketOpened PROVE PageInv'
  <2>1. /\ cl' = [cl EXCEPT !.start = "graph"] \/ cl' = [cl EXCEPT !.stream = TRUE, !.start = "open"]
             \/ cl' = [cl EXCEPT !.stream = TRUE, !.start = "graph"]
        /\ Attach(cl) \/ sock' = sock
        /\ cl.start \in {"media", "open"} /\ endings' = endings
    BY <1>18 DEF MediaAcquired, SocketOpened, Attach, PageInv, Client
  <2>2. /\ sock' \in [Conns -> Sockets]
        /\ \A c \in Conns : sock'[c].role = "deliver" => sock[c].role = "deliver"
    BY <2>1 DEF PageInv, Attach, Sockets
  <2>3. /\ cl' \in Client /\ cl'.start \in {"open", "graph"}
        /\ cl'.ui = cl.ui /\ cl'.stop = cl.stop
    BY <2>1, ZenonT(30) DEF PageInv, Client
  <2>4. StartedInOrder' /\ RestsQuietly'
    BY <2>1, <2>3 DEF PageInv, StartedInOrder, RestsQuietly
  <2>5. DeliversLate'
    BY <2>1, <2>2, <2>3 DEF PageInv, DeliversLate
  <2> QED BY <2>2, <2>3, <2>4, <2>5 DEF PageInv
<1>19. ASSUME CancelRecording PROVE PageInv'
  <2>1. sock' = Socks(WsOf(cl) \cup ProbeOf(cl))
        /\ cl' = [Reset(cl) EXCEPT !.ui = "cancelling"]
    BY <1>19 DEF CancelRecording
  <2>2. "local" \in endings' => "local" \in endings
    BY <1>19 DEF CancelRecording
  <2> QED BY <2>1, <2>2, SocketUpdates, NothingLeft DEF PageInv
<1>20. ASSUME CloseTab PROVE PageInv'
  <2>1. cl' = [Reset(cl) EXCEPT !.ui = "gone"]
    BY <1>20 DEF CloseTab
  <2>2. /\ sock' \in [Conns -> Sockets]
        /\ \A c \in Conns : sock'[c].role = sock[c].role
    BY <1>20 DEF CloseTab, PageInv, Sockets
  <2>3. "local" \in endings' => "local" \in endings
    BY <1>20 DEF CloseTab
  <2> QED BY <2>1, <2>2, <2>3, NothingLeft
<1>21. ASSUME NEW ui \in {"idle", "done"}, NEW result \in {"done", "error", "busy"},
            Over(ui, result) PROVE PageInv'
  <2>1. sock' = Socks(WsOf(cl) \cup ProbeOf(cl)) /\ cl' = [Reset(cl) EXCEPT !.ui = ui]
    BY <1>21 DEF Over
  <2>2. "local" \in endings' => "local" \in endings
    BY <1>21 DEF Over
  <2> QED BY <2>1, <2>2, SocketUpdates, NothingLeft DEF PageInv
<1>22. ASSUME NEW c \in Conns, OnDone(c) \/ OnError(c) PROVE PageInv'
  BY <1>22, <1>21 DEF OnDone, OnError
<1>23. ASSUME NEW c \in Conns, OnBusy(c) PROVE PageInv'
  <2>1. CASE Over("idle", "busy")
    BY <2>1, <1>21
  <2>2. CASE cl' = [cl EXCEPT !.ws = Nobody] /\ sock' = Socks(WsOf(cl)) /\ endings' = endings
    <3>1. /\ cl' \in Client /\ cl'.ui = cl.ui /\ cl'.start = cl.start /\ cl'.stop = cl.stop
          /\ cl'.mic = cl.mic /\ cl'.stream = cl.stream /\ cl'.gapRec = cl.gapRec
          /\ cl'.retry = cl.retry /\ cl'.probe = cl.probe
      BY <2>2 DEF PageInv, Client
    <3> QED BY <2>2, <3>1, SocketUpdates, NothingOn DEF PageInv
  <2> QED BY <1>23, <2>1, <2>2 DEF OnBusy
<1>24. ASSUME NEW c \in Conns, OnOther(c) PROVE PageInv'
  BY <1>24, NothingOn DEF OnOther, PageInv
<1>25. ASSUME NEW c \in Conns, OnOpen(c) PROVE PageInv'
  <2>1. endings' = endings
    BY <1>25 DEF OnOpen
  <2>2. /\ sock' \in [Conns -> Sockets]
        /\ \A d \in Conns : sock'[d].role = "deliver" => sock[d].role = "deliver"
    BY <1>25, SocketUpdates DEF OnOpen, PageInv
  <2>3. sock[c].role = "deliver" =>
          cl.start = "over" /\ cl.ui # "recording" /\ cl.stop # "local"
    BY DEF PageInv, DeliversLate
  <2> QED BY <1>25, <2>1, <2>2, <2>3, OpenPage, NothingOn
<1>26. ASSUME NEW c \in Conns, NEW late \in BOOLEAN, OnClose(c, late) PROVE PageInv'
  <2>1. endings' = endings
    BY <1>26 DEF OnClose
  <2>2. /\ sock' \in [Conns -> Sockets]
        /\ \A d \in Conns : sock'[d].role = sock[d].role
    <3>1. PICK S : sock' = [Socks(S) EXCEPT ![c].ready = "closed"]
      BY <1>26 DEF OnClose
    <3> DEFINE t == Socks(S)
    <3>2. t \in [Conns -> Sockets] /\ \A d \in Conns : t[d].role = sock[d].role
      BY SocketUpdates DEF PageInv
    <3>3. sock' = [t EXCEPT ![c].ready = "closed"]
      BY <3>1
    <3> HIDE DEF t
    <3> QED BY <3>2, <3>3 DEF Sockets
  <2>3. sock[c].role = "deliver" =>
          cl.start = "over" /\ cl.ui # "recording" /\ cl.stop # "local"
    BY DEF PageInv, DeliversLate
  <2> QED BY <1>26, <2>1, <2>2, <2>3, ClosePage, NothingOn
<1> QED
  BY <1>1, <1>2, <1>3, <1>4, <1>5, <1>6, <1>7, <1>8, <1>9, <1>10, <1>11,
     <1>12, <1>13, <1>14, <1>15, <1>16, <1>17, <1>18, <1>19, <1>20, <1>21,
     <1>22, <1>23, <1>24, <1>25, <1>26 DEF ClientStep

\* What a step of the client may do to how far the recording has got.
LEMMA PageMoves ==
    ASSUME PageInv, ClientStep
    PROVE  /\ endings \subseteq endings'
           /\ cl.start = "over" => cl'.start = "over"
           /\ cl.start = "over" /\ cl'.ui = "recording" => cl.ui = "recording"
           /\ cl'.start = "none" => cl.start = "none"
           /\ cl'.ui = "preparing" => cl.ui = "preparing" \/ cl.start = "none"
<1> USE DEF history, clientVars
<1>1. CASE \E c \in Conns : OnOpen(c)
  BY <1>1, OpenPage DEF OnOpen
<1>2. CASE \E c \in Conns, late \in BOOLEAN : OnClose(c, late)
  <2>1. PICK c \in Conns, late \in BOOLEAN : OnClose(c, late)
    BY <1>2
  <2> QED BY <2>1, ClosePage DEF OnClose
<1>3. ASSUME NEW ui \in {"idle", "done", "cancelling", "gone"},
             cl' = [Reset(cl) EXCEPT !.ui = ui]
      PROVE  cl'.ui = ui /\ cl'.start = cl.start
  BY <1>3, ResetPage DEF PageInv
<1>4. CASE CancelRecording
  BY <1>3, <1>4 DEF CancelRecording
<1>5. CASE CloseTab
  BY <1>3, <1>5 DEF CloseTab
<1>6. ASSUME NEW ui \in {"idle", "done"}, NEW result, Over(ui, result)
      PROVE  cl'.ui = ui /\ cl'.start = cl.start /\ endings \subseteq endings'
  BY <1>3, <1>6 DEF Over
<1>7. CASE \E c \in Conns : OnDone(c) \/ OnError(c)
  BY <1>6, <1>7 DEF OnDone, OnError
<1>8. CASE \E c \in Conns : OnBusy(c)
  <2>1. CASE cl' = [cl EXCEPT !.ws = Nobody] /\ endings' = endings
    BY <2>1 DEF PageInv, Client
  <2>2. CASE Over("idle", "busy")
    BY <2>2, <1>6
  <2> QED BY <1>8, <2>1, <2>2 DEF OnBusy
<1>9. CASE MediaFails \/ OpenTimeout \/ GraphReady \/ Ready
  <2>1. CASE MediaFails
    BY <2>1 DEF PageInv, Client, MediaFails
  <2>2. CASE OpenTimeout
    BY <2>2 DEF PageInv, Client, OpenTimeout
  <2>3. CASE GraphReady
    BY <2>3 DEF PageInv, Client, StartedInOrder, GraphReady
  <2>4. CASE Ready
    BY <2>4 DEF PageInv, Client, StartedInOrder, Ready
  <2> QED BY <1>9, <2>1, <2>2, <2>3, <2>4
<1>10. CASE Speak \/ StopLocal \/ BackToIdle \/ \E c \in Conns : OnOther(c)
  <2>1. CASE Speak
    BY <2>1 DEF PageInv, Client, Speak
  <2>2. CASE StopLocal
    BY <2>2 DEF PageInv, Client, StopLocal
  <2>3. CASE BackToIdle
    BY <2>3 DEF PageInv, Client, BackToIdle
  <2>4. CASE \E c \in Conns : OnOther(c)
    BY <2>4 DEF PageInv, Client, OnOther
  <2> QED BY <1>10, <2>1, <2>2, <2>3, <2>4
<1>11. CASE LocalSaved \/ StopUndelivered
  <2>1. CASE LocalSaved
    BY <2>1 DEF PageInv, Client, LocalSaved, Quiet
  <2>2. CASE StopUndelivered
    BY <2>2 DEF PageInv, Client, StopUndelivered
  <2> QED BY <1>11, <2>1, <2>2
<1>12. CASE SocketFailed \/ GraphFails \/ SocketOpened
  BY <1>12 DEF PageInv, Client, SocketFailed, GraphFails, GoLocal, SocketOpened
<1>13. CASE MediaAcquired
  BY <1>13 DEF PageInv, Client, MediaAcquired
<1>14. CASE StopOnline \/ StopOffline
  <2>1. CASE StopOnline
    BY <2>1 DEF PageInv, Client, StopOnline, Quiet, Ungapped, LoopCancelled
  <2>2. CASE StopOffline
    BY <2>2 DEF PageInv, Client, StopOffline, Quiet, Ungapped, LoopCancelled
  <2> QED BY <1>14, <2>1, <2>2
<1>15. CASE \E c \in Conns :
               StartRecording(c) \/ Retry(c) \/ DeliverStop(c) \/ DeliverTimeout(c)
  <2>1. CASE \E c \in Conns : StartRecording(c)
    BY <2>1 DEF PageInv, Client, StartRecording
  <2>2. CASE \E c \in Conns : Retry(c)
    BY <2>2 DEF PageInv, Client, Retry
  <2>3. CASE \E c \in Conns : DeliverStop(c)
    BY <2>3 DEF PageInv, Client, DeliverStop
  <2>4. CASE \E c \in Conns : DeliverTimeout(c)
    BY <2>4 DEF PageInv, Client, DeliverTimeout
  <2> QED BY <1>15, <2>1, <2>2, <2>3, <2>4
<1> QED
  BY <1>1, <1>2, <1>4, <1>5, <1>7, <1>8, <1>9, <1>10, <1>11, <1>12, <1>13,
     <1>14, <1>15 DEF ClientStep

\* Only a cancel requests a DELETE, and it says how the recording ended.
LEMMA OnlyCancelDeletes ==
    ASSUME ClientStep, ~CancelRecording
    PROVE  /\ deletes' = deletes
           /\ \A e \in {"cancelled", "abandoned"} : e \in endings' => e \in endings
<1> USE DEF history
<1>1. CASE \/ MediaFails \/ MediaAcquired \/ OpenTimeout \/ SocketOpened
           \/ SocketFailed \/ GraphFails \/ GraphReady \/ Ready \/ Speak
  BY <1>1 DEF MediaFails, MediaAcquired, OpenTimeout, SocketOpened, SocketFailed,
     GraphFails, GoLocal, GraphReady, Ready, Speak
<1>2. CASE \/ StopLocal \/ LocalSaved \/ StopOnline \/ StopOffline \/ StopUndelivered
           \/ BackToIdle \/ CloseTab
  BY <1>2 DEF StopLocal, LocalSaved, StopOnline, StopOffline, StopUndelivered, BackToIdle,
     CloseTab
<1>3. CASE \E c \in Conns :
              \/ StartRecording(c) \/ Retry(c) \/ DeliverStop(c) \/ DeliverTimeout(c)
              \/ OnOpen(c) \/ OnOther(c) \/ \E late \in BOOLEAN : OnClose(c, late)
  BY <1>3 DEF StartRecording, Retry, DeliverStop, DeliverTimeout, OnOpen, OnOther, OnClose
<1>4. CASE \E c \in Conns : OnDone(c) \/ OnError(c) \/ OnBusy(c)
  BY <1>4 DEF OnDone, OnError, OnBusy, Over
<1> QED BY <1>1, <1>2, <1>3, <1>4 DEF ClientStep

LEMMA CancelsStep ==
    ASSUME PageInv, CancelsCounted, deletes \in Nat, ClientStep
    PROVE  CancelsCounted' /\ deletes' \in Nat
<1>1. CASE CancelRecording
  <2>1. /\ cl'.ui = "cancelling" /\ cl'.start = cl.start
        /\ deletes' = deletes + 1
    BY <1>1, ResetPage DEF CancelRecording, PageInv
  <2>2. CASE cl.ui = "recording"
    <3>1. /\ "cancelled" \in endings' /\ "cancelled" \notin endings
          /\ "abandoned" \in endings' <=> "abandoned" \in endings
      BY <1>1, <2>2 DEF CancelRecording, CancelsCounted
    <3> QED BY <2>1, <2>2, <3>1 DEF CancelsCounted, PageInv, StartedInOrder
  <2>3. CASE cl.ui = "preparing"
    <3>1. /\ "abandoned" \in endings' /\ "abandoned" \notin endings
          /\ "cancelled" \in endings' <=> "cancelled" \in endings
      BY <1>1, <2>3 DEF CancelRecording, CancelsCounted
    <3> QED BY <2>1, <2>3, <3>1 DEF CancelsCounted, PageInv, StartedInOrder
  <2> QED BY <1>1, <2>2, <2>3 DEF CancelRecording, MayCancel
<1>2. CASE ~CancelRecording
  <2>1. /\ deletes' = deletes
        /\ "cancelled" \in endings' <=> "cancelled" \in endings
        /\ "abandoned" \in endings' <=> "abandoned" \in endings
    BY <1>2, OnlyCancelDeletes, PageMoves
  <2> QED BY <2>1, PageMoves DEF CancelsCounted
<1> QED BY <1>1, <1>2

-----------------------------------------------------------------------------
(* The wire.                                                               *)

\* What a step sends is appended, with a close for each socket it closes.
LEMMA SendsTyped ==
    ASSUME NEW F, Frame("close") \in F, up \in [Conns -> Seq(F)],
           NEW on, NEW frames \in Seq(F), NEW closing, Sends(on, frames, closing)
    PROVE  up' \in [Conns -> Seq(F)]
<1> DEFINE Said(c) == IF c = on THEN frames ELSE <<>>
           Closed(c) == IF sock[c].ready \in {"connecting", "open"} /\ c \in closing
                          THEN <<Frame("close")>> ELSE <<>>
<1>1. <<>> \in Seq(F) /\ <<Frame("close")>> \in Seq(F)
  OBVIOUS
<1>2. \A c \in Conns : Said(c) \in Seq(F) /\ Closed(c) \in Seq(F)
  BY <1>1
<1>3. up' = [c \in Conns |-> IF c \in cut THEN up[c] ELSE up[c] \o Said(c) \o Closed(c)]
  BY DEF Sends
<1> HIDE DEF Said, Closed
<1>4. \A c \in Conns : up[c] \o Said(c) \o Closed(c) \in Seq(F)
  BY <1>2, ConcatProperties
<1> QED BY <1>3, <1>4

\* What the client sends belongs to its frames; and a frame that ends the
\* recording is sent by a step after which it does not go on.
LEMMA WireStep ==
    ASSUME PageInv, spoken \in 0..MaxChunks, ClientStep
    PROVE  /\ WireOK => WireOK'
           /\ Going' /\ CalmWire => CalmWire'
<1> USE DEF history, clientVars, netVars
<1>1. /\ Frame("close") \in Frames /\ Frame("close") \in CalmFrames
      /\ <<>> \in Seq(Frames) /\ <<>> \in Seq(CalmFrames)
      /\ <<Frame("config")>> \in Seq(Frames) /\ <<Frame("config")>> \in Seq(CalmFrames)
      /\ <<Frame("stop")>> \in Seq(Frames) /\ <<Frame("discard")>> \in Seq(Frames)
      /\ <<Frame("config"), Frame("stop")>> \in Seq(Frames)
  BY DEF Frames, CalmFrames
<1>2. ASSUME NEW on, NEW frames \in Seq(Frames), NEW closing, Sends(on, frames, closing)
      PROVE  WireOK => WireOK'
  BY <1>1, <1>2, SendsTyped DEF WireOK
<1>3. ASSUME NEW on, NEW frames \in Seq(CalmFrames), NEW closing, Sends(on, frames, closing)
      PROVE  CalmWire => CalmWire'
  BY <1>1, <1>3, SendsTyped DEF CalmWire
<1>4. Discards(cl) \in Seq(Frames)
  BY <1>1 DEF Discards
<1>5. ~Going' <=> ~Uncancelled' \/ (cl'.start = "over" /\ cl'.ui # "recording")
  BY DEF Going
<1>6. CASE UNCHANGED up
  BY <1>6 DEF WireOK, CalmWire
<1>7. ASSUME NEW on, NEW closing, Sends(on, <<>>, closing)
      PROVE  (WireOK => WireOK') /\ (CalmWire => CalmWire')
  BY <1>1, <1>2, <1>3, <1>7
<1>8. CASE MediaFails
  BY <1>2, <1>4, <1>5, <1>8 DEF MediaFails, PageInv, Client
<1>9. CASE SocketFailed \/ GraphFails \/ StopOffline
  BY <1>7, <1>9 DEF SocketFailed, GraphFails, GoLocal, StopOffline
<1>10. CASE GraphReady
  BY <1>1, <1>2, <1>3, <1>7, <1>10 DEF GraphReady
<1>11. CASE Speak
  <2>1. spoken + 1 \in Chunks
    BY <1>11 DEF Speak, Chunks
  <2>2. /\ <<Pcm(spoken + 1)>> \in Seq(Frames)
        /\ <<Pcm(spoken + 1)>> \in Seq(CalmFrames)
    BY <2>1 DEF Frames, CalmFrames
  <2>3. CASE Sends(cl.ws, <<Pcm(spoken + 1)>>, {})
    BY <1>2, <1>3, <2>2, <2>3
  <2>4. CASE Sends(cl.ws, <<>>, {})
    BY <1>7, <2>4
  <2> QED BY <1>11, <2>3, <2>4 DEF Speak
<1>12. CASE StopOnline
  <2>1. cl'.ui = "stopping" /\ cl'.start = "over"
    BY <1>12 DEF StopOnline, Quiet, Ungapped, LoopCancelled, PageInv, Client, StartedInOrder
  <2> QED BY <1>1, <1>2, <1>5, <1>12, <2>1 DEF StopOnline
<1>13. CASE CancelRecording
  <2>1. ~Uncancelled'
    BY <1>13 DEF CancelRecording, Uncancelled
  <2> QED BY <1>2, <1>4, <1>5, <1>13, <2>1 DEF CancelRecording
<1>14. CASE CloseTab
  <2>1. cl'.ui = "gone" /\ cl'.start = "over"
    BY <1>14, ResetPage DEF CloseTab, PageInv, StartedInOrder
  <2> QED BY <1>1, <1>2, <1>5, <1>14, <2>1 DEF CloseTab
<1>15. ASSUME NEW c \in Conns, DeliverTimeout(c) \/ \E late \in BOOLEAN : OnClose(c, late)
       PROVE  (WireOK => WireOK') /\ (CalmWire => CalmWire')
  BY <1>7, <1>15 DEF DeliverTimeout, OnClose
<1>16. ASSUME NEW c \in Conns, OnDone(c) \/ OnError(c) \/ OnBusy(c)
       PROVE  (WireOK => WireOK') /\ (CalmWire => CalmWire')
  BY <1>7, <1>16 DEF OnDone, OnError, OnBusy, Over
<1>17. ASSUME NEW c \in Conns, OnOpen(c)
       PROVE  (WireOK => WireOK') /\ (Going' /\ CalmWire => CalmWire')
  <2>1. cl'.ui = cl.ui /\ cl'.start = cl.start
    BY <1>17, OpenPage
  <2>2. CASE cl.ui = "stopping" \/ sock[c].role = "deliver"
    <3>1. ~Going'
      BY <1>5, <2>1, <2>2 DEF PageInv, StartedInOrder, DeliversLate
    <3>2. \/ UNCHANGED up
          \/ Sends(c, <<Frame("config")>>, {})
          \/ Sends(c, <<Frame("config"), Frame("stop")>>, {})
          \/ Sends(Nobody, <<>>, {c})
      BY <1>17 DEF OnOpen
    <3> QED BY <1>1, <1>2, <1>6, <1>7, <3>1, <3>2
  <2>3. CASE ~(cl.ui = "stopping" \/ sock[c].role = "deliver")
    <3>1. \/ UNCHANGED up
          \/ Sends(c, <<Frame("config")>>, {})
          \/ Sends(Nobody, <<>>, {c})
      BY <1>17, <2>3 DEF OnOpen
    <3> QED BY <1>1, <1>2, <1>3, <1>6, <1>7, <3>1
  <2> QED BY <2>2, <2>3
<1>18. CASE \/ MediaAcquired \/ OpenTimeout \/ SocketOpened \/ Ready
            \/ StopLocal \/ LocalSaved \/ StopUndelivered \/ BackToIdle
            \/ \E c \in Conns : StartRecording(c) \/ Retry(c) \/ DeliverStop(c) \/ OnOther(c)
  <2>1. UNCHANGED up
    BY <1>18 DEF MediaAcquired, OpenTimeout, SocketOpened, Ready, StopLocal, LocalSaved,
       StopUndelivered, BackToIdle, StartRecording, Retry, DeliverStop, OnOther
  <2> QED BY <1>6, <2>1
<1> QED
  BY <1>8, <1>9, <1>10, <1>11, <1>12, <1>13, <1>14, <1>15, <1>16, <1>17, <1>18
  DEF ClientStep

-----------------------------------------------------------------------------
(* The client, the wire and the server together.                           *)

LEMMA ClientLeavesServer == ClientStep => UNCHANGED <<vars, cut, carried>>
<1> USE DEF history, clientVars, netVars
<1>1. ASSUME \/ MediaFails \/ MediaAcquired \/ OpenTimeout \/ SocketOpened
             \/ SocketFailed \/ GraphFails \/ GraphReady \/ Ready \/ Speak
      PROVE  UNCHANGED <<vars, cut, carried>>
  BY <1>1 DEF MediaFails, MediaAcquired, OpenTimeout, SocketOpened, SocketFailed,
     GraphFails, GoLocal, GraphReady, Ready, Speak
<1>2. ASSUME \/ StopLocal \/ LocalSaved \/ StopOnline \/ StopOffline
             \/ StopUndelivered \/ BackToIdle \/ CancelRecording \/ CloseTab
      PROVE  UNCHANGED <<vars, cut, carried>>
  BY <1>2 DEF StopLocal, LocalSaved, StopOnline, StopOffline, StopUndelivered, BackToIdle,
     CancelRecording, CloseTab
<1>3. ASSUME NEW c \in Conns,
             \/ StartRecording(c) \/ Retry(c) \/ DeliverStop(c) \/ DeliverTimeout(c)
             \/ OnOpen(c) \/ OnOther(c) \/ \E late \in BOOLEAN : OnClose(c, late)
             \/ OnDone(c) \/ OnError(c) \/ OnBusy(c)
      PROVE  UNCHANGED <<vars, cut, carried>>
  BY <1>3 DEF StartRecording, Retry, DeliverStop, DeliverTimeout, OnOpen, OnOther, OnClose,
     OnDone, OnError, OnBusy
<1> QED BY <1>1, <1>2, <1>3 DEF ClientStep

\* The client's audio.
AudioKept ==
    /\ gap \subseteq Chunks /\ local \subseteq Chunks
    /\ spoken \in 0..MaxChunks

LEMMA AudioStep == AudioKept /\ ClientStep => AudioKept'
<1> SUFFICES ASSUME AudioKept, ClientStep PROVE AudioKept'
  OBVIOUS
<1> USE DEF history, clientVars, AudioKept
<1>1. CASE \/ MediaFails \/ MediaAcquired \/ OpenTimeout \/ SocketOpened
           \/ SocketFailed \/ GraphFails \/ GraphReady \/ Ready
  BY <1>1 DEF MediaFails, MediaAcquired, OpenTimeout, SocketOpened, SocketFailed,
     GraphFails, GoLocal, GraphReady, Ready
<1>2. CASE Speak
  <2>1. spoken + 1 \in Chunks /\ spoken' = spoken + 1
    BY <1>2 DEF Speak, Chunks
  <2>2. /\ local' = local \/ local' = local \cup {spoken + 1}
        /\ gap' = gap \/ gap' = gap \cup {spoken + 1}
    BY <1>2 DEF Speak
  <2>3. spoken' \in 0..MaxChunks
    BY <1>2, <2>1 DEF Speak
  <2> QED BY <2>1, <2>2, <2>3
<1>3. CASE \/ StopLocal \/ LocalSaved \/ StopOnline \/ StopOffline
           \/ StopUndelivered \/ BackToIdle \/ CancelRecording \/ CloseTab
  BY <1>3 DEF StopLocal, LocalSaved, StopOnline, StopOffline, StopUndelivered, BackToIdle,
     CancelRecording, CloseTab
<1>4. CASE \E c \in Conns :
              \/ StartRecording(c) \/ Retry(c) \/ DeliverStop(c) \/ DeliverTimeout(c)
              \/ OnOpen(c) \/ OnOther(c) \/ \E late \in BOOLEAN : OnClose(c, late)
  BY <1>4 DEF StartRecording, Retry, DeliverStop, DeliverTimeout, OnOpen, OnOther, OnClose
<1>5. CASE \E c \in Conns : OnDone(c) \/ OnError(c) \/ OnBusy(c)
  BY <1>5 DEF OnDone, OnError, OnBusy, Over
<1> QED BY <1>1, <1>2, <1>3, <1>4, <1>5 DEF ClientStep

\* The steps of the server and of the network.
NetStep ==
    \/ ReceiveDelete \/ DeleteLost \/ GraceEnds
    \/ \E c \in Conns :
          \/ Accept(c) \/ ReceiveChunk(c) \/ ReceiveConfig(c) \/ ReceiveStop(c)
          \/ AnswerStop(c) \/ ReceiveDiscard(c) \/ ReceiveClose(c) \/ Cut(c)

LEMMA NetLeavesPage == NetStep => UNCHANGED <<cl, sock, gap, local, spoken, endings>>
  BY DEF NetStep, ReceiveDelete, DeleteLost, GraceEnds, Accept, ReceiveChunk,
     ReceiveConfig, ReceiveStop, AnswerStop, ReceiveDiscard, ReceiveClose, Cut,
     history, clientVars

\* A step of the server is one of RecordSession.
LEMMA NetIsServer == NetStep => [Next]_vars
<1>1. ASSUME NEW c \in Conns,
             \/ Accept(c) \/ ReceiveChunk(c) \/ ReceiveConfig(c) \/ ReceiveStop(c)
             \/ AnswerStop(c) \/ ReceiveDiscard(c) \/ ReceiveClose(c) \/ Cut(c)
      PROVE  ConnStep(c) \/ UNCHANGED vars
  BY <1>1 DEF Accept, ReceiveChunk, ReceiveConfig, ReceiveStop, AnswerStop, ReceiveDiscard,
     ReceiveClose, Cut, ConnStep
<1>2. ReceiveDelete \/ DeleteLost \/ GraceEnds => Delete \/ GraceExpire \/ UNCHANGED vars
  BY DEF ReceiveDelete, DeleteLost, GraceEnds
<1> QED BY <1>1, <1>2 DEF NetStep, Next

\* The server and the network only take from the wire and from the requests.
LEMMA NetOnlyTakes ==
    ASSUME NEW F, up \in [Conns -> Seq(F)], NetStep
    PROVE  up' \in [Conns -> Seq(F)]
<1>1. CASE UNCHANGED up
  BY <1>1
<1>2. ASSUME NEW c \in Conns, up[c] # <<>>, up' = [up EXCEPT ![c] = Tail(@)]
      PROVE  up' \in [Conns -> Seq(F)]
  <2>1. Tail(up[c]) \in Seq(F)
    BY <1>2, HeadTailProperties
  <2> QED BY <1>2, <2>1
<1>3. ASSUME NEW c \in Conns, Cut(c)
      PROVE  up' \in [Conns -> Seq(F)]
  <2>1. PICK n \in 0..Len(up[c]) : up' = [up EXCEPT ![c] = SubSeq(@, 1, n)]
    BY <1>3 DEF Cut
  <2>2. SubSeq(up[c], 1, n) \in Seq(F)
    BY <2>1, LenProperties, SubSeqProperties
  <2> QED BY <2>1, <2>2
<1> QED
  BY <1>1, <1>2, <1>3 DEF NetStep, ReceiveDelete, DeleteLost, GraceEnds, Accept,
     ReceiveChunk, ReceiveConfig, ReceiveStop, AnswerStop, ReceiveDiscard, ReceiveClose,
     Took, netVars

LEMMA NetDeletes ==
    ASSUME NetStep, deletes \in Nat
    PROVE  deletes' \in Nat /\ deletes' <= deletes
<1>1. CASE ReceiveDelete \/ DeleteLost
  BY <1>1 DEF ReceiveDelete, DeleteLost
<1>2. CASE UNCHANGED deletes
  BY <1>2
<1> QED
  BY <1>1, <1>2 DEF NetStep, GraceEnds, Accept, ReceiveChunk, ReceiveConfig, ReceiveStop,
     AnswerStop, ReceiveDiscard, ReceiveClose, Cut

\* The inductive invariant.
ProtocolInv ==
    /\ TypeOK
    /\ PageInv /\ AudioKept
    /\ cut \subseteq Conns
    /\ WireOK
    /\ deletes \in Nat /\ CancelsCounted
    /\ carried \in Seq(Chunks)
    /\ Undisturbed

LEMMA CarriedType ==
    ASSUME ProtocolInv, NetStep
    PROVE  carried' \in Seq(Chunks)
<1>1. ASSUME NEW c \in Conns, ReceiveChunk(c)
      PROVE  carried' \in Seq(Chunks)
  <2>1. Head(up[c]) \in Frames /\ Head(up[c]).kind = "pcm"
    BY <1>1, HeadTailProperties DEF ProtocolInv, WireOK, ReceiveChunk, Took
  <2>2. Head(up[c]).unit \in Chunks
    BY <2>1 DEF Frames, Frame, Pcm
  <2> QED BY <1>1, <2>2, AppendProperties DEF ReceiveChunk, ProtocolInv
<1>2. CASE UNCHANGED carried
  BY <1>2 DEF ProtocolInv
<1> QED
  BY <1>1, <1>2 DEF NetStep, ReceiveDelete, DeleteLost, GraceEnds, Accept, ReceiveConfig,
     ReceiveStop, AnswerStop, ReceiveDiscard, ReceiveClose, Cut, history

\* While a recording goes on the server does nothing that ends it but what a
\* lost connection, the grace timer or a discard would.
LEMMA UndisturbedKept ==
    ASSUME ProtocolInv, NetStep, Going
    PROVE  LoopOwnsSession' /\ ~Stopping' /\ deletes' = 0 /\ CalmWire'
<1>1. OwnerInv /\ deletes = 0 /\ CalmWire
  BY DEF ProtocolInv, Undisturbed, OwnerInv
<1>2. deletes' = 0
  BY <1>1, NetDeletes
<1>3. CalmWire'
  BY <1>1, NetOnlyTakes DEF CalmWire
<1>4. ASSUME NEW c \in Conns PROVE ~ReceiveStop(c) /\ ~AnswerStop(c)
  <2>1. ASSUME Took(c, "stop") PROVE FALSE
    <3>1. Head(up[c]) \in CalmFrames
      BY <1>1, <2>1, HeadTailProperties DEF CalmWire, Took
    <3> QED BY <2>1, <3>1 DEF Took, CalmFrames, Frame, Pcm
  <2> QED BY <1>1, <2>1 DEF ReceiveStop, AnswerStop, FinishStop, OwnerInv, Stopping
<1>5. ASSUME NEW c \in Conns,
             \/ Accept(c) \/ ReceiveChunk(c) \/ ReceiveConfig(c) \/ ReceiveDiscard(c)
             \/ ReceiveClose(c) \/ Cut(c)
      PROVE  OwnerNext \/ UNCHANGED vars
  BY <1>5 DEF Accept, ReceiveChunk, ReceiveConfig, ReceiveDiscard, ReceiveClose, Cut,
     OwnerNext
<1>6. OwnerNext \/ UNCHANGED vars
  BY <1>1, <1>4, <1>5 DEF NetStep, ReceiveDelete, DeleteLost, GraceEnds, OwnerNext
<1>7. OwnerInv'
  BY <1>1, <1>6, OwnerKept
<1> QED BY <1>2, <1>3, <1>7 DEF OwnerInv

LEMMA ProtocolStep == ProtocolInv /\ [ProtocolNext]_protocolVars => ProtocolInv'
<1> SUFFICES ASSUME ProtocolInv, [ProtocolNext]_protocolVars PROVE ProtocolInv'
  OBVIOUS
<1>1. CASE ClientStep
  <2>1. PageInv' /\ AudioKept'
    BY <1>1, PageStep, AudioStep DEF ProtocolInv
  <2>2. UNCHANGED <<vars, cut, carried>>
    BY <1>1, ClientLeavesServer
  <2>3. TypeOK'
    BY <2>2, TypeStep DEF ProtocolInv
  <2>4. WireOK' /\ (Going' /\ CalmWire => CalmWire')
    BY <1>1, WireStep DEF ProtocolInv, AudioKept
  <2>5. CancelsCounted' /\ deletes' \in Nat
    BY <1>1, CancelsStep DEF ProtocolInv
  <2>6. ASSUME Going'
        PROVE  LoopOwnsSession' /\ ~Stopping' /\ deletes' = 0 /\ CalmWire'
    <3>1. Going
      BY <1>1, <2>6, PageMoves DEF ProtocolInv, Going, Uncancelled
    <3>2. deletes' = 0
      BY <2>5, <2>6 DEF CancelsCounted, Going, Uncancelled
    <3>3. LoopOwnsSession' /\ ~Stopping'
      BY <2>2, <3>1 DEF ProtocolInv, Undisturbed, vars, LoopOwnsSession, Stopping, Live
    <3> QED BY <2>4, <2>6, <3>1, <3>2, <3>3 DEF ProtocolInv, Undisturbed
  <2> QED BY <2>1, <2>2, <2>3, <2>4, <2>5, <2>6 DEF ProtocolInv, Undisturbed
<1>2. CASE NetStep
  <2>1. UNCHANGED <<cl, sock, gap, local, spoken, endings>>
    BY <1>2, NetLeavesPage
  <2>2. PageInv' /\ AudioKept'
    BY <2>1 DEF ProtocolInv, PageInv, AudioKept, StartedInOrder, RestsQuietly, DeliversLate,
       AudioOff, LoopOff
  <2>3. TypeOK'
    BY <1>2, NetIsServer, TypeStep DEF ProtocolInv
  <2>4. WireOK'
    BY <1>2, NetOnlyTakes DEF ProtocolInv, WireOK
  <2>5. CancelsCounted' /\ deletes' \in Nat
    BY <1>2, <2>1, NetDeletes DEF ProtocolInv, CancelsCounted
  <2>6. cut' \subseteq Conns
    BY <1>2 DEF ProtocolInv, NetStep, ReceiveDelete, DeleteLost, GraceEnds, Accept,
       ReceiveChunk, ReceiveConfig, ReceiveStop, AnswerStop, ReceiveDiscard, ReceiveClose,
       Cut, netVars
  <2>7. Undisturbed'
    BY <1>2, <2>1, UndisturbedKept DEF Undisturbed, Going, Uncancelled
  <2> QED BY <1>2, <2>2, <2>3, <2>4, <2>5, <2>6, <2>7, CarriedType DEF ProtocolInv
<1>3. CASE UNCHANGED protocolVars
  BY <1>3 DEF ProtocolInv, protocolVars, vars, clientVars, netVars, history, TypeOK,
     PageInv, AudioKept, StartedInOrder, RestsQuietly, DeliversLate, AudioOff, LoopOff,
     WireOK, CancelsCounted, Undisturbed, Going, Uncancelled, CalmWire, LoopOwnsSession,
     Stopping, Live
<1> QED BY <1>1, <1>2, <1>3 DEF ProtocolNext, NetStep

LEMMA ProtocolStarts == ProtocolInit => ProtocolInv
<1> SUFFICES ASSUME ProtocolInit PROVE ProtocolInv
  OBVIOUS
<1>1. TypeOK
  BY TypeInit DEF ProtocolInit
<1>2. cl \in Client /\ sock \in [Conns -> Sockets]
  BY DEF ProtocolInit, Client, Sockets
<1>3. StartedInOrder /\ RestsQuietly /\ DeliversLate /\ CancelsCounted
  BY DEF ProtocolInit, StartedInOrder, RestsQuietly, DeliversLate, CancelsCounted,
     AudioOff, LoopOff
<1>4. WireOK /\ CalmWire
  BY DEF ProtocolInit, WireOK, CalmWire
<1>5. LoopOwnsSession /\ ~Stopping
  BY DEF ProtocolInit, Init, LoopOwnsSession, Stopping
<1>6. AudioKept /\ carried \in Seq(Chunks) /\ deletes = 0 /\ cut \subseteq Conns
  BY DEF ProtocolInit, AudioKept
<1> QED BY <1>1, <1>2, <1>3, <1>4, <1>5, <1>6 DEF ProtocolInv, PageInv, Undisturbed

LEMMA ProtocolInvariant == ProtocolSpec => []ProtocolInv
  BY ProtocolStarts, ProtocolStep, PTL DEF ProtocolSpec

\* Whatever is cut, lost or cancelled: the connection a running recording uses
\* owns the live session as soon as the server has accepted it
\* (wsRecorderClient.ts: cancelReconnectLoop, close; recorder.py: attach_owner).
THEOREM UsedSocketIsOwner == ProtocolSpec => []UsedSocketOwns
<1>1. ProtocolInv => UsedSocketOwns
  BY DEF ProtocolInv, Undisturbed, Going, UsedSocketOwns, LoopOwnsSession
<1> QED BY <1>1, ProtocolInvariant, PTL

\* A page that shows no recording has no microphone running, and no gap recorder
\* and no reconnect loop either but for those a local recording may leave
\* (recorder.ts: resetAll, teardownAudio); every variable has its type.
THEOREM IdlePageIsQuiet == ProtocolSpec => []IdleIsQuiet
<1>1. ProtocolInv => deletes \in 0..2
  BY DEF ProtocolInv, CancelsCounted
<1>2. ProtocolInv => ProtocolTypeOK
  BY <1>1 DEF ProtocolInv, PageInv, AudioKept, ProtocolTypeOK
<1>3. ProtocolInv /\ cl.ui = "idle" /\ cl.start \in {"none", "over"} =>
        AudioOff /\ ("local" \in endings \/ LoopOff)
  BY DEF ProtocolInv, PageInv, RestsQuietly, StartedInOrder
<1>4. ProtocolInv => IdleIsQuiet
  BY <1>2, <1>3 DEF IdleIsQuiet, AudioOff, LoopOff
<1> QED BY <1>4, ProtocolInvariant, PTL

-----------------------------------------------------------------------------
(* The order of the audio.                                                 *)

\* What the client says to the server is what RecordSession expects of any
\* client: whatever holds of every behaviour of RecordSession holds here
\* (record.py, record_session.py and recorder.py do not trust the client).
THEOREM ServerIsRecordSession == ProtocolSpec => Spec
<1>1. ProtocolInit => Init
  BY DEF ProtocolInit
<1>2. ProtocolNext => [Next]_vars
  BY ClientLeavesServer, NetIsServer DEF ProtocolNext, NetStep
<1>3. UNCHANGED protocolVars => UNCHANGED vars
  BY DEF protocolVars
<1> QED BY <1>1, <1>2, <1>3, PTL DEF ProtocolSpec, Spec

SilentFrames == {Frame(kind) : kind \in {"config", "stop", "discard", "close"}}

HasAudio(c) == \E i \in DOMAIN up[c] : up[c][i].kind = "pcm"

\* The audio on a wire is in order, and later than what the server has.
WireRises(c) ==
    \A i \in DOMAIN up[c] : up[c][i].kind = "pcm" =>
        /\ up[c][i].unit <= spoken
        /\ \A n \in DOMAIN carried : carried[n] < up[c][i].unit
        /\ \A j \in DOMAIN up[c] :
              j < i /\ up[c][j].kind = "pcm" => up[c][j].unit < up[c][i].unit

\* A connection carries nothing before the server has accepted it.
Unheard ==
    \A c \in Conns : pc[c] = "accepting" =>
        down[c] = <<>> /\ sock[c].ready # "open" /\ ~HasAudio(c)

\* At most one connection in its loop has audio on its wire, the audio of every
\* one is in order and later than all that was received.
ComesInOrder ==
    /\ Rising(carried, spoken)
    /\ \A c \in Conns : pc[c] = "loop" => WireRises(c)
    /\ \A c, d \in Conns :
          pc[c] = "loop" /\ pc[d] = "loop" /\ HasAudio(c) /\ HasAudio(d) => c = d

Events == Replies \cup {"open", "close"}

OrderInv ==
    /\ down \in [Conns -> Seq(Events)] /\ Unheard
    /\ Len(carried) = sent /\ ChunksInOrder
    /\ Uncancelled => ComesInOrder

\* The audio on the wire of c was there before, k places further on.
WasThere(c, k) ==
    \A i \in DOMAIN up'[c] : up'[c][i].kind = "pcm" =>
        i + k \in DOMAIN up[c] /\ up'[c][i] = up[c][i + k]

LEMMA WireKept ==
    ASSUME NEW c \in Conns, NEW k \in Nat, up[c] \in Seq(Frames), up'[c] \in Seq(Frames),
           WasThere(c, k)
    PROVE  /\ HasAudio(c)' => HasAudio(c)
           /\ UNCHANGED <<carried, spoken>> /\ WireRises(c) => WireRises(c)'
<1>1. HasAudio(c)' => HasAudio(c)
  BY DEF HasAudio, WasThere
<1>2. ASSUME UNCHANGED <<carried, spoken>>, WireRises(c) PROVE WireRises(c)'
  <2>1. \A i, j \in DOMAIN up'[c] : j < i => j + k < i + k
    OBVIOUS
  <2> QED BY <1>2, <2>1 DEF WireRises, WasThere
<1> QED BY <1>1, <1>2

\* A step that says nothing new.
LEMMA SilentSends ==
    ASSUME WireOK, NEW on, NEW frames \in Seq(SilentFrames), NEW closing,
           Sends(on, frames, closing)
    PROVE  \A c \in Conns : WasThere(c, 0)
<1> SUFFICES ASSUME NEW c \in Conns PROVE WasThere(c, 0)
  OBVIOUS
<1> DEFINE said == IF c = on THEN frames ELSE <<>>
           closed == IF sock[c].ready \in {"connecting", "open"} /\ c \in closing
                       THEN <<Frame("close")>> ELSE <<>>
           s == up[c]
<1>1. <<>> \in Seq(SilentFrames) /\ <<Frame("close")>> \in Seq(SilentFrames)
  BY DEF SilentFrames
<1>2. said \in Seq(SilentFrames) /\ closed \in Seq(SilentFrames) /\ s \in Seq(Frames)
  BY <1>1 DEF WireOK
<1>3. up'[c] = s \/ up'[c] = s \o said \o closed
  BY DEF Sends
<1>4. \A f \in SilentFrames : f.kind # "pcm"
  BY DEF SilentFrames, Frame
<1>s. s = up[c]
  OBVIOUS
<1> HIDE DEF said, closed, s
<1>5. /\ Len(s \o said) = Len(s) + Len(said)
      /\ \A i \in 1..Len(s) + Len(said) :
            (s \o said)[i] = IF i <= Len(s) THEN s[i] ELSE said[i - Len(s)]
  BY <1>2
<1> DEFINE t == s \o said
<1>t. t \in Seq(Frames)
  <2>1. SilentFrames \subseteq Frames
    BY DEF SilentFrames, Frames
  <2>2. said \in Seq(Frames)
    BY <1>2, <2>1
  <2> QED BY <1>2, <2>2, ConcatProperties
<1>u. t = s \o said
  OBVIOUS
<1> HIDE DEF t
<1>6. /\ Len(t \o closed) = Len(t) + Len(closed)
      /\ \A i \in 1..Len(t) + Len(closed) :
            (t \o closed)[i] = IF i <= Len(t) THEN t[i] ELSE closed[i - Len(t)]
      /\ DOMAIN (t \o closed) = 1..Len(t) + Len(closed)
  BY <1>2, <1>t
<1>7. \A i \in DOMAIN (t \o closed) :
         (t \o closed)[i].kind = "pcm" => i \in DOMAIN s /\ (t \o closed)[i] = s[i]
  <2> SUFFICES ASSUME NEW i \in DOMAIN (t \o closed), (t \o closed)[i].kind = "pcm"
               PROVE  i \in DOMAIN s /\ (t \o closed)[i] = s[i]
    OBVIOUS
  <2>1. i \in 1..Len(t) + Len(closed) /\ Len(t) \in Nat /\ Len(s) \in Nat
        /\ Len(said) \in Nat /\ Len(closed) \in Nat
    BY <1>2, <1>6, <1>t
  <2>2. i <= Len(t)
    <3>1. CASE i > Len(t)
      <4>1. i - Len(t) \in 1..Len(closed)
        BY <2>1, <3>1
      <4>2. closed[i - Len(t)] \in SilentFrames
        BY <1>2, <4>1
      <4> QED BY <1>4, <1>6, <2>1, <3>1, <4>2
    <3> QED BY <2>1, <3>1
  <2>3. (t \o closed)[i] = t[i]
    BY <1>6, <2>1, <2>2
  <2>4. i <= Len(s)
    <3>1. CASE i > Len(s)
      <4>1. i - Len(s) \in 1..Len(said)
        BY <1>5, <1>u, <2>1, <2>2, <3>1
      <4>2. said[i - Len(s)] \in SilentFrames
        BY <1>2, <4>1
      <4> QED BY <1>4, <1>5, <1>u, <2>1, <2>2, <2>3, <3>1, <4>2
    <3> QED BY <2>1, <3>1
  <2> QED BY <1>2, <1>5, <1>u, <2>1, <2>2, <2>3, <2>4
<1>8. \A i \in DOMAIN up'[c] : up'[c][i].kind = "pcm" => i \in DOMAIN s /\ up'[c][i] = s[i]
  BY <1>3, <1>7, <1>u
<1> QED BY <1>2, <1>8, <1>s DEF WasThere

\* Only the microphone puts audio on a wire.
LEMMA ClientSilent ==
    ASSUME WireOK, ClientStep, ~Speak
    PROVE  spoken' = spoken /\ \A c \in Conns : WasThere(c, 0)
<1> USE DEF history, clientVars, netVars
<1>1. /\ <<>> \in Seq(SilentFrames) /\ <<Frame("config")>> \in Seq(SilentFrames)
      /\ <<Frame("stop")>> \in Seq(SilentFrames)
      /\ <<Frame("config"), Frame("stop")>> \in Seq(SilentFrames)
      /\ Discards(cl) \in Seq(SilentFrames)
  <2>1. /\ Frame("config") \in SilentFrames /\ Frame("stop") \in SilentFrames
        /\ Frame("discard") \in SilentFrames
    BY DEF SilentFrames
  <2> QED BY <2>1 DEF Discards
<1>2. UNCHANGED up => \A c \in Conns : WasThere(c, 0)
  BY DEF WireOK, WasThere
<1>3. \A on, closing :
         \A frames \in {<<>>, <<Frame("config")>>, <<Frame("stop")>>,
                        <<Frame("config"), Frame("stop")>>, Discards(cl)} :
            Sends(on, frames, closing) => \A c \in Conns : WasThere(c, 0)
  BY <1>1, SilentSends
<1>4. CASE \/ SocketFailed \/ GraphFails \/ StopOffline \/ MediaFails \/ StopOnline
           \/ CancelRecording \/ GraphReady \/ CloseTab
  BY <1>3, <1>4 DEF SocketFailed, GraphFails, GoLocal, StopOffline, MediaFails, StopOnline,
     CancelRecording, GraphReady, CloseTab
<1>5. CASE \E c \in Conns : DeliverTimeout(c) \/ \E late \in BOOLEAN : OnClose(c, late)
  BY <1>3, <1>5 DEF DeliverTimeout, OnClose
<1>6. CASE \E c \in Conns : OnDone(c) \/ OnError(c) \/ OnBusy(c)
  BY <1>3, <1>6 DEF OnDone, OnError, OnBusy, Over
<1>7. CASE \E c \in Conns : OnOpen(c)
  BY <1>2, <1>3, <1>7 DEF OnOpen
<1>8. CASE \/ MediaAcquired \/ OpenTimeout \/ SocketOpened \/ Ready
           \/ StopLocal \/ LocalSaved \/ StopUndelivered \/ BackToIdle
           \/ \E c \in Conns : StartRecording(c) \/ Retry(c) \/ DeliverStop(c) \/ OnOther(c)
  <2>1. UNCHANGED <<up, spoken>>
    BY <1>8 DEF MediaAcquired, OpenTimeout, SocketOpened, Ready, StopLocal, LocalSaved,
       StopUndelivered, BackToIdle, StartRecording, Retry, DeliverStop, OnOther
  <2> QED BY <1>2, <2>1
<1> QED BY <1>4, <1>5, <1>6, <1>7, <1>8 DEF ClientStep

\* A socket opens, and events are handled, only after the server spoke.
LEMMA ClientHears ==
    ASSUME PageInv, ClientStep, down \in [Conns -> Seq(Events)]
    PROVE  /\ down' \in [Conns -> Seq(Events)]
           /\ \A c \in Conns : down[c] = <<>> =>
                 /\ down'[c] = <<>>
                 /\ sock'[c].ready = "open" => sock[c].ready = "open"
<1> USE DEF history, clientVars, netVars
<1>1. ASSUME NEW S, sock' = Socks(S)
      PROVE  \A c \in Conns : sock'[c].ready = "open" => sock[c].ready = "open"
  BY <1>1 DEF Socks, PageInv, Sockets
<1>2. ASSUME NEW c \in Conns, NEW role, Open(c, role)
      PROVE  \A d \in Conns : sock'[d].ready = "open" => sock[d].ready = "open"
  BY <1>2 DEF Open, PageInv
<1>3. ASSUME UNCHANGED down PROVE down' \in [Conns -> Seq(Events)]
  BY <1>3
<1>4. ASSUME NEW c \in Conns, down[c] # <<>>, Delivered(c)
      PROVE  /\ down' \in [Conns -> Seq(Events)]
             /\ \A d \in Conns : down[d] = <<>> => down'[d] = <<>>
  <2>1. Tail(down[c]) \in Seq(Events)
    BY <1>4, HeadTailProperties
  <2> QED BY <1>4, <2>1 DEF Delivered
<1>5. CASE \/ MediaFails \/ SocketFailed \/ GraphFails \/ StopOnline \/ StopOffline
           \/ CancelRecording \/ \E c \in Conns : DeliverTimeout(c)
  BY <1>1, <1>3, <1>5 DEF MediaFails, SocketFailed, GraphFails, GoLocal, StopOnline,
     StopOffline, CancelRecording, DeliverTimeout
<1>6. CASE \E c \in Conns : StartRecording(c) \/ Retry(c) \/ DeliverStop(c)
  BY <1>2, <1>3, <1>6 DEF StartRecording, Retry, DeliverStop
<1>7. CASE \/ OpenTimeout \/ GraphReady \/ Ready \/ Speak \/ StopLocal \/ LocalSaved
           \/ StopUndelivered \/ BackToIdle
  BY <1>3, <1>7 DEF OpenTimeout, GraphReady, Ready, Speak, StopLocal, LocalSaved,
     StopUndelivered, BackToIdle
<1>8. CASE MediaAcquired \/ SocketOpened
  <2>1. UNCHANGED down /\ (UNCHANGED sock \/ Attach(cl))
    BY <1>8 DEF MediaAcquired, SocketOpened
  <2>2. Attach(cl) => \A c \in Conns : sock'[c].ready = sock[c].ready
    BY DEF Attach, PageInv, Sockets
  <2> QED BY <1>3, <2>1, <2>2
<1>9. CASE CloseTab
  <2>1. \A c \in Conns : sock'[c].ready = "open" => sock[c].ready = "open"
    BY <1>9 DEF CloseTab, PageInv, Sockets
  <2> QED BY <1>3, <1>9, <2>1 DEF CloseTab
<1>10. ASSUME NEW c \in Conns, OnDone(c) \/ OnError(c) \/ OnBusy(c)
       PROVE  /\ down' \in [Conns -> Seq(Events)]
              /\ \A d \in Conns : down[d] = <<>> =>
                    /\ down'[d] = <<>>
                    /\ sock'[d].ready = "open" => sock[d].ready = "open"
  <2>1. \E S : sock' = Socks(S)
    BY <1>10 DEF OnDone, OnError, OnBusy, Over
  <2> QED BY <1>1, <1>4, <1>10, <2>1 DEF OnDone, OnError, OnBusy, Event
<1>11. ASSUME NEW c \in Conns, OnOpen(c)
       PROVE  /\ down' \in [Conns -> Seq(Events)]
              /\ \A d \in Conns : down[d] = <<>> =>
                    /\ down'[d] = <<>>
                    /\ sock'[d].ready = "open" => sock[d].ready = "open"
  <2>1. Opened(c, "fresh") \/ Opened(c, "attached") \/ sock' = Socks({c})
    BY <1>11 DEF OnOpen
  <2>2. \A d \in Conns \ {c} : sock'[d].ready = "open" => sock[d].ready = "open"
    BY <1>1, <2>1 DEF Opened, PageInv
  <2> QED BY <1>4, <1>11, <2>2 DEF OnOpen, Event
<1>12. ASSUME NEW c \in Conns, OnOther(c)
       PROVE  /\ down' \in [Conns -> Seq(Events)]
              /\ \A d \in Conns : down[d] = <<>> =>
                    /\ down'[d] = <<>>
                    /\ sock'[d].ready = "open" => sock[d].ready = "open"
  BY <1>4, <1>12 DEF OnOther
<1>13. ASSUME NEW c \in Conns, NEW late \in BOOLEAN, OnClose(c, late)
       PROVE  /\ down' \in [Conns -> Seq(Events)]
              /\ \A d \in Conns : down[d] = <<>> =>
                    /\ down'[d] = <<>>
                    /\ sock'[d].ready = "open" => sock[d].ready = "open"
  <2>1. PICK S : sock' = [Socks(S) EXCEPT ![c].ready = "closed"]
    BY <1>13 DEF OnClose
  <2>2. \A d \in Conns : sock'[d].ready = "open" => Socks(S)[d].ready = "open"
    BY <2>1 DEF Socks, PageInv, Sockets
  <2>3. \A d \in Conns : Socks(S)[d].ready = "open" => sock[d].ready = "open"
    BY DEF Socks, PageInv, Sockets
  <2>4. down' = [down EXCEPT ![c] = <<>>]
    BY <1>13 DEF OnClose
  <2> QED BY <2>2, <2>3, <2>4
<1> QED
  BY <1>5, <1>6, <1>7, <1>8, <1>9, <1>10, <1>11, <1>12, <1>13 DEF ClientStep

\* A page that feeds the microphone to a socket has not ended its recording.
LEMMA StreamsWhileGoing ==
    ASSUME PageInv, Uncancelled, cl.mic = "stream"
    PROVE  Going
  BY DEF PageInv, RestsQuietly, StartedInOrder, AudioOff, Going, Client

\* A unit that is spoken is later than all that is on a wire or was received,
\* and goes to the one connection that feeds the session.
LEMMA SpeakInOrder ==
    ASSUME ProtocolInv, OrderInv, Uncancelled, Speak
    PROVE  ComesInOrder'
<1> DEFINE u == spoken + 1
<1>1. /\ u \in Chunks /\ spoken \in Nat /\ spoken' = u
      /\ UNCHANGED <<vars, cl, sock, cut, carried>>
    BY DEF Speak, ProtocolInv, AudioKept, Chunks
<1>2. carried \in Seq(Chunks) /\ \A n \in DOMAIN carried : carried[n] <= spoken
  BY DEF ProtocolInv, OrderInv, ComesInOrder, Rising
<1>3. Rising(carried, spoken)'
  BY <1>1, <1>2 DEF OrderInv, ComesInOrder, Rising, Chunks
<1>4. \A c \in Conns : up[c] \in Seq(Frames) /\ (pc[c] = "loop" => WireRises(c))
  BY DEF ProtocolInv, WireOK, OrderInv, ComesInOrder
<1>5. ASSUME NEW c \in Conns, up'[c] = up[c]
      PROVE  /\ HasAudio(c)' <=> HasAudio(c)
             /\ pc[c] = "loop" => WireRises(c)'
  <2>1. HasAudio(c)' <=> HasAudio(c)
    BY <1>5 DEF HasAudio
  <2>2. ASSUME pc[c] = "loop" PROVE WireRises(c)'
    <3>1. \A i \in DOMAIN up[c] : up[c][i].kind = "pcm" => up[c][i].unit \in Nat
      <4>1. \A i \in DOMAIN up[c] : up[c][i] \in Frames
        BY <1>4
      <4> QED BY <4>1 DEF Frames, Frame, Pcm, Chunks
    <3>2. WireRises(c)
      BY <1>4, <2>2
    <3>3. ASSUME NEW i \in DOMAIN up[c], up[c][i].kind = "pcm"
          PROVE  /\ up[c][i].unit <= spoken'
                 /\ \A n \in DOMAIN carried : carried[n] < up[c][i].unit
                 /\ \A j \in DOMAIN up[c] :
                      j < i /\ up[c][j].kind = "pcm" => up[c][j].unit < up[c][i].unit
      BY <1>1, <3>1, <3>2, <3>3 DEF WireRises
    <3> QED BY <1>1, <1>5, <3>3 DEF WireRises
  <2> QED BY <2>1, <2>2
<1>6. CASE UNCHANGED up
  BY <1>1, <1>3, <1>5, <1>6 DEF OrderInv, ComesInOrder, vars
<1>7. CASE cl.mic = "stream" /\ IsOpen(cl) /\ Sends(cl.ws, <<Pcm(u)>>, {})
  <2>1. PICK w \in Conns : w = cl.ws
    BY <1>7 DEF IsOpen, ProtocolInv, PageInv, Client
  <2>2. LoopOwnsSession
    BY <1>7, StreamsWhileGoing DEF ProtocolInv, Undisturbed
  <2>3. ASSUME NEW c \in Conns, c # w PROVE up'[c] = up[c]
    <3>1. up'[c] = up[c] \/ up'[c] = up[c] \o <<>> \o <<>>
      BY <1>7, <2>1, <2>3 DEF Sends
    <3> QED BY <1>4, <3>1
  <2>4. up'[w] = up[w] \/ up'[w] = Append(up[w], Pcm(u))
    <3>1. <<Pcm(u)>> \in Seq(Frames)
      BY <1>1 DEF Frames
    <3>2. up'[w] = up[w] \/ up'[w] = up[w] \o <<Pcm(u)>> \o <<>>
      BY <1>7, <2>1 DEF Sends
    <3> QED BY <1>4, <2>1, <3>1, <3>2
  <2>5. pc[w] = "loop" => WireRises(w)'
    <3>1. CASE up'[w] = up[w]
      BY <1>5, <2>1, <3>1
    <3>2. CASE pc[w] = "loop" /\ up'[w] = Append(up[w], Pcm(u))
      <4> DEFINE s == up[w]
      <4>1. s \in Seq(Frames)
        BY <1>4, <2>1
      <4>2. \A i \in DOMAIN s : s[i].kind = "pcm" =>
               /\ s[i].unit \in Nat /\ s[i].unit <= spoken
               /\ \A n \in DOMAIN carried : carried[n] < s[i].unit
               /\ \A j \in DOMAIN s : j < i /\ s[j].kind = "pcm" => s[j].unit < s[i].unit
        <5>1. \A i \in DOMAIN s : s[i] \in Frames
          BY <4>1
        <5>2. \A f \in Frames : f.kind = "pcm" => f.unit \in Nat
          BY DEF Frames, Frame, Pcm, Chunks
        <5>3. WireRises(w)
          BY <1>4, <2>1, <3>2
        <5> QED BY <5>1, <5>2, <5>3 DEF WireRises
      <4>s. up'[w] = Append(s, Pcm(u))
        BY <3>2
      <4> HIDE DEF s
      <4>3. Pcm(u).unit = u /\ \A n \in DOMAIN carried : carried[n] < u
        BY <1>1, <1>2 DEF Pcm, Chunks
      <4>4. /\ DOMAIN up'[w] = 1..Len(s) + 1 /\ DOMAIN s = 1..Len(s) /\ Len(s) \in Nat
            /\ up'[w][Len(s) + 1] = Pcm(u)
            /\ \A i \in 1..Len(s) : up'[w][i] = s[i]
        BY <4>1, <4>s
      <4> SUFFICES ASSUME NEW i \in DOMAIN up'[w], up'[w][i].kind = "pcm"
                   PROVE  /\ up'[w][i].unit <= u
                          /\ \A n \in DOMAIN carried : carried[n] < up'[w][i].unit
                          /\ \A j \in DOMAIN up'[w] : j < i /\ up'[w][j].kind = "pcm" =>
                                up'[w][j].unit < up'[w][i].unit
        BY <1>1 DEF WireRises
      <4>5. CASE i = Len(s) + 1
        BY <1>1, <4>2, <4>3, <4>4, <4>5
      <4>6. CASE i \in DOMAIN s
        <5>1. up'[w][i] = s[i]
          BY <4>4, <4>6
        <5>2. ASSUME NEW j \in DOMAIN up'[w], j < i
              PROVE  j \in DOMAIN s /\ up'[w][j] = s[j]
          BY <4>4, <4>6, <5>2
        <5> QED BY <1>1, <4>2, <4>6, <5>1, <5>2
      <4> QED BY <4>4, <4>5, <4>6
    <3> QED BY <2>4, <3>1, <3>2
  <2>6. \A c \in Conns : pc[c] = "loop" => WireRises(c)'
    <3>1. ASSUME NEW c \in Conns, c # w, pc[c] = "loop" PROVE WireRises(c)'
      BY <1>5, <2>3, <3>1
    <3> QED BY <2>5, <3>1
  <2>7. \A c, d \in Conns : pc[c] = "loop" /\ pc[d] = "loop" => c = d
    BY <2>2 DEF LoopOwnsSession
  <2> QED BY <1>1, <1>3, <2>6, <2>7 DEF ComesInOrder, vars
<1>8. Sends(cl.ws, <<>>, {}) => UNCHANGED up
  BY <1>4 DEF Sends, ProtocolInv, WireOK
<1> QED BY <1>6, <1>7, <1>8 DEF Speak

\* A connection is accepted once, and is in its loop only after that.
LEMMA PlacesMove ==
    ASSUME TypeOK, [Next]_vars, NEW c \in Conns
    PROVE  /\ pc'[c] = "accepting" => pc[c] = "accepting"
           /\ pc'[c] = "loop" => pc[c] \in {"accepting", "loop"}
<1> USE DEF TypeOK, Goto
<1>1. ASSUME NEW d \in Conns, NEW place \in {"closed", "finalizing"}, Goto(d, place)
      PROVE  pc'[c] \in {"accepting", "loop"} => pc'[c] = pc[c]
  BY <1>1
<1>2. ASSUME NEW d \in Conns, BeginSession(d)
      PROVE  /\ pc'[c] = "accepting" => pc[c] = "accepting"
             /\ pc'[c] = "loop" => pc[c] \in {"accepting", "loop"}
  <2>1. pc[d] = "accepting" /\ (Goto(d, "loop") \/ Goto(d, "closed"))
    BY <1>2 DEF BeginSession, ResumeSession, StartSession, AdoptSession, RejectBusy
  <2> QED BY <2>1
<1>3. ASSUME NEW d \in Conns,
             \/ AudioChunkFails(d) \/ ConfigFails(d) \/ Disconnect(d) \/ Discard(d)
             \/ StopStreaming(d) \/ Stop(d) \/ FinishStop(d)
      PROVE  Goto(d, "closed") \/ Goto(d, "finalizing")
  BY <1>3 DEF AudioChunkFails, ConfigFails, Disconnect, Discard, StopStreaming, Stop,
     FinishStop, Finalize, Leave
<1>4. ASSUME NEW d \in Conns, HandleAudioChunk(d) \/ HandleConfig(d) PROVE pc' = pc
  BY <1>4 DEF HandleAudioChunk, HandleConfig, connVars
<1>5. GraceExpire \/ Delete \/ UNCHANGED vars => pc' = pc
  BY DEF GraceExpire, Delete, connVars, vars
<1>6. Crash => (pc'[c] \in {"accepting", "loop"} => pc'[c] = pc[c])
  BY DEF Crash
<1> QED BY <1>1, <1>2, <1>3, <1>4, <1>5, <1>6 DEF Next, ConnStep

\* Frames leave the wire at its head, or are lost at its end.
LEMMA NetWasThere ==
    ASSUME WireOK, NetStep, NEW d \in Conns
    PROVE  WasThere(d, 0) \/ (WasThere(d, 1) /\ up[d] # <<>> /\ up'[d] = Tail(up[d]))
<1>1. up[d] \in Seq(Frames)
  BY DEF WireOK
<1>2. up'[d] = up[d] => WasThere(d, 0)
  BY <1>1 DEF WasThere
<1>3. ASSUME NEW c \in Conns, up[c] # <<>>, up' = [up EXCEPT ![c] = Tail(@)]
      PROVE  WasThere(d, 0) \/ (WasThere(d, 1) /\ up[d] # <<>> /\ up'[d] = Tail(up[d]))
  <2>1. CASE c = d
    <3>1. up'[d] = Tail(up[d]) /\ up[d] # <<>>
      BY <1>3, <2>1 DEF WireOK
    <3>2. \A i \in DOMAIN Tail(up[d]) : i + 1 \in DOMAIN up[d] /\ Tail(up[d])[i] = up[d][i + 1]
      BY <1>1, <3>1
    <3> QED BY <3>1, <3>2 DEF WasThere
  <2>2. CASE c # d
    BY <1>2, <1>3, <2>2 DEF WireOK
  <2> QED BY <2>1, <2>2
<1>4. ASSUME NEW c \in Conns, Cut(c)
      PROVE  WasThere(d, 0)
  <2>1. PICK n \in 0..Len(up[c]) : up' = [up EXCEPT ![c] = SubSeq(@, 1, n)]
    BY <1>4 DEF Cut
  <2>2. CASE c = d
    <3>1. up'[d] = SubSeq(up[d], 1, n) /\ n \in 0..Len(up[d])
      BY <2>1, <2>2 DEF WireOK
    <3>2. \A i \in DOMAIN SubSeq(up[d], 1, n) :
            i + 0 \in DOMAIN up[d] /\ SubSeq(up[d], 1, n)[i] = up[d][i + 0]
      BY <1>1, <3>1
    <3> QED BY <3>1, <3>2 DEF WasThere
  <2>3. CASE c # d
    BY <1>2, <2>1, <2>3 DEF WireOK
  <2> QED BY <2>2, <2>3
<1>5. UNCHANGED up => WasThere(d, 0)
  BY <1>2
<1> QED
  BY <1>3, <1>4, <1>5 DEF NetStep, ReceiveDelete, DeleteLost, GraceEnds, Accept,
     ReceiveChunk, ReceiveConfig, ReceiveStop, AnswerStop, ReceiveDiscard, ReceiveClose,
     Took, netVars

\* The server speaks to connections it has accepted only.
LEMMA NetSpeaks ==
    ASSUME TypeOK, TypeOK', NetStep, down \in [Conns -> Seq(Events)]
    PROVE  /\ down' \in [Conns -> Seq(Events)]
           /\ \A c \in Conns : pc'[c] = "accepting" /\ down[c] = <<>> => down'[c] = <<>>
<1>1. ASSUME NEW c \in Conns, NEW events \in Seq(Events), Emits(c, events),
             pc'[c] # "accepting"
      PROVE  /\ down' \in [Conns -> Seq(Events)]
             /\ \A d \in Conns : pc'[d] = "accepting" /\ down[d] = <<>> => down'[d] = <<>>
  <2>1. down[c] \o events \in Seq(Events)
    BY <1>1, ConcatProperties
  <2> QED BY <1>1, <2>1 DEF Emits
<1>2. ASSUME NEW c \in Conns
      PROVE  Answers(c) \in Seq(Events) /\ <<"open">> \o Answers(c) \in Seq(Events)
  <2>1. reply'[c] \in Events
    BY DEF TypeOK, Events
  <2> DEFINE frame == IF reply'[c] # reply[c] THEN <<reply'[c]>> ELSE <<>>
             end == IF pc'[c] = "closed" THEN <<"close">> ELSE <<>>
  <2>e. "open" \in Events /\ "close" \in Events
    BY DEF Events
  <2>2. frame \in Seq(Events) /\ end \in Seq(Events) /\ <<"open">> \in Seq(Events)
    BY <2>1, <2>e
  <2>3. Answers(c) = frame \o end
    BY DEF Answers
  <2> HIDE DEF frame, end
  <2> QED BY <2>2, <2>3, ConcatProperties
<1>3. ASSUME NEW c \in Conns, Accept(c)
      PROVE  pc'[c] # "accepting" /\ Emits(c, <<"open">> \o Answers(c))
  BY <1>3 DEF Accept, BeginSession, ResumeSession, StartSession, AdoptSession, RejectBusy,
     Goto, TypeOK
<1>4. ASSUME NEW c \in Conns, ReceiveStop(c) \/ AnswerStop(c) \/ ReceiveDiscard(c)
      PROVE  pc'[c] # "accepting" /\ Emits(c, Answers(c))
  BY <1>4 DEF ReceiveStop, AnswerStop, ReceiveDiscard, Stop, StopStreaming, FinishStop,
     Finalize, Discard, Goto, TypeOK
<1>5. ASSUME NEW c \in Conns, Cut(c)
      PROVE  /\ down' \in [Conns -> Seq(Events)]
             /\ \A d \in Conns : down[d] = <<>> => down'[d] = <<>>
  <2>1. PICK k \in 0..Len(down[c]) : down' = [down EXCEPT ![c] = SubSeq(@, 1, k)]
    BY <1>5 DEF Cut
  <2>2. SubSeq(down[c], 1, k) \in Seq(Events)
    BY <2>1, LenProperties, SubSeqProperties
  <2>3. down[c] = <<>> => SubSeq(down[c], 1, k) = <<>>
    BY <2>1, <2>2
  <2> QED BY <2>1, <2>2, <2>3
<1>6. UNCHANGED down => down' \in [Conns -> Seq(Events)]
  OBVIOUS
<1>7. ASSUME ReceiveDelete \/ DeleteLost \/ GraceEnds PROVE UNCHANGED down
  BY <1>7 DEF ReceiveDelete, DeleteLost, GraceEnds, netVars
<1>8. ASSUME NEW c \in Conns, ReceiveChunk(c) \/ ReceiveConfig(c) \/ ReceiveClose(c)
      PROVE  UNCHANGED down
  BY <1>8 DEF ReceiveChunk, ReceiveConfig, ReceiveClose
<1> QED BY <1>1, <1>2, <1>3, <1>4, <1>5, <1>6, <1>7, <1>8 DEF NetStep

\* What the server has received, and from whom it may receive next.
LEMMA NetReceives ==
    ASSUME ProtocolInv, OrderInv, Uncancelled, NEW c \in Conns, ReceiveChunk(c)
    PROVE  ComesInOrder'
<1>1. /\ pc' = pc /\ spoken' = spoken /\ pc[c] = "loop"
      /\ up[c] \in Seq(Frames) /\ up[c] # <<>> /\ Head(up[c]).kind = "pcm"
      /\ up'[c] = Tail(up[c]) /\ \A d \in Conns \ {c} : up'[d] = up[d]
      /\ carried' = Append(carried, Head(up[c]).unit)
    BY DEF ReceiveChunk, Took, HandleAudioChunk, connVars, ProtocolInv, WireOK
<1> DEFINE s == up[c]
           u == Head(s).unit
<1>2. /\ s \in Seq(Frames) /\ s # <<>> /\ s[1].kind = "pcm" /\ u = s[1].unit
      /\ 1 \in DOMAIN s /\ carried' = Append(carried, u)
      /\ up'[c] = Tail(s)
  BY <1>1
<1>3. /\ u <= spoken /\ \A n \in DOMAIN carried : carried[n] < u
      /\ \A i \in DOMAIN s : 1 < i /\ s[i].kind = "pcm" => u < s[i].unit
      /\ \A i \in DOMAIN s : s[i].kind = "pcm" =>
            /\ s[i].unit <= spoken
            /\ \A n \in DOMAIN carried : carried[n] < s[i].unit
            /\ \A j \in DOMAIN s :
                  j < i /\ s[j].kind = "pcm" => s[j].unit < s[i].unit
  <2>1. WireRises(c)
    BY <1>1 DEF OrderInv, ComesInOrder
  <2> QED BY <1>2, <2>1 DEF WireRises
<1>4. u \in Chunks /\ carried \in Seq(Chunks) /\ Rising(carried, spoken)
  <2>1. s[1] \in Frames
    BY <1>2
  <2>2. \A f \in Frames : f.kind = "pcm" => f.unit \in Chunks
    BY DEF Frames, Frame, Pcm
  <2> QED BY <1>2, <2>1, <2>2 DEF ProtocolInv, OrderInv, ComesInOrder
<1> HIDE DEF s, u
<1>5. /\ Len(carried') = Len(carried) + 1 /\ DOMAIN carried' = 1..Len(carried) + 1
      /\ DOMAIN carried = 1..Len(carried) /\ Len(carried) \in Nat
      /\ carried'[Len(carried) + 1] = u
      /\ \A n \in 1..Len(carried) : carried'[n] = carried[n]
  BY <1>2, <1>4
<1>6. Rising(carried, spoken)'
  <2>1. ASSUME NEW m \in DOMAIN carried', NEW n \in DOMAIN carried', m < n
        PROVE  carried'[m] < carried'[n]
    <3>1. m \in DOMAIN carried /\ carried'[m] = carried[m]
      BY <1>5, <2>1
    <3>2. CASE n = Len(carried) + 1
      BY <1>3, <1>5, <3>1, <3>2
    <3>3. CASE n \in DOMAIN carried
      BY <1>4, <1>5, <2>1, <3>1, <3>3 DEF Rising
    <3> QED BY <1>5, <3>2, <3>3
  <2>2. ASSUME NEW n \in DOMAIN carried'
        PROVE  carried'[n] <= spoken'
    <3>1. CASE n = Len(carried) + 1
      BY <1>1, <1>3, <1>5, <3>1
    <3>2. CASE n \in DOMAIN carried
      BY <1>1, <1>4, <1>5, <3>2 DEF Rising
    <3> QED BY <1>5, <3>1, <3>2
  <2> QED BY <2>1, <2>2 DEF Rising
<1>7. WireRises(c)'
  <2>1. \A i \in DOMAIN Tail(s) : i + 1 \in DOMAIN s /\ 1 < i + 1 /\ Tail(s)[i] = s[i + 1]
    BY <1>2
  <2> SUFFICES ASSUME NEW i \in DOMAIN Tail(s), Tail(s)[i].kind = "pcm"
               PROVE  /\ Tail(s)[i].unit <= spoken
                      /\ \A n \in DOMAIN carried' : carried'[n] < Tail(s)[i].unit
                      /\ \A j \in DOMAIN Tail(s) :
                            j < i /\ Tail(s)[j].kind = "pcm" => Tail(s)[j].unit < Tail(s)[i].unit
    BY <1>1, <1>2 DEF WireRises
  <2>2. /\ i + 1 \in DOMAIN s /\ 1 < i + 1 /\ s[i + 1].kind = "pcm"
        /\ Tail(s)[i] = s[i + 1]
    BY <2>1
  <2>3. \A n \in DOMAIN carried' : carried'[n] < s[i + 1].unit
    BY <1>3, <1>5, <2>2
  <2>4. \A j \in DOMAIN Tail(s) : j < i => j + 1 < i + 1
    BY <1>2
  <2>5. \A j \in DOMAIN Tail(s) :
           j < i /\ Tail(s)[j].kind = "pcm" => Tail(s)[j].unit < s[i + 1].unit
    BY <1>3, <2>1, <2>2, <2>4
  <2> QED BY <1>3, <2>2, <2>3, <2>5
<1>8. \A d \in Conns \ {c} : pc[d] = "loop" => ~HasAudio(d)
  <2>1. HasAudio(c)
    BY <1>1, <1>2 DEF HasAudio, s
  <2> QED BY <1>1, <2>1 DEF OrderInv, ComesInOrder
<1>9. \A d \in Conns \ {c} : pc[d] = "loop" => ~HasAudio(d)' /\ WireRises(d)'
  BY <1>1, <1>8 DEF HasAudio, WireRises
<1> QED BY <1>1, <1>6, <1>7, <1>9 DEF ComesInOrder

\* Chunks are numbered as they are received.
LEMMA NetCounts ==
    ASSUME ProtocolInv, NetStep
    PROVE  \/ (\E c \in Conns : ReceiveChunk(c))
              /\ sent' = sent + 1 /\ Len(carried') = Len(carried) + 1
           \/ UNCHANGED <<carried, sent>>
<1>1. ASSUME NEW c \in Conns, ReceiveChunk(c)
      PROVE  sent' = sent + 1 /\ Len(carried') = Len(carried) + 1
  BY <1>1 DEF ReceiveChunk, HandleAudioChunk, ProtocolInv
<1>2. ASSUME NEW c \in Conns,
             \/ Accept(c) \/ ReceiveConfig(c) \/ ReceiveStop(c) \/ AnswerStop(c)
             \/ ReceiveDiscard(c) \/ ReceiveClose(c) \/ Cut(c)
      PROVE  UNCHANGED <<carried, sent>>
  BY <1>2 DEF Accept, BeginSession, ReceiveConfig, HandleConfig, ReceiveStop, Stop,
     StopStreaming, AnswerStop, FinishStop, Finalize, ReceiveDiscard, Discard,
     DiscardRecording, ReceiveClose, Disconnect, Cut, history, vars
<1>3. ReceiveDelete \/ DeleteLost \/ GraceEnds => UNCHANGED <<carried, sent>>
  BY DEF ReceiveDelete, Delete, DiscardRecording, DeleteLost, GraceEnds, GraceExpire,
     history, vars
<1> QED BY <1>1, <1>2, <1>3 DEF NetStep

LEMMA NetOrder ==
    ASSUME ProtocolInv, ProtocolInv', SessionInv, OrderInv, NetStep
    PROVE  OrderInv'
<1>1. [Next]_vars /\ TypeOK /\ TypeOK' /\ sent \in Nat
  BY NetIsServer DEF ProtocolInv, TypeOK
<1>2. UNCHANGED <<cl, sock, spoken, endings>>
  BY NetLeavesPage
<1>3. \A c \in Conns : HasAudio(c)' => HasAudio(c)
  <2> SUFFICES ASSUME NEW c \in Conns PROVE HasAudio(c)' => HasAudio(c)
    OBVIOUS
  <2>1. WasThere(c, 0) \/ WasThere(c, 1)
    BY NetWasThere DEF ProtocolInv
  <2> QED BY <2>1, WireKept DEF ProtocolInv, WireOK
<1>4. down' \in [Conns -> Seq(Events)] /\ Unheard'
  BY <1>1, <1>2, <1>3, NetSpeaks, PlacesMove DEF OrderInv, Unheard
<1>5. ChunksInOrder' /\ Len(carried') = sent'
  BY <1>1, NetCounts, ChunksInOrderStep DEF OrderInv
<1>6. ASSUME Uncancelled, UNCHANGED <<carried, sent>> PROVE ComesInOrder'
  <2>1. Rising(carried, spoken)'
    BY <1>2, <1>6 DEF OrderInv, ComesInOrder
  <2>2. ASSUME NEW c \in Conns, pc'[c] = "loop" PROVE WireRises(c)'
    <3>1. CASE pc[c] = "loop"
      <4>1. WireRises(c)
        BY <1>6, <3>1 DEF OrderInv, ComesInOrder
      <4>2. WasThere(c, 0) \/ WasThere(c, 1)
        BY NetWasThere DEF ProtocolInv
      <4> QED BY <1>2, <1>6, <4>1, <4>2, WireKept DEF ProtocolInv, WireOK
    <3>2. CASE pc[c] = "accepting"
      <4>1. ~HasAudio(c)'
        BY <1>3, <3>2 DEF OrderInv, Unheard
      <4> QED BY <4>1 DEF HasAudio, WireRises
    <3> QED BY <1>1, <2>2, <3>1, <3>2, PlacesMove
  <2>3. ASSUME NEW c \in Conns, NEW d \in Conns, pc'[c] = "loop", pc'[d] = "loop",
               HasAudio(c)', HasAudio(d)'
        PROVE  c = d
    <3>1. HasAudio(c) /\ HasAudio(d)
      BY <1>3, <2>3
    <3>2. pc[c] # "accepting" /\ pc[d] # "accepting"
      BY <3>1 DEF OrderInv, Unheard
    <3> QED BY <1>1, <1>6, <2>3, <3>1, <3>2, PlacesMove DEF OrderInv, ComesInOrder
  <2> QED BY <2>1, <2>2, <2>3 DEF ComesInOrder
<1>7. Uncancelled' => ComesInOrder'
  BY <1>2, <1>6, NetCounts, NetReceives DEF Uncancelled
<1> QED BY <1>4, <1>5, <1>7 DEF OrderInv

LEMMA ClientOrder ==
    ASSUME ProtocolInv, ProtocolInv', SessionInv, OrderInv, ClientStep
    PROVE  OrderInv'
<1>1. UNCHANGED <<vars, cut, carried>>
  BY ClientLeavesServer
<1>2. /\ down' \in [Conns -> Seq(Events)]
      /\ \A c \in Conns : down[c] = <<>> =>
            /\ down'[c] = <<>>
            /\ sock'[c].ready = "open" => sock[c].ready = "open"
  BY ClientHears DEF ProtocolInv, OrderInv
<1>3. ChunksInOrder' /\ Len(carried') = sent'
  BY <1>1 DEF OrderInv, ChunksInOrder, Live, vars
<1>4. Uncancelled' => Uncancelled
  BY PageMoves DEF ProtocolInv, Uncancelled
<1>5. CASE Speak
  <2>1. Uncancelled' => ComesInOrder'
    BY <1>4, <1>5, SpeakInOrder
  <2>2. ASSUME NEW c \in Conns, pc[c] = "accepting" PROVE ~HasAudio(c)'
    <3>1. ~HasAudio(c) /\ sock[c].ready # "open" /\ up[c] \in Seq(Frames)
      BY <2>2 DEF OrderInv, Unheard, ProtocolInv, WireOK
    <3>2. up'[c] = up[c] \/ up'[c] = up[c] \o <<>> \o <<>>
      BY <1>5, <3>1 DEF Speak, Sends, IsOpen
    <3> QED BY <3>1, <3>2 DEF HasAudio
  <2>3. Unheard'
    BY <1>1, <1>2, <2>2 DEF OrderInv, Unheard, vars
  <2> QED BY <1>2, <1>3, <2>1, <2>3 DEF OrderInv
<1>6. CASE ~Speak
  <2>1. spoken' = spoken /\ \A c \in Conns : WasThere(c, 0)
    BY <1>6, ClientSilent DEF ProtocolInv
  <2>2. \A c \in Conns : /\ HasAudio(c)' => HasAudio(c)
                         /\ WireRises(c) => WireRises(c)'
    BY <1>1, <2>1, WireKept DEF ProtocolInv, WireOK
  <2>3. Unheard'
    BY <1>1, <1>2, <2>2 DEF OrderInv, Unheard, vars
  <2>4. Uncancelled' => ComesInOrder'
    <3>1. UNCHANGED <<pc, carried, spoken>>
      BY <1>1, <2>1 DEF vars
    <3> QED BY <1>4, <2>2, <3>1 DEF OrderInv, ComesInOrder
  <2> QED BY <1>2, <1>3, <2>3, <2>4 DEF OrderInv
<1> QED BY <1>5, <1>6

LEMMA OrderStep ==
    ProtocolInv /\ ProtocolInv' /\ SessionInv /\ OrderInv /\ [ProtocolNext]_protocolVars
      => OrderInv'
<1>1. ASSUME OrderInv, UNCHANGED protocolVars PROVE OrderInv'
  BY <1>1 DEF protocolVars, vars, clientVars, netVars, history, OrderInv, Unheard,
     HasAudio, ChunksInOrder, Live, Uncancelled, ComesInOrder, WireRises
<1> QED BY <1>1, ClientOrder, NetOrder DEF ProtocolNext, NetStep

LEMMA OrderStarts == ProtocolInit => OrderInv
<1> SUFFICES ASSUME ProtocolInit PROVE OrderInv
  OBVIOUS
<1>1. down \in [Conns -> Seq(Events)] /\ Unheard
  BY DEF ProtocolInit, Unheard, HasAudio
<1>2. Len(carried) = sent /\ ChunksInOrder
  BY DEF ProtocolInit, Init, ChunksInOrder, Live
<1>3. ComesInOrder
  BY DEF ProtocolInit, Init, ComesInOrder, Rising, WireRises, HasAudio
<1> QED BY <1>1, <1>2, <1>3 DEF OrderInv

\* Across reconnects, cuts and late frames the audio of every task is in the
\* order it was spoken (record.py: one owner at a time; wsRecorderClient.ts: one
\* socket at a time).
THEOREM AudioStaysInOrder == ProtocolSpec => []TasksAreInOrder
<1>1. ASSUME ProtocolInv, OrderInv PROVE TasksAreInOrder
  <2> SUFFICES ASSUME Uncancelled, NEW i \in DOMAIN tasks,
                      NEW m \in DOMAIN tasks[i], NEW n \in DOMAIN tasks[i], m < n
               PROVE  carried[tasks[i][m]] < carried[tasks[i][n]]
    BY DEF TasksAreInOrder
  <2>1. tasks[i] \in Seq(Chunks) /\ Rising(tasks[i], sent)
    BY <1>1 DEF ProtocolInv, TypeOK, OrderInv, ChunksInOrder
  <2>2. tasks[i][m] \in Chunks /\ tasks[i][n] \in Chunks
    BY <2>1
  <2>3. tasks[i][m] < tasks[i][n] /\ tasks[i][n] <= sent /\ tasks[i][m] <= sent
    BY <2>1 DEF Rising
  <2>4. tasks[i][m] \in DOMAIN carried /\ tasks[i][n] \in DOMAIN carried
    BY <1>1, <2>2, <2>3 DEF ProtocolInv, OrderInv, Chunks
  <2> QED BY <1>1, <2>3, <2>4 DEF OrderInv, ComesInOrder, Rising
<1>2. ProtocolSpec => []SessionInv
  BY ServerIsRecordSession, SessionInvariant, PTL
<1> QED
  BY <1>1, <1>2, OrderStarts, OrderStep, ProtocolInvariant, PTL DEF ProtocolSpec

-----------------------------------------------------------------------------
(***************************************************************************)
(* Nothing is missing from a recording that is done.  The invariant says,  *)
(* while nobody cancels: that there is one socket at a time and whose it   *)
(* is, that a recording ends once, that no audio follows the frame that    *)
(* ends a connection, that the server hears nothing after the stop, and,   *)
(* from these, where every unit of audio is (Accounted).                   *)
(***************************************************************************)

Used(c) == sock[c].ready # "unused"
InUse(c) == sock[c].ready \in {"connecting", "open"}
Lives(c) == sock[c].ready \in {"connecting", "open", "closing"}

\* When a socket may have which handlers.
RolesInTime ==
    /\ cl.start = "none" => cl.opened = "pending" /\ \A c \in Conns : ~Used(c)
    /\ \A c \in Conns :
          /\ sock[c].role \in {"probe", "deliver"} => cl.start = "over"
          /\ sock[c].role = "attached" => sock[c].ready # "connecting"
          /\ sock[c].role = "fresh" /\ sock[c].ready = "connecting" =>
                cl.start \in {"media", "open"} /\ cl.opened # "yes"
          /\ sock[c].role = "deliver" /\ Lives(c) => cl.stop = "deliver"
    /\ cl.stop = "gap" => \A c \in Conns : sock[c].role # "deliver"
    /\ \A c, d \in Conns : sock[c].role = "deliver" /\ sock[d].role = "deliver" => c = d

\* Whom a socket that is not closed yet belongs to.
Belongs(c) ==
    \/ sock[c].role \in {"fresh", "attached"} /\ cl.ws = c
    \/ sock[c].role = "probe" /\ sock[c].ready = "connecting" /\ cl.probe = c
    \/ sock[c].role = "deliver" /\ sock[c].ready = "connecting" /\ cl.stop = "deliver"

\* One socket at a time: no new one before the last is closed, while the
\* recording goes on, or is closing.
OneAtATime ==
    /\ cl.start # "over" => \A c, d \in Conns : Used(c) /\ Used(d) => c = d
    /\ Going => \A c, d \in Conns : Lives(c) /\ Lives(d) => c = d
    /\ Going /\ cl.retry => \A c \in Conns : ~Lives(c)
    /\ \A c, d \in Conns : InUse(c) /\ InUse(d) => c = d
    /\ \A c \in Conns : InUse(c) => Belongs(c)
    /\ cl.stop \in {"gap", "undelivered"} => \A c \in Conns : ~InUse(c)
    /\ cl.stop = "deliver" => \A c \in Conns : InUse(c) => sock[c].role = "deliver"

SocketsInv == RolesInTime /\ OneAtATime

\* The recording ends once, and its sockets with it.
EndsOnce ==
    /\ endings # {} => cl.start = "over" /\ cl.ui # "recording"
    /\ endings \cap {"done", "error", "busy", "gone", "undelivered"} # {} =>
          /\ \A c \in Conns : ~InUse(c)
          /\ cl.stop \notin {"gap", "deliver", "undelivered"}

Final == {"done", "error", "busy"}

\* The server's last answer to a connection, and what the client can know of it.
ServerAnswers ==
    /\ \A c \in Conns : reply[c] \in Final => pc[c] = "closed"
    /\ \A c \in Conns : \A i \in DOMAIN down[c] : down[c][i] \in Final => reply[c] = down[c][i]
    /\ \A c \in Conns : pc[c] # "accepting" => Used(c)
    /\ (\A c \in Conns : pc[c] = "accepting") => rec = NoRec
    /\ "done" \in endings => \E c \in Conns : reply[c] = "done"

AnswersLate == cl.start # "over" => \A c \in Conns : reply[c] = "none"

\* Nothing was heard.
Mute == sent = 0 /\ \A c \in Conns : ~HasAudio(c) /\ reply[c] # "done"

Says(c, kind) == \E i \in DOMAIN up[c] : up[c][i].kind = kind

LocalIsMute ==
    /\ \/ cl.mic = "local" \/ cl.stop = "local" \/ "local" \in endings \/ local # {}
       \/ cl.start \in {"none", "media", "open", "graph"}
       \/ \E c \in Conns : Says(c, "discard")
       => Mute
    /\ cl.start \in {"none", "media", "open", "graph"} => cl.mic = "off" /\ local = {}
    /\ cl.mic = "stream" =>
          local = {} /\ cl.stop # "local" /\ "local" \notin endings

\* No audio follows what ends a connection, and none is left on its wire.
LastWords ==
    \A c \in Conns :
        /\ \A i, j \in DOMAIN up[c] :
              i < j /\ up[c][j].kind = "pcm" => up[c][i].kind \in {"pcm", "config"}
        /\ Says(c, "close") => sock[c].ready \in {"closing", "closed"}
        /\ HasAudio(c) /\ pc[c] # "loop" => reply[c] = "busy"
        /\ Going /\ pc[c] = "closed" => reply[c] = "busy" \/ c \in cut \/ ~InUse(c)

Unstopped == \A c \in Conns : pc[c] # "finalizing" /\ reply[c] \notin {"done", "error"}

\* The stop is the end of the audio.
StopIsLast ==
    /\ Unstopped => LoopOwnsSession
    /\ ~Unstopped => ~Going /\ \A c \in Conns : pc[c] = "loop" => ~HasAudio(c)
    /\ discarded = {} /\ dropped = {} /\ failed = {}
    /\ (\E c \in Conns : reply[c] = "done") => AudioOf(rec) = {}

OnWires == UNION {Units(up[c]) : c \in Conns}

Endings == {"local", "undelivered", "done", "error", "busy", "gone", "cancelled", "abandoned"}

\* Where the audio is that was spoken, until the recording ends otherwise than
\* with "done": the server has it, or the client, or it is on a wire, or lost.
Somewhere == Carried(1..sent) \cup gap \cup local \cup saved \cup missing \cup OnWires

Accounted ==
    /\ endings \subseteq Endings
    /\ endings \subseteq {"done"} => 1..spoken \subseteq Somewhere
    /\ "done" \in endings => endings = {"done"} /\ gap = {} /\ local = {}

WholeInv ==
    /\ ServerAnswers
    /\ Uncancelled =>
          SocketsInv /\ EndsOnce /\ AnswersLate /\ LocalIsMute /\ LastWords /\ StopIsLast /\ Accounted

-----------------------------------------------------------------------------
(* The sockets.                                                            *)

NoneInUse == \A c \in Conns : ~InUse(c)

\* No socket opens, none changes its handlers.
OnlyCloses ==
    /\ sock' \in [Conns -> Sockets]
    /\ \A c \in Conns :
          /\ sock'[c].role = sock[c].role
          /\ \/ sock'[c].ready = sock[c].ready
             \/ Lives(c) /\ sock'[c].ready \in {"closing", "closed"}

LEMMA SocksCloses ==
    ASSUME sock \in [Conns -> Sockets], NEW S, sock' = Socks(S)
    PROVE  /\ OnlyCloses
           /\ \A c \in Conns : InUse(c)' <=> InUse(c) /\ c \notin S
           /\ \A c \in S \cap Conns : InUse(c) => sock'[c].ready = "closing"
           /\ \A c \in Conns : c \notin S => sock'[c] = sock[c]
  BY DEF Socks, Sockets, OnlyCloses, Lives, InUse

LEMMA GoingEnds ==
    ASSUME PageInv, ClientStep, Uncancelled'
    PROVE  /\ Uncancelled
           /\ cl.start = "over" => cl'.start = "over"
           /\ cl'.start = "none" => cl.start = "none"
           /\ Going' => Going
  BY PageMoves DEF Going, Uncancelled

\* What a step that opens no socket has to keep.
LEMMA SocketsClose ==
    ASSUME SocketsInv, OnlyCloses, sock \in [Conns -> Sockets],
           cl.start = "over" => cl'.start = "over",
           cl'.start = "none" => cl.start = "none" /\ cl'.opened = cl.opened,
           Going' => Going,
           \A c \in Conns : InUse(c)' =>
              /\ Belongs(c)'
              /\ sock[c].role = "fresh" /\ sock[c].ready = "connecting" =>
                    cl'.start \in {"media", "open"} /\ cl'.opened \in {cl.opened, "no"},
           \/ cl'.stop = cl.stop
           \/ /\ cl'.stop # "deliver"
              /\ cl'.stop = "gap" => \A c \in Conns : sock[c].role # "deliver"
              /\ cl.stop = "deliver" => \A c \in Conns : sock[c].role = "deliver" => ~Lives(c)'
              /\ cl'.stop \in {"gap", "undelivered"} => NoneInUse',
           Going' /\ cl'.retry => cl.retry \/ \A c \in Conns : ~Lives(c)'
    PROVE  SocketsInv'
<1>1. \A c \in Conns : /\ Used(c)' <=> Used(c)
                       /\ Lives(c)' => Lives(c)
                       /\ InUse(c)' => InUse(c) /\ sock'[c] = sock[c]
                       /\ sock'[c].role = sock[c].role
                       /\ sock'[c].ready = "connecting" => sock[c].ready = "connecting"
  BY DEF OnlyCloses, Used, Lives, InUse, Sockets
<1>2. RolesInTime'
  <2>1. cl'.start = "none" => cl'.opened = "pending" /\ \A c \in Conns : ~Used(c)'
    BY <1>1 DEF SocketsInv, RolesInTime
  <2>2. ASSUME NEW c \in Conns
        PROVE  /\ sock'[c].role \in {"probe", "deliver"} => cl'.start = "over"
               /\ sock'[c].role = "attached" => sock'[c].ready # "connecting"
    BY <1>1 DEF SocketsInv, RolesInTime
  <2>3. ASSUME NEW c \in Conns, sock'[c].role = "fresh", sock'[c].ready = "connecting"
        PROVE  cl'.start \in {"media", "open"} /\ cl'.opened # "yes"
    BY <1>1, <2>3 DEF SocketsInv, RolesInTime, InUse
  <2>4. ASSUME NEW c \in Conns, sock'[c].role = "deliver", Lives(c)'
        PROVE  cl'.stop = "deliver"
    BY <1>1, <2>4 DEF SocketsInv, RolesInTime
  <2>5. cl'.stop = "gap" => \A c \in Conns : sock'[c].role # "deliver"
    BY <1>1 DEF SocketsInv, RolesInTime
  <2>6. \A c, d \in Conns : sock'[c].role = "deliver" /\ sock'[d].role = "deliver" => c = d
    BY <1>1 DEF SocketsInv, RolesInTime
  <2> QED BY <2>1, <2>2, <2>3, <2>4, <2>5, <2>6 DEF RolesInTime
<1>3. OneAtATime'
  <2>1. cl'.start # "over" => \A c, d \in Conns : Used(c)' /\ Used(d)' => c = d
    BY <1>1 DEF SocketsInv, OneAtATime
  <2>2. Going' => \A c, d \in Conns : Lives(c)' /\ Lives(d)' => c = d
    BY <1>1 DEF SocketsInv, OneAtATime
  <2>3. Going' /\ cl'.retry => \A c \in Conns : ~Lives(c)'
    BY <1>1 DEF SocketsInv, OneAtATime
  <2>4. \A c, d \in Conns : InUse(c)' /\ InUse(d)' => c = d
    BY <1>1 DEF SocketsInv, OneAtATime
  <2>5. cl'.stop \in {"gap", "undelivered"} => \A c \in Conns : ~InUse(c)'
    BY <1>1 DEF SocketsInv, OneAtATime, NoneInUse
  <2>6. cl'.stop = "deliver" => \A c \in Conns : InUse(c)' => sock'[c].role = "deliver"
    BY <1>1 DEF SocketsInv, OneAtATime
  <2> QED BY <2>1, <2>2, <2>3, <2>4, <2>5, <2>6 DEF OneAtATime
<1> QED BY <1>2, <1>3 DEF SocketsInv

\* The steps that leave the sockets alone.
LEMMA SocketsAlone ==
    ASSUME PageInv, SocketsInv, Uncancelled', ClientStep,
           \/ OpenTimeout \/ GraphReady \/ Ready \/ Speak \/ StopLocal \/ LocalSaved
           \/ StopUndelivered \/ BackToIdle \/ \E c \in Conns : OnOther(c)
    PROVE  SocketsInv' /\ UNCHANGED sock
<1> USE DEF history, clientVars
<1>1. UNCHANGED sock
  BY DEF OpenTimeout, GraphReady, Ready, Speak, StopLocal, LocalSaved, StopUndelivered,
     BackToIdle, OnOther
<1>2. cl \in Client /\ sock \in [Conns -> Sockets] /\ StartedInOrder
  BY DEF PageInv
<1>3. /\ cl'.ws = cl.ws /\ cl'.probe = cl.probe /\ cl'.retry = cl.retry
      /\ cl'.opened \in {cl.opened, "no"}
      /\ cl'.start \in {cl.start, "over"} \/ (cl.start = "graph" /\ cl'.start = "ready")
      /\ cl.start = "over" => cl'.start = "over"
      /\ cl'.start = "none" => cl.start = "none" /\ cl'.opened = cl.opened
      /\ cl'.stop = cl.stop \/ (cl.stop # "deliver" /\ cl'.stop \in {"local", "none"})
      /\ cl'.start = "over" => cl.start \in {"over", "ready"}
  <2>1. CASE OpenTimeout
    BY <1>2, <2>1 DEF OpenTimeout, Client, StartedInOrder
  <2>2. CASE GraphReady \/ Ready
    BY ZenonT(30), <1>2, <2>2 DEF GraphReady, Ready, Client
  <2>3. CASE LocalSaved
    BY <1>2, <2>3 DEF LocalSaved, Quiet, Client, StartedInOrder
  <2>4. CASE StopLocal \/ StopUndelivered \/ BackToIdle
    BY ZenonT(30), <1>2, <2>4 DEF StopLocal, StopUndelivered, BackToIdle, Client, StartedInOrder
  <2>5. CASE Speak \/ \E c \in Conns : OnOther(c)
    BY <1>2, <2>5 DEF Speak, OnOther, Client
  <2> QED BY <2>1, <2>2, <2>3, <2>4, <2>5
<1>4. OnlyCloses
  BY <1>1, <1>2 DEF OnlyCloses
<1>5. ASSUME NEW c \in Conns, InUse(c)'
      PROVE  /\ Belongs(c)'
             /\ sock[c].role = "fresh" /\ sock[c].ready = "connecting" =>
                   cl'.start \in {"media", "open"} /\ cl'.opened \in {cl.opened, "no"}
  <2>1. InUse(c) /\ Belongs(c)
    BY <1>1, <1>5 DEF InUse, SocketsInv, OneAtATime
  <2> QED BY <1>1, <1>3, <2>1 DEF Belongs, SocketsInv, RolesInTime
<1>6. Going' => Going
  BY GoingEnds
<1> QED BY <1>1, <1>2, <1>3, <1>4, <1>5, <1>6, SocketsClose

\* The steps after which no socket is in use.
LEMMA SocketsEnd ==
    ASSUME PageInv, SocketsInv, Uncancelled', ClientStep, OnlyCloses, NoneInUse',
           cl'.start = "none" => cl'.opened = cl.opened,
           Going' /\ cl'.retry => cl.retry \/ \A c \in Conns : ~Lives(c)',
           \/ cl'.stop = cl.stop
           \/ cl'.stop = "gap" /\ cl.stop # "deliver" /\ \A c \in Conns : sock[c].role # "deliver"
    PROVE  SocketsInv'
<1>1. /\ cl.start = "over" => cl'.start = "over"
      /\ cl'.start = "none" => cl.start = "none"
      /\ Going' => Going
  BY GoingEnds
<1>2. \A c \in Conns : ~InUse(c)'
  BY DEF NoneInUse
<1> QED BY <1>1, <1>2, SocketsClose DEF PageInv

\* Whose socket is in use, by what the page does.
LEMMA WhoseSocket ==
    ASSUME PageInv, SocketsInv, NEW c \in Conns, InUse(c)
    PROVE  /\ cl.start # "over" => c \in WsOf(cl)
           /\ cl.ui = "recording" => c \in WsOf(cl) \cup ProbeOf(cl)
           /\ cl.ui = "recording" /\ ~IsOpen(cl) => c \in ProbeOf(cl)
           /\ cl.stop # "deliver" => c \in WsOf(cl) \cup ProbeOf(cl)
           /\ sock[c].role \in {"fresh", "attached"} => c \in WsOf(cl)
<1>1. Belongs(c) /\ c # Nobody
  BY DEF SocketsInv, OneAtATime
<1>2. /\ sock[c].role = "fresh" /\ sock[c].ready = "connecting" => cl.start # "over"
      /\ sock[c].role = "attached" => sock[c].ready # "connecting"
      /\ sock[c].role \in {"probe", "deliver"} => cl.start = "over"
  BY DEF SocketsInv, RolesInTime
<1>3. sock[c].role = "deliver" => cl.ui # "recording"
  BY DEF PageInv, DeliversLate
<1>4. cl.ui = "recording" => cl.start = "over"
  BY DEF PageInv, StartedInOrder
<1>5. sock[c].ready \in {"connecting", "open"}
  BY DEF InUse
<1> QED BY <1>1, <1>2, <1>3, <1>4, <1>5 DEF Belongs, WsOf, ProbeOf, IsOpen

\* The steps that end a recording, or its transport, and the sockets with it.
LEMMA SocketsOver ==
    ASSUME PageInv, SocketsInv, Uncancelled', ClientStep,
           \/ MediaFails \/ SocketFailed \/ GraphFails \/ StopOffline \/ CloseTab
           \/ \E c \in Conns : DeliverTimeout(c) \/ OnDone(c) \/ OnError(c) \/ OnBusy(c)
    PROVE  SocketsInv' /\ OnlyCloses /\ NoneInUse'
<1> USE DEF history, clientVars
<1>1. cl \in Client /\ sock \in [Conns -> Sockets] /\ StartedInOrder
  BY DEF PageInv
<1>2. ASSUME NEW S, sock' = Socks(S), \A c \in Conns : InUse(c) => c \in S
      PROVE  OnlyCloses /\ NoneInUse'
  BY <1>1, <1>2, SocksCloses DEF NoneInUse
<1>3. CASE MediaFails \/ SocketFailed \/ GraphFails
  <2>1. /\ sock' = Socks(WsOf(cl)) /\ cl.start \in {"media", "open", "graph"}
        /\ cl'.stop = cl.stop /\ cl'.retry = cl.retry /\ cl'.opened = cl.opened
    BY ZenonT(30), <1>1, <1>3 DEF MediaFails, SocketFailed, GraphFails, GoLocal, Client
  <2>2. \A c \in Conns : InUse(c) => c \in WsOf(cl)
    BY <2>1, WhoseSocket
  <2>3. OnlyCloses /\ NoneInUse'
    BY <1>2, <2>1, <2>2
  <2> QED BY <2>1, <2>3, SocketsEnd
<1>4. CASE StopOffline
  <2>1. /\ sock' = Socks(ProbeOf(cl)) /\ cl.ui = "recording" /\ ~IsOpen(cl)
        /\ cl'.stop = "gap" /\ ~cl'.retry /\ cl'.opened = cl.opened
    BY <1>1, <1>4 DEF StopOffline, Quiet, Ungapped, LoopCancelled, Client
  <2>2. \A c \in Conns : InUse(c) => c \in ProbeOf(cl)
    BY <2>1, WhoseSocket
  <2>3. OnlyCloses /\ NoneInUse'
    BY <1>2, <2>1, <2>2
  <2>4. cl.stop # "deliver" /\ \A c \in Conns : sock[c].role # "deliver"
    BY <2>1 DEF PageInv, StartedInOrder, DeliversLate
  <2> QED BY <2>1, <2>3, <2>4, SocketsEnd
<1>5. CASE \E c \in Conns : DeliverTimeout(c)
  <2>1. PICK c \in Conns : DeliverTimeout(c)
    BY <1>5
  <2>2. sock' = Socks({c}) /\ InUse(c) /\ cl' = cl
    BY <2>1 DEF DeliverTimeout, InUse
  <2>3. \A d \in Conns : InUse(d) => d \in {c}
    BY <2>2 DEF SocketsInv, OneAtATime
  <2>4. OnlyCloses /\ NoneInUse'
    BY <1>2, <2>2, <2>3
  <2> QED BY <2>2, <2>4, SocketsEnd
<1>6. ASSUME NEW c \in Conns, sock[c] = [ready |-> "open", role |-> "attached"]
      PROVE  /\ InUse(c) /\ Used(c) /\ cl.stop \notin {"gap", "deliver", "undelivered"}
             /\ \A d \in Conns : InUse(d) => d \in WsOf(cl)
  <2>1. InUse(c) /\ Used(c) /\ sock[c].role = "attached"
    BY <1>6 DEF InUse, Used
  <2>2. \A d \in Conns : InUse(d) => d = c
    BY <2>1 DEF SocketsInv, OneAtATime
  <2> QED BY <2>1, <2>2, WhoseSocket DEF SocketsInv, OneAtATime
<1>7. ASSUME NEW c \in Conns, sock[c] = [ready |-> "open", role |-> "attached"],
             NEW ui \in {"idle", "done"}, NEW result, Over(ui, result)
      PROVE  SocketsInv' /\ OnlyCloses /\ NoneInUse'
  <2>1. sock' = Socks(WsOf(cl) \cup ProbeOf(cl)) /\ cl' = [Reset(cl) EXCEPT !.ui = ui]
    BY <1>7 DEF Over
  <2>2. cl'.stop = cl.stop /\ cl'.start = cl.start /\ ~cl'.retry
    BY <1>1, <2>1, ResetPage DEF LoopOff
  <2>3. OnlyCloses /\ NoneInUse'
    BY <1>2, <1>6, <1>7, <2>1
  <2>4. cl.start # "none"
    BY <1>6, <1>7 DEF SocketsInv, RolesInTime
  <2> QED BY <2>2, <2>3, <2>4, SocketsEnd
<1>8. CASE \E c \in Conns : OnDone(c) \/ OnError(c)
  BY <1>7, <1>8 DEF OnDone, OnError
<1>9. CASE \E c \in Conns : OnBusy(c)
  <2>1. PICK c \in Conns : OnBusy(c)
    BY <1>9
  <2>2. CASE cl.reconnecting
    <3>1. /\ sock' = Socks(WsOf(cl)) /\ cl'.opened = cl.opened /\ cl'.retry = cl.retry
          /\ cl'.stop = cl.stop
      BY <1>1, <2>1, <2>2 DEF OnBusy, Client
    <3>2. OnlyCloses /\ NoneInUse'
      BY <1>2, <1>6, <2>1, <3>1 DEF OnBusy
    <3> QED BY <3>1, <3>2, SocketsEnd
  <2> QED BY <1>7, <2>1, <2>2 DEF OnBusy
<1>10. CASE CloseTab
  <2> DEFINE Up == {c \in Conns : sock[c].ready \in {"connecting", "open"}}
  <2>1. /\ sock' = [c \in Conns |-> IF c \in Up THEN [sock[c] EXCEPT !.ready = "closed"]
                                    ELSE sock[c]]
        /\ cl' = [Reset(cl) EXCEPT !.ui = "gone"] /\ cl.ui = "recording"
    BY <1>10 DEF CloseTab
  <2>2. OnlyCloses /\ NoneInUse'
    BY <1>1, <2>1 DEF OnlyCloses, NoneInUse, InUse, Lives, Sockets
  <2>3. cl'.stop = cl.stop /\ cl'.start = cl.start /\ ~cl'.retry /\ cl.start # "none"
    BY <1>1, <2>1, ResetPage DEF LoopOff, StartedInOrder
  <2> QED BY <2>2, <2>3, SocketsEnd
<1> QED BY <1>3, <1>4, <1>5, <1>8, <1>9, <1>10

LEMMA SocketsStopOnline ==
    ASSUME PageInv, SocketsInv, Uncancelled', ClientStep, StopOnline
    PROVE  SocketsInv' /\ OnlyCloses
<1>1. cl \in Client /\ sock \in [Conns -> Sockets]
  BY DEF PageInv
<1>2. /\ sock' = Socks(ProbeOf(cl)) /\ cl.ui = "recording" /\ cl.start = "over"
      /\ cl'.stop = cl.stop /\ ~cl'.retry /\ cl'.ws = cl.ws /\ cl'.start = cl.start
  BY <1>1 DEF StopOnline, Quiet, Ungapped, LoopCancelled, Client, PageInv, StartedInOrder
<1>3. OnlyCloses /\ \A c \in Conns : InUse(c)' <=> InUse(c) /\ c \notin ProbeOf(cl)
  BY <1>1, <1>2, SocksCloses
<1>4. ASSUME NEW c \in Conns, InUse(c)'
      PROVE  Belongs(c)' /\ ~(sock[c].role = "fresh" /\ sock[c].ready = "connecting")
  <2>1. InUse(c) /\ c \notin ProbeOf(cl) /\ sock'[c] = sock[c] /\ Belongs(c) /\ c # Nobody
    BY <1>1, <1>2, <1>3, <1>4, SocksCloses DEF SocketsInv, OneAtATime
  <2>2. sock[c].role \in {"fresh", "attached"} /\ cl.ws = c
    BY <1>2, <2>1 DEF Belongs, ProbeOf, PageInv, DeliversLate
  <2>3. ~(sock[c].role = "fresh" /\ sock[c].ready = "connecting")
    BY <1>2 DEF SocketsInv, RolesInTime
  <2> QED BY <1>2, <2>1, <2>2, <2>3 DEF Belongs
<1>5. Going' => Going
  BY GoingEnds
<1> QED BY <1>1, <1>2, <1>3, <1>4, <1>5, SocketsClose

\* attach gives the first socket, open or gone by now, its handlers.
LEMMA SocketsAttach ==
    ASSUME PageInv, SocketsInv, Uncancelled', ClientStep, MediaAcquired \/ SocketOpened
    PROVE  /\ SocketsInv'
           /\ \A c \in Conns : sock'[c].ready = sock[c].ready
<1> USE DEF history, clientVars
<1>1. cl \in Client /\ sock \in [Conns -> Sockets]
  BY DEF PageInv
<1>2. /\ cl.start \in {"media", "open"} /\ cl.stop = "none"
      /\ cl'.stop = cl.stop /\ cl'.ws = cl.ws /\ cl'.probe = cl.probe
      /\ cl'.retry = cl.retry /\ cl'.opened = cl.opened /\ cl'.start \in {"open", "graph"}
  <2>1. CASE SocketOpened
    BY <1>1, <2>1 DEF SocketOpened, Client, PageInv, StartedInOrder
  <2>2. CASE MediaAcquired
    <3>1. \/ cl' = [cl EXCEPT !.stream = TRUE, !.start = "open"]
          \/ cl' = [cl EXCEPT !.stream = TRUE, !.start = "graph"]
      BY <2>2 DEF MediaAcquired
    <3>2. cl.start = "media" /\ cl.stop = "none"
      BY <2>2 DEF MediaAcquired, PageInv, StartedInOrder
    <3> QED BY ZenonT(30), <1>1, <3>1, <3>2 DEF Client
  <2> QED BY <2>1, <2>2
<1>3. Going' => Going
  BY GoingEnds
<1>4. CASE UNCHANGED sock /\ cl'.start = "open"
  <2>1. OnlyCloses
    BY <1>1, <1>4 DEF OnlyCloses
  <2>2. ASSUME NEW c \in Conns, InUse(c)' PROVE Belongs(c)'
    <3>1. InUse(c) /\ Belongs(c)
      BY <1>4, <2>2 DEF InUse, SocketsInv, OneAtATime
    <3> QED BY <1>2, <1>4, <3>1 DEF Belongs
  <2> QED BY <1>1, <1>2, <1>3, <1>4, <2>1, <2>2, SocketsClose
<1>5. ASSUME Attach(cl), cl'.start = "graph", cl.ws = Nobody \/ sock[cl.ws].ready # "connecting"
      PROVE  /\ SocketsInv'
             /\ \A c \in Conns : sock'[c].ready = sock[c].ready
  <2>1. \A c \in Conns :
           /\ sock'[c].ready = sock[c].ready
           /\ sock'[c].role = IF c = cl.ws THEN "attached" ELSE sock[c].role
    BY <1>1, <1>5 DEF Attach, Sockets
  <2>2. \A c \in Conns : /\ Used(c)' <=> Used(c)
                         /\ Lives(c)' <=> Lives(c)
                         /\ InUse(c)' <=> InUse(c)
    BY <2>1 DEF Used, Lives, InUse
  <2>3. \A c \in Conns : InUse(c) => c = cl.ws /\ c # Nobody
    BY <1>2, WhoseSocket DEF WsOf
  <2>4. RolesInTime'
    <3>1. \A c \in Conns :
            ~(sock'[c].role = "fresh" /\ sock'[c].ready = "connecting")
      BY <2>1, <2>3 DEF InUse
    <3>2. \A c \in Conns : sock'[c].role = "attached" => sock'[c].ready # "connecting"
      BY <1>5, <2>1 DEF SocketsInv, RolesInTime
    <3>3. \A c \in Conns : sock'[c].role \notin {"probe", "deliver"}
      BY <1>2, <2>1 DEF SocketsInv, RolesInTime
    <3> QED BY <1>5, <3>1, <3>2, <3>3 DEF RolesInTime
  <2>5. OneAtATime'
    <3>1. \A c \in Conns : InUse(c)' => Belongs(c)'
      BY <1>2, <2>1, <2>2, <2>3 DEF Belongs
    <3> QED BY <1>2, <1>3, <1>5, <2>2, <3>1 DEF SocketsInv, OneAtATime
  <2> QED BY <2>1, <2>4, <2>5 DEF SocketsInv
<1>6. CASE MediaAcquired
  <2>1. \/ UNCHANGED sock /\ cl'.start = "open"
        \/ Attach(cl) /\ cl'.start = "graph" /\ (cl.ws = Nobody \/ IsOpen(cl))
    BY <1>1, <1>6 DEF MediaAcquired, Client
  <2> QED BY <1>4, <1>5, <2>1 DEF IsOpen
<1>7. CASE SocketOpened
  <2>1. Attach(cl) /\ cl'.start = "graph" /\ cl.opened = "yes"
    BY <1>1, <1>7 DEF SocketOpened, Client
  <2>2. ASSUME NEW c \in Conns, c = cl.ws, sock[c].ready = "connecting" PROVE FALSE
    <3>1. Belongs(c) /\ sock[c].role # "none"
      BY <2>2 DEF InUse, SocketsInv, OneAtATime, Belongs
    <3> QED BY <1>2, <2>1, <2>2, <3>1 DEF Belongs, SocketsInv, RolesInTime
  <2> QED BY <1>1, <1>5, <2>1, <2>2 DEF Client
<1> QED BY <1>6, <1>7

\* A new socket, where there was none that is not closed.
LEMMA SocketsOpen ==
    ASSUME PageInv, SocketsInv, Uncancelled', ClientStep, NEW c \in Conns,
           StartRecording(c) \/ Retry(c) \/ DeliverStop(c)
    PROVE  SocketsInv' /\ ~Used(c) /\ \A d \in Conns \ {c} : sock'[d] = sock[d]
<1> USE DEF history, clientVars
<1>1. cl \in Client /\ sock \in [Conns -> Sockets] /\ Uncancelled
  BY GoingEnds DEF PageInv
<1>2. ASSUME NEW role, Open(c, role)
      PROVE  /\ sock'[c] = [ready |-> "connecting", role |-> role]
             /\ \A d \in Conns \ {c} : sock'[d] = sock[d]
  BY <1>1, <1>2 DEF Open
<1>3. ~Used(c)
  BY DEF StartRecording, Retry, DeliverStop, Unused, Used
<1>4. CASE StartRecording(c)
  <2>1. /\ sock'[c] = [ready |-> "connecting", role |-> "fresh"]
        /\ \A d \in Conns \ {c} : sock'[d] = sock[d]
    BY <1>2, <1>4 DEF StartRecording
  <2>2. /\ cl.start = "none" /\ cl'.start = "media" /\ cl'.ws = c /\ cl'.stop = cl.stop
        /\ cl'.opened = cl.opened /\ cl'.retry = cl.retry /\ cl.ui = "idle"
    BY <1>1, <1>4 DEF StartRecording, Client
  <2>3. cl.opened = "pending" /\ (\A d \in Conns : ~Used(d)) /\ cl.stop = "none" /\ ~cl.retry
    BY <1>1, <2>2 DEF SocketsInv, RolesInTime, PageInv, StartedInOrder, RestsQuietly, LoopOff,
       Client
  <2>4. \A d \in Conns \ {c} : ~Used(d)' /\ ~Lives(d)' /\ ~InUse(d)'
    BY <2>1, <2>3 DEF Used, Lives, InUse
  <2>6. \A d \in Conns \ {c} : sock[d].role \notin {"probe", "deliver"}
    BY <2>2 DEF SocketsInv, RolesInTime
  <2>7. RolesInTime'
    BY <2>1, <2>2, <2>3, <2>4, <2>6 DEF RolesInTime, SocketsInv, Used
  <2>8. OneAtATime'
    BY <2>1, <2>2, <2>3, <2>4 DEF OneAtATime, Belongs
  <2> QED BY <1>3, <2>1, <2>7, <2>8 DEF SocketsInv
<1>5. CASE Retry(c)
  <2>1. /\ sock'[c] = [ready |-> "connecting", role |-> "probe"]
        /\ \A d \in Conns \ {c} : sock'[d] = sock[d]
    BY <1>2, <1>5 DEF Retry
  <2>2. /\ cl.ui = "recording" /\ cl.retry /\ ~cl'.retry /\ cl'.probe = c
        /\ cl'.start = cl.start /\ cl.start = "over" /\ cl'.stop = cl.stop
        /\ cl.stop = "none"
    BY <1>1, <1>5 DEF Retry, Client, PageInv, StartedInOrder
  <2>3. Going
    BY <1>1, <2>2 DEF Going
  <2>4. \A d \in Conns : ~Lives(d) /\ ~InUse(d)
    BY <2>2, <2>3 DEF SocketsInv, OneAtATime, Lives, InUse
  <2>5. \A d \in Conns \ {c} : ~Lives(d)' /\ ~InUse(d)' /\ sock'[d].role # "deliver"
    BY <2>1, <2>2, <2>4 DEF Lives, InUse, PageInv, DeliversLate
  <2>7. RolesInTime'
    BY <2>1, <2>2, <2>5 DEF RolesInTime, SocketsInv, Lives
  <2>8. OneAtATime'
    BY <2>1, <2>2, <2>5 DEF OneAtATime, Belongs
  <2> QED BY <1>3, <2>1, <2>7, <2>8 DEF SocketsInv
<1>6. CASE DeliverStop(c)
  <2>1. /\ sock'[c] = [ready |-> "connecting", role |-> "deliver"]
        /\ \A d \in Conns \ {c} : sock'[d] = sock[d]
    BY <1>2, <1>6 DEF DeliverStop
  <2>2. /\ cl.stop = "gap" /\ cl'.stop = "deliver" /\ cl.start = "over" /\ cl'.start = "over"
        /\ cl.ui # "recording" /\ cl'.ui = cl.ui /\ cl'.probe = cl.probe
    BY <1>1, <1>6 DEF DeliverStop, Client, PageInv, StartedInOrder
  <2>3. ~Going'
    BY <2>2 DEF Going
  <2>4. \A d \in Conns \ {c} : ~InUse(d)' /\ sock'[d].role # "deliver"
    BY <2>1, <2>2 DEF SocketsInv, OneAtATime, RolesInTime, InUse
  <2>7. RolesInTime'
    BY <2>1, <2>2, <2>4 DEF RolesInTime, SocketsInv, InUse
  <2>8. OneAtATime'
    BY <2>1, <2>2, <2>3, <2>4 DEF OneAtATime, Belongs
  <2> QED BY <1>3, <2>1, <2>7, <2>8 DEF SocketsInv
<1> QED BY <1>4, <1>5, <1>6

\* A socket that was connecting opens.
LEMMA SocketGoesOpen ==
    ASSUME PageInv, SocketsInv, Uncancelled', ClientStep,
           NEW c \in Conns, sock[c].ready = "connecting",
           NEW role \in {"fresh", "attached"}, Opened(c, role),
           role = "fresh" => sock[c].role = "fresh",
           cl'.ws = c, cl'.start = cl.start,
           cl'.opened = cl.opened \/ sock[c].role = "fresh",
           cl'.stop = IF sock[c].role = "deliver" THEN "none" ELSE cl.stop,
           cl'.retry => cl.retry
    PROVE  SocketsInv'
<1>1. cl \in Client /\ sock \in [Conns -> Sockets]
  BY DEF PageInv
<1>2. /\ sock'[c] = [ready |-> "open", role |-> role]
      /\ \A d \in Conns \ {c} : sock'[d] = sock[d]
  BY <1>1 DEF Opened
<1>3. InUse(c) /\ Used(c) /\ Lives(c) /\ Belongs(c)
  BY DEF InUse, Used, Lives, SocketsInv, OneAtATime
<1>4. \A d \in Conns \ {c} : ~InUse(d) /\ ~InUse(d)'
  BY <1>2, <1>3 DEF SocketsInv, OneAtATime, InUse
<1>5. \A d \in Conns : /\ Used(d)' <=> Used(d)
                       /\ Lives(d)' <=> Lives(d)
                       /\ InUse(d)' <=> InUse(d)
  BY <1>2, <1>3, <1>4 DEF Used, Lives, InUse
<1>6. cl.start # "none" /\ cl.stop \notin {"gap", "undelivered"}
  BY <1>3 DEF SocketsInv, RolesInTime, OneAtATime
<1>7. Going' => Going
  BY GoingEnds
<1>8. cl'.stop # "deliver"
  BY <1>3 DEF SocketsInv, OneAtATime
<1>9. RolesInTime'
  <2>1. \A d \in Conns : sock'[d].role \in {"probe", "deliver"} => cl'.start = "over"
    BY <1>2 DEF SocketsInv, RolesInTime
  <2>2. \A d \in Conns : sock'[d].role = "attached" => sock'[d].ready # "connecting"
    BY <1>2 DEF SocketsInv, RolesInTime
  <2>3. \A d \in Conns : ~(sock'[d].role = "fresh" /\ sock'[d].ready = "connecting")
    BY <1>2, <1>4 DEF InUse
  <2>4. \A d \in Conns : ~(sock'[d].role = "deliver" /\ Lives(d)')
    <3>1. ASSUME NEW d \in Conns \ {c}, sock[d].role = "deliver", Lives(d) PROVE FALSE
      <4>1. cl.stop = "deliver" /\ sock[c].role # "deliver"
        BY <3>1 DEF SocketsInv, RolesInTime
      <4> QED BY <1>3, <4>1 DEF SocketsInv, OneAtATime
    <3> QED BY <1>2, <1>5, <3>1
  <2>5. \A d, e \in Conns : sock'[d].role = "deliver" /\ sock'[e].role = "deliver" => d = e
    BY <1>2 DEF SocketsInv, RolesInTime
  <2> QED BY <1>6, <2>1, <2>2, <2>3, <2>4, <2>5 DEF RolesInTime
<1>10. OneAtATime'
  <2>1. \A d \in Conns : InUse(d)' => Belongs(d)'
    BY <1>2, <1>4 DEF Belongs
  <2>2. ~(Going' /\ cl'.retry)
    BY <1>3, <1>7 DEF SocketsInv, OneAtATime
  <2> QED BY <1>4, <1>5, <1>6, <1>7, <1>8, <2>1, <2>2 DEF SocketsInv, OneAtATime
<1> QED BY <1>9, <1>10 DEF SocketsInv

LEMMA SocketsOnOpen ==
    ASSUME PageInv, SocketsInv, Uncancelled', ClientStep, NEW c \in Conns, OnOpen(c)
    PROVE  /\ SocketsInv'
           /\ \A d \in Conns : sock'[d].ready = sock[d].ready \/ (InUse(d) /\ Used(d)')
           /\ \A d \in Conns : InUse(d)' => InUse(d)
<1> USE DEF history, clientVars
<1>1. cl \in Client /\ sock \in [Conns -> Sockets] /\ sock[c].ready = "connecting"
  BY DEF PageInv, OnOpen
<1>2. InUse(c) /\ Belongs(c)
  BY <1>1 DEF InUse, SocketsInv, OneAtATime
<1>3. ASSUME NEW role \in {"fresh", "attached"}, Opened(c, role)
      PROVE  /\ \A d \in Conns : sock'[d].ready = sock[d].ready \/ (InUse(d) /\ Used(d)')
             /\ \A d \in Conns : InUse(d)' => InUse(d)
  <2>1. /\ sock'[c] = [ready |-> "open", role |-> role]
        /\ \A d \in Conns \ {c} : sock'[d] = sock[d]
    BY <1>1, <1>3 DEF Opened
  <2> QED BY <1>2, <2>1 DEF InUse, Used
<1>4. CASE sock[c].role = "fresh"
  <2>1. Opened(c, "fresh") /\ cl' = [cl EXCEPT !.opened = IF @ = "pending" THEN "yes" ELSE @]
    BY <1>4 DEF OnOpen
  <2>2. /\ cl'.ws = c /\ cl'.start = cl.start /\ cl'.stop = cl.stop /\ cl'.retry = cl.retry
    BY <1>1, <1>2, <1>4, <2>1 DEF Client, Belongs
  <2> QED BY <1>1, <1>3, <1>4, <2>1, <2>2, SocketGoesOpen
<1>5. CASE sock[c].role = "probe" /\ cl.ui \in {"recording", "stopping"}
  <2>1. /\ Opened(c, "attached")
        /\ \/ cl' = [cl EXCEPT !.ws = c, !.probe = Nobody, !.reconnecting = FALSE,
                               !.gapRec = FALSE]
           \/ cl' = [cl EXCEPT !.ws = c, !.probe = Nobody]
    BY <1>1, <1>5 DEF OnOpen, Adopted, Client
  <2>2. /\ cl'.ws = c /\ cl'.start = cl.start /\ cl'.stop = cl.stop /\ cl'.retry = cl.retry
        /\ cl'.opened = cl.opened
    BY <1>1, <2>1 DEF Client
  <2> QED BY <1>1, <1>3, <1>5, <2>1, <2>2, SocketGoesOpen
<1>6. CASE sock[c].role = "probe" /\ cl.ui \notin {"recording", "stopping"}
  <2>1. sock' = Socks({c}) /\ cl' = cl
    BY <1>6 DEF OnOpen
  <2>2. \A d \in Conns : InUse(d) => d = c
    BY <1>2 DEF SocketsInv, OneAtATime
  <2>3. OnlyCloses /\ NoneInUse'
    BY <1>1, <2>1, <2>2, SocksCloses DEF NoneInUse
  <2>4. \A d \in Conns : sock'[d].ready = sock[d].ready \/ (InUse(d) /\ Used(d)')
    BY SMTT(30), <1>1, <1>2, <2>1, SocksCloses DEF Used
  <2> QED BY <2>1, <2>3, <2>4, SocketsEnd DEF NoneInUse
<1>7. CASE sock[c].role = "deliver"
  <2>1. Opened(c, "attached") /\ cl' = [cl EXCEPT !.ws = c, !.probe = Nobody, !.stop = "none"]
    BY <1>1, <1>7 DEF OnOpen, Adopted, Client
  <2>2. /\ cl'.ws = c /\ cl'.start = cl.start /\ cl'.stop = "none" /\ cl'.retry = cl.retry
        /\ cl'.opened = cl.opened
    BY <1>1, <2>1 DEF Client
  <2> QED BY <1>1, <1>3, <1>7, <2>1, <2>2, SocketGoesOpen
<1> QED BY <1>4, <1>5, <1>6, <1>7 DEF OnOpen

LEMMA SocketsOnClose ==
    ASSUME PageInv, SocketsInv, Uncancelled', ClientStep,
           NEW c \in Conns, NEW late \in BOOLEAN, OnClose(c, late)
    PROVE  SocketsInv' /\ OnlyCloses
<1> USE DEF history, clientVars
<1> DEFINE ended == ProbeOf(cl) \ (ProbeOf(cl') \cup {c})
<1>1. cl \in Client /\ sock \in [Conns -> Sockets] /\ Lives(c) /\ Used(c)
  BY DEF PageInv, OnClose, Lives, Used
<1>2. sock' = [Socks(ended) EXCEPT ![c].ready = "closed"]
  BY DEF OnClose
<1> HIDE DEF ended
<1>3. \A d \in Conns \ {c} :
         /\ sock'[d].role = sock[d].role
         /\ sock'[d].ready = sock[d].ready \/ (InUse(d) /\ sock'[d].ready = "closing")
  BY <1>1, <1>2 DEF Socks, Sockets, InUse
<1>4. sock'[c].role = sock[c].role /\ sock'[c].ready = "closed" /\ sock' \in [Conns -> Sockets]
  BY <1>1, <1>2 DEF Socks, Sockets
<1>5. OnlyCloses
  BY <1>1, <1>3, <1>4 DEF OnlyCloses, Lives, InUse
<1>6. /\ cl'.start = cl.start /\ cl'.ui = cl.ui /\ cl.start # "none"
      /\ cl'.stop = cl.stop \/ (sock[c].role = "deliver" /\ cl'.stop = "undelivered")
  BY <1>1, ClosePage DEF SocketsInv, RolesInTime
<1>7. CASE Going
  <2>1. \A d \in Conns : ~Lives(d)'
    BY <1>1, <1>3, <1>4, <1>7 DEF SocketsInv, OneAtATime, Lives, InUse
  <2>2. NoneInUse' /\ sock[c].role # "deliver"
    BY <1>7, <2>1 DEF NoneInUse, InUse, Lives, PageInv, DeliversLate, Going
  <2> QED BY <1>5, <1>6, <2>1, <2>2, SocketsEnd
<1>8. CASE ~Going
  <2>1. cl.start = "over" /\ cl.ui # "recording" /\ ~Going'
    BY <1>8, GoingEnds DEF Going
  <2>2. /\ cl'.ws = cl.ws
        /\ cl'.probe = cl.probe \/ (cl.probe = c /\ cl'.probe = Nobody)
    <3> DEFINE m == [cl EXCEPT !.probe = IF @ = c THEN Nobody ELSE @]
    <3>1. m \in Client /\ m.ui = cl.ui
      BY <1>1 DEF Client
    <3>2. Lost(cl, late) = cl /\ Lost(m, late) = m
      BY <1>1, <2>1, <3>1 DEF Lost
    <3> HIDE DEF m
    <3>3. \/ cl' = cl
          \/ cl' = m
          \/ cl' = [cl EXCEPT !.opened = IF @ = "pending" THEN "no" ELSE @]
          \/ cl' = [cl EXCEPT !.stop = "undelivered"]
      BY <3>2 DEF OnClose, m
    <3> QED BY <1>1, <3>3 DEF m, Client
  <2>3. ASSUME NEW d \in Conns, InUse(d)'
        PROVE  /\ d # c /\ sock'[d] = sock[d] /\ InUse(d) /\ Belongs(d)
               /\ ~(sock[d].role = "fresh" /\ sock[d].ready = "connecting")
    <3>1. d # c /\ InUse(d) /\ sock'[d] = sock[d]
      BY <1>1, <1>3, <1>4, <2>3 DEF InUse, Sockets
    <3> QED BY <2>1, <3>1 DEF SocketsInv, OneAtATime, RolesInTime
  <2>4. CASE cl'.stop = cl.stop
    <3>1. ASSUME NEW d \in Conns, InUse(d)' PROVE Belongs(d)'
      BY <2>2, <2>3, <2>4, <3>1 DEF Belongs
    <3> QED BY <1>1, <1>5, <1>6, <2>1, <2>3, <2>4, <3>1, SocketsClose
  <2>5. CASE sock[c].role = "deliver" /\ cl'.stop = "undelivered"
    <3>1. cl.stop = "deliver"
      BY <1>1, <2>5 DEF SocketsInv, RolesInTime
    <3>2. \A d \in Conns : sock[d].role = "deliver" => d = c
      BY <2>5 DEF SocketsInv, RolesInTime
    <3>3. \A d \in Conns : ~InUse(d)'
      BY <2>3, <3>1, <3>2 DEF SocketsInv, OneAtATime
    <3>4. \A d \in Conns : sock[d].role = "deliver" => ~Lives(d)'
      BY <1>4, <3>2 DEF Lives
    <3> QED BY <1>1, <1>5, <1>6, <2>1, <2>5, <3>3, <3>4, SocketsClose DEF NoneInUse
  <2> QED BY <1>5, <1>6, <2>4, <2>5
<1> QED BY <1>7, <1>8

\* When startRecording, the reconnect loop or a stop opens a socket.
OpensSocket == cl.start = "none" \/ cl.ui = "recording" \/ cl.stop = "gap"

\* A socket that was used stays so, and one that closes does not open again.
SocketsAge ==
    \A c \in Conns :
        /\ Used(c) => Used(c)'
        /\ InUse(c)' => InUse(c) \/ (~Used(c) /\ OpensSocket)
        /\ sock[c].ready \in {"closing", "closed"} => sock'[c].ready \in {"closing", "closed"}

LEMMA SocketsStep ==
    ASSUME PageInv, SocketsInv, Uncancelled', ClientStep
    PROVE  SocketsInv' /\ SocketsAge
<1> USE DEF Used, InUse, Lives
<1>1. OnlyCloses => SocketsAge
  BY DEF OnlyCloses, SocketsAge
<1>2. (\A c \in Conns : sock'[c].ready = sock[c].ready) => SocketsAge
  BY DEF SocketsAge
<1>3. CASE \/ OpenTimeout \/ GraphReady \/ Ready \/ Speak \/ StopLocal \/ LocalSaved
           \/ StopUndelivered \/ BackToIdle \/ \E c \in Conns : OnOther(c)
  BY <1>2, <1>3, SocketsAlone
<1>4. CASE \/ MediaFails \/ SocketFailed \/ GraphFails \/ StopOffline \/ CloseTab
           \/ \E c \in Conns : DeliverTimeout(c) \/ OnDone(c) \/ OnError(c) \/ OnBusy(c)
  BY <1>1, <1>4, SocketsOver
<1>5. CASE StopOnline
  BY <1>1, <1>5, SocketsStopOnline
<1>6. CASE MediaAcquired \/ SocketOpened
  BY <1>2, <1>6, SocketsAttach
<1>7. ASSUME NEW c \in Conns, StartRecording(c) \/ Retry(c) \/ DeliverStop(c)
      PROVE  SocketsInv' /\ SocketsAge
  <2>1. SocketsInv' /\ ~Used(c) /\ \A d \in Conns \ {c} : sock'[d] = sock[d]
    BY <1>7, SocketsOpen
  <2>2. OpensSocket
    BY <1>7 DEF OpensSocket, StartRecording, Retry, DeliverStop
  <2> QED BY <2>1, <2>2 DEF SocketsAge
<1>8. ASSUME NEW c \in Conns, OnOpen(c)
      PROVE  SocketsInv' /\ SocketsAge
  <2>1. /\ SocketsInv'
        /\ \A d \in Conns : sock'[d].ready = sock[d].ready \/ (InUse(d) /\ Used(d)')
        /\ \A d \in Conns : InUse(d)' => InUse(d)
    BY <1>8, SocketsOnOpen
  <2> QED BY <2>1 DEF SocketsAge
<1>9. ASSUME NEW c \in Conns, NEW late \in BOOLEAN, OnClose(c, late)
      PROVE  SocketsInv' /\ SocketsAge
  BY <1>1, <1>9, SocketsOnClose
<1>10. ~CancelRecording
  BY DEF CancelRecording, Uncancelled
<1> QED
  BY <1>3, <1>4, <1>5, <1>6, <1>7, <1>8, <1>9, <1>10 DEF ClientStep

-----------------------------------------------------------------------------
(* The end of a recording.                                                 *)

\* The steps that end a recording.
LEMMA WhatEnds ==
    ASSUME ClientStep
    PROVE  \/ UNCHANGED endings
           \/ LocalSaved \/ StopUndelivered \/ CloseTab \/ CancelRecording
           \/ \E c \in Conns : OnDone(c) \/ OnError(c) \/ (OnBusy(c) /\ Over("idle", "busy"))
<1> USE DEF history
<1>1. CASE \/ MediaFails \/ MediaAcquired \/ OpenTimeout \/ SocketOpened
           \/ SocketFailed \/ GraphFails \/ GraphReady \/ Ready \/ Speak
  BY <1>1 DEF MediaFails, MediaAcquired, OpenTimeout, SocketOpened, SocketFailed,
     GraphFails, GoLocal, GraphReady, Ready, Speak
<1>2. CASE StopLocal \/ StopOnline \/ StopOffline \/ BackToIdle
  BY <1>2 DEF StopLocal, StopOnline, StopOffline, BackToIdle
<1>3. CASE \E c \in Conns :
              \/ StartRecording(c) \/ Retry(c) \/ DeliverStop(c) \/ DeliverTimeout(c)
              \/ OnOpen(c) \/ OnOther(c) \/ \E late \in BOOLEAN : OnClose(c, late)
  BY <1>3 DEF StartRecording, Retry, DeliverStop, DeliverTimeout, OnOpen, OnOther, OnClose
<1>4. CASE \E c \in Conns : OnBusy(c)
  BY <1>4 DEF OnBusy
<1> QED BY <1>1, <1>2, <1>3, <1>4 DEF ClientStep

\* An answer the client reads is the last the server gave on that connection,
\* and it comes after startRecording.
LEMMA AnswerIsLast ==
    ASSUME ServerAnswers, AnswersLate, down \in [Conns -> Seq(Events)],
           NEW c \in Conns, NEW kind \in Final, Event(c, kind)
    PROVE  reply[c] = kind /\ cl.start = "over"
<1>1. 1 \in DOMAIN down[c] /\ down[c][1] = kind
  BY DEF Event
<1>2. reply[c] = kind
  BY <1>1 DEF ServerAnswers
<1> QED BY <1>2 DEF AnswersLate, Final

Ended == {"done", "error", "busy", "gone", "undelivered"}
Finishing == {"gap", "deliver", "undelivered"}

\* stopRecording without a socket goes in order: gap, delivery, undelivered.
LEMMA StopMoves ==
    ASSUME PageInv, SocketsInv, ClientStep, Uncancelled', cl'.stop \in Finishing
    PROVE  cl.stop \in Finishing \/ cl.ui = "recording"
<1> USE DEF history, clientVars, Finishing
<1>1. cl \in Client /\ sock \in [Conns -> Sockets]
  BY DEF PageInv
<1>2. \A ui : \A k \in Client : cl' = [Reset(k) EXCEPT !.ui = ui] => cl'.stop = k.stop
  BY DEF Reset, Quiet, Ungapped, LoopCancelled, Client
<1>3. CASE \/ MediaFails \/ MediaAcquired \/ OpenTimeout \/ SocketOpened
           \/ SocketFailed \/ GraphFails \/ GraphReady \/ Ready \/ Speak \/ BackToIdle
  BY ZenonT(30), <1>1, <1>3 DEF MediaFails, MediaAcquired, OpenTimeout, SocketOpened,
     SocketFailed, GraphFails, GoLocal, GraphReady, Ready, Speak, BackToIdle, Client
<1>4. CASE StopLocal \/ StopOnline \/ StopOffline
  BY <1>4 DEF StopLocal, StopOnline, StopOffline
<1>5. CASE LocalSaved \/ StopUndelivered
  BY <1>1, <1>5 DEF LocalSaved, Quiet, StopUndelivered, Client
<1>6. CASE CloseTab
  BY <1>6 DEF CloseTab
<1>7. CASE \E c \in Conns : StartRecording(c) \/ Retry(c) \/ DeliverStop(c) \/ DeliverTimeout(c)
  BY <1>1, <1>7 DEF StartRecording, Retry, DeliverStop, DeliverTimeout, Client
<1>8. ASSUME NEW c \in Conns, OnOpen(c) PROVE cl.stop \in Finishing
  BY <1>8, OpenPage
<1>9. ASSUME NEW c \in Conns, NEW late \in BOOLEAN, OnClose(c, late) PROVE cl.stop \in Finishing
  <2>1. Lives(c)
    BY <1>9 DEF OnClose, Lives
  <2> QED BY <1>9, <2>1, ClosePage DEF SocketsInv, RolesInTime
<1>10. CASE \E c \in Conns : OnDone(c) \/ OnError(c) \/ OnBusy(c) \/ OnOther(c)
  BY <1>1, <1>2, <1>10 DEF OnDone, OnError, OnBusy, Over, OnOther, Client
<1>11. ~CancelRecording
  BY DEF CancelRecording, Uncancelled
<1> QED
  BY <1>3, <1>4, <1>5, <1>6, <1>7, <1>8, <1>9, <1>10, <1>11 DEF ClientStep

LEMMA EndsOnceStep ==
    ASSUME PageInv, SocketsInv, EndsOnce, ServerAnswers, AnswersLate,
           down \in [Conns -> Seq(Events)], Uncancelled', ClientStep
    PROVE  EndsOnce'
<1>1. cl \in Client /\ sock \in [Conns -> Sockets] /\ StartedInOrder
  BY DEF PageInv
<1>2. /\ cl.start = "over" => cl'.start = "over"
      /\ cl.start = "over" /\ cl'.ui = "recording" => cl.ui = "recording"
      /\ SocketsAge
  BY PageMoves, SocketsStep
<1>3. ASSUME endings \cap Ended # {}
      PROVE  NoneInUse' /\ cl'.stop \notin Finishing
  <2>1. /\ \A c \in Conns : ~InUse(c)
        /\ cl.stop \notin Finishing /\ cl.start = "over" /\ cl.ui # "recording"
    BY <1>3 DEF EndsOnce, Ended, Finishing
  <2>2. \A c \in Conns : ~InUse(c)'
    BY <1>2, <2>1 DEF SocketsAge, OpensSocket, Finishing
  <2> QED BY <2>1, <2>2, StopMoves DEF NoneInUse
<1>4. endings # {} => cl.start = "over" /\ cl.ui # "recording"
  BY DEF EndsOnce
<1>5. CASE UNCHANGED endings
  BY <1>2, <1>3, <1>4, <1>5 DEF EndsOnce, Ended, Finishing, NoneInUse
<1>6. CASE LocalSaved
  <2>1. /\ cl.start = "over" /\ cl'.start = "over" /\ cl'.ui # "recording"
        /\ endings' \cap Ended = endings \cap Ended
    BY <1>1, <1>2, <1>6 DEF LocalSaved, Quiet, Client, StartedInOrder, Ended
  <2> QED BY <1>3, <2>1 DEF EndsOnce, Ended, Finishing, NoneInUse
<1>7. CASE StopUndelivered
  <2>1. /\ cl.start = "over" /\ cl'.start = "over" /\ cl'.ui # "recording"
        /\ cl'.stop = "none" /\ UNCHANGED sock
    BY <1>1, <1>2, <1>7 DEF StopUndelivered, Client, StartedInOrder
  <2>2. \A c \in Conns : ~InUse(c)'
    BY <1>7, <2>1 DEF StopUndelivered, SocketsInv, OneAtATime, InUse
  <2> QED BY <2>1, <2>2 DEF EndsOnce
<1>8. ASSUME cl.start = "over", cl.stop \notin Finishing,
             NEW ui \in {"idle", "done", "cancelling", "gone"},
             cl' = [Reset(cl) EXCEPT !.ui = ui], NoneInUse'
      PROVE  EndsOnce'
  BY <1>8, ResetPage DEF EndsOnce, PageInv, NoneInUse, Finishing
<1>9. CASE CloseTab
  <2>1. cl.start = "over" /\ cl.stop = "none"
    BY <1>1, <1>9 DEF CloseTab, StartedInOrder, Client
  <2> QED BY <1>8, <1>9, <2>1, SocketsOver DEF CloseTab, Finishing
<1>10. ASSUME NEW c \in Conns, NEW kind \in Final, Event(c, kind),
              sock[c] = [ready |-> "open", role |-> "attached"],
              NEW ui \in {"idle", "done"}, NEW result, Over(ui, result), NoneInUse'
       PROVE  EndsOnce'
  <2>1. InUse(c) /\ sock[c].role # "deliver"
    BY <1>10 DEF InUse
  <2>2. cl.stop \notin Finishing
    BY <2>1 DEF SocketsInv, OneAtATime, Finishing
  <2> QED BY <1>8, <1>10, <2>2, AnswerIsLast DEF Over
<1>11. CASE \E c \in Conns : OnDone(c) \/ OnError(c) \/ (OnBusy(c) /\ Over("idle", "busy"))
  BY <1>10, <1>11, SocketsOver DEF OnDone, OnError, OnBusy, Final
<1>12. ~CancelRecording
  BY DEF CancelRecording, Uncancelled
<1> QED BY <1>5, <1>6, <1>7, <1>9, <1>11, <1>12, WhatEnds

-----------------------------------------------------------------------------
(* The server's answers.                                                   *)

\* The last answer of a connection comes as it is closed.
LEMMA AnswersEnd ==
    ASSUME TypeOK, NetStep, NEW c \in Conns
    PROVE  /\ pc[c] = "closed" => pc'[c] = "closed" /\ reply'[c] = reply[c]
           /\ \/ reply'[c] = reply[c]
              \/ reply'[c] \in {"resumed", "discarded"}
              \/ pc'[c] = "closed"
<1> USE DEF TypeOK, Goto, Send
<1>1. ASSUME NEW d \in Conns, Accept(d)
      PROVE  /\ pc[d] = "accepting"
             /\ \/ Goto(d, "loop") /\ (UNCHANGED reply \/ Send(d, "resumed"))
                \/ Goto(d, "closed") /\ Send(d, "busy")
  BY <1>1 DEF Accept, BeginSession, ResumeSession, StartSession, AdoptSession, RejectBusy
<1>2. ASSUME NEW d \in Conns,
             \/ ReceiveChunk(d) \/ ReceiveConfig(d) \/ ReceiveClose(d) \/ Cut(d)
             \/ ReceiveStop(d) \/ AnswerStop(d) \/ ReceiveDiscard(d)
      PROVE  \/ UNCHANGED <<pc, reply>>
             \/ /\ pc[d] \in {"loop", "finalizing"}
                /\ \/ UNCHANGED reply /\ (Goto(d, "closed") \/ Goto(d, "finalizing"))
                   \/ Goto(d, "closed") /\ \E frame : Send(d, frame)
  <2>1. CASE ReceiveChunk(d) \/ ReceiveConfig(d) \/ Cut(d)
    BY <2>1 DEF ReceiveChunk, HandleAudioChunk, ReceiveConfig, HandleConfig, Cut, connVars, vars
  <2>2. CASE ReceiveClose(d)
    BY <2>2 DEF ReceiveClose, Disconnect, Leave
  <2>3. CASE ReceiveStop(d) \/ AnswerStop(d)
    BY <2>3 DEF ReceiveStop, AnswerStop, Stop, StopStreaming, FinishStop, Finalize
  <2>4. CASE ReceiveDiscard(d)
    BY <2>4 DEF ReceiveDiscard, Discard
  <2> QED BY <1>2, <2>1, <2>2, <2>3, <2>4
<1>3. ReceiveDelete \/ DeleteLost \/ GraceEnds => UNCHANGED <<pc, reply>>
  BY DEF ReceiveDelete, Delete, DeleteLost, GraceEnds, GraceExpire, connVars, vars
<1>4. CASE UNCHANGED <<pc, reply>>
  BY <1>4
<1>5. CASE \E d \in Conns : Accept(d)
  BY <1>1, <1>5
<1>6. CASE \E d \in Conns :
              \/ ReceiveChunk(d) \/ ReceiveConfig(d) \/ ReceiveClose(d) \/ Cut(d)
              \/ ReceiveStop(d) \/ AnswerStop(d) \/ ReceiveDiscard(d)
  BY <1>2, <1>6
<1> QED BY <1>3, <1>4, <1>5, <1>6 DEF NetStep

\* A session starts with a connection in its loop.
LEMMA SessionStarts ==
    ASSUME TypeOK, NetStep, rec = NoRec, rec' # NoRec
    PROVE  \E c \in Conns : StartSession(c) /\ pc'[c] = "loop" /\ Accept(c)
<1> USE DEF Live
<1>1. ASSUME NEW c \in Conns, Accept(c) PROVE StartSession(c) /\ pc'[c] = "loop"
  BY <1>1 DEF Accept, BeginSession, ResumeSession, StartSession, AdoptSession, RejectBusy,
     Goto, TypeOK
<1>2. ASSUME NEW c \in Conns,
             \/ ReceiveChunk(c) \/ ReceiveConfig(c) \/ ReceiveClose(c) \/ Cut(c)
             \/ ReceiveStop(c) \/ AnswerStop(c) \/ ReceiveDiscard(c)
      PROVE  FALSE
  <2>1. CASE ReceiveChunk(c) \/ ReceiveConfig(c) \/ Cut(c)
    BY <2>1 DEF ReceiveChunk, HandleAudioChunk, ReceiveConfig, Cut, vars
  <2>2. CASE ReceiveClose(c)
    BY <2>2 DEF ReceiveClose, Disconnect, Leave
  <2>3. CASE ReceiveStop(c) \/ AnswerStop(c) \/ ReceiveDiscard(c)
    BY <2>3 DEF ReceiveStop, AnswerStop, Stop, StopStreaming, FinishStop, Finalize,
       FinalizeAudio, FinalizeFails, ReceiveDiscard, Discard, DiscardRecording
  <2> QED BY <1>2, <2>1, <2>2, <2>3
<1>3. ~(ReceiveDelete \/ DeleteLost \/ GraceEnds)
  BY DEF ReceiveDelete, Delete, DiscardRecording, DeleteLost, GraceEnds, GraceExpire, vars
<1> QED BY <1>1, <1>2, <1>3 DEF NetStep

\* What the client has still to read was sent before, or is the new answer.
LEMMA EventsMove ==
    ASSUME TypeOK', NetStep, down \in [Conns -> Seq(Events)], NEW c \in Conns,
           NEW i \in DOMAIN down'[c], down'[c][i] \in Final
    PROVE  (\E j \in DOMAIN down[c] : down[c][j] = down'[c][i]) \/ down'[c][i] = reply'[c]
<1>1. ASSUME NEW d \in Conns, NEW before \in {<<>>, <<"open">>}, Emits(d, before \o Answers(d))
      PROVE  (\E j \in DOMAIN down[c] : down[c][j] = down'[c][i]) \/ down'[c][i] = reply'[c]
  <2>1. CASE down'[c] = down[c]
    BY <2>1
  <2>2. CASE down'[c] # down[c]
    <3> DEFINE frame == IF reply'[c] # reply[c] THEN <<reply'[c]>> ELSE <<>>
               end == IF pc'[c] = "closed" THEN <<"close">> ELSE <<>>
               s == down[c]
    <3>1. down'[c] = s \o (before \o (frame \o end)) /\ s \in Seq(Events)
      BY <1>1, <2>2 DEF Emits, Answers
    <3>2. /\ frame \in {<<>>, <<reply'[c]>>} /\ end \in {<<>>, <<"close">>}
          /\ reply'[c] \in Events /\ "open" \in Events /\ "close" \in Events
      BY DEF TypeOK, Events
    <3>s. s = down[c]
      OBVIOUS
    <3> HIDE DEF frame, end, s
    <3>3. \A k \in DOMAIN (before \o (frame \o end)) :
             (before \o (frame \o end))[k] \in {"open", "close", reply'[c]}
      BY <3>2
    <3> DEFINE said == before \o (frame \o end)
    <3>4. said \in Seq(Events)
      <4>e. <<>> \in Seq(Events) /\ \A e \in Events : <<e>> \in Seq(Events)
        OBVIOUS
      <4>f. <<reply'[c]>> \in Seq(Events) /\ <<"close">> \in Seq(Events)
            /\ <<"open">> \in Seq(Events)
        BY <3>2, <4>e
      <4>1. frame \in Seq(Events) /\ end \in Seq(Events) /\ before \in Seq(Events)
        BY <3>2, <4>e, <4>f
      <4> QED BY <4>1, ConcatProperties
    <3> HIDE DEF said
    <3>5. /\ DOMAIN (s \o said) = 1..Len(s) + Len(said)
          /\ \A k \in 1..Len(s) + Len(said) :
                (s \o said)[k] = IF k <= Len(s) THEN s[k] ELSE said[k - Len(s)]
      BY <3>1, <3>4
    <3>6. CASE i <= Len(s)
      <4>1. i \in DOMAIN s /\ s[i] = down'[c][i]
        BY <3>1, <3>5, <3>6 DEF said
      <4> QED BY <3>s, <4>1
    <3>7. CASE ~(i <= Len(s))
      <4>1. Len(s) \in Nat /\ Len(said) \in Nat /\ DOMAIN said = 1..Len(said)
        BY <3>1, <3>4
      <4>2. i \in 1..Len(s) + Len(said)
        BY <3>1, <3>5 DEF said
      <4>3. i - Len(s) \in DOMAIN said
        BY <3>7, <4>1, <4>2
      <4>4. down'[c][i] = said[i - Len(s)]
        BY <3>1, <3>5, <3>7, <4>2 DEF said
      <4> QED BY <3>3, <4>3, <4>4 DEF said, Final
    <3> QED BY <3>6, <3>7
  <2> QED BY <2>1, <2>2
<1>2. ASSUME NEW d \in Conns, Cut(d)
      PROVE  \E j \in DOMAIN down[c] : down[c][j] = down'[c][i]
  <2>1. PICK k \in 0..Len(down[d]) : down' = [down EXCEPT ![d] = SubSeq(@, 1, k)]
    BY <1>2 DEF Cut
  <2>2. down'[c] = down[c] \/ (down'[c] = SubSeq(down[c], 1, k) /\ c = d)
    BY <2>1
  <2> QED BY <2>1, <2>2
<1>3. UNCHANGED down => \E j \in DOMAIN down[c] : down[c][j] = down'[c][i]
  OBVIOUS
<1>4. ASSUME NEW d \in Conns, ReceiveStop(d) \/ AnswerStop(d) \/ ReceiveDiscard(d)
      PROVE  Emits(d, <<>> \o Answers(d))
  <2>1. Answers(d) \in Seq(Events)
    <3>1. reply'[d] \in Events /\ "close" \in Events
      BY DEF TypeOK, Events
    <3> QED BY <3>1 DEF Answers
  <2> QED BY <1>4, <2>1 DEF ReceiveStop, AnswerStop, ReceiveDiscard
<1>5. CASE \E d \in Conns : Accept(d) \/ ReceiveStop(d) \/ AnswerStop(d) \/ ReceiveDiscard(d)
  BY <1>1, <1>4, <1>5 DEF Accept
<1>6. CASE \/ ReceiveDelete \/ DeleteLost \/ GraceEnds
           \/ \E d \in Conns : ReceiveChunk(d) \/ ReceiveConfig(d) \/ ReceiveClose(d)
  BY <1>3, <1>6 DEF ReceiveDelete, DeleteLost, GraceEnds, ReceiveChunk, ReceiveConfig,
     ReceiveClose, netVars
<1> QED BY <1>2, <1>5, <1>6 DEF NetStep

\* The client takes events in order and adds none.
LEMMA EventsTaken ==
    ASSUME ClientStep, down \in [Conns -> Seq(Events)], NEW c \in Conns,
           NEW i \in DOMAIN down'[c]
    PROVE  \E j \in DOMAIN down[c] : down[c][j] = down'[c][i]
<1> USE DEF history, clientVars, netVars
<1>1. CASE UNCHANGED down
  BY <1>1
<1>2. ASSUME NEW d \in Conns, down[d] # <<>>, Delivered(d)
      PROVE  \E j \in DOMAIN down[c] : down[c][j] = down'[c][i]
  <2>1. CASE d = c
    <3> DEFINE s == down[c]
    <3>1. s \in Seq(Events) /\ s # <<>> /\ down'[c] = Tail(s)
      BY <1>2, <2>1 DEF Delivered
    <3> HIDE DEF s
    <3>2. \A k \in DOMAIN Tail(s) : k + 1 \in DOMAIN s /\ Tail(s)[k] = s[k + 1]
      BY <3>1
    <3> QED BY <3>1, <3>2 DEF s
  <2>2. CASE d # c
    BY <1>2, <2>2 DEF Delivered
  <2> QED BY <2>1, <2>2
<1>3. ASSUME NEW d \in Conns, NEW late \in BOOLEAN, OnClose(d, late)
      PROVE  \E j \in DOMAIN down[c] : down[c][j] = down'[c][i]
  <2>1. down' = [down EXCEPT ![d] = <<>>]
    BY <1>3 DEF OnClose
  <2> QED BY <2>1
<1>4. CASE \E d \in Conns : OnOpen(d) \/ OnDone(d) \/ OnError(d) \/ OnBusy(d) \/ OnOther(d)
  BY <1>2, <1>4 DEF OnOpen, OnDone, OnError, OnBusy, OnOther, Event
<1>5. CASE \/ MediaFails \/ MediaAcquired \/ OpenTimeout \/ SocketOpened \/ SocketFailed
           \/ GraphFails \/ GraphReady \/ Ready \/ Speak
           \/ StopLocal \/ LocalSaved \/ StopOnline \/ StopOffline \/ StopUndelivered
           \/ CancelRecording \/ BackToIdle \/ CloseTab
           \/ \E d \in Conns :
                 StartRecording(d) \/ Retry(d) \/ DeliverStop(d) \/ DeliverTimeout(d)
  <2>1. UNCHANGED down
    BY <1>5 DEF MediaFails, MediaAcquired, OpenTimeout, SocketOpened, SocketFailed,
       GraphFails, GoLocal, GraphReady, Ready, Speak, StopLocal, LocalSaved, StopOnline,
       StopOffline, StopUndelivered, CancelRecording, BackToIdle, CloseTab, StartRecording,
       Retry, DeliverStop, DeliverTimeout
  <2> QED BY <1>1, <2>1
<1> QED BY <1>3, <1>4, <1>5 DEF ClientStep

\* A socket is used once.
LEMMA StaysUsed ==
    ASSUME PageInv, ClientStep, NEW c \in Conns, Used(c)
    PROVE  Used(c)'
<1> USE DEF history, clientVars, Used
<1>1. sock \in [Conns -> Sockets]
  BY DEF PageInv
<1>2. ASSUME NEW S, sock' = Socks(S) PROVE Used(c)'
  BY <1>1, <1>2 DEF Socks, Sockets
<1>3. ASSUME NEW d \in Conns, NEW role, Open(d, role) PROVE Used(c)'
  BY <1>1, <1>3 DEF Open
<1>4. ASSUME NEW d \in Conns, NEW role, Opened(d, role) PROVE Used(c)'
  BY <1>1, <1>4 DEF Opened
<1>5. ASSUME Attach(cl) \/ UNCHANGED sock PROVE Used(c)'
  BY <1>1, <1>5 DEF Attach, Sockets
<1>6. ASSUME NEW d \in Conns, NEW S, sock' = [Socks(S) EXCEPT ![d].ready = "closed"]
      PROVE  Used(c)'
  BY <1>1, <1>6 DEF Socks, Sockets
<1>7. CASE CloseTab
  BY <1>1, <1>7 DEF CloseTab, Sockets
<1>8. CASE \/ MediaFails \/ SocketFailed \/ GraphFails \/ StopOnline \/ StopOffline
           \/ CancelRecording \/ \E d \in Conns : DeliverTimeout(d)
  BY <1>2, <1>8 DEF MediaFails, SocketFailed, GraphFails, GoLocal, StopOnline, StopOffline,
     CancelRecording, DeliverTimeout
<1>9. CASE \E d \in Conns : StartRecording(d) \/ Retry(d) \/ DeliverStop(d)
  BY <1>3, <1>9 DEF StartRecording, Retry, DeliverStop
<1>10. CASE \/ OpenTimeout \/ GraphReady \/ Ready \/ Speak \/ StopLocal \/ LocalSaved
            \/ StopUndelivered \/ BackToIdle \/ MediaAcquired \/ SocketOpened
            \/ \E d \in Conns : OnOther(d)
  BY <1>5, <1>10 DEF OpenTimeout, GraphReady, Ready, Speak, StopLocal, LocalSaved,
     StopUndelivered, BackToIdle, MediaAcquired, SocketOpened, OnOther
<1>11. CASE \E d \in Conns : OnDone(d) \/ OnError(d) \/ OnBusy(d)
  BY <1>2, <1>5, <1>11 DEF OnDone, OnError, OnBusy, Over
<1>12. CASE \E d \in Conns : OnOpen(d)
  BY <1>2, <1>4, <1>12 DEF OnOpen
<1>13. CASE \E d \in Conns, late \in BOOLEAN : OnClose(d, late)
  BY <1>6, <1>13 DEF OnClose
<1> QED BY <1>7, <1>8, <1>9, <1>10, <1>11, <1>12, <1>13 DEF ClientStep

\* "done" comes from the server.
LEMMA WhoEnds ==
    ASSUME ClientStep, "done" \in endings', "done" \notin endings
    PROVE  \E c \in Conns : OnDone(c)
<1>1. ASSUME NEW ui, NEW result, Over(ui, result) PROVE result = "done"
  BY <1>1 DEF Over
<1>2. \A c \in Conns : OnError(c) => Over("idle", "error")
  BY DEF OnError
<1>3. ~(LocalSaved \/ StopUndelivered \/ CloseTab \/ CancelRecording)
  BY DEF LocalSaved, StopUndelivered, CloseTab, CancelRecording
<1> QED BY <1>1, <1>2, <1>3, WhatEnds

\* Only the handshake takes a connection out of it.
LEMMA OnlyAcceptAccepts ==
    ASSUME TypeOK, NetStep, NEW c \in Conns, pc[c] = "accepting", pc'[c] # "accepting"
    PROVE  Accept(c)
<1> USE DEF TypeOK, Goto
<1>1. ASSUME NEW d \in Conns, Accept(d) PROVE d = c
  BY <1>1 DEF Accept, BeginSession, ResumeSession, StartSession, AdoptSession, RejectBusy
<1>2. ASSUME NEW d \in Conns,
             \/ ReceiveChunk(d) \/ ReceiveConfig(d) \/ ReceiveClose(d) \/ Cut(d)
             \/ ReceiveStop(d) \/ AnswerStop(d) \/ ReceiveDiscard(d)
      PROVE  FALSE
  <2>1. CASE ReceiveChunk(d) \/ ReceiveConfig(d) \/ Cut(d)
    BY <2>1 DEF ReceiveChunk, HandleAudioChunk, ReceiveConfig, HandleConfig, Cut, connVars, vars
  <2>2. CASE ReceiveClose(d)
    BY <2>2 DEF ReceiveClose, Disconnect, Leave
  <2>3. CASE ReceiveStop(d) \/ AnswerStop(d)
    BY <2>3 DEF ReceiveStop, AnswerStop, Stop, StopStreaming, FinishStop, Finalize
  <2>4. CASE ReceiveDiscard(d)
    BY <2>4 DEF ReceiveDiscard, Discard
  <2> QED BY <1>2, <2>1, <2>2, <2>3, <2>4
<1>3. ~(ReceiveDelete \/ DeleteLost \/ GraceEnds)
  BY DEF ReceiveDelete, Delete, DeleteLost, GraceEnds, GraceExpire, connVars, vars
<1> QED BY <1>1, <1>2, <1>3 DEF NetStep

LEMMA ServerAnswersStep ==
    ASSUME ProtocolInv, ProtocolInv', ServerAnswers, down \in [Conns -> Seq(Events)],
           ClientStep \/ NetStep
    PROVE  ServerAnswers'
<1>1. CASE ClientStep
  <2>1. UNCHANGED <<rec, pc, reply>>
    BY <1>1, ClientLeavesServer DEF vars
  <2>2. ASSUME NEW c \in Conns, NEW i \in DOMAIN down'[c], down'[c][i] \in Final
        PROVE  reply'[c] = down'[c][i]
    BY <1>1, <2>1, <2>2, EventsTaken DEF ServerAnswers
  <2>3. \A c \in Conns : pc'[c] # "accepting" => Used(c)'
    BY <1>1, <2>1, StaysUsed DEF ServerAnswers, ProtocolInv
  <2>4. ASSUME "done" \in endings' PROVE \E c \in Conns : reply'[c] = "done"
    <3>1. CASE "done" \in endings
      BY <2>1, <3>1 DEF ServerAnswers
    <3>2. CASE "done" \notin endings
      <4>1. PICK c \in Conns : OnDone(c)
        BY <1>1, <2>4, <3>2, WhoEnds
      <4>2. 1 \in DOMAIN down[c] /\ down[c][1] = "done"
        BY <4>1 DEF OnDone, Event
      <4> QED BY <2>1, <4>2 DEF ServerAnswers, Final
    <3> QED BY <3>1, <3>2
  <2> QED BY <2>1, <2>2, <2>3, <2>4 DEF ServerAnswers
<1>2. CASE NetStep
  <2>1. TypeOK /\ TypeOK' /\ [Next]_vars /\ UNCHANGED <<sock, endings>>
    BY <1>2, NetLeavesPage, NetIsServer DEF ProtocolInv
  <2>2. ASSUME NEW c \in Conns, reply[c] \in Final
        PROVE  pc'[c] = "closed" /\ reply'[c] = reply[c]
    BY <1>2, <2>1, <2>2, AnswersEnd DEF ServerAnswers
  <2>3. ASSUME NEW c \in Conns, reply'[c] \in Final
        PROVE  pc'[c] = "closed"
    BY <1>2, <2>1, <2>2, <2>3, AnswersEnd DEF Final
  <2>4. ASSUME NEW c \in Conns, NEW i \in DOMAIN down'[c], down'[c][i] \in Final
        PROVE  reply'[c] = down'[c][i]
    BY <1>2, <2>1, <2>2, <2>4, EventsMove DEF ServerAnswers
  <2>5. ASSUME NEW c \in Conns, pc'[c] # "accepting" PROVE Used(c)'
    <3>1. CASE pc[c] # "accepting"
      BY <2>1, <3>1 DEF ServerAnswers, Used
    <3>2. CASE pc[c] = "accepting"
      <4>1. Accept(c)
        BY <1>2, <2>1, <2>5, <3>2, OnlyAcceptAccepts
      <4> QED BY <2>1, <4>1 DEF Accept, Used
    <3> QED BY <3>1, <3>2
  <2>6. ASSUME \A c \in Conns : pc'[c] = "accepting" PROVE rec' = NoRec
    <3>1. \A c \in Conns : pc[c] = "accepting"
      BY <2>1, <2>6, PlacesMove
    <3> QED BY <1>2, <2>1, <2>6, <3>1, SessionStarts DEF ServerAnswers
  <2>7. "done" \in endings' => \E c \in Conns : reply'[c] = "done"
    BY <2>1, <2>2 DEF ServerAnswers, Final
  <2> QED BY <2>3, <2>4, <2>5, <2>6, <2>7 DEF ServerAnswers
<1> QED BY <1>1, <1>2

\* While the recording goes on nothing that ends it arrives.
LEMMA NothingEndsIt ==
    ASSUME ProtocolInv, Going, NEW c \in Conns
    PROVE  ~ReceiveStop(c) /\ ~AnswerStop(c) /\ ~ReceiveDiscard(c)
<1>1. CalmWire /\ ~Stopping
  BY DEF ProtocolInv, Undisturbed
<1>2. ASSUME NEW kind \in {"stop", "discard"}, Took(c, kind) PROVE FALSE
  <2>1. Head(up[c]) \in CalmFrames
    BY <1>1, <1>2, HeadTailProperties DEF CalmWire, Took
  <2> QED BY <1>2, <2>1 DEF Took, CalmFrames, Frame, Pcm
<1> QED BY <1>1, <1>2 DEF ReceiveStop, AnswerStop, FinishStop, Stopping, ReceiveDiscard

\* Which steps send a status frame.
LEMMA WhoAnswers ==
    ASSUME TypeOK, NetStep, NEW c \in Conns, reply'[c] # reply[c]
    PROVE  Accept(c) \/ ReceiveStop(c) \/ AnswerStop(c) \/ ReceiveDiscard(c)
<1> USE DEF TypeOK, Send
<1>1. ASSUME NEW d \in Conns,
             Accept(d) \/ ReceiveStop(d) \/ AnswerStop(d) \/ ReceiveDiscard(d)
      PROVE  d = c
  <2>1. CASE Accept(d)
    BY <2>1 DEF Accept, BeginSession, ResumeSession, StartSession, AdoptSession, RejectBusy
  <2>2. CASE ReceiveStop(d) \/ AnswerStop(d)
    BY <2>2 DEF ReceiveStop, AnswerStop, Stop, StopStreaming, FinishStop, Finalize
  <2>3. CASE ReceiveDiscard(d)
    BY <2>3 DEF ReceiveDiscard, Discard
  <2> QED BY <1>1, <2>1, <2>2, <2>3
<1>2. ASSUME NEW d \in Conns,
             ReceiveChunk(d) \/ ReceiveConfig(d) \/ ReceiveClose(d) \/ Cut(d)
      PROVE  UNCHANGED reply
  BY <1>2 DEF ReceiveChunk, HandleAudioChunk, ReceiveConfig, HandleConfig, ReceiveClose,
     Disconnect, Cut, connVars, vars
<1>3. ReceiveDelete \/ DeleteLost \/ GraceEnds => UNCHANGED reply
  BY DEF ReceiveDelete, Delete, DeleteLost, GraceEnds, GraceExpire, connVars, vars
<1> QED BY <1>1, <1>2, <1>3 DEF NetStep

\* Until startRecording is through there is one connection: it has no session
\* to resume and no owner to dispute.
LEMMA AnswersLateStep ==
    ASSUME ProtocolInv, SocketsInv, ServerAnswers, AnswersLate, Uncancelled,
           ClientStep \/ NetStep
    PROVE  AnswersLate'
<1>1. CASE ClientStep
  BY <1>1, ClientLeavesServer, PageMoves DEF ProtocolInv, AnswersLate, vars
<1>2. CASE NetStep
  <2> SUFFICES ASSUME cl.start # "over", NEW c \in Conns PROVE reply'[c] = "none"
    BY <1>2, NetLeavesPage DEF AnswersLate
  <2>1. reply[c] = "none" /\ Going /\ TypeOK
    BY DEF AnswersLate, Going, ProtocolInv
  <2>2. CASE Accept(c)
    <3>1. Used(c) /\ pc[c] = "accepting"
      BY <2>2 DEF Accept, Used, BeginSession
    <3>2. \A d \in Conns : pc[d] = "accepting"
      BY <3>1 DEF SocketsInv, OneAtATime, ServerAnswers
    <3>3. ~Live
      BY <3>2 DEF ServerAnswers, Live
    <3> QED BY <2>1, <2>2, <3>3 DEF Accept, BeginSession, ResumeSession, StartSession,
               AdoptSession, RejectBusy
  <2> QED BY <1>2, <2>1, <2>2, WhoAnswers, NothingEndsIt
<1> QED BY <1>1, <1>2

-----------------------------------------------------------------------------
(* The frames on the wire.                                                 *)

\* What a step of the client may put on the wire of c.
MaySay(c, f) ==
    \/ f.kind \in {"config", "stop"}
    \/ f.kind = "discard" /\ (MediaFails \/ CancelRecording)
    \/ f.kind = "close" /\ sock'[c].ready \in {"closing", "closed"}
    \/ /\ f = Pcm(spoken + 1) /\ Speak /\ cl.mic = "stream"
       /\ IsOpen(cl) /\ c = cl.ws /\ c \notin cut

WireGrows(c) ==
    /\ \A i \in DOMAIN up[c] : i \in DOMAIN up'[c] /\ up'[c][i] = up[c][i]
    /\ \A i \in DOMAIN up'[c] : i \in DOMAIN up[c] \/ MaySay(c, up'[c][i])

LEMMA SendsGrow ==
    ASSUME WireOK, NEW on, NEW frames \in Seq(Frames), NEW closing,
           Sends(on, frames, closing), NEW c \in Conns,
           c = on /\ c \notin cut => \A k \in DOMAIN frames : MaySay(c, frames[k]),
           InUse(c) /\ c \in closing => sock'[c].ready \in {"closing", "closed"}
    PROVE  WireGrows(c)
<1> DEFINE said == IF c = on THEN frames ELSE <<>>
           closed == IF sock[c].ready \in {"connecting", "open"} /\ c \in closing
                       THEN <<Frame("close")>> ELSE <<>>
           s == up[c]
<1>1. up'[c] = IF c \in cut THEN s ELSE s \o said \o closed
  BY DEF Sends
<1>2. s \in Seq(Frames)
  BY DEF WireOK
<1>3. said \in Seq(Frames) /\ closed \in Seq(Frames)
  <2>1. Frame("close") \in Frames
    BY DEF Frames
  <2> QED BY <2>1
<1>4. CASE c \in cut
  BY <1>1, <1>4 DEF WireGrows
<1>5. CASE c \notin cut
  <2>1. \A k \in DOMAIN said : MaySay(c, said[k])
    BY <1>5
  <2>2. \A k \in DOMAIN closed : MaySay(c, closed[k])
    BY DEF MaySay, InUse, Frame
  <2>s. s = up[c]
    OBVIOUS
  <2>3. up'[c] = s \o said \o closed
    BY <1>1, <1>5
  <2> HIDE DEF said, closed, s
  <2>4. /\ s \o said \in Seq(Frames)
        /\ DOMAIN (s \o said) = 1..Len(s) + Len(said) /\ Len(s \o said) = Len(s) + Len(said)
        /\ \A i \in 1..Len(s) + Len(said) :
              (s \o said)[i] = IF i <= Len(s) THEN s[i] ELSE said[i - Len(s)]
    BY <1>2, <1>3
  <2> DEFINE t == s \o said
  <2>t. t \in Seq(Frames)
    BY <2>4
  <2>5. /\ Len(t) = Len(s) + Len(said)
        /\ \A i \in 1..Len(t) : t[i] = IF i <= Len(s) THEN s[i] ELSE said[i - Len(s)]
    BY <2>4
  <2>6. up'[c] = t \o closed
    BY <2>3
  <2> HIDE DEF t
  <2>7. /\ DOMAIN (t \o closed) = 1..Len(t) + Len(closed)
        /\ \A i \in 1..Len(t) + Len(closed) :
              (t \o closed)[i] = IF i <= Len(t) THEN t[i] ELSE closed[i - Len(t)]
    BY <1>3, <2>t
  <2>8. /\ Len(s) \in Nat /\ Len(said) \in Nat /\ Len(closed) \in Nat /\ Len(t) \in Nat
        /\ DOMAIN s = 1..Len(s) /\ DOMAIN said = 1..Len(said)
        /\ DOMAIN closed = 1..Len(closed)
    BY <1>2, <1>3, <2>t
  <2>9. ASSUME NEW i \in DOMAIN s PROVE i \in DOMAIN up'[c] /\ up'[c][i] = s[i]
    BY <2>5, <2>6, <2>7, <2>8
  <2>10. ASSUME NEW i \in DOMAIN up'[c], i \notin DOMAIN s PROVE MaySay(c, up'[c][i])
    <3>1. i \in 1..Len(t) + Len(closed) /\ i > Len(s)
      BY <2>6, <2>7, <2>8, <2>10
    <3>2. CASE i <= Len(t)
      <4>1. i - Len(s) \in DOMAIN said
        BY <2>5, <2>8, <3>1, <3>2
      <4>2. up'[c][i] = said[i - Len(s)]
        BY <2>5, <2>6, <2>7, <2>8, <3>1, <3>2
      <4> QED BY <2>1, <4>1, <4>2
    <3>3. CASE ~(i <= Len(t))
      <4>1. i - Len(t) \in DOMAIN closed
        BY <2>8, <3>1, <3>3
      <4>2. up'[c][i] = closed[i - Len(t)]
        BY <2>6, <2>7, <3>1, <3>3
      <4> QED BY <2>2, <4>1, <4>2
    <3> QED BY <3>2, <3>3
  <2> QED BY <2>9, <2>10, <2>s DEF WireGrows
<1> QED BY <1>4, <1>5

\* The wire only grows on the client's side.
LEMMA ClientGrows ==
    ASSUME PageInv, WireOK, spoken \in 0..MaxChunks, ClientStep, NEW c \in Conns
    PROVE  WireGrows(c)
<1> USE DEF history, clientVars, netVars
<1>1. /\ <<>> \in Seq(Frames) /\ <<Frame("config")>> \in Seq(Frames)
      /\ <<Frame("stop")>> \in Seq(Frames) /\ <<Frame("discard")>> \in Seq(Frames)
      /\ <<Frame("config"), Frame("stop")>> \in Seq(Frames)
  BY DEF Frames
<1>2. /\ \A k \in DOMAIN <<Frame("config")>> : MaySay(c, <<Frame("config")>>[k])
      /\ \A k \in DOMAIN <<Frame("stop")>> : MaySay(c, <<Frame("stop")>>[k])
      /\ \A k \in DOMAIN <<Frame("config"), Frame("stop")>> :
            MaySay(c, <<Frame("config"), Frame("stop")>>[k])
  <2>1. MaySay(c, Frame("config")) /\ MaySay(c, Frame("stop"))
    BY DEF MaySay, Frame
  <2> QED BY <2>1
<1>3. sock \in [Conns -> Sockets]
  BY DEF PageInv
<1>4. ASSUME NEW on, NEW closing,
             NEW frames \in {<<>>, <<Frame("config")>>, <<Frame("stop")>>,
                             <<Frame("config"), Frame("stop")>>},
             Sends(on, frames, closing),
             InUse(c) /\ c \in closing => sock'[c].ready \in {"closing", "closed"}
      PROVE  WireGrows(c)
  <2>1. frames \in Seq(Frames)
    BY <1>1
  <2>2. \A k \in DOMAIN frames : MaySay(c, frames[k])
    BY <1>2
  <2> QED BY <1>4, <2>1, <2>2, SendsGrow
<1>5. ASSUME NEW S, sock' = Socks(S), InUse(c), c \in S
      PROVE  sock'[c].ready \in {"closing", "closed"}
  BY <1>3, <1>5, SocksCloses
<1>6. UNCHANGED up => WireGrows(c)
  BY DEF WireGrows
<1>7. CASE MediaFails \/ CancelRecording
  <2>1. PICK S : sock' = Socks(S) /\ Sends(cl.ws, Discards(cl), S)
    BY <1>7 DEF MediaFails, CancelRecording
  <2>2. CASE Discards(cl) = <<>>
    BY <1>4, <1>5, <2>1, <2>2
  <2>3. CASE Discards(cl) = <<Frame("discard")>>
    <3>1. MaySay(c, Frame("discard"))
      BY <1>7 DEF MaySay, Frame
    <3>2. \A k \in DOMAIN <<Frame("discard")>> : MaySay(c, <<Frame("discard")>>[k])
      BY <3>1
    <3> QED BY <1>1, <1>5, <2>1, <2>3, <3>2, SendsGrow
  <2> QED BY <2>2, <2>3 DEF Discards
<1>8. CASE Speak
  <2>1. spoken + 1 \in Chunks
    BY <1>8 DEF Speak, Chunks
  <2>2. <<Pcm(spoken + 1)>> \in Seq(Frames)
    BY <2>1 DEF Frames
  <2>3. CASE cl.mic = "stream" /\ IsOpen(cl)
    <3> DEFINE frames == <<Pcm(spoken + 1)>>
    <3>1. frames \in Seq(Frames) /\ Sends(cl.ws, frames, {})
      BY <1>8, <2>2, <2>3 DEF Speak
    <3>2. c = cl.ws /\ c \notin cut => MaySay(c, Pcm(spoken + 1))
      BY <1>8, <2>3 DEF MaySay
    <3>3. c = cl.ws /\ c \notin cut => \A k \in DOMAIN frames : MaySay(c, frames[k])
      BY <3>2
    <3> HIDE DEF frames
    <3> QED BY <3>1, <3>3, SendsGrow
  <2>4. CASE ~(cl.mic = "stream" /\ IsOpen(cl))
    <3>1. Sends(cl.ws, <<>>, {})
      BY <1>8, <2>4 DEF Speak
    <3> QED BY <1>4, <3>1
  <2> QED BY <2>3, <2>4
<1>9. CASE SocketFailed \/ GraphFails \/ StopOffline \/ StopOnline
  <2>1. PICK S, on : \E frames \in {<<>>, <<Frame("stop")>>} :
           sock' = Socks(S) /\ Sends(on, frames, S)
    <3>1. CASE SocketFailed \/ GraphFails
      BY <3>1 DEF SocketFailed, GraphFails, GoLocal
    <3>2. CASE StopOffline
      BY <3>2 DEF StopOffline
    <3>3. CASE StopOnline
      BY <3>3 DEF StopOnline
    <3> QED BY <1>9, <3>1, <3>2, <3>3
  <2> QED BY <1>4, <1>5, <2>1
<1>10. CASE GraphReady
  <2>1. PICK frames \in {<<>>, <<Frame("config")>>} : Sends(cl.ws, frames, {})
    BY <1>10 DEF GraphReady
  <2> QED BY <1>4, <2>1
<1>11. CASE CloseTab
  <2> DEFINE Up == {d \in Conns : sock[d].ready \in {"connecting", "open"}}
  <2>1. PICK frames \in {<<>>, <<Frame("stop")>>} : Sends(cl.ws, frames, Up)
    BY <1>11 DEF CloseTab
  <2>2. c \in Up => sock'[c].ready = "closed"
    BY <1>3, <1>11 DEF CloseTab, Sockets
  <2> QED BY <1>4, <2>1, <2>2
<1>12. CASE \E d \in Conns : DeliverTimeout(d) \/ OnDone(d) \/ OnError(d) \/ OnBusy(d)
  <2>1. UNCHANGED <<up, sock>> \/ \E S : sock' = Socks(S) /\ Sends(Nobody, <<>>, S)
    BY <1>12 DEF DeliverTimeout, OnDone, OnError, OnBusy, Over
  <2> QED BY <1>4, <1>5, <1>6, <2>1
<1>13. CASE \E d \in Conns, late \in BOOLEAN : OnClose(d, late)
  <2>1. PICK d \in Conns, late \in BOOLEAN : OnClose(d, late)
    BY <1>13
  <2>2. PICK S : sock' = [Socks(S) EXCEPT ![d].ready = "closed"] /\ Sends(Nobody, <<>>, S)
    BY <2>1 DEF OnClose
  <2>3. InUse(c) /\ c \in S => sock'[c].ready \in {"closing", "closed"}
    BY <1>3, <2>2 DEF Socks, Sockets, InUse
  <2> QED BY <1>4, <2>2, <2>3
<1>14. CASE \E d \in Conns : OnOpen(d)
  <2>1. PICK d \in Conns : OnOpen(d)
    BY <1>14
  <2>2. \/ UNCHANGED up
        \/ \E frames \in {<<Frame("config")>>, <<Frame("config"), Frame("stop")>>} :
              Sends(d, frames, {})
        \/ sock' = Socks({d}) /\ Sends(Nobody, <<>>, {d})
    BY <2>1 DEF OnOpen
  <2> QED BY <1>4, <1>5, <1>6, <2>2
<1>15. CASE \/ MediaAcquired \/ OpenTimeout \/ SocketOpened \/ Ready
            \/ StopLocal \/ LocalSaved \/ StopUndelivered \/ BackToIdle
            \/ \E d \in Conns : StartRecording(d) \/ Retry(d) \/ DeliverStop(d) \/ OnOther(d)
  <2>1. UNCHANGED up
    BY <1>15 DEF MediaAcquired, OpenTimeout, SocketOpened, Ready, StopLocal, LocalSaved,
       StopUndelivered, BackToIdle, StartRecording, Retry, DeliverStop, OnOther
  <2> QED BY <1>6, <2>1
<1> QED
  BY <1>7, <1>8, <1>9, <1>10, <1>11, <1>12, <1>13, <1>14, <1>15 DEF ClientStep

\* Frames leave the wire in order, at most one at a time, or are lost at its end.
LEMMA NetWire ==
    ASSUME WireOK, NetStep, NEW d \in Conns
    PROVE  \E k \in {0, 1} : \A i \in DOMAIN up'[d] :
              i + k \in DOMAIN up[d] /\ up'[d][i] = up[d][i + k]
<1>1. up[d] \in Seq(Frames)
  BY DEF WireOK
<1>2. CASE up'[d] = up[d]
  <2>1. \A i \in DOMAIN up'[d] : i + 0 \in DOMAIN up[d] /\ up'[d][i] = up[d][i + 0]
    BY <1>1, <1>2
  <2> QED BY <2>1
<1>3. CASE up[d] # <<>> /\ up'[d] = Tail(up[d])
  <2>1. \A i \in DOMAIN Tail(up[d]) : i + 1 \in DOMAIN up[d] /\ Tail(up[d])[i] = up[d][i + 1]
    BY <1>1, <1>3
  <2> QED BY <1>3, <2>1
<1>4. CASE \E n \in 0..Len(up[d]) : up'[d] = SubSeq(up[d], 1, n)
  <2>1. PICK n \in 0..Len(up[d]) : up'[d] = SubSeq(up[d], 1, n)
    BY <1>4
  <2>2. \A i \in DOMAIN SubSeq(up[d], 1, n) :
          i + 0 \in DOMAIN up[d] /\ SubSeq(up[d], 1, n)[i] = up[d][i + 0]
    BY <1>1, <2>1
  <2> QED BY <2>1, <2>2
<1>5. ASSUME NEW c \in Conns, up[c] # <<>>, up' = [up EXCEPT ![c] = Tail(@)]
      PROVE  up'[d] = up[d] \/ (up[d] # <<>> /\ up'[d] = Tail(up[d]))
  BY <1>5 DEF WireOK
<1>6. ASSUME NEW c \in Conns, Cut(c)
      PROVE  up'[d] = up[d] \/ \E n \in 0..Len(up[d]) : up'[d] = SubSeq(up[d], 1, n)
  <2>1. PICK n \in 0..Len(up[c]) : up' = [up EXCEPT ![c] = SubSeq(@, 1, n)]
    BY <1>6 DEF Cut
  <2> QED BY <2>1 DEF WireOK
<1>7. CASE \E c \in Conns : Cut(c)
  BY <1>2, <1>4, <1>6, <1>7
<1>8. CASE ~\E c \in Conns : Cut(c)
  <2>1. UNCHANGED up \/ \E c \in Conns : up[c] # <<>> /\ up' = [up EXCEPT ![c] = Tail(@)]
    BY <1>8 DEF NetStep, ReceiveDelete, DeleteLost, GraceEnds, Accept, ReceiveChunk,
       ReceiveConfig, ReceiveStop, AnswerStop, ReceiveDiscard, ReceiveClose, Took, netVars
  <2> QED BY <1>2, <1>3, <1>5, <2>1
<1> QED BY <1>7, <1>8

LEMMA NetSaysNothing ==
    ASSUME WireOK, NetStep, NEW c \in Conns
    PROVE  /\ HasAudio(c)' => HasAudio(c)
           /\ \A kind : Says(c, kind)' => Says(c, kind)
  BY NetWire DEF HasAudio, Says

-----------------------------------------------------------------------------
(* A local recording, and one that has not begun, sends no audio.          *)

Early == {"none", "media", "open", "graph"}

\* Where the microphone leads.
MicMoves ==
    /\ cl'.start \in Early => cl.start \in Early /\ cl'.mic \in {cl.mic, "off"}
    /\ cl'.mic = "local" => cl.mic = "local" \/ cl.start \in Early
    /\ cl'.mic = "stream" => cl.mic = "stream" \/ cl.start = "graph"
    /\ cl'.stop = "local" => cl.stop = "local" \/ cl.mic = "local"
    /\ "local" \in endings' => "local" \in endings \/ (cl.stop = "local" /\ cl'.mic = "off")
    /\ local' # {} => local # {} \/ cl.mic = "local"

LEMMA LostMic ==
    ASSUME NEW k \in Client, NEW late \in BOOLEAN
    PROVE  Lost(k, late).mic = k.mic
  BY DEF Lost, LoopCancelled, Client

LEMMA MicMovesStep ==
    ASSUME PageInv, ClientStep
    PROVE  MicMoves
<1> USE DEF history, clientVars, Early
<1>1. cl \in Client
  BY DEF PageInv
<1>2. ASSUME cl'.start = cl.start, cl'.mic \in {cl.mic, "off"},
             cl'.stop = cl.stop \/ cl'.stop # "local",
             endings' = endings, local' \in {local, {}}
      PROVE  MicMoves
  BY <1>2 DEF MicMoves
<1>3. CASE MediaFails \/ MediaAcquired \/ OpenTimeout \/ SocketOpened
  BY ZenonT(30), <1>1, <1>3 DEF MicMoves, MediaFails, MediaAcquired, OpenTimeout, SocketOpened, Client
<1>4. CASE SocketFailed \/ GraphFails \/ GraphReady \/ Ready
  BY ZenonT(30), <1>1, <1>4 DEF MicMoves, SocketFailed, GraphFails, GoLocal, GraphReady, Ready, Client
<1>5. CASE Speak \/ BackToIdle \/ \E c \in Conns : OnOther(c)
  BY <1>1, <1>5 DEF MicMoves, Speak, BackToIdle, OnOther, Client
<1>6. CASE StopLocal \/ StopUndelivered
  BY ZenonT(30), <1>1, <1>6 DEF MicMoves, StopLocal, StopUndelivered, Client
<1>7. CASE LocalSaved
  BY <1>1, <1>7 DEF MicMoves, LocalSaved, Quiet, Client, PageInv, StartedInOrder
<1>8. CASE StopOnline \/ StopOffline
  BY ZenonT(30), <1>1, <1>2, <1>8 DEF StopOnline, StopOffline, Quiet, Ungapped, LoopCancelled, Client
<1>9. ASSUME NEW ui \in {"idle", "done", "cancelling", "gone"},
             cl' = [Reset(cl) EXCEPT !.ui = ui]
      PROVE  cl'.start = cl.start /\ cl'.stop = cl.stop /\ cl'.mic = "off"
  BY <1>9, ResetPage DEF PageInv, AudioOff
<1>10. CASE CloseTab
  BY <1>9, <1>10 DEF MicMoves, CloseTab
<1>11. CASE CancelRecording
  BY <1>9, <1>11 DEF MicMoves, CancelRecording
<1>12. ASSUME NEW ui \in {"idle", "done"}, NEW result \in {"done", "error", "busy"},
              Over(ui, result)
       PROVE  MicMoves
  BY <1>9, <1>12 DEF MicMoves, Over
<1>13. CASE \E c \in Conns : OnDone(c) \/ OnError(c)
  BY <1>12, <1>13 DEF OnDone, OnError
<1>14. CASE \E c \in Conns : OnBusy(c)
  BY <1>1, <1>12, <1>14 DEF OnBusy, MicMoves, Client
<1>15. CASE \E c \in Conns :
               StartRecording(c) \/ Retry(c) \/ DeliverStop(c) \/ DeliverTimeout(c)
  <2>1. CASE \E c \in Conns : StartRecording(c)
    BY ZenonT(30), <1>1, <2>1 DEF MicMoves, StartRecording, Client
  <2>2. CASE \E c \in Conns : Retry(c)
    BY ZenonT(30), <1>1, <2>2 DEF MicMoves, Retry, Client
  <2>3. CASE \E c \in Conns : DeliverStop(c) \/ DeliverTimeout(c)
    BY ZenonT(30), <1>1, <2>3 DEF MicMoves, DeliverStop, DeliverTimeout, Client
  <2> QED BY <1>15, <2>1, <2>2, <2>3
<1>16. ASSUME NEW c \in Conns, OnOpen(c) PROVE MicMoves
  <2>1. UNCHANGED <<local, endings>>
    BY <1>16 DEF OnOpen
  <2> QED BY <1>2, <1>16, <2>1, OpenPage
<1>17. ASSUME NEW c \in Conns, NEW late \in BOOLEAN, OnClose(c, late) PROVE MicMoves
  <2> DEFINE k == Lost(cl, late)
             m == [k EXCEPT !.probe = IF @ = c THEN Nobody ELSE @]
  <2>1. k \in Client /\ k.mic = cl.mic
    BY <1>1, LostPage, LostMic
  <2> HIDE DEF k
  <2>2. m \in Client /\ m.mic = k.mic
    BY <2>1 DEF Client
  <2> HIDE DEF m
  <2>3. Lost(m, late).mic = m.mic
    BY <2>2, LostMic
  <2>4. \/ cl' = k \/ cl' = Lost(m, late)
        \/ cl' = [cl EXCEPT !.opened = IF @ = "pending" THEN "no" ELSE @]
        \/ cl' = [cl EXCEPT !.stop = "undelivered"]
    BY <1>17 DEF OnClose, k, m
  <2>5. cl'.mic = cl.mic
    BY <1>1, <2>1, <2>2, <2>3, <2>4 DEF Client
  <2>6. UNCHANGED <<local, endings>> /\ cl'.start = cl.start
    BY <1>17, ClosePage DEF OnClose
  <2>7. cl'.stop = cl.stop \/ cl'.stop = "undelivered"
    BY <1>17, ClosePage
  <2> QED BY <1>2, <2>5, <2>6, <2>7
<1> QED
  BY <1>3, <1>4, <1>5, <1>6, <1>7, <1>8, <1>10, <1>11, <1>13, <1>14, <1>15, <1>16, <1>17
  DEF ClientStep

\* A session without chunks has no audio to make a task of.
LEMMA NoAudioNoTask ==
    ASSUME SessionInv, EveryChunkHasOneFate, sent = 0
    PROVE  ~CreatesTask
<1> SUFFICES ASSUME CreatesTask PROVE FALSE
  OBVIOUS
<1>1. rec \in Recordings /\ rec # NoRec /\ FinalAudio(rec) # <<>>
  BY DEF SessionInv, CreatesTask, Live, TypeOK
<1>2. /\ FinalAudio(rec) \in {rec.written, rec.pending}
      /\ rec.written \in Seq(Chunks) /\ rec.pending \in Seq(Chunks)
  BY <1>1 DEF FinalAudio, Recordings
<1>3. AudioOf(rec) = Range(rec.written) \cup Range(rec.pending)
  BY <1>1, <1>2, RangeOfConcat DEF AudioOf, Audio
<1>4. ASSUME NEW s \in Seq(Chunks), s # <<>> PROVE Range(s) # {}
  <2>1. 1 \in DOMAIN s
    BY <1>4
  <2> QED BY <2>1 DEF Range
<1>5. AudioOf(rec) # {}
  BY <1>1, <1>2, <1>3, <1>4
<1>6. AudioOf(rec) \subseteq 1..sent
  BY DEF EveryChunkHasOneFate
<1> QED BY <1>5, <1>6

\* A task needs audio.
LEMMA DoneNeedsAudio ==
    ASSUME SessionInv, EveryChunkHasOneFate, NetStep, sent = 0, NEW c \in Conns,
           reply[c] # "done"
    PROVE  reply'[c] # "done"
<1>1. SUFFICES ASSUME reply'[c] = "done" PROVE FALSE
  OBVIOUS
<1>2. TypeOK
  BY DEF SessionInv
<1>3. Accept(c) \/ ReceiveStop(c) \/ AnswerStop(c) \/ ReceiveDiscard(c)
  BY <1>1, <1>2, WhoAnswers
<1>4. CreatesTask
  BY <1>1, <1>2, <1>3 DEF Accept, BeginSession, ResumeSession, StartSession, AdoptSession,
     RejectBusy, ReceiveStop, AnswerStop, Stop, StopStreaming, FinishStop, Finalize,
     ReceiveDiscard, Discard, Send, TypeOK
<1> QED BY <1>4, NoAudioNoTask

\* As long as nothing was heard, nothing is: the server and the network.
LEMMA NetStaysMute ==
    ASSUME ProtocolInv, SessionInv, EveryChunkHasOneFate, NetStep, Mute
    PROVE  Mute'
<1>1. ASSUME NEW c \in Conns PROVE ~HasAudio(c)' /\ reply'[c] # "done"
  BY NetSaysNothing, DoneNeedsAudio DEF ProtocolInv, Mute
<1>2. ASSUME NEW c \in Conns, ReceiveChunk(c) PROVE FALSE
  <2>1. 1 \in DOMAIN up[c] /\ up[c][1].kind = "pcm"
    BY <1>2 DEF ReceiveChunk, Took, ProtocolInv, WireOK
  <2> QED BY <2>1 DEF Mute, HasAudio
<1>3. sent' = sent
  BY <1>2, NetCounts
<1> QED BY <1>1, <1>3 DEF Mute

\* A recording that is local or has not begun.
Silent ==
    \/ cl.mic = "local" \/ cl.stop = "local" \/ "local" \in endings \/ local # {}
    \/ cl.start \in Early
    \/ \E c \in Conns : Says(c, "discard")

LEMMA LocalStep ==
    ASSUME ProtocolInv, ProtocolInv', SessionInv, EveryChunkHasOneFate, LocalIsMute,
           Uncancelled', ClientStep \/ NetStep
    PROVE  LocalIsMute'
<1>1. /\ Silent => Mute
      /\ cl.start \in Early => cl.mic = "off" /\ local = {}
      /\ cl.mic = "stream" => local = {} /\ cl.stop # "local" /\ "local" \notin endings
  BY DEF LocalIsMute, Silent, Early
<1>2. SUFFICES /\ Silent' => Mute'
               /\ cl'.start \in Early => cl'.mic = "off" /\ local' = {}
               /\ cl'.mic = "stream" =>
                     local' = {} /\ cl'.stop # "local" /\ "local" \notin endings'
  BY DEF LocalIsMute, Silent, Early
<1>3. CASE NetStep
  <2>1. UNCHANGED <<cl, local, endings>>
    BY <1>3, NetLeavesPage
  <2>2. Silent' => Silent
    BY <1>3, <2>1, NetSaysNothing DEF Silent, ProtocolInv
  <2> QED BY <1>1, <1>3, <2>1, <2>2, NetStaysMute
<1>4. CASE ClientStep
  <2>1. MicMoves /\ StartedInOrder /\ cl \in Client /\ Uncancelled /\ UNCHANGED vars
    BY <1>4, MicMovesStep, GoingEnds, ClientLeavesServer DEF ProtocolInv, PageInv
  <2>2. cl'.start \in Early => cl'.mic = "off" /\ local' = {}
    BY <1>1, <2>1 DEF MicMoves
  <2>3. ASSUME cl'.mic = "stream"
        PROVE  local' = {} /\ cl'.stop # "local" /\ "local" \notin endings'
    <3>1. local = {} /\ cl.stop # "local" /\ "local" \notin endings
      BY <1>1, <2>1, <2>3 DEF MicMoves, StartedInOrder, Early
    <3>2. cl.mic # "local"
      BY <1>1, <2>1, <2>3 DEF MicMoves, Early
    <3> QED BY <2>1, <3>1, <3>2 DEF MicMoves
  <2>4. ASSUME Silent' PROVE Mute'
    <3>1. CASE Speak /\ cl.mic = "stream"
      <4>1. Going' /\ cl' = cl /\ endings' = endings /\ local' = local
        BY <2>1, <3>1, StreamsWhileGoing DEF Speak, ProtocolInv, Going, Uncancelled
      <4>2. CalmWire'
        BY <4>1 DEF ProtocolInv, Undisturbed
      <4>3. \A c \in Conns : ~Says(c, "discard")'
        <5> SUFFICES ASSUME NEW c \in Conns, NEW i \in DOMAIN up'[c] PROVE up'[c][i].kind # "discard"
          BY DEF Says
        <5>1. up'[c][i] \in CalmFrames
          BY <4>2 DEF CalmWire
        <5> QED BY <5>1 DEF CalmFrames, Frame, Pcm
      <4>4. ~Silent'
        BY <1>1, <3>1, <4>1, <4>3 DEF Silent
      <4> QED BY <2>4, <4>4
    <3>2. CASE ~(Speak /\ cl.mic = "stream")
      <4>1. ASSUME NEW c \in Conns PROVE HasAudio(c)' => HasAudio(c)
        <5>1. WireGrows(c)
          BY <1>4, ClientGrows DEF ProtocolInv, AudioKept
        <5>2. \A i \in DOMAIN up'[c] : up'[c][i].kind = "pcm" =>
                i \in DOMAIN up[c] /\ up'[c][i] = up[c][i]
          BY <3>2, <5>1 DEF WireGrows, MaySay
        <5> QED BY <5>2 DEF HasAudio
      <4>2. Silent
        <5>1. ASSUME NEW c \in Conns, Says(c, "discard")' PROVE Silent
          <6>1. WireGrows(c)
            BY <1>4, ClientGrows DEF ProtocolInv, AudioKept
          <6>2. PICK i \in DOMAIN up'[c] : up'[c][i].kind = "discard"
            BY <5>1 DEF Says
          <6>3. CASE i \in DOMAIN up[c]
            BY <6>1, <6>2, <6>3 DEF WireGrows, Says, Silent
          <6>4. CASE i \notin DOMAIN up[c]
            <7>1. MediaFails \/ CancelRecording
              BY <6>1, <6>2, <6>4 DEF WireGrows, MaySay, Pcm
            <7>2. ~CancelRecording
              BY DEF CancelRecording, Uncancelled
            <7> QED BY <7>1, <7>2 DEF MediaFails, Silent, Early
          <6> QED BY <6>3, <6>4
        <5> QED BY <2>1, <2>4, <5>1 DEF Silent, MicMoves
      <4> QED BY <1>1, <2>1, <4>1, <4>2 DEF Mute, vars
    <3> QED BY <3>1, <3>2
  <2> QED BY <2>2, <2>3, <2>4
<1> QED BY <1>3, <1>4

-----------------------------------------------------------------------------
(* The last words on a wire.                                               *)

\* Which steps move the handler of a connection.
LEMMA WhoMoves ==
    ASSUME TypeOK, NetStep, NEW c \in Conns, pc'[c] # pc[c]
    PROVE  \/ pc[c] = "accepting" /\ Accept(c)
           \/ pc[c] = "loop" /\ (ReceiveStop(c) \/ ReceiveDiscard(c) \/ ReceiveClose(c))
           \/ pc[c] = "finalizing" /\ AnswerStop(c)
<1> USE DEF TypeOK, Goto
<1>1. ASSUME NEW d \in Conns, Accept(d) PROVE d = c /\ pc[c] = "accepting"
  BY <1>1 DEF Accept, BeginSession, ResumeSession, StartSession, AdoptSession, RejectBusy
<1>2. ASSUME NEW d \in Conns, ReceiveStop(d) PROVE d = c /\ pc[c] = "loop"
  BY <1>2 DEF ReceiveStop, Stop, StopStreaming, Finalize
<1>3. ASSUME NEW d \in Conns, AnswerStop(d) PROVE d = c /\ pc[c] = "finalizing"
  BY <1>3 DEF AnswerStop, FinishStop, Finalize
<1>4. ASSUME NEW d \in Conns, ReceiveDiscard(d) PROVE d = c /\ pc[c] = "loop"
  BY <1>4 DEF ReceiveDiscard, Discard
<1>5. ASSUME NEW d \in Conns, ReceiveClose(d) PROVE d = c /\ pc[c] = "loop"
  BY <1>5 DEF ReceiveClose, Disconnect, Leave
<1>6. ASSUME NEW d \in Conns, ReceiveChunk(d) \/ ReceiveConfig(d) \/ Cut(d)
      PROVE  UNCHANGED pc
  BY <1>6 DEF ReceiveChunk, HandleAudioChunk, ReceiveConfig, HandleConfig, Cut, connVars, vars
<1>7. ReceiveDelete \/ DeleteLost \/ GraceEnds => UNCHANGED pc
  BY DEF ReceiveDelete, Delete, DeleteLost, GraceEnds, GraceExpire, connVars, vars
<1> QED BY <1>1, <1>2, <1>3, <1>4, <1>5, <1>6, <1>7 DEF NetStep

\* A connection whose last frame was taken has no audio left on its wire.
LEMMA NothingFollows ==
    ASSUME WireOK, LastWords, NEW c \in Conns,
           ReceiveStop(c) \/ ReceiveDiscard(c) \/ ReceiveClose(c)
    PROVE  ~HasAudio(c)'
<1> DEFINE s == up[c]
<1>1. s \in Seq(Frames)
  BY DEF WireOK
<1>2. CASE c \in cut /\ s = <<>> /\ UNCHANGED up
  BY <1>2 DEF HasAudio
<1>3. CASE s # <<>> /\ s[1].kind \in {"stop", "discard", "close"} /\ up'[c] = Tail(s)
  <2>1. \A j \in DOMAIN s : 1 < j => s[j].kind # "pcm"
    BY <1>1, <1>3 DEF LastWords
  <2>2. \A j \in DOMAIN Tail(s) : j + 1 \in DOMAIN s /\ 1 < j + 1 /\ Tail(s)[j] = s[j + 1]
    BY <1>1, <1>3
  <2>3. ASSUME NEW j \in DOMAIN Tail(s) PROVE Tail(s)[j].kind # "pcm"
    BY <2>1, <2>2
  <2> QED BY <1>3, <2>3 DEF HasAudio
<1> QED BY <1>2, <1>3 DEF ReceiveStop, ReceiveDiscard, ReceiveClose, Took, WireOK

LEMMA LastWordsOfNet ==
    ASSUME ProtocolInv, ProtocolInv', OrderInv, ServerAnswers, LastWords, Uncancelled, NetStep
    PROVE  LastWords'
<1> SUFFICES ASSUME NEW c \in Conns
             PROVE  /\ \A i, j \in DOMAIN up'[c] :
                          i < j /\ up'[c][j].kind = "pcm" => up'[c][i].kind \in {"pcm", "config"}
                    /\ Says(c, "close")' => sock'[c].ready \in {"closing", "closed"}
                    /\ HasAudio(c)' /\ pc'[c] # "loop" => reply'[c] = "busy"
                    /\ Going' /\ pc'[c] = "closed" =>
                          reply'[c] = "busy" \/ c \in cut' \/ ~InUse(c)'
  BY DEF LastWords
<1>1. TypeOK /\ TypeOK' /\ WireOK /\ UNCHANGED <<cl, sock, endings>>
  BY NetLeavesPage DEF ProtocolInv
<1>2. ASSUME NEW i \in DOMAIN up'[c], NEW j \in DOMAIN up'[c], i < j, up'[c][j].kind = "pcm"
      PROVE  up'[c][i].kind \in {"pcm", "config"}
  <2>1. PICK k \in {0, 1} : \A n \in DOMAIN up'[c] :
           n + k \in DOMAIN up[c] /\ up'[c][n] = up[c][n + k]
    BY <1>1, NetWire
  <2>2. i \in Int /\ j \in Int
    BY <1>1 DEF ProtocolInv, WireOK
  <2>3. i + k < j + k
    BY <1>2, <2>2
  <2> QED BY <1>2, <2>1, <2>3 DEF LastWords
<1>3. Says(c, "close")' => sock'[c].ready \in {"closing", "closed"}
  BY <1>1, NetSaysNothing DEF LastWords
<1>4. ASSUME reply[c] = "busy" PROVE reply'[c] = "busy"
  BY <1>1, <1>4, AnswersEnd DEF ServerAnswers, Final
<1>5. ASSUME HasAudio(c)', pc'[c] # "loop" PROVE reply'[c] = "busy"
  <2>1. HasAudio(c) /\ pc[c] # "accepting"
    BY <1>1, <1>5, NetSaysNothing DEF OrderInv, Unheard
  <2>2. CASE pc[c] = "loop"
    BY <1>1, <1>5, <2>2, WhoMoves, NothingFollows
  <2>3. CASE pc[c] # "loop"
    BY <1>4, <2>1, <2>3 DEF LastWords
  <2> QED BY <2>2, <2>3
<1>6. ASSUME Going', pc'[c] = "closed" PROVE reply'[c] = "busy" \/ c \in cut' \/ ~InUse(c)'
  <2>1. Going /\ cut \subseteq cut' /\ (InUse(c)' <=> InUse(c))
    <3>1. cut \subseteq cut'
      BY DEF NetStep, ReceiveDelete, DeleteLost, GraceEnds, Accept, ReceiveChunk,
         ReceiveConfig, ReceiveStop, AnswerStop, ReceiveDiscard, ReceiveClose, Cut, netVars
    <3> QED BY <1>1, <1>6, <3>1 DEF Going, Uncancelled, InUse
  <2>2. CASE pc[c] = "closed"
    BY <1>4, <2>1, <2>2 DEF LastWords
  <2>3. CASE pc[c] # "closed"
    <3>1. Accept(c) \/ ReceiveClose(c)
      BY <1>1, <1>6, <2>1, <2>3, WhoMoves, NothingEndsIt
    <3>2. CASE Accept(c)
      BY <1>1, <1>6, <3>2 DEF Accept, BeginSession, ResumeSession, StartSession,
         AdoptSession, RejectBusy, Goto, Send, TypeOK
    <3>3. CASE ReceiveClose(c)
      <4>1. CASE Took(c, "close")
        <5>1. 1 \in DOMAIN up[c] /\ up[c][1].kind = "close"
          BY <1>1, <4>1 DEF Took, WireOK
        <5>2. sock[c].ready \in {"closing", "closed"}
          BY <5>1 DEF LastWords, Says
        <5> QED BY <2>1, <5>2 DEF InUse
      <4>2. CASE c \in cut
        BY <2>1, <4>2
      <4> QED BY <3>3, <4>1, <4>2 DEF ReceiveClose
    <3> QED BY <3>1, <3>2, <3>3
  <2> QED BY <2>2, <2>3
<1> QED BY <1>2, <1>3, <1>5, <1>6

\* New audio is put on the open socket of a recording that goes on.
LEMMA NewAudio ==
    ASSUME ProtocolInv, Uncancelled', ClientStep, NEW c \in Conns, NEW i \in DOMAIN up'[c],
           i \notin DOMAIN up[c], up'[c][i].kind = "pcm"
    PROVE  /\ Speak /\ cl.mic = "stream" /\ up'[c][i] = Pcm(spoken + 1)
           /\ Going /\ Going' /\ sock' = sock
           /\ c = cl.ws /\ c \notin cut /\ sock[c].ready = "open"
<1>1. Uncancelled /\ WireGrows(c)
  BY GoingEnds, ClientGrows DEF ProtocolInv, AudioKept
<1>2. /\ up'[c][i] = Pcm(spoken + 1) /\ Speak /\ cl.mic = "stream"
      /\ IsOpen(cl) /\ c = cl.ws /\ c \notin cut
  BY <1>1 DEF WireGrows, MaySay
<1>3. Going /\ sock' = sock /\ cl' = cl /\ endings' = endings
  BY <1>1, <1>2, StreamsWhileGoing DEF ProtocolInv, Speak
<1>4. Going'
  BY <1>3 DEF Going, Uncancelled
<1> QED BY <1>2, <1>3, <1>4 DEF IsOpen

LEMMA LastWordsOfClient ==
    ASSUME ProtocolInv, ProtocolInv', OrderInv, SocketsInv, ServerAnswers, LastWords,
           Uncancelled', ClientStep
    PROVE  LastWords'
<1> SUFFICES ASSUME NEW c \in Conns
             PROVE  /\ \A i, j \in DOMAIN up'[c] :
                          i < j /\ up'[c][j].kind = "pcm" => up'[c][i].kind \in {"pcm", "config"}
                    /\ Says(c, "close")' => sock'[c].ready \in {"closing", "closed"}
                    /\ HasAudio(c)' /\ pc'[c] # "loop" => reply'[c] = "busy"
                    /\ Going' /\ pc'[c] = "closed" =>
                          reply'[c] = "busy" \/ c \in cut' \/ ~InUse(c)'
  BY DEF LastWords
<1>1. UNCHANGED <<pc, reply, cut>>
  BY ClientLeavesServer DEF vars
<1>2. SocketsAge /\ WireGrows(c) /\ (Going' => Going)
  BY SocketsStep, GoingEnds, ClientGrows DEF ProtocolInv, AudioKept
<1>3. ASSUME Says(c, "close")' PROVE sock'[c].ready \in {"closing", "closed"}
  <2>1. PICK i \in DOMAIN up'[c] : up'[c][i].kind = "close"
    BY <1>3 DEF Says
  <2>2. CASE i \in DOMAIN up[c]
    <3>1. Says(c, "close")
      BY <1>2, <2>1, <2>2 DEF Says, WireGrows
    <3> QED BY <1>2, <3>1 DEF LastWords, SocketsAge
  <2>3. CASE i \notin DOMAIN up[c]
    BY <1>2, <2>1, <2>3 DEF WireGrows, MaySay, Pcm
  <2> QED BY <2>2, <2>3
<1>4. ASSUME NEW i \in DOMAIN up'[c], NEW j \in DOMAIN up'[c], i < j, up'[c][j].kind = "pcm"
      PROVE  up'[c][i].kind \in {"pcm", "config"}
  <2>1. CASE j \in DOMAIN up[c]
    <3>1. up[c] \in Seq(Frames) /\ up'[c] \in Seq(Frames)
      BY DEF ProtocolInv, WireOK
    <3>2. i \in DOMAIN up[c]
      BY <1>4, <2>1, <3>1
    <3>3. up'[c][i] = up[c][i] /\ up'[c][j] = up[c][j]
      BY <1>2, <2>1, <3>2 DEF WireGrows
    <3> QED BY <1>4, <2>1, <3>2, <3>3 DEF LastWords
  <2>2. CASE j \notin DOMAIN up[c]
    <3>1. Going' /\ sock'[c].ready = "open"
      BY <1>4, <2>2, NewAudio
    <3>2. up'[c] \in Seq(CalmFrames)
      BY <3>1 DEF ProtocolInv, Undisturbed, CalmWire
    <3>3. up'[c][i] \in CalmFrames
      BY <3>2
    <3>4. up'[c][i].kind # "close"
      BY <1>3, <3>1 DEF Says
    <3> QED BY <3>3, <3>4 DEF CalmFrames, Frame, Pcm
  <2> QED BY <2>1, <2>2
<1>5. ASSUME HasAudio(c)', pc'[c] # "loop" PROVE reply'[c] = "busy"
  <2>1. PICK i \in DOMAIN up'[c] : up'[c][i].kind = "pcm"
    BY <1>5 DEF HasAudio
  <2>2. CASE i \in DOMAIN up[c]
    BY <1>1, <1>2, <1>5, <2>1, <2>2 DEF LastWords, HasAudio, WireGrows
  <2>3. CASE i \notin DOMAIN up[c]
    <3>1. Going /\ c \notin cut /\ sock[c].ready = "open"
      BY <2>1, <2>3, NewAudio
    <3>2. pc[c] # "accepting" /\ pc[c] # "finalizing" /\ pc[c] \in Places
      BY <3>1 DEF OrderInv, Unheard, ProtocolInv, Undisturbed, Stopping, TypeOK
    <3>3. pc[c] = "closed" /\ InUse(c)
      BY <1>1, <1>5, <3>1, <3>2 DEF Places, InUse
    <3> QED BY <1>1, <3>1, <3>3 DEF LastWords
  <2> QED BY <2>2, <2>3
<1>6. ASSUME Going', pc'[c] = "closed" PROVE reply'[c] = "busy" \/ c \in cut' \/ ~InUse(c)'
  <2>1. Used(c) /\ Going /\ pc[c] = "closed"
    BY <1>1, <1>2, <1>6 DEF ServerAnswers
  <2> QED BY <1>1, <1>2, <2>1 DEF LastWords, SocketsAge
<1> QED BY <1>3, <1>4, <1>5, <1>6

-----------------------------------------------------------------------------
(* The stop.                                                               *)

LEMMA StopIsLastOfClient ==
    ASSUME ProtocolInv, StopIsLast, Uncancelled', ClientStep
    PROVE  StopIsLast'
<1>1. UNCHANGED vars /\ (Going' => Going)
  BY ClientLeavesServer, GoingEnds DEF ProtocolInv
<1>2. UNCHANGED <<rec, pc, reply, discarded, dropped, failed>>
  BY <1>1 DEF vars
<1>3. ASSUME ~Unstopped, NEW c \in Conns, pc[c] = "loop" PROVE ~HasAudio(c)'
  <2>1. ~Going /\ ~HasAudio(c)
    BY <1>3 DEF StopIsLast
  <2> SUFFICES ASSUME NEW i \in DOMAIN up'[c], up'[c][i].kind = "pcm" PROVE FALSE
    BY DEF HasAudio
  <2>2. CASE i \in DOMAIN up[c]
    <3>1. WireGrows(c)
      BY ClientGrows DEF ProtocolInv, AudioKept
    <3> QED BY <2>1, <2>2, <3>1 DEF WireGrows, HasAudio
  <2>3. CASE i \notin DOMAIN up[c]
    BY <2>1, <2>3, NewAudio
  <2> QED BY <2>2, <2>3
<1>4. Unstopped' <=> Unstopped
  BY <1>2 DEF Unstopped
<1>5. Unstopped' => LoopOwnsSession'
  BY <1>2, <1>4 DEF StopIsLast, LoopOwnsSession, Live
<1>6. ~Unstopped' => ~Going' /\ \A c \in Conns : pc'[c] = "loop" => ~HasAudio(c)'
  BY <1>1, <1>2, <1>3, <1>4 DEF StopIsLast
<1>7. (\E c \in Conns : reply'[c] = "done") => AudioOf(rec') = {}
  BY <1>2 DEF StopIsLast
<1> QED BY <1>2, <1>5, <1>6, <1>7 DEF StopIsLast

\* A recording that is being stopped, or was, is not taken back.
LEMMA StopsForGood ==
    ASSUME "io" \notin Faults, TypeOK, ServerAnswers, NetStep, Unstopped'
    PROVE  Unstopped
<1> SUFFICES ASSUME NEW c \in Conns
             PROVE  pc[c] # "finalizing" /\ reply[c] \notin {"done", "error"}
  BY DEF Unstopped
<1>1. ASSUME reply[c] \in {"done", "error"} PROVE FALSE
  <2>1. pc[c] = "closed"
    BY <1>1 DEF ServerAnswers, Final
  <2>2. reply'[c] = reply[c]
    BY <2>1, AnswersEnd
  <2> QED BY <1>1, <2>2 DEF Unstopped
<1>2. ASSUME pc[c] = "finalizing" PROVE FALSE
  <2>1. pc'[c] # "finalizing"
    BY DEF Unstopped
  <2>2. AnswerStop(c)
    BY <1>2, <2>1, WhoMoves
  <2>3. reply'[c] \in {"done", "error"}
    BY <2>2 DEF AnswerStop, FinishStop, Finalize, FinalizeFails, Send, TypeOK
  <2> QED BY <2>3 DEF Unstopped
<1> QED BY <1>1, <1>2

LEMMA WhoStops ==
    ASSUME TypeOK, NetStep, Unstopped, ~Unstopped'
    PROVE  \E c \in Conns : ReceiveStop(c)
<1>1. PICK c \in Conns : pc'[c] = "finalizing" \/ reply'[c] \in {"done", "error"}
  BY DEF Unstopped
<1>2. pc[c] # "finalizing" /\ reply[c] \notin {"done", "error"}
  BY DEF Unstopped
<1>3. Accept(c) \/ ReceiveStop(c) \/ AnswerStop(c) \/ ReceiveDiscard(c) \/ ReceiveClose(c)
  BY <1>1, <1>2, WhoMoves, WhoAnswers
<1>4. ~AnswerStop(c)
  BY <1>2 DEF AnswerStop, FinishStop
<1>5. ASSUME Accept(c) PROVE FALSE
  BY <1>1, <1>2, <1>5 DEF Accept, BeginSession, ResumeSession, StartSession, AdoptSession,
     RejectBusy, Goto, Send, TypeOK
<1>6. ASSUME ReceiveDiscard(c) \/ ReceiveClose(c) PROVE FALSE
  BY <1>1, <1>2, <1>6 DEF ReceiveDiscard, Discard, ReceiveClose, Disconnect, Leave, Goto,
     Send, TypeOK
<1> QED BY <1>3, <1>4, <1>5, <1>6

\* Audio only arrives before the stop, at a live session.
LEMMA AudioArrives ==
    ASSUME ProtocolInv, StopIsLast, NEW c \in Conns, ReceiveChunk(c)
    PROVE  Unstopped /\ Live
<1>1. 1 \in DOMAIN up[c] /\ up[c][1].kind = "pcm" /\ pc[c] = "loop"
  BY DEF ReceiveChunk, Took, ProtocolInv, WireOK
<1>2. Unstopped
  BY <1>1 DEF StopIsLast, HasAudio
<1> QED BY <1>1, <1>2 DEF StopIsLast, LoopOwnsSession

\* Without an I/O error nothing that was heard is lost on the server.
LEMMA NothingIsLost ==
    ASSUME "io" \notin Faults, ProtocolInv, EveryChunkHasOneFate, LocalIsMute, StopIsLast,
           Uncancelled, NetStep
    PROVE  discarded' = {} /\ dropped' = {} /\ failed' = {}
<1>1. discarded = {} /\ dropped = {} /\ failed = {}
  BY DEF StopIsLast
<1>2. CASE \E c \in Conns : ReceiveDiscard(c)
  <2>1. PICK c \in Conns : ReceiveDiscard(c)
    BY <1>2
  <2>2. 1 \in DOMAIN up[c] /\ up[c][1].kind = "discard"
    BY <2>1 DEF ReceiveDiscard, Took, ProtocolInv, WireOK
  <2>3. sent = 0
    BY <2>2 DEF LocalIsMute, Says, Mute
  <2>4. AudioOf(rec) = {}
    BY <2>3 DEF EveryChunkHasOneFate
  <2> QED BY <1>1, <2>1, <2>4 DEF ReceiveDiscard, Discard, DiscardRecording
<1>3. CASE \E c \in Conns : ReceiveChunk(c)
  BY <1>1, <1>3, AudioArrives DEF ReceiveChunk, HandleAudioChunk
<1>4. CASE \E c \in Conns : ReceiveStop(c) \/ AnswerStop(c)
  BY <1>1, <1>4 DEF ReceiveStop, AnswerStop, Stop, StopStreaming, FinishStop, Finalize,
     FinalizeAudio, FinalizeFails, fates
<1>5. CASE \E c \in Conns : Accept(c) \/ ReceiveConfig(c) \/ ReceiveClose(c) \/ Cut(c)
  BY <1>1, <1>5 DEF Accept, BeginSession, ReceiveConfig, HandleConfig, ReceiveClose,
     Disconnect, Cut, fates, vars
<1>6. ~ReceiveDelete
  BY DEF ReceiveDelete, ProtocolInv, CancelsCounted, Uncancelled
<1>7. CASE DeleteLost \/ GraceEnds
  BY <1>1, <1>7 DEF DeleteLost, GraceEnds, GraceExpire, FinalizeAudio, FinalizeFails,
     fates, vars
<1> QED BY <1>2, <1>3, <1>4, <1>5, <1>6, <1>7 DEF NetStep

\* What becomes of the session once a task was made of it.
LEMMA NoAudioAfterDone ==
    ASSUME "io" \notin Faults, ProtocolInv, SessionInv, OrderInv, StopIsLast, NetStep,
           \E c \in Conns : reply'[c] = "done"
    PROVE  AudioOf(rec') = {}
<1>1. TypeOK /\ TypeOK' /\ [Next]_vars
  BY NetIsServer, TypeStep DEF ProtocolInv
<1>2. PICK c \in Conns : reply'[c] = "done"
  OBVIOUS
<1>3. CASE reply[c] # "done"
  <2>1. ReceiveStop(c) \/ AnswerStop(c)
    <3>1. Accept(c) \/ ReceiveStop(c) \/ AnswerStop(c) \/ ReceiveDiscard(c)
      BY <1>1, <1>2, <1>3, WhoAnswers
    <3>2. ~Accept(c) /\ ~ReceiveDiscard(c)
      BY <1>1, <1>2, <1>3 DEF Accept, BeginSession, ResumeSession, StartSession,
         AdoptSession, RejectBusy, ReceiveDiscard, Discard, Send, TypeOK
    <3> QED BY <3>1, <3>2
  <2>2. rec' = NoRec
    BY <1>1, <1>2, <1>3, <2>1 DEF ReceiveStop, AnswerStop, Stop, StopStreaming, FinishStop,
       Finalize, FinalizeAudio, FinalizeFails
  <2> QED BY <2>2 DEF AudioOf
<1>4. CASE reply[c] = "done"
  <2>1. ~Unstopped /\ AudioOf(rec) = {}
    BY <1>4 DEF Unstopped, StopIsLast
  <2>2. sent' = sent /\ sent \in Nat
    BY <1>1, <2>1, NetCounts, AudioArrives DEF TypeOK
  <2>3. ~Grows
    BY <2>2 DEF Grows
  <2>4. Continues \/ Starts \/ Ends \/ Rests
    BY <1>1, <2>3, EveryStepMoves DEF SessionMoves
  <2>5. CASE Continues
    BY <2>1, <2>5 DEF Continues, Live, AudioOf
  <2>6. CASE Starts
    BY <2>6, RangeOfEmpty DEF Starts, AudioOf
  <2>7. CASE Ends \/ Rests
    BY <2>7 DEF Ends, Rests, AudioOf
  <2> QED BY <2>4, <2>5, <2>6, <2>7
<1> QED BY <1>3, <1>4

LEMMA StopIsLastOfNet ==
    ASSUME "io" \notin Faults, ProtocolInv, SessionInv, EveryChunkHasOneFate, OrderInv,
           ServerAnswers, LocalIsMute, StopIsLast, Uncancelled, NetStep
    PROVE  StopIsLast'
<1>1. TypeOK /\ WireOK /\ [Next]_vars /\ UNCHANGED <<cl, endings>>
  BY NetIsServer, NetLeavesPage DEF ProtocolInv
<1>2. Going' <=> Going
  BY <1>1 DEF Going, Uncancelled
<1>3. ASSUME Unstopped PROVE OwnerInv /\ ~ReceiveDelete
  BY <1>3 DEF StopIsLast, OwnerInv, ProtocolInv, Unstopped, Stopping, ReceiveDelete,
     CancelsCounted, Uncancelled
<1>4. ASSUME Unstopped' PROVE LoopOwnsSession'
  <2>1. Unstopped
    BY <1>1, <1>4, StopsForGood
  <2>2. ASSUME NEW c \in Conns PROVE ~AnswerStop(c) /\ (ReceiveStop(c) => Stop(c))
    <3>1. ~AnswerStop(c)
      BY <2>1 DEF Unstopped, AnswerStop, FinishStop
    <3>2. ASSUME StopStreaming(c) PROVE FALSE
      BY <1>1, <1>4, <3>2 DEF StopStreaming, Goto, TypeOK, Unstopped
    <3> QED BY <3>1, <3>2 DEF ReceiveStop
  <2>3. ASSUME NEW c \in Conns,
               \/ Accept(c) \/ ReceiveChunk(c) \/ ReceiveConfig(c) \/ ReceiveStop(c)
               \/ AnswerStop(c) \/ ReceiveDiscard(c) \/ ReceiveClose(c) \/ Cut(c)
        PROVE  OwnerNext \/ UNCHANGED vars
    BY <2>2, <2>3 DEF Accept, ReceiveChunk, ReceiveConfig, ReceiveDiscard, ReceiveClose, Cut,
       OwnerNext
  <2>4. OwnerNext \/ UNCHANGED vars
    BY <1>3, <2>1, <2>3 DEF NetStep, DeleteLost, GraceEnds, OwnerNext
  <2> QED BY <1>3, <2>1, <2>4, OwnerKept DEF OwnerInv
<1>5. ASSUME ~Unstopped'
      PROVE  ~Going' /\ \A c \in Conns : pc'[c] = "loop" => ~HasAudio(c)'
  <2>1. ASSUME NEW c \in Conns, pc'[c] = "loop", HasAudio(c)'
        PROVE  pc[c] = "loop" /\ HasAudio(c)
    BY <1>1, <2>1, NetSaysNothing, PlacesMove DEF OrderInv, Unheard
  <2>2. CASE ~Unstopped
    BY <1>2, <2>1, <2>2 DEF StopIsLast
  <2>3. CASE Unstopped
    <3>1. PICK d \in Conns : ReceiveStop(d)
      BY <1>1, <1>5, <2>3, WhoStops
    <3>2. pc[d] = "loop" /\ pc'[d] # "loop"
      BY <1>1, <3>1 DEF ReceiveStop, Took, Stop, StopStreaming, Finalize, Goto, TypeOK
    <3>3. \A c \in Conns : pc[c] = "loop" => c = d
      BY <2>3, <3>2 DEF StopIsLast, LoopOwnsSession
    <3> QED BY <1>2, <2>1, <3>1, <3>2, <3>3, NothingEndsIt
  <2> QED BY <2>2, <2>3
<1>6. (\E c \in Conns : reply'[c] = "done") => AudioOf(rec') = {}
  BY NoAudioAfterDone
<1> QED BY <1>4, <1>5, <1>6, NothingIsLost DEF StopIsLast

-----------------------------------------------------------------------------
(* Where the audio is.                                                     *)

LEMMA UnitsOfTail ==
    ASSUME NEW s \in Seq(Frames), s # <<>>
    PROVE  /\ Units(s) \subseteq Units(Tail(s)) \cup {Head(s).unit}
           /\ Head(s).kind # "pcm" => Units(s) \subseteq Units(Tail(s))
<1> DEFINE t == Tail(s)
<1>1. ASSUME NEW i \in DOMAIN s, i # 1
      PROVE  i - 1 \in DOMAIN t /\ t[i - 1] = s[i]
  BY <1>1
<1>2. s[1] = Head(s)
  OBVIOUS
<1> HIDE DEF t
<1>3. ASSUME NEW i \in DOMAIN s, s[i].kind = "pcm"
      PROVE  s[i].unit \in Units(t) \/ (i = 1 /\ s[i].unit = Head(s).unit)
  <2>1. CASE i # 1
    <3>1. i - 1 \in DOMAIN t /\ t[i - 1].kind = "pcm" /\ t[i - 1].unit = s[i].unit
      BY <1>1, <1>3, <2>1
    <3> QED BY <3>1 DEF Units
  <2> QED BY <1>2, <2>1
<1>4. \A x \in Units(s) : \E i \in DOMAIN s : s[i].kind = "pcm" /\ x = s[i].unit
  BY DEF Units
<1> QED BY <1>2, <1>3, <1>4 DEF t

LEMMA UnitsSplit ==
    ASSUME NEW s \in Seq(Frames), NEW n \in 0..Len(s)
    PROVE  Units(s) \subseteq Units(SubSeq(s, 1, n)) \cup Units(SubSeq(s, n + 1, Len(s)))
<1> DEFINE a == SubSeq(s, 1, n)
           b == SubSeq(s, n + 1, Len(s))
<1>1. /\ DOMAIN a = 1..n /\ \A i \in 1..n : a[i] = s[i]
      /\ DOMAIN b = 1..Len(s) - n /\ \A i \in 1..Len(s) - n : b[i] = s[n + i]
      /\ DOMAIN s = 1..Len(s) /\ Len(s) \in Nat
  OBVIOUS
<1> HIDE DEF a, b
<1>2. ASSUME NEW i \in DOMAIN s, s[i].kind = "pcm" PROVE s[i].unit \in Units(a) \cup Units(b)
  <2>1. CASE i <= n
    BY <1>1, <1>2, <2>1 DEF Units
  <2>2. CASE ~(i <= n)
    <3>1. i - n \in DOMAIN b /\ b[i - n] = s[i]
      BY <1>1, <2>2
    <3> QED BY <1>2, <3>1 DEF Units
  <2> QED BY <2>1, <2>2
<1> QED BY <1>2 DEF Units, a, b

\* What the client's steps make of its audio.
LEMMA AudioRests ==
    ASSUME ClientStep, endings' \subseteq {"done"}
    PROVE  \/ Speak
           \/ UNCHANGED <<gap, local, saved, missing, spoken, endings>>
           \/ \E c \in Conns : OnDone(c)
<1> USE DEF history, clientVars
<1>1. CASE \/ MediaFails \/ MediaAcquired \/ OpenTimeout \/ SocketOpened
           \/ SocketFailed \/ GraphFails \/ GraphReady \/ Ready
  BY <1>1 DEF MediaFails, MediaAcquired, OpenTimeout, SocketOpened, SocketFailed,
     GraphFails, GoLocal, GraphReady, Ready
<1>2. CASE StopLocal \/ StopOnline \/ StopOffline \/ BackToIdle
  BY <1>2 DEF StopLocal, StopOnline, StopOffline, BackToIdle
<1>3. CASE \E c \in Conns :
              \/ StartRecording(c) \/ Retry(c) \/ DeliverStop(c) \/ DeliverTimeout(c)
              \/ OnOpen(c) \/ OnOther(c) \/ \E late \in BOOLEAN : OnClose(c, late)
  BY ZenonT(30), <1>3 DEF StartRecording, Retry, DeliverStop, DeliverTimeout, OnOpen, OnOther, OnClose
<1>4. CASE LocalSaved \/ StopUndelivered \/ CancelRecording \/ CloseTab
  <2>1. \E e \in {"local", "undelivered", "cancelled", "abandoned", "gone"} : e \in endings'
    BY <1>4 DEF LocalSaved, StopUndelivered, CancelRecording, CloseTab
  <2> QED BY <2>1
<1>5. CASE \E c \in Conns : OnError(c) \/ OnBusy(c)
  <2>1. PICK c \in Conns : OnError(c) \/ OnBusy(c)
    BY <1>5
  <2>2. ~Over("idle", "error") /\ ~Over("idle", "busy")
    BY DEF Over
  <2> QED BY <2>1, <2>2 DEF OnError, OnBusy
<1> QED BY <1>1, <1>2, <1>3, <1>4, <1>5 DEF ClientStep

LEMMA EndingsNamed ==
    ASSUME ClientStep, endings \subseteq Endings
    PROVE  endings' \subseteq Endings
  BY WhatEnds DEF Endings, LocalSaved, StopUndelivered, CloseTab, CancelRecording, OnDone,
     OnError, OnBusy, Over

\* Whatever is spoken is kept, sent, or counted as missing.
LEMMA SpokenIsSomewhere ==
    ASSUME ProtocolInv, Speak
    PROVE  spoken + 1 \in (gap \cup local \cup missing \cup OnWires)'
<1> DEFINE u == spoken + 1
           frames == <<Pcm(u)>>
<1>1. u \in Chunks
  BY DEF Speak, ProtocolInv, AudioKept, Chunks
<1>2. CASE cl.mic = "stream" /\ IsOpen(cl) /\ cl.ws \notin cut
  <2>1. PICK w \in Conns : w = cl.ws
    BY <1>2 DEF IsOpen, ProtocolInv, PageInv, Client
  <2> DEFINE s == up[w]
  <2>2. s \in Seq(Frames) /\ frames \in Seq(Frames)
    BY <1>1 DEF ProtocolInv, WireOK, Frames
  <2>3. up'[w] = s \o frames \o <<>>
    BY <1>2, <2>1 DEF Speak, Sends
  <2>4. up'[w] = Append(s, Pcm(u))
    BY <2>2, <2>3
  <2> HIDE DEF s, frames
  <2>5. Len(s) + 1 \in DOMAIN up'[w] /\ up'[w][Len(s) + 1] = Pcm(u)
    BY <2>2, <2>4
  <2>6. u \in Units(up'[w])
    BY <2>5 DEF Units, Pcm
  <2> QED BY <2>1, <2>6 DEF OnWires
<1>3. CASE ~(cl.mic = "stream" /\ IsOpen(cl) /\ cl.ws \notin cut)
  <2>1. cl.mic \in {"stream", "local"}
    BY DEF Speak, ProtocolInv, PageInv, Client
  <2> QED BY <1>3, <2>1 DEF Speak
<1> QED BY <1>2, <1>3

\* After "done" nothing is recorded.
LEMMA NothingAfterDone ==
    ASSUME ProtocolInv, EndsOnce, ServerAnswers, LocalIsMute, Accounted,
           down \in [Conns -> Seq(Events)], Uncancelled', ClientStep, "done" \in endings
    PROVE  /\ UNCHANGED <<gap, local, saved, missing, spoken, endings>>
<1>1. endings = {"done"} /\ gap = {} /\ local = {}
  BY DEF Accounted
<1>2. ~Mute
  BY DEF ServerAnswers, Mute
<1>3. /\ cl.ui # "recording" /\ cl.start = "over" /\ \A c \in Conns : ~InUse(c)
      /\ cl.stop # "undelivered" /\ cl.stop # "local" /\ cl.mic # "local"
  BY <1>1, <1>2 DEF EndsOnce, LocalIsMute
<1>4. Uncancelled
  BY GoingEnds DEF ProtocolInv
<1>5. cl.mic # "stream"
  BY <1>3, <1>4, StreamsWhileGoing DEF ProtocolInv, Going
<1>6. ~Speak /\ ~LocalSaved /\ ~StopUndelivered /\ ~CloseTab
  BY <1>3, <1>5 DEF Speak, LocalSaved, StopUndelivered, CloseTab, ProtocolInv, PageInv, Client
<1>7. ASSUME NEW c \in Conns PROVE ~OnDone(c) /\ ~OnError(c) /\ ~OnBusy(c)
  BY <1>3 DEF OnDone, OnError, OnBusy, InUse
<1>8. ~CancelRecording
  BY DEF CancelRecording, Uncancelled
<1>9. UNCHANGED endings
  BY <1>6, <1>7, <1>8, WhatEnds
<1> QED BY <1>1, <1>6, <1>7, <1>9, AudioRests

\* "done" is the first end of a recording.
LEMMA DoneIsFirst ==
    ASSUME ProtocolInv, EndsOnce, ServerAnswers, AnswersLate, LocalIsMute, Accounted,
           Uncancelled, down \in [Conns -> Seq(Events)], NEW c \in Conns, OnDone(c)
    PROVE  /\ endings' = {"done"} /\ gap' = {} /\ local' = {} /\ local = {}
           /\ saved' = saved \cup gap /\ UNCHANGED <<missing, spoken>>
<1>1. reply[c] = "done" /\ InUse(c)
  BY AnswerIsLast DEF OnDone, InUse, Final
<1>2. local = {} /\ "local" \notin endings
  BY <1>1 DEF LocalIsMute, Mute
<1>3. endings = {}
  BY <1>1, <1>2 DEF EndsOnce, Accounted, Endings, Uncancelled
<1> QED BY <1>2, <1>3 DEF OnDone, Over, GapSaved

LEMMA AccountedOfClient ==
    ASSUME ProtocolInv, EndsOnce, ServerAnswers, AnswersLate, LocalIsMute, Accounted,
           down \in [Conns -> Seq(Events)], Uncancelled', ClientStep
    PROVE  Accounted'
<1>1. Uncancelled /\ UNCHANGED <<sent, carried>> /\ endings \subseteq endings'
  BY GoingEnds, PageMoves, ClientLeavesServer DEF ProtocolInv, vars
<1>2. endings' \subseteq Endings
  BY EndingsNamed DEF Accounted
<1>3. OnWires \subseteq OnWires'
  <2>1. ASSUME NEW c \in Conns PROVE Units(up[c]) \subseteq Units(up'[c])
    <3>1. WireGrows(c)
      BY ClientGrows DEF ProtocolInv, AudioKept
    <3> QED BY <3>1 DEF WireGrows, Units
  <2> QED BY <2>1 DEF OnWires
<1>4. Carried(1..sent)' = Carried(1..sent)
  BY <1>1 DEF Carried
<1>5. ASSUME endings' \subseteq {"done"} PROVE 1..spoken' \subseteq Somewhere'
  <2>1. 1..spoken \subseteq Somewhere /\ spoken \in Nat
    BY <1>1, <1>5 DEF Accounted, ProtocolInv, AudioKept
  <2>2. CASE UNCHANGED <<gap, local, saved, missing, spoken, endings>>
    BY <1>3, <1>4, <2>1, <2>2 DEF Somewhere
  <2>3. CASE \E c \in Conns : OnDone(c)
    <3>1. local = {} /\ saved' = saved \cup gap /\ UNCHANGED <<missing, spoken>>
      BY <1>1, <2>3, DoneIsFirst
    <3> QED BY <1>3, <1>4, <2>1, <3>1 DEF Somewhere
  <2>4. CASE Speak
    <3>1. spoken + 1 \in Somewhere'
      BY <2>4, SpokenIsSomewhere DEF Somewhere
    <3>2. /\ gap \subseteq gap' /\ local \subseteq local' /\ missing \subseteq missing'
          /\ saved' = saved /\ spoken' = spoken + 1
      BY <2>4 DEF Speak
    <3>3. Somewhere \subseteq Somewhere'
      BY <1>3, <1>4, <3>2 DEF Somewhere
    <3>4. 1..spoken' = 1..spoken \cup {spoken + 1}
      BY <2>1, <3>2
    <3> QED BY <2>1, <3>1, <3>3, <3>4
  <2> QED BY <1>5, <2>2, <2>3, <2>4, AudioRests
<1>6. ASSUME "done" \in endings' PROVE endings' = {"done"} /\ gap' = {} /\ local' = {}
  <2>1. CASE "done" \in endings
    BY <2>1, NothingAfterDone DEF Accounted
  <2>2. CASE "done" \notin endings
    <3>1. PICK c \in Conns : OnDone(c)
      BY <1>6, <2>2, WhoEnds
    <3> QED BY <1>1, <3>1, DoneIsFirst
  <2> QED BY <2>1, <2>2
<1> QED BY <1>2, <1>5, <1>6 DEF Accounted

\* What is taken from a wire has been received, and what is cut off is lost.
LEMMA NetMovesAudio ==
    ASSUME ProtocolInv, OrderInv, NetStep
    PROVE  Carried(1..sent) \cup missing \cup OnWires
             \subseteq (Carried(1..sent) \cup missing \cup OnWires)' /\ saved' = saved
<1>1. WireOK /\ carried \in Seq(Chunks) /\ Len(carried) = sent
  BY DEF ProtocolInv, OrderInv
<1>2. CASE \E c \in Conns : ReceiveChunk(c)
  <2>1. PICK c \in Conns : ReceiveChunk(c)
    BY <1>2
  <2> DEFINE s == up[c]
  <2>2. s \in Seq(Frames) /\ s # <<>> /\ up' = [up EXCEPT ![c] = Tail(s)]
        /\ carried' = Append(carried, Head(s).unit)
        /\ sent' = sent + 1 /\ missing' = missing /\ saved' = saved
    BY <1>1, <2>1 DEF ReceiveChunk, Took, HandleAudioChunk, WireOK
  <2>3. up'[c] = Tail(s) /\ \A d \in Conns \ {c} : up'[d] = up[d]
    BY <1>1, <2>2 DEF WireOK
  <2>4. Units(s) \subseteq Units(Tail(s)) \cup {Head(s).unit}
    BY <2>2, UnitsOfTail
  <2>5. carried'[sent + 1] = Head(s).unit /\ \A n \in 1..sent : carried'[n] = carried[n]
    BY <1>1, <2>2
  <2>6. sent \in Nat
    BY <1>1
  <2>7. Carried(1..sent) \cup {Head(s).unit} \subseteq Carried(1..sent)'
    <3> HIDE DEF s
    <3>0. sent' = sent + 1
      BY <2>2
    <3>1. ASSUME NEW n \in 1..sent PROVE n \in 1..sent' /\ carried'[n] = carried[n]
      BY <2>5, <2>6, <3>0
    <3>2. sent + 1 \in 1..sent'
      BY <2>6, <3>0
    <3>3. Carried(1..sent)' = {carried'[n] : n \in 1..sent'}
      BY DEF Carried
    <3> QED BY <2>5, <3>1, <3>2, <3>3 DEF Carried
  <2> HIDE DEF s
  <2>8. OnWires \subseteq OnWires' \cup {Head(s).unit}
    BY <2>3, <2>4 DEF OnWires, s
  <2> QED BY <2>2, <2>7, <2>8
<1>3. CASE \E c \in Conns : Cut(c)
  <2>1. PICK c \in Conns : Cut(c)
    BY <1>3
  <2> DEFINE s == up[c]
  <2>2. PICK n \in 0..Len(s) : /\ up' = [up EXCEPT ![c] = SubSeq(s, 1, n)]
                               /\ missing' = missing \cup Units(SubSeq(s, n + 1, Len(s)))
    BY <2>1 DEF Cut
  <2>3. s \in Seq(Frames) /\ UNCHANGED <<carried, sent, saved>>
    BY <1>1, <2>1 DEF Cut, vars, WireOK
  <2>4. up'[c] = SubSeq(s, 1, n) /\ \A d \in Conns \ {c} : up'[d] = up[d]
    BY <1>1, <2>2 DEF WireOK
  <2>5. Units(s) \subseteq Units(SubSeq(s, 1, n)) \cup Units(SubSeq(s, n + 1, Len(s)))
    BY <2>3, UnitsSplit
  <2> HIDE DEF s
  <2>6. OnWires \subseteq OnWires' \cup Units(SubSeq(s, n + 1, Len(s)))
    BY <2>4, <2>5 DEF OnWires, s
  <2> QED BY <2>2, <2>3, <2>6 DEF Carried
<1>4. CASE ~(\E c \in Conns : ReceiveChunk(c) \/ Cut(c))
  <2>1. UNCHANGED <<carried, sent, missing, saved>>
    <3>1. UNCHANGED <<missing, saved>>
      BY <1>4 DEF NetStep, ReceiveDelete, DeleteLost, GraceEnds, Accept, ReceiveConfig,
         ReceiveStop, AnswerStop, ReceiveDiscard, ReceiveClose, history
    <3> QED BY <1>4, <3>1, NetCounts
  <2>2. \/ UNCHANGED up
        \/ \E c \in Conns : /\ up[c] # <<>> /\ Head(up[c]).kind # "pcm"
                            /\ up' = [up EXCEPT ![c] = Tail(@)]
    BY <1>4 DEF NetStep, ReceiveDelete, DeleteLost, GraceEnds, Accept, ReceiveConfig,
       ReceiveStop, AnswerStop, ReceiveDiscard, ReceiveClose, Took, netVars
  <2>3. OnWires \subseteq OnWires'
    <3>1. ASSUME NEW c \in Conns, up[c] # <<>>, Head(up[c]).kind # "pcm",
                 up' = [up EXCEPT ![c] = Tail(@)]
          PROVE  OnWires \subseteq OnWires'
      <4>1. Units(up[c]) \subseteq Units(Tail(up[c]))
        BY <1>1, <3>1, UnitsOfTail DEF WireOK
      <4>2. up'[c] = Tail(up[c]) /\ \A d \in Conns \ {c} : up'[d] = up[d]
        BY <1>1, <3>1 DEF WireOK
      <4> QED BY <4>1, <4>2 DEF OnWires
    <3>2. UNCHANGED up => OnWires' = OnWires
      BY DEF OnWires
    <3> QED BY <2>2, <3>1, <3>2
  <2> QED BY <2>1, <2>3 DEF Carried
<1> QED BY <1>2, <1>3, <1>4

LEMMA AccountedOfNet ==
    ASSUME ProtocolInv, OrderInv, Accounted, NetStep
    PROVE  Accounted'
<1>1. UNCHANGED <<gap, local, spoken, endings>>
  BY NetLeavesPage
<1>2. Somewhere \subseteq Somewhere'
  BY <1>1, NetMovesAudio DEF Somewhere
<1> QED BY <1>1, <1>2 DEF Accounted

-----------------------------------------------------------------------------
(* A recording that is done is whole.                                      *)

LEMMA WholeStep ==
    ASSUME "io" \notin Faults
    PROVE  /\ ProtocolInv /\ ProtocolInv' /\ SessionInv /\ EveryChunkHasOneFate /\ OrderInv
           /\ WholeInv /\ [ProtocolNext]_protocolVars
           => WholeInv'
<1> SUFFICES ASSUME ProtocolInv, ProtocolInv', SessionInv, EveryChunkHasOneFate, OrderInv,
                    WholeInv, [ProtocolNext]_protocolVars
             PROVE  WholeInv'
  OBVIOUS
<1>1. down \in [Conns -> Seq(Events)] /\ TypeOK /\ PageInv
  BY DEF OrderInv, ProtocolInv
<1>2. Uncancelled => /\ SocketsInv /\ EndsOnce /\ AnswersLate /\ LocalIsMute
                     /\ LastWords /\ StopIsLast /\ Accounted
  BY DEF WholeInv
<1>3. CASE ClientStep
  <2>1. ServerAnswers'
    BY <1>1, <1>3, ServerAnswersStep DEF WholeInv
  <2>2. ASSUME Uncancelled'
        PROVE  /\ SocketsInv' /\ EndsOnce' /\ AnswersLate' /\ LocalIsMute'
               /\ LastWords' /\ StopIsLast' /\ Accounted'
    <3>1. Uncancelled /\ ServerAnswers
      BY <1>1, <1>3, <2>2, GoingEnds DEF WholeInv
    <3>2. SocketsInv' /\ EndsOnce'
      BY <1>1, <1>2, <1>3, <2>2, <3>1, SocketsStep, EndsOnceStep
    <3>3. AnswersLate' /\ LocalIsMute'
      BY <1>2, <1>3, <2>2, <3>1, AnswersLateStep, LocalStep
    <3>4. LastWords' /\ StopIsLast'
      BY <1>2, <1>3, <2>2, <3>1, LastWordsOfClient, StopIsLastOfClient
    <3>5. Accounted'
      BY <1>1, <1>2, <1>3, <2>2, <3>1, AccountedOfClient
    <3> QED BY <3>2, <3>3, <3>4, <3>5
  <2> QED BY <2>1, <2>2 DEF WholeInv
<1>4. CASE NetStep
  <2>1. ServerAnswers' /\ UNCHANGED <<cl, sock, endings>>
    BY <1>1, <1>4, ServerAnswersStep, NetLeavesPage DEF WholeInv
  <2>2. ASSUME Uncancelled'
        PROVE  /\ SocketsInv' /\ EndsOnce' /\ AnswersLate' /\ LocalIsMute'
               /\ LastWords' /\ StopIsLast' /\ Accounted'
    <3>1. Uncancelled /\ ServerAnswers
      BY <2>1, <2>2 DEF Uncancelled, WholeInv
    <3>2. SocketsInv' /\ EndsOnce'
      BY <1>2, <2>1, <3>1 DEF SocketsInv, RolesInTime, OneAtATime, EndsOnce, Used, InUse,
         Lives, Belongs, Going, Uncancelled
    <3>3. AnswersLate' /\ LocalIsMute'
      BY <1>2, <1>4, <2>2, <3>1, AnswersLateStep, LocalStep
    <3>4. LastWords' /\ StopIsLast'
      BY <1>2, <1>4, <3>1, LastWordsOfNet, StopIsLastOfNet
    <3>5. Accounted'
      BY <1>2, <1>4, <3>1, AccountedOfNet
    <3> QED BY <3>2, <3>3, <3>4, <3>5
  <2> QED BY <2>1, <2>2 DEF WholeInv
<1>5. CASE UNCHANGED protocolVars
  <2> USE <1>5 DEF protocolVars, vars, clientVars, netVars, history
  <2>1. ServerAnswers'
    BY DEF WholeInv, ServerAnswers, Used
  <2>2. ASSUME Uncancelled' PROVE SocketsInv' /\ EndsOnce'
    BY <1>2, <2>2 DEF Uncancelled, SocketsInv, RolesInTime, OneAtATime, EndsOnce, Used,
       InUse, Lives, Belongs, Going
  <2>3. ASSUME Uncancelled' PROVE AnswersLate' /\ LocalIsMute' /\ LastWords'
    BY <1>2, <2>3 DEF Uncancelled, AnswersLate, LocalIsMute, Mute, HasAudio, Says, LastWords,
       InUse, Going
  <2>4. ASSUME Uncancelled' PROVE StopIsLast' /\ Accounted'
    BY <1>2, <2>4 DEF Uncancelled, StopIsLast, Unstopped, LoopOwnsSession, Live, Going,
       HasAudio, Accounted, Somewhere, OnWires, Carried
  <2> QED BY <2>1, <2>2, <2>3, <2>4 DEF WholeInv
<1> QED BY <1>3, <1>4, <1>5 DEF ProtocolNext, NetStep

LEMMA WholeStarts == ProtocolInit => WholeInv
<1> SUFFICES ASSUME ProtocolInit PROVE WholeInv
  OBVIOUS
<1>1. /\ rec = NoRec /\ pc = [c \in Conns |-> "accepting"] /\ sent = 0
      /\ reply = [c \in Conns |-> "none"] /\ discarded = {} /\ dropped = {} /\ failed = {}
      /\ sock = [c \in Conns |-> [ready |-> "unused", role |-> "none"]]
      /\ cl.ui = "idle" /\ cl.start = "none" /\ cl.stop = "none" /\ cl.mic = "off"
      /\ cl.opened = "pending" /\ ~cl.retry
      /\ gap = {} /\ local = {} /\ endings = {} /\ spoken = 0
      /\ up = [c \in Conns |-> <<>>] /\ down = [c \in Conns |-> <<>>]
  BY DEF ProtocolInit, Init
<1>2. \A c \in Conns : ~Used(c) /\ ~InUse(c) /\ ~Lives(c) /\ sock[c].role = "none"
  BY <1>1 DEF Used, InUse, Lives
<1>3. ServerAnswers
  BY <1>1 DEF ServerAnswers, Final
<1>4. SocketsInv /\ EndsOnce
  BY <1>1, <1>2 DEF SocketsInv, RolesInTime, OneAtATime, EndsOnce
<1>5. \A c \in Conns : ~HasAudio(c) /\ \A kind : ~Says(c, kind)
  BY <1>1 DEF HasAudio, Says
<1>6. AnswersLate /\ LocalIsMute
  BY <1>1, <1>5 DEF AnswersLate, LocalIsMute, Mute
<1>7. LastWords
  BY <1>1, <1>5 DEF LastWords
<1>8. StopIsLast
  BY <1>1 DEF StopIsLast, Unstopped, LoopOwnsSession, AudioOf
<1>9. Accounted
  BY <1>1 DEF Accounted
<1> QED BY <1>3, <1>4, <1>6, <1>7, <1>8, <1>9 DEF WholeInv

\* A recording that ends with "done" is whole, across outages, reconnects and
\* stops that come late (wsRecorderClient.ts: handleConnectionLost, startGapCapture,
\* tryDeliverStop; record.py: the stop path).  It is proved for a server
\* without I/O errors: when finalizing fails the audio of the session is gone,
\* and a second session of the recording can still end with "done".
THEOREM DoneRecordingIsWhole ==
    ASSUME "io" \notin Faults
    PROVE  ProtocolSpec => []DoneIsWhole
<1>1. ASSUME ProtocolInv, EveryChunkHasOneFate, WholeInv PROVE DoneIsWhole
  <2> SUFFICES ASSUME "done" \in endings, Uncancelled
               PROVE  1..spoken \subseteq Carried(InTasks) \cup saved \cup missing \cup Unheeded
    BY DEF DoneIsWhole
  <2>1. LastWords /\ StopIsLast /\ Accounted /\ ServerAnswers
    BY <1>1 DEF WholeInv
  <2>2. 1..spoken \subseteq Carried(1..sent) \cup saved \cup missing \cup OnWires
    BY <2>1 DEF Accounted, Somewhere
  <2>3. (\E c \in Conns : reply[c] = "done") /\ ~Unstopped
    BY <2>1 DEF ServerAnswers, Unstopped
  <2>4. 1..sent = InTasks
    <3>1. AudioOf(rec) = {} /\ discarded = {} /\ dropped = {} /\ failed = {}
      BY <2>1, <2>3 DEF StopIsLast
    <3>2. 1..sent = UNION {AudioOf(rec), InTasks, discarded, dropped, failed}
      BY <1>1 DEF EveryChunkHasOneFate
    <3>3. UNION {AudioOf(rec), InTasks, discarded, dropped, failed}
            = AudioOf(rec) \cup InTasks \cup discarded \cup dropped \cup failed
      BY ZenonT(30)
    <3>4. 1..sent = AudioOf(rec) \cup InTasks \cup discarded \cup dropped \cup failed
      BY <3>2, <3>3
    <3> HIDE DEF InTasks
    <3>5. AudioOf(rec) \cup InTasks \cup discarded \cup dropped \cup failed = InTasks
      BY <3>1
    <3> QED BY <3>4, <3>5
  <2>5. OnWires \subseteq Unheeded
    <3>1. ASSUME NEW c \in Conns, NEW u \in Units(up[c]) PROVE reply[c] = "busy"
      <4>1. HasAudio(c)
        BY <3>1 DEF Units, HasAudio
      <4> QED BY <2>1, <2>3, <4>1 DEF StopIsLast, LastWords
    <3> QED BY <3>1 DEF OnWires, Unheeded
  <2> QED BY <2>2, <2>4, <2>5
<1>2. ProtocolSpec => []SessionInv /\ []EveryChunkHasOneFate
  BY ServerIsRecordSession, SessionInvariant, NoAudioVanishes, PTL
<1>3. ProtocolSpec => []OrderInv
  BY <1>2, OrderStarts, OrderStep, ProtocolInvariant, PTL DEF ProtocolSpec
<1> QED
  BY <1>1, <1>2, <1>3, WholeStarts, WholeStep, ProtocolInvariant, PTL DEF ProtocolSpec

-----------------------------------------------------------------------------
(* A cancel leaves no task.                                                *)

\* Without a cut a recording that streams has one socket from its start to its
\* end: it is open once startRecording has waited for it, and nobody closes it.
FirstSocket ==
    /\ \A c \in Conns : Used(c) => c = cl.ws /\ InUse(c)
    /\ cl.start # "none" => cl.ws \in Conns
    /\ cl.start \in {"graph", "ready", "over"} \/ cl.opened = "yes" => IsOpen(cl)
    /\ ~cl.retry
    /\ \A c \in Conns :
          /\ pc[c] # "closed"
          /\ ~Says(c, "close")
          /\ \A i \in DOMAIN down[c] : down[c][i] = "open"

\* A recording without a server.
Unheeding == cl.start \in {"ready", "over"} /\ cl.mic # "stream" /\ Mute

\* A discard comes before whatever else could end the session.
Discarding(s) ==
    \E i \in DOMAIN s :
        s[i].kind = "discard" /\ \A j \in DOMAIN s : j < i => s[j].kind \in {"pcm", "config"}

\* The only connection there is has been given up: a session it still has is
\* its own, and will be discarded.
Parted(c) ==
    /\ sock[c].ready \in {"closing", "closed"}
    /\ \A d \in Conns : d # c => ~Used(d)
    /\ pc[c] # "finalizing"
    /\ IF pc[c] = "loop" THEN Live => rec.state = "active" ELSE rec = NoRec
    /\ pc[c] \in {"accepting", "loop"} => Discarding(up[c])

\* A recording that was cancelled while it was running, and not before.
Cancelled == "cancelled" \in endings /\ "abandoned" \notin endings

CancelInv ==
    /\ ServerAnswers
    /\ Uncancelled => SocketsInv /\ LocalIsMute
    /\ cut = {} =>
          /\ Going => FirstSocket \/ Unheeding
          /\ Cancelled =>
                /\ cl.mic = "off" /\ cl.stop # "gap"
                /\ Mute \/ \E c \in Conns : Parted(c)

\* Frames that end no recording are audio and its rate, and closes.
LEMMA CalmKinds ==
    ASSUME CalmWire, NEW c \in Conns, NEW i \in DOMAIN up[c]
    PROVE  up[c][i].kind \in {"pcm", "config", "close"}
<1>1. up[c][i] \in CalmFrames
  BY DEF CalmWire
<1> QED BY <1>1 DEF CalmFrames, Frame, Pcm

\* The step of a client whose socket stays where it is.
LEMMA FirstStays ==
    ASSUME ProtocolInv, OrderInv, FirstSocket, ClientStep,
           \A c \in Conns : Used(c)' => c = cl'.ws /\ InUse(c)',
           cl'.start # "none" => cl'.ws \in Conns,
           cl'.start \in {"graph", "ready", "over"} \/ cl'.opened = "yes" => IsOpen(cl)',
           ~cl'.retry
    PROVE  FirstSocket'
<1>1. UNCHANGED pc
  BY ClientLeavesServer DEF vars
<1>2. ASSUME NEW c \in Conns PROVE ~Says(c, "close")'
  <2>1. WireGrows(c)
    BY ClientGrows DEF ProtocolInv, AudioKept
  <2>2. ASSUME NEW i \in DOMAIN up'[c], up'[c][i].kind = "close" PROVE FALSE
    <3>1. i \notin DOMAIN up[c]
      BY <2>1, <2>2 DEF WireGrows, FirstSocket, Says
    <3>2. sock'[c].ready \in {"closing", "closed"}
      BY <2>1, <2>2, <3>1 DEF WireGrows, MaySay, Pcm
    <3> QED BY <3>2 DEF Used, InUse
  <2> QED BY <2>2 DEF Says
<1>3. ASSUME NEW c \in Conns, NEW i \in DOMAIN down'[c] PROVE down'[c][i] = "open"
  BY EventsTaken DEF OrderInv, FirstSocket
<1> QED BY <1>1, <1>2, <1>3 DEF FirstSocket

\* No news but that the socket is open.
LEMMA NoNews ==
    ASSUME OrderInv, FirstSocket, NEW c \in Conns, NEW kind \in {"done", "error", "busy", "close"}
    PROVE  ~Event(c, kind)
<1>1. ASSUME Event(c, kind) PROVE FALSE
  <2>1. down[c] \in Seq(Events) /\ down[c] # <<>>
    BY <1>1 DEF OrderInv, Event
  <2>2. 1 \in DOMAIN down[c] /\ Head(down[c]) = down[c][1]
    BY <2>1
  <2> QED BY <1>1, <2>2 DEF FirstSocket, Event
<1> QED BY <1>1

\* A recording without a server stays without one.
LEMMA UnheedingStays ==
    ASSUME ProtocolInv, Unheeding, Going', ClientStep
    PROVE  Unheeding'
<1>1. MicMoves /\ UNCHANGED vars
  BY MicMovesStep, ClientLeavesServer DEF ProtocolInv
<1>2. ASSUME NEW c \in Conns PROVE ~HasAudio(c)'
  <2>1. WireGrows(c)
    BY ClientGrows DEF ProtocolInv, AudioKept
  <2>2. \A i \in DOMAIN up'[c] : up'[c][i].kind = "pcm" =>
          i \in DOMAIN up[c] /\ up'[c][i] = up[c][i]
    BY <2>1 DEF WireGrows, MaySay, Unheeding
  <2> QED BY <2>2 DEF HasAudio, Unheeding, Mute
<1>3. cl'.start \in {"ready", "over"} /\ cl'.mic # "stream"
  <2>1. cl.start \notin Early /\ cl.mic # "stream"
    BY DEF Unheeding, Early
  <2>2. cl'.start \notin Early /\ cl'.mic # "stream"
    BY <1>1, <2>1 DEF MicMoves, Early
  <2>3. cl' \in Client
    BY PageStep DEF ProtocolInv, PageInv
  <2> QED BY <2>2, <2>3 DEF Client, Early
<1> QED BY <1>1, <1>2, <1>3 DEF Unheeding, Mute, vars

\* While the recording goes on without a cut its socket stays, unless it turns
\* to recording locally.
LEMMA FirstOfClient ==
    ASSUME ProtocolInv, OrderInv, SocketsInv, LocalIsMute, FirstSocket, cut = {},
           Going', ClientStep
    PROVE  FirstSocket' \/ Unheeding'
<1> USE DEF history, clientVars, netVars, Used, InUse, IsOpen
<1>1. Going /\ PageInv /\ cl \in Client /\ sock \in [Conns -> Sockets] /\ StartedInOrder
  BY GoingEnds DEF ProtocolInv, PageInv, Going, Uncancelled
<1>2. cl.stop = "none"
  BY <1>1 DEF Going, StartedInOrder
<1>3. ASSUME NEW c \in Conns, sock[c].ready = "connecting" PROVE sock[c].role = "fresh"
  <2>1. cl.start # "over"
    BY <1>3 DEF FirstSocket
  <2> QED BY <1>3, <2>1 DEF SocketsInv, RolesInTime, OneAtATime, Belongs
<1>4. ASSUME \A c \in Conns : sock'[c].ready = sock[c].ready, cl'.ws = cl.ws, cl'.retry = cl.retry,
             cl'.start = "none" => cl.start = "none",
             cl.start = "none" => cl'.start = "none",
             cl'.start \in {"graph", "ready", "over"} \/ cl'.opened = "yes" => IsOpen(cl)
      PROVE  FirstSocket'
  <2>1. IsOpen(cl)' <=> IsOpen(cl)
    BY <1>1, <1>4 DEF Client
  <2>2. \A c \in Conns : Used(c)' => c = cl'.ws /\ InUse(c)'
    BY <1>4 DEF FirstSocket
  <2>3. cl'.start # "none" => cl'.ws \in Conns
    BY <1>4 DEF FirstSocket
  <2> QED BY <1>4, <2>1, <2>2, <2>3, FirstStays DEF FirstSocket
<1>5. CASE \E c \in Conns : StartRecording(c)
  <2>1. PICK c \in Conns : StartRecording(c)
    BY <1>5
  <2>2. /\ sock'[c].ready = "connecting" /\ \A d \in Conns : d # c => sock'[d] = sock[d]
        /\ \A d \in Conns : ~Used(d)
        /\ cl.opened = "pending"
    BY <1>1, <2>1 DEF StartRecording, Open, SocketsInv, RolesInTime
  <2>3. cl'.ws = c /\ cl'.start = "media" /\ cl'.opened = cl.opened /\ cl'.retry = cl.retry
    BY <1>1, <2>1 DEF StartRecording, Client
  <2> QED BY <2>2, <2>3, FirstStays DEF FirstSocket
<1>6. CASE OpenTimeout \/ BackToIdle \/ Speak \/ \E c \in Conns : OnOther(c)
  <2>1. UNCHANGED sock /\ cl'.ws = cl.ws /\ cl'.retry = cl.retry /\ cl'.start = cl.start
        /\ cl'.opened \in {cl.opened, "no"}
    BY <1>1, <1>6 DEF OpenTimeout, BackToIdle, Speak, OnOther, Client
  <2> QED BY <1>4, <2>1 DEF FirstSocket
<1>7. CASE GraphReady \/ Ready
  <2>1. UNCHANGED sock /\ cl'.ws = cl.ws /\ cl'.retry = cl.retry /\ cl'.opened = cl.opened
        /\ cl.start \in {"graph", "ready"} /\ cl'.start \in {"ready", "over"}
    <3>1. CASE GraphReady
      BY <1>1, <3>1 DEF GraphReady, Client
    <3>2. CASE Ready
      BY <1>1, <3>2 DEF Ready, Client
    <3> QED BY <1>7, <3>1, <3>2
  <2> QED BY <1>4, <2>1 DEF FirstSocket
<1>8. CASE MediaAcquired \/ SocketOpened
  <2>1. \A c \in Conns : sock'[c].ready = sock[c].ready
    BY <1>1, <1>8 DEF MediaAcquired, SocketOpened, Attach, Sockets
  <2>2. /\ cl'.ws = cl.ws /\ cl'.retry = cl.retry /\ cl'.opened = cl.opened
        /\ cl.start # "none" /\ cl'.start \in {"open", "graph"}
    <3>1. CASE MediaAcquired
      <4>1. \/ cl' = [[cl EXCEPT !.stream = TRUE] EXCEPT !.start = "open"]
            \/ cl' = [[cl EXCEPT !.stream = TRUE] EXCEPT !.start = "graph"]
        BY <3>1 DEF MediaAcquired
      <4> QED BY <1>1, <3>1, <4>1 DEF MediaAcquired, Client
    <3>2. CASE SocketOpened
      BY <1>1, <3>2 DEF SocketOpened, Client
    <3> QED BY <1>8, <3>1, <3>2
  <2>3. cl'.start = "graph" => IsOpen(cl)
    <3>1. cl.ws \in Conns /\ cl.ws # Nobody
      BY <2>2 DEF FirstSocket
    <3>2. CASE MediaAcquired
      BY <1>1, <3>1, <3>2 DEF MediaAcquired, Client
    <3>3. CASE SocketOpened
      BY <3>3 DEF SocketOpened, FirstSocket
    <3> QED BY <1>8, <3>2, <3>3
  <2> QED BY <1>4, <2>1, <2>2, <2>3 DEF FirstSocket
<1>9. CASE \E c \in Conns : OnOpen(c)
  <2>1. PICK c \in Conns : OnOpen(c)
    BY <1>9
  <2>2. sock[c].ready = "connecting" /\ sock[c].role = "fresh"
    BY <1>3, <2>1 DEF OnOpen
  <2>3. /\ sock'[c].ready = "open" /\ \A d \in Conns : d # c => sock'[d] = sock[d]
        /\ cl' = [cl EXCEPT !.opened = IF @ = "pending" THEN "yes" ELSE @]
    BY <1>1, <2>1, <2>2 DEF OnOpen, Opened
  <2>4. cl'.ws = cl.ws /\ cl'.retry = cl.retry /\ cl'.start = cl.start /\ cl.ws = c
    BY <1>1, <2>2, <2>3 DEF Client, FirstSocket
  <2>5. IsOpen(cl)'
    BY <2>3, <2>4
  <2> QED BY <2>3, <2>4, <2>5, FirstStays DEF FirstSocket
<1>10. CASE SocketFailed \/ GraphFails
  <2>1. cl.start \in Early /\ cl'.start = "ready" /\ cl'.mic = "local"
    BY <1>1, <1>10 DEF SocketFailed, GraphFails, GoLocal, Client, Early
  <2>2. Mute
    BY <2>1 DEF LocalIsMute, Early
  <2>3. UNCHANGED vars
    BY ClientLeavesServer
  <2>4. ~Speak
    BY <1>1, <2>1 DEF Speak, LocalIsMute, Early
  <2>5. ASSUME NEW c \in Conns PROVE ~HasAudio(c)'
    <3>1. WireGrows(c)
      BY ClientGrows DEF ProtocolInv, AudioKept
    <3>2. \A i \in DOMAIN up'[c] : up'[c][i].kind = "pcm" =>
            i \in DOMAIN up[c] /\ up'[c][i] = up[c][i]
      BY <2>4, <3>1 DEF WireGrows, MaySay
    <3> QED BY <2>2, <3>2 DEF HasAudio, Mute
  <2> QED BY <2>1, <2>2, <2>3, <2>5 DEF Unheeding, Mute, vars
<1>11. ~\E c \in Conns : \/ Retry(c) \/ DeliverStop(c) \/ OnDone(c) \/ OnError(c) \/ OnBusy(c)
  BY <1>2, NoNews DEF Retry, DeliverStop, OnDone, OnError, OnBusy, FirstSocket
<1>12. ASSUME NEW c \in Conns PROVE /\ ~DeliverTimeout(c)
                                    /\ \A late \in BOOLEAN : ~OnClose(c, late)
  <2>1. ~DeliverTimeout(c)
    BY <1>3 DEF DeliverTimeout
  <2>2. sock[c].ready # "closing"
    BY DEF FirstSocket
  <2>3. ~Event(c, "close")
    BY NoNews
  <2> QED BY <2>1, <2>2, <2>3 DEF OnClose
<1>13. ~(MediaFails \/ StopLocal \/ StopOnline \/ StopOffline \/ CloseTab \/ CancelRecording)
  <2>1. cl'.start # "over" \/ cl'.ui = "recording"
    BY DEF Going
  <2>2. ~MediaFails
    BY <1>1, <2>1 DEF MediaFails, Client
  <2>3. ASSUME StopLocal \/ StopOnline \/ StopOffline PROVE FALSE
    <3>1. cl.start = "over"
      BY <1>1, <2>3 DEF StopLocal, StopOnline, StopOffline, StartedInOrder
    <3>2. cl'.start = cl.start /\ cl'.ui = "stopping"
      <4>1. CASE StopLocal
        BY <1>1, <4>1 DEF StopLocal, Client
      <4>2. CASE StopOnline
        BY <1>1, <4>2 DEF StopOnline, Quiet, Ungapped, LoopCancelled, Client
      <4>3. CASE StopOffline
        BY <1>1, <4>3 DEF StopOffline, Quiet, Ungapped, LoopCancelled, Client
      <4> QED BY <2>3, <4>1, <4>2, <4>3
    <3> QED BY <2>1, <3>1, <3>2
  <2>4. ~CloseTab
    <3> SUFFICES ASSUME CloseTab PROVE FALSE
      OBVIOUS
    <3>1. cl.start = "over" /\ cl'.start = cl.start /\ cl'.ui = "gone"
      BY <1>1, ResetPage DEF CloseTab, StartedInOrder
    <3> QED BY <2>1, <3>1
  <2>5. ~CancelRecording
    BY DEF CancelRecording, Going, Uncancelled
  <2> QED BY <2>2, <2>3, <2>4, <2>5
<1>14. ~LocalSaved /\ ~StopUndelivered
  BY <1>2 DEF LocalSaved, StopUndelivered
<1> QED
  BY <1>5, <1>6, <1>7, <1>8, <1>9, <1>10, <1>11, <1>12, <1>13, <1>14 DEF ClientStep

\* The server and the network leave the socket of such a recording open.
LEMMA FirstOfNet ==
    ASSUME ProtocolInv, OrderInv, ServerAnswers, FirstSocket, Going, cut' = {}, NetStep
    PROVE  FirstSocket'
<1>1. UNCHANGED <<cl, sock>> /\ TypeOK /\ cut = {}
  BY NetLeavesPage DEF ProtocolInv, NetStep, Cut, ReceiveDelete, DeleteLost, GraceEnds, Accept,
     ReceiveChunk, ReceiveConfig, ReceiveStop, AnswerStop, ReceiveDiscard, ReceiveClose, netVars
<1>2. ASSUME NEW c \in Conns, Accept(c)
      PROVE  pc' = [pc EXCEPT ![c] = "loop"] /\ reply' = reply
  <2>1. Used(c) /\ pc[c] = "accepting"
    BY <1>2 DEF Accept, Used, BeginSession
  <2>2. \A d \in Conns : pc[d] = "accepting"
    BY <2>1 DEF FirstSocket, ServerAnswers
  <2>3. rec = NoRec
    BY <2>2 DEF ServerAnswers
  <2> QED BY <1>2, <2>3 DEF Accept, BeginSession, ResumeSession, StartSession, AdoptSession,
             RejectBusy, Live, Goto
<1>3. ASSUME NEW c \in Conns PROVE ~ReceiveClose(c)
  <2>1. ASSUME Took(c, "close") PROVE FALSE
    <3>1. up[c] \in Seq(Frames) /\ up[c] # <<>>
      BY <2>1 DEF ProtocolInv, WireOK, Took
    <3>2. 1 \in DOMAIN up[c] /\ Head(up[c]) = up[c][1]
      BY <3>1
    <3> QED BY <2>1, <3>2 DEF Took, FirstSocket, Says
  <2> QED BY <1>1, <2>1 DEF ReceiveClose
<1>4. ASSUME NEW c \in Conns PROVE pc'[c] # "closed"
  <2>1. CASE pc'[c] = pc[c]
    BY <2>1 DEF FirstSocket
  <2>2. CASE pc'[c] # pc[c]
    <3>1. Accept(c)
      BY <1>1, <1>3, <2>2, WhoMoves, NothingEndsIt
    <3> QED BY <1>1, <1>2, <3>1 DEF TypeOK
  <2> QED BY <2>1, <2>2
<1>5. ASSUME NEW c \in Conns, NEW i \in DOMAIN down'[c] PROVE down'[c][i] = "open"
  <2>1. CASE UNCHANGED down
    BY <2>1, <1>5 DEF FirstSocket
  <2>2. ASSUME NEW d \in Conns, Accept(d) PROVE down'[c][i] = "open"
    <3>1. Answers(d) = <<>>
      BY <1>1, <1>2, <2>2 DEF Answers, TypeOK
    <3>2. Emits(d, <<"open">>)
      BY <2>2, <3>1 DEF Accept
    <3>3. down' = [down EXCEPT ![d] = @ \o <<"open">>]
      BY <1>1, <3>2 DEF Emits
    <3> DEFINE s == down[c]
    <3>4. s \in Seq(Events) /\ down'[c] \in {s, s \o <<"open">>}
      BY <3>3 DEF OrderInv
    <3>5. \A j \in DOMAIN s : s[j] = "open"
      BY DEF FirstSocket
    <3> HIDE DEF s
    <3>6. ASSUME NEW j \in DOMAIN (s \o <<"open">>) PROVE (s \o <<"open">>)[j] = "open"
      BY <3>4, <3>5, <3>6 DEF Events
    <3> QED BY <1>5, <3>4, <3>5, <3>6
  <2>3. UNCHANGED down \/ \E d \in Conns : Accept(d)
    BY <1>1, <1>3, NothingEndsIt DEF NetStep, Cut, ReceiveDelete, DeleteLost, GraceEnds,
       ReceiveChunk, ReceiveConfig, netVars
  <2> QED BY <2>1, <2>2, <2>3
<1>6. ASSUME NEW c \in Conns PROVE ~Says(c, "close")'
  BY NetSaysNothing DEF FirstSocket, ProtocolInv
<1> QED BY <1>1, <1>4, <1>5, <1>6 DEF FirstSocket, Used, InUse, IsOpen

-----------------------------------------------------------------------------
(* The cancel.                                                             *)

\* A client that does not stream leaves a silent wire silent.
LEMMA ClientStaysMute ==
    ASSUME ProtocolInv, Mute, cl.mic # "stream", ClientStep
    PROVE  Mute'
<1>1. UNCHANGED vars
  BY ClientLeavesServer
<1>2. ASSUME NEW c \in Conns PROVE ~HasAudio(c)'
  <2>1. WireGrows(c)
    BY ClientGrows DEF ProtocolInv, AudioKept
  <2>2. \A i \in DOMAIN up'[c] : up'[c][i].kind = "pcm" =>
          i \in DOMAIN up[c] /\ up'[c][i] = up[c][i]
    BY <2>1 DEF WireGrows, MaySay
  <2> QED BY <2>2 DEF HasAudio, Mute
<1> QED BY <1>1, <1>2 DEF Mute, vars

\* What was going to be discarded still is, whatever is sent after it.
LEMMA DiscardingGrows ==
    ASSUME WireOK, NEW c \in Conns, WireGrows(c), up'[c] \in Seq(Frames), Discarding(up[c])
    PROVE  Discarding(up'[c])
<1>1. PICK i \in DOMAIN up[c] :
        /\ up[c][i].kind = "discard"
        /\ \A j \in DOMAIN up[c] : j < i => up[c][j].kind \in {"pcm", "config"}
  BY DEF Discarding
<1>2. i \in DOMAIN up'[c] /\ up'[c][i] = up[c][i]
  BY DEF WireGrows
<1>3. ASSUME NEW j \in DOMAIN up'[c], j < i PROVE up'[c][j].kind \in {"pcm", "config"}
  <2>1. j \in DOMAIN up[c]
    BY <1>3 DEF WireOK
  <2> QED BY <1>1, <1>3, <2>1 DEF WireGrows
<1> QED BY <1>1, <1>2, <1>3 DEF Discarding

\* A cancel puts the discard on the wire of the only socket, and closes it.
LEMMA CancelParts ==
    ASSUME ProtocolInv, ServerAnswers, FirstSocket, Going, cut = {}, CancelRecording,
           cl.ui = "recording"
    PROVE  \E c \in Conns : Parted(c)'
<1>c. PICK c \in Conns : c = cl.ws
  BY DEF ProtocolInv, PageInv, StartedInOrder, FirstSocket
<1> DEFINE s == up[c]
<1>1. /\ cl.start = "over" /\ IsOpen(cl) /\ sock \in [Conns -> Sockets]
      /\ LoopOwnsSession /\ ~Stopping /\ CalmWire /\ TypeOK
  BY DEF ProtocolInv, PageInv, StartedInOrder, FirstSocket, Undisturbed
<1>2. UNCHANGED vars /\ sock' = Socks({c} \cup ProbeOf(cl))
      /\ Sends(c, <<Frame("discard")>>, {c} \cup ProbeOf(cl))
  BY <1>c, <1>1 DEF CancelRecording, WsOf, IsOpen, Discards
<1>3. sock'[c].ready = "closing"
  BY <1>c, <1>1, <1>2 DEF Socks, IsOpen, Sockets
<1>4. \A d \in Conns : d # c => ~Used(d)'
  BY <1>c, <1>1, <1>2 DEF FirstSocket, Socks, Used
<1>5. pc[c] \in {"accepting", "loop"}
  BY <1>1 DEF FirstSocket, TypeOK, Places, Stopping
<1>6. IF pc[c] = "loop" THEN Live => rec.state = "active" ELSE rec = NoRec
  <2>1. CASE pc[c] = "loop"
    BY <1>1, <2>1 DEF LoopOwnsSession
  <2>2. CASE pc[c] = "accepting"
    <3>1. \A d \in Conns : pc[d] = "accepting"
      BY <1>c, <2>2 DEF FirstSocket, ServerAnswers
    <3> QED BY <2>2, <3>1 DEF ServerAnswers
  <2> QED BY <1>5, <2>1, <2>2
<1>7. Discarding(up'[c])
  <2>1. up'[c] = s \o <<Frame("discard")>> \o <<Frame("close")>>
    BY <1>c, <1>1, <1>2 DEF Sends, IsOpen
  <2>2. s \in Seq(Frames) /\ Frame("discard") \in Frames /\ Frame("close") \in Frames
    BY <1>1 DEF ProtocolInv, WireOK, Frames
  <2>3. \A j \in DOMAIN s : s[j].kind \in {"pcm", "config"}
    BY <1>1, CalmKinds DEF FirstSocket, Says
  <2> DEFINE t == s \o <<Frame("discard")>> \o <<Frame("close")>>
             i == Len(s) + 1
  <2> HIDE DEF s
  <2>4. /\ i \in DOMAIN t /\ t[i] = Frame("discard")
        /\ \A j \in DOMAIN t : j < i => j \in DOMAIN s /\ t[j] = s[j]
    BY <2>2
  <2>5. Discarding(t)
    BY <2>3, <2>4 DEF Discarding, Frame
  <2> QED BY <2>1, <2>5
<1>8. Parted(c)'
  BY <1>2, <1>3, <1>4, <1>5, <1>6, <1>7 DEF Parted, vars, Live
<1> QED BY <1>8

\* Only a recording page begins to stop.
LEMMA GapWaits ==
    ASSUME PageInv, ClientStep, cl.ui # "recording", cl.stop # "gap"
    PROVE  cl'.stop # "gap"
<1> USE DEF history, clientVars
<1>1. cl \in Client
  BY DEF PageInv
<1>2. \A ui : \A k \in Client : cl' = [Reset(k) EXCEPT !.ui = ui] => cl'.stop = k.stop
  BY DEF Reset, Quiet, Ungapped, LoopCancelled, Client
<1>3. CASE \/ MediaFails \/ MediaAcquired \/ OpenTimeout \/ SocketOpened
           \/ SocketFailed \/ GraphFails \/ GraphReady \/ Ready \/ Speak \/ BackToIdle
  BY ZenonT(30), <1>1, <1>3 DEF MediaFails, MediaAcquired, OpenTimeout, SocketOpened,
     SocketFailed, GraphFails, GoLocal, GraphReady, Ready, Speak, BackToIdle, Client
<1>4. CASE StopLocal \/ StopOnline \/ StopOffline \/ CloseTab
  BY <1>4 DEF StopLocal, StopOnline, StopOffline, CloseTab
<1>5. CASE LocalSaved \/ StopUndelivered
  BY <1>1, <1>5 DEF LocalSaved, Quiet, StopUndelivered, Client
<1>6. CASE CancelRecording
  BY <1>1, <1>2, <1>6 DEF CancelRecording
<1>7. CASE \E c \in Conns : StartRecording(c) \/ Retry(c) \/ DeliverStop(c) \/ DeliverTimeout(c)
  BY <1>1, <1>7 DEF StartRecording, Retry, DeliverStop, DeliverTimeout, Client
<1>8. ASSUME NEW c \in Conns, OnOpen(c) PROVE cl'.stop # "gap"
  BY <1>8, OpenPage
<1>9. ASSUME NEW c \in Conns, NEW late \in BOOLEAN, OnClose(c, late) PROVE cl'.stop # "gap"
  BY <1>9, ClosePage
<1>10. CASE \E c \in Conns : OnDone(c) \/ OnError(c) \/ OnBusy(c) \/ OnOther(c)
  BY <1>1, <1>2, <1>10 DEF OnDone, OnError, OnBusy, Over, OnOther, Client
<1> QED
  BY <1>3, <1>4, <1>5, <1>6, <1>7, <1>8, <1>9, <1>10 DEF ClientStep

SocketRests(c) ==
    /\ ~Used(c) => ~Used(c)'
    /\ sock[c].ready \in {"closing", "closed"} => sock'[c].ready \in {"closing", "closed"}

\* A page that neither records nor stops opens no socket.
LEMMA SocketsRest ==
    ASSUME PageInv, ClientStep, cl.start # "none", cl.ui # "recording", cl.stop # "gap",
           NEW c \in Conns
    PROVE  SocketRests(c)
<1> USE DEF history, clientVars
<1>1. sock \in [Conns -> Sockets]
  BY DEF PageInv
<1>2. ASSUME NEW S, sock' = Socks(S) PROVE SocketRests(c)
  BY <1>1, <1>2 DEF Socks, Sockets, Used, SocketRests
<1>3. ASSUME NEW d \in Conns, NEW role, Opened(d, role), sock[d].ready = "connecting" PROVE SocketRests(c)
  BY <1>1, <1>3 DEF Opened, Used, SocketRests
<1>4. ASSUME Attach(cl) \/ UNCHANGED sock PROVE SocketRests(c)
  BY <1>1, <1>4 DEF Attach, Sockets, Used, SocketRests
<1>5. ASSUME NEW d \in Conns, Used(d), NEW S, sock' = [Socks(S) EXCEPT ![d].ready = "closed"]
      PROVE  SocketRests(c)
  BY <1>1, <1>5 DEF Socks, Sockets, Used, SocketRests
<1>6. CASE \/ MediaFails \/ SocketFailed \/ GraphFails \/ StopOnline \/ StopOffline
           \/ CancelRecording \/ \E d \in Conns : DeliverTimeout(d)
  BY <1>2, <1>6 DEF MediaFails, SocketFailed, GraphFails, GoLocal, StopOnline, StopOffline,
     CancelRecording, DeliverTimeout
<1>7. ~CloseTab /\ ~\E d \in Conns : StartRecording(d) \/ Retry(d) \/ DeliverStop(d)
  BY DEF CloseTab, StartRecording, Retry, DeliverStop
<1>8. CASE \/ OpenTimeout \/ GraphReady \/ Ready \/ Speak \/ StopLocal \/ LocalSaved
           \/ StopUndelivered \/ BackToIdle \/ MediaAcquired \/ SocketOpened
           \/ \E d \in Conns : OnOther(d)
  BY <1>4, <1>8 DEF OpenTimeout, GraphReady, Ready, Speak, StopLocal, LocalSaved,
     StopUndelivered, BackToIdle, MediaAcquired, SocketOpened, OnOther
<1>9. CASE \E d \in Conns : OnDone(d) \/ OnError(d) \/ OnBusy(d)
  BY <1>2, <1>4, <1>9 DEF OnDone, OnError, OnBusy, Over
<1>10. CASE \E d \in Conns : OnOpen(d)
  BY <1>2, <1>3, <1>10 DEF OnOpen
<1>11. CASE \E d \in Conns, late \in BOOLEAN : OnClose(d, late)
  BY <1>5, <1>11 DEF OnClose, Used
<1> QED BY <1>6, <1>7, <1>8, <1>9, <1>10, <1>11 DEF ClientStep

\* After the cancel the page is at rest, and so are its sockets.
LEMMA PartedOfClient ==
    ASSUME ProtocolInv, ProtocolInv', Cancelled, cl.mic = "off", cl.stop # "gap", ClientStep
    PROVE  /\ cl'.mic = "off" /\ cl'.stop # "gap"
           /\ \A c \in Conns : Parted(c) => Parted(c)'
<1>1. /\ PageInv /\ WireOK /\ spoken \in 0..MaxChunks /\ cl.start = "over" /\ cl.ui # "recording"
      /\ UNCHANGED vars
  BY ClientLeavesServer DEF ProtocolInv, AudioKept, CancelsCounted, Cancelled
<1>2. cl'.mic = "off"
  <2>1. MicMoves /\ cl'.mic \in {"off", "stream", "local"}
    BY <1>1, MicMovesStep DEF ProtocolInv, PageInv, Client
  <2> QED BY <1>1, <2>1 DEF MicMoves, Early
<1>3. cl'.stop # "gap"
  BY <1>1, GapWaits
<1>4. ASSUME NEW c \in Conns, Parted(c) PROVE Parted(c)'
  <2>1. /\ sock'[c].ready \in {"closing", "closed"}
        /\ \A d \in Conns : d # c => ~Used(d)'
    BY <1>1, <1>4, SocketsRest DEF Parted, SocketRests
  <2>2. WireGrows(c) /\ up'[c] \in Seq(Frames)
    BY <1>1, ClientGrows DEF ProtocolInv, WireOK
  <2>3. Discarding(up[c]) => Discarding(up'[c])
    BY <1>1, <2>2, DiscardingGrows
  <2> QED BY <1>1, <1>4, <2>1, <2>3 DEF Parted, vars, Live
<1> QED BY <1>2, <1>3, <1>4

LEMMA DiscardingTail ==
    ASSUME NEW s \in Seq(Frames), s # <<>>, Discarding(s)
    PROVE  \/ Head(s).kind = "discard"
           \/ Head(s).kind \in {"pcm", "config"} /\ Discarding(Tail(s))
<1>1. PICK i \in DOMAIN s :
        s[i].kind = "discard" /\ \A j \in DOMAIN s : j < i => s[j].kind \in {"pcm", "config"}
  BY DEF Discarding
<1>2. 1 \in DOMAIN s /\ Head(s) = s[1]
  OBVIOUS
<1>3. CASE i = 1
  BY <1>1, <1>2, <1>3
<1>4. CASE i # 1
  <2>1. Head(s).kind \in {"pcm", "config"}
    BY <1>1, <1>2, <1>4
  <2>2. \A j \in DOMAIN Tail(s) : j + 1 \in DOMAIN s /\ Tail(s)[j] = s[j + 1]
    OBVIOUS
  <2>3. i - 1 \in DOMAIN Tail(s) /\ Tail(s)[i - 1] = s[i]
    BY <1>4
  <2>4. \A j \in DOMAIN Tail(s) : j < i - 1 => Tail(s)[j].kind \in {"pcm", "config"}
    BY <1>1, <2>2
  <2> QED BY <1>1, <2>1, <2>3, <2>4 DEF Discarding
<1> QED BY <1>3, <1>4

\* What the server may do to a connection that was given up.
LEMMA PartedMoves ==
    ASSUME ProtocolInv, ServerAnswers, NEW c \in Conns, Parted(c), cut' = {}, NetStep
    PROVE  /\ cut = {}
           /\ \A d \in Conns : ~ReceiveStop(d) /\ ~AnswerStop(d) /\ ~ReceiveClose(d) /\ ~Cut(d)
           /\ \A d \in Conns : Accept(d) \/ ReceiveChunk(d) \/ ReceiveConfig(d) \/ ReceiveDiscard(d)
                => d = c
<1>1. cut = {} /\ \A d \in Conns : ~Cut(d)
  BY DEF NetStep, Cut, ReceiveDelete, DeleteLost, GraceEnds, Accept, ReceiveChunk, ReceiveConfig,
     ReceiveStop, AnswerStop, ReceiveDiscard, ReceiveClose, netVars
<1>2. ASSUME NEW d \in Conns, pc[d] # "accepting" \/ Used(d) PROVE d = c
  BY <1>2 DEF ServerAnswers, Parted
<1>3. ASSUME NEW d \in Conns, Took(d, "stop") \/ Took(d, "close") PROVE FALSE
  <2>1. d = c /\ up[c] \in Seq(Frames) /\ up[c] # <<>> /\ Discarding(up[c])
    BY <1>2, <1>3 DEF Took, Parted, ProtocolInv, WireOK
  <2> QED BY <1>3, <2>1, DiscardingTail DEF Took
<1>4. \A d \in Conns : ~ReceiveStop(d) /\ ~ReceiveClose(d)
  BY <1>1, <1>3 DEF ReceiveStop, ReceiveClose
<1>5. ASSUME NEW d \in Conns, AnswerStop(d) PROVE FALSE
  BY <1>2, <1>5 DEF AnswerStop, FinishStop, Parted
<1>6. ASSUME NEW d \in Conns, Accept(d) \/ ReceiveChunk(d) \/ ReceiveConfig(d) \/ ReceiveDiscard(d)
      PROVE  d = c
  BY <1>2, <1>6 DEF Accept, Used, ReceiveChunk, ReceiveConfig, ReceiveDiscard, Took
<1> QED BY <1>1, <1>4, <1>5, <1>6

\* The server discards the session of a connection that was given up, and
\* makes no task of it.
LEMMA PartedOfNet ==
    ASSUME ProtocolInv, ServerAnswers, NEW c \in Conns, Parted(c), cut' = {}, NetStep
    PROVE  Parted(c)' /\ tasks' = tasks
<1>1. UNCHANGED <<cl, sock>> /\ TypeOK
  BY NetLeavesPage DEF ProtocolInv
<1>2. SUFFICES /\ pc'[c] # "finalizing"
               /\ IF pc'[c] = "loop" THEN rec' # NoRec => rec'.state = "active" ELSE rec' = NoRec
               /\ pc'[c] \in {"accepting", "loop"} => Discarding(up'[c])
               /\ tasks' = tasks
  BY <1>1 DEF Parted, Used, Live
<1>3. /\ pc[c] # "finalizing"
      /\ IF pc[c] = "loop" THEN rec # NoRec => rec.state = "active" ELSE rec = NoRec
      /\ pc[c] \in {"accepting", "loop"} => Discarding(up[c])
  BY DEF Parted, Live
<1>4. CASE ReceiveDelete
  BY <1>3, <1>4 DEF ReceiveDelete, Delete, DiscardRecording, connVars, netVars
<1>5. CASE DeleteLost
  BY <1>3, <1>5 DEF DeleteLost, vars, netVars
<1>6. CASE GraceEnds
  <2>1. ~(Live /\ rec.state = "suspended")
    BY <1>3 DEF Live
  <2> QED BY <1>3, <1>6, <2>1 DEF GraceEnds, GraceExpire, connVars, netVars
<1>7. CASE Accept(c)
  <2>1. pc[c] = "accepting" /\ rec = NoRec
    BY <1>3, <1>7 DEF Accept, BeginSession
  <2>2. StartSession(c) /\ up' = up /\ tasks' = tasks
    BY <1>7, <2>1 DEF Accept, BeginSession, ResumeSession, AdoptSession, RejectBusy, Live
  <2>3. rec'.state = "active" /\ pc'[c] = "loop"
    BY <1>1, <2>2 DEF StartSession, Attached, FreshRecording, Goto, TypeOK
  <2> QED BY <1>3, <2>1, <2>2, <2>3
<1>8. ASSUME ReceiveChunk(c) \/ ReceiveConfig(c) PROVE Discarding(up'[c])
  <2>1. PICK kind \in {"pcm", "config"} : Took(c, kind)
    BY <1>8 DEF ReceiveChunk, ReceiveConfig
  <2>2. /\ up[c] \in Seq(Frames) /\ up[c] # <<>> /\ Discarding(up[c])
        /\ Head(up[c]).kind = kind /\ up'[c] = Tail(up[c])
    BY <1>3, <2>1 DEF Took, ProtocolInv, WireOK
  <2>3. kind # "discard"
    BY <2>1
  <2> QED BY <2>2, <2>3, DiscardingTail
<1>9. CASE ReceiveChunk(c)
  <2>1. pc[c] = "loop" /\ pc' = pc /\ tasks' = tasks
    BY <1>9 DEF ReceiveChunk, HandleAudioChunk, connVars
  <2>2. rec' # NoRec => rec'.state = "active"
    <3>1. CASE Live
      <4>1. rec \in Recordings /\ rec.state = "active"
        BY <1>1, <1>3, <2>1, <3>1 DEF Live, TypeOK
      <4>2. rec' = ChunkAdded(rec, sent + 1)
        BY <1>9, <3>1 DEF ReceiveChunk, HandleAudioChunk
      <4> QED BY <4>1, <4>2 DEF ChunkAdded, Recordings
    <3>2. CASE ~Live
      BY <1>9, <3>2 DEF ReceiveChunk, HandleAudioChunk, Live
    <3> QED BY <3>1, <3>2
  <2> QED BY <1>8, <1>9, <2>1, <2>2
<1>10. CASE ReceiveConfig(c)
  <2>1. pc[c] = "loop" /\ pc' = pc /\ tasks' = tasks
    BY <1>10 DEF ReceiveConfig, Took, HandleConfig, connVars, vars
  <2>2. rec' # NoRec => rec'.state = "active"
    <3>1. CASE UNCHANGED vars
      BY <1>3, <2>1, <3>1 DEF vars
    <3>2. CASE HandleConfig(c)
      <4>1. rec \in Recordings /\ rec.state = "active" /\ rec' = WavOpened(rec)
        BY <1>1, <1>3, <2>1, <3>2 DEF HandleConfig, Live, TypeOK
      <4> QED BY <4>1 DEF WavOpened, Recordings
    <3> QED BY <1>10, <3>1, <3>2 DEF ReceiveConfig
  <2> QED BY <1>8, <1>10, <2>1, <2>2
<1>11. CASE ReceiveDiscard(c)
  BY <1>1, <1>11 DEF ReceiveDiscard, Discard, DiscardRecording, Goto, TypeOK
<1> QED
  BY <1>4, <1>5, <1>6, <1>7, <1>9, <1>10, <1>11, PartedMoves DEF NetStep

\* Without audio there is nothing to make a task of.
LEMMA MuteMakesNoTask ==
    ASSUME ProtocolInv, SessionInv, EveryChunkHasOneFate, NetStep, sent = 0
    PROVE  tasks' = tasks
<1>1. ~CreatesTask
  BY NoAudioNoTask
<1>2. [Next]_vars
  BY NetIsServer
<1> QED
  BY <1>1, <1>2 DEF Next, ConnStep, BeginSession, HandleAudioChunk, AudioChunkFails, HandleConfig,
     ConfigFails, Disconnect, Discard, DiscardRecording, StopStreaming, Stop, FinishStop, Finalize,
     FinalizeAudio, FinalizeFails, GraceExpire, Delete, Crash, vars

LEMMA CutsOnlyGrow == NetStep => cut \subseteq cut'
  BY DEF NetStep, Cut, ReceiveDelete, DeleteLost, GraceEnds, Accept, ReceiveChunk, ReceiveConfig,
     ReceiveStop, AnswerStop, ReceiveDiscard, ReceiveClose, netVars

LEMMA CancelOfClient ==
    ASSUME ProtocolInv, ProtocolInv', SessionInv, EveryChunkHasOneFate, OrderInv, CancelInv,
           ClientStep
    PROVE  CancelInv'
<1>1. /\ PageInv /\ down \in [Conns -> Seq(Events)]
      /\ UNCHANGED <<vars, cut>>
  BY ClientLeavesServer DEF ProtocolInv, OrderInv
<1>2. ServerAnswers'
  BY <1>1, ServerAnswersStep DEF CancelInv
<1>3. ASSUME Uncancelled' PROVE SocketsInv' /\ LocalIsMute'
  <2>1. SocketsInv /\ LocalIsMute
    BY <1>1, <1>3, GoingEnds DEF CancelInv
  <2> QED BY <1>1, <1>3, <2>1, SocketsStep, LocalStep
<1>4. ASSUME cut = {}, Going' PROVE FirstSocket' \/ Unheeding'
  <2>1. Going /\ Uncancelled
    BY <1>1, <1>4, GoingEnds DEF Going
  <2>2. SocketsInv /\ LocalIsMute /\ (FirstSocket \/ Unheeding)
    BY <1>4, <2>1 DEF CancelInv
  <2> QED BY <1>4, <2>2, FirstOfClient, UnheedingStays
<1>5. ASSUME cut = {}, Cancelled', CancelRecording
      PROVE  cl'.mic = "off" /\ cl'.stop # "gap" /\ (Mute' \/ \E c \in Conns : Parted(c)')
  <2>1. cl.ui = "recording" /\ "abandoned" \notin endings
    BY <1>5 DEF CancelRecording, MayCancel, Cancelled
  <2>2. "cancelled" \notin endings
    BY <2>1 DEF ProtocolInv, CancelsCounted
  <2>3. Going
    BY <2>1, <2>2 DEF Going, Uncancelled
  <2>4. FirstSocket \/ Unheeding
    BY <1>5, <2>3 DEF CancelInv
  <2>5. cl'.mic = "off" /\ cl'.stop = cl.stop
    <3>1. cl \in Client /\ cl' = [Reset(cl) EXCEPT !.ui = "cancelling"]
      BY <1>1, <1>5 DEF CancelRecording, PageInv
    <3> QED BY <3>1, ResetPage DEF AudioOff
  <2>6. cl'.stop # "gap"
    BY <1>1, <2>1, <2>5 DEF PageInv, StartedInOrder
  <2>7. FirstSocket => \E c \in Conns : Parted(c)'
    BY <1>5, <2>1, <2>3, CancelParts DEF CancelInv
  <2>8. Unheeding => Mute'
    BY ClientStaysMute DEF Unheeding
  <2> QED BY <2>4, <2>5, <2>6, <2>7, <2>8
<1>6. ASSUME cut = {}, Cancelled', ~CancelRecording
      PROVE  cl'.mic = "off" /\ cl'.stop # "gap" /\ (Mute' \/ \E c \in Conns : Parted(c)')
  <2>1. Cancelled
    BY <1>1, <1>6, OnlyCancelDeletes, PageMoves DEF Cancelled
  <2>2. cl.mic = "off" /\ cl.stop # "gap" /\ (Mute \/ \E c \in Conns : Parted(c))
    BY <1>6, <2>1 DEF CancelInv
  <2> QED BY <2>1, <2>2, PartedOfClient, ClientStaysMute
<1> QED BY <1>1, <1>2, <1>3, <1>4, <1>5, <1>6 DEF CancelInv

LEMMA CancelOfNet ==
    ASSUME ProtocolInv, ProtocolInv', SessionInv, EveryChunkHasOneFate, OrderInv, CancelInv,
           NetStep
    PROVE  CancelInv'
<1>1. UNCHANGED <<cl, sock, endings>> /\ down \in [Conns -> Seq(Events)]
  BY NetLeavesPage DEF OrderInv
<1>2. ServerAnswers /\ ServerAnswers'
  BY <1>1, ServerAnswersStep DEF CancelInv
<1>3. (Uncancelled' <=> Uncancelled) /\ (Going' <=> Going) /\ (Cancelled' <=> Cancelled)
  BY <1>1 DEF Uncancelled, Going, Cancelled
<1>4. ASSUME Uncancelled' PROVE SocketsInv' /\ LocalIsMute'
  <2>1. SocketsInv /\ LocalIsMute
    BY <1>3, <1>4 DEF CancelInv
  <2>2. SocketsInv'
    BY <1>1, <2>1 DEF SocketsInv, RolesInTime, OneAtATime, Used, InUse, Lives, Belongs, Going,
       Uncancelled
  <2> QED BY <1>4, <2>1, <2>2, LocalStep
<1>5. Mute => Mute'
  BY NetStaysMute
<1>6. ASSUME cut' = {} PROVE cut = {}
  BY <1>6, CutsOnlyGrow
<1>7. ASSUME cut' = {}, Going' PROVE FirstSocket' \/ Unheeding'
  <2>1. Going /\ (FirstSocket \/ Unheeding)
    BY <1>3, <1>6, <1>7 DEF CancelInv
  <2>2. Unheeding => Unheeding'
    BY <1>1, <1>5 DEF Unheeding
  <2> QED BY <1>2, <1>7, <2>1, <2>2, FirstOfNet
<1>8. ASSUME cut' = {}, Cancelled'
      PROVE  cl'.mic = "off" /\ cl'.stop # "gap" /\ (Mute' \/ \E c \in Conns : Parted(c)')
  <2>1. cl.mic = "off" /\ cl.stop # "gap" /\ (Mute \/ \E c \in Conns : Parted(c))
    BY <1>3, <1>6, <1>8 DEF CancelInv
  <2> QED BY <1>1, <1>2, <1>5, <1>8, <2>1, PartedOfNet
<1> QED BY <1>2, <1>4, <1>7, <1>8 DEF CancelInv

LEMMA CancelStep ==
    ProtocolInv /\ ProtocolInv' /\ SessionInv /\ EveryChunkHasOneFate /\ OrderInv /\ CancelInv
      /\ [ProtocolNext]_protocolVars
      => CancelInv'
<1> SUFFICES ASSUME ProtocolInv, ProtocolInv', SessionInv, EveryChunkHasOneFate, OrderInv,
                    CancelInv, [ProtocolNext]_protocolVars
             PROVE  CancelInv'
  OBVIOUS
<1>1. CASE UNCHANGED protocolVars
  <2> USE <1>1 DEF protocolVars, vars, clientVars, netVars, history
  <2>1. ServerAnswers' /\ (Uncancelled' <=> Uncancelled)
    BY DEF CancelInv, ServerAnswers, Used, Uncancelled
  <2>2. (Going' <=> Going) /\ (Cancelled' <=> Cancelled) /\ (Mute <=> Mute')
    BY DEF Going, Uncancelled, Cancelled, Mute, HasAudio
  <2>3. ASSUME Uncancelled' PROVE SocketsInv' /\ LocalIsMute'
    <3>1. SocketsInv /\ LocalIsMute
      BY <2>1, <2>3 DEF CancelInv
    <3>2. SocketsInv'
      BY <2>2, <3>1 DEF SocketsInv, RolesInTime, OneAtATime, Used, InUse, Lives, Belongs
    <3>3. LocalIsMute'
      BY <2>2, <3>1 DEF LocalIsMute, Says
    <3> QED BY <3>2, <3>3
  <2>4. (FirstSocket => FirstSocket') /\ (Unheeding => Unheeding')
    BY <2>2 DEF FirstSocket, Unheeding, Used, InUse, IsOpen, Says
  <2>5. \A c \in Conns : Parted(c) => Parted(c)'
    BY DEF Parted, Used, Live
  <2> QED BY <2>1, <2>2, <2>3, <2>4, <2>5 DEF CancelInv
<1> QED BY <1>1, CancelOfClient, CancelOfNet DEF ProtocolNext, NetStep

LEMMA CancelStarts == ProtocolInit => CancelInv
<1> SUFFICES ASSUME ProtocolInit PROVE CancelInv
  OBVIOUS
<1>1. ServerAnswers /\ SocketsInv /\ LocalIsMute
  <2>1. WholeInv /\ Uncancelled
    BY WholeStarts DEF ProtocolInit, Uncancelled
  <2> QED BY <2>1 DEF WholeInv
<1>2. /\ pc = [c \in Conns |-> "accepting"]
      /\ sock = [c \in Conns |-> [ready |-> "unused", role |-> "none"]]
      /\ cl.start = "none" /\ cl.opened = "pending" /\ ~cl.retry
      /\ endings = {}
      /\ up = [c \in Conns |-> <<>>] /\ down = [c \in Conns |-> <<>>]
  BY DEF ProtocolInit, Init
<1>3. FirstSocket
  BY <1>2 DEF FirstSocket, Used, Says
<1> QED BY <1>1, <1>2, <1>3 DEF CancelInv, Cancelled

\* A cancelled recording leaves no task (wsRecorderClient.ts: cancelRecording;
\* record.py: the discard frame and DELETE).  For the time before the first cut
\* the invariant is about one socket: the discard is on its wire ahead of the
\* close, so whatever the server still takes from it, the session it has is
\* discarded before anything could finalize it.  Without a socket the
\* recording was local, and the server has heard nothing.
THEOREM CancelLeavesNoTask == ProtocolSpec => CancelledLeavesNoTask
<1>1. ASSUME ProtocolInv, SessionInv, EveryChunkHasOneFate, CancelInv,
             [ProtocolNext]_protocolVars, Cancelled, cut = {}
      PROVE  tasks' = tasks
  <2>1. CASE ClientStep \/ UNCHANGED protocolVars
    BY <2>1, ClientLeavesServer DEF protocolVars, vars
  <2>2. CASE NetStep
    <3>1. CASE \E c \in Conns : Cut(c)
      BY <3>1 DEF Cut, vars
    <3>2. CASE ~\E c \in Conns : Cut(c)
      <4>1. cut' = {}
        BY <1>1, <2>2, <3>2 DEF NetStep, ReceiveDelete, DeleteLost, GraceEnds, Accept, ReceiveChunk,
           ReceiveConfig, ReceiveStop, AnswerStop, ReceiveDiscard, ReceiveClose, netVars
      <4>2. ServerAnswers /\ (Mute \/ \E c \in Conns : Parted(c))
        BY <1>1 DEF CancelInv
      <4>3. Mute => sent = 0
        BY DEF Mute
      <4> QED BY <1>1, <2>2, <4>1, <4>2, <4>3, MuteMakesNoTask, PartedOfNet
    <3> QED BY <3>1, <3>2
  <2> QED BY <1>1, <2>1, <2>2 DEF ProtocolNext, NetStep
<1>2. ProtocolInv /\ SessionInv /\ EveryChunkHasOneFate /\ CancelInv
        /\ [ProtocolNext]_protocolVars
        => ["cancelled" \in endings /\ "abandoned" \notin endings /\ cut = {} =>
              tasks' = tasks]_protocolVars
  BY <1>1 DEF Cancelled
<1>3. ProtocolSpec => []SessionInv /\ []EveryChunkHasOneFate
  BY ServerIsRecordSession, SessionInvariant, NoAudioVanishes, PTL
<1>4. ProtocolSpec => []OrderInv
  BY <1>3, OrderStarts, OrderStep, ProtocolInvariant, PTL DEF ProtocolSpec
<1>5. ProtocolSpec => []CancelInv
  BY <1>3, <1>4, CancelStarts, CancelStep, ProtocolInvariant, PTL DEF ProtocolSpec
<1> QED
  BY <1>2, <1>3, <1>5, ProtocolInvariant, PTL DEF ProtocolSpec, CancelledLeavesNoTask

=============================================================================

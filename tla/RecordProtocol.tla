---------------------------- MODULE RecordProtocol ----------------------------
(***************************************************************************)
(* One recording end to end: the web client (recorder.ts and               *)
(* wsRecorderClient.ts) and the server of RecordSession, joined by         *)
(* websockets that deliver in order until the network cuts them.           *)
(*                                                                         *)
(* startRecording is called once, for one recording id.  JavaScript runs   *)
(* one task at a time: a stretch between two awaits, or one event handler, *)
(* is one action.  Time is left out: a timeout may end whenever it is      *)
(* running (ReconnectLoop has the numbers), and finalizeGapCapture keeps   *)
(* what the gap recorder heard (GapCapture has its slices).                *)
(***************************************************************************)
EXTENDS RecordSession, FiniteSets

CONSTANT Outages   \* bound: connections the network may cut

VARIABLES
    cl,      \* the client's own fields, a record
    sock,    \* each socket as the browser sees it: readyState and handlers
    gap,     \* audio of the gap recorder: gapChunks and gapBlob
    local,   \* audio of the local recorder, when there is no server
    deletes, \* DELETE requests under way
    up,      \* frames on their way to the server, and the final close
    down,    \* events on their way to the client: open, status frames, close
    cut,     \* connections the network has cut
    spoken,  \* units of audio the microphone has picked up
    carried, \* history: the unit each chunk of the server is
    saved,   \* history: units uploaded or downloaded by the client itself
    missing, \* history: units lost on the wire, or that nobody listened to
    endings  \* history: how the recording ended for the user

clientVars == <<cl, sock, gap, local>>
netVars == <<up, down, cut>>
history == <<spoken, carried, saved, missing, endings>>
protocolVars == <<vars, clientVars, deletes, netVars, history>>

\* recorder.ts: state, how far startRecording and stopRecording have got,
\* localMode, and what of the microphone is running; wsRecorderClient.ts: ws,
\* the promise of connect(), reconnecting, a pending reconnectTimer,
\* probeSock and whether there is a gapRecorder.
Client ==
    [ui : {"idle", "preparing", "recording", "stopping", "cancelling", "done", "gone"},
     start : {"none", "media", "open", "graph", "ready", "over"},
     stop : {"none", "local", "gap", "deliver", "undelivered"},
     mic : {"off", "stream", "local"},
     stream : BOOLEAN,
     ws : Conns \cup {Nobody},
     opened : {"pending", "yes", "no"},
     reconnecting : BOOLEAN, retry : BOOLEAN,
     probe : Conns \cup {Nobody},
     gapRec : BOOLEAN]

\* readyState, and whose handlers are installed.
Sockets ==
    [ready : {"unused", "connecting", "open", "closing", "closed"},
     role : {"none", "fresh", "attached", "probe", "deliver"}]

Frame(kind) == [kind |-> kind, unit |-> 0]
Pcm(u) == [kind |-> "pcm", unit |-> u]

ProtocolInit ==
    /\ Init
    /\ cl = [ui |-> "idle", start |-> "none", stop |-> "none", mic |-> "off",
             stream |-> FALSE, ws |-> Nobody, opened |-> "pending",
             reconnecting |-> FALSE, retry |-> FALSE, probe |-> Nobody,
             gapRec |-> FALSE]
    /\ sock = [c \in Conns |-> [ready |-> "unused", role |-> "none"]]
    /\ gap = {} /\ local = {}
    /\ deletes = 0
    /\ up = [c \in Conns |-> <<>>] /\ down = [c \in Conns |-> <<>>]
    /\ cut = {}
    /\ spoken = 0 /\ carried = <<>>
    /\ saved = {} /\ missing = {}
    /\ endings = {}

-----------------------------------------------------------------------------
(* Sockets.                                                                *)

\* Connections are used in order; the next one is the argument of the actions
\* that open a socket.
Unused(c) == sock[c].ready = "unused" /\ \A d \in Conns : d < c => sock[d].ready # "unused"

IsOpen(k) == k.ws # Nobody /\ sock[k.ws].ready = "open"

\* What a client step does to its sockets: frames are sent on `on`, then the
\* sockets in `closing` are closed.
Socks(closing) ==
    [c \in Conns |->
        IF c \in closing /\ sock[c].ready \in {"connecting", "open"}
          THEN [sock[c] EXCEPT !.ready = "closing"] ELSE sock[c]]

Sends(on, frames, closing) ==
    up' = [c \in Conns |->
             IF c \in cut THEN up[c]
             ELSE up[c] \o (IF c = on THEN frames ELSE <<>>)
                        \o (IF sock[c].ready \in {"connecting", "open"} /\ c \in closing
                              THEN <<Frame("close")>> ELSE <<>>)]

Open(c, role) == sock' = [sock EXCEPT ![c] = [ready |-> "connecting", role |-> role]]

\* cancelReconnectLoop and close, as sets of sockets to close.
ProbeOf(k) == IF k.probe = Nobody THEN {} ELSE {k.probe}
WsOf(k) == IF k.ws = Nobody THEN {} ELSE {k.ws}

LoopCancelled(k) == [k EXCEPT !.retry = FALSE, !.probe = Nobody, !.reconnecting = FALSE]

\* teardownAudio: graph, local recorder and tracks, but not the gap recorder.
Quiet(k) == [k EXCEPT !.mic = "off", !.stream = FALSE]

\* What a stop and a reset do before teardownAudio: cancelReconnectLoop, and
\* finalizeGapCapture or discardGap, which leave no gap recorder.
Ungapped(k) == [LoopCancelled(k) EXCEPT !.gapRec = FALSE]

\* Mutant: resetAll does not end the reconnect loop.
ResetKeepingLoop(k) == [Quiet(k) EXCEPT !.gapRec = FALSE, !.ws = Nobody]

\* resetAll, but for the sockets and the gap.
Reset(k) == [Quiet(Ungapped(k)) EXCEPT !.ws = Nobody]

-----------------------------------------------------------------------------
(* startRecording.                                                         *)

StartRecording(c) ==
    /\ cl.ui = "idle" /\ cl.start = "none"
    /\ Unused(c)
    /\ Open(c, "fresh")
    /\ cl' = [cl EXCEPT !.ui = "preparing", !.start = "media", !.ws = c]
    /\ UNCHANGED <<vars, gap, local, deletes, netVars, history>>

\* Mutant: cancelling closes the socket without a discard frame.
DiscardsNothing(k) == <<>>

\* The discard frame is only sent on an open socket.
Discards(k) == IF IsOpen(k) THEN <<Frame("discard")>> ELSE <<>>

\* The permission prompt is refused.
MediaFails ==
    /\ cl.start = "media"
    /\ cl' = [cl EXCEPT !.ui = "idle", !.start = "over", !.ws = Nobody]
    /\ sock' = Socks(WsOf(cl))
    /\ Sends(cl.ws, Discards(cl), WsOf(cl))
    /\ UNCHANGED <<vars, gap, local, deletes, down, cut, history>>

\* attach; without a socket it does nothing.
Attach(k) ==
    sock' = [c \in Conns |->
               IF c = k.ws THEN [sock[c] EXCEPT !.role = "attached"] ELSE sock[c]]

MediaAcquired ==
    /\ cl.start = "media"
    /\ LET k == [cl EXCEPT !.stream = TRUE] IN
       IF cl.ws # Nobody /\ ~IsOpen(cl)
         THEN cl' = [k EXCEPT !.start = "open"] /\ UNCHANGED sock
         ELSE cl' = [k EXCEPT !.start = "graph"] /\ Attach(cl)
    /\ UNCHANGED <<vars, gap, local, deletes, netVars, history>>

\* connect's open timeout, which only counts while preparing.
OpenTimeout ==
    /\ cl.ui = "preparing" /\ cl.opened = "pending"
    /\ cl.ws # Nobody /\ sock[cl.ws].ready = "connecting"
    /\ cl' = [cl EXCEPT !.opened = "no"]
    /\ UNCHANGED <<vars, sock, gap, local, deletes, netVars, history>>

SocketOpened ==
    /\ cl.start = "open" /\ cl.opened = "yes"
    /\ cl' = [cl EXCEPT !.start = "graph"]
    /\ Attach(cl)
    /\ UNCHANGED <<vars, gap, local, deletes, netVars, history>>

\* close, and record locally.
GoLocal ==
    /\ cl' = [cl EXCEPT !.start = "ready", !.mic = "local", !.ws = Nobody]
    /\ sock' = Socks(WsOf(cl))
    /\ Sends(Nobody, <<>>, WsOf(cl))
    /\ UNCHANGED <<vars, gap, local, deletes, down, cut, history>>

SocketFailed == cl.start = "open" /\ cl.opened = "no" /\ GoLocal
GraphFails == cl.start = "graph" /\ GoLocal

\* startStreaming returns: audio flows, and the rate is announced.
GraphReady ==
    /\ cl.start = "graph"
    /\ cl' = [cl EXCEPT !.start = "ready", !.mic = "stream"]
    /\ Sends(cl.ws, IF IsOpen(cl) THEN <<Frame("config")>> ELSE <<>>, {})
    /\ UNCHANGED <<vars, sock, gap, local, deletes, down, cut, history>>

\* The wake lock is there, or not; the page shows that it is recording.
Ready ==
    /\ cl.start = "ready"
    /\ cl' = [cl EXCEPT !.start = "over", !.ui = "recording"]
    /\ UNCHANGED <<vars, sock, gap, local, deletes, netVars, history>>

\* The microphone picks up a unit of audio.
Speak ==
    LET u == spoken + 1
        heard == IF cl.mic = "local" THEN TRUE
                 ELSE IF IsOpen(cl) THEN cl.ws \notin cut ELSE cl.gapRec
    IN  /\ cl.mic # "off"
        /\ spoken < MaxChunks
        /\ spoken' = u
        /\ local' = IF cl.mic = "local" THEN local \cup {u} ELSE local
        /\ Sends(cl.ws, IF cl.mic = "stream" /\ IsOpen(cl) THEN <<Pcm(u)>> ELSE <<>>, {})
        /\ gap' = IF cl.mic = "stream" /\ ~IsOpen(cl) /\ cl.gapRec THEN gap \cup {u} ELSE gap
        /\ missing' = IF heard THEN missing ELSE missing \cup {u}
        /\ UNCHANGED <<vars, cl, sock, deletes, down, cut, carried, saved, endings>>

-----------------------------------------------------------------------------
(* The reconnect loop.                                                     *)

\* handleConnectionLost; with `late` the deadline has passed.
Lost(k, late) ==
    IF k.ui # "recording" THEN k
    ELSE LET l == [k EXCEPT !.ws = Nobody, !.gapRec = k.gapRec \/ k.stream] IN
         IF late /\ k.reconnecting /\ ~k.retry THEN LoopCancelled(l)
         ELSE [l EXCEPT !.reconnecting = TRUE, !.retry = TRUE]

\* The backoff timer fires: tryReconnect.
Retry(c) ==
    /\ cl.retry /\ cl.ui = "recording"
    /\ Unused(c)
    /\ Open(c, "probe")
    /\ cl' = [cl EXCEPT !.retry = FALSE, !.probe = c]
    /\ UNCHANGED <<vars, gap, local, deletes, netVars, history>>

\* adoptSocket.
Adopted(k, c) == [k EXCEPT !.ws = c, !.probe = Nobody]

-----------------------------------------------------------------------------
(* Events of a socket.                                                     *)

Delivered(c) == down' = [down EXCEPT ![c] = Tail(@)]
Event(c, kind) == down[c] # <<>> /\ Head(down[c]) = kind

Opened(c, role) == sock' = [sock EXCEPT ![c] = [ready |-> "open", role |-> role]]

\* onopen of the first socket, of a probe and of the stop delivery.
OnOpen(c) ==
    /\ sock[c].ready = "connecting" /\ Event(c, "open")
    /\ Delivered(c)
    /\ \/ /\ sock[c].role = "fresh"
          /\ Opened(c, "fresh")
          /\ cl' = [cl EXCEPT !.opened = IF @ = "pending" THEN "yes" ELSE @]
          /\ UNCHANGED up
       \/ /\ sock[c].role = "probe" /\ cl.ui = "recording"
          /\ Opened(c, "attached")
          /\ cl' = [Adopted(cl, c) EXCEPT !.reconnecting = FALSE, !.gapRec = FALSE]
          /\ Sends(c, <<Frame("config")>>, {})
       \/ /\ sock[c].role = "probe" /\ cl.ui = "stopping"
          /\ Opened(c, "attached")
          /\ cl' = Adopted(cl, c)
          /\ Sends(c, <<Frame("config"), Frame("stop")>>, {})
       \/ /\ sock[c].role = "probe" /\ cl.ui \notin {"recording", "stopping"}
          /\ sock' = Socks({c})
          /\ Sends(Nobody, <<>>, {c})
          /\ UNCHANGED cl
       \/ /\ sock[c].role = "deliver"
          /\ Opened(c, "attached")
          /\ cl' = [Adopted(cl, c) EXCEPT !.stop = "none"]
          /\ Sends(c, <<Frame("config"), Frame("stop")>>, {})
    /\ UNCHANGED <<vars, gap, local, deletes, cut, history>>

\* Mutant: on "done" the gap is read after resetAll has discarded it.
GapSavedOnError(result) == result = "error"

GapSaved(result) == result \in {"done", "error"}

\* The recording is over for the client: resetAll, and what becomes of the gap.
Over(ui, result) ==
    /\ cl' = [Reset(cl) EXCEPT !.ui = ui]
    /\ endings' = endings \cup {result}
    /\ saved' = IF GapSaved(result) THEN saved \cup gap ELSE saved
    /\ gap' = {} /\ local' = {}
    /\ sock' = Socks(WsOf(cl) \cup ProbeOf(cl))
    /\ Sends(Nobody, <<>>, WsOf(cl) \cup ProbeOf(cl))

\* {"status":"done"}: the gap is uploaded as a second task.
OnDone(c) ==
    /\ sock[c] = [ready |-> "open", role |-> "attached"] /\ Event(c, "done")
    /\ Delivered(c)
    /\ Over("done", "done")
    /\ UNCHANGED <<vars, deletes, cut, spoken, carried, missing>>

\* {"status":"error"}: the gap is uploaded or downloaded.
OnError(c) ==
    /\ sock[c] = [ready |-> "open", role |-> "attached"] /\ Event(c, "error")
    /\ Delivered(c)
    /\ Over("idle", "error")
    /\ UNCHANGED <<vars, deletes, cut, spoken, carried, missing>>

\* session_busy: swallowed while reconnecting, fatal otherwise.
OnBusy(c) ==
    /\ sock[c] = [ready |-> "open", role |-> "attached"] /\ Event(c, "busy")
    /\ Delivered(c)
    /\ IF cl.reconnecting
         THEN /\ cl' = [cl EXCEPT !.ws = Nobody]
              /\ sock' = Socks(WsOf(cl))
              /\ Sends(Nobody, <<>>, WsOf(cl))
              /\ UNCHANGED <<gap, local, saved, endings>>
         ELSE Over("idle", "busy")
    /\ UNCHANGED <<vars, deletes, cut, spoken, carried, missing>>

\* Frames that change nothing, or that find no handler.
OnOther(c) ==
    /\ down[c] # <<>>
    /\ sock[c].ready # "connecting"
    /\ \/ Head(down[c]) \in {"resumed", "discarded", "open"}
       \/ /\ Head(down[c]) \in {"busy", "done", "error"}
          /\ sock[c] # [ready |-> "open", role |-> "attached"]
    /\ Delivered(c)
    /\ UNCHANGED <<vars, clientVars, deletes, up, cut, history>>

\* The server closed, the network is gone, or the client closed the socket
\* itself and now hears of it.  A socket that never opened fires error and then
\* close, and a probe handles both; giving up also closes a probe under way.
OnClose(c, late) ==
    /\ \/ sock[c].ready = "closing"
       \/ /\ sock[c].ready \in {"connecting", "open"}
          /\ Event(c, "close") \/ (c \in cut /\ down[c] = <<>>)
    /\ down' = [down EXCEPT ![c] = <<>>]
    /\ \/ /\ sock[c].role = "fresh"
          /\ cl' = [cl EXCEPT !.opened = IF @ = "pending" THEN "no" ELSE @]
       \/ /\ sock[c].role = "attached"
          /\ cl' = Lost(cl, late)
       \/ /\ sock[c].role = "probe"
          /\ cl' = Lost([Lost(cl, late) EXCEPT !.probe = IF @ = c THEN Nobody ELSE @], late)
       \/ /\ sock[c].role = "deliver"
          /\ cl' = [cl EXCEPT !.stop = "undelivered"]
    /\ LET ended == ProbeOf(cl) \ (ProbeOf(cl') \cup {c})
       IN  /\ sock' = [Socks(ended) EXCEPT ![c].ready = "closed"]
           /\ Sends(Nobody, <<>>, ended)
    /\ UNCHANGED <<vars, gap, local, deletes, cut, history>>

-----------------------------------------------------------------------------
(* stopRecording, cancelRecording, and the end of the page.                *)

\* Recording locally: 300 ms for the last slice ...
StopLocal ==
    /\ cl.ui = "recording" /\ cl.mic = "local"
    /\ cl' = [cl EXCEPT !.ui = "stopping", !.stop = "local"]
    /\ UNCHANGED <<vars, sock, gap, local, deletes, netVars, history>>

\* ... then the file is uploaded or downloaded, if there is anything in it.  The
\* loop and the gap recorder that a late close event may have started stay.
LocalSaved ==
    /\ cl.stop = "local"
    /\ cl' = [Quiet(cl) EXCEPT !.stop = "none", !.ui = IF local # {} THEN "done" ELSE "idle"]
    /\ saved' = saved \cup local
    /\ endings' = endings \cup {"local"}
    /\ UNCHANGED <<vars, sock, gap, local, deletes, netVars, spoken, carried, missing>>

StopOnline ==
    /\ cl.ui = "recording" /\ cl.mic # "local" /\ IsOpen(cl)
    /\ cl' = [Quiet(Ungapped(cl)) EXCEPT !.ui = "stopping"]
    /\ Sends(cl.ws, <<Frame("stop")>>, ProbeOf(cl))
    /\ sock' = Socks(ProbeOf(cl))
    /\ UNCHANGED <<vars, gap, local, deletes, down, cut, history>>

\* Stop during an outage: first the gap is finalized ...
StopOffline ==
    /\ cl.ui = "recording" /\ cl.mic # "local" /\ ~IsOpen(cl)
    /\ cl' = [Quiet(Ungapped(cl)) EXCEPT !.ui = "stopping", !.stop = "gap"]
    /\ Sends(Nobody, <<>>, ProbeOf(cl))
    /\ sock' = Socks(ProbeOf(cl))
    /\ UNCHANGED <<vars, gap, local, deletes, down, cut, history>>

\* ... then tryDeliverStop makes one attempt ...
DeliverStop(c) ==
    /\ cl.stop = "gap"
    /\ Unused(c)
    /\ Open(c, "deliver")
    /\ cl' = [cl EXCEPT !.stop = "deliver"]
    /\ UNCHANGED <<vars, gap, local, deletes, netVars, history>>

\* ... that its own timeout may end ...
DeliverTimeout(c) ==
    /\ sock[c] = [ready |-> "connecting", role |-> "deliver"]
    /\ sock' = Socks({c})
    /\ Sends(Nobody, <<>>, {c})
    /\ UNCHANGED <<vars, cl, gap, local, deletes, down, cut, history>>

\* ... and without it the gap is uploaded alone.
StopUndelivered ==
    /\ cl.stop = "undelivered"
    /\ cl' = [cl EXCEPT !.stop = "none", !.ui = IF gap # {} THEN "done" ELSE "idle"]
    /\ saved' = saved \cup gap
    /\ gap' = {}
    /\ endings' = endings \cup {"undelivered"}
    /\ UNCHANGED <<vars, sock, local, deletes, netVars, spoken, carried, missing>>

\* The button is disabled while stopping.
MayCancel == cl.ui \in {"preparing", "recording"}

\* The DELETE is sent whatever the socket's state.
CancelRecording ==
    /\ MayCancel
    /\ cl' = [Reset(cl) EXCEPT !.ui = "cancelling"]
    /\ gap' = {}
    /\ endings' = endings \cup {IF cl.ui = "recording" THEN "cancelled" ELSE "abandoned"}
    /\ deletes' = deletes + 1
    /\ sock' = Socks(WsOf(cl) \cup ProbeOf(cl))
    /\ Sends(cl.ws, Discards(cl), WsOf(cl) \cup ProbeOf(cl))
    /\ UNCHANGED <<vars, local, down, cut, spoken, carried, saved, missing>>

\* The timers that end the messages "done" and "cancelled".
BackToIdle ==
    /\ cl.ui \in {"done", "cancelling"}
    /\ cl' = [cl EXCEPT !.ui = "idle"]
    /\ UNCHANGED <<vars, sock, gap, local, deletes, netVars, history>>

\* The tab is closed: beforeunload sends a stop on an open socket.
CloseTab ==
    LET Up == {c \in Conns : sock[c].ready \in {"connecting", "open"}} IN
    /\ cl.ui = "recording"
    /\ cl' = [Reset(cl) EXCEPT !.ui = "gone"]
    /\ gap' = {} /\ local' = {}
    /\ endings' = endings \cup {"gone"}
    /\ sock' = [c \in Conns |-> IF c \in Up THEN [sock[c] EXCEPT !.ready = "closed"] ELSE sock[c]]
    /\ Sends(cl.ws, IF IsOpen(cl) THEN <<Frame("stop")>> ELSE <<>>, Up)
    /\ UNCHANGED <<vars, deletes, down, cut, spoken, carried, saved, missing>>

ClientStep ==
    \/ MediaFails \/ MediaAcquired \/ OpenTimeout \/ SocketOpened \/ SocketFailed
    \/ GraphFails \/ GraphReady \/ Ready \/ Speak
    \/ StopLocal \/ LocalSaved \/ StopOnline \/ StopOffline \/ StopUndelivered
    \/ CancelRecording \/ BackToIdle \/ CloseTab
    \/ \E c \in Conns :
          \/ StartRecording(c) \/ Retry(c) \/ DeliverStop(c) \/ DeliverTimeout(c)
          \/ OnOpen(c) \/ OnDone(c) \/ OnError(c) \/ OnBusy(c) \/ OnOther(c)
          \/ \E late \in BOOLEAN : OnClose(c, late)

-----------------------------------------------------------------------------
(* The server of RecordSession, fed by the wire.                           *)

\* What a step of connection c sends: a status frame, and the end.
Answers(c) ==
    (IF reply'[c] # reply[c] THEN <<reply'[c]>> ELSE <<>>)
      \o (IF pc'[c] = "closed" THEN <<"close">> ELSE <<>>)

Emits(c, events) ==
    down' = IF c \in cut THEN down ELSE [down EXCEPT ![c] = @ \o events]

Accept(c) ==
    /\ sock[c].ready # "unused" /\ c \notin cut
    /\ BeginSession(c)
    /\ Emits(c, <<"open">> \o Answers(c))
    /\ UNCHANGED <<clientVars, deletes, up, cut, history>>

Took(c, kind) ==
    /\ pc[c] = "loop" /\ up[c] # <<>> /\ Head(up[c]).kind = kind
    /\ up' = [up EXCEPT ![c] = Tail(@)]

ReceiveChunk(c) ==
    /\ Took(c, "pcm")
    /\ HandleAudioChunk(c)
    /\ carried' = Append(carried, Head(up[c]).unit)
    /\ UNCHANGED <<clientVars, deletes, down, cut, spoken, saved, missing, endings>>

\* Only the first config frame of a session has an effect.
ReceiveConfig(c) ==
    /\ Took(c, "config")
    /\ IF Live /\ ~rec.rateSet THEN HandleConfig(c) ELSE UNCHANGED vars
    /\ UNCHANGED <<clientVars, deletes, down, cut, history>>

ReceiveStop(c) ==
    /\ Took(c, "stop")
    /\ Stop(c) \/ StopStreaming(c)
    /\ Emits(c, Answers(c))
    /\ UNCHANGED <<clientVars, deletes, cut, history>>

AnswerStop(c) ==
    /\ FinishStop(c)
    /\ Emits(c, Answers(c))
    /\ UNCHANGED <<clientVars, deletes, up, cut, history>>

ReceiveDiscard(c) ==
    /\ Took(c, "discard")
    /\ Discard(c)
    /\ Emits(c, Answers(c))
    /\ UNCHANGED <<clientVars, deletes, cut, history>>

\* A close frame, or the liveness timeout of a connection that was cut.
ReceiveClose(c) ==
    /\ \/ Took(c, "close")
       \/ pc[c] = "loop" /\ c \in cut /\ up[c] = <<>> /\ UNCHANGED up
    /\ Disconnect(c)
    /\ UNCHANGED <<clientVars, deletes, down, cut, history>>

ReceiveDelete ==
    /\ deletes > 0
    /\ deletes' = deletes - 1
    /\ Delete
    /\ UNCHANGED <<clientVars, netVars, history>>

GraceEnds == GraceExpire /\ UNCHANGED <<clientVars, deletes, netVars, history>>

-----------------------------------------------------------------------------
(* The network.                                                            *)

Units(frames) == {frames[i].unit : i \in {j \in DOMAIN frames : frames[j].kind = "pcm"}}

\* A connection is cut: what is on the wire arrives up to some point.
Cut(c) ==
    /\ Cardinality(cut) < Outages
    /\ c \notin cut
    /\ sock[c].ready \in {"connecting", "open"}
    /\ cut' = cut \cup {c}
    /\ \E n \in 0..Len(up[c]), k \in 0..Len(down[c]) :
          /\ up' = [up EXCEPT ![c] = SubSeq(@, 1, n)]
          /\ down' = [down EXCEPT ![c] = SubSeq(@, 1, k)]
          /\ missing' = missing \cup Units(SubSeq(up[c], n + 1, Len(up[c])))
    /\ UNCHANGED <<vars, clientVars, deletes, spoken, carried, saved, endings>>

DeleteLost ==
    /\ deletes > 0 /\ Outages > 0
    /\ deletes' = deletes - 1
    /\ UNCHANGED <<vars, clientVars, netVars, history>>

ProtocolNext ==
    \/ ClientStep
    \/ ReceiveDelete \/ DeleteLost \/ GraceEnds
    \/ \E c \in Conns :
          \/ Accept(c) \/ ReceiveChunk(c) \/ ReceiveConfig(c) \/ ReceiveStop(c)
          \/ AnswerStop(c) \/ ReceiveDiscard(c) \/ ReceiveClose(c) \/ Cut(c)

ProtocolSpec == ProtocolInit /\ [][ProtocolNext]_protocolVars

-----------------------------------------------------------------------------
ProtocolTypeOK ==
    /\ TypeOK
    /\ cl \in Client
    /\ sock \in [Conns -> Sockets]
    /\ gap \subseteq Chunks /\ local \subseteq Chunks
    /\ deletes \in 0..2
    /\ cut \subseteq Conns
    /\ spoken \in 0..MaxChunks
    /\ carried \in Seq(Chunks)

Uncancelled == endings \cap {"cancelled", "abandoned"} = {}

Carried(chunks) == {carried[n] : n \in chunks}

\* Audio on its way to a connection the server has turned away.  After one
\* outage the busy answer ends the recording; a second one may lose the answer.
Unheeded == UNION {Units(up[c]) : c \in {d \in Conns : reply[d] = "busy"}}

\* A recording that ends with "done" is whole: every unit of audio is in a
\* task or in what the client saved itself, unless it was lost on the wire,
\* nobody listened, or the server had turned its connection away.
DoneIsWhole ==
    "done" \in endings /\ Uncancelled =>
        1..spoken \subseteq Carried(InTasks) \cup saved \cup missing \cup Unheeded

\* The audio of a task is in the order it was spoken, across reconnects.
TasksAreInOrder ==
    Uncancelled =>
        \A i \in DOMAIN tasks : \A m, n \in DOMAIN tasks[i] :
            m < n => carried[tasks[i][m]] < carried[tasks[i][n]]

\* An idle page records nothing: the microphone is off and its tracks are ended,
\* however the recording ended and whatever events came late.  Neither is there
\* a gap recorder or a reconnect loop left (resetAll, cancelRecording), but for
\* the end of a local recording, which forgets what the close event of a socket
\* that was given up has started.
IdleIsQuiet ==
  /\ ProtocolTypeOK
  /\ cl.ui = "idle" /\ cl.start \in {"none", "over"} =>
        /\ cl.mic = "off" /\ ~cl.stream
        /\ "local" \in endings \/ (~cl.gapRec /\ ~cl.retry /\ cl.probe = Nobody)

\* The connection a running recording uses is the owner of a live session, once
\* the server has accepted it: no other connection of this client takes the
\* session away or suspends it (attach_owner, cancelReconnectLoop).
UsedSocketOwns ==
    \A c \in Conns :
        cl.ui = "recording" /\ cl.ws = c /\ pc[c] = "loop"
          /\ Uncancelled =>
            Live /\ rec.state = "active" /\ rec.owner = c

\* While no connection has been cut, no task appears after the cancel of a
\* running recording: the discard frame, the close and the DELETE arrive in any
\* order, or the DELETE never does.
CancelledLeavesNoTask ==
    []["cancelled" \in endings /\ "abandoned" \notin endings /\ cut = {} =>
          tasks' = tasks]_protocolVars

\* "While reconnecting this is just a stale owner: retry on the next backoff
\* tick": a busy answer to a running recording does not end it.
BusyIsRetried ==
    [][cl.ui = "recording" /\ cl.mic = "stream" /\ "busy" \in endings' => "busy" \in endings]_protocolVars

\* "No-op while the socket is not OPEN (the gap recorder covers such windows)"
\* (wsRecorderClient.ts:157-158).  It does not hold after a cancel during
\* startRecording, which goes on without a socket.
ClosedSocketIsCovered ==
    cl.ui = "recording" /\ cl.mic = "stream" /\ ~IsOpen(cl) => cl.gapRec
=============================================================================

---------------------------- MODULE ReconnectLoop ----------------------------
(***************************************************************************)
(* The reconnect loop of the web client (wsRecorderClient.ts, lines        *)
(* 287-407) in whole seconds: exponential backoff, give-up deadline, and   *)
(* the probe socket.  What the frames on an adopted socket then do is      *)
(* RecordProtocol's subject.                                               *)
(***************************************************************************)
EXTENDS Integers

CONSTANTS
    Base,      \* RECONNECT_BASE_MS, in seconds
    MaxDelay,  \* RECONNECT_MAX_MS
    GiveUp,    \* RECONNECT_GIVE_UP_MS
    ProbeMax   \* bound: how long an attempt to connect may take

ReconnectAssumption ==
    /\ Base \in Nat \ {0}
    /\ MaxDelay \in Nat /\ MaxDelay >= Base
    /\ GiveUp \in Nat \ {0}
    /\ ProbeMax \in Nat

ASSUME ReconnectAssumption

NoTimer == -1

VARIABLES
    recording,  \* the UI is in state 'recording'
    connected,  \* this.ws is an open socket
    loop,       \* the loop's own fields, a record
    probe,      \* age of the connection attempt in flight, NoProbe if none
    gaveUp      \* history: giveUpReconnect has run in the latest outage

vars == <<recording, connected, loop, probe, gaveUp>>

NoProbe == -1

\* reconnecting, the delay that reconnectAttempt stands for (Base * 2^attempt,
\* MaxDelay at most), Date.now() - reconnectStartedAt, and the seconds left on
\* reconnectTimer.
Idle == [reconnecting |-> FALSE, delay |-> Base, elapsed |-> 0, wait |-> NoTimer]

\* The delay of the attempt after one with this delay.
NextDelay(delay) == IF 2 * delay < MaxDelay THEN 2 * delay ELSE MaxDelay

\* Mutant: the pending attempt survives the end of the loop.
CancelledKeepingTimer(l) == [Idle EXCEPT !.wait = l.wait]

\* cancelReconnectLoop.
Cancelled(l) == Idle

\* Mutant: no deadline.
ScheduledForEver(l) ==
    IF l.wait # NoTimer THEN l
    ELSE [l EXCEPT !.wait = l.delay, !.delay = NextDelay(@)]

\* scheduleReconnect: one timer at a time, and none beyond the deadline.
Scheduled(l) ==
    IF l.wait # NoTimer THEN l
    ELSE IF l.elapsed >= GiveUp THEN Cancelled(l)
    ELSE [l EXCEPT !.wait = l.delay, !.delay = NextDelay(@)]

\* scheduleReconnect finds the deadline passed: giveUpReconnect.
GivesUp(l) == l.reconnecting /\ l.wait = NoTimer /\ l.elapsed >= GiveUp

\* Mutant: what fails while the loop runs is nothing new, and nothing is done.
LostOnce(l) ==
    IF l.reconnecting THEN l
    ELSE Scheduled([Idle EXCEPT !.reconnecting = TRUE, !.wait = l.wait])

\* handleConnectionLost while recording.
Lost(l) ==
    IF l.reconnecting THEN Scheduled(l)
    ELSE Scheduled([Idle EXCEPT !.reconnecting = TRUE, !.wait = l.wait])

Init ==
    /\ recording = TRUE
    /\ connected = TRUE
    /\ loop = Idle
    /\ probe = NoProbe
    /\ gaveUp = FALSE

\* The open socket drops.
Drop ==
    /\ recording /\ connected
    /\ connected' = FALSE
    /\ loop' = Lost(loop)
    /\ gaveUp' = FALSE
    /\ UNCHANGED <<recording, probe>>

\* The backoff timer fires: tryReconnect opens the probe socket.
FireTimer ==
    /\ loop.wait = 0
    /\ loop' = [loop EXCEPT !.wait = NoTimer]
    /\ probe' = IF recording THEN 0 ELSE NoProbe
    /\ UNCHANGED <<recording, connected, gaveUp>>

\* The probe cannot connect: the browser fires error and then close in one
\* task, and both handlers run handleConnectionLost.  If the first gives up, the
\* second starts a new cycle.
ProbeFails ==
    /\ probe # NoProbe
    /\ probe' = NoProbe
    /\ loop' = IF recording THEN Lost(Lost(loop)) ELSE loop
    /\ gaveUp' = (gaveUp \/ (recording /\ GivesUp(loop)))
    /\ UNCHANGED <<recording, connected>>

\* The probe opens and is adopted (adoptSocket with resume).
ProbeOpens ==
    /\ probe # NoProbe
    /\ recording
    /\ probe' = NoProbe
    /\ connected' = TRUE
    /\ loop' = [loop EXCEPT !.reconnecting = FALSE, !.delay = Base, !.elapsed = 0]
    /\ UNCHANGED <<recording, gaveUp>>

\* Stop or cancel: cancelReconnectLoop also closes a probe that is not open.
EndRecording ==
    /\ recording
    /\ recording' = FALSE
    /\ loop' = Cancelled(loop)
    /\ probe' = NoProbe
    /\ UNCHANGED <<connected, gaveUp>>

\* No cycle has an attempt that ends later than this after it began.
LastSecond == GiveUp + MaxDelay + ProbeMax

\* A second passes.  A timer that is due fires first, and an attempt to
\* connect ends within ProbeMax.  LastSecond bounds the clock; CycleIsBounded
\* says that it never stops one.
Tick ==
    /\ recording /\ ~connected
    /\ loop.wait # 0
    /\ probe < ProbeMax
    /\ loop.elapsed <= LastSecond
    /\ loop' = [loop EXCEPT !.elapsed = IF loop.reconnecting THEN @ + 1 ELSE @,
                            !.wait = IF @ = NoTimer THEN @ ELSE @ - 1]
    /\ probe' = IF probe = NoProbe THEN NoProbe ELSE probe + 1
    /\ UNCHANGED <<recording, connected, gaveUp>>

Next == Drop \/ FireTimer \/ ProbeFails \/ ProbeOpens \/ EndRecording \/ Tick

Spec == Init /\ [][Next]_vars

\* Time passes, browser timers fire, and an attempt ends, one way or the other.
FairSpec ==
    /\ Spec
    /\ WF_vars(Tick) /\ WF_vars(FireTimer)
    /\ WF_vars(ProbeFails \/ ProbeOpens)

-----------------------------------------------------------------------------
TypeOK ==
    /\ recording \in BOOLEAN /\ connected \in BOOLEAN /\ gaveUp \in BOOLEAN
    /\ loop \in [reconnecting : BOOLEAN, delay : Base..MaxDelay,
                 elapsed : Nat, wait : NoTimer..MaxDelay]
    /\ probe \in NoProbe..ProbeMax

\* A loop that is running always has its next event coming: a reconnect never
\* stalls between two attempts (scheduleReconnect, handleConnectionLost).
LoopNeverStalls ==
    loop.reconnecting => loop.wait # NoTimer \/ probe # NoProbe

\* One attempt at a time: no timer runs while a probe is in flight, so two
\* probes never compete for the session.
OneAttemptAtATime == probe # NoProbe => loop.wait = NoTimer

\* Outside a reconnect nothing of the loop is left that could adopt a socket.
QuietWhenNotReconnecting ==
    ~loop.reconnecting => loop.wait = NoTimer /\ probe = NoProbe

\* The loop has one event to wait for at a time, and none when it is not running.
LoopIsExclusive == TypeOK /\ OneAttemptAtATime /\ QuietWhenNotReconnecting

\* The deadline is only looked at when an attempt is scheduled; this is how
\* late the last attempt of a cycle can be.
CycleIsBounded == loop.elapsed <= LastSecond

\* A cycle goes on until it is over, and is over in time.
LoopIsOnTime == LoopNeverStalls /\ CycleIsBounded

\* An outage does not last without a word to the user: the connection is back,
\* or the client has given up and said so, or the user ends the recording
\* (scheduleReconnect, giveUpReconnect).  Nothing is assumed about the network.
OutageEnds ==
    (recording /\ ~connected) ~> (connected \/ gaveUp \/ ~recording)

\* "Grace clearly expired server-side: adopting would split the recording.  Keep
\* the gap recorder running as plain local capture" (wsRecorderClient.ts:359-361):
\* once the client has given up, no socket is adopted for the recording.  It does
\* not hold: the close event that follows the error event of the last probe runs
\* handleConnectionLost once more, which starts the loop again.
GivenUpStaysLocal == gaveUp => ~connected
=============================================================================

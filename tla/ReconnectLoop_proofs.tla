------------------------ MODULE ReconnectLoop_proofs ------------------------
(* The backoff loop for every choice of its delays and deadline.           *)
EXTENDS ReconnectLoop, TLAPS

USE ReconnectAssumption DEF ReconnectAssumption, NoTimer, NoProbe

Loops == [reconnecting : BOOLEAN, delay : Base..MaxDelay, elapsed : Nat,
          wait : NoTimer..MaxDelay]

\* The loop runs between the loss of a socket and the next one, for a
\* recording that goes on.
LoopHasCause ==
    /\ loop.reconnecting => recording /\ ~connected
    /\ ~loop.reconnecting => loop.elapsed = 0

\* An attempt is only scheduled before the deadline, so its timer fires and it
\* ends a known time after it.
AttemptIsEarly ==
    /\ loop.wait # NoTimer => loop.elapsed + loop.wait < GiveUp + MaxDelay
    /\ probe # NoProbe => loop.elapsed < GiveUp + MaxDelay + probe

LoopInv ==
    /\ TypeOK /\ OneAttemptAtATime /\ QuietWhenNotReconnecting
    /\ LoopNeverStalls /\ LoopHasCause /\ AttemptIsEarly

\* A loop is idle, or one attempt is scheduled: no later than the deadline.
Waiting(l) ==
    /\ l \in Loops /\ l.reconnecting /\ l.wait # NoTimer
    /\ l.elapsed + l.wait < GiveUp + MaxDelay

\* A loop whose attempt is scheduled is a loop.
LEMMA ScheduledType ==
    ASSUME NEW l \in Loops, NEW d \in Base..MaxDelay, NEW w \in NoTimer..MaxDelay
    PROVE  [l EXCEPT !.wait = w, !.delay = d] \in Loops
  BY DEF Loops

LEMMA IdleType == Idle \in Loops /\ Idle.wait = NoTimer /\ Idle.elapsed = 0
                  /\ ~Idle.reconnecting
  BY DEF Idle, Loops

\* scheduleReconnect arms the timer, or gives up.
LEMMA ScheduledLoop ==
    ASSUME NEW l \in Loops, l.reconnecting, l.wait = NoTimer
    PROVE  Scheduled(l) = Idle \/ Waiting(Scheduled(l))
  <1>1. CASE l.elapsed >= GiveUp
    BY <1>1 DEF Scheduled, Cancelled
  <1>2. CASE ~(l.elapsed >= GiveUp)
    <2> DEFINE new == [l EXCEPT !.wait = l.delay, !.delay = NextDelay(@)]
    <2>1. NextDelay(l.delay) \in Base..MaxDelay /\ l.delay \in NoTimer..MaxDelay
      BY DEF NextDelay, Loops
    <2>2. /\ new \in Loops /\ new.reconnecting /\ new.wait = l.delay
          /\ new.elapsed = l.elapsed
      <3>1. new \in Loops
        BY <2>1, ScheduledType
      <3> QED
        BY <3>1 DEF Loops
    <2>3. Scheduled(l) = new
      BY <1>2 DEF Scheduled
    <2> HIDE DEF new
    <2>4. l.elapsed < GiveUp /\ l.delay \in Base..MaxDelay /\ l.elapsed \in Nat
      BY <1>2 DEF Loops
    <2> QED
      BY <2>2, <2>3, <2>4 DEF Waiting
  <1> QED
    BY <1>1, <1>2

\* handleConnectionLost starts a loop that is not running, and goes on with one
\* that has nothing under way.
LEMMA LostLoop ==
    ASSUME NEW l \in Loops, l.wait = NoTimer
    PROVE  Lost(l) = Idle \/ Waiting(Lost(l))
  <1>1. CASE l.reconnecting
    BY <1>1, ScheduledLoop DEF Lost
  <1>2. CASE ~l.reconnecting
    <2> DEFINE new == [Idle EXCEPT !.reconnecting = TRUE, !.wait = l.wait]
    <2>1. new \in Loops /\ new.reconnecting /\ new.wait = NoTimer
      <3>1. NoTimer \in NoTimer..MaxDelay /\ l.wait = NoTimer
        OBVIOUS
      <3>2. new = [Idle EXCEPT !.reconnecting = TRUE, !.wait = NoTimer]
        BY <3>1
      <3>3. new \in Loops
        BY <3>1, <3>2, IdleType DEF Loops
      <3> QED
        BY <3>2, <3>3, IdleType DEF Loops
    <2>2. Lost(l) = Scheduled(new)
      BY <1>2 DEF Lost
    <2> HIDE DEF new
    <2> QED
      BY <2>1, <2>2, ScheduledLoop
  <1> QED
    BY <1>1, <1>2

\* error and close of one probe: the second call does not disturb an attempt
\* that the first has scheduled.
LEMMA LostTwice ==
    ASSUME NEW l \in Loops, l.wait = NoTimer
    PROVE  Lost(Lost(l)) = Idle \/ Waiting(Lost(Lost(l)))
  <1>1. CASE Lost(l) = Idle
    BY <1>1, IdleType, LostLoop
  <1>2. CASE Waiting(Lost(l))
    BY <1>2 DEF Waiting, Lost, Scheduled
  <1> QED
    BY <1>1, <1>2, LostLoop

\* After a connection is lost the loop waits, or is idle.
LEMMA InvAfterLoss ==
    ASSUME recording', ~connected', probe' = NoProbe,
           recording' \in BOOLEAN, connected' \in BOOLEAN, gaveUp' \in BOOLEAN,
           loop' = Idle \/ Waiting(loop')
    PROVE  LoopInv'
  <1>1. loop' \in Loops
    BY IdleType DEF Waiting
  <1> QED
    BY <1>1, IdleType
    DEF Waiting, LoopInv, TypeOK, Loops, OneAttemptAtATime, QuietWhenNotReconnecting,
        LoopNeverStalls, LoopHasCause, AttemptIsEarly

\* Whether the client gave up is a truth value.
LEMMA GaveUpType ==
    /\ Init => gaveUp \in BOOLEAN
    /\ gaveUp \in BOOLEAN /\ [Next]_vars => gaveUp' \in BOOLEAN
  <1>1. Init => gaveUp \in BOOLEAN
    BY DEF Init
  <1>2. ASSUME gaveUp \in BOOLEAN, [Next]_vars
        PROVE  gaveUp' \in BOOLEAN
    BY <1>2, Zenon DEF Next, vars, Drop, FireTimer, ProbeFails, ProbeOpens,
                       EndRecording, Tick
  <1> QED
    BY <1>1, <1>2

LEMMA InitInv == Init => LoopInv
  BY IdleType, GaveUpType
  DEF Init, LoopInv, TypeOK, Loops, OneAttemptAtATime, QuietWhenNotReconnecting,
      LoopNeverStalls, LoopHasCause, AttemptIsEarly

LEMMA StepInv == LoopInv /\ [Next]_vars => LoopInv'
  <1> SUFFICES ASSUME LoopInv, [Next]_vars
               PROVE  LoopInv'
    OBVIOUS
  <1>0. loop \in Loops /\ probe \in NoProbe..ProbeMax
    BY DEF LoopInv, TypeOK, Loops
  <1>g. gaveUp' \in BOOLEAN
    BY GaveUpType DEF LoopInv, TypeOK
  <1>1. CASE Drop
    <2>1. loop.wait = NoTimer /\ probe = NoProbe
      BY <1>1 DEF Drop, LoopInv, LoopHasCause, QuietWhenNotReconnecting
    <2> QED
      BY <1>0, <1>1, <1>g, <2>1, LostLoop, InvAfterLoss DEF Drop, LoopInv, TypeOK
  <1>2. CASE FireTimer
    <2> DEFINE new == [loop EXCEPT !.wait = NoTimer]
    <2>1. /\ new \in Loops /\ new.wait = NoTimer /\ new.elapsed = loop.elapsed
          /\ new.reconnecting = loop.reconnecting
      BY <1>0 DEF Loops
    <2>2. loop' = new /\ loop.wait = 0 /\ UNCHANGED <<recording, connected>>
      BY <1>2 DEF FireTimer
    <2>3. loop.reconnecting /\ recording /\ ~connected
      BY <2>2 DEF LoopInv, QuietWhenNotReconnecting, LoopHasCause
    <2>4. probe' = 0
      BY <1>2, <2>3 DEF FireTimer
    <2>5. loop.elapsed < GiveUp + MaxDelay
      BY <1>0, <2>2 DEF LoopInv, AttemptIsEarly, Loops
    <2> HIDE DEF new
    <2>6. TypeOK'
      BY <1>g, <2>1, <2>2, <2>4 DEF LoopInv, TypeOK, Loops
    <2>7. (OneAttemptAtATime /\ QuietWhenNotReconnecting /\ LoopNeverStalls
            /\ LoopHasCause /\ AttemptIsEarly)'
      <3>1. loop'.wait = NoTimer /\ loop'.reconnecting /\ recording' /\ ~connected'
        BY <2>1, <2>2, <2>3
      <3>2. loop'.elapsed < GiveUp + MaxDelay + probe'
        BY <1>0, <2>1, <2>2, <2>4, <2>5 DEF Loops
      <3> QED
        BY <2>4, <3>1, <3>2
        DEF OneAttemptAtATime, QuietWhenNotReconnecting, LoopNeverStalls, LoopHasCause,
            AttemptIsEarly
    <2> QED
      BY <2>6, <2>7 DEF LoopInv
  <1>3. CASE ProbeFails
    <2>1. loop.wait = NoTimer /\ loop.reconnecting /\ recording /\ ~connected
      BY <1>3 DEF ProbeFails, LoopInv, OneAttemptAtATime, QuietWhenNotReconnecting,
                  LoopHasCause
    <2> QED
      BY <1>0, <1>3, <1>g, <2>1, LostTwice, InvAfterLoss DEF ProbeFails, LoopInv, TypeOK
  <1>4. CASE ProbeOpens
    <2> DEFINE new == [loop EXCEPT !.reconnecting = FALSE, !.delay = Base, !.elapsed = 0]
    <2>1. /\ new \in Loops /\ ~new.reconnecting /\ new.elapsed = 0
          /\ new.wait = loop.wait
      <3>1. Base \in Base..MaxDelay /\ 0 \in Nat /\ FALSE \in BOOLEAN
        OBVIOUS
      <3>2. new \in Loops
        BY <1>0, <3>1 DEF Loops
      <3> QED
        BY <1>0, <3>2 DEF Loops
    <2>2. loop.wait = NoTimer
      BY <1>4 DEF ProbeOpens, LoopInv, OneAttemptAtATime
    <2>3. /\ loop' = new /\ probe' = NoProbe /\ connected' = TRUE
          /\ recording' = recording
      BY <1>4 DEF ProbeOpens
    <2> HIDE DEF new
    <2> QED
      BY <1>g, <2>1, <2>2, <2>3
      DEF LoopInv, TypeOK, Loops, OneAttemptAtATime, QuietWhenNotReconnecting,
          LoopNeverStalls, LoopHasCause, AttemptIsEarly
  <1>5. CASE EndRecording
    <2>1. loop' = Idle /\ probe' = NoProbe /\ recording' = FALSE /\ UNCHANGED connected
      BY <1>5 DEF EndRecording, Cancelled
    <2>2. TypeOK'
      <3>1. loop' \in Loops
        BY <2>1, IdleType
      <3>2. probe' \in NoProbe..ProbeMax
        BY <2>1
      <3> QED
        BY <1>g, <2>1, <3>1, <3>2 DEF LoopInv, TypeOK, Loops
    <2>3. (OneAttemptAtATime /\ QuietWhenNotReconnecting /\ LoopNeverStalls
            /\ LoopHasCause /\ AttemptIsEarly)'
      BY <2>1, IdleType
      DEF OneAttemptAtATime, QuietWhenNotReconnecting, LoopNeverStalls, LoopHasCause,
          AttemptIsEarly
    <2> QED
      BY <2>2, <2>3 DEF LoopInv
  <1>6. CASE Tick
    <2> DEFINE new == [loop EXCEPT
                 !.elapsed = IF loop.reconnecting THEN @ + 1 ELSE @,
                 !.wait = IF @ = NoTimer THEN @ ELSE @ - 1]
    <2>1. loop.wait # 0 /\ probe < ProbeMax /\ UNCHANGED <<recording, connected>>
      BY <1>6 DEF Tick
    <2>2. /\ new \in Loops /\ new.reconnecting = loop.reconnecting
          /\ new.elapsed = (IF loop.reconnecting THEN loop.elapsed + 1 ELSE loop.elapsed)
          /\ new.wait = (IF loop.wait = NoTimer THEN NoTimer ELSE loop.wait - 1)
      <3> DEFINE e == IF loop.reconnecting THEN loop.elapsed + 1 ELSE loop.elapsed
                 w == IF loop.wait = NoTimer THEN loop.wait ELSE loop.wait - 1
      <3>1. e \in Nat /\ w \in NoTimer..MaxDelay
        BY <1>0, <2>1 DEF Loops
      <3>2. new = [loop EXCEPT !.elapsed = e, !.wait = w]
        OBVIOUS
      <3> HIDE DEF new, e, w
      <3>3. new \in Loops
        BY <1>0, <3>1, <3>2 DEF Loops
      <3>4. /\ new.reconnecting = loop.reconnecting /\ new.elapsed = e /\ new.wait = w
        BY <1>0, <3>2 DEF Loops
      <3> QED
        BY <3>3, <3>4 DEF e, w
    <2>3. loop' = new /\ probe' = (IF probe = NoProbe THEN NoProbe ELSE probe + 1)
      BY <1>6 DEF Tick
    <2> HIDE DEF new
    <2>4. TypeOK'
      BY <1>0, <1>g, <2>1, <2>2, <2>3 DEF LoopInv, TypeOK, Loops
    <2>5. (OneAttemptAtATime /\ QuietWhenNotReconnecting /\ LoopNeverStalls)'
      BY <1>0, <2>1, <2>2, <2>3
      DEF LoopInv, Loops, OneAttemptAtATime, QuietWhenNotReconnecting, LoopNeverStalls
    <2>6. (LoopHasCause /\ AttemptIsEarly)'
      BY <1>0, <2>1, <2>2, <2>3
      DEF LoopInv, Loops, LoopHasCause, AttemptIsEarly, QuietWhenNotReconnecting
    <2> QED
      BY <2>4, <2>5, <2>6 DEF LoopInv
  <1>7. CASE UNCHANGED vars
    BY <1>7, <1>g
    DEF vars, LoopInv, TypeOK, OneAttemptAtATime, QuietWhenNotReconnecting,
        LoopNeverStalls, LoopHasCause, AttemptIsEarly
  <1> QED
    BY <1>1, <1>2, <1>3, <1>4, <1>5, <1>6, <1>7 DEF Next

LEMMA LoopInvariant == Spec => []LoopInv
  BY InitInv, StepInv, PTL DEF Spec

\* One attempt at a time, and nothing left of a loop that ended: whatever the
\* delays, no second probe competes for the session and none is adopted for a
\* recording that is over (scheduleReconnect, cancelReconnectLoop).
THEOREM OneAttemptNoRemains == Spec => []LoopIsExclusive
  <1>1. LoopInv => LoopIsExclusive
    BY DEF LoopInv, LoopIsExclusive
  <1> QED
    BY <1>1, LoopInvariant, PTL

\* A running loop has its next event coming, and its last attempt ends less
\* than a delay and a connection timeout after the deadline (tryReconnect,
\* handleConnectionLost, giveUpReconnect).
THEOREM LoopGoesOnInTime == Spec => []LoopIsOnTime
  <1>1. LoopInv => LoopIsOnTime
    BY DEF LoopInv, LoopIsOnTime, LoopNeverStalls, CycleIsBounded, LastSecond, TypeOK,
           AttemptIsEarly, LoopHasCause, OneAttemptAtATime
  <1> QED
    BY <1>1, LoopInvariant, PTL
=============================================================================

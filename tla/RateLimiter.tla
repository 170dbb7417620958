----------------------------- MODULE RateLimiter -----------------------------
(***************************************************************************)
(* The rate limiter in front of /api (middleware/ratelimit.py): a fixed    *)
(* window per client address and worker process.                           *)
(*                                                                         *)
(* The code subtracts the start of a window from the clock and looks at    *)
(* nothing else, so a window is kept as its age.  Ages grow in ticks of a  *)
(* fraction of a second and stop mattering at Window: time has no end.     *)
(* The clock is time.time(), which may be set back; real time goes on.     *)
(***************************************************************************)
EXTENDS Integers, Sequences, FiniteSets, SequencesExt

CONSTANTS
    Workers,     \* worker processes, each with counters of its own
    Ips,         \* client addresses; clients without one share "unknown"
    DefaultRpm,  \* DEFAULT_RPM
    Rpms,        \* numbers that MTT_RATE_LIMIT_RPM or the argument may name
    Second,      \* ticks of a second
    Seconds,     \* WINDOW_SECONDS
    MaxBack,     \* bound of the model: times the clock is set back by a tick
    None,        \* no value
    Unreadable   \* a value that is not a number

Window == Second * Seconds

ASSUME RateLimiterAssumption ==
    /\ {DefaultRpm, Second, Seconds} \subseteq Nat \ {0}
    /\ MaxBack \in Nat /\ Rpms \subseteq Int

VARIABLES
    rpm,      \* the limit
    store,    \* the entry of a worker and an address: age and count, or None
    grants,   \* history: real ages of the requests let through in the last Window
    answer,   \* history: the last answer an address got
    back      \* times the clock was set back

vars == <<rpm, store, grants, answer, back>>

\* _resolve_rpm: the argument, then the environment, then the default.
Resolved(explicit, env) ==
    IF explicit # None
      THEN IF explicit > 0 THEN explicit ELSE DefaultRpm
      ELSE IF env \in {None, Unreadable} THEN DefaultRpm
           ELSE IF env <= 0 THEN DefaultRpm ELSE env

Init ==
    /\ \E explicit \in Rpms \cup {None}, env \in Rpms \cup {None, Unreadable} :
          rpm = Resolved(explicit, env)
    /\ store = [w \in Workers |-> [ip \in Ips |-> None]]
    /\ grants = [ip \in Ips |-> <<>>]
    /\ answer = [ip \in Ips |-> "none"]
    /\ back = 0

-----------------------------------------------------------------------------
Entry(age, count) == [age |-> age, count |-> count]

\* An age is kept up to where no setting back can bring it below Window.
Older(e) ==
    IF e = None THEN None
    ELSE [e EXCEPT !.age = IF @ < Window + MaxBack THEN @ + 1 ELSE @]

\* A tick: windows grow older, and so does what was let through.
Tick ==
    /\ store' = [w \in Workers |-> [ip \in Ips |-> Older(store[w][ip])]]
    /\ grants' = [ip \in Ips |->
                     LET older == [i \in DOMAIN grants[ip] |-> grants[ip][i] + 1]
                     IN SelectSeq(older, LAMBDA age : age < Window)]
    /\ UNCHANGED <<rpm, answer, back>>

\* The clock is set back: windows last longer, and one just over may return.
SetBack ==
    /\ back < MaxBack
    /\ back' = back + 1
    /\ store' = [w \in Workers |-> [ip \in Ips |->
                    IF store[w][ip] = None THEN None ELSE [store[w][ip] EXCEPT !.age = @ - 1]]]
    /\ UNCHANGED <<rpm, grants, answer>>

\* Mutant: one request too many.
Limit == rpm + 1

\* "count < self.rpm"
Room == rpm

\* Mutant: a refused request starts the window again.
Restarted(e) == [e EXCEPT !.age = 0]

\* A refusal leaves the entry as it is.
AfterRefusal(e) == e

\* Whole seconds until the window ends, at least one: int() rounds down.
RetryAfter(age) ==
    LET seconds == (Window - age) \div Second
    IN IF seconds <= 0 THEN 1 ELSE seconds

\* A request to /api from this address, at this worker: is_allowed.
Request(w, ip) ==
    LET e == store[w][ip]
        Allow(entry) ==
            /\ store' = [store EXCEPT ![w][ip] = entry]
            /\ grants' = [grants EXCEPT ![ip] = Append(@, 0)]
            /\ answer' = [answer EXCEPT ![ip] = "allowed"]
    IN /\ \/ (e = None \/ (e # None /\ e.age >= Window)) /\ Allow(Entry(0, 1))
          \/ e # None /\ e.age < Window /\ e.count < Room
                /\ Allow([e EXCEPT !.count = @ + 1])
          \/ /\ e # None /\ e.age < Window /\ e.count >= Room
             /\ store' = [store EXCEPT ![w][ip] = AfterRefusal(e)]
             /\ answer' = [answer EXCEPT ![ip] = "refused"]
             /\ UNCHANGED grants
       /\ UNCHANGED <<rpm, back>>

Asks(ip) == \E w \in Workers : Request(w, ip)

Next == Tick \/ SetBack \/ \E ip \in Ips : Asks(ip)

Spec == Init /\ [][Next]_vars

\* Time goes on, and a client that keeps asking is routed to some worker.
FairSpec == Spec /\ WF_vars(Tick) /\ \A ip \in Ips : WF_vars(Asks(ip))

-----------------------------------------------------------------------------
(* Properties.                                                             *)

TypeOK ==
    /\ rpm \in Nat \ {0}
    /\ \A w \in Workers, ip \in Ips :
          store[w][ip] \in [age : (-MaxBack)..(Window + MaxBack), count : 1..rpm] \cup {None}
    /\ grants \in [Ips -> Seq(0..(Window - 1))]
    /\ answer \in [Ips -> {"none", "allowed", "refused"}]
    /\ back \in 0..MaxBack

\* "workers>1 multiplies effective limit": in no stretch of real time as long as
\* a window does an address get more than two windows' worth of requests from
\* each worker, wherever the stretch begins and however the clock is set back.
WithinLimit ==
    TypeOK /\ \A ip \in Ips : Len(grants[ip]) <= 2 * rpm * Cardinality(Workers)

\* Nobody pays for others: an address that is refused has had its full share
\* since the window began.
RefusedHasHadItsShare ==
    \A w \in Workers, ip \in Ips :
        LET e == store[w][ip]
        IN e # None /\ e.age \in 0..(Window - 1) /\ back = 0 =>
             Len(SelectSeq(grants[ip], LAMBDA age : age <= e.age)) >= e.count

\* A client that waits a second longer than Retry-After tells it finds the
\* window over, and it is never told to wait more than a second too long.
RetryAfterIsClose ==
    \A w \in Workers, ip \in Ips :
        store[w][ip] # None /\ store[w][ip].age < Window =>
            LET left == Window - store[w][ip].age
                told == Second * RetryAfter(store[w][ip].age)
            IN left - told < Second /\ told - left < Second

LimitIsExact == WithinLimit /\ RefusedHasHadItsShare /\ RetryAfterIsClose

\* A client that was refused and keeps asking is served again.
ServedAgain == \A ip \in Ips : answer[ip] = "refused" ~> answer[ip] = "allowed"
=============================================================================

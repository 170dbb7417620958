---------------------------- MODULE Daemon_proofs ----------------------------
(* Start and stop for any number of commands.                              *)
EXTENDS Daemon, TLAPS

USE DaemonAssumption

\* A daemon that has written its pid.
Named == {"binding", "serving", "stopping"}

\* One command at a time: a start excludes every other command.
OneCommand ==
    /\ \A d, e \in Daemons : Starting(d) /\ Starting(e) => d = e
    /\ \A s, z \in Stops : Stopping(s) /\ Stopping(z) => s = z
    /\ \A d \in Daemons, s \in Stops : ~(Starting(d) /\ Stopping(s))

\* A start that has passed the check is the only one alive, and the pidfile
\* is what the start has made of it.
StartedAlone ==
    \A d \in Daemons :
        /\ daemon[d] \in Living \cup {"stale", "fork"} =>
              \A e \in Daemons \ {d} : daemon[e] \notin Living
        /\ daemon[d] \in {"fork", "log"} => file = None
        /\ daemon[d] = "open" => file = Garbage
        /\ daemon[d] \in Named => file = d

\* What a stop has read still holds: nobody but the process it has read of can
\* be alive, and nobody is once that one was seen to be gone.
StopKnows ==
    \A s \in Stops :
        /\ stop[s].at \in {"read", "polling"} =>
              /\ stop[s].pid \in Daemons
              /\ \A d \in Daemons \ {stop[s].pid} : daemon[d] \notin Living
        /\ stop[s].at \in {"garbage", "gone"} =>
              \A d \in Daemons : daemon[d] \notin Living

DaemonInv == TypeOK /\ OneCommand /\ StartedAlone /\ StopKnows

LEMMA InitInv == Init => DaemonInv
  BY DEF Init, DaemonInv, TypeOK, OneCommand, StartedAlone, StopKnows, Starting,
         Stopping, Living, Named

\* Between commands nobody is alive but the process the pidfile names.
LEMMA NobodyUnnamed ==
    ASSUME DaemonInv, \A d \in Daemons : ~Starting(d),
           NEW d \in Daemons, daemon[d] \in Living
    PROVE  file = d
  BY DEF DaemonInv, StartedAlone, Starting, Living, Named

\* Places of a stop.
StopPlaces == {"none", "read", "garbage", "polling", "gone", "stopped",
               "not running", "did not stop", "cannot signal"}

\* A stop that goes on, with a pid or without, leaves every other one alone.
LEMMA StopMoves ==
    ASSUME TypeOK, NEW s \in Stops, NEW at \in StopPlaces, NEW pid \in Daemons \cup {None},
           \/ stop' = [stop EXCEPT ![s].at = at] /\ pid = stop[s].pid
           \/ stop' = [stop EXCEPT ![s] = [at |-> at, pid |-> pid]]
    PROVE  /\ stop' \in [Stops -> [at : StopPlaces, pid : Daemons \cup {None}]]
           /\ stop'[s].at = at /\ stop'[s].pid = pid
           /\ \A z \in Stops \ {s} : stop'[z] = stop[z]
  <1> DEFINE new == [at |-> at, pid |-> pid]
             Known == [at : StopPlaces, pid : Daemons \cup {None}]
  <1>1. stop \in [Stops -> Known] /\ new \in Known
    BY DEF TypeOK, StopPlaces
  <1>2. stop' = [stop EXCEPT ![s] = new]
    BY <1>1
  <1>3. new.at = at /\ new.pid = pid
    OBVIOUS
  <1> HIDE DEF new, Known
  <1>4. /\ stop' \in [Stops -> Known] /\ stop'[s] = new
        /\ \A z \in Stops \ {s} : stop'[z] = stop[z]
    BY <1>1, <1>2
  <1> QED
    BY <1>3, <1>4 DEF Known

LEMMA StopGoesOn ==
    ASSUME TypeOK, NEW s \in Stops, NEW at \in StopPlaces,
           stop' = [stop EXCEPT ![s].at = at]
    PROVE  /\ stop' \in [Stops -> [at : StopPlaces, pid : Daemons \cup {None}]]
           /\ stop'[s].at = at /\ stop'[s].pid = stop[s].pid
           /\ \A z \in Stops \ {s} : stop'[z] = stop[z]
  <1> DEFINE Known == [at : StopPlaces, pid : Daemons \cup {None}]
             new == [stop[s] EXCEPT !.at = at]
  <1>1. stop \in [Stops -> Known] /\ stop[s] \in Known
    BY DEF TypeOK, StopPlaces
  <1>2. new \in Known /\ new.at = at /\ new.pid = stop[s].pid
    BY <1>1
  <1>3. stop' = [stop EXCEPT ![s] = new]
    BY <1>1
  <1> HIDE DEF new, Known
  <1>4. /\ stop' \in [Stops -> Known] /\ stop'[s] = new
        /\ \A z \in Stops \ {s} : stop'[z] = stop[z]
    BY <1>1, <1>2, <1>3
  <1> QED
    BY <1>2, <1>4 DEF Known

\* Places of a start and of its daemon.
DaemonPlaces == Living \cup {"none", "check", "stale", "fork", "refused", "dead"}

\* A start or a daemon that goes on leaves every other one alone, and a start
\* goes on only where no other command is under way.
LEMMA DaemonMoves ==
    ASSUME DaemonInv, NEW d \in Daemons, NEW at \in DaemonPlaces,
           daemon' = [daemon EXCEPT ![d] = at], UNCHANGED <<stop, reused>>,
           file' \in Daemons \cup {Garbage, None},
           Starting(d)' => Starting(d) \/ ReadyForCommand
    PROVE  /\ TypeOK' /\ OneCommand'
           /\ daemon'[d] = at /\ \A e \in Daemons \ {d} : daemon'[e] = daemon[e]
  <1>1. daemon \in [Daemons -> DaemonPlaces]
    BY DEF DaemonInv, TypeOK, DaemonPlaces
  <1>2. /\ daemon' \in [Daemons -> DaemonPlaces] /\ daemon'[d] = at
        /\ \A e \in Daemons \ {d} : daemon'[e] = daemon[e]
    BY <1>1
  <1>3. TypeOK'
    BY <1>2 DEF DaemonInv, TypeOK, DaemonPlaces
  <1>4. OneCommand'
    <2>1. CASE ~Starting(d)'
      BY <1>2, <2>1 DEF DaemonInv, OneCommand, Starting, Stopping
    <2>2. CASE Starting(d) \/ ReadyForCommand
      <3>1. /\ \A e \in Daemons \ {d} : ~Starting(e)
            /\ \A s \in Stops : ~Stopping(s)
        BY <2>2 DEF DaemonInv, OneCommand, ReadyForCommand
      <3> QED
        BY <1>2, <3>1 DEF OneCommand, Starting, Stopping
    <2> QED
      BY <2>1, <2>2
  <1> QED
    BY <1>2, <1>3, <1>4

\* A start knows the file and that nobody is alive but itself: so does the
\* one that is made to go on.
LEMMA StartMoves ==
    ASSUME DaemonInv, NEW d \in Daemons, NEW at \in DaemonPlaces,
           Starting(d) \/ ReadyForCommand,
           daemon' = [daemon EXCEPT ![d] = at], UNCHANGED <<stop, reused>>,
           file' \in Daemons \cup {Garbage, None},
           at \in Living \cup {"stale", "fork"} =>
               \A e \in Daemons \ {d} : daemon[e] \notin Living,
           at \in {"fork", "log"} => file' = None,
           at = "open" => file' = Garbage,
           at \in Named => file' = d,
           file' # file => \A e \in Daemons \ {d} : daemon[e] \notin Living
    PROVE  DaemonInv'
  <1>1. /\ TypeOK' /\ OneCommand'
        /\ daemon'[d] = at /\ \A e \in Daemons \ {d} : daemon'[e] = daemon[e]
    BY DaemonMoves
  <1>2. \A s \in Stops : ~Stopping(s)
    BY DEF DaemonInv, OneCommand, ReadyForCommand
  <1>3. \A e \in Daemons \ {d} : ~Starting(e)
    BY DEF DaemonInv, OneCommand, ReadyForCommand
  <1>4. StopKnows'
    BY <1>2 DEF StopKnows, Stopping
  <1>5. StartedAlone'
    <2>1. ASSUME NEW e \in Daemons, NEW f \in Daemons \ {e},
                 daemon'[e] \in Living \cup {"stale", "fork"}
          PROVE  daemon'[f] \notin Living
      <3>1. CASE e = d
        BY <1>1, <2>1, <3>1
      <3>2. CASE f = d
        BY <1>1, <1>3, <2>1, <3>2 DEF DaemonInv, StartedAlone, Starting, Living
      <3>3. CASE e # d /\ f # d
        BY <1>1, <2>1, <3>3 DEF DaemonInv, StartedAlone
      <3> QED
        BY <3>1, <3>2, <3>3
    <2>2. ASSUME NEW e \in Daemons
          PROVE  /\ daemon'[e] \in {"fork", "log"} => file' = None
                 /\ daemon'[e] = "open" => file' = Garbage
                 /\ daemon'[e] \in Named => file' = e
      <3>1. CASE e = d
        BY <1>1, <3>1
      <3>2. CASE e # d
        BY <1>1, <1>3, <3>2 DEF DaemonInv, StartedAlone, Starting, Living, Named
      <3> QED
        BY <3>1, <3>2
    <2> QED
      BY <2>1, <2>2 DEF StartedAlone
  <1> QED
    BY <1>1, <1>4, <1>5 DEF DaemonInv

\* Steps of a start.
LEMMA StartStep ==
    ASSUME DaemonInv, NEW d \in Daemons,
           \/ StartBegins(d) \/ StartChecks(d) \/ StartUnlinks(d) \/ StartForks(d)
           \/ OpensPidfile(d) \/ WritesPid(d)
    PROVE  DaemonInv'
  <1>1. TypeOK
    BY DEF DaemonInv
  <1>2. CASE StartBegins(d)
    <2>1. daemon' = [daemon EXCEPT ![d] = "check"]
      BY <1>2 DEF StartBegins
    <2> QED
      BY <1>1, <1>2, <2>1, StartMoves DEF StartBegins, TypeOK, DaemonPlaces, Living, Named
  <1>3. CASE StartChecks(d)
    <2>1. PICK at \in {"fork", "refused", "stale"} :
             /\ daemon' = [daemon EXCEPT ![d] = at]
             /\ at = "fork" => file = None
             /\ at = "stale" => file = Garbage \/ ~PidAlive(file)
      BY <1>3 DEF StartChecks
    <2>2. Starting(d)
      BY <1>3 DEF StartChecks, Starting
    <2>3. ASSUME NEW e \in Daemons \ {d}, daemon[e] \in Living
          PROVE  file = e /\ PidAlive(file)
      <3>1. ~Starting(e)
        BY <2>2 DEF DaemonInv, OneCommand
      <3> QED
        BY <2>3, <3>1 DEF DaemonInv, StartedAlone, Starting, Living, Named, PidAlive
    <2>4. at \in {"stale", "fork"} => \A e \in Daemons \ {d} : daemon[e] \notin Living
      BY <2>1, <2>3
    <2>5. UNCHANGED <<stop, file, reused>> /\ at \in DaemonPlaces
      BY <1>3 DEF StartChecks, DaemonPlaces
    <2>6. at \notin Living /\ at \notin Named
      BY DEF Living, Named
    <2> QED
      BY <1>1, <2>1, <2>2, <2>4, <2>5, <2>6, StartMoves DEF TypeOK
  <1>4. CASE StartUnlinks(d)
    <2>1. /\ daemon' = [daemon EXCEPT ![d] = "fork"]
          /\ UNCHANGED <<stop, reused>> /\ file' = None /\ Starting(d)
          /\ \A e \in Daemons \ {d} : daemon[e] \notin Living
      BY <1>4 DEF StartUnlinks, Starting, DaemonInv, StartedAlone
    <2> QED
      BY <2>1, StartMoves DEF DaemonPlaces, Living, Named
  <1>5. CASE StartForks(d)
    <2>1. PICK at \in {"log", "dead"} : daemon' = [daemon EXCEPT ![d] = at]
      BY <1>5 DEF StartForks
    <2>2. /\ UNCHANGED <<stop, reused, file>> /\ file = None /\ Starting(d)
          /\ \A e \in Daemons \ {d} : daemon[e] \notin Living
      BY <1>5 DEF StartForks, Starting, DaemonInv, StartedAlone
    <2> QED
      BY <2>1, <2>2, StartMoves DEF DaemonPlaces, Living, Named
  <1>6. CASE OpensPidfile(d) \/ WritesPid(d)
    <2>1. PICK at \in {"open", "binding"} :
             /\ daemon' = [daemon EXCEPT ![d] = at]
             /\ at = "open" => file' = Garbage
             /\ at = "binding" => file' = d
      BY <1>6 DEF OpensPidfile, WritesPid
    <2>2. /\ UNCHANGED <<stop, reused>> /\ daemon[d] \in {"log", "open"}
      BY <1>6 DEF OpensPidfile, WritesPid
    <2>3. Starting(d) /\ \A e \in Daemons \ {d} : daemon[e] \notin Living
      BY <2>2 DEF DaemonInv, StartedAlone, Starting, Living
    <2> QED
      BY <2>1, <2>2, <2>3, StartMoves DEF DaemonPlaces, Living, Named
  <1> QED
    BY <1>2, <1>3, <1>4, <1>5, <1>6

\* Steps of a daemon that is on its own.
LEMMA DaemonStep ==
    ASSUME DaemonInv, NEW d \in Daemons,
           Binds(d) \/ Exits(d) \/ Dies(d) \/ PidReused(d) \/ StrangerEnds(d)
    PROVE  DaemonInv'
  <1>1. CASE Binds(d) \/ Exits(d) \/ Dies(d)
    <2>1. PICK at \in {"dead", "serving"} :
             /\ daemon' = [daemon EXCEPT ![d] = at]
             /\ at = "serving" => daemon[d] = "binding"
      BY <1>1 DEF Binds, Exits, Dies
    <2>2. daemon[d] \in Living /\ UNCHANGED <<stop, file, reused>>
      BY <1>1 DEF Binds, Exits, Dies, Living
    <2>3. /\ TypeOK' /\ OneCommand'
          /\ daemon'[d] = at /\ \A e \in Daemons \ {d} : daemon'[e] = daemon[e]
      <3>1. at \in DaemonPlaces /\ file' \in Daemons \cup {Garbage, None}
        BY <2>2 DEF DaemonPlaces, Living, DaemonInv, TypeOK
      <3>2. at \notin {"check", "stale", "fork", "log", "open"}
        OBVIOUS
      <3>3. daemon'[d] = at
        BY <2>1 DEF DaemonInv, TypeOK
      <3> QED
        BY <2>1, <2>2, <3>1, <3>2, <3>3, DaemonMoves DEF Starting
    <2>4. \A e \in Daemons : daemon'[e] \in Living => daemon[e] \in Living
      BY <2>2, <2>3
    <2>5. StopKnows'
      BY <2>2, <2>4 DEF DaemonInv, StopKnows
    <2>6. StartedAlone'
      <3>1. \A e \in Daemons \ {d} : daemon'[e] \notin Living \cup {"stale", "fork"}
        BY <2>2, <2>3 DEF DaemonInv, StartedAlone
      <3>2. daemon'[d] \in Living =>
               file = d /\ \A e \in Daemons \ {d} : daemon[e] \notin Living
        BY <2>1, <2>2, <2>3 DEF DaemonInv, StartedAlone, Living, Named
      <3> QED
        BY <2>1, <2>2, <2>3, <3>1, <3>2 DEF StartedAlone, Living, Named
    <2> QED
      BY <2>3, <2>5, <2>6 DEF DaemonInv
  <1>2. CASE PidReused(d) \/ StrangerEnds(d)
    <2>1. UNCHANGED <<daemon, stop, file>> /\ reused' \subseteq Daemons
      BY <1>2 DEF PidReused, StrangerEnds, DaemonInv, TypeOK
    <2>2. TypeOK'
      BY <2>1 DEF DaemonInv, TypeOK
    <2>3. OneCommand'
      BY <2>1 DEF DaemonInv, OneCommand, Starting, Stopping
    <2>4. StartedAlone' /\ StopKnows'
      BY <2>1 DEF DaemonInv, StartedAlone, StopKnows
    <2> QED
      BY <2>2, <2>3, <2>4 DEF DaemonInv
  <1> QED
    BY <1>1, <1>2

\* Steps of a stop.
LEMMA StopReadsStep == ASSUME DaemonInv, NEW s \in Stops, StopReads(s)
                       PROVE  DaemonInv'
  <1>1. ASSUME NEW d \in Daemons, daemon[d] \in Living
        PROVE  file = d
    BY <1>1, NobodyUnnamed DEF StopReads, ReadyForCommand
  <1>2. PICK at \in StopPlaces, pid \in Daemons \cup {None} :
           /\ stop' = [stop EXCEPT ![s] = [at |-> at, pid |-> pid]]
           /\ \/ at = "not running" /\ file = None
              \/ at = "garbage" /\ file = Garbage
              \/ at = "read" /\ file = pid /\ pid \in Daemons
    BY DEF StopReads, Ends, StopPlaces, DaemonInv, TypeOK
  <1>3. /\ stop' \in [Stops -> [at : StopPlaces, pid : Daemons \cup {None}]]
        /\ stop'[s].at = at /\ stop'[s].pid = pid
        /\ \A z \in Stops \ {s} : stop'[z] = stop[z]
    BY <1>2, StopMoves DEF DaemonInv
  <1>4. UNCHANGED <<daemon, file, reused>> /\ ReadyForCommand
    BY DEF StopReads
  <1>5. TypeOK'
    BY <1>3, <1>4 DEF DaemonInv, TypeOK, StopPlaces
  <1>6. OneCommand'
    BY <1>3, <1>4 DEF DaemonInv, OneCommand, ReadyForCommand, Starting, Stopping
  <1>7. StartedAlone'
    BY <1>4 DEF DaemonInv, StartedAlone, Living, Named
  <1>8. StopKnows'
    BY <1>1, <1>2, <1>3, <1>4 DEF DaemonInv, StopKnows, Living
  <1> QED
    BY <1>5, <1>6, <1>7, <1>8 DEF DaemonInv

LEMMA StopSignalsStep == ASSUME DaemonInv, NEW s \in Stops, StopSignals(s)
                         PROVE  DaemonInv'
  <1> DEFINE pid == stop[s].pid
  <1>1. stop[s].at = "read" /\ pid \in Daemons /\ UNCHANGED file
        /\ \A d \in Daemons \ {pid} : daemon[d] \notin Living
    BY DEF StopSignals, DaemonInv, StopKnows
  <1>2. PICK at \in StopPlaces, new \in Daemons \cup {None} :
           /\ at \in {"gone", "polling", "cannot signal"}
           /\ at = "gone" => daemon[pid] \notin Living
           /\ at # "cannot signal" => new = pid
           /\ \/ stop' = [stop EXCEPT ![s].at = at] /\ new = stop[s].pid
              \/ stop' = [stop EXCEPT ![s] = [at |-> at, pid |-> new]]
    BY <1>1 DEF StopSignals, Ends, PidAlive, StopPlaces
  <1>3. /\ stop' \in [Stops -> [at : StopPlaces, pid : Daemons \cup {None}]]
        /\ stop'[s].at = at /\ stop'[s].pid = new
        /\ \A z \in Stops \ {s} : stop'[z] = stop[z]
    BY <1>2, StopMoves DEF DaemonInv
  <1>4. PICK state \in {daemon[pid], "stopping", "dead"} :
           /\ state # daemon[pid] => daemon[pid] \in Named
           /\ daemon' = [daemon EXCEPT ![pid] = state]
           /\ reused' \subseteq Daemons
    <2>1. CASE daemon' = daemon
      BY <1>1, <2>1 DEF StopSignals, DaemonInv, TypeOK
    <2>2. CASE daemon' = [daemon EXCEPT ![pid] = Terminated(@)] /\ UNCHANGED reused
      BY <1>1, <2>2 DEF Terminated, DaemonInv, TypeOK, Named
    <2> QED
      BY <2>1, <2>2 DEF StopSignals
  <1> HIDE DEF pid
  <1>5. TypeOK'
    BY <1>1, <1>3, <1>4 DEF DaemonInv, TypeOK, StopPlaces, Living
  <1>6. OneCommand'
    <2>1. \A d \in Daemons : ~Starting(d)
      BY <1>1 DEF DaemonInv, OneCommand, Stopping
    <2>2. \A d \in Daemons : ~Starting(d)'
      BY <1>1, <1>4, <2>1 DEF DaemonInv, TypeOK, Starting, Named
    <2>3. \A z \in Stops \ {s} : ~Stopping(z)'
      BY <1>1, <1>3 DEF DaemonInv, OneCommand, Stopping
    <2> QED
      BY <2>2, <2>3 DEF OneCommand
  <1>7. StartedAlone'
    <2>1. daemon'[pid] = state /\ \A d \in Daemons \ {pid} : daemon'[d] = daemon[d]
      BY <1>1, <1>4 DEF DaemonInv, TypeOK
    <2>2. state \in Living \cup {"stale", "fork"} =>
             state = daemon[pid] \/ daemon[pid] \in Living
      BY <1>4 DEF Living, Named
    <2>3. state \notin {"fork", "log", "open"} \cup Named \/ state = daemon[pid]
             \/ (state \in Named /\ daemon[pid] \in Named)
      BY <1>4 DEF Named
    <2>4. StartedAlone
      BY DEF DaemonInv
    <2>5. ASSUME NEW d \in Daemons, daemon'[d] \in Living \cup {"stale", "fork"},
                 NEW e \in Daemons \ {d}
          PROVE  daemon'[e] \notin Living
      <3>1. daemon[d] \in Living \cup {"stale", "fork"}
        BY <1>1, <2>1, <2>2, <2>5
      <3>2. daemon[e] \notin Living
        BY <2>4, <2>5, <3>1 DEF StartedAlone
      <3> QED
        BY <1>1, <2>1, <2>2, <3>2 DEF Living
    <2>6. ASSUME NEW d \in Daemons
          PROVE  /\ daemon'[d] \in {"fork", "log"} => file = None
                 /\ daemon'[d] = "open" => file = Garbage
                 /\ daemon'[d] \in Named => file = d
      BY <1>1, <2>1, <2>3, <2>4 DEF StartedAlone, Named
    <2> QED
      BY <1>1, <2>5, <2>6 DEF StartedAlone
  <1>8. StopKnows'
    <2>1. \A d \in Daemons \ {pid} : daemon'[d] \notin Living
      BY <1>1, <1>4 DEF DaemonInv, TypeOK
    <2>2. \A z \in Stops \ {s} : ~Stopping(z)'
      BY <1>1, <1>3 DEF DaemonInv, OneCommand, Stopping
    <2>3. at = "gone" => daemon'[pid] \notin Living
      BY <1>1, <1>2, <1>4 DEF DaemonInv, TypeOK, Living, Named
    <2> QED
      BY <1>1, <1>2, <1>3, <2>1, <2>2, <2>3 DEF StopKnows, Stopping
  <1> QED
    BY <1>5, <1>6, <1>7, <1>8 DEF DaemonInv

LEMMA StopPollsStep == ASSUME DaemonInv, NEW s \in Stops, StopPolls(s)
                       PROVE  DaemonInv'
  <1>1. PICK at \in {"did not stop", "gone"} :
           /\ stop' = [stop EXCEPT ![s].at = at]
           /\ at = "gone" => daemon[stop[s].pid] \notin Living
    BY DEF StopPolls, AfterTimeout, PidAlive
  <1>2. /\ stop' \in [Stops -> [at : StopPlaces, pid : Daemons \cup {None}]]
        /\ stop'[s].at = at /\ stop'[s].pid = stop[s].pid
        /\ \A z \in Stops \ {s} : stop'[z] = stop[z]
    <2>1. TypeOK /\ at \in StopPlaces /\ stop[s].pid \in Daemons \cup {None}
      BY DEF DaemonInv, TypeOK, StopPlaces
    <2> QED
      BY <1>1, <2>1, StopGoesOn
  <1>3. stop[s].at = "polling" /\ UNCHANGED <<daemon, file, reused>>
    BY DEF StopPolls
  <1>4. TypeOK'
    BY <1>2, <1>3 DEF DaemonInv, TypeOK, StopPlaces
  <1>5. OneCommand'
    <2>1. /\ \A d \in Daemons : ~Starting(d)
          /\ \A z \in Stops \ {s} : ~Stopping(z)
      BY <1>3 DEF DaemonInv, OneCommand, Stopping
    <2> QED
      BY <1>2, <1>3, <2>1 DEF OneCommand, Starting, Stopping
  <1>6. StartedAlone'
    BY <1>3 DEF DaemonInv, StartedAlone, Living, Named
  <1>7. StopKnows'
    BY <1>1, <1>2, <1>3 DEF DaemonInv, StopKnows, Living
  <1> QED
    BY <1>4, <1>5, <1>6, <1>7 DEF DaemonInv

LEMMA StopUnlinksStep ==
    ASSUME DaemonInv, NEW s \in Stops, StopUnlinks(s) \/ StopUnlinksGarbage(s)
    PROVE  DaemonInv'
  <1>1. PICK at \in {"stopped", "not running"} :
           stop' = [stop EXCEPT ![s] = [at |-> at, pid |-> None]]
    BY DEF StopUnlinks, StopUnlinksGarbage, Ends
  <1>2. /\ stop' \in [Stops -> [at : StopPlaces, pid : Daemons \cup {None}]]
        /\ stop'[s].at = at /\ stop'[s].pid = None
        /\ \A z \in Stops \ {s} : stop'[z] = stop[z]
    BY <1>1, StopMoves DEF DaemonInv, StopPlaces
  <1>3. stop[s].at \in {"gone", "garbage"} /\ UNCHANGED <<daemon, reused>> /\ file' = None
    BY DEF StopUnlinks, StopUnlinksGarbage
  <1>4. \A d \in Daemons : daemon[d] \notin Living /\ ~Starting(d)
    BY <1>3 DEF DaemonInv, StopKnows, OneCommand, Stopping
  <1>5. TypeOK'
    BY <1>2, <1>3 DEF DaemonInv, TypeOK, StopPlaces
  <1>6. OneCommand' /\ StopKnows'
    BY <1>2, <1>3, <1>4 DEF DaemonInv, OneCommand, StopKnows, Starting, Stopping
  <1>7. StartedAlone'
    BY <1>3, <1>4 DEF StartedAlone, Living, Named, Starting
  <1> QED
    BY <1>5, <1>6, <1>7 DEF DaemonInv

LEMMA StepInv == DaemonInv /\ [Next]_vars => DaemonInv'
  <1> SUFFICES ASSUME DaemonInv, [Next]_vars
               PROVE  DaemonInv'
    OBVIOUS
  <1>1. CASE Next
    BY <1>1, StartStep, DaemonStep, StopReadsStep, StopSignalsStep, StopPollsStep,
       StopUnlinksStep DEF Next
  <1>2. CASE UNCHANGED vars
    BY <1>2 DEF vars, DaemonInv, TypeOK, OneCommand, StartedAlone, StopKnows,
                Starting, Stopping
  <1> QED
    BY <1>1, <1>2

LEMMA DaemonInvariant == Spec => []DaemonInv
  BY InitInv, StepInv, PTL DEF Spec

\* "already running (pid ...)": however many starts and stops, one daemon at
\* most is alive, and the pidfile names it from before it serves until it ends
\* (cli.py, _handle_pidfile_before_fork and daemonize).
THEOREM OneDaemonAndStoppable == Spec => []ServerIsStoppable
  <1>1. DaemonInv => ServerIsStoppable
    BY DEF DaemonInv, StartedAlone, ServerIsStoppable, Living, Named
  <1> QED
    BY <1>1, DaemonInvariant, PTL

\* A stop that reports success, or that nothing was running, has left neither a
\* daemon nor a pidfile (cli.py, stop_daemon).
THEOREM SuccessIsTrue == Spec => StopTellsTheTruth
  <1> DEFINE Told == \A s \in Stops :
          stop'[s].at # stop[s].at /\ stop'[s].at \in {"stopped", "not running"} =>
              file' = None /\ \A d \in Daemons : daemon'[d] \notin Living
  <1>1. DaemonInv /\ [Next]_vars => Told
    <2> SUFFICES ASSUME DaemonInv, [Next]_vars, NEW s \in Stops,
                        stop'[s].at # stop[s].at,
                        stop'[s].at \in {"stopped", "not running"}
                 PROVE  file' = None /\ \A d \in Daemons : daemon'[d] \notin Living
      OBVIOUS
    <2>1. PICK z \in Stops :
             \/ StopReads(z) \/ StopUnlinksGarbage(z) \/ StopSignals(z)
             \/ StopPolls(z) \/ StopUnlinks(z)
      BY DEF Next, vars, StartBegins, StartChecks, StartUnlinks, StartForks,
             OpensPidfile, WritesPid, Binds, Exits, Dies, PidReused, StrangerEnds
    <2>2. CASE stop[z].at \in {"gone", "garbage"}
      <3>1. StopUnlinks(z) \/ StopUnlinksGarbage(z)
        BY <2>1, <2>2 DEF StopReads, StopSignals, StopPolls
      <3> QED
        BY <2>2, <3>1 DEF StopUnlinks, StopUnlinksGarbage, DaemonInv, StopKnows
    <2>3. CASE StopReads(z)
      <3>1. \A d \in Daemons : daemon[d] \in Living => file = d
        BY <2>3, NobodyUnnamed DEF StopReads, ReadyForCommand
      <3>2. z = s
        BY <2>3 DEF StopReads, Ends, DaemonInv, TypeOK
      <3>3. CASE file # None
        <4>1. PICK at \in {"garbage", "read"}, pid \in Daemons \cup {None} :
                 stop' = [stop EXCEPT ![z] = [at |-> at, pid |-> pid]]
          BY <2>3, <3>3 DEF StopReads, Ends, DaemonInv, TypeOK
        <4>2. stop'[z].at = at
          BY <4>1, StopMoves DEF DaemonInv, StopPlaces
        <4> QED
          BY <3>2, <4>2
      <3> QED
        BY <2>3, <3>1, <3>3 DEF StopReads
    <2>4. CASE StopSignals(z) \/ StopPolls(z)
      <3>1. PICK at \in {"gone", "polling", "did not stop", "cannot signal"},
                  pid \in Daemons \cup {None} :
               \/ stop' = [stop EXCEPT ![z].at = at] /\ pid = stop[z].pid
               \/ stop' = [stop EXCEPT ![z] = [at |-> at, pid |-> pid]]
        <4>1. stop[z].pid \in Daemons \cup {None}
          BY DEF DaemonInv, TypeOK
        <4> QED
          BY <2>4, <4>1 DEF StopSignals, StopPolls, AfterTimeout, Ends
      <3>2. stop'[z].at = at /\ (s # z => stop'[s] = stop[s])
        <4>1. at \in StopPlaces /\ TypeOK
          BY DEF StopPlaces, DaemonInv
        <4>2. CASE stop' = [stop EXCEPT ![z].at = at]
          BY <4>1, <4>2, StopGoesOn
        <4>3. CASE stop' = [stop EXCEPT ![z] = [at |-> at, pid |-> pid]]
          BY <4>1, <4>3, StopMoves
        <4> QED
          BY <3>1, <4>2, <4>3
      <3> QED
        BY <3>2
    <2> QED
      BY <2>1, <2>2, <2>3, <2>4 DEF StopUnlinks, StopUnlinksGarbage
  <1> QED
    BY <1>1, DaemonInvariant, PTL DEF Spec, StopTellsTheTruth
=============================================================================

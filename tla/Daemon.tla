-------------------------------- MODULE Daemon --------------------------------
(***************************************************************************)
(* The server in the background (src/cli.py): --daemon, --stop and the     *)
(* pidfile between them.  A daemon forks twice, writes its pid, and then   *)
(* serves; nothing removes the file when it ends, so a file may name a     *)
(* process that is gone, or one that was given its pid since.              *)
(*                                                                         *)
(* Commands are given one at a time, and the 0.2 s that a start waits      *)
(* before it returns are taken to be enough for the pidfile to be written; *)
(* they need not be enough to bind the port.                               *)
(***************************************************************************)
EXTENDS Naturals, FiniteSets

CONSTANTS
    Daemons,  \* starts, each with the pid its daemon is going to have
    Stops,    \* stop commands
    Garbage,  \* content of a pidfile that is no number, an empty one for instance
    None      \* no pidfile, no pid

ASSUME DaemonAssumption == {None, Garbage} \cap Daemons = {} /\ None # Garbage

VARIABLES
    daemon,   \* how far a start has come: its command, then its daemon
    stop,     \* how far a stop has come, and the pid it has read
    file,     \* what the pidfile says: a pid or garbage; None if there is none
    reused    \* pids of dead daemons that other processes have now

vars == <<daemon, stop, file, reused>>

Init ==
    /\ daemon = [d \in Daemons |-> "none"]
    /\ stop = [s \in Stops |-> [at |-> "none", pid |-> None]]
    /\ file = None
    /\ reused = {}

Living == {"log", "open", "binding", "serving", "stopping"}

\* Mutant: a daemon that does not serve yet, or not any more, is taken for gone.
ServesNow(pid) == daemon[pid] = "serving"

\* _pid_alive: some process has that pid, this user's or another's.
PidAlive(pid) == daemon[pid] \in Living \/ pid \in reused

\* A command that has not returned.
Starting(d) == daemon[d] \in {"check", "stale", "fork", "log", "open"}
Stopping(s) == stop[s].at \in {"read", "garbage", "polling", "gone"}

\* One command at a time, and a start returns after the pidfile is written.
ReadyForCommand ==
    (\A d \in Daemons : ~Starting(d)) /\ (\A s \in Stops : ~Stopping(s))

-----------------------------------------------------------------------------
(* --daemon.                                                               *)

StartBegins(d) ==
    /\ daemon[d] = "none" /\ ReadyForCommand
    /\ daemon' = [daemon EXCEPT ![d] = "check"]
    /\ UNCHANGED <<stop, file, reused>>

\* _handle_pidfile_before_fork: the file is read.
StartChecks(d) ==
    /\ daemon[d] = "check"
    /\ daemon' = [daemon EXCEPT ![d] =
                     IF file = None THEN "fork"
                     ELSE IF file # Garbage /\ PidAlive(file) THEN "refused"
                     ELSE "stale"]
    /\ UNCHANGED <<stop, file, reused>>

\* A file that is unreadable or names nobody is removed.
StartUnlinks(d) ==
    /\ daemon[d] = "stale"
    /\ file' = None
    /\ daemon' = [daemon EXCEPT ![d] = "fork"]
    /\ UNCHANGED <<stop, reused>>

\* A fork may fail, the first or the second.
StartForks(d) ==
    /\ daemon[d] = "fork"
    /\ daemon' \in {[daemon EXCEPT ![d] = at] : at \in {"log", "dead"}}
    /\ UNCHANGED <<stop, file, reused>>

\* open(pidfile, "w"): the file is there, and empty.
OpensPidfile(d) ==
    /\ daemon[d] = "log"
    /\ daemon' = [daemon EXCEPT ![d] = "open"]
    /\ file' = Garbage
    /\ UNCHANGED <<stop, reused>>

WritesPid(d) ==
    /\ daemon[d] = "open"
    /\ daemon' = [daemon EXCEPT ![d] = "binding"]
    /\ file' = d
    /\ UNCHANGED <<stop, reused>>

\* serve: the application is imported and the port is bound, if it is free.
Binds(d) ==
    /\ daemon[d] = "binding"
    /\ daemon' = [daemon EXCEPT ![d] =
                     IF \E e \in Daemons : daemon[e] \in {"serving", "stopping"}
                       THEN "dead" ELSE "serving"]
    /\ UNCHANGED <<stop, file, reused>>

\* A daemon that was told to stop has finished its requests.
Exits(d) ==
    /\ daemon[d] = "stopping"
    /\ daemon' = [daemon EXCEPT ![d] = "dead"]
    /\ UNCHANGED <<stop, file, reused>>

\* It is killed, or cannot open its files: at any time, and the pidfile stays.
Dies(d) ==
    /\ daemon[d] \in Living
    /\ daemon' = [daemon EXCEPT ![d] = "dead"]
    /\ UNCHANGED <<stop, file, reused>>

\* The system gives a dead daemon's pid to another process; or that one ends.
PidReused(d) ==
    /\ daemon[d] = "dead" /\ d \notin reused
    /\ reused' = reused \cup {d}
    /\ UNCHANGED <<daemon, stop, file>>

StrangerEnds(d) ==
    /\ d \in reused
    /\ reused' = reused \ {d}
    /\ UNCHANGED <<daemon, stop, file>>

-----------------------------------------------------------------------------
(* --stop.                                                                 *)

Ends(s, how) == stop' = [stop EXCEPT ![s] = [at |-> how, pid |-> None]]

StopReads(s) ==
    /\ stop[s].at = "none" /\ ReadyForCommand
    /\ \/ file = None /\ Ends(s, "not running")
       \/ file # None /\ file = Garbage /\ Ends(s, "garbage")
       \/ file # None /\ file # Garbage
          /\ stop' = [stop EXCEPT ![s] = [at |-> "read", pid |-> file]]
    /\ UNCHANGED <<daemon, file, reused>>

\* An unreadable file is removed.
StopUnlinksGarbage(s) ==
    /\ stop[s].at = "garbage"
    /\ file' = None
    /\ Ends(s, "not running")
    /\ UNCHANGED <<daemon, reused>>

\* SIGTERM to a daemon: one that serves begins to shut down, one that has not
\* come that far is killed.
Terminated(state) ==
    CASE state = "serving" -> "stopping"
      [] state = "binding" -> "dead"
      [] OTHER -> state

StopSignals(s) ==
    /\ stop[s].at = "read"
    /\ LET pid == stop[s].pid
       IN \/ /\ ~PidAlive(pid)
             /\ stop' = [stop EXCEPT ![s].at = "gone"]
             /\ UNCHANGED <<daemon, reused>>
          \/ /\ daemon[pid] \in Living
             /\ daemon' = [daemon EXCEPT ![pid] = Terminated(@)]
             /\ stop' = [stop EXCEPT ![s].at = "polling"]
             /\ UNCHANGED reused
          \* A stranger: this user's, which ends at once or later, or another's.
          \/ /\ pid \in reused
             /\ \/ stop' = [stop EXCEPT ![s].at = "polling"] /\ reused' \in {reused, reused \ {pid}}
                \/ Ends(s, "cannot signal") /\ UNCHANGED reused
             /\ UNCHANGED daemon
    /\ UNCHANGED file

\* Mutant: the loop that runs out is taken for one that has seen the end.
SaidStopped == "gone"

\* The "else" of the polling loop.
AfterTimeout == "did not stop"

\* kill(pid, 0), every 0.2 s: the process is gone, or five seconds are over.
StopPolls(s) ==
    /\ stop[s].at = "polling"
    /\ stop' = [stop EXCEPT ![s].at = IF PidAlive(stop[s].pid) THEN AfterTimeout ELSE "gone"]
    /\ UNCHANGED <<daemon, file, reused>>

StopUnlinks(s) ==
    /\ stop[s].at = "gone"
    /\ file' = None
    /\ Ends(s, "stopped")
    /\ UNCHANGED <<daemon, reused>>

Next ==
    \/ \E d \in Daemons :
          \/ StartBegins(d) \/ StartChecks(d) \/ StartUnlinks(d) \/ StartForks(d)
          \/ OpensPidfile(d) \/ WritesPid(d) \/ Binds(d) \/ Exits(d) \/ Dies(d)
          \/ PidReused(d) \/ StrangerEnds(d)
    \/ \E s \in Stops :
          \/ StopReads(s) \/ StopUnlinksGarbage(s) \/ StopSignals(s)
          \/ StopPolls(s) \/ StopUnlinks(s)

Spec == Init /\ [][Next]_vars

-----------------------------------------------------------------------------
(* Properties.                                                             *)

TypeOK ==
    /\ daemon \in [Daemons -> Living \cup
                     {"none", "check", "stale", "fork", "refused", "dead"}]
    /\ stop \in [Stops ->
          [at : {"none", "read", "garbage", "polling", "gone", "stopped",
                 "not running", "did not stop", "cannot signal"},
           pid : Daemons \cup {None}]]
    /\ file \in Daemons \cup {Garbage, None}
    /\ reused \subseteq Daemons

\* "already running (pid ...)": whatever crashed before, whatever files were
\* left and whoever has their pids, at most one daemon runs, and the pidfile
\* names it from before it serves until it is gone: it can be stopped.
ServerIsStoppable ==
    /\ TypeOK
    /\ \A d \in Daemons :
          daemon[d] \in {"binding", "serving", "stopping"} =>
              /\ file = d
              /\ \A e \in Daemons \ {d} : daemon[e] \notin Living

\* A stop that reports success, or that nothing is running, tells the truth:
\* no daemon is left and no file in the way of the next start.
StopTellsTheTruth ==
    [][\A s \in Stops :
          stop'[s].at # stop[s].at /\ stop'[s].at \in {"stopped", "not running"} =>
              file' = None /\ \A d \in Daemons : daemon'[d] \notin Living]_vars
=============================================================================

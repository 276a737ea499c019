----------------------------- MODULE NamedDaemon -----------------------------
(***************************************************************************)
(* The daemon of the browser harness that any command starts when it needs *)
(* one, and stops by name (admin.py, _ipc.py, daemon.py), on Linux.        *)
(*                                                                         *)
(* Commands are processes of their own and nothing locks the name: what    *)
(* they share is the path of the socket, which leads to the daemon that    *)
(* bound it last, the log, and the process table, where the pid of a       *)
(* daemon that has gone may be another process.                            *)
(*                                                                         *)
(* One step stands for: the answer to a ping and the reading of the start  *)
(* time that follows it; the second check of an identity and the signal it *)
(* allows.  A pid does not change hands within them.  The PID file is left *)
(* out: nothing is decided by it.                                          *)
(***************************************************************************)
EXTENDS Naturals

CONSTANTS
    Callers,        \* calls of ensure_daemon, and of restart_daemon alone
    Remote,         \* those with a remote browser: BU_CDP_WS or BU_CDP_URL
    Daemons,        \* processes python -m browser_harness.daemon
    Pids,
    Nobody,         \* no daemon at the path, no process with the pid
    Stranger        \* a process that is not a daemon

ASSUME NamedAssumption ==
    /\ Remote \subseteq Callers
    /\ {Nobody, Stranger} \cap Daemons = {} /\ Nobody # Stranger

VARIABLES
    phase,          \* where each command is
    after,          \* where it goes on after restart_daemon
    launched,       \* the commands that have launched Chrome
    seen,           \* restart_daemon: the pid a daemon reported, and whose it was by the start time
    life,           \* of each daemon: "unborn", "new", "connecting", "serving", "deaf", "ending", "gone"
    stopping,       \* daemons that were asked to shut down
    socket,         \* the daemon that bound the path last, or Nobody
    tail,           \* what the last line of the log says
    owner,          \* of each pid: the process that has it
    struck          \* history: the processes that were sent SIGTERM

callerVars == <<phase, after, launched, seen>>
worldVars == <<life, stopping, socket, tail, owner, struck>>
namedVars == <<callerVars, worldVars>>

NoPid == [pid |-> Nobody, whose |-> Nobody]

NamedInit ==
    /\ phase = [c \in Callers |-> "idle"] /\ after = [c \in Callers |-> "idle"]
    /\ launched = {}
    /\ seen = [c \in Callers |-> NoPid]
    /\ life = [d \in Daemons |-> "unborn"]
    /\ stopping = {} /\ socket = Nobody /\ tail = "nothing"
    /\ owner = [n \in Pids |-> Nobody]
    /\ struck = {}

\* ping and identify: the daemon at the path answers, also one that has lost its browser.
Alive == socket # Nobody /\ life[socket] \in {"serving", "deaf"}

PidOf(d) == CHOOSE n \in Pids : owner[n] = d

\* What the daemon reports of itself, and the start time of its process.
Identity(d) == [pid |-> PidOf(d), whose |-> d]

Freed(d) == [n \in Pids |-> IF owner[n] = d THEN Nobody ELSE owner[n]]

Doing(c, s) == phase[c] = s
Turn(c, s) == phase' = [phase EXCEPT ![c] = s]

\* restart_daemon, and where its caller goes on.
Stop(c, then) == Turn(c, "stop") /\ after' = [after EXCEPT ![c] = then]

-----------------------------------------------------------------------------
(* admin.py: ensure_daemon *)

Ensure(c) ==
    /\ Doing(c, "idle")
    /\ \/ Turn(c, IF Alive THEN "probe" ELSE "spawn") /\ UNCHANGED after
       \/ Stop(c, "stopped")                                   \* run.py: a command that only stops
    /\ UNCHANGED <<launched, seen, worldVars>>

\* A call that reaches the browser, tried twice; without an answer in time the daemon is
\* replaced.
Probe(c) ==
    /\ phase[c] \in {"probe", "again"}
    /\ \/ Alive /\ life[socket] = "serving" /\ Turn(c, "up") /\ UNCHANGED after
       \/ Doing(c, "probe") /\ Turn(c, "again") /\ UNCHANGED after
       \/ Doing(c, "again") /\ Stop(c, "spawn")
    /\ UNCHANGED <<launched, seen, worldVars>>

SpawnDaemon(c) ==
    LET d == CHOOSE e \in Daemons : life[e] = "unborn"
    IN /\ Doing(c, "spawn") /\ \E e \in Daemons : life[e] = "unborn"
       /\ \E n \in Pids : owner[n] = Nobody /\ owner' = [owner EXCEPT ![n] = d]
       /\ life' = [life EXCEPT ![d] = "new"]
       /\ Turn(c, "await")
       /\ UNCHANGED <<after, launched, seen, stopping, socket, tail, struck>>

\* Until a daemon answers, whoever spawned it, or the own child has gone or the time is up,
\* which may be at once.
Await(c) ==
    /\ Doing(c, "await")
    /\ Turn(c, IF Alive THEN "up" ELSE "judge")
    /\ UNCHANGED <<after, launched, seen, worldVars>>

\* The last line of the log, which all daemons of the name share: Chrome waits for a click
\* of the user, or for a setting.
NeedsUser == tail \in {"waiting", "blocked", "setup"}
NotRunning == tail = "not running"

\* It tells a command with a local browser what to do.  What needs the user ends the call,
\* a Chrome that does not run is launched once.
Judge(c) ==
    /\ Doing(c, "judge")
    /\ \/ c \notin Remote /\ NeedsUser /\ Stop(c, "failed") /\ UNCHANGED launched
       \/ c \notin Remote \cup launched /\ NotRunning /\ Stop(c, "launch") /\ launched' = launched \cup {c}
       \/ /\ c \in Remote \/ (c \in launched /\ NotRunning) \/ tail \in {"nothing", "other"}
          /\ Turn(c, "failed") /\ UNCHANGED <<after, launched>>
    /\ UNCHANGED <<seen, worldVars>>

\* _launch_browser: Chrome starts and the loop goes round once more, or there is none.
Launch(c) ==
    /\ Doing(c, "launch")
    /\ Turn(c, "spawn") \/ Turn(c, "failed")
    /\ UNCHANGED <<after, launched, seen, worldVars>>

-----------------------------------------------------------------------------
(* admin.py: restart_daemon, which only stops *)

\* identify and _process_start_time.  A daemon may answer too late, and the ping after it
\* in time or not: then nothing is signalled.
Identify(c) ==
    /\ Doing(c, "stop")
    /\ \/ /\ Alive
          /\ seen' = [seen EXCEPT ![c] = Identity(socket)]
          /\ Turn(c, "shutdown")
       \/ /\ seen' = [seen EXCEPT ![c] = NoPid]
          /\ Turn(c, "clean") \/ (Alive /\ Turn(c, "shutdown"))
    /\ UNCHANGED <<after, launched, worldVars>>

\* The request goes to whoever is at the path by now; its failure is ignored.
Shutdown(c) ==
    /\ Doing(c, "shutdown")
    /\ stopping' = IF Alive THEN stopping \cup {socket} ELSE stopping
    /\ Turn(c, IF seen[c] = NoPid THEN "clean" ELSE "watch")
    /\ UNCHANGED <<after, launched, seen, life, socket, tail, owner, struck>>

\* Mutant: after fifteen seconds whatever has the pid is stopped.
SameProcessMutant(c) == owner[seen[c].pid] # Nobody

\* The daemon at the path still reports the pid, or the process that has it began when the
\* daemon did.
SameProcess(c) ==
    \/ Alive /\ PidOf(socket) = seen[c].pid
    \/ owner[seen[c].pid] = seen[c].whose

\* Fifteen seconds for the pid to disappear, then SIGTERM, if the pid is still the daemon's.
Watch(c) ==
    LET p == owner[seen[c].pid]
    IN /\ Doing(c, "watch")
       /\ Turn(c, "clean")
       /\ IF p # Nobody /\ SameProcess(c)
          THEN /\ struck' = struck \cup {p}
               /\ owner' = [owner EXCEPT ![seen[c].pid] = Nobody]
               /\ life' = [d \in Daemons |-> IF d = p THEN "gone" ELSE life[d]]
          ELSE UNCHANGED <<struck, owner, life>>
       /\ UNCHANGED <<after, launched, seen, stopping, socket, tail>>

\* cleanup_endpoint, whoever's socket it is.
Clean(c) ==
    /\ Doing(c, "clean")
    /\ socket' = Nobody
    /\ Turn(c, after[c])
    /\ UNCHANGED <<after, launched, seen, life, stopping, tail, owner, struck>>

-----------------------------------------------------------------------------
(* daemon.py *)

\* __main__: a daemon that finds another one leaves; else it empties the log and begins.
Begin(d) ==
    /\ life[d] = "new"
    /\ IF Alive
       THEN life' = [life EXCEPT ![d] = "gone"] /\ owner' = Freed(d) /\ UNCHANGED tail
       ELSE life' = [life EXCEPT ![d] = "connecting"] /\ tail' = "nothing" /\ UNCHANGED owner
    /\ UNCHANGED <<callerVars, stopping, socket, struck>>

\* Daemon.start: it waits for Chrome's popup, or fails for one of these reasons.
Reasons == {"blocked", "not running", "setup", "other"}

AwaitPopup(d) ==
    /\ life[d] = "connecting" /\ tail # "waiting"
    /\ tail' = "waiting"
    /\ UNCHANGED <<callerVars, life, stopping, socket, owner, struck>>

FailToStart(d) ==
    /\ life[d] = "connecting"
    /\ life' = [life EXCEPT ![d] = "ending"]
    /\ tail' \in Reasons
    /\ UNCHANGED <<callerVars, stopping, socket, owner, struck>>

\* serve: what is at the path is unlinked, even if another daemon listens on it.
Bind(d) ==
    /\ life[d] = "connecting"
    /\ life' = [life EXCEPT ![d] = "serving"]
    /\ socket' = d /\ tail' = "other"
    /\ UNCHANGED <<callerVars, stopping, owner, struck>>

\* After a shutdown request: the listener is closed and the path unlinked, whoever's it is.
CloseDaemon(d) ==
    /\ life[d] \in {"serving", "deaf"} /\ d \in stopping
    /\ life' = [life EXCEPT ![d] = "ending"]
    /\ socket' = Nobody
    /\ UNCHANGED <<callerVars, stopping, tail, owner, struck>>

\* stop_remote may have taken long.
End(d) ==
    /\ life[d] = "ending"
    /\ life' = [life EXCEPT ![d] = "gone"] /\ owner' = Freed(d)
    /\ UNCHANGED <<callerVars, stopping, socket, tail, struck>>

(* External: Chrome goes away, a daemon crashes, pids are used again. *)

LoseBrowser(d) ==
    /\ life[d] = "serving"
    /\ life' = [life EXCEPT ![d] = "deaf"]
    /\ UNCHANGED <<callerVars, stopping, socket, tail, owner, struck>>

Crash(d) ==
    /\ life[d] \in {"serving", "deaf"}
    /\ life' = [life EXCEPT ![d] = "gone"] /\ owner' = Freed(d)
    /\ UNCHANGED <<callerVars, stopping, socket, tail, struck>>

Reuse(n) ==
    /\ owner[n] = Nobody
    /\ owner' = [owner EXCEPT ![n] = Stranger]
    /\ UNCHANGED <<callerVars, life, stopping, socket, tail, struck>>

-----------------------------------------------------------------------------

NamedNext ==
    \/ \E c \in Callers :
        \/ Ensure(c) \/ Probe(c) \/ SpawnDaemon(c) \/ Await(c) \/ Judge(c) \/ Launch(c)
        \/ Identify(c) \/ Shutdown(c) \/ Watch(c) \/ Clean(c)
    \/ \E d \in Daemons :
        Begin(d) \/ AwaitPopup(d) \/ FailToStart(d) \/ Bind(d) \/ CloseDaemon(d) \/ End(d) \/ LoseBrowser(d) \/ Crash(d)
    \/ \E n \in Pids : Reuse(n)

-----------------------------------------------------------------------------

\* A command that stops a daemon never ends another process: neither one that has got the pid
\* of a daemon that has gone in the meantime, nor any while nothing answers at the path.
OnlyDaemonsAreStopped == struck \subseteq Daemons

=============================================================================

------------------------- MODULE BrowserController -------------------------
(***************************************************************************)
(* The browser controller of pi-wsl-browser (controller/controller.ts) with *)
(* the lifecycle that serialises its operations (src/lifecycle.ts): one     *)
(* session's daemon process, browser, lease and descriptor file.            *)
(*                                                                          *)
(* Operations run one at a time, in the order they were asked for, so an    *)
(* idle controller may begin any of them. An operation stops at each await; *)
(* the daemon's exit is handled in between, outside that order, and writes  *)
(* the descriptor as well. A request whose answer is not waited for (a      *)
(* timeout, the user's abort) stays with the daemon.                        *)
(*                                                                          *)
(* A definition named ...Mutant is a plausible bug in the definition that   *)
(* follows it; the specification uses none of them.                         *)
(***************************************************************************)
EXTENDS Naturals, Sequences, FiniteSets

CONSTANTS
  Modes,      \* ways to run a browser
  Temporary,  \* the modes that launch a browser of their own (not main-profile)
  MaxLaunch,  \* bound: browsers launched in the session
  MaxRoots,   \* bound: root pages the daemons acquire
  MaxFaults,  \* bound: failures of a request, a launch, a close, or of a daemon
  NoMode, NoDaemon, NoLease, NoReply, Absent

ASSUME ControllerAssumption ==
  /\ Temporary \subseteq Modes /\ NoMode \notin Modes
  /\ MaxLaunch \in Nat /\ MaxRoots \in Nat /\ MaxFaults \in Nat
  /\ NoLease \notin [mode : Modes, root : Nat, retained : BOOLEAN]
  /\ NoDaemon \notin [launch : 0..MaxLaunch, mode : Modes,
                     status : {"starting", "running", "exited"}, failed : BOOLEAN]
  /\ NoReply \notin [ok : {"ok", "pending", "error"}, root : Nat]

\* A launch numbers the browser and the daemon process that go with it.
Launches == 1..MaxLaunch
None == 0

VARIABLES
  \* the controller
  op,           \* the operation that runs: its kind and mode, where it waits
  daemon,       \* the daemon record: launch (None before the spawn), status, failure
  browser,      \* the launch of the browser that is kept, or None
  lease,        \* the lease, or NoLease
  shuttingDown,
  \* descriptor writes: by the operation (None) and by each daemon's exit
  writes,
  tmp, file,    \* the temporary file and the descriptor
  \* the daemon processes
  alive,        \* launches whose daemon process runs
  exits,        \* launches whose exit is not handled yet
  inbox,        \* control requests on their way, in order
  reply,        \* the answer for the operation
  remote,       \* the root each daemon has leased, or None
  \* the browsers
  open,         \* launches whose temporary browser runs
  launches, roots, faults,
  stuck         \* history: launches where a close failed

control == <<daemon, browser, lease, shuttingDown>>
files == <<writes, tmp, file>>
wire == <<inbox, reply>>
processes == <<alive, exits, remote, roots>>
browsers == <<open, launches>>
vars == <<op, control, files, wire, processes, browsers, faults, stuck>>

Idle == [kind |-> "none", mode |-> NoMode, pc |-> "idle", next |-> "done",
         prev |-> NoLease, launch |-> None, bad |-> FALSE]
Quiet == [pc |-> "none", text |-> Absent]

Kinds == {"acquire", "retain", "release", "settle", "shutdown"}

Init ==
  /\ op = Idle /\ daemon = NoDaemon /\ browser = None /\ lease = NoLease
  /\ shuttingDown = FALSE
  /\ writes = [w \in Launches \cup {None} |-> Quiet] /\ tmp = Absent /\ file = Absent
  /\ alive = {} /\ exits = {} /\ inbox = <<>> /\ reply = NoReply
  /\ remote = [l \in Launches |-> None]
  /\ open = {} /\ launches = 0 /\ roots = 0 /\ faults = 0 /\ stuck = {}

Fault == faults < MaxFaults /\ faults' = faults + 1
NoFault == UNCHANGED faults

-----------------------------------------------------------------------------
(* The daemon processes.                                                   *)

\* A daemon dies of itself.
DaemonDies(l) ==
  /\ l \in alive /\ Fault
  /\ alive' = alive \ {l} /\ exits' = exits \cup {l}
  /\ UNCHANGED <<op, control, files, wire, remote, roots, browsers, stuck>>

Answered(r, ok, root) ==
  reply' = IF r.heard THEN [ok |-> ok, root |-> root] ELSE reply

\* The daemon serves the requests in order (ManagedLease has them in full). A
\* release that cannot close every page drops the lease and reports an error.
Serve ==
  /\ inbox # <<>> /\ inbox' = Tail(inbox)
  /\ LET r == Head(inbox)
         l == r.launch
         Drops == remote' = [remote EXCEPT ![l] = None] /\ UNCHANGED roots
         Stays == UNCHANGED <<remote, roots>>
     IN  \/ /\ l \notin alive
            /\ Answered(r, "error", None) /\ NoFault /\ Stays /\ UNCHANGED <<alive, exits>>
         \/ /\ l \in alive /\ r.act = "health"
            /\ \E ok \in {"ok", "pending"} : Answered(r, ok, None)
            /\ NoFault /\ Stays /\ UNCHANGED <<alive, exits>>
         \/ /\ l \in alive /\ r.act = "acquire" /\ remote[l] # None
            /\ Answered(r, "ok", remote[l]) /\ NoFault /\ Stays /\ UNCHANGED <<alive, exits>>
         \/ /\ l \in alive /\ r.act = "acquire" /\ remote[l] = None /\ roots < MaxRoots
            /\ roots' = roots + 1 /\ remote' = [remote EXCEPT ![l] = roots + 1]
            /\ Answered(r, "ok", roots + 1) /\ NoFault /\ UNCHANGED <<alive, exits>>
         \/ \* a failure, or the roots are used up
            /\ l \in alive /\ r.act = "acquire"
            /\ IF roots = MaxRoots THEN NoFault ELSE Fault
            /\ Answered(r, "error", None) /\ Stays /\ UNCHANGED <<alive, exits>>
         \/ /\ l \in alive /\ r.act = "release" /\ Drops
            /\ \/ Answered(r, "ok", None) /\ NoFault
               \/ Answered(r, "error", None) /\ Fault
            /\ UNCHANGED <<alive, exits>>
         \/ /\ l \in alive /\ r.act = "shutdown" /\ Drops
            /\ alive' = alive \ {l} /\ exits' = exits \cup {l}
            /\ \/ Answered(r, "ok", None) /\ NoFault
               \/ Answered(r, "error", None) /\ Fault
  /\ UNCHANGED <<op, control, files, browsers, stuck>>

-----------------------------------------------------------------------------
(* The descriptor: directories first, then the text as it is at that point  *)
(* into a temporary file that all writers share, then a rename.             *)

Text == [status |-> IF daemon = NoDaemon THEN "stopped" ELSE daemon.status,
         root |-> IF lease = NoLease THEN None ELSE lease.root]

WritePrepared(w) ==
  /\ writes[w].pc = "prepare"
  /\ writes' = [writes EXCEPT ![w] = [pc |-> "write", text |-> Text]]
  /\ UNCHANGED <<op, control, tmp, file, wire, processes, browsers, faults, stuck>>

TextWritten(w) ==
  /\ writes[w].pc = "write"
  /\ tmp' = writes[w].text
  /\ writes' = [writes EXCEPT ![w] = [pc |-> "rename", text |-> Absent]]
  /\ UNCHANGED <<op, control, file, wire, processes, browsers, faults, stuck>>

\* Another writer may have renamed the file away: then this rename fails.
Renamed(w) ==
  /\ writes[w].pc = "rename"
  /\ writes' = [writes EXCEPT ![w] = Quiet]
  /\ IF tmp = Absent THEN UNCHANGED <<tmp, file>> ELSE file' = tmp /\ tmp' = Absent

\* onDaemonExit: only for the daemon that is kept, and not in a shutdown. A
\* failure of its write is ignored.
HandleExit(l) ==
  /\ l \in exits /\ exits' = exits \ {l}
  /\ IF daemon # NoDaemon /\ daemon.launch = l /\ ~shuttingDown
     THEN /\ daemon' = [daemon EXCEPT !.status = "exited", !.failed = TRUE]
          /\ writes' = [writes EXCEPT ![l] = [pc |-> "prepare", text |-> Absent]]
     ELSE UNCHANGED <<daemon, writes>>
  /\ UNCHANGED <<op, browser, lease, shuttingDown, tmp, file, wire, alive, remote, roots,
                 browsers, faults, stuck>>

ExitWritten(l) ==
  /\ Renamed(l)
  /\ UNCHANGED <<op, control, wire, processes, browsers, faults, stuck>>

-----------------------------------------------------------------------------
(* The steps of an operation.                                              *)

At(pc) == op.pc = pc
End == op' = Idle
Goto(pc) == op' = [op EXCEPT !.pc = pc]
Write(next) ==
  /\ op' = [op EXCEPT !.pc = "writing", !.next = next]
  /\ writes' = [writes EXCEPT ![None] = [pc |-> "prepare", text |-> Absent]]
Ask(act, pc) ==
  /\ Goto(pc)
  /\ inbox' = Append(inbox, [launch |-> daemon.launch, act |-> act, heard |-> TRUE])
  /\ reply' = NoReply
Asking == {"releasing", "farewell", "leaving", "health", "recheck", "rooting"}
ToldMutant(pc) == At(pc) /\ reply # NoReply /\ reply.ok = "ok"
Told(pc) == At(pc) /\ reply # NoReply
Ok == reply.ok = "ok"

Deaf(requests) == [i \in 1..Len(requests) |-> [requests[i] EXCEPT !.heard = FALSE]]

\* The controller stops waiting: control_timeout, or the signal of the call.
GiveUp ==
  /\ op.pc \in Asking /\ reply = NoReply /\ Fault
  /\ inbox' = Deaf(inbox)
  /\ reply' = [ok |-> "error", root |-> None]
  /\ UNCHANGED <<op, control, files, processes, browsers, stuck>>

\* requireDaemon
Usable == daemon # NoDaemon /\ daemon.launch # None /\ daemon.status = "running" /\ ~daemon.failed

\* acquire, once the daemon is up: ask for the root page.
Root ==
  IF daemon.status = "running" /\ browser # None
  THEN Ask("acquire", "rooting") ELSE End /\ UNCHANGED wire

\* ensureDaemon, up to its first await. A record without a process is what a
\* failed first write left behind: it is neither started nor given up.
Ensure ==
  IF daemon = NoDaemon THEN Goto("starting") /\ UNCHANGED wire
  ELSE IF daemon.status = "running" /\ ~daemon.failed THEN Ask("health", "recheck")
  ELSE End /\ UNCHANGED wire

\* stopDaemon and shutdown, up to their first await.
Stop ==
  IF daemon # NoDaemon /\ daemon.launch # None
  THEN IF lease # NoLease THEN Ask("release", "farewell") ELSE Ask("shutdown", "leaving")
  ELSE Goto("quitting") /\ UNCHANGED wire

Keeps == UNCHANGED <<tmp, file, processes, browsers, faults, stuck>>

\* What follows a write of the descriptor.
Continue ==
  CASE op.next = "done" -> End /\ UNCHANGED wire
    [] op.next = "stop" -> Stop
    [] op.next = "launching" -> Goto("launching") /\ UNCHANGED wire
    [] op.next = "health" -> Ask("health", "health")
    [] op.next = "rooting" -> Root

\* A write that fails ends the operation; in a start, what was started is undone.
Written ==
  /\ At("writing") /\ Renamed(None)
  /\ IF tmp # Absent THEN Continue
     ELSE /\ UNCHANGED wire
          /\ IF op.next \in {"health", "rooting"} THEN Goto("undo shell") ELSE End
  /\ UNCHANGED <<control, processes, browsers, faults, stuck>>

Begin(kind, m) ==
  /\ At("idle") /\ ~shuttingDown
  /\ op' = [Idle EXCEPT !.kind = kind, !.mode = m, !.pc = "begin", !.prev = lease]
  /\ UNCHANGED <<control, files, wire, processes, browsers, faults, stuck>>

Begins(kind) == At("begin") /\ op.kind = kind

OtherMode == daemon # NoDaemon /\ daemon.mode # op.mode

\* Asks a daemon that can be asked to close the lease's pages.
AskRelease == IF Usable THEN Ask("release", "releasing") ELSE End /\ UNCHANGED wire

Acquire ==
  /\ Begins("acquire")
  /\ IF lease # NoLease /\ lease.mode # op.mode THEN AskRelease
     ELSE IF OtherMode THEN Stop ELSE Ensure
  /\ UNCHANGED <<control, writes>> /\ Keeps

Retain ==
  /\ Begins("retain")
  /\ IF lease # NoLease /\ Usable
     THEN lease' = [lease EXCEPT !.retained = TRUE] /\ Write("done")
     ELSE End /\ UNCHANGED <<lease, writes>>
  /\ UNCHANGED <<daemon, browser, shuttingDown, wire>> /\ Keeps

\* A settled agent releases what it did not retain.
MayRelease == lease # NoLease /\ (op.kind = "settle" => ~lease.retained)

Release ==
  /\ Begins("release") \/ Begins("settle")
  /\ IF MayRelease THEN AskRelease ELSE End /\ UNCHANGED wire
  /\ UNCHANGED <<control, writes>> /\ Keeps

Released ==
  /\ Told("releasing")
  /\ IF Ok THEN /\ lease' = NoLease
                /\ Write(IF op.kind = "acquire" THEN "stop" ELSE "done")
           ELSE End /\ UNCHANGED <<lease, writes>>
  /\ UNCHANGED <<daemon, browser, shuttingDown, wire>> /\ Keeps

Shutdown ==
  /\ Begins("shutdown")
  /\ shuttingDown' = TRUE /\ Stop
  /\ UNCHANGED <<daemon, browser, lease, writes>> /\ Keeps

-----------------------------------------------------------------------------
(* Stopping a daemon and its browser. Nothing stops at a failure.          *)

FarewellTold ==
  /\ Told("farewell")
  /\ lease' = NoLease
  /\ inbox' = Append(inbox, [launch |-> daemon.launch, act |-> "shutdown", heard |-> TRUE])
  /\ reply' = NoReply
  /\ op' = [op EXCEPT !.pc = "leaving", !.bad = op.bad \/ ~Ok]
  /\ UNCHANGED <<daemon, browser, shuttingDown, writes>> /\ Keeps

LeavingTold ==
  /\ Told("leaving")
  /\ op' = [op EXCEPT !.pc = "closing", !.bad = op.bad \/ (~Ok /\ ~daemon.failed)]
  /\ UNCHANGED <<control, writes, wire>> /\ Keeps

\* service.close: pi-shelld ends the process, if it still runs.
ShellClosed(l) ==
  /\ alive' = alive \ {l} /\ exits' = exits \cup ({l} \cap alive)
  /\ UNCHANGED <<remote, roots, stuck>> /\ NoFault
CloseFails(l) == Fault /\ stuck' = stuck \cup {l}

CloseShell ==
  /\ At("closing")
  /\ \/ ShellClosed(daemon.launch) /\ Goto("quitting")
     \/ /\ CloseFails(daemon.launch)
        /\ op' = [op EXCEPT !.pc = "quitting", !.bad = TRUE]
        /\ UNCHANGED processes
  /\ UNCHANGED <<control, files, wire, browsers>>

CloseBrowserMutant(l) == UNCHANGED <<open, stuck>> /\ NoFault
CloseBrowser(l) ==
  \/ open' = open \ {l} /\ UNCHANGED stuck /\ NoFault
  \/ l \in open /\ CloseFails(l) /\ UNCHANGED open

\* The browser is closed, the descriptor removed and the records dropped. An
\* acquire goes on with a fresh start unless something failed.
Quit ==
  /\ At("quitting")
  /\ CloseBrowser(browser)
  /\ daemon' = NoDaemon /\ browser' = None /\ lease' = NoLease /\ file' = Absent
  /\ IF op.kind = "acquire" /\ ~op.bad /\ stuck' = stuck THEN Goto("starting") ELSE End
  /\ UNCHANGED <<shuttingDown, writes, tmp, wire, processes, launches>>

-----------------------------------------------------------------------------
(* Starting a browser and its daemon.                                      *)

FreshStart ==
  /\ At("starting")
  /\ daemon' = [launch |-> None, mode |-> op.mode, status |-> "starting", failed |-> FALSE]
  /\ Write("launching")
  /\ UNCHANGED <<browser, lease, shuttingDown, wire>> /\ Keeps

Launch ==
  /\ At("launching")
  /\ \/ /\ launches < MaxLaunch /\ launches' = launches + 1
        /\ open' = open \cup (IF op.mode \in Temporary THEN {launches + 1} ELSE {})
        /\ op' = [op EXCEPT !.pc = "spawning", !.launch = launches + 1]
        /\ NoFault
     \/ \* a failure, or the launches are used up
        /\ IF launches = MaxLaunch THEN NoFault ELSE Fault
        /\ Goto("undo shell") /\ UNCHANGED browsers
  /\ UNCHANGED <<control, files, wire, processes, stuck>>

Spawn ==
  /\ At("spawning")
  /\ \/ /\ alive' = alive \cup {op.launch}
        /\ browser' = op.launch
        /\ daemon' = [daemon EXCEPT !.launch = op.launch]
        /\ Write("health") /\ NoFault
     \/ /\ Fault /\ Goto("undo shell")
        /\ UNCHANGED <<alive, browser, daemon, writes>>
  /\ UNCHANGED <<lease, shuttingDown, tmp, file, wire, exits, remote, roots, browsers, stuck>>

\* The answer counts even if the daemon's exit was handled while it came.
HealthOk ==
  /\ Told("health") /\ Ok
  /\ daemon' = [daemon EXCEPT !.status = "running"]
  /\ Write("rooting")
  /\ UNCHANGED <<browser, lease, shuttingDown, wire>> /\ Keeps

RecheckOk ==
  /\ Told("recheck") /\ Ok
  /\ Root
  /\ UNCHANGED <<control, writes>> /\ Keeps

PollAgain ==
  /\ Told("health") \/ Told("recheck")
  /\ ~Ok /\ ~daemon.failed
  /\ Ask("health", op.pc)
  /\ UNCHANGED <<control, writes>> /\ Keeps

\* The deadline, the signal, an error that is not transient, or the exit.
PollOver ==
  /\ Told("health") \/ Told("recheck")
  /\ ~Ok
  /\ IF At("health") THEN Goto("undo shell") ELSE End
  /\ UNCHANGED <<control, writes, wire>> /\ Keeps

UndoShell ==
  /\ At("undo shell") /\ Goto("undo browser")
  /\ \/ daemon.launch # None /\ ShellClosed(daemon.launch)
     \/ daemon.launch # None /\ CloseFails(daemon.launch) /\ UNCHANGED processes
     \/ daemon.launch = None /\ NoFault /\ UNCHANGED <<processes, stuck>>
  /\ UNCHANGED <<control, files, wire, browsers>>

UndoBrowser ==
  /\ At("undo browser") /\ End
  /\ CloseBrowser(op.launch)
  /\ daemon' = NoDaemon /\ browser' = None /\ file' = Absent
  /\ UNCHANGED <<lease, shuttingDown, writes, tmp, wire, processes, launches>>

-----------------------------------------------------------------------------
(* The root page.                                                          *)

SameRootMutant == TRUE
SameRoot == op.prev # NoLease /\ op.prev.mode = op.mode => reply.root = op.prev.root

RootTold ==
  /\ Told("rooting")
  /\ IF Ok /\ SameRoot
     THEN /\ lease' = [mode |-> op.mode, root |-> reply.root,
                       retained |-> op.prev # NoLease /\ op.prev.mode = op.mode /\ op.prev.retained]
          /\ Write("done")
     ELSE End /\ UNCHANGED <<lease, writes>>
  /\ UNCHANGED <<daemon, browser, shuttingDown, wire>> /\ Keeps

-----------------------------------------------------------------------------
OpStep ==
  \/ Acquire \/ Retain \/ Release \/ Released \/ Shutdown
  \/ FarewellTold \/ LeavingTold \/ CloseShell \/ Quit
  \/ FreshStart \/ Launch \/ Spawn \/ HealthOk \/ RecheckOk \/ PollAgain \/ PollOver
  \/ UndoShell \/ UndoBrowser \/ RootTold
  \/ WritePrepared(None) \/ TextWritten(None) \/ Written

Next ==
  \/ \E kind \in Kinds \ {"acquire"} : Begin(kind, NoMode)
  \/ \E m \in Modes : Begin("acquire", m)
  \/ OpStep \/ GiveUp \/ Serve
  \/ \E l \in Launches :
       DaemonDies(l) \/ HandleExit(l) \/ WritePrepared(l) \/ TextWritten(l) \/ ExitWritten(l)

Spec == Init /\ [][Next]_vars

\* Steps go on, daemons answer or their connections break; polls meet a deadline.
FairSpec == Spec /\ WF_vars(OpStep) /\ WF_vars(Serve) /\ SF_vars(PollOver)

-----------------------------------------------------------------------------
\* "owns exactly one daemon/browser pair": whatever still runs belongs to the
\* daemon that is kept or is being started, or a close of it failed.
OnePair ==
  /\ alive \cup open \subseteq
       stuck \cup {op.launch} \cup (IF daemon = NoDaemon THEN {} ELSE {daemon.launch})
  /\ Cardinality((alive \cup open) \ stuck) <= 1

\* While a lease lasts its page stays the same, and only release, shutdown or a
\* change of mode ends it: an agent that settles never ends a retained one.
LeaseIsStable ==
  [][lease # NoLease =>
       \/ lease' = lease
       \/ lease' = [lease EXCEPT !.retained = TRUE]
       \/ /\ lease' = NoLease /\ op.kind \in {"release", "settle", "acquire", "shutdown"}
          /\ op.kind = "acquire" => op.mode # lease.mode
          /\ op.kind = "settle" => ~lease.retained]_vars

\* Every operation ends, so the ones behind it and the session's shutdown begin.
OperationsEnd == ~At("idle") ~> At("idle")

=============================================================================

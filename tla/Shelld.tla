------------------------------- MODULE Shelld -------------------------------
(***************************************************************************)
(* The pi-shelld extension (packages/pi-shelld/src): detached background   *)
(* processes started for a pi session, the per-session registry file that  *)
(* tracks them, the in-process FIFO lock that serialises the registry's    *)
(* operations, the exit events of the children and the session handlers.   *)
(*                                                                         *)
(* JavaScript runs one macrotask at a time, so an action is what the code  *)
(* does between two waits: a job of the registry lock is one action when   *)
(* it never waits, and two when killShellTree waits for its grace window.  *)
(* The lock is a chain of promises: a job whose turn has come runs before  *)
(* the next event is delivered. The processes and init run at any time.    *)
(*                                                                         *)
(* A definition named ...Mutant is a plausible bug in the definition that  *)
(* follows it; the specification uses none of them.                        *)
(***************************************************************************)
EXTENDS Naturals, Sequences, FiniteSets

CONSTANTS
  Shells,      \* shell ids; randomUUID makes them fresh, so each starts once
  Sessions,    \* session files, one state directory each
  Stubborn,    \* shells whose leader outlives the grace window after SIGTERM
  Owned,       \* shells started through the service: notifyOnExit = false
  NoShell,     \* the shell field of a job that concerns the whole registry
  MaxQueue,    \* bound: jobs waiting for the registry lock
  MaxCrashes   \* bound: crashes of the pi process

ASSUME ShelldAssumption ==
  /\ Stubborn \subseteq Shells
  /\ Owned \subseteq Shells
  /\ NoShell \notin Shells
  /\ Sessions # {}
  /\ MaxQueue \in Nat
  /\ MaxCrashes \in Nat

VARIABLES
  proc,        \* the leader: unborn, running, dying (dead or killed but not
               \* reaped, so kill(pid, 0) still answers) or gone
  tree,        \* shells whose process group has a live member beside the leader
  child,       \* shells that are children of the running pi process
  recs,        \* recs[s]: the shells with a record in the state.json of s
  stoppedBy,   \* the record's stoppedBy field
  logs,        \* shells whose log file exists
  home,        \* the session whose directory holds the shell's log
  queue,       \* registryQueue: the running job (the head) and those waiting
  phase,       \* whether the head job waits in killShellTree's grace window
  targets,     \* the shells that job sent SIGTERM to
  suppressing, \* the flag of the same name
  closing,     \* closingIds
  session,     \* off, starting (reap pending), on, closing (shutdown pending)
  pinned,      \* sessionFileOverride
  crashes,     \* crashes so far
  known,       \* shells whose start returned: the caller has the id
  notified,    \* the message the exit notifier sent to the agent, if any
  killer       \* history: who first signalled the shell while its pid was alive

procVars == <<proc, tree, child>>
diskVars == <<recs, stoppedBy, logs, home>>
lockVars == <<queue, phase, targets, suppressing, closing>>
sessVars == <<session, pinned, crashes>>
agentVars == <<known, notified, killer>>
vars == <<procVars, diskVars, lockVars, sessVars, agentVars>>

Initiators == {"agent", "user"}
Jobs ==
  [op : {"register", "close"}, shell : Shells, by : {"none"}]
    \cup [op : {"stop"}, shell : Shells, by : Initiators]
    \cup [op : {"shutdown", "reap"}, shell : {NoShell}, by : {"none"}]

Job(op, c, by) == [op |-> op, shell |-> c, by |-> by]
Head1(op) == queue # <<>> /\ Head(queue).op = op

\* isPidAlive: signal 0 reaches a zombie as well.
IsPidAlive(c) == proc[c] \in {"running", "dying"}

\* The promise chain is drained: the event loop may deliver the next event.
EventLoopFree == queue = <<>> \/ phase = "grace"

RegisterPending(c) ==
  \E i \in 1..Len(queue) : queue[i].op = "register" /\ queue[i].shell = c

TypeOK ==
  /\ proc \in [Shells -> {"unborn", "running", "dying", "gone"}]
  /\ tree \in SUBSET Shells
  /\ child \in SUBSET Shells
  /\ recs \in [Sessions -> SUBSET Shells]
  /\ stoppedBy \in [Shells -> Initiators \cup {"none"}]
  /\ logs \in SUBSET Shells
  /\ home \in [Shells -> Sessions]
  /\ queue \in Seq(Jobs)
  /\ phase \in {"idle", "grace"}
  /\ targets \in SUBSET Shells
  /\ suppressing \in BOOLEAN
  /\ closing \in SUBSET Shells
  /\ session \in {"off", "starting", "on", "closing"}
  /\ pinned \in Sessions
  /\ crashes \in Nat
  /\ known \in SUBSET Shells
  /\ notified \in [Shells -> {"none", "exited", "user"}]
  /\ killer \in [Shells -> Initiators \cup {"none", "close", "sweep"}]

Init ==
  /\ proc = [c \in Shells |-> "unborn"]
  /\ tree = {} /\ child = {} /\ logs = {} /\ known = {}
  /\ recs = [s \in Sessions |-> {}]
  /\ stoppedBy = [c \in Shells |-> "none"]
  /\ queue = <<>> /\ phase = "idle" /\ targets = {}
  /\ suppressing = FALSE /\ closing = {}
  /\ session = "off" /\ pinned \in Sessions /\ crashes = 0
  /\ home = [c \in Shells |-> pinned]
  /\ notified = [c \in Shells |-> "none"]
  /\ killer = [c \in Shells |-> "none"]

-----------------------------------------------------------------------------
(* The processes.                                                          *)

\* A leader ends on its own: by exit, by a fault or by another's signal.
LeaderDies(c) ==
  /\ proc[c] = "running"
  /\ proc' = [proc EXCEPT ![c] = "dying"]
  /\ UNCHANGED <<tree, child, diskVars, lockVars, sessVars, agentVars>>

\* The rest of the process group ends, on its own or on the group's SIGTERM.
DescendantsDie(c) ==
  /\ c \in tree
  /\ tree' = tree \ {c}
  /\ UNCHANGED <<proc, child, diskVars, lockVars, sessVars, agentVars>>

\* An orphan of a crashed pi process is reaped by init, with no event.
OrphanReaped(c) ==
  /\ proc[c] = "dying" /\ c \notin child
  /\ proc' = [proc EXCEPT ![c] = "gone"]
  /\ UNCHANGED <<tree, child, diskVars, lockVars, sessVars, agentVars>>

\* Why an exit says nothing: its owner asked for silence, a sweep or a close is
\* at it, its record is gone, or the agent stopped it and knows.
SilentMutant(c) ==
  c \in Owned \/ suppressing \/ c \notin recs[pinned] \/ stoppedBy[c] = "agent"
SilentAnyRecordMutant(c) ==
  c \in Owned \/ suppressing \/ c \in closing \/ stoppedBy[c] = "agent"
Silent(c) ==
  \/ c \in Owned \/ suppressing \/ c \in closing
  \/ c \notin recs[pinned] \/ stoppedBy[c] = "agent"

\* The child's exit event: the runtime reaps the pid and calls the settle
\* handler in the same turn; the handler reads the record to choose the message.
HandleShellExit(c) ==
  /\ EventLoopFree /\ proc[c] = "dying" /\ c \in child
  /\ proc' = [proc EXCEPT ![c] = "gone"]
  /\ notified' =
       IF Silent(c) THEN notified
       ELSE [notified EXCEPT ![c] =
               IF stoppedBy[c] = "user" THEN "user" ELSE "exited"]
  /\ UNCHANGED <<tree, child, diskVars, lockVars, sessVars, known, killer>>

-----------------------------------------------------------------------------
(* killShellTree, in its two synchronous parts.                            *)

\* SIGTERM to the groups of T: a leader that honours it is dead, and its exit
\* event is on its way; by: who asked, for the history variable.
Sigterm(T, by) ==
  /\ phase' = "grace"
  /\ targets' = T
  /\ proc' = [c \in Shells |-> IF c \in T \ Stubborn THEN "dying" ELSE proc[c]]
  /\ killer' = [c \in Shells |->
                  IF c \in T /\ killer[c] = "none" THEN by ELSE killer[c]]

\* The timers of the grace window fire: a leader that honours SIGTERM has
\* exited and its event was delivered, or it would be in Stubborn.
GraceOverMutant ==
  /\ phase = "grace"
  /\ \A c \in targets : proc[c] = "gone"
  /\ phase' = "idle"
  /\ targets' = {}
GraceOver ==
  /\ phase = "grace"
  /\ \A c \in targets \ Stubborn : proc[c] = "gone"
  /\ phase' = "idle"
  /\ targets' = {}

\* SIGKILL to the groups of the targets. A child stays a zombie until the
\* event loop runs; an orphan may already have been reaped by init.
SigkillMutant == UNCHANGED <<proc, tree>>
Sigkill ==
  \E reaped \in SUBSET (targets \ child) :
    /\ proc' = [c \in Shells |->
                  IF c \notin targets \/ proc[c] = "gone" THEN proc[c]
                  ELSE IF c \in reaped THEN "gone" ELSE "dying"]
    /\ tree' = tree \ targets

\* killShellTree's result for the head job's shell, read right after SIGKILL.
StillAlive(c) == proc'[c] \in {"running", "dying"}

Dequeue == queue' = Tail(queue)

-----------------------------------------------------------------------------
(* Requests: what the tool, the monitor and the service put on the lock.   *)

Enqueue(job) ==
  /\ EventLoopFree
  /\ Len(queue) < MaxQueue
  /\ queue' = Append(queue, job)
  /\ UNCHANGED <<phase, targets, suppressing, closing>>

\* Tool calls in flight when session_shutdown is raised still reach the lock.
InSession == session \in {"on", "closing"}

\* startShell: the process is spawned first, then its registration is queued.
StartShell(c) ==
  /\ InSession /\ proc[c] = "unborn"
  /\ proc' = [proc EXCEPT ![c] = "running"]
  /\ tree' \in {tree, tree \cup {c}}
  /\ child' = child \cup {c}
  /\ logs' = logs \cup {c}
  /\ home' = [home EXCEPT ![c] = pinned]
  /\ Enqueue(Job("register", c, "none"))
  /\ UNCHANGED <<recs, stoppedBy, sessVars, agentVars>>

\* shell_daemon action=stop (by agent), or x in the monitor (by user).
RequestStop(c, by) ==
  /\ InSession
  /\ IF by = "agent" THEN c \in known ELSE c \in recs[pinned]
  /\ Enqueue(Job("stop", c, by))
  /\ UNCHANGED <<procVars, diskVars, sessVars, agentVars>>

\* shell_daemon action=close, or the service's close.
RequestClose(c) ==
  /\ InSession /\ c \in known
  /\ Enqueue(Job("close", c, "none"))
  /\ UNCHANGED <<procVars, diskVars, sessVars, agentVars>>

-----------------------------------------------------------------------------
(* The jobs of the registry lock.                                          *)

\* registerShell's write: the records that were read, and the new one.
RecordedMutant(c) == {c}
Recorded(c) == recs[pinned] \cup {c}

RegisterShell ==
  /\ phase = "idle" /\ Head1("register")
  /\ LET c == Head(queue).shell
     IN  /\ recs' = [recs EXCEPT ![pinned] = Recorded(c)]
         /\ stoppedBy' = [stoppedBy EXCEPT ![c] = "none"]
         /\ known' = known \cup {c}
  /\ Dequeue
  /\ UNCHANGED <<procVars, logs, home, phase, targets, suppressing, closing,
                 sessVars, notified, killer>>

\* stopShell up to its await: stoppedBy is written before the signal.
StopShell ==
  /\ phase = "idle" /\ Head1("stop")
  /\ LET c == Head(queue).shell
         by == Head(queue).by
     IN  /\ stoppedBy' = IF c \in recs[pinned]
                         THEN [stoppedBy EXCEPT ![c] = by] ELSE stoppedBy
         /\ IF c \in recs[pinned] /\ IsPidAlive(c)
            THEN Sigterm({c}, by) /\ UNCHANGED queue
            ELSE Dequeue /\ UNCHANGED <<proc, phase, targets, killer>>
  /\ UNCHANGED <<tree, child, recs, logs, home, suppressing, closing,
                 sessVars, known, notified>>

\* A record without stoppedBy: the field is deleted, not set.
NoInitiator == "none"

\* stopShell after the grace window: a failed kill takes stoppedBy back.
StopShellResume ==
  /\ Head1("stop") /\ GraceOver /\ Sigkill
  /\ LET c == Head(queue).shell
     IN  stoppedBy' = IF StillAlive(c) /\ c \in recs[pinned]
                      THEN [stoppedBy EXCEPT ![c] = NoInitiator] ELSE stoppedBy
  /\ Dequeue
  /\ UNCHANGED <<child, recs, logs, home, suppressing, closing, sessVars,
                 agentVars>>

\* closeShell's last part: delete the log, remove the record.
Unregister(c) ==
  /\ recs' = [recs EXCEPT ![pinned] = @ \ {c}]
  /\ logs' = logs \ {c}

CloseShell ==
  /\ phase = "idle" /\ Head1("close")
  /\ LET c == Head(queue).shell
     IN  IF c \in recs[pinned] /\ IsPidAlive(c)
         THEN /\ closing' = closing \cup {c}
              /\ Sigterm({c}, "close")
              /\ UNCHANGED <<queue, recs, logs>>
         ELSE /\ Dequeue
              /\ IF c \in recs[pinned] THEN Unregister(c)
                                       ELSE UNCHANGED <<recs, logs>>
              /\ UNCHANGED <<proc, phase, targets, closing, killer>>
  /\ UNCHANGED <<tree, child, stoppedBy, home, suppressing, sessVars, known,
                 notified>>

\* The finally of closeShell.
CloseOverMutant(c) == UNCHANGED closing
CloseOver(c) == closing' = closing \ {c}

CloseShellResume ==
  /\ Head1("close") /\ GraceOver /\ Sigkill
  /\ LET c == Head(queue).shell
     IN  /\ IF StillAlive(c) THEN UNCHANGED <<recs, logs>> ELSE Unregister(c)
         /\ CloseOver(c)
  /\ Dequeue
  /\ UNCHANGED <<child, stoppedBy, home, suppressing, sessVars, agentVars>>

\* The finally of shutdownShells and reapStaleState.
SweepOver == suppressing' = FALSE

\* sweepRegistry, and for a shutdown the removal of the state directory with
\* the logs of shells that are not registered yet.
SweepMutant(whole) ==
  /\ recs' = [recs EXCEPT ![pinned] = {c \in @ : ~whole /\ IsPidAlive(c)}]
  /\ logs' = logs \ (recs[pinned] \cup
                     {c \in Shells : whole /\ home[c] = pinned})
Sweep(whole) ==
  /\ recs' = [recs EXCEPT ![pinned] = {}]
  /\ logs' = logs \ (recs[pinned] \cup
                     {c \in Shells : whole /\ home[c] = pinned})

\* shutdownShells and reapStaleState up to their await. With no live pid
\* nothing is waited for and the sweep follows at once.
SweepBegin(op, next) ==
  /\ phase = "idle" /\ Head1(op)
  /\ LET alive == {c \in recs[pinned] : IsPidAlive(c)}
     IN  IF alive # {}
         THEN /\ suppressing' = TRUE
              /\ Sigterm(alive, "sweep")
              /\ UNCHANGED <<queue, recs, logs, session>>
         ELSE /\ Sweep(op = "shutdown")
              /\ session' = next
              /\ Dequeue
              /\ UNCHANGED <<proc, phase, targets, suppressing, killer>>
  /\ UNCHANGED <<tree, child, stoppedBy, home, closing, pinned, crashes, known,
                 notified>>

\* ... and after the grace window, whatever the kills returned.
SweepEnd(op, next) ==
  /\ Head1(op) /\ GraceOver /\ Sigkill
  /\ Sweep(op = "shutdown")
  /\ SweepOver
  /\ session' = next
  /\ Dequeue
  /\ UNCHANGED <<child, stoppedBy, home, closing, pinned, crashes, agentVars>>

ShutdownShells == SweepBegin("shutdown", "off")
ShutdownShellsResume == SweepEnd("shutdown", "off")
ReapStaleState == SweepBegin("reap", "on")
ReapStaleStateResume == SweepEnd("reap", "on")

-----------------------------------------------------------------------------
(* The session.                                                            *)

\* session_start: the session file is pinned before the reap is queued.
SessionStart(s) ==
  /\ session = "off"
  /\ session' = "starting"
  /\ pinned' = s
  /\ Enqueue(Job("reap", NoShell, "none"))
  /\ UNCHANGED <<procVars, diskVars, crashes, agentVars>>

\* session_shutdown: the same file is pinned again, the shutdown is queued.
SessionShutdown ==
  /\ session = "on"
  /\ session' = "closing"
  /\ Enqueue(Job("shutdown", NoShell, "none"))
  /\ UNCHANGED <<procVars, diskVars, pinned, crashes, agentVars>>

\* The pi process dies, in a session or on its way out: its memory is lost, the
\* detached groups and the files stay, init adopts the children.
Crash ==
  /\ session # "off" \/ queue # <<>>
  /\ crashes < MaxCrashes
  /\ crashes' = crashes + 1
  /\ session' = "off"
  /\ child' = {}
  /\ queue' = <<>> /\ phase' = "idle" /\ targets' = {}
  /\ suppressing' = FALSE /\ closing' = {}
  /\ UNCHANGED <<proc, tree, diskVars, pinned, agentVars>>

RunJob ==
  \/ RegisterShell \/ StopShell \/ CloseShell
  \/ ShutdownShells \/ ReapStaleState
ResumeJob ==
  \/ StopShellResume \/ CloseShellResume
  \/ ShutdownShellsResume \/ ReapStaleStateResume

Next ==
  \/ \E c \in Shells :
       \/ LeaderDies(c) \/ DescendantsDie(c)
       \/ OrphanReaped(c) \/ HandleShellExit(c)
       \/ StartShell(c) \/ RequestClose(c)
       \/ \E by \in Initiators : RequestStop(c, by)
  \/ RunJob
  \/ ResumeJob
  \/ \E s \in Sessions : SessionStart(s)
  \/ SessionShutdown
  \/ Crash

Spec == Init /\ [][Next]_vars

\* Queued jobs and timers run; init reaps orphans. An exit event waits while the
\* promise chain runs, but the event loop polls for it in every turn and no
\* stream of requests holds it back: strong fairness. Nobody is obliged to
\* start, stop or close anything.
Fairness ==
  /\ \A c \in Shells : SF_vars(HandleShellExit(c)) /\ WF_vars(OrphanReaped(c))
  /\ WF_vars(RunJob)
  /\ WF_vars(ResumeJob)

FairSpec == Spec /\ Fairness

-----------------------------------------------------------------------------
(* What the lock and the records promise.                                  *)

\* The silencing flags belong to the job that holds the lock: suppressing is up
\* exactly during a sweep's grace window, closingIds holds exactly the shell
\* whose close waits, and only the holder has signalled shells outstanding.
LockInv ==
  /\ phase = "idle" <=> targets = {}
  /\ phase = "grace" =>
       /\ queue # <<>>
       /\ Head(queue).op \in {"stop", "close"} => targets = {Head(queue).shell}
       /\ Head(queue).op # "register"
  /\ suppressing <=> (phase = "grace" /\ Head(queue).op \in {"shutdown", "reap"})
  /\ closing = IF phase = "grace" /\ Head(queue).op = "close" THEN targets ELSE {}

\* What the properties below need to be inductive. Of the queue: a registration
\* is queued once, for a shell that was spawned and never registered; a sweep is
\* queued by the session handler that waits for it, and only one at a time.
QueueInv ==
  /\ \A i \in 1..Len(queue) :
       /\ queue[i].op = "register" =>
            proc[queue[i].shell] # "unborn" /\ queue[i].shell \notin known
       /\ queue[i].op = "shutdown" => session = "closing"
       /\ queue[i].op = "reap" => session = "starting"
  /\ \A i, j \in 1..Len(queue) : i # j =>
       /\ queue[i].op = "register" /\ queue[j].op = "register"
            => queue[i].shell # queue[j].shell
       /\ queue[i].op \in {"shutdown", "reap"} => queue[j].op \notin {"shutdown", "reap"}

\* Of the records: a shell is registered at most once, after its spawn.
RecordsInv ==
  /\ \A s \in Sessions : recs[s] \subseteq known
  /\ \A s, t \in Sessions : s # t => recs[s] \cap recs[t] = {}
  /\ \A c \in known : proc[c] # "unborn"

\* Of a waiting sweep: it has signalled every live leader of the registry that
\* it is about to clear, and nobody else.
SweepInv ==
  phase = "grace" /\ Head(queue).op \in {"shutdown", "reap"} =>
    /\ targets \subseteq recs[pinned]
    /\ \A c \in recs[pinned] \ targets : ~IsPidAlive(c)

RegistryInv == QueueInv /\ RecordsInv /\ SweepInv

\* No start loses its record (the comment of withRegistryLock): a running child
\* is in some registry, or its registration is queued.
NoUntrackedChild ==
  \A c \in child :
    proc[c] = "running" => RegisterPending(c) \/ \E s \in Sessions : c \in recs[s]

\* Once session_start's reap is done the registry holds only this session's
\* own children, each with its log: what a crash or a late start of an earlier
\* session left behind is out of the way.
SessionOwnsItsShells ==
  session = "on" =>
    \A c \in recs[pinned] : c \in child /\ c \in logs /\ home[c] = pinned

\* For a shell that honours SIGTERM the message says what ended it: "exited"
\* only for an end nobody asked for, "User stopped" only after a user's stop,
\* nothing for an agent's stop, a close or a sweep (handleShellExit).
MessageMatchesCause ==
  \A c \in Shells \ Stubborn :
    /\ notified[c] = "exited" => killer[c] = "none"
    /\ notified[c] = "user" => killer[c] = "user"

\* Close, shutdown and reap remove a record only when the leader they track has
\* been killed: no running process is ever dropped from the registry.
RecordOutlivesLeader ==
  [][\A s \in Sessions : \A c \in recs[s] \ recs'[s] : proc'[c] # "running"]_vars

\* A leader that dies while its record is in the current registry is reported
\* to the agent, unless the agent stopped it, the record is being removed or
\* the pi process itself died.
DeathIsReported ==
  \A c \in Shells \ Owned :
    (proc[c] = "dying" /\ c \in child /\ c \in recs[pinned])
      ~> (\/ notified[c] # "none" \/ stoppedBy[c] = "agent"
          \/ c \notin recs[pinned] \/ c \notin child)

\* session_shutdown ends although stops and closes are queued around it.
ShutdownEnds == session = "closing" ~> session = "off"

-----------------------------------------------------------------------------
(* The lifecycle of ADR-0001, which Shelld implements: deriveStatus over the
   registries, and closed for a shell that was registered once.            *)

Status(c) ==
  IF \E s \in Sessions : c \in recs[s]
  THEN IF IsPidAlive(c) THEN "running" ELSE "to_close"
  ELSE IF c \in known THEN "closed" ELSE "unborn"

Lifecycle == INSTANCE ShellLifecycle WITH
  status <- [c \in Shells |-> Status(c)],
  told <- {c \in Shells : notified[c] # "none"}

\* A shell is registered once, runs until it exits or is stopped, and is closed for good;
\* the agent is told once at most: whatever handlers, exits and crashes interleave.
LifecycleSpec == Lifecycle!Spec

-----------------------------------------------------------------------------
(* What the comments and the README say, and the code does not do.         *)

\* README: session_shutdown "stops every tracked process tree": when its sweep
\* drops a record, no member of that shell's process group is left.
SweepStopsTree ==
  [][\A c \in recs[pinned] : Head1("shutdown") /\ c \notin recs'[pinned]
       => c \notin tree']_vars

=============================================================================

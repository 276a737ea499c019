---------------------------- MODULE ShelldProofs ----------------------------
(***************************************************************************)
(* Proofs about Shelld for any set of shells, any sessions and any bounds: *)
(* type correctness, the discipline of the registry lock, the inductive    *)
(* invariant on queue and records, and what follows from them: no record   *)
(* or start is lost, and Shelld implements the lifecycle of ADR-0001.      *)
(***************************************************************************)
EXTENDS Shelld, SequenceTheorems, TLAPS

\* Appending a job leaves the jobs before it in place.
LEMMA AppendJob ==
  ASSUME NEW q \in Seq(Jobs), NEW j \in Jobs
  PROVE  /\ Append(q, j) \in Seq(Jobs)
         /\ Append(q, j) # <<>>
         /\ Len(Append(q, j)) = Len(q) + 1
         /\ \A i \in 1..Len(q) : Append(q, j)[i] = q[i]
         /\ Append(q, j)[Len(q) + 1] = j
         /\ q # <<>> => Head(Append(q, j)) = Head(q)
<1>1. /\ Append(q, j) \in Seq(Jobs)
      /\ Len(Append(q, j)) = Len(q) + 1
      /\ Len(q) \in Nat
  BY AppendProperties, LenProperties
<1>2. /\ \A i \in 1..Len(q) : Append(q, j)[i] = q[i]
      /\ Append(q, j)[Len(q) + 1] = j
  BY AppendProperties
<1>3. Append(q, j) # <<>>
  BY <1>1, EmptySeq
<1>4. ASSUME q # <<>> PROVE Head(Append(q, j)) = Head(q)
  <2>1. 1 \in 1..Len(q)
    BY <1>4, EmptySeq
  <2> QED
    BY <1>1, <1>2, <1>3, <1>4, <2>1
<1> QED
  BY <1>1, <1>2, <1>3, <1>4

\* Ending the head job moves every other job one place forward.
LEMMA TailJob ==
  ASSUME NEW q \in Seq(Jobs), q # <<>>
  PROVE  /\ Tail(q) \in Seq(Jobs)
         /\ Len(q) \in Nat \ {0}
         /\ Len(Tail(q)) = Len(q) - 1
         /\ \A i \in 1..Len(Tail(q)) : i + 1 \in 1..Len(q) /\ Tail(q)[i] = q[i + 1]
         /\ Head(q) = q[1]
         /\ 1 \in 1..Len(q)
         /\ Head(q) \in Jobs
<1>1. Len(q) \in Nat \ {0}
  BY EmptySeq
<1> QED
  BY <1>1, HeadTailProperties

-----------------------------------------------------------------------------
(* Type correctness.                                                       *)

LEMMA TypeInit == Init => TypeOK
<1> SUFFICES ASSUME Init PROVE TypeOK
  OBVIOUS
<1>1. queue \in Seq(Jobs)
  BY EmptySeq DEF Init
<1> QED
  BY <1>1 DEF Init, TypeOK

LEMMA TypeNext == TypeOK /\ [Next]_vars => TypeOK'
<1> SUFFICES ASSUME TypeOK, [Next]_vars PROVE TypeOK'
  OBVIOUS
<1> USE DEF TypeOK, procVars, diskVars, lockVars, sessVars, agentVars
<1>a. /\ \A c \in Shells : Job("register", c, "none") \in Jobs
      /\ \A c \in Shells : Job("close", c, "none") \in Jobs
      /\ \A c \in Shells, by \in Initiators : Job("stop", c, by) \in Jobs
      /\ Job("shutdown", NoShell, "none") \in Jobs
      /\ Job("reap", NoShell, "none") \in Jobs
  BY DEF Job, Jobs
<1>b. ASSUME queue # <<>>
      PROVE  /\ Tail(queue) \in Seq(Jobs)
             /\ Head(queue).op \in {"register", "stop", "close"} => Head(queue).shell \in Shells
             /\ Head(queue).op = "stop" => Head(queue).by \in Initiators
  <2>1. Tail(queue) \in Seq(Jobs) /\ Head(queue) \in Jobs
    BY <1>b, TailJob
  <2> QED
    BY <2>1 DEF Jobs
<1>1. ASSUME NEW c \in Shells, LeaderDies(c) PROVE TypeOK'
  BY <1>1 DEF LeaderDies
<1>2. ASSUME NEW c \in Shells, DescendantsDie(c) PROVE TypeOK'
  BY <1>2 DEF DescendantsDie
<1>3. ASSUME NEW c \in Shells, OrphanReaped(c) PROVE TypeOK'
  BY <1>3 DEF OrphanReaped
<1>4. ASSUME NEW c \in Shells, HandleShellExit(c) PROVE TypeOK'
  BY <1>4 DEF HandleShellExit
<1>5. ASSUME NEW c \in Shells, StartShell(c) PROVE TypeOK'
  <2>1. queue' \in Seq(Jobs)
    BY <1>5, <1>a, AppendJob DEF StartShell, Enqueue
  <2> QED
    BY <1>5, <2>1 DEF StartShell, Enqueue
<1>6. ASSUME NEW c \in Shells, RequestClose(c) PROVE TypeOK'
  <2>1. queue' \in Seq(Jobs)
    BY <1>6, <1>a, AppendJob DEF RequestClose, Enqueue
  <2> QED
    BY <1>6, <2>1 DEF RequestClose, Enqueue
<1>7. ASSUME NEW c \in Shells, NEW by \in Initiators, RequestStop(c, by) PROVE TypeOK'
  <2>1. queue' \in Seq(Jobs)
    BY <1>7, <1>a, AppendJob DEF RequestStop, Enqueue
  <2> QED
    BY <1>7, <2>1 DEF RequestStop, Enqueue
<1>8. CASE RegisterShell
  <2>1. queue' \in Seq(Jobs)
    BY <1>8, <1>b DEF RegisterShell, Head1, Dequeue
  <2> DEFINE c == Head(queue).shell
             by == Head(queue).by
  <2>2. c \in Shells
    BY <1>8, <1>b DEF RegisterShell, Head1
  <2> HIDE DEF c, by
  <2> QED
    BY <1>8, <2>1, <2>2 DEF RegisterShell, Recorded, Head1, c
<1>9. CASE StopShell
  <2>1. queue' \in Seq(Jobs)
    BY <1>9, <1>b DEF StopShell, Head1, Dequeue
  <2> DEFINE c == Head(queue).shell
             by == Head(queue).by
  <2>2. c \in Shells /\ by \in Initiators
    BY <1>9, <1>b DEF StopShell, Head1
  <2> HIDE DEF c, by
  <2> QED
    BY <1>9, <2>1, <2>2 DEF StopShell, Sigterm, Dequeue, c, by
<1>10. CASE StopShellResume
  <2>1. queue' \in Seq(Jobs)
    BY <1>10, <1>b DEF StopShellResume, Head1, Dequeue
  <2> DEFINE c == Head(queue).shell
             by == Head(queue).by
  <2>2. c \in Shells
    BY <1>10, <1>b DEF StopShellResume, Head1
  <2> HIDE DEF c, by
  <2> QED
    BY <1>10, <2>1, <2>2 DEF StopShellResume, GraceOver, Sigkill, NoInitiator, Dequeue, c
<1>11. CASE CloseShell
  <2>1. queue' \in Seq(Jobs)
    BY <1>11, <1>b DEF CloseShell, Head1, Dequeue
  <2> DEFINE c == Head(queue).shell
             by == Head(queue).by
  <2>2. c \in Shells
    BY <1>11, <1>b DEF CloseShell, Head1
  <2> HIDE DEF c, by
  <2> QED
    BY <1>11, <2>1, <2>2 DEF CloseShell, Sigterm, Unregister, Dequeue, c
<1>12. CASE CloseShellResume
  <2>1. queue' \in Seq(Jobs)
    BY <1>12, <1>b DEF CloseShellResume, Head1, Dequeue
  <2> DEFINE c == Head(queue).shell
             by == Head(queue).by
  <2>2. c \in Shells
    BY <1>12, <1>b DEF CloseShellResume, Head1
  <2> HIDE DEF c, by
  <2> QED
    BY <1>12, <2>1, <2>2 DEF CloseShellResume, GraceOver, Sigkill, Unregister, CloseOver, Dequeue, c
<1>13. ASSUME NEW op \in {"shutdown", "reap"}, NEW next \in {"off", "on"},
              SweepBegin(op, next)
       PROVE  TypeOK'
  <2>1. queue' \in Seq(Jobs)
    BY <1>13, <1>b DEF SweepBegin, Head1, Dequeue
  <2> DEFINE alive == {c \in recs[pinned] : IsPidAlive(c)}
  <2>2. alive \subseteq Shells
    OBVIOUS
  <2> HIDE DEF alive
  <2>3. CASE alive # {}
    <3>1. /\ proc' \in [Shells -> {"unborn", "running", "dying", "gone"}]
          /\ killer' \in [Shells -> Initiators \cup {"none", "close", "sweep"}]
          /\ phase' = "grace" /\ targets' = alive
          /\ suppressing' = TRUE
          /\ UNCHANGED <<recs, logs, session>>
      BY <1>13, <2>3 DEF SweepBegin, Sigterm, alive
    <3>2. UNCHANGED <<tree, child, stoppedBy, home, closing, pinned, crashes, known,
                      notified>>
      BY <1>13 DEF SweepBegin
    <3> QED
      BY <2>1, <2>2, <3>1, <3>2
  <2>4. CASE alive = {}
    BY <1>13, <2>1, <2>4 DEF SweepBegin, Sweep, alive
  <2> QED
    BY <2>3, <2>4
<1>14. ASSUME NEW op \in {"shutdown", "reap"}, NEW next \in {"off", "on"},
              SweepEnd(op, next)
       PROVE  TypeOK'
  <2>1. queue' \in Seq(Jobs)
    BY <1>14, <1>b DEF SweepEnd, Head1, Dequeue
  <2> QED
    BY <1>14, <2>1 DEF SweepEnd, GraceOver, Sigkill, Sweep, SweepOver
<1>15. ASSUME NEW s \in Sessions, SessionStart(s) PROVE TypeOK'
  <2>1. queue' \in Seq(Jobs)
    BY <1>15, <1>a, AppendJob DEF SessionStart, Enqueue
  <2> QED
    BY <1>15, <2>1 DEF SessionStart, Enqueue
<1>16. CASE SessionShutdown
  <2>1. queue' \in Seq(Jobs)
    BY <1>16, <1>a, AppendJob DEF SessionShutdown, Enqueue
  <2> QED
    BY <1>16, <2>1 DEF SessionShutdown, Enqueue
<1>17. CASE Crash
  <2>1. queue' \in Seq(Jobs)
    BY <1>17, EmptySeq DEF Crash
  <2>2. crashes' \in Nat
    BY <1>17 DEF Crash
  <2>3. /\ session' \in {"off"} /\ child' = {} /\ phase' = "idle" /\ targets' = {}
        /\ suppressing' = FALSE /\ closing' = {}
        /\ UNCHANGED <<proc, tree, diskVars, pinned, agentVars>>
    BY <1>17 DEF Crash
  <2> QED
    BY <2>1, <2>2, <2>3
<1>18. CASE UNCHANGED vars
  BY <1>18 DEF vars
<1> QED
  BY <1>1, <1>2, <1>3, <1>4, <1>5, <1>6, <1>7, <1>8, <1>9, <1>10, <1>11, <1>12,
     <1>13, <1>14, <1>15, <1>16, <1>17, <1>18
     DEF Next, RunJob, ResumeJob, ShutdownShells, ShutdownShellsResume,
         ReapStaleState, ReapStaleStateResume

\* Every variable keeps its type, whatever the interleaving.
THEOREM TypeCorrect == Spec => []TypeOK
BY TypeInit, TypeNext, PTL DEF Spec
-----------------------------------------------------------------------------
(* The lock: who may hold the silencing flags and outstanding signals.     *)

\* Queueing a job disturbs neither the running job nor the flags.
LEMMA LockEnqueue ==
  ASSUME TypeOK, LockInv, NEW job \in Jobs, Enqueue(job)
  PROVE  LockInv'
<1>1. /\ queue' # <<>>
      /\ queue # <<>> => Head(queue') = Head(queue)
  BY AppendJob DEF TypeOK, Enqueue
<1> QED
  BY <1>1 DEF LockInv, Enqueue

LEMMA LockNext == TypeOK /\ LockInv /\ [Next]_vars => LockInv'
<1> SUFFICES ASSUME TypeOK, LockInv, [Next]_vars PROVE LockInv'
  OBVIOUS
<1> USE DEF procVars, diskVars, lockVars, sessVars, agentVars
<1>1. ASSUME NEW c \in Shells,
             LeaderDies(c) \/ DescendantsDie(c) \/ OrphanReaped(c) \/ HandleShellExit(c)
      PROVE  LockInv'
  BY <1>1 DEF LockInv, LeaderDies, DescendantsDie, OrphanReaped, HandleShellExit
<1>2. ASSUME NEW c \in Shells, StartShell(c) \/ RequestClose(c) PROVE LockInv'
  BY <1>2, LockEnqueue DEF StartShell, RequestClose, Job, Jobs
<1>14. ASSUME NEW c \in Shells, NEW by \in Initiators, RequestStop(c, by)
       PROVE  LockInv'
  BY <1>14, LockEnqueue DEF RequestStop, Job, Jobs
<1>3. CASE RegisterShell
  BY <1>3 DEF RegisterShell, LockInv
<1>4. CASE StopShell
  BY <1>4 DEF StopShell, Sigterm, Head1, LockInv
<1>5. CASE StopShellResume
  BY <1>5 DEF StopShellResume, GraceOver, Head1, LockInv
<1>6. CASE CloseShell
  BY <1>6 DEF CloseShell, Sigterm, Head1, LockInv
<1>7. CASE CloseShellResume
  BY <1>7 DEF CloseShellResume, GraceOver, CloseOver, Head1, LockInv
<1>8. ASSUME NEW op \in {"shutdown", "reap"}, NEW next, SweepBegin(op, next)
      PROVE  LockInv'
  BY <1>8 DEF SweepBegin, Sigterm, Head1, LockInv
<1>9. ASSUME NEW op \in {"shutdown", "reap"}, NEW next, SweepEnd(op, next)
      PROVE  LockInv'
  BY <1>9 DEF SweepEnd, SweepOver, GraceOver, Head1, LockInv
<1>10. ASSUME NEW s \in Sessions, SessionStart(s) PROVE LockInv'
  BY <1>10, LockEnqueue DEF SessionStart, Job, Jobs
<1>11. CASE SessionShutdown
  BY <1>11, LockEnqueue DEF SessionShutdown, Job, Jobs
<1>12. CASE Crash
  BY <1>12 DEF Crash, LockInv
<1>13. CASE UNCHANGED vars
  BY <1>13 DEF vars, LockInv
<1> QED
  BY <1>1, <1>2, <1>3, <1>4, <1>5, <1>6, <1>7, <1>8, <1>9, <1>10, <1>11, <1>12, <1>13,
     <1>14
     DEF Next, RunJob, ResumeJob, ShutdownShells, ShutdownShellsResume,
         ReapStaleState, ReapStaleStateResume

\* suppressing, closingIds and outstanding signals belong to the lock's holder:
\* no exit is silenced on behalf of a job that is not running.
THEOREM LockDiscipline == Spec => []LockInv
<1>1. Init => LockInv
  BY DEF Init, LockInv
<1> QED
  BY <1>1, LockNext, TypeCorrect, PTL DEF Spec
-----------------------------------------------------------------------------
(* The inductive invariant on queue, records and sweeps.                   *)

\* No process returns to the state before its spawn.
SpawnedStay == \A c \in Shells : proc[c] # "unborn" => proc'[c] # "unborn"

LEMMA QueueKept ==
  ASSUME TypeOK, QueueInv, SpawnedStay, UNCHANGED <<queue, known, session>>
  PROVE  QueueInv'
<1>1. \A i \in 1..Len(queue) : queue[i].op = "register" => queue[i].shell \in Shells
  <2> TAKE i \in 1..Len(queue)
  <2>1. queue[i] \in Jobs
    BY ElementOfSeq DEF TypeOK
  <2> QED
    BY <2>1 DEF Jobs
<1> QED
  BY <1>1 DEF QueueInv, SpawnedStay

\* The head job ends: a registration makes its shell known, a sweep may change
\* the session, no other job does either.
LEMMA QueueTail ==
  ASSUME TypeOK, QueueInv, SpawnedStay, queue # <<>>, queue' = Tail(queue),
         \/ known' = known
         \/ Head(queue).op = "register" /\ known' = known \cup {Head(queue).shell},
         session' = session \/ Head(queue).op \in {"shutdown", "reap"}
  PROVE  QueueInv'
<1>1. /\ Len(queue) \in Nat /\ Len(queue') = Len(queue) - 1
      /\ \A i \in 1..Len(queue') : i + 1 \in 1..Len(queue) /\ queue'[i] = queue[i + 1]
      /\ Head(queue) = queue[1] /\ 1 \in 1..Len(queue)
  BY TailJob DEF TypeOK
<1>2. \A i \in 1..Len(queue) : queue[i].op = "register" => queue[i].shell \in Shells
  <2> TAKE i \in 1..Len(queue)
  <2>1. queue[i] \in Jobs
    BY ElementOfSeq DEF TypeOK
  <2> QED
    BY <2>1 DEF Jobs
<1>3. ASSUME NEW i \in 1..Len(queue')
      PROVE  /\ queue'[i].op = "register" =>
                  proc'[queue'[i].shell] # "unborn" /\ queue'[i].shell \notin known'
             /\ queue'[i].op = "shutdown" => session' = "closing"
             /\ queue'[i].op = "reap" => session' = "starting"
  <2>1. i + 1 \in 1..Len(queue) /\ i + 1 # 1 /\ queue'[i] = queue[i + 1]
    BY <1>1, <1>3
  <2>2. ASSUME queue[i + 1].op = "register"
        PROVE  proc'[queue[i + 1].shell] # "unborn" /\ queue[i + 1].shell \notin known'
    BY <1>1, <1>2, <2>1, <2>2 DEF QueueInv, SpawnedStay
  <2>3. ASSUME queue[i + 1].op \in {"shutdown", "reap"} PROVE session' = session
    BY <1>1, <2>1, <2>3 DEF QueueInv
  <2> QED
    BY <2>1, <2>2, <2>3 DEF QueueInv
<1>4. ASSUME NEW i \in 1..Len(queue'), NEW j \in 1..Len(queue'), i # j
      PROVE  /\ queue'[i].op = "register" /\ queue'[j].op = "register"
                  => queue'[i].shell # queue'[j].shell
             /\ queue'[i].op \in {"shutdown", "reap"} =>
                  queue'[j].op \notin {"shutdown", "reap"}
  <2>1. i + 1 \in 1..Len(queue) /\ j + 1 \in 1..Len(queue) /\ i + 1 # j + 1
    BY <1>1, <1>4
  <2>2. queue'[i] = queue[i + 1] /\ queue'[j] = queue[j + 1]
    BY <1>1
  <2> QED
    BY <2>1, <2>2 DEF QueueInv
<1> QED
  BY <1>3, <1>4 DEF QueueInv

\* A job joins the queue: a registration right after its shell's spawn, a sweep
\* when no other is queued.
LEMMA QueueAppend ==
  ASSUME TypeOK, QueueInv, SpawnedStay, NEW job \in Jobs, Enqueue(job), known' = known,
         job.op = "register" =>
           /\ proc[job.shell] = "unborn" /\ proc'[job.shell] # "unborn"
           /\ job.shell \notin known,
         job.op \in {"shutdown", "reap"} =>
           /\ session \notin {"closing", "starting"}
           /\ session' = IF job.op = "shutdown" THEN "closing" ELSE "starting",
         job.op \notin {"shutdown", "reap"} => session' = session
  PROVE  QueueInv'
<1> DEFINE n == Len(queue)
<1>1. /\ n \in Nat /\ Len(queue') = n + 1
      /\ \A i \in 1..n : queue'[i] = queue[i] /\ i \in 1..Len(queue)
      /\ queue'[n + 1] = job
      /\ \A i \in 1..Len(queue') : i \in 1..n \/ i = n + 1
  BY AppendJob, LenProperties DEF TypeOK, Enqueue
<1>2. \A i \in 1..n : queue[i].op = "register" => queue[i].shell \in Shells
  <2> TAKE i \in 1..n
  <2>1. queue[i] \in Jobs
    BY ElementOfSeq DEF TypeOK
  <2> QED
    BY <2>1 DEF Jobs
<1>3. \A i \in 1..n : queue[i].op \in {"shutdown", "reap"} => session \in {"closing", "starting"}
  BY DEF QueueInv
<1> HIDE DEF n
<1>4. ASSUME NEW i \in 1..Len(queue')
      PROVE  /\ queue'[i].op = "register" =>
                  proc'[queue'[i].shell] # "unborn" /\ queue'[i].shell \notin known'
             /\ queue'[i].op = "shutdown" => session' = "closing"
             /\ queue'[i].op = "reap" => session' = "starting"
  <2>1. CASE i \in 1..n
    BY <1>1, <1>2, <1>3, <2>1 DEF QueueInv, SpawnedStay
  <2>2. CASE i = n + 1
    BY <1>1, <2>2
  <2> QED
    BY <1>1, <2>1, <2>2
<1>5. ASSUME NEW i \in 1..Len(queue'), NEW j \in 1..Len(queue'), i # j
      PROVE  /\ queue'[i].op = "register" /\ queue'[j].op = "register"
                  => queue'[i].shell # queue'[j].shell
             /\ queue'[i].op \in {"shutdown", "reap"} =>
                  queue'[j].op \notin {"shutdown", "reap"}
  <2>1. CASE i \in 1..n /\ j \in 1..n
    BY <1>1, <1>5, <2>1 DEF QueueInv
  <2>2. CASE i \in 1..n /\ j = n + 1
    BY <1>1, <1>2, <1>3, <2>2 DEF QueueInv
  <2>3. CASE i = n + 1 /\ j \in 1..n
    BY <1>1, <1>2, <1>3, <2>3 DEF QueueInv
  <2> QED
    BY <1>1, <1>5, <2>1, <2>2, <2>3
<1> QED
  BY <1>4, <1>5 DEF QueueInv

LEMMA RegistryNext ==
  TypeOK /\ LockInv /\ RegistryInv /\ [Next]_vars => RegistryInv'
<1> SUFFICES ASSUME TypeOK, LockInv, RegistryInv, [Next]_vars PROVE RegistryInv'
  OBVIOUS
<1> USE DEF RegistryInv, procVars, diskVars, lockVars, sessVars, agentVars
<1>a. \A op \in {"register", "stop", "close"} :
        Head1(op) => /\ queue # <<>> /\ Head(queue).shell \in Shells
                     /\ 1 \in 1..Len(queue) /\ Head(queue) = queue[1]
  <2>1. queue # <<>> => /\ Head(queue) \in Jobs
                        /\ 1 \in 1..Len(queue) /\ Head(queue) = queue[1]
    BY TailJob DEF TypeOK
  <2> QED
    BY <2>1 DEF Head1, Jobs
<1>1. ASSUME NEW c \in Shells,
             LeaderDies(c) \/ DescendantsDie(c) \/ OrphanReaped(c) \/ HandleShellExit(c)
      PROVE  RegistryInv'
  <2>1. SpawnedStay /\ UNCHANGED <<queue, known, session, phase, targets, recs, pinned>>
    BY <1>1 DEF LeaderDies, DescendantsDie, OrphanReaped, HandleShellExit, SpawnedStay,
       TypeOK
  <2>2. \A d \in Shells : proc'[d] \in {"running", "dying"} => IsPidAlive(d)
    BY <1>1 DEF LeaderDies, DescendantsDie, OrphanReaped, HandleShellExit, IsPidAlive,
       TypeOK
  <2>3. QueueInv'
    BY <2>1, QueueKept
  <2>4. RecordsInv'
    BY <2>1 DEF RecordsInv, SpawnedStay, TypeOK
  <2>5. SweepInv'
    BY <2>1, <2>2 DEF SweepInv, IsPidAlive, TypeOK
  <2> QED
    BY <2>3, <2>4, <2>5
<1>2. ASSUME NEW c \in Shells, StartShell(c) PROVE RegistryInv'
  <2>1. Job("register", c, "none") \in Jobs /\ Enqueue(Job("register", c, "none"))
    BY <1>2 DEF StartShell, Job, Jobs
  <2>2. /\ SpawnedStay /\ proc[c] = "unborn" /\ proc' = [proc EXCEPT ![c] = "running"]
        /\ UNCHANGED <<known, session, phase, targets, recs, pinned>>
    BY <1>2 DEF StartShell, Enqueue, SpawnedStay, TypeOK
  <2>3. c \notin known /\ c \notin recs[pinned]
    BY <2>2 DEF RecordsInv, TypeOK
  <2>4. QueueInv'
    BY <2>1, <2>2, <2>3, QueueAppend DEF Job, TypeOK
  <2>5. RecordsInv'
    BY <2>2 DEF RecordsInv, SpawnedStay, TypeOK
  <2>6. queue # <<>> => Head(queue') = Head(queue)
    BY <2>1, AppendJob DEF Enqueue, TypeOK
  <2>7. SweepInv'
    BY <2>2, <2>3, <2>6 DEF SweepInv, IsPidAlive, LockInv, TypeOK
  <2> QED
    BY <2>4, <2>5, <2>7
<1>3. ASSUME NEW job \in Jobs, Enqueue(job), job.op \in {"stop", "close", "shutdown", "reap"},
             UNCHANGED <<procVars, recs, known>>, pinned' \in Sessions,
             job.op \in {"shutdown", "reap"} =>
               /\ session \in {"off", "on"}
               /\ session' = IF job.op = "shutdown" THEN "closing" ELSE "starting",
             job.op \in {"stop", "close"} => session' = session,
             job.op # "reap" => pinned' = pinned
      PROVE  RegistryInv'
  <2>1. SpawnedStay
    BY <1>3 DEF SpawnedStay
  <2>2. QueueInv'
    BY <1>3, <2>1, QueueAppend
  <2>3. RecordsInv'
    BY <1>3 DEF RecordsInv
  <2>4. queue # <<>> => Head(queue') = Head(queue) /\ Head(queue) = queue[1] /\ 1 \in 1..Len(queue)
    BY <1>3, AppendJob, TailJob DEF Enqueue, TypeOK
  <2>5. ASSUME phase = "grace", Head(queue).op \in {"shutdown", "reap"}
        PROVE  job.op \notin {"shutdown", "reap"}
    BY <1>3, <2>4, <2>5 DEF LockInv, QueueInv
  <2>6. SweepInv'
    BY <1>3, <2>4, <2>5 DEF SweepInv, IsPidAlive, LockInv, Enqueue
  <2> QED
    BY <2>2, <2>3, <2>6
<1>4. ASSUME NEW c \in Shells, RequestClose(c) PROVE RegistryInv'
  BY <1>3, <1>4 DEF RequestClose, Job, Jobs, TypeOK
<1>5. ASSUME NEW c \in Shells, NEW by \in Initiators, RequestStop(c, by)
      PROVE  RegistryInv'
  BY <1>3, <1>5 DEF RequestStop, Job, Jobs, TypeOK
<1>6. ASSUME NEW s \in Sessions, SessionStart(s) PROVE RegistryInv'
  BY <1>3, <1>6 DEF SessionStart, Job, Jobs
<1>7. CASE SessionShutdown
  BY <1>3, <1>7 DEF SessionShutdown, Job, Jobs, TypeOK
<1>8. CASE RegisterShell
  <2> DEFINE c == Head(queue).shell
  <2>1. c \in Shells /\ queue # <<>> /\ c \notin known /\ proc[c] # "unborn"
    BY <1>8, <1>a DEF RegisterShell, QueueInv, Head1
  <2>2. SpawnedStay
    BY <1>8 DEF RegisterShell, SpawnedStay
  <2>3. QueueInv'
    BY <1>8, <2>1, <2>2, QueueTail DEF RegisterShell, Dequeue, Head1
  <2>4. RecordsInv'
    BY <1>8, <2>1 DEF RegisterShell, Recorded, RecordsInv, TypeOK
  <2>5. SweepInv'
    BY <1>8 DEF RegisterShell, SweepInv
  <2> QED
    BY <2>3, <2>4, <2>5
<1>9. CASE StopShell
  <2> DEFINE c == Head(queue).shell
  <2>1. c \in Shells /\ queue # <<>>
    BY <1>9, <1>a DEF StopShell
  <2>2. SpawnedStay
    BY <1>9, <2>1 DEF StopShell, Sigterm, IsPidAlive, SpawnedStay, TypeOK
  <2>3. QueueInv'
    BY <1>9, <2>1, <2>2, QueueTail, QueueKept DEF StopShell, Dequeue, Sigterm
  <2>4. RecordsInv'
    BY <1>9, <2>2 DEF StopShell, RecordsInv, SpawnedStay, TypeOK
  <2>5. SweepInv'
    BY <1>9, <2>1 DEF StopShell, SweepInv, Head1, Sigterm, IsPidAlive
  <2> QED
    BY <2>3, <2>4, <2>5
<1>10. CASE StopShellResume
  <2> DEFINE c == Head(queue).shell
  <2>1. c \in Shells /\ queue # <<>>
    BY <1>10, <1>a DEF StopShellResume
  <2>2. SpawnedStay
    BY <1>10, <2>1 DEF StopShellResume, GraceOver, Sigkill, SpawnedStay, TypeOK
  <2>3. QueueInv'
    BY <1>10, <2>1, <2>2, QueueTail, QueueKept DEF StopShellResume, Dequeue
  <2>4. RecordsInv'
    BY <1>10, <2>2 DEF StopShellResume, RecordsInv, SpawnedStay, TypeOK
  <2>5. SweepInv'
    BY <1>10, <2>1 DEF StopShellResume, SweepInv, Head1, GraceOver, Sigkill
  <2> QED
    BY <2>3, <2>4, <2>5
<1>11. CASE CloseShell
  <2> DEFINE c == Head(queue).shell
  <2>1. c \in Shells /\ queue # <<>>
    BY <1>11, <1>a DEF CloseShell
  <2>2. SpawnedStay
    BY <1>11, <2>1 DEF CloseShell, Sigterm, IsPidAlive, SpawnedStay, TypeOK
  <2>3. QueueInv'
    BY <1>11, <2>1, <2>2, QueueTail, QueueKept DEF CloseShell, Dequeue, Sigterm
  <2>4. RecordsInv'
    BY <1>11, <2>2 DEF CloseShell, RecordsInv, SpawnedStay, TypeOK, Unregister
  <2>5. SweepInv'
    BY <1>11, <2>1 DEF CloseShell, SweepInv, Head1, Sigterm, IsPidAlive
  <2> QED
    BY <2>3, <2>4, <2>5
<1>12. CASE CloseShellResume
  <2> DEFINE c == Head(queue).shell
  <2>1. c \in Shells /\ queue # <<>>
    BY <1>12, <1>a DEF CloseShellResume
  <2>2. SpawnedStay
    BY <1>12, <2>1 DEF CloseShellResume, GraceOver, Sigkill, SpawnedStay, TypeOK
  <2>3. QueueInv'
    BY <1>12, <2>1, <2>2, QueueTail, QueueKept DEF CloseShellResume, Dequeue
  <2>4. RecordsInv'
    BY <1>12, <2>2 DEF CloseShellResume, RecordsInv, SpawnedStay, TypeOK, Unregister
  <2>5. SweepInv'
    BY <1>12, <2>1 DEF CloseShellResume, SweepInv, Head1, GraceOver, Sigkill
  <2> QED
    BY <2>3, <2>4, <2>5
<1>13. ASSUME NEW op \in {"shutdown", "reap"}, NEW next \in {"off", "on"},
              SweepBegin(op, next)
       PROVE  RegistryInv'
  <2>1. SpawnedStay /\ queue # <<>> /\ Head(queue).op = op
    BY <1>13 DEF SweepBegin, Head1, Sigterm, IsPidAlive, SpawnedStay, TypeOK
  <2>2. QueueInv'
    BY <1>13, <2>1, QueueTail, QueueKept DEF SweepBegin, Dequeue, Sigterm
  <2>3. RecordsInv'
    BY <1>13, <2>1 DEF SweepBegin, Sweep, RecordsInv, SpawnedStay, TypeOK
  <2>4. SweepInv'
    BY <1>13 DEF SweepBegin, Sigterm, SweepInv, IsPidAlive, TypeOK
  <2> QED
    BY <2>2, <2>3, <2>4
<1>14. ASSUME NEW op \in {"shutdown", "reap"}, NEW next \in {"off", "on"},
              SweepEnd(op, next)
       PROVE  RegistryInv'
  <2>1. SpawnedStay /\ queue # <<>> /\ Head(queue).op = op
    BY <1>14 DEF SweepEnd, Head1, GraceOver, Sigkill, SpawnedStay, TypeOK
  <2>2. QueueInv'
    BY <1>14, <2>1, QueueTail DEF SweepEnd, Dequeue
  <2>3. RecordsInv'
    BY <1>14, <2>1 DEF SweepEnd, Sweep, RecordsInv, SpawnedStay, TypeOK
  <2>4. SweepInv'
    BY <1>14 DEF SweepEnd, GraceOver, SweepInv
  <2> QED
    BY <2>2, <2>3, <2>4
<1>15. CASE Crash
  <2>1. UNCHANGED <<proc, recs, known>> /\ queue' = <<>> /\ phase' = "idle"
    BY <1>15 DEF Crash
  <2>2. Len(queue') = 0
    BY <2>1
  <2> QED
    BY <2>1, <2>2 DEF QueueInv, RecordsInv, SweepInv
<1>16. CASE UNCHANGED vars
  BY <1>16 DEF vars, QueueInv, RecordsInv, SweepInv, IsPidAlive
<1> QED
  BY <1>1, <1>2, <1>4, <1>5, <1>6, <1>7, <1>8, <1>9, <1>10, <1>11, <1>12, <1>13, <1>14,
     <1>15, <1>16
     DEF Next, RunJob, ResumeJob, ShutdownShells, ShutdownShellsResume,
         ReapStaleState, ReapStaleStateResume

\* The strengthening holds in every reachable state.
THEOREM RegistryInvariant == Spec => []RegistryInv
<1>1. Init => RegistryInv
  <2> SUFFICES ASSUME Init PROVE RegistryInv
    OBVIOUS
  <2>1. Len(queue) = 0
    BY DEF Init
  <2> QED
    BY <2>1 DEF Init, RegistryInv, QueueInv, RecordsInv, SweepInv
<1> QED
  BY <1>1, RegistryNext, TypeCorrect, LockDiscipline, PTL DEF Spec

-----------------------------------------------------------------------------
(* What follows from it.                                                   *)

\* A record leaves a registry only with its leader no longer running.
LEMMA RemovedIsDead ==
  ASSUME TypeOK, LockInv, RegistryInv, [Next]_vars,
         NEW s \in Sessions, NEW c \in recs[s] \ recs'[s]
  PROVE  proc'[c] # "running"
<1> USE DEF procVars, diskVars, lockVars, sessVars, agentVars
<1>1. CASE CloseShell
  BY <1>1 DEF CloseShell, Unregister, IsPidAlive, TypeOK
<1>2. CASE CloseShellResume
  BY <1>2 DEF CloseShellResume, Unregister, StillAlive, TypeOK
<1>3. ASSUME NEW op \in {"shutdown", "reap"}, NEW next, SweepBegin(op, next)
      PROVE  proc'[c] # "running"
  BY <1>3 DEF SweepBegin, Sweep, Sigterm, IsPidAlive, TypeOK
<1>4. ASSUME NEW op \in {"shutdown", "reap"}, NEW next, SweepEnd(op, next)
      PROVE  proc'[c] # "running"
  <2>1. c \in recs[pinned] /\ c \in Shells
    BY <1>4 DEF SweepEnd, Sweep, TypeOK
  <2>2. c \in targets \/ ~IsPidAlive(c)
    BY <1>4, <2>1 DEF SweepEnd, GraceOver, Head1, RegistryInv, SweepInv
  <2> QED
    BY <1>4, <2>1, <2>2 DEF SweepEnd, Sigkill, IsPidAlive, TypeOK
<1>5. ASSUME UNCHANGED recs PROVE FALSE
  BY <1>5
<1>6. CASE RegisterShell
  BY <1>6 DEF RegisterShell, Recorded, TypeOK
<1>7. \/ CloseShell \/ CloseShellResume \/ RegisterShell \/ UNCHANGED recs
      \/ SweepBegin("shutdown", "off") \/ SweepBegin("reap", "on")
      \/ SweepEnd("shutdown", "off") \/ SweepEnd("reap", "on")
  BY DEF Next, vars, RunJob, ResumeJob, ShutdownShells, ShutdownShellsResume,
     ReapStaleState, ReapStaleStateResume, LeaderDies, DescendantsDie, OrphanReaped,
     HandleShellExit, StartShell, RequestClose, RequestStop, StopShell,
     StopShellResume, SessionStart, SessionShutdown, Crash
<1> QED
  BY <1>1, <1>2, <1>3, <1>4, <1>5, <1>6, <1>7

\* Whatever is queued, stopped, crashed or resumed, the registry never forgets a
\* running process.
THEOREM RecordsOutliveLeaders == Spec => RecordOutlivesLeader
<1>1. TypeOK /\ LockInv /\ RegistryInv /\ [Next]_vars =>
        [\A s \in Sessions : \A c \in recs[s] \ recs'[s] : proc'[c] # "running"]_vars
  BY RemovedIsDead
<1> QED
  BY <1>1, TypeCorrect, LockDiscipline, RegistryInvariant, PTL
     DEF Spec, RecordOutlivesLeader
-----------------------------------------------------------------------------
(* No start loses its record.                                              *)

\* What a step does to the lock's queue.
LEMMA QueueStep ==
  ASSUME TypeOK, [Next]_vars
  PROVE  \/ UNCHANGED queue
         \/ \E job \in Jobs : queue' = Append(queue, job)
         \/ /\ queue # <<>> /\ queue' = Tail(queue)
            /\ Head(queue).op = "register" => RegisterShell
         \/ Crash
<1> USE DEF procVars, diskVars, lockVars, sessVars, agentVars
<1>1. ASSUME NEW c \in Shells, StartShell(c) \/ RequestClose(c)
      PROVE  \E job \in Jobs : queue' = Append(queue, job)
  BY <1>1 DEF StartShell, RequestClose, Enqueue, Job, Jobs
<1>2. ASSUME NEW c \in Shells, NEW by \in Initiators, RequestStop(c, by)
      PROVE  \E job \in Jobs : queue' = Append(queue, job)
  BY <1>2 DEF RequestStop, Enqueue, Job, Jobs
<1>3. ASSUME NEW s \in Sessions, SessionStart(s)
      PROVE  \E job \in Jobs : queue' = Append(queue, job)
  BY <1>3 DEF SessionStart, Enqueue, Job, Jobs
<1>4. ASSUME SessionShutdown PROVE \E job \in Jobs : queue' = Append(queue, job)
  BY <1>4 DEF SessionShutdown, Enqueue, Job, Jobs
<1>5. ASSUME RunJob \/ ResumeJob
      PROVE  \/ UNCHANGED queue
             \/ /\ queue # <<>> /\ queue' = Tail(queue)
                /\ Head(queue).op = "register" => RegisterShell
  BY <1>5 DEF RunJob, ResumeJob, RegisterShell, StopShell, StopShellResume, CloseShell,
     CloseShellResume, ShutdownShells, ShutdownShellsResume, ReapStaleState,
     ReapStaleStateResume, SweepBegin, SweepEnd, Dequeue, Head1
<1>6. ASSUME NEW c \in Shells,
             LeaderDies(c) \/ DescendantsDie(c) \/ OrphanReaped(c) \/ HandleShellExit(c)
      PROVE  UNCHANGED queue
  BY <1>6 DEF LeaderDies, DescendantsDie, OrphanReaped, HandleShellExit
<1> QED
  BY <1>1, <1>2, <1>3, <1>4, <1>5, <1>6 DEF Next, vars

\* Only a registration that runs takes one off the queue.
LEMMA PendingStays ==
  ASSUME TypeOK, [Next]_vars, ~Crash, NEW c \in Shells, RegisterPending(c)
  PROVE  RegisterPending(c)' \/ (RegisterShell /\ Head(queue).shell = c)
<1>1. PICK i \in 1..Len(queue) : queue[i].op = "register" /\ queue[i].shell = c
  BY DEF RegisterPending
<1>2. CASE UNCHANGED queue
  BY <1>1, <1>2 DEF RegisterPending
<1>3. ASSUME NEW job \in Jobs, queue' = Append(queue, job)
      PROVE  RegisterPending(c)'
  <2>1. i \in 1..Len(queue') /\ queue'[i] = queue[i]
    BY <1>1, <1>3, AppendJob, LenProperties DEF TypeOK
  <2> QED
    BY <1>1, <2>1 DEF RegisterPending
<1>4. ASSUME queue # <<>>, queue' = Tail(queue), Head(queue).op = "register" => RegisterShell
      PROVE  RegisterPending(c)' \/ (RegisterShell /\ Head(queue).shell = c)
  <2>1. CASE i = 1
    BY <1>1, <1>4, <2>1, TailJob DEF TypeOK
  <2>2. CASE i # 1
    <3>1. /\ Len(queue) \in Nat \ {0} /\ Len(queue') = Len(queue) - 1
          /\ \A k \in 1..Len(queue') : queue'[k] = queue[k + 1]
      BY <1>4, TailJob DEF TypeOK
    <3>2. i - 1 \in 1..Len(queue') /\ (i - 1) + 1 = i
      BY <1>1, <2>2, <3>1
    <3>3. queue'[i - 1] = queue[i]
      BY <3>1, <3>2
    <3> QED
      BY <1>1, <3>2, <3>3 DEF RegisterPending
  <2> QED
    BY <2>1, <2>2
<1> QED
  BY <1>2, <1>3, <1>4, QueueStep

LEMMA UntrackedNext ==
  TypeOK /\ LockInv /\ RegistryInv /\ NoUntrackedChild /\ [Next]_vars => NoUntrackedChild'
<1> SUFFICES ASSUME TypeOK, LockInv, RegistryInv, NoUntrackedChild, [Next]_vars,
                    NEW c \in child', proc'[c] = "running"
             PROVE  RegisterPending(c)' \/ \E s \in Sessions : c \in recs'[s]
  BY DEF NoUntrackedChild
<1> USE DEF procVars, diskVars, lockVars, sessVars, agentVars
<1>1. CASE Crash
  BY <1>1 DEF Crash
<1>2. ASSUME StartShell(c), c \in Shells PROVE RegisterPending(c)'
  <2>1. Job("register", c, "none") \in Jobs /\ queue' = Append(queue, Job("register", c, "none"))
    BY <1>2 DEF StartShell, Enqueue, Job, Jobs
  <2>2. /\ Len(queue) \in Nat /\ Len(queue') = Len(queue) + 1
        /\ queue'[Len(queue) + 1] = Job("register", c, "none")
    BY <2>1, AppendJob, LenProperties DEF TypeOK
  <2>3. Len(queue) + 1 \in 1..Len(queue')
    BY <2>2
  <2> QED
    BY <2>2, <2>3 DEF RegisterPending, Job
<1>3. ~Crash => c \in Shells /\ (StartShell(c) \/ (c \in child /\ proc[c] = "running"))
  <2>1. ASSUME NEW d \in Shells, LeaderDies(d) \/ DescendantsDie(d) \/ OrphanReaped(d)
                                   \/ HandleShellExit(d)
        PROVE  c \in child /\ proc[c] = "running"
    BY <2>1 DEF LeaderDies, DescendantsDie, OrphanReaped, HandleShellExit, TypeOK
  <2>2. ASSUME NEW d \in Shells, StartShell(d), ~StartShell(c)
        PROVE  c \in child /\ proc[c] = "running"
    BY <2>2 DEF StartShell, TypeOK
  <2>3. ASSUME RunJob PROVE c \in child /\ proc[c] = "running"
    BY <2>3 DEF RunJob, RegisterShell, StopShell, CloseShell, ShutdownShells,
       ReapStaleState, SweepBegin, Sigterm, TypeOK
  <2>4. ASSUME ResumeJob PROVE c \in child /\ proc[c] = "running"
    BY <2>4 DEF ResumeJob, StopShellResume, CloseShellResume, ShutdownShellsResume,
       ReapStaleStateResume, SweepEnd, Sigkill, TypeOK
  <2>5. ASSUME UNCHANGED <<proc, child>> PROVE c \in child /\ proc[c] = "running"
    BY <2>5
  <2>6. c \in Shells
    BY TypeNext DEF TypeOK
  <2>7. Next \/ UNCHANGED <<proc, child>>
    BY DEF vars
  <2> QED
    BY <2>1, <2>2, <2>3, <2>4, <2>5, <2>6, <2>7
       DEF Next, RequestClose, RequestStop, SessionStart, SessionShutdown
<1>4. ASSUME c \in child, proc[c] = "running", ~Crash, c \in Shells
      PROVE  RegisterPending(c)' \/ \E s \in Sessions : c \in recs'[s]
  <2>1. CASE RegisterPending(c)
    <3>1. RegisterShell /\ Head(queue).shell = c => c \in recs'[pinned] /\ pinned \in Sessions
      BY DEF RegisterShell, Recorded, TypeOK
    <3> QED
      BY <1>4, <2>1, <3>1, PendingStays
  <2>2. ASSUME NEW s \in Sessions, c \in recs[s] PROVE c \in recs'[s]
    BY <2>2, RemovedIsDead
  <2> QED
    BY <1>4, <2>1, <2>2 DEF NoUntrackedChild
<1> QED
  BY <1>1, <1>2, <1>3, <1>4

\* For any number of parallel starts, stops and closes, in any order.
THEOREM NothingUntracked == Spec => []NoUntrackedChild
<1>1. Init => NoUntrackedChild
  BY DEF Init, NoUntrackedChild
<1> QED
  BY <1>1, UntrackedNext, TypeCorrect, LockDiscipline, RegistryInvariant, PTL DEF Spec

-----------------------------------------------------------------------------
(* What the registry holds while a session is on.                          *)

\* A shell of the session that is pinned, with its log.
Mine(c) == c \in child /\ c \in logs /\ home[c] = pinned

\* The records that are there, and those that are on their way, are the session's
\* own; nothing is registered behind a queued reap, and only known shells are closed.
OwnershipInv ==
  /\ session = "on" => \A c \in recs[pinned] : Mine(c)
  /\ session = "on" => \A i \in 1..Len(queue) : queue[i].op = "register" => Mine(queue[i].shell)
  /\ \A i, j \in 1..Len(queue) : i < j /\ queue[i].op = "reap" => queue[j].op # "register"
  /\ \A i \in 1..Len(queue) : queue[i].op = "close" => queue[i].shell \in known

\* The shells of queued jobs, other than sweeps, are shells.
LEMMA QueuedShells ==
  ASSUME TypeOK
  PROVE  \A i \in 1..Len(queue) : queue[i].op \in {"register", "stop", "close"} => queue[i].shell \in Shells
<1> TAKE i \in 1..Len(queue)
<1>1. queue[i] \in Jobs
  BY ElementOfSeq DEF TypeOK
<1> QED
  BY <1>1 DEF Jobs

\* A job joins the queue; a start adds the shell that it spawned.
LEMMA OwnershipAppend ==
  ASSUME TypeOK, QueueInv, OwnershipInv, NEW job \in Jobs, Enqueue(job), UNCHANGED <<recs, known>>,
         session' = "on" => session = "on" /\ \A c \in Shells : Mine(c) => Mine(c)',
         session' = "on" => pinned' = pinned,
         job.op = "register" => session \in {"on", "closing"} /\ Mine(job.shell)',
         job.op = "close" => job.shell \in known
  PROVE  OwnershipInv'
<1> DEFINE n == Len(queue)
<1>1. /\ n \in Nat /\ Len(queue') = n + 1
      /\ \A i \in 1..n : queue'[i] = queue[i]
      /\ queue'[n + 1] = job
      /\ \A i \in 1..Len(queue') : i \in 1..n \/ i = n + 1
  BY AppendJob, LenProperties DEF TypeOK, Enqueue
<1>2. \A i \in 1..n : queue[i].op = "register" => queue[i].shell \in Shells
  BY QueuedShells
<1>3. session' = "on" => \A c \in recs'[pinned'] : Mine(c)'
  BY DEF OwnershipInv, TypeOK
<1>4. session' = "on" => \A i \in 1..Len(queue') : queue'[i].op = "register" => Mine(queue[i].shell)'
  <2> SUFFICES ASSUME session' = "on", NEW i \in 1..Len(queue'), queue'[i].op = "register"
               PROVE  Mine(queue[i].shell)'
    OBVIOUS
  <2>1. CASE i \in 1..n
    <3>1. queue[i].op = "register" /\ queue[i].shell \in Shells /\ Mine(queue[i].shell)
      BY <1>1, <1>2, <2>1 DEF OwnershipInv
    <3> QED
      BY <1>1, <2>1, <3>1 DEF Mine
  <2>2. CASE i = n + 1
    BY <1>1, <2>2 DEF Mine
  <2> QED
    BY <1>1, <2>1, <2>2
<1>5. \A i, j \in 1..Len(queue') : i < j /\ queue'[i].op = "reap" => queue'[j].op # "register"
  <2> SUFFICES ASSUME NEW i \in 1..Len(queue'), NEW j \in 1..Len(queue'), i < j, queue'[i].op = "reap"
               PROVE  queue'[j].op # "register"
    OBVIOUS
  <2>1. i \in 1..n /\ queue[i].op = "reap"
    BY <1>1
  <2>2. session = "starting"
    BY <2>1 DEF QueueInv
  <2> QED
    BY <1>1, <2>1, <2>2 DEF OwnershipInv
<1>6. \A i \in 1..Len(queue') : queue'[i].op = "close" => queue'[i].shell \in known'
  BY <1>1 DEF OwnershipInv
<1> QED
  BY <1>3, <1>4, <1>5, <1>6 DEF OwnershipInv

\* The head job ends. Only a reap turns the session on, and then nothing is waiting
\* to be registered.
LEMMA OwnershipTail ==
  ASSUME TypeOK, RegistryInv, OwnershipInv, queue # <<>>, queue' = Tail(queue),
         known \subseteq known',
         session' = "on" => pinned' = pinned /\ (session = "on" \/ Head(queue).op = "reap"),
         session' = "on" => \A c \in Shells \ known : Mine(c) => Mine(c)',
         session' = "on" => \A c \in recs'[pinned] : Mine(c)'
  PROVE  OwnershipInv'
<1>1. /\ Len(queue) \in Nat /\ Len(queue') = Len(queue) - 1
      /\ \A i \in 1..Len(queue') : i + 1 \in 1..Len(queue) /\ queue'[i] = queue[i + 1]
      /\ Head(queue) = queue[1] /\ 1 \in 1..Len(queue)
  BY TailJob DEF TypeOK
<1>2. \A i \in 1..Len(queue) : queue[i].op = "register" =>
         queue[i].shell \in Shells /\ queue[i].shell \notin known
  BY QueuedShells DEF RegistryInv, QueueInv
<1>3. session' = "on" => \A i \in 1..Len(queue') : queue'[i].op = "register" => Mine(queue[i].shell)'
  <2> SUFFICES ASSUME session' = "on", NEW i \in 1..Len(queue'), queue'[i].op = "register"
               PROVE  Mine(queue[i].shell)'
    OBVIOUS
  <2>1. i + 1 \in 1..Len(queue) /\ 1 < i + 1 /\ queue'[i] = queue[i + 1]
    BY <1>1
  <2>2. Head(queue).op # "reap"
    BY <1>1, <2>1 DEF OwnershipInv
  <2>3. Mine(queue[i + 1].shell)
    BY <2>1, <2>2 DEF OwnershipInv
  <2> QED
    BY <1>2, <2>1, <2>3 DEF Mine
<1>4. \A i, j \in 1..Len(queue') : i < j /\ queue'[i].op = "reap" => queue'[j].op # "register"
  <2> SUFFICES ASSUME NEW i \in 1..Len(queue'), NEW j \in 1..Len(queue'), i < j, queue'[i].op = "reap"
               PROVE  queue'[j].op # "register"
    OBVIOUS
  <2>1. i + 1 \in 1..Len(queue) /\ j + 1 \in 1..Len(queue) /\ i + 1 < j + 1
    BY <1>1
  <2> QED
    BY <1>1, <2>1 DEF OwnershipInv
<1>5. \A i \in 1..Len(queue') : queue'[i].op = "close" => queue'[i].shell \in known'
  BY <1>1 DEF OwnershipInv
<1>6. session' = "on" => \A c \in recs'[pinned'] : Mine(c)'
  OBVIOUS
<1> QED
  BY <1>3, <1>4, <1>5, <1>6 DEF OwnershipInv

LEMMA OwnershipNext ==
  TypeOK /\ RegistryInv /\ OwnershipInv /\ [Next]_vars => OwnershipInv'
<1> SUFFICES ASSUME TypeOK, RegistryInv, OwnershipInv, [Next]_vars PROVE OwnershipInv'
  OBVIOUS
<1> USE DEF procVars, diskVars, lockVars, sessVars, agentVars
<1>a. /\ \A c \in Shells : Job("register", c, "none") \in Jobs
      /\ \A c \in Shells : Job("close", c, "none") \in Jobs
      /\ \A c \in Shells, by \in Initiators : Job("stop", c, by) \in Jobs
      /\ Job("shutdown", NoShell, "none") \in Jobs
      /\ Job("reap", NoShell, "none") \in Jobs
  BY DEF Job, Jobs
<1>b. queue # <<>> => Head(queue) = queue[1] /\ 1 \in 1..Len(queue)
  BY TailJob DEF TypeOK
<1>c. ASSUME UNCHANGED <<queue, known, recs, child, logs, home, pinned, session>> PROVE OwnershipInv'
  BY <1>c DEF OwnershipInv, Mine
<1>1. ASSUME NEW c \in Shells,
             LeaderDies(c) \/ DescendantsDie(c) \/ OrphanReaped(c) \/ HandleShellExit(c)
      PROVE  OwnershipInv'
  BY <1>1, <1>c DEF LeaderDies, DescendantsDie, OrphanReaped, HandleShellExit
<1>2. ASSUME NEW c \in Shells, StartShell(c) PROVE OwnershipInv'
  <2>1. \A d \in Shells : Mine(d) \/ d = c => Mine(d)'
    BY <1>2 DEF StartShell, Mine, TypeOK
  <2>2. UNCHANGED <<recs, known, session, pinned>> /\ session \in {"on", "closing"}
    BY <1>2 DEF StartShell, InSession
  <2>3. Enqueue(Job("register", c, "none"))
    BY <1>2 DEF StartShell
  <2>4. Job("register", c, "none").shell = c /\ Job("register", c, "none").op = "register"
    BY DEF Job
  <2> QED
    BY <1>a, <2>1, <2>2, <2>3, <2>4, OwnershipAppend DEF RegistryInv
<1>3. ASSUME NEW job \in Jobs, Enqueue(job), UNCHANGED <<recs, known, child, logs, home>>,
             job.op # "register", job.op = "close" => job.shell \in known,
             session' = "on" => session = "on" /\ pinned' = pinned
      PROVE  OwnershipInv'
  <2>1. session' = "on" => session = "on" /\ \A c \in Shells : Mine(c) => Mine(c)'
    BY <1>3 DEF Mine
  <2> QED
    BY <1>3, <2>1, OwnershipAppend DEF RegistryInv
<1>4. ASSUME NEW c \in Shells, RequestClose(c) PROVE OwnershipInv'
  BY <1>3, <1>4, <1>a DEF RequestClose, Job
<1>5. ASSUME NEW c \in Shells, NEW by \in Initiators, RequestStop(c, by) PROVE OwnershipInv'
  BY <1>3, <1>5, <1>a DEF RequestStop, Job
<1>6. ASSUME NEW s \in Sessions, SessionStart(s) PROVE OwnershipInv'
  BY <1>3, <1>6, <1>a DEF SessionStart, Job
<1>7. CASE SessionShutdown
  BY <1>3, <1>7, <1>a DEF SessionShutdown, Job
<1>8. CASE RegisterShell
  <2> DEFINE c == Head(queue).shell
  <2>1. queue # <<>> /\ Head(queue).op = "register" /\ queue' = Tail(queue)
    BY <1>8 DEF RegisterShell, Head1, Dequeue
  <2>2. c \in Shells
    BY <1>b, <2>1, QueuedShells
  <2>3. UNCHANGED <<child, logs, home, session, pinned>> /\ known' = known \cup {c}
    BY <1>8 DEF RegisterShell
  <2>4. session = "on" => Mine(c)
    BY <1>b, <2>1 DEF OwnershipInv
  <2>5. recs'[pinned] = recs[pinned] \cup {c}
    BY <1>8 DEF RegisterShell, Recorded, TypeOK
  <2>6. session' = "on" => \A d \in recs'[pinned] : Mine(d)'
    BY <2>3, <2>4, <2>5 DEF OwnershipInv, Mine
  <2>7. \A d \in Shells : Mine(d) => Mine(d)'
    BY <2>3 DEF Mine
  <2> HIDE DEF c
  <2> QED
    BY <2>1, <2>3, <2>6, <2>7, OwnershipTail
<1>9. ASSUME queue # <<>>, queue' = Tail(queue), UNCHANGED <<recs, known, child, logs, home, session, pinned>>
      PROVE  OwnershipInv'
  <2>1. \A d \in Shells : Mine(d) => Mine(d)'
    BY <1>9 DEF Mine
  <2>2. session' = "on" => \A d \in recs'[pinned] : Mine(d)'
    BY <1>9 DEF OwnershipInv, Mine
  <2> QED
    BY <1>9, <2>1, <2>2, OwnershipTail
<1>10. CASE StopShell
  BY <1>9, <1>10, <1>c DEF StopShell, Head1, Dequeue
<1>11. CASE StopShellResume
  BY <1>9, <1>11 DEF StopShellResume, Head1, Dequeue
<1>12. ASSUME queue # <<>>, Head(queue).op = "close", queue' = Tail(queue), Unregister(Head(queue).shell),
              UNCHANGED <<known, child, home, session, pinned>>
       PROVE  OwnershipInv'
  <2> DEFINE c == Head(queue).shell
  <2>1. c \in known
    BY <1>12, <1>b DEF OwnershipInv
  <2>2. recs'[pinned] = recs[pinned] \ {c} /\ logs' = logs \ {c}
    BY <1>12 DEF Unregister, TypeOK
  <2>3. \A d \in Shells : Mine(d) /\ d # c => Mine(d)'
    BY <1>12, <2>2 DEF Mine
  <2>4. session' = "on" => \A d \in recs'[pinned] : Mine(d)'
    BY <1>12, <2>2, <2>3 DEF OwnershipInv, TypeOK
  <2> HIDE DEF c
  <2> QED
    BY <1>12, <2>1, <2>3, <2>4, OwnershipTail
<1>13. CASE CloseShell
  BY <1>9, <1>12, <1>13, <1>c DEF CloseShell, Head1, Dequeue
<1>14. CASE CloseShellResume
  BY <1>9, <1>12, <1>14 DEF CloseShellResume, Head1, Dequeue
<1>15. ASSUME NEW op \in {"shutdown", "reap"}, NEW next, next = (IF op = "reap" THEN "on" ELSE "off"),
              queue # <<>>, Head(queue).op = op, queue' = Tail(queue), Sweep(op = "shutdown"),
              session' = next, UNCHANGED <<known, child, home, pinned>>
       PROVE  OwnershipInv'
  <2>1. recs'[pinned] = {}
    BY <1>15 DEF Sweep, TypeOK
  <2>2. op = "reap" => logs' = logs \ recs[pinned]
    BY <1>15 DEF Sweep
  <2>3. op = "reap" => \A c \in Shells \ known : Mine(c) => Mine(c)'
    BY <1>15, <2>2 DEF Mine, RegistryInv, RecordsInv, TypeOK
  <2>4. session' = "on" => op = "reap"
    BY <1>15
  <2> QED
    BY <1>15, <2>1, <2>3, <2>4, OwnershipTail
<1>16. ASSUME NEW op \in {"shutdown", "reap"}, NEW next, next = (IF op = "reap" THEN "on" ELSE "off"),
              SweepBegin(op, next)
       PROVE  OwnershipInv'
  BY <1>15, <1>16, <1>c DEF SweepBegin, Head1, Dequeue
<1>17. ASSUME NEW op \in {"shutdown", "reap"}, NEW next, next = (IF op = "reap" THEN "on" ELSE "off"),
              SweepEnd(op, next)
       PROVE  OwnershipInv'
  BY <1>15, <1>17 DEF SweepEnd, Head1, Dequeue
<1>18. CASE Crash
  <2>1. queue' = <<>> /\ session' = "off"
    BY <1>18 DEF Crash
  <2>2. Len(queue') = 0
    BY <2>1
  <2> QED
    BY <2>1, <2>2 DEF OwnershipInv
<1>19. CASE UNCHANGED vars
  BY <1>19, <1>c DEF vars
<1>20. ShutdownShells \/ ShutdownShellsResume \/ ReapStaleState \/ ReapStaleStateResume => OwnershipInv'
  BY <1>16, <1>17 DEF ShutdownShells, ShutdownShellsResume, ReapStaleState, ReapStaleStateResume
<1> QED
  BY <1>1, <1>2, <1>4, <1>5, <1>6, <1>7, <1>8, <1>10, <1>11, <1>13, <1>14, <1>18, <1>19, <1>20
     DEF Next, RunJob, ResumeJob

\* While a session is on, its registry holds its own children only, each with its log:
\* session_start's reap and the queue keep out what a crash or an earlier session left.
THEOREM SessionOwnership == Spec => []SessionOwnsItsShells
<1>1. Init => OwnershipInv
  <2> SUFFICES ASSUME Init PROVE OwnershipInv
    OBVIOUS
  <2>1. Len(queue) = 0
    BY DEF Init
  <2> QED
    BY <2>1 DEF Init, OwnershipInv
<1>2. OwnershipInv => SessionOwnsItsShells
  BY DEF OwnershipInv, SessionOwnsItsShells, Mine
<1> QED
  BY <1>1, <1>2, OwnershipNext, TypeCorrect, RegistryInvariant, PTL DEF Spec

-----------------------------------------------------------------------------
(* Which message an exit gets.                                             *)

\* A child that honours SIGTERM and whose exit is still to be handled was signalled by
\* nobody, and then its record names nobody, or by the job that waits in its grace window,
\* and then the record names who asked for that job.
Attributed(c) ==
  IF killer[c] = "none" THEN stoppedBy[c] = "none"
  ELSE /\ phase = "grace" /\ c \in targets
       /\ Head(queue).op = "stop" => killer[c] = Head(queue).by /\ stoppedBy[c] = Head(queue).by

CauseInv ==
  /\ \A c \in Shells :
       /\ notified[c] # "none" => proc[c] = "gone"
       /\ killer[c] # "none" => c \in known
       /\ proc[c] = "unborn" => stoppedBy[c] = "none"
  /\ \A c \in child \ Stubborn : IsPidAlive(c) => Attributed(c)
  /\ MessageMatchesCause

\* Steps that touch nothing of an exit's cause, or only tell more shells apart.
LEMMA CauseKept ==
  ASSUME CauseInv, UNCHANGED <<proc, stoppedBy, notified, killer>>, child' \subseteq child,
         known \subseteq known',
         \A c \in child' \ Stubborn : killer[c] # "none" /\ IsPidAlive(c) =>
            /\ UNCHANGED <<phase, targets>>
            /\ Head(queue').op = "stop" => Head(queue') = Head(queue)
  PROVE  CauseInv'
<1>1. \A c \in child' \ Stubborn : IsPidAlive(c)' => Attributed(c)'
  BY DEF CauseInv, IsPidAlive, Attributed
<1> QED
  BY <1>1 DEF CauseInv, MessageMatchesCause

\* SIGTERM to live shells of the registry, on behalf of the job at the head.
LEMMA CauseSigterm ==
  ASSUME TypeOK, LockInv, RecordsInv, CauseInv, phase = "idle", queue # <<>>,
         NEW T \in SUBSET recs[pinned], \A c \in T : IsPidAlive(c),
         NEW by \in Initiators \cup {"close", "sweep"}, Sigterm(T, by),
         UNCHANGED <<queue, child, known, notified>>,
         Head(queue).op = "stop" =>
            /\ by = Head(queue).by
            /\ stoppedBy' = [c \in Shells |-> IF c \in T THEN by ELSE stoppedBy[c]],
         Head(queue).op # "stop" => stoppedBy' = stoppedBy
  PROVE  CauseInv'
<1>1. T \subseteq Shells /\ T \subseteq known
  BY DEF RecordsInv, TypeOK
<1>2. /\ phase' = "grace" /\ targets' = T
      /\ \A c \in Shells : proc'[c] = IF c \in T \ Stubborn THEN "dying" ELSE proc[c]
      /\ \A c \in Shells : killer'[c] = IF c \in T /\ killer[c] = "none" THEN by ELSE killer[c]
  BY DEF Sigterm
<1>3. \A c \in Shells : c \notin T => stoppedBy'[c] = stoppedBy[c]
  OBVIOUS
<1>4. \A c \in child \ Stubborn : IsPidAlive(c) => killer[c] = "none" /\ stoppedBy[c] = "none"
  BY DEF CauseInv, Attributed
<1>5. ASSUME NEW c \in Shells
      PROVE  /\ notified'[c] # "none" => proc'[c] = "gone"
             /\ killer'[c] # "none" => c \in known'
             /\ proc'[c] = "unborn" => stoppedBy'[c] = "none"
  BY <1>1, <1>2, <1>3 DEF CauseInv, IsPidAlive
<1>6. ASSUME NEW c \in child' \ Stubborn, IsPidAlive(c)' PROVE Attributed(c)'
  <2>1. c \in Shells /\ c \in child
    BY DEF TypeOK
  <2>2. IsPidAlive(c)
    BY <1>2, <1>6, <2>1 DEF IsPidAlive
  <2>3. CASE c \in T
    BY <1>2, <1>4, <2>1, <2>2, <2>3 DEF Attributed, Initiators
  <2>4. CASE c \notin T
    BY <1>2, <1>3, <1>4, <2>1, <2>2, <2>4 DEF Attributed
  <2> QED
    BY <2>3, <2>4
<1>7. MessageMatchesCause'
  BY <1>2 DEF CauseInv, MessageMatchesCause, IsPidAlive, Initiators
<1> QED
  BY <1>5, <1>6, <1>7 DEF CauseInv

\* The grace window is over: the shells that honour SIGTERM are gone.
LEMMA CauseSigkill ==
  ASSUME TypeOK, CauseInv, GraceOver, Sigkill, UNCHANGED <<child, known, notified, killer>>,
         targets \subseteq Shells,
         \A c \in Shells : stoppedBy'[c] # stoppedBy[c] =>
            c \in targets /\ proc[c] # "unborn" /\ StillAlive(c)
  PROVE  CauseInv'
<1>1. \A c \in targets \ Stubborn : proc[c] = "gone"
  BY DEF GraceOver
<1>2. \A c \in Shells : /\ proc[c] = "gone" => proc'[c] = "gone"
                        /\ c \notin targets => proc'[c] = proc[c]
                        /\ proc'[c] = "unborn" => proc[c] = "unborn" /\ c \notin targets
  BY DEF Sigkill, TypeOK
<1>3. ASSUME NEW c \in child' \ Stubborn, IsPidAlive(c)' PROVE Attributed(c)'
  <2>1. c \in Shells /\ c \in child
    BY DEF TypeOK
  <2>2. c \notin targets
    BY <1>1, <1>2, <1>3, <2>1 DEF IsPidAlive
  <2>3. IsPidAlive(c) /\ stoppedBy'[c] = stoppedBy[c]
    BY <1>2, <1>3, <2>1, <2>2 DEF IsPidAlive
  <2>4. killer[c] = "none" /\ stoppedBy[c] = "none"
    BY <2>1, <2>2, <2>3 DEF CauseInv, Attributed
  <2> QED
    BY <2>3, <2>4 DEF Attributed
<1>4. MessageMatchesCause'
  BY DEF CauseInv, MessageMatchesCause
<1> QED
  BY <1>2, <1>3, <1>4 DEF CauseInv

LEMMA CauseNext ==
  TypeOK /\ LockInv /\ RegistryInv /\ CauseInv /\ [Next]_vars => CauseInv'
<1> SUFFICES ASSUME TypeOK, LockInv, RegistryInv, CauseInv, [Next]_vars PROVE CauseInv'
  OBVIOUS
<1> USE DEF procVars, diskVars, lockVars, sessVars, agentVars
<1>a. \A op \in {"register", "stop", "close"} :
        Head1(op) => /\ queue # <<>> /\ Head(queue).shell \in Shells
                     /\ 1 \in 1..Len(queue) /\ Head(queue) = queue[1]
                     /\ op = "stop" => Head(queue).by \in Initiators
  <2>1. queue # <<>> => /\ Head(queue) \in Jobs
                        /\ 1 \in 1..Len(queue) /\ Head(queue) = queue[1]
    BY TailJob DEF TypeOK
  <2> QED
    BY <2>1 DEF Head1, Jobs
<1>b. phase = "idle" => \A c \in child \ Stubborn : IsPidAlive(c) => killer[c] = "none" /\ stoppedBy[c] = "none"
  BY DEF CauseInv, Attributed
<1>c. \A job \in Jobs : Enqueue(job) =>
        UNCHANGED <<phase, targets>> /\ (phase = "grace" => Head(queue') = Head(queue))
  BY AppendJob DEF Enqueue, LockInv, TypeOK
<1>d. \A c \in child \ Stubborn : IsPidAlive(c) /\ killer[c] # "none" => phase = "grace"
  BY DEF CauseInv, Attributed
<1>1. ASSUME NEW c \in Shells, LeaderDies(c) PROVE CauseInv'
  <2>1. /\ UNCHANGED <<child, stoppedBy, queue, phase, targets, notified, known, killer>>
        /\ proc[c] = "running" /\ proc' = [proc EXCEPT ![c] = "dying"]
    BY <1>1 DEF LeaderDies
  <2> QED
    BY <2>1 DEF CauseInv, MessageMatchesCause, IsPidAlive, Attributed, TypeOK
<1>2. ASSUME NEW c \in Shells, DescendantsDie(c) PROVE CauseInv'
  BY <1>2, CauseKept DEF DescendantsDie
<1>3. ASSUME NEW c \in Shells, OrphanReaped(c) PROVE CauseInv'
  <2>1. /\ UNCHANGED <<child, stoppedBy, queue, phase, targets, notified, known, killer>>
        /\ proc[c] = "dying" /\ proc' = [proc EXCEPT ![c] = "gone"]
    BY <1>3 DEF OrphanReaped
  <2> QED
    BY <2>1 DEF CauseInv, MessageMatchesCause, IsPidAlive, Attributed, TypeOK
<1>4. ASSUME NEW c \in Shells, HandleShellExit(c) PROVE CauseInv'
  <2>1. /\ UNCHANGED <<child, stoppedBy, queue, phase, targets, known, killer>>
        /\ proc[c] = "dying" /\ proc' = [proc EXCEPT ![c] = "gone"] /\ c \in child
    BY <1>4 DEF HandleShellExit
  <2>2. notified' = notified \/
        /\ ~Silent(c)
        /\ notified' = [notified EXCEPT ![c] = IF stoppedBy[c] = "user" THEN "user" ELSE "exited"]
    BY <1>4 DEF HandleShellExit
  <2>3. ASSUME ~Silent(c), c \notin Stubborn
        PROVE  /\ stoppedBy[c] = "user" => killer[c] = "user"
               /\ stoppedBy[c] # "user" => killer[c] = "none"
    <3>1. Attributed(c)
      BY <2>1, <2>3 DEF CauseInv, IsPidAlive
    <3>2. ASSUME killer[c] # "none" PROVE killer[c] = stoppedBy[c]
      <4>1. phase = "grace" /\ c \in targets /\ queue # <<>>
        BY <3>1, <3>2 DEF Attributed, LockInv
      <4>2. Head(queue).op \notin {"shutdown", "reap", "close"}
        BY <2>3, <4>1 DEF Silent, LockInv
      <4>3. Head(queue).op \in {"register", "stop", "close", "shutdown", "reap"}
        <5>1. Head(queue) \in Jobs
          BY <4>1, TailJob DEF TypeOK
        <5> QED
          BY <5>1 DEF Jobs
      <4>4. Head(queue).op = "stop"
        BY <4>1, <4>2, <4>3 DEF LockInv
      <4> QED
        BY <3>1, <3>2, <4>4 DEF Attributed
    <3>3. stoppedBy[c] \in {"none", "user"}
      BY <2>3 DEF Silent, TypeOK, Initiators
    <3> QED
      BY <3>1, <3>2, <3>3 DEF Attributed
  <2>4. MessageMatchesCause'
    BY <2>1, <2>2, <2>3 DEF CauseInv, MessageMatchesCause, TypeOK
  <2>5. \A d \in Shells : /\ notified'[d] # "none" => proc'[d] = "gone"
                          /\ proc'[d] = "unborn" => proc[d] = "unborn"
    BY <2>1, <2>2 DEF CauseInv, TypeOK
  <2>6. \A d \in child' \ Stubborn : IsPidAlive(d)' => Attributed(d)'
    BY <2>1 DEF CauseInv, IsPidAlive, Attributed, TypeOK
  <2> QED
    BY <2>1, <2>4, <2>5, <2>6 DEF CauseInv
<1>5. ASSUME NEW c \in Shells, StartShell(c) PROVE CauseInv'
  <2>1. /\ UNCHANGED <<stoppedBy, known, notified, killer>> /\ child' = child \cup {c}
        /\ proc[c] = "unborn" /\ proc' = [proc EXCEPT ![c] = "running"]
    BY <1>5 DEF StartShell
  <2>2. c \notin known /\ killer[c] = "none" /\ stoppedBy[c] = "none" /\ notified[c] = "none"
    BY <2>1 DEF CauseInv, RegistryInv, RecordsInv
  <2>3. UNCHANGED <<phase, targets>> /\ (phase = "grace" => Head(queue') = Head(queue))
    BY <1>5, <1>c DEF StartShell, Job, Jobs
  <2>4. \A d \in child' \ Stubborn : IsPidAlive(d)' => Attributed(d)'
    BY <2>1, <2>2, <2>3 DEF CauseInv, IsPidAlive, Attributed, TypeOK
  <2> QED
    BY <2>1, <2>2, <2>4 DEF CauseInv, MessageMatchesCause, TypeOK
<1>6. ASSUME NEW job \in Jobs, Enqueue(job), UNCHANGED <<procVars, diskVars, agentVars>> PROVE CauseInv'
  <2>1. \A c \in child' \ Stubborn : killer[c] # "none" /\ IsPidAlive(c) =>
            /\ UNCHANGED <<phase, targets>>
            /\ Head(queue').op = "stop" => Head(queue') = Head(queue)
    BY <1>6, <1>c, <1>d
  <2> QED
    BY <1>6, <2>1, CauseKept
<1>7. ASSUME NEW c \in Shells, RequestClose(c) PROVE CauseInv'
  BY <1>6, <1>7 DEF RequestClose, Job, Jobs
<1>8. ASSUME NEW c \in Shells, NEW by \in Initiators, RequestStop(c, by) PROVE CauseInv'
  BY <1>6, <1>8 DEF RequestStop, Job, Jobs
<1>9. ASSUME NEW s \in Sessions, SessionStart(s) PROVE CauseInv'
  BY <1>6, <1>9 DEF SessionStart, Job, Jobs
<1>10. CASE SessionShutdown
  BY <1>6, <1>10 DEF SessionShutdown, Job, Jobs
<1>11. CASE RegisterShell
  <2> DEFINE c == Head(queue).shell
  <2>1. c \in Shells /\ c \notin known
    BY <1>11, <1>a DEF RegisterShell, RegistryInv, QueueInv, Head1
  <2>2. /\ UNCHANGED <<proc, child, notified, killer, phase, targets>> /\ phase = "idle"
        /\ known' = known \cup {c} /\ stoppedBy' = [stoppedBy EXCEPT ![c] = "none"]
    BY <1>11 DEF RegisterShell
  <2> HIDE DEF c
  <2>3. \A d \in Shells : stoppedBy[d] = "none" => stoppedBy'[d] = "none"
    BY <2>1, <2>2 DEF TypeOK
  <2>4. \A d \in child' \ Stubborn : IsPidAlive(d)' => Attributed(d)'
    BY <1>b, <2>2, <2>3 DEF IsPidAlive, Attributed, TypeOK
  <2>5. \A d \in Shells : killer'[d] # "none" => d \in known'
    BY <2>2 DEF CauseInv
  <2>6. MessageMatchesCause'
    BY <2>2 DEF CauseInv, MessageMatchesCause
  <2> QED
    BY <2>2, <2>3, <2>4, <2>5, <2>6 DEF CauseInv
<1>12. CASE StopShell
  <2> DEFINE c == Head(queue).shell
             by == Head(queue).by
  <2>1. /\ c \in Shells /\ by \in Initiators /\ queue # <<>> /\ Head(queue).op = "stop"
        /\ phase = "idle" /\ UNCHANGED <<child, known, notified>>
        /\ stoppedBy' = IF c \in recs[pinned] THEN [stoppedBy EXCEPT ![c] = by] ELSE stoppedBy
    BY <1>12, <1>a DEF StopShell, Head1
  <2>2. CASE c \in recs[pinned] /\ IsPidAlive(c)
    <3>1. Sigterm({c}, by) /\ UNCHANGED queue
      BY <1>12, <2>2 DEF StopShell
    <3>2. stoppedBy' = [d \in Shells |-> IF d \in {c} THEN by ELSE stoppedBy[d]]
      BY <2>1, <2>2 DEF TypeOK
    <3>3. {c} \in SUBSET recs[pinned] /\ \A d \in {c} : IsPidAlive(d)
      BY <2>2
    <3>4. by \in Initiators \cup {"close", "sweep"}
      BY <2>1
    <3> HIDE DEF c
    <3> QED
      BY <2>1, <3>1, <3>2, <3>3, <3>4, CauseSigterm DEF RegistryInv
  <2>3. CASE ~(c \in recs[pinned] /\ IsPidAlive(c))
    <3>1. UNCHANGED <<proc, phase, targets, killer>>
      BY <1>12, <2>3 DEF StopShell
    <3>2. c \in recs[pinned] => proc[c] = "gone"
      BY <2>1, <2>3 DEF IsPidAlive, RegistryInv, RecordsInv, TypeOK
    <3> HIDE DEF c, by
    <3>3. \A d \in Shells : proc[d] # "gone" => stoppedBy'[d] = stoppedBy[d]
      BY <2>1, <3>2 DEF TypeOK
    <3>4. \A d \in child' \ Stubborn : IsPidAlive(d)' => Attributed(d)'
      BY <1>b, <2>1, <3>1, <3>3 DEF IsPidAlive, Attributed, TypeOK
    <3>5. MessageMatchesCause'
      BY <2>1, <3>1 DEF CauseInv, MessageMatchesCause
    <3> QED
      BY <2>1, <3>1, <3>3, <3>4, <3>5 DEF CauseInv
  <2> QED
    BY <2>2, <2>3
<1>13. CASE StopShellResume
  <2> DEFINE c == Head(queue).shell
  <2>1. /\ c \in Shells /\ phase = "grace" /\ targets = {c}
        /\ GraceOver /\ Sigkill /\ UNCHANGED <<child, known, notified, killer>>
        /\ stoppedBy' = IF StillAlive(c) /\ c \in recs[pinned]
                        THEN [stoppedBy EXCEPT ![c] = NoInitiator] ELSE stoppedBy
    BY <1>13, <1>a DEF StopShellResume, Head1, GraceOver, LockInv
  <2>2. c \in recs[pinned] => proc[c] # "unborn"
    BY DEF RegistryInv, RecordsInv, TypeOK
  <2> HIDE DEF c
  <2>3. \A d \in Shells : stoppedBy'[d] # stoppedBy[d] =>
            d \in targets /\ proc[d] # "unborn" /\ StillAlive(d)
    BY <2>1, <2>2 DEF TypeOK
  <2> QED
    BY <2>1, <2>3, CauseSigkill
<1>14. CASE CloseShell
  <2> DEFINE c == Head(queue).shell
  <2>1. /\ c \in Shells /\ queue # <<>> /\ Head(queue).op = "close"
        /\ phase = "idle" /\ UNCHANGED <<child, known, notified, stoppedBy>>
    BY <1>14, <1>a DEF CloseShell, Head1
  <2>2. CASE c \in recs[pinned] /\ IsPidAlive(c)
    <3>1. Sigterm({c}, "close") /\ UNCHANGED queue
      BY <1>14, <2>2 DEF CloseShell
    <3>2. {c} \in SUBSET recs[pinned] /\ \A d \in {c} : IsPidAlive(d)
      BY <2>2
    <3> HIDE DEF c
    <3> QED
      BY <2>1, <3>1, <3>2, CauseSigterm DEF RegistryInv
  <2>3. CASE ~(c \in recs[pinned] /\ IsPidAlive(c))
    <3>1. UNCHANGED <<proc, phase, targets, killer>>
      BY <1>14, <2>3 DEF CloseShell
    <3> QED
      BY <1>d, <2>1, <3>1, CauseKept
  <2> QED
    BY <2>2, <2>3
<1>15. CASE CloseShellResume
  BY <1>15, CauseSigkill DEF CloseShellResume, TypeOK
<1>16. ASSUME NEW op \in {"shutdown", "reap"}, NEW next, SweepBegin(op, next) PROVE CauseInv'
  <2> DEFINE alive == {c \in recs[pinned] : IsPidAlive(c)}
  <2>1. /\ queue # <<>> /\ Head(queue).op = op /\ phase = "idle"
        /\ UNCHANGED <<child, known, notified, stoppedBy>>
    BY <1>16 DEF SweepBegin, Head1
  <2>2. CASE alive # {}
    <3>1. Sigterm(alive, "sweep") /\ UNCHANGED queue
      BY <1>16, <2>2 DEF SweepBegin
    <3>2. alive \in SUBSET recs[pinned] /\ \A d \in alive : IsPidAlive(d)
      OBVIOUS
    <3> HIDE DEF alive
    <3> QED
      BY <2>1, <3>1, <3>2, CauseSigterm DEF RegistryInv
  <2>3. CASE alive = {}
    <3>1. UNCHANGED <<proc, phase, targets, killer>>
      BY <1>16, <2>3 DEF SweepBegin
    <3> QED
      BY <1>d, <2>1, <3>1, CauseKept
  <2> QED
    BY <2>2, <2>3
<1>17. ASSUME NEW op \in {"shutdown", "reap"}, NEW next, SweepEnd(op, next) PROVE CauseInv'
  BY <1>17, CauseSigkill DEF SweepEnd, TypeOK
<1>18. CASE Crash
  BY <1>18, CauseKept DEF Crash
<1>19. CASE UNCHANGED vars
  BY <1>19, CauseKept DEF vars
<1> QED
  BY <1>1, <1>2, <1>3, <1>4, <1>5, <1>7, <1>8, <1>9, <1>10, <1>11, <1>12, <1>13, <1>14, <1>15,
     <1>16, <1>17, <1>18, <1>19
     DEF Next, RunJob, ResumeJob, ShutdownShells, ShutdownShellsResume,
         ReapStaleState, ReapStaleStateResume

\* The message that the agent gets names what ended the shell, for every shell that
\* honours SIGTERM: no exit during a close, a sweep or the agent's own stop is reported as
\* one, and a user's stop is always told apart from an end nobody asked for.
THEOREM MessagesTellTheCause == Spec => []MessageMatchesCause
<1>1. Init => CauseInv
  BY DEF Init, CauseInv, MessageMatchesCause
<1>2. CauseInv => MessageMatchesCause
  BY DEF CauseInv
<1> QED
  BY <1>1, <1>2, CauseNext, TypeCorrect, LockDiscipline, RegistryInvariant, PTL DEF Spec

-----------------------------------------------------------------------------
(* The refinement of ADR-0001's lifecycle.                                 *)

Held(c) == \E s \in Sessions : c \in recs[s]
Told == {c \in Shells : notified[c] # "none"}

\* Liveness counts only for a shell with a record.
LEMMA MapStutter ==
  ASSUME UNCHANGED <<recs, known, notified>>,
         \A c \in Shells : Held(c) => IsPidAlive(c)' = IsPidAlive(c)
  PROVE  UNCHANGED Lifecycle!vars
<1>1. \A c \in Shells : Status(c)' = Status(c)
  BY DEF Status, Held
<1>2. [c \in Shells |-> Status(c)]' = [c \in Shells |-> Status(c)]
  BY <1>1
<1> QED
  BY <1>2 DEF Lifecycle!vars

\* The leader of c, which may have a record, stops answering.
LEMMA MapEnd ==
  ASSUME NEW c \in Shells, UNCHANGED <<recs, known>>, ~IsPidAlive(c)',
         \A d \in Shells \ {c} : Held(d) => IsPidAlive(d)' = IsPidAlive(d),
         Held(c) => IsPidAlive(c),
         Told' = Told \/ (Held(c) /\ Told' = Told \cup {c})
  PROVE  [Lifecycle!Next]_Lifecycle!vars
<1>1. \A d \in Shells \ {c} : Status(d)' = Status(d)
  BY DEF Status, Held
<1>2. CASE Held(c)
  <2>1. Status(c) = "running" /\ Status(c)' = "to_close"
    BY <1>2 DEF Status, Held
  <2>2. [d \in Shells |-> Status(d)]' =
          [[d \in Shells |-> Status(d)] EXCEPT ![c] = "to_close"]
    BY <1>1, <2>1
  <2>3. Lifecycle!End(c)
    BY <2>1, <2>2 DEF Lifecycle!End, Told
  <2> QED
    BY <2>3 DEF Lifecycle!Next
<1>3. CASE ~Held(c)
  <2>1. Status(c)' = Status(c)
    BY <1>3 DEF Status, Held
  <2>2. [d \in Shells |-> Status(d)]' = [d \in Shells |-> Status(d)]
    BY <1>1, <2>1
  <2> QED
    BY <1>3, <2>2 DEF Lifecycle!vars, Told
<1> QED
  BY <1>2, <1>3

\* The records of S are removed.
LEMMA MapClose ==
  ASSUME NEW S \in SUBSET Shells, UNCHANGED <<known, notified>>,
         \A c \in S : Held(c) /\ c \in known /\ ~Held(c)',
         \A c \in Shells \ S : Held(c)' = Held(c),
         \A c \in Shells \ S : Held(c) => IsPidAlive(c)' = IsPidAlive(c)
  PROVE  Lifecycle!Next
<1>1. \A c \in S : Status(c) \in {"running", "to_close"} /\ Status(c)' = "closed"
  BY DEF Status, Held
<1>2. \A c \in Shells \ S : Status(c)' = Status(c)
  BY DEF Status, Held
<1>3. [c \in Shells |-> Status(c)]' =
        [c \in Shells |-> IF c \in S THEN "closed" ELSE Status(c)]
  BY <1>1, <1>2
<1>4. Lifecycle!Close(S)
  BY <1>1, <1>3 DEF Lifecycle!Close
<1> QED
  BY <1>4 DEF Lifecycle!Next

\* One shell is registered for the first time.
LEMMA MapStart ==
  ASSUME NEW c \in Shells, UNCHANGED <<proc, notified>>, c \notin known,
         ~Held(c), Held(c)', known' = known \cup {c},
         \A d \in Shells \ {c} : Held(d)' = Held(d)
  PROVE  Lifecycle!Next
<1>1. Status(c) = "unborn" /\ Status(c)' \in {"running", "to_close"}
  BY DEF Status, Held
<1>2. \A d \in Shells \ {c} : Status(d)' = Status(d)
  BY DEF Status, Held, IsPidAlive
<1>3. [d \in Shells |-> Status(d)]' =
        [[d \in Shells |-> Status(d)] EXCEPT ![c] = Status(c)']
  BY <1>2
<1>4. Lifecycle!Start(c)
  BY <1>1, <1>3 DEF Lifecycle!Start
<1> QED
  BY <1>4 DEF Lifecycle!Next
\* Every step of Shelld is a step of the lifecycle, or none.
LEMMA LifecycleNext ==
  TypeOK /\ LockInv /\ RegistryInv /\ [Next]_vars => [Lifecycle!Next]_Lifecycle!vars
<1> SUFFICES ASSUME TypeOK, LockInv, RegistryInv, [Next]_vars
             PROVE  [Lifecycle!Next]_Lifecycle!vars
  OBVIOUS
<1> USE DEF procVars, diskVars, lockVars, sessVars, agentVars
<1>a. \A c \in Shells : Held(c) => c \in known /\ proc[c] # "unborn"
  BY DEF Held, RegistryInv, RecordsInv
<1>b. \A op \in {"register", "stop", "close"} :
        Head1(op) => /\ queue # <<>> /\ Head(queue).shell \in Shells
                     /\ 1 \in 1..Len(queue) /\ Head(queue) = queue[1]
  <2>1. queue # <<>> => /\ Head(queue) \in Jobs
                        /\ 1 \in 1..Len(queue) /\ Head(queue) = queue[1]
    BY TailJob DEF TypeOK
  <2> QED
    BY <2>1 DEF Head1, Jobs
<1>1. ASSUME UNCHANGED <<recs, known, notified>>,
             \A c \in Shells : Held(c) => IsPidAlive(c)' = IsPidAlive(c)
      PROVE  [Lifecycle!Next]_Lifecycle!vars
  BY <1>1, MapStutter
<1>2. ASSUME NEW c \in Shells, OrphanReaped(c) PROVE [Lifecycle!Next]_Lifecycle!vars
  <2>1. UNCHANGED <<recs, known>> /\ Told' = Told
    BY <1>2 DEF OrphanReaped, Told
  <2>2. /\ ~IsPidAlive(c)' /\ IsPidAlive(c)
        /\ \A d \in Shells \ {c} : IsPidAlive(d)' = IsPidAlive(d)
    BY <1>2 DEF OrphanReaped, IsPidAlive, TypeOK
  <2> QED
    BY <2>1, <2>2, MapEnd
<1>3. ASSUME NEW c \in Shells, HandleShellExit(c) PROVE [Lifecycle!Next]_Lifecycle!vars
  <2>1. UNCHANGED <<recs, known>>
    BY <1>3 DEF HandleShellExit
  <2>2. /\ ~IsPidAlive(c)' /\ IsPidAlive(c)
        /\ \A d \in Shells \ {c} : IsPidAlive(d)' = IsPidAlive(d)
    BY <1>3 DEF HandleShellExit, IsPidAlive, TypeOK
  <2>3. Told' = Told \/ (Held(c) /\ Told' = Told \cup {c})
    <3>1. CASE Silent(c)
      BY <1>3, <3>1 DEF HandleShellExit, Told
    <3>2. CASE ~Silent(c)
      <4>1. Held(c)
        BY <3>2 DEF Silent, Held, TypeOK
      <4>2. \A d \in Shells : notified'[d] # "none" <=> d = c \/ notified[d] # "none"
        BY <1>3, <3>2 DEF HandleShellExit, TypeOK
      <4>3. Told' = Told \cup {c}
        BY <4>2 DEF Told
      <4> QED
        BY <4>1, <4>3
    <3> QED
      BY <3>1, <3>2
  <2> QED
    BY <2>1, <2>2, <2>3, MapEnd
<1>4. ASSUME NEW c \in Shells, StartShell(c) PROVE [Lifecycle!Next]_Lifecycle!vars
  BY <1>4, <1>a, <1>1 DEF StartShell, IsPidAlive, TypeOK
<1>5. CASE RegisterShell
  <2>1. PICK c \in Shells : c = Head(queue).shell /\ c \notin known
    BY <1>5, <1>b DEF RegisterShell, RegistryInv, QueueInv, Head1
  <2>2. /\ UNCHANGED <<proc, notified>> /\ known' = known \cup {c}
        /\ recs' = [recs EXCEPT ![pinned] = recs[pinned] \cup {c}]
    BY <1>5, <2>1 DEF RegisterShell, Recorded
  <2>3. ~Held(c) /\ Held(c)'
    BY <2>1, <2>2, <1>a DEF Held, TypeOK
  <2>4. \A d \in Shells \ {c} : Held(d)' = Held(d)
    BY <2>1, <2>2 DEF Held, TypeOK
  <2> QED
    BY <2>1, <2>2, <2>3, <2>4, MapStart
<1>6. ASSUME NEW T \in SUBSET Shells, NEW by, Sigterm(T, by),
             \A c \in T : IsPidAlive(c), UNCHANGED <<recs, known, notified>>
      PROVE  [Lifecycle!Next]_Lifecycle!vars
  BY <1>6, <1>1 DEF Sigterm, IsPidAlive, TypeOK
<1>7. CASE StopShell
  <2>1. Head(queue).shell \in Shells
    BY <1>7, <1>b DEF StopShell
  <2>2. UNCHANGED <<recs, known, notified>>
    BY <1>7 DEF StopShell
  <2>3. \/ Sigterm({Head(queue).shell}, Head(queue).by) /\ IsPidAlive(Head(queue).shell)
        \/ UNCHANGED proc
    BY <1>7 DEF StopShell
  <2> QED
    BY <2>1, <2>2, <2>3, <1>6, <1>1 DEF IsPidAlive
<1>8. \A c, d \in Shells :
        targets = {c} /\ Sigkill /\ d # c => IsPidAlive(d)' = IsPidAlive(d)
  BY DEF Sigkill, IsPidAlive, TypeOK
<1>9. \A c \in Shells :
        targets = {c} /\ Sigkill /\ Held(c) => (IsPidAlive(c)' => IsPidAlive(c))
  BY <1>a DEF Sigkill, IsPidAlive, TypeOK
<1>10. ASSUME NEW c \in Shells, targets = {c}, Sigkill, UNCHANGED <<recs, known, notified>>
       PROVE  [Lifecycle!Next]_Lifecycle!vars
  <2>1. Told' = Told
    BY <1>10 DEF Told
  <2>2. CASE Held(c) /\ IsPidAlive(c) /\ ~IsPidAlive(c)'
    BY <1>8, <1>10, <2>1, <2>2, MapEnd
  <2>3. CASE ~Held(c) \/ IsPidAlive(c)' \/ ~IsPidAlive(c)
    <3>1. Held(c) => IsPidAlive(c)' = IsPidAlive(c)
      BY <1>9, <1>10, <2>3 DEF IsPidAlive
    <3> QED
      BY <3>1, <1>8, <1>10, <1>1
  <2> QED
    BY <2>2, <2>3
<1>11. CASE StopShellResume
  <2>1. Head(queue).shell \in Shells /\ targets = {Head(queue).shell}
    BY <1>11, <1>b DEF StopShellResume, Head1, GraceOver, LockInv
  <2> QED
    BY <1>11, <2>1, <1>10 DEF StopShellResume
<1>12. ASSUME NEW c \in recs[pinned], recs' = [recs EXCEPT ![pinned] = @ \ {c}],
              UNCHANGED <<known, notified>>,
              \A d \in Shells \ {c} : IsPidAlive(d)' = IsPidAlive(d)
       PROVE  [Lifecycle!Next]_Lifecycle!vars
  <2>1. c \in Shells /\ Held(c) /\ c \in known
    BY <1>12, <1>a DEF Held, TypeOK
  <2>2. ~Held(c)'
    BY <1>12 DEF Held, RegistryInv, RecordsInv, TypeOK
  <2>3. \A d \in Shells \ {c} : Held(d)' = Held(d)
    BY <1>12 DEF Held, TypeOK
  <2> DEFINE S == {c}
  <2>4. S \in SUBSET Shells /\ \A d \in S : Held(d) /\ d \in known /\ ~Held(d)'
    BY <2>1, <2>2
  <2>5. \A d \in Shells \ S : Held(d)' = Held(d) /\ IsPidAlive(d)' = IsPidAlive(d)
    BY <2>3, <1>12
  <2> HIDE DEF S
  <2> QED
    BY <1>12, <2>4, <2>5, MapClose
<1>13. CASE CloseShell
  <2> DEFINE c == Head(queue).shell
  <2>1. c \in Shells
    BY <1>13, <1>b DEF CloseShell
  <2>2. UNCHANGED <<known, notified>>
    BY <1>13 DEF CloseShell
  <2>3. \/ Sigterm({c}, "close") /\ IsPidAlive(c) /\ UNCHANGED recs
        \/ UNCHANGED <<proc, recs>>
        \/ c \in recs[pinned] /\ UNCHANGED proc /\ recs' = [recs EXCEPT ![pinned] = @ \ {c}]
    BY <1>13 DEF CloseShell, Unregister
  <2> HIDE DEF c
  <2>4. UNCHANGED proc => \A d \in Shells : IsPidAlive(d)' = IsPidAlive(d)
    BY DEF IsPidAlive
  <2> QED
    BY <2>1, <2>2, <2>3, <2>4, <1>6, <1>1, <1>12
<1>14. CASE CloseShellResume
  <2> DEFINE c == Head(queue).shell
  <2>1. c \in Shells /\ targets = {c} /\ Sigkill /\ UNCHANGED <<known, notified>>
    BY <1>14, <1>b DEF CloseShellResume, Head1, GraceOver, LockInv
  <2>2. UNCHANGED recs \/ recs' = [recs EXCEPT ![pinned] = @ \ {c}]
    BY <1>14 DEF CloseShellResume, Unregister
  <2> HIDE DEF c
  <2>3. CASE c \in recs[pinned] /\ recs' = [recs EXCEPT ![pinned] = @ \ {c}]
    BY <1>8, <1>12, <2>1, <2>3
  <2>4. c \notin recs[pinned] /\ recs' = [recs EXCEPT ![pinned] = @ \ {c}] => recs' = recs
    BY DEF TypeOK
  <2> QED
    BY <1>10, <2>1, <2>2, <2>3, <2>4
<1>15. ASSUME recs' = [recs EXCEPT ![pinned] = {}], UNCHANGED <<known, notified>>,
              \A d \in Shells \ recs[pinned] : IsPidAlive(d)' = IsPidAlive(d)
       PROVE  [Lifecycle!Next]_Lifecycle!vars
  <2> DEFINE S == recs[pinned]
  <2>1. S \in SUBSET Shells
    BY DEF TypeOK
  <2>2. \A d \in S : Held(d) /\ d \in known /\ ~Held(d)'
    BY <1>15, <1>a DEF Held, RegistryInv, RecordsInv, TypeOK
  <2>3. \A d \in Shells \ S : Held(d)' = Held(d)
    BY <1>15 DEF Held, TypeOK
  <2>4. \A d \in Shells \ S : IsPidAlive(d)' = IsPidAlive(d)
    BY <1>15
  <2> HIDE DEF S
  <2> QED
    BY <1>15, <2>1, <2>2, <2>3, <2>4, MapClose
<1>16. ASSUME NEW op \in {"shutdown", "reap"}, NEW next, SweepBegin(op, next)
       PROVE  [Lifecycle!Next]_Lifecycle!vars
  <2> DEFINE alive == {c \in recs[pinned] : IsPidAlive(c)}
  <2>1. alive \in SUBSET Shells /\ \A c \in alive : IsPidAlive(c)
    BY DEF TypeOK
  <2>2. UNCHANGED <<known, notified>>
    BY <1>16 DEF SweepBegin
  <2>3. \/ Sigterm(alive, "sweep") /\ UNCHANGED recs
        \/ UNCHANGED proc /\ recs' = [recs EXCEPT ![pinned] = {}]
    BY <1>16 DEF SweepBegin, Sweep
  <2>4. UNCHANGED proc => \A d \in Shells : IsPidAlive(d)' = IsPidAlive(d)
    BY DEF IsPidAlive
  <2> HIDE DEF alive
  <2> QED
    BY <2>1, <2>2, <2>3, <2>4, <1>6, <1>15
<1>17. ASSUME NEW op \in {"shutdown", "reap"}, NEW next, SweepEnd(op, next)
       PROVE  [Lifecycle!Next]_Lifecycle!vars
  <2>1. targets \subseteq recs[pinned]
    BY <1>17 DEF SweepEnd, GraceOver, Head1, RegistryInv, SweepInv
  <2>2. recs' = [recs EXCEPT ![pinned] = {}] /\ UNCHANGED <<known, notified>>
    BY <1>17 DEF SweepEnd, Sweep
  <2>3. \A d \in Shells \ recs[pinned] : IsPidAlive(d)' = IsPidAlive(d)
    BY <1>17, <2>1 DEF SweepEnd, Sigkill, IsPidAlive, TypeOK
  <2> QED
    BY <2>2, <2>3, <1>15
<1>18. ASSUME NEW c \in Shells, LeaderDies(c) \/ DescendantsDie(c)
       PROVE  [Lifecycle!Next]_Lifecycle!vars
  BY <1>18, <1>1 DEF LeaderDies, DescendantsDie, IsPidAlive, TypeOK
<1>19. ASSUME UNCHANGED <<proc, recs, known, notified>>
       PROVE  [Lifecycle!Next]_Lifecycle!vars
  BY <1>19, <1>1 DEF IsPidAlive
<1>20. ASSUME NEW c \in Shells, NEW by \in Initiators, RequestStop(c, by)
       PROVE  [Lifecycle!Next]_Lifecycle!vars
  BY <1>19, <1>20 DEF RequestStop
<1>21. ASSUME NEW c \in Shells, RequestClose(c) PROVE [Lifecycle!Next]_Lifecycle!vars
  BY <1>19, <1>21 DEF RequestClose
<1>22. ASSUME NEW s \in Sessions, SessionStart(s) PROVE [Lifecycle!Next]_Lifecycle!vars
  BY <1>19, <1>22 DEF SessionStart
<1>23. CASE SessionShutdown \/ Crash \/ UNCHANGED vars
  BY <1>19, <1>23 DEF SessionShutdown, Crash, vars
<1> QED
  BY <1>2, <1>3, <1>4, <1>5, <1>7, <1>11, <1>13, <1>14, <1>16, <1>17, <1>18, <1>20, <1>21,
     <1>22, <1>23
     DEF Next, RunJob, ResumeJob, ShutdownShells, ShutdownShellsResume,
         ReapStaleState, ReapStaleStateResume

\* The extension implements the lifecycle that ADR-0001 documents.
THEOREM LifecycleRefinement == Spec => LifecycleSpec
<1>1. Init => Lifecycle!Init
  BY DEF Init, Lifecycle!Init, Status
<1> QED
  BY <1>1, LifecycleNext, TypeCorrect, LockDiscipline, RegistryInvariant, PTL
     DEF Spec, LifecycleSpec, Lifecycle!Spec
=============================================================================

------------------------------ MODULE ImageJobs ------------------------------
(***************************************************************************)
(* Background image generation (pi-codex-imagegen.ts): a tool call reserves *)
(* its output path, prepares a working directory and has pi-shelld start   *)
(* Codex; the job then waits for the exit, an abort or the time limit,     *)
(* delivers the image, closes the shell, cleans up and posts a message.    *)
(*                                                                         *)
(* pi-shelld is present by its promises: the shell of a job is one of      *)
(* ShellLifecycle, of which the agent is never told, because the service   *)
(* starts it without notification.                                         *)
(***************************************************************************)
CONSTANTS
    Jobs,           \* calls of the tool
    Paths,          \* output paths
    NoFile, Foreign \* nothing at a path; a file no job made

ASSUME JobsAssumption == Jobs \cap {NoFile, Foreign} = {} /\ NoFile # Foreign

VARIABLES
    path,       \* the path a call asks for
    step,       \* where each call or its job is
    reserved,   \* reservedOutputPaths
    jobs,       \* the map of jobs
    aborted,    \* jobs whose controller was aborted
    failure,    \* jobs with an error to report
    file,       \* what is at each path
    staged,     \* working directories that hold a regular result.png
    workdirs,   \* working directories that exist
    posted,     \* "none", "completed" or "failed"
    session,    \* "open", "closing" while session_shutdown waits, "over"
    awaited,    \* the jobs session_shutdown waits for
    shell,      \* pi-shelld's view of each shell
    exit        \* what settled resolved to: "none", "zero", "other"

own == <<path, step, reserved, jobs, aborted, failure, posted, session, awaited>>
disk == <<file, staged, workdirs>>
shelld == <<shell, exit>>
vars == <<own, disk, shelld>>

Shell == INSTANCE ShellLifecycle WITH Shells <- Jobs, status <- shell, told <- {}

At(j, s) == step[j] = s
Goto(j, s) == step' = [step EXCEPT ![j] = s]

\* Between its reservation and its end a call is busy with its path.
Busy == {"prepare", "launch", "started", "wait", "copy", "unlink", "close", "clean"}
Over == {"refused", "done", "rejected"}

Init ==
    /\ path \in [Jobs -> Paths]
    /\ step = [j \in Jobs |-> "idle"]
    /\ reserved = {} /\ jobs = {} /\ aborted = {} /\ failure = {}
    /\ file = [p \in Paths |-> NoFile]
    /\ staged = {} /\ workdirs = {}
    /\ posted = [j \in Jobs |-> "none"]
    /\ session = "open" /\ awaited = {}
    /\ Shell!Init
    /\ exit = [j \in Jobs |-> "none"]

-----------------------------------------------------------------------------
(* The tool call. *)

\* Nothing is awaited between the checks and the reservation.
Execute(j) ==
    /\ At(j, "idle") /\ session = "open"
    /\ IF file[path[j]] = NoFile /\ path[j] \notin reserved
       THEN Goto(j, "prepare") /\ reserved' = reserved \cup {path[j]}
       ELSE Goto(j, "refused") /\ UNCHANGED reserved
    /\ UNCHANGED <<path, jobs, aborted, failure, posted, session, awaited, disk, shelld>>

\* mkdtemp
Prepare(j) ==
    /\ At(j, "prepare")
    /\ Goto(j, "launch") /\ workdirs' = workdirs \cup {j}
    /\ UNCHANGED <<path, reserved, jobs, aborted, failure, posted, session, awaited, file, staged, shelld>>

\* The directory of the path is made, the path is checked again, the prompt is written
\* and the service starts the shell.
StartShell(j) ==
    /\ At(j, "launch") /\ file[path[j]] = NoFile
    /\ Shell!Start(j)
    /\ exit' \in {exit, [exit EXCEPT ![j] = "other"]}
    /\ exit'[j] = "none" <=> shell'[j] = "running"
    /\ Goto(j, "started")
    /\ UNCHANGED <<path, reserved, jobs, aborted, failure, posted, session, awaited, disk>>

\* Any step of the launch fails: directory and reservation are given back.
LaunchFails(j) ==
    /\ step[j] \in {"prepare", "launch"}
    /\ Goto(j, "refused")
    /\ reserved' = reserved \ {path[j]}
    /\ workdirs' = workdirs \ {j}
    /\ UNCHANGED <<path, jobs, aborted, failure, posted, session, awaited, file, staged, shelld>>

\* execute goes on: the job begins to wait and is entered in the map.
Register(j) ==
    /\ At(j, "started")
    /\ Goto(j, "wait") /\ jobs' = jobs \cup {j}
    /\ UNCHANGED <<path, reserved, aborted, failure, posted, session, awaited, disk, shelld>>

-----------------------------------------------------------------------------
(* finishJob *)

\* Mutant: only an exit ends the wait.
WaitMutant(j) ==
    /\ At(j, "wait") /\ exit[j] # "none"
    /\ \/ exit[j] = "zero" /\ Goto(j, "copy") /\ UNCHANGED failure
       \/ Goto(j, "close") /\ failure' = failure \cup {j}
    /\ UNCHANGED <<path, reserved, jobs, aborted, posted, session, awaited, disk, shelld>>

\* The first of exit, abort and the ten minutes counts.
WaitForCodex(j) ==
    /\ At(j, "wait")
    /\ \/ exit[j] = "zero" /\ Goto(j, "copy") /\ UNCHANGED failure
       \/ Goto(j, "close") /\ failure' = failure \cup {j}
    /\ UNCHANGED <<path, reserved, jobs, aborted, posted, session, awaited, disk, shelld>>

\* Mutant: a plain copy replaces what is there.
CopyMutant(j) ==
    /\ At(j, "copy")
    /\ IF j \in staged
       THEN file' = [file EXCEPT ![path[j]] = j] /\ Goto(j, "unlink") /\ UNCHANGED failure
       ELSE Goto(j, "close") /\ failure' = failure \cup {j} /\ UNCHANGED file
    /\ UNCHANGED <<path, reserved, jobs, aborted, posted, session, awaited, staged, workdirs, shelld>>

\* deliverStagedImage: a regular file is copied, only to where nothing is.
Copy(j) ==
    /\ At(j, "copy")
    /\ \/ /\ j \in staged /\ file[path[j]] = NoFile
          /\ file' = [file EXCEPT ![path[j]] = j]
          /\ Goto(j, "unlink")
          /\ UNCHANGED <<staged, failure>>
       \/ /\ staged' = staged \ {j}
          /\ Goto(j, "close")
          /\ failure' = failure \cup {j}
          /\ UNCHANGED file
    /\ UNCHANGED <<path, reserved, jobs, aborted, posted, session, awaited, workdirs, shelld>>

\* Mutant: the error that took the image back is lost.
UnlinkMutant(j) ==
    /\ At(j, "unlink")
    /\ file' \in {file, [file EXCEPT ![path[j]] = NoFile]}
    /\ staged' = staged \ {j}
    /\ Goto(j, "close")
    /\ UNCHANGED <<path, reserved, jobs, aborted, failure, posted, session, awaited, workdirs, shelld>>

\* If the staged file cannot be removed, the delivered one is.
Unlink(j) ==
    /\ At(j, "unlink")
    /\ \/ UNCHANGED <<file, failure>>
       \/ /\ file' = [file EXCEPT ![path[j]] = NoFile]
          /\ failure' = failure \cup {j}
    /\ staged' = staged \ {j}
    /\ Goto(j, "close")
    /\ UNCHANGED <<path, reserved, jobs, aborted, posted, session, awaited, workdirs, shelld>>

\* service.close ends what still runs; a shell pi-shelld no longer has counts as closed.
\* Its failure becomes the job's, also if the image was delivered.
CloseShell(j) ==
    /\ At(j, "close") /\ Goto(j, "clean")
    /\ \/ /\ IF shell[j] = "closed" THEN UNCHANGED shell ELSE Shell!Close({j})
          /\ UNCHANGED failure
       \/ failure' = failure \cup {j} /\ UNCHANGED shell
    /\ UNCHANGED <<path, reserved, jobs, aborted, posted, session, awaited, disk, exit>>

\* postJobMessage: nobody is there to read it once the session shuts down.
Post(j) ==
    IF session # "open" THEN UNCHANGED posted
    ELSE posted' = [posted EXCEPT ![j] = IF j \in failure THEN "failed" ELSE "completed"]

\* Mutant: the reservation is kept until the session ends.
CleanMutant(j) ==
    /\ At(j, "clean")
    /\ jobs' = jobs \ {j}
    /\ UNCHANGED reserved
    /\ Goto(j, "done") /\ Post(j)
    /\ workdirs' = workdirs \ {j}
    /\ UNCHANGED <<path, aborted, failure, session, awaited, file, staged, shelld>>

\* The working directory goes; if it cannot be removed the job is rejected without a
\* message.  Either way the job leaves the map and its path is free.
Clean(j) ==
    /\ At(j, "clean")
    /\ jobs' = jobs \ {j}
    /\ reserved' = reserved \ {path[j]}
    /\ \/ Goto(j, "done") /\ Post(j) /\ workdirs' = workdirs \ {j}
       \/ Goto(j, "rejected") /\ UNCHANGED <<posted, workdirs>>
    /\ staged' = staged \ {j}
    /\ UNCHANGED <<path, aborted, failure, session, awaited, file, shelld>>

-----------------------------------------------------------------------------
(* session_shutdown *)

Shutdown ==
    /\ session = "open"
    /\ session' = "closing"
    /\ aborted' = aborted \cup jobs
    /\ awaited' = jobs
    /\ UNCHANGED <<path, step, reserved, jobs, failure, posted, disk, shelld>>

ShutdownEnds ==
    /\ session = "closing" /\ \A j \in awaited : step[j] \in Over
    /\ session' = "over" /\ jobs' = {}
    /\ UNCHANGED <<path, step, reserved, aborted, failure, posted, awaited, disk, shelld>>

\* pi-shelld's own handler closes every shell it has by then.
Sweep ==
    LET left == {j \in Jobs : shell[j] \in {"running", "to_close"}}
    IN /\ session # "open" /\ left # {}
       /\ Shell!Close(left)
       /\ UNCHANGED <<own, disk, exit>>

-----------------------------------------------------------------------------
(* Codex and the user (external). *)

\* Codex leaves a result.png or not, and ends well or not; the exit of a shell that was
\* closed while it ran arrives afterwards.
CodexExits(j) ==
    /\ exit[j] = "none"
    /\ \/ Shell!End(j) /\ exit' \in {[exit EXCEPT ![j] = e] : e \in {"zero", "other"}}
       \/ shell[j] = "closed" /\ exit' = [exit EXCEPT ![j] = "other"] /\ UNCHANGED shell
    /\ staged' \in {staged, staged \cup ({j} \cap workdirs)}
    /\ UNCHANGED <<own, file, workdirs>>

\* The user saves a file where an image is to go.
UserSaves(p) ==
    /\ file[p] = NoFile
    /\ file' = [file EXCEPT ![p] = Foreign]
    /\ UNCHANGED <<own, staged, workdirs, shelld>>

-----------------------------------------------------------------------------

JobStep(j) ==
    \/ Prepare(j) \/ StartShell(j) \/ LaunchFails(j) \/ Register(j)
    \/ WaitForCodex(j) \/ Copy(j) \/ Unlink(j) \/ CloseShell(j) \/ Clean(j)

Next ==
    \/ \E j \in Jobs : Execute(j) \/ JobStep(j) \/ CodexExits(j)
    \/ Shutdown \/ ShutdownEnds \/ Sweep
    \/ \E p \in Paths : UserSaves(p)

Spec == Init /\ [][Next]_vars

\* Timers, file operations and pi-shelld's service answer; Codex need not end.
FairSpec ==
    /\ Spec
    /\ WF_vars(ShutdownEnds)
    /\ \A j \in Jobs : WF_vars(JobStep(j))

-----------------------------------------------------------------------------

\* A path belongs to one call at a time, from its checks to its end, and is reserved for
\* just that long.
OneJobPerPath ==
    /\ \A i, j \in Jobs : i # j /\ path[i] = path[j] => ~({step[i], step[j]} \subseteq Busy)
    /\ reserved = {path[j] : j \in {i \in Jobs : step[i] \in Busy}}

\* "Completed" is said only of a path at which the job's own image lies, and goes on lying.
DeliveredIsThere ==
    \A j \in Jobs : posted[j] = "completed" => file[path[j]] = j

\* No file is replaced, and none is removed but the image of a job that reports an error:
\* not one the user has saved since the path was found free.
NothingOverwritten ==
    [][\A p \in Paths : file[p] # NoFile /\ file'[p] # file[p] =>
        file'[p] = NoFile /\ \E j \in Jobs : file[p] = j /\ j \in failure']_vars

\* Every call comes to an end, and session_shutdown waits no longer than its jobs.
JobsEnd ==
    /\ \A j \in Jobs : step[j] \in Busy ~> step[j] \in Over
    /\ session = "closing" ~> session = "over"

=============================================================================

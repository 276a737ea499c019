---------------------------- MODULE BrowserLaunch ----------------------------
(***************************************************************************)
(* Starting and closing Windows browsers from WSL (windows-browser.ts).    *)
(*                                                                         *)
(* A launch is one call of launchBrowser and, if it returned a handle, the *)
(* close of that handle.  The controllers of several pi sessions launch at *)
(* the same time: a temporary mode has a profile directory of its own, all *)
(* launches of main-profile share the profile of the user, whose browser   *)
(* may be running already.  Process ids of Windows are out of reach, so a  *)
(* cleanup finds its processes by the marker in their command lines.       *)
(***************************************************************************)
EXTENDS Naturals

CONSTANTS
    Launches,
    Temporary,      \* launches of headless and headed-tmp-profile
    User,           \* the profile of the user, shared by all others
    NoMarker,       \* a process the user started
    Attempts        \* removals tried before one is given up; 10 in the code

ASSUME LaunchAssumption ==
    /\ Temporary \subseteq Launches
    /\ User \notin Launches /\ NoMarker \notin Launches
    /\ Attempts \in Nat \ {0}

Profiles == Temporary \cup {User}

VARIABLES
    step,       \* where each launch or close is
    tries,      \* removals tried
    dir,        \* profiles whose directory exists
    port,       \* DevToolsActivePort: "absent", "live", "old" when its browser has gone
    process,    \* of each profile: "none", "starting" when not listed yet, "running"
    marker,     \* the launch whose marker the command line has
    returned,   \* launches that returned a handle
    missed      \* history: launches whose cleanup could not do its work

world == <<dir, port, process, marker>>
launchVars == <<step, tries, world, returned, missed>>

ProfileOf(l) == IF l \in Temporary THEN l ELSE User

\* readDevToolsEndpoint: the file exists and has a port and a path; whether its browser
\* still runs cannot be read from it.
HasEndpoint(l) == port[ProfileOf(l)] # "absent"

At(l, s) == step[l] = s
Goto(l, s) == step' = [step EXCEPT ![l] = s]

Ended == {"failed", "closed"}

LaunchInit ==
    /\ step = [l \in Launches |-> "idle"]
    /\ tries = [l \in Launches |-> 0]
    /\ dir = {User}
    /\ process \in {[p \in Profiles |-> IF p = User THEN s ELSE "none"] : s \in {"none", "running"}}
    /\ port \in {[p \in Profiles |-> IF p = User THEN s ELSE "absent"] : s \in {"absent", "live", "old"}}
    /\ port[User] = "live" => process[User] = "running"
    /\ marker = [p \in Profiles |-> NoMarker]
    /\ returned = {}
    /\ missed = {}

-----------------------------------------------------------------------------
(* launchBrowser *)

\* Mutant: whatever was launched is cleaned up.
GiveUpMutant(l) == Goto(l, "terminate")

\* The catch block: a private profile that exists is cleaned up, the user's is not.
GiveUp(l) == Goto(l, IF l \in Temporary /\ l \in dir THEN "terminate" ELSE "failed")

\* The root of temporary profiles: discovered or configured, and on a Windows drive.
ResolveRoot(l) ==
    /\ At(l, "idle") /\ l \in Temporary
    /\ Goto(l, "profile") \/ GiveUp(l)
    /\ UNCHANGED <<tries, world, returned, missed>>

\* mkdtemp under the root, with the marker in its name.
MakeProfile(l) ==
    /\ At(l, "profile")
    /\ \/ dir' = dir \cup {l} /\ Goto(l, "spawn")
       \/ GiveUp(l) /\ UNCHANGED dir
    /\ UNCHANGED <<tries, port, process, marker, returned, missed>>

\* main-profile: an endpoint that is there already is taken without a launch, unless
\* the deadline of the acquire has passed.
FindEndpoint(l) ==
    /\ At(l, "idle") /\ l \notin Temporary
    /\ IF HasEndpoint(l)
       THEN \/ Goto(l, "up") /\ returned' = returned \cup {l}
            \/ GiveUp(l) /\ UNCHANGED returned
       ELSE Goto(l, "spawn") /\ UNCHANGED returned
    /\ UNCHANGED <<tries, world, missed>>

\* The command line has the profile and the marker.  A browser that already runs in
\* the profile opens the marker's page itself; the new process is gone at once.
Spawn(l) ==
    LET p == ProfileOf(l)
    IN /\ At(l, "spawn")
       /\ \/ GiveUp(l) /\ UNCHANGED <<process, marker>>
          \/ /\ Goto(l, "wait")
             /\ IF process[p] = "none"
                THEN /\ process' = [process EXCEPT ![p] = "starting"]
                     /\ marker' = [marker EXCEPT ![p] = l]
                ELSE UNCHANGED <<process, marker>>
       /\ UNCHANGED <<tries, dir, port, returned, missed>>

\* waitForDevToolsEndpoint: polled until there is one, the signal is aborted or the
\* time is up; a main-profile can be late even then.
Wait(l) ==
    /\ At(l, "wait")
    /\ \/ HasEndpoint(l) /\ Goto(l, "up") /\ returned' = returned \cup {l}
       \/ GiveUp(l) /\ UNCHANGED returned
    /\ UNCHANGED <<tries, world, missed>>

-----------------------------------------------------------------------------
(* The close of a handle, and the cleanup it shares with a failed launch. *)

Close(l) ==
    /\ At(l, "up")
    /\ Goto(l, IF l \in Temporary THEN "terminate" ELSE "closed")
    /\ UNCHANGED <<tries, world, returned, missed>>

Marked(l) == {p \in Profiles : marker[p] = l /\ process[p] = "running"}

\* What is left of a profile's port file when its browser is gone.
PortsAfter(gone) == [p \in Profiles |-> IF p \in gone /\ port[p] = "live" THEN "old" ELSE port[p]]

\* PowerShell stops every listed process with the marker.  Its failures are ignored;
\* one that runs out of time may have stopped them or not.
Terminate(l) ==
    LET left == marker[ProfileOf(l)] = l /\ process'[ProfileOf(l)] # "none"
    IN /\ At(l, "terminate")
       /\ \/ /\ process' = [p \in Profiles |-> IF p \in Marked(l) THEN "none" ELSE process[p]]
             /\ port' = PortsAfter(Marked(l))
          \/ UNCHANGED <<process, port>>
       /\ missed' = IF left THEN missed \cup {l} ELSE missed
       /\ Goto(l, "remove")
       /\ UNCHANGED <<tries, dir, marker, returned>>

\* Mutant: a locked file ends the removal at once and without notice.
RemoveMutant(l) ==
    /\ At(l, "remove")
    /\ Goto(l, IF l \in returned THEN "closed" ELSE "failed")
    /\ \/ process[ProfileOf(l)] # "running" /\ dir' = dir \ {ProfileOf(l)}
       \/ UNCHANGED dir
    /\ UNCHANGED <<tries, port, process, marker, returned, missed>>

\* removeTemporaryProfile: a running browser keeps its files locked, a scanner or a
\* dying one for a while.  The tenth failure ends a close with an error and is
\* ignored by a failed launch.
Remove(l) ==
    LET p == ProfileOf(l)
        over == Goto(l, IF l \in returned THEN "closed" ELSE "failed")
    IN /\ At(l, "remove")
       /\ \/ /\ process[p] # "running"
             /\ dir' = dir \ {p} /\ port' = [port EXCEPT ![p] = "absent"]
             /\ over
             /\ UNCHANGED <<tries, missed>>
          \/ /\ tries' = [tries EXCEPT ![l] = @ + 1]
             /\ IF tries'[l] = Attempts
                THEN over /\ missed' = missed \cup {l}
                ELSE UNCHANGED <<step, missed>>
             /\ UNCHANGED <<dir, port>>
       /\ UNCHANGED <<process, marker, returned>>

-----------------------------------------------------------------------------
(* Windows and the user (external). *)

\* A process that was asked for is listed a while later; its browser creates its
\* profile directory if that is gone.
Appear(p) ==
    /\ process[p] = "starting"
    /\ process' = [process EXCEPT ![p] = "running"]
    /\ dir' = dir \cup {p}
    /\ UNCHANGED <<step, tries, port, marker, returned, missed>>

\* The browser opens its DevTools port: it was started with one, or the user enables it.
OpenPort(p) ==
    /\ process[p] = "running" /\ port[p] # "live"
    /\ port' = [port EXCEPT ![p] = "live"]
    /\ UNCHANGED <<step, tries, dir, process, marker, returned, missed>>

\* The browser crashes or is closed; its port file may stay.
Exit(p) ==
    /\ process[p] # "none"
    /\ process' = [process EXCEPT ![p] = "none"]
    /\ marker' = [marker EXCEPT ![p] = NoMarker]
    /\ port' \in {PortsAfter({p}), [port EXCEPT ![p] = "absent"]}
    /\ UNCHANGED <<step, tries, dir, returned, missed>>

UserStarts ==
    /\ process[User] = "none"
    /\ process' = [process EXCEPT ![User] = "running"]
    /\ UNCHANGED <<step, tries, dir, port, marker, returned, missed>>

-----------------------------------------------------------------------------

LaunchStep(l) ==
    \/ ResolveRoot(l) \/ MakeProfile(l) \/ FindEndpoint(l) \/ Spawn(l) \/ Wait(l)
    \/ Terminate(l) \/ Remove(l)

LaunchNext ==
    \/ \E l \in Launches : LaunchStep(l) \/ Close(l)
    \/ \E p \in Profiles : Appear(p) \/ OpenPort(p) \/ Exit(p)
    \/ UserStarts

-----------------------------------------------------------------------------

\* A step of a launch, a close or a cleanup ends no browser and removes no directory but
\* its own private ones: the user's stay, also a browser that a main-profile launch had
\* started, and so do those of other sessions.
OnlyOwnIsRemoved ==
    [][\A p \in Profiles :
        (p \in dir \ dir' \/ (process[p] # "none" /\ process'[p] = "none"))
            => (step' = step \/ (p \in Temporary /\ step'[p] # step[p]))]_launchVars

\* A failed launch and a close leave neither a process nor a directory behind, except
\* where the cleanup could not find or stop the process, or remove the files, in time.
NothingLeft ==
    \A l \in Temporary : step[l] \in Ended /\ l \notin missed =>
        l \notin dir /\ process[l] = "none"

=============================================================================

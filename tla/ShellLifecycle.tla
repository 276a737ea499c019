--------------------------- MODULE ShellLifecycle ---------------------------
(***************************************************************************)
(* What pi-shelld promises of one shell (ADR-0001, the module comment of   *)
(* shells.ts): two states, running and to close, both derived; close is    *)
(* irreversible and the only way out of the registry; the agent is told of *)
(* a shell at most once, at the moment it becomes to close.                *)
(***************************************************************************)
CONSTANT Shells

VARIABLES
  status,   \* unborn, running, to_close or closed
  told      \* shells whose transition to to_close the agent was told of

vars == <<status, told>>

TypeOK ==
  /\ status \in [Shells -> {"unborn", "running", "to_close", "closed"}]
  /\ told \in SUBSET Shells

Init ==
  /\ status = [c \in Shells |-> "unborn"]
  /\ told = {}

\* A shell enters the registry, already dead if it ended before that.
Start(c) ==
  /\ status[c] = "unborn"
  /\ \E st \in {"running", "to_close"} : status' = [status EXCEPT ![c] = st]
  /\ UNCHANGED told

\* Its leader is gone: whether the agent is told depends on who ended it.
End(c) ==
  /\ status[c] = "running"
  /\ status' = [status EXCEPT ![c] = "to_close"]
  /\ told' \in {told, told \cup {c}}

\* A close of one shell, or a session sweep of all those registered.
Close(S) ==
  /\ \A c \in S : status[c] \in {"running", "to_close"}
  /\ status' = [c \in Shells |-> IF c \in S THEN "closed" ELSE status[c]]
  /\ UNCHANGED told

Next ==
  \/ \E c \in Shells : Start(c) \/ End(c)
  \/ \E S \in SUBSET Shells : Close(S)

Spec == Init /\ [][Next]_vars

\* The agent is never told of a shell that is still running or never started.
ToldOnlyOfEnded == \A c \in told : status[c] \in {"to_close", "closed"}
=============================================================================

------------------------------ MODULE SwitchCwd ------------------------------
(***************************************************************************)
(* The command /cwd (pi-switch-cwd): a session moves to another directory  *)
(* by a copy of its file in the session directory of the target, a switch  *)
(* of the runtime to the copy, and the removal of the old file.            *)
(*                                                                         *)
(* A command waits until the agent is idle, and the user can give another  *)
(* one meanwhile: both hold what they read when they were given.           *)
(***************************************************************************)
EXTENDS Naturals

CONSTANTS
    Commands,
    Dirs,           \* working directories
    Slots,          \* session directories; their names are made from a path by rule
    NoDir

VARIABLES
    slotOf,         \* the rule: "/" and ":" become "-", so two paths may share a slot
    here,           \* the directory of the running session
    fileAt,         \* per slot, the directory in the header of the session's file, or NoDir
    runtime,        \* counts the runtimes: a context of an older one cannot be used
    cwdAt,          \* where each command is
    order,          \* what each command was given: from, to and its runtime
    refusals        \* history: slots in which a refused or overtaken command left a copy

cwdVars == <<slotOf, here, fileAt, runtime, cwdAt, order, refusals>>

CwdInit ==
    /\ slotOf \in [Dirs -> Slots]
    /\ here \in Dirs
    /\ fileAt = [s \in Slots |-> IF s = slotOf[here] THEN here ELSE NoDir]
    /\ runtime = 0
    /\ cwdAt = [c \in Commands |-> "idle"]
    /\ order = [c \in Commands |-> [from |-> NoDir, to |-> NoDir, runtime |-> 0]]
    /\ refusals = {}

Moves(c, s) == cwdAt' = [cwdAt EXCEPT ![c] = s]

\* The target is checked, or made; the same directory is nothing to do, a file or one
\* that cannot be made is an error.  While a runtime is being replaced the user cannot
\* give a command.
Cwd(c, d) ==
    /\ cwdAt[c] = "idle" /\ \A o \in Commands : cwdAt[o] # "switching"
    /\ order' = [order EXCEPT ![c] = [from |-> here, to |-> d, runtime |-> runtime]]
    /\ Moves(c, "over") \/ (d # here /\ Moves(c, "waiting"))
    /\ UNCHANGED <<slotOf, here, fileAt, runtime, refusals>>

\* buildMovedSessionFile: a copy from memory, under the name of the file.
Copied(c) == [fileAt EXCEPT ![slotOf[order[c].to]] = order[c].to]

\* Idle: the copy is written and the switch is asked for.  A context that has become
\* stale throws, and the write may fail.
Build(c) ==
    /\ cwdAt[c] = "waiting"
    /\ \/ /\ order[c].runtime = runtime
          /\ fileAt' = Copied(c) /\ Moves(c, "switching")
       \/ Moves(c, "over") /\ UNCHANGED fileAt
    /\ UNCHANGED <<slotOf, here, runtime, order, refusals>>

\* Mutant: the old file goes whatever came of the switch.
RefusedMutant(c) ==
    /\ cwdAt[c] = "switching"
    /\ Moves(c, "over")
    /\ fileAt' = [fileAt EXCEPT ![slotOf[order[c].from]] = NoDir]
    /\ refusals' = refusals \cup {slotOf[order[c].to]}
    /\ UNCHANGED <<slotOf, here, runtime, order>>

\* Another extension vetoes the switch, or it throws: the copy stays.
Refused(c) ==
    /\ cwdAt[c] = "switching"
    /\ Moves(c, "over")
    /\ refusals' = refusals \cup {slotOf[order[c].to]}
    /\ UNCHANGED <<slotOf, here, fileAt, runtime, order>>

\* The runtime is replaced by one of the copy; the handler goes on at once and removes
\* the file it was given in.  A command that has also asked for a switch is overtaken.
Switched(c) ==
    /\ cwdAt[c] = "switching"
    /\ Moves(c, "over")
    /\ here' = order[c].to /\ runtime' = runtime + 1
    /\ fileAt' = [fileAt EXCEPT ![slotOf[order[c].from]] = NoDir]
    /\ refusals' = IF here = order[c].from THEN refusals ELSE refusals \cup {slotOf[here]}
    /\ UNCHANGED <<slotOf, order>>

CwdNext ==
    \E c \in Commands : Build(c) \/ Refused(c) \/ Switched(c) \/ \E d \in Dirs : Cwd(c, d)

-----------------------------------------------------------------------------

\* No two directories in play share a session directory, as /a/b and /a-b do.
Distinct == \A d, e \in Dirs : slotOf[d] = slotOf[e] => d = e

\* A running session has its file, whatever was vetoed, failed or overtaken, where no two
\* directories share a session directory.
HasItsFile == Distinct => fileAt[slotOf[here]] = here

\* Moving back and forth leaves no copies behind, except those of switches that were
\* refused or that another command overtook.
NoOtherFile ==
    \A s \in Slots : fileAt[s] # NoDir =>
        \/ s = slotOf[here] \/ s \in refusals
        \/ \E c \in Commands : cwdAt[c] = "switching" /\ s = slotOf[order[c].to]

\* "Any failure leaves the old file intact" (index.ts:28) and "switching back and forth
\* accumulates nothing" (README.md:39): the running session has its file and no other.
OneSessionFile == HasItsFile /\ NoOtherFile

=============================================================================

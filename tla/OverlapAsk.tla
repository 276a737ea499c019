------------------------------ MODULE OverlapAsk ------------------------------
(***************************************************************************)
(* The question a side chat asks before it writes where the main agent has *)
(* written: wrapTool and extractWritePaths (tool-wrapper.ts), the tracker  *)
(* (file-activity-tracker.ts) and its two users in index.ts.               *)
(*                                                                         *)
(* A command is a sequence of words and operators, as tokenizeShell leaves *)
(* it: quotes and spaces are gone.  A descriptor before a redirection is a *)
(* word to it and a line break a space; commands with either are left out. *)
(*                                                                         *)
(* A definition named ...Mutant is a plausible bug in the definition that  *)
(* follows it; the specification uses none of them.                        *)
(***************************************************************************)
EXTENDS Integers, Sequences

CONSTANTS
    Dashed,         \* words that begin with a dash, "--" among them
    Plain,          \* other words; commands and files
    Ignored,        \* /dev/null and its like
    Absolute,       \* the words that are absolute paths
    Cwds,           \* directories the main agent works in
    SideCwd,        \* the one the side chat was opened in
    MainCalls,      \* what the main agent may call
    MaxTokens,      \* bound: length of the side agent's command
    MaxStarts       \* bound: calls of the main agent

ASSUME OverlapAssumption ==
    /\ "--" \in Dashed /\ Ignored \cup Absolute \subseteq Plain /\ SideCwd \in Cwds
    /\ MaxTokens \in Nat /\ MaxStarts \in Nat

VARIABLES
    tracked,        \* FileActivityTracker.written
    wrote,          \* history: what the calls of the main agent write
    starts,         \* bound: how many there were
    sideCall,       \* the side agent's call: what is found in it, and what it writes
    sideAt,         \* where its execute is
    before,         \* history: wrote when it was called
    todo,           \* the paths it has yet to look at
    question,       \* the one the user is asked about
    agreed          \* those the user has agreed to

overlapVars == <<tracked, wrote, starts, sideCall, sideAt, before, todo, question, agreed>>

Redirects == {">", ">>"}
Separators == {"|", "||", "&", "&&", ";"}
Operators == Redirects \cup Separators
FileCommands == {"tee", "touch", "rm"}
CopyCommands == {"cp", "mv"}

\* A file is the pair of a directory and a name; an absolute path has its own.
Resolved(cwd, path) == IF path \in Absolute THEN <<"root", path>> ELSE <<cwd, path>>
Files(cwd, paths) == {Resolved(cwd, p) : p \in paths}

-----------------------------------------------------------------------------
(* Commands.  Positions of a command stand for what is there.               *)

Segment(c, i) == {j \in DOMAIN c : \A k \in DOMAIN c : (k - i) * (k - j) <= 0 => c[k] \notin Separators}
Segments(c) == {Segment(c, i) : i \in DOMAIN c}
WordsIn(c, segment) == {i \in segment : c[i] \notin Operators}
IsTarget(c, i) == i - 1 \in DOMAIN c /\ c[i - 1] \in Redirects
Words(c, positions) == {c[i] : i \in positions}

\* What commands write of their operands: all, or the last of several.
WrittenOf(command, operands) ==
    IF command \in FileCommands THEN operands
    ELSE IF command \in CopyCommands /\ \E i, j \in operands : i # j
         THEN {i \in operands : \A j \in operands : j <= i} ELSE {}

\* collectCommandOperands: options end with the first operand or "--".
OperandsMutant(c, words, name) ==
    LET after == {i \in words : i > name}
    IN  {i \in after : \/ c[i] \notin Dashed
                      \/ \E j \in after : j < i /\ (c[j] \notin Dashed \/ c[j] = "--")}
Operands(c, words, name) ==
    LET after == {i \in words : i > name /\ ~IsTarget(c, i)}
    IN  {i \in after : \/ c[i] \notin Dashed
                      \/ \E j \in after : j < i /\ (c[j] \notin Dashed \/ c[j] = "--")}

\* collectSegmentWritePaths: the first word is the command, be it a redirection's.
FoundIn(c, segment) ==
    LET words == WordsIn(c, segment)
        name == CHOOSE i \in words : \A j \in words : i <= j
    IN  IF words = {} THEN {}
        ELSE {i \in words : IsTarget(c, i)} \cup WrittenOf(c[name], Operands(c, words, name))

Found(c) == Words(c, UNION {FoundIn(c, segment) : segment \in Segments(c)}) \ (Dashed \cup Ignored)

ExtractWritePaths(call) == IF call.tool = "bash" THEN Found(call.command) ELSE {call.path}

\* What the shell and the commands write: redirections may come before the command, and
\* options anywhere before "--".
OverwrittenIn(c, segment) ==
    LET words == WordsIn(c, segment)
        own == {i \in words : ~IsTarget(c, i)}
        name == CHOOSE i \in own : \A j \in own : i <= j
        operands == {i \in own \ {name} :
                        c[i] \in Dashed => \E j \in own \ {name} : j < i /\ c[j] = "--"}
    IN  (words \ own) \cup IF own = {} THEN {} ELSE WrittenOf(c[name], operands)

Overwrites(c) == Words(c, UNION {OverwrittenIn(c, segment) : segment \in Segments(c)}) \ Ignored

Writes(call) == IF call.tool = "bash" THEN Overwrites(call.command) ELSE {call.path}

\* The common patterns the extension claims to catch (README.md, line 244): a command, then
\* its options, then its operands, and no file whose name begins with a dash.
IsCommon(c) ==
    \A segment \in Segments(c) :
        LET words == WordsIn(c, segment)
            own == {i \in words : ~IsTarget(c, i)}
        IN  /\ \A i \in words \ own : c[i] \notin Dashed /\ \E j \in own : j < i
            /\ \A i, j \in own : j < i /\ c[i] \in Dashed => c[j] \in Dashed \ {"--"} \/ \A k \in own : j <= k

\* The main agent's commands are common ones too.
ASSUME MainAssumption == \A call \in MainCalls :
    \/ call.tool = "bash" /\ call.command \in Seq(Dashed \cup Plain \cup Operators) /\ IsCommon(call.command)
    \/ call.tool \in {"write", "edit"} /\ call.path \in Plain

SideCommands ==
    {c \in UNION {[1..n -> Dashed \cup Plain \cup {">", "|"}] : n \in 1..MaxTokens} : IsCommon(c)}
SideTools ==
    [tool : {"bash"}, command : SideCommands] \cup [tool : {"write", "edit"}, path : Plain]
SideCalls == {[found |-> ExtractWritePaths(call), writes |-> Writes(call)] : call \in SideTools}

-----------------------------------------------------------------------------

OverlapInit ==
    /\ tracked = {} /\ wrote = {} /\ starts = 0
    /\ sideCall \in SideCalls /\ sideAt = "none"
    /\ before = {} /\ todo = {} /\ question = {} /\ agreed = {}

\* tool_execution_start of the main agent's write, edit and bash.
MainStarts(call, cwd) ==
    /\ starts < MaxStarts /\ starts' = starts + 1
    /\ tracked' = tracked \cup Files(cwd, ExtractWritePaths(call))
    /\ wrote' = wrote \cup Files(cwd, Writes(call))
    /\ UNCHANGED <<sideCall, sideAt, before, todo, question, agreed>>

\* The loop over the paths, up to the next the main agent has written; those after it wait
\* for the answer.  Their order is left out.
LookAt(paths) ==
    LET overlap == {p \in paths : Resolved(SideCwd, p) \in tracked}
    IN  \/ overlap = {} /\ sideAt' = "runs" /\ todo' = {} /\ question' = {}
        \/ \E p \in overlap, rest \in SUBSET paths :
              /\ overlap \ {p} \subseteq rest /\ p \notin rest
              /\ sideAt' = "asked" /\ question' = {p} /\ todo' = rest

SideExecutes ==
    /\ sideAt = "none" /\ LookAt(sideCall.found) /\ before' = wrote
    /\ UNCHANGED <<tracked, wrote, starts, sideCall, agreed>>

UserAnswers(proceed) ==
    /\ sideAt = "asked"
    /\ IF proceed THEN LookAt(todo) /\ agreed' = agreed \cup question
                  ELSE sideAt' = "skipped" /\ todo' = {} /\ question' = {} /\ UNCHANGED agreed
    /\ UNCHANGED <<tracked, wrote, starts, sideCall, before>>

OverlapNext ==
    \/ \E call \in MainCalls, cwd \in Cwds : MainStarts(call, cwd)
    \/ SideExecutes
    \/ \E proceed \in BOOLEAN : UserAnswers(proceed)

OverlapSpec == OverlapInit /\ [][OverlapNext]_overlapVars

-----------------------------------------------------------------------------
(* Properties.                                                              *)

\* A tool of the side agent that runs writes no file which a call of the main agent had begun
\* to write before it was called, but those the user has agreed to, however many its command
\* names and in whatever place, and whatever the main agent does while the user is asked.
OverlapIsAsked ==
    sideAt = "runs" =>
        \A p \in sideCall.writes : Resolved(SideCwd, p) \in before => p \in agreed

=============================================================================

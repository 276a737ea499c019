------------------------------- MODULE MCParts -------------------------------
(***************************************************************************)
(* Instances for TLC of the parts that share no state with each other:     *)
(* they belong to different extensions, or to the release scripts.  A      *)
(* behaviour is one of a single part, chosen at its start, while the       *)
(* others stay idle.                                                       *)
(***************************************************************************)
EXTENDS BrowserLaunch, VisionHelper, QuietRows, MermaidCheck, SwitchCwd, ScopeChoice, SideFork, OverlapAsk

VARIABLE part

Parts == {"launch", "vision", "quiet", "mermaid", "cwd", "scope", "fork", "overlap"}

\* The inputs of a part: one of them is enough where it is idle.
Input(p, S) == IF part = p THEN S ELSE {CHOOSE x \in S : TRUE}

-----------------------------------------------------------------------------
(* Names are made of letters 1, 2, 3; 0 is the suffix of a file.  The default model of  *)
(* the vision helper is 2.                                                            *)

LunaName == <<2>>
Short == {<<1>>, <<2>>, <<1, 2>>}

Models == [id : Short, sees : {"yes", "no"}, url : {TRUE}] \cup [id : {Missing, <<1>>}, sees : {"unsaid"}, url : {FALSE}]
ModelLists(n) ==
    {s \in UNION {[1..k -> Models] : k \in 0..n} : \A i, j \in DOMAIN s : i < j => s[i].id # s[j].id}
Provider(p, n) == [id : {p}, models : ModelLists(n)]
Stores ==
    {<<>>} \cup {<<p>> : p \in Provider(<<1>>, 2)}
    \cup {<<p, q>> : p \in Provider(<<1>>, 1), q \in Provider(<<1, 2>>, 1)}

RegistryEntries ==
    [name : {<<1>>}, registry : {TRUE}, provider : Short \cup {Missing}, model : Short \cup {Missing},
     url : {FALSE}, key : {"none"}]
ResponsesEntries ==
    [name : {<<2>>}, registry : {FALSE}, provider : {Missing}, model : {Missing, <<1>>},
     url : BOOLEAN, key : {"none", "env", "unset"}]
FlatFields ==
    [provider : {Missing, <<1>>, <<2>>}, model : {Missing, <<1>>, <<2>>}, substring : BOOLEAN,
     url : BOOLEAN, key : {"none", "literal"}]

Bare == [enabled |-> TRUE, force |-> FALSE, block |-> FALSE, models |-> <<>>, active |-> Missing, flat |-> {}]
Settings ==
    {[Bare EXCEPT !.enabled = on, !.force = f, !.block = b] : on \in BOOLEAN, f \in BOOLEAN, b \in BOOLEAN}
    \cup {[Bare EXCEPT !.block = TRUE, !.models = <<e>>, !.active = a] :
            e \in RegistryEntries \cup ResponsesEntries, a \in {Missing, <<1>>}}
    \cup {[Bare EXCEPT !.flat = {f}] : f \in FlatFields}
    \cup {[Bare EXCEPT !.block = TRUE, !.flat = {f}] : f \in {g \in FlatFields : g.url /\ ~g.substring}}

VisionInputs ==
    /\ store \in Input("vision", Stores) /\ setting \in Input("vision", Settings)
    /\ keys \in Input("vision", {{}, {<<1>>, <<1, 2>>}})
    /\ mainSees \in Input("vision", BOOLEAN)
    /\ mainSees => setting.flat = {} /\ setting.models = <<>>
    /\ visionCall = "called" /\ backend = NoBackend

ScopeNames == {<<1>>, <<1, 2>>, <<2, 1>>, <<1, 3, 2>>}
ToolNames == {<<1, 2>>, <<3>>}

ScopeInputs ==
    /\ packages \in Input("scope", SUBSET ScopeNames) /\ cross \in Input("scope", {{}, {<<3>>}})
    /\ tools \in Input("scope", [packages -> SUBSET ToolNames])
    /\ wanted \in Input("scope", ScopeNames \cup ToolNames \cup {<<2>>, <<0>>, <<2, 0>>})
    /\ assent \in Input("scope", BOOLEAN) /\ tty \in Input("scope", BOOLEAN)
    /\ scopeAt = "asked" /\ scope = Missing

\* The main agent writes a file or runs a command, here or in another session's directory.
MainTools ==
    [tool : {"write"}, path : {"a", "b"}] \cup [tool : {"bash"}, command : {<<"rm", "a", "b">>}]

-----------------------------------------------------------------------------

Init ==
    /\ part \in Parts
    /\ LaunchInit /\ (part # "launch" => process[User] = "none" /\ port[User] = "absent")
    /\ draftOf \in Input("mermaid", [Drafts -> Chats \X Intents]) /\ MermaidInit
    /\ slotOf \in Input("cwd", [Dirs -> Slots]) /\ here \in Input("cwd", Dirs) /\ CwdInit
    /\ QuietInit /\ ForkInit /\ OverlapInit /\ VisionInputs /\ ScopeInputs
    /\ part # "overlap" => sideCall.found = {} /\ sideCall.writes = {}

Idle(p, v) == part # p /\ UNCHANGED v

Next ==
    /\ UNCHANGED part
    /\ (part = "launch" /\ LaunchNext) \/ Idle("launch", launchVars)
    /\ (part = "vision" /\ VisionNext) \/ Idle("vision", visionVars)
    /\ (part = "quiet" /\ QuietNext) \/ Idle("quiet", quietVars)
    /\ (part = "mermaid" /\ MermaidNext) \/ Idle("mermaid", mermaidVars)
    /\ (part = "cwd" /\ CwdNext) \/ Idle("cwd", cwdVars)
    /\ (part = "scope" /\ ScopeNext) \/ Idle("scope", scopeVars)
    /\ (part = "fork" /\ ForkNext) \/ Idle("fork", forkVars)
    /\ (part = "overlap" /\ OverlapNext) \/ Idle("overlap", overlapVars)

Spec ==
    /\ Init
    /\ [][Next]_<<part, launchVars, visionVars, quietVars, mermaidVars, cwdVars, scopeVars, forkVars, overlapVars>>

=============================================================================

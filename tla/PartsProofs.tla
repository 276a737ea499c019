----------------------------- MODULE PartsProofs -----------------------------
(* Theorems about the parts that share no state: the start of browsers on  *)
(* Windows, the change of the session's directory, the rows of tool calls, *)
(* the question before a side chat writes, the counter of failed diagrams, *)
(* the choice of a scope, the history a side chat is opened with, and      *)
(* where the vision helper sends images.                                   *)
EXTENDS BrowserLaunch, SwitchCwd, QuietRows, OverlapAsk, MermaidCheck, ScopeChoice, SideFork,
        VisionHelper, DataLemmas

-----------------------------------------------------------------------------
(***************************************************************************)
(* What launches and closes of browsers end, remove and leave behind: for  *)
(* any number of launches and attempts.                                    *)
(*                                                                         *)
(* The argument: only a launch with a private profile ever comes to its    *)
(* cleanup, its marker is on no other browser, and a private profile has   *)
(* no browser but the one that carries the marker.                         *)
(***************************************************************************)

LaunchSpec == LaunchInit /\ [][LaunchNext]_launchVars

Steps == {"idle", "profile", "spawn", "wait", "up", "terminate", "remove", "failed", "closed"}

LaunchTypeOK ==
    /\ step \in [Launches -> Steps]
    /\ process \in [Profiles -> {"none", "starting", "running"}]
    /\ marker \in [Profiles -> Launches \cup {NoMarker}]

OnlyPrivateIsCleaned == \A l \in Launches : step[l] \in {"profile", "terminate", "remove"} => l \in Temporary

MarkerTellsProfile == \A p \in Profiles : marker[p] # NoMarker => p = ProfileOf(marker[p])

PrivateIsMarked == \A l \in Temporary : process[l] # "none" => marker[l] = l

\* A private profile before its directory is made, while it is in use, and after its cleanup.
StagesOfPrivate ==
    \A l \in Temporary :
        /\ step[l] \in {"idle", "profile"} => l \notin dir /\ process[l] = "none"
        /\ step[l] = "spawn" => l \in dir /\ process[l] = "none"
        /\ step[l] \in {"wait", "up"} => l \in dir
        /\ step[l] \in {"remove"} \cup Ended /\ l \notin missed => process[l] = "none"
        /\ step[l] \in Ended /\ l \notin missed => l \notin dir

LaunchInv == LaunchTypeOK /\ OnlyPrivateIsCleaned /\ MarkerTellsProfile /\ PrivateIsMarked /\ StagesOfPrivate

-----------------------------------------------------------------------------

LEMMA LaunchInitInv == LaunchInit => LaunchInv
BY LaunchAssumption DEF LaunchInit, LaunchInv, LaunchTypeOK, Steps, OnlyPrivateIsCleaned, MarkerTellsProfile,
    PrivateIsMarked, StagesOfPrivate, Ended, Profiles

LEMMA ProfilesAre ==
    ASSUME NEW l \in Launches
    PROVE  /\ ProfileOf(l) \in Profiles /\ l # NoMarker /\ l # User
           /\ \A t \in Temporary : ProfileOf(l) = t <=> l = t
BY LaunchAssumption DEF ProfileOf, Profiles

\* Steps of a launch that start no browser and end none.
LEMMA CallStep ==
    ASSUME LaunchInv, NEW l \in Launches,
           ResolveRoot(l) \/ MakeProfile(l) \/ FindEndpoint(l) \/ Wait(l) \/ Close(l)
    PROVE  LaunchInv'
<1>1. /\ UNCHANGED <<process, marker, missed>>
      /\ step' \in [Launches -> Steps] /\ \A k \in Launches \ {l} : step'[k] = step[k]
      /\ dir' \in {dir, dir \cup {l}}
    BY DEF ResolveRoot, MakeProfile, FindEndpoint, Wait, Close, GiveUp, Goto, world, LaunchInv, LaunchTypeOK, Steps
<1>2. OnlyPrivateIsCleaned'
    BY <1>1, ProfilesAre DEF ResolveRoot, MakeProfile, FindEndpoint, Wait, Close, GiveUp, Goto, At,
                             LaunchInv, LaunchTypeOK, OnlyPrivateIsCleaned, Steps
<1>3. ASSUME l \in Temporary
      PROVE  \/ step[l] = "idle" /\ step'[l] = "profile" /\ UNCHANGED dir
             \/ step[l] = "profile" /\ step'[l] = "spawn" /\ l \in dir'
             \/ step[l] \in {"idle", "profile"} /\ step'[l] = "failed" /\ UNCHANGED dir
             \/ step[l] = "wait" /\ step'[l] \in {"up", "terminate"} /\ UNCHANGED dir
             \/ step[l] = "up" /\ step'[l] = "terminate" /\ UNCHANGED dir
    BY <1>3 DEF ResolveRoot, MakeProfile, FindEndpoint, Wait, Close, GiveUp, Goto, At, world,
                LaunchInv, LaunchTypeOK, StagesOfPrivate
<1>4. StagesOfPrivate'
    BY <1>1, <1>3, LaunchAssumption DEF LaunchInv, LaunchTypeOK, StagesOfPrivate, Ended
<1>5. LaunchTypeOK' /\ MarkerTellsProfile' /\ PrivateIsMarked'
    BY <1>1 DEF LaunchInv, LaunchTypeOK, MarkerTellsProfile, PrivateIsMarked
<1> QED
    BY <1>2, <1>4, <1>5 DEF LaunchInv

LEMMA SpawnStep == ASSUME LaunchInv, NEW l \in Launches, Spawn(l) PROVE LaunchInv'
<1> DEFINE p == ProfileOf(l)
<1>1. /\ step[l] = "spawn" /\ UNCHANGED <<dir, missed>> /\ p \in Profiles
      /\ step' \in [Launches -> Steps] /\ \A k \in Launches \ {l} : step'[k] = step[k]
      /\ step'[l] \in {"wait", "terminate", "failed"}
      /\ step'[l] = "terminate" => l \in Temporary
    BY ProfilesAre DEF Spawn, GiveUp, Goto, At, LaunchInv, LaunchTypeOK, Steps
<1>2. l \in Temporary => step'[l] \in {"wait", "terminate"} /\ p = l
    BY DEF Spawn, GiveUp, Goto, At, LaunchInv, LaunchTypeOK, StagesOfPrivate, ProfileOf
<1>3. \/ UNCHANGED <<process, marker>>
      \/ process' = [process EXCEPT ![p] = "starting"] /\ marker' = [marker EXCEPT ![p] = l]
    BY DEF Spawn
<1>4. LaunchTypeOK' /\ OnlyPrivateIsCleaned'
    BY <1>1, <1>3 DEF LaunchInv, LaunchTypeOK, OnlyPrivateIsCleaned
<1>5. MarkerTellsProfile' /\ PrivateIsMarked'
    BY <1>1, <1>3, ProfilesAre, LaunchAssumption DEF LaunchInv, LaunchTypeOK, MarkerTellsProfile, PrivateIsMarked, Profiles
<1>6. StagesOfPrivate'
    BY <1>1, <1>2, <1>3, ProfilesAre, LaunchAssumption DEF LaunchInv, LaunchTypeOK, StagesOfPrivate, Ended, Profiles
<1> QED
    BY <1>4, <1>5, <1>6 DEF LaunchInv

\* The processes a cleanup stops are those of its own profile.
LEMMA MarkedIsOwn ==
    ASSUME LaunchInv, NEW l \in Launches, step[l] = "terminate"
    PROVE  l \in Temporary /\ Marked(l) \subseteq {l}
BY ProfilesAre DEF LaunchInv, OnlyPrivateIsCleaned, MarkerTellsProfile, Marked, ProfileOf

LEMMA TerminateStep == ASSUME LaunchInv, NEW l \in Launches, Terminate(l) PROVE LaunchInv'
<1>1. /\ l \in Temporary /\ Marked(l) \subseteq {l} /\ ProfileOf(l) = l
      /\ step[l] = "terminate" /\ step' = [step EXCEPT ![l] = "remove"] /\ UNCHANGED <<dir, marker>>
      /\ missed' = IF marker[l] = l /\ process'[l] # "none" THEN missed \cup {l} ELSE missed
      /\ \/ UNCHANGED process
         \/ process' = [p \in Profiles |-> IF p \in Marked(l) THEN "none" ELSE process[p]]
    BY MarkedIsOwn DEF Terminate, At, Goto, ProfileOf
<1>2. LaunchTypeOK' /\ OnlyPrivateIsCleaned' /\ MarkerTellsProfile'
    BY <1>1 DEF LaunchInv, LaunchTypeOK, Steps, OnlyPrivateIsCleaned, MarkerTellsProfile
<1>3. PrivateIsMarked' /\ StagesOfPrivate'
    BY <1>1, LaunchAssumption DEF LaunchInv, LaunchTypeOK, PrivateIsMarked, StagesOfPrivate, Ended, Profiles
<1> QED
    BY <1>2, <1>3 DEF LaunchInv

LEMMA RemoveStep == ASSUME LaunchInv, NEW l \in Launches, Remove(l) PROVE LaunchInv'
<1>1. /\ l \in Temporary /\ ProfileOf(l) = l /\ step[l] = "remove" /\ UNCHANGED <<process, marker>>
      /\ step' \in [Launches -> Steps] /\ \A k \in Launches \ {l} : step'[k] = step[k]
      /\ \/ step'[l] \in Ended /\ dir' = dir \ {l} /\ missed' = missed
         \/ step'[l] \in Ended /\ dir' = dir /\ missed' = missed \cup {l}
         \/ step'[l] = "remove" /\ dir' = dir /\ missed' = missed
    BY DEF Remove, At, Goto, ProfileOf, LaunchInv, LaunchTypeOK, Steps, OnlyPrivateIsCleaned, Ended
<1>2. LaunchTypeOK' /\ OnlyPrivateIsCleaned' /\ MarkerTellsProfile' /\ PrivateIsMarked'
    BY <1>1 DEF LaunchInv, LaunchTypeOK, OnlyPrivateIsCleaned, MarkerTellsProfile, PrivateIsMarked, Ended
<1>3. StagesOfPrivate'
    BY <1>1, LaunchAssumption DEF LaunchInv, LaunchTypeOK, StagesOfPrivate, Ended
<1> QED
    BY <1>2, <1>3 DEF LaunchInv

LEMMA WindowsStep ==
    ASSUME LaunchInv, UserStarts \/ \E p \in Profiles : Appear(p) \/ OpenPort(p) \/ Exit(p)
    PROVE  LaunchInv'
<1> USE DEF LaunchInv, LaunchTypeOK, OnlyPrivateIsCleaned, MarkerTellsProfile, PrivateIsMarked, StagesOfPrivate, Ended
<1>1. ASSUME NEW p \in Profiles, Appear(p) PROVE LaunchInv'
    <2>1. /\ UNCHANGED <<step, marker, missed>> /\ dir' = dir \cup {p}
          /\ process[p] = "starting" /\ process' = [process EXCEPT ![p] = "running"]
        BY <1>1 DEF Appear
    <2>2. LaunchTypeOK' /\ MarkerTellsProfile' /\ PrivateIsMarked' /\ OnlyPrivateIsCleaned'
        BY <2>1 DEF Profiles
    <2>3. StagesOfPrivate'
        BY <2>1 DEF Profiles
    <2> QED
        BY <2>2, <2>3
<1>2. ASSUME NEW p \in Profiles, OpenPort(p) PROVE LaunchInv'
    BY <1>2 DEF OpenPort
<1>3. ASSUME NEW p \in Profiles, Exit(p) PROVE LaunchInv'
    BY <1>3 DEF Exit, Profiles
<1>4. ASSUME UserStarts PROVE LaunchInv'
    BY <1>4, LaunchAssumption DEF UserStarts, Profiles
<1> QED
    BY <1>1, <1>2, <1>3, <1>4

LEMMA LaunchNextInv == LaunchInv /\ [LaunchNext]_launchVars => LaunchInv'
<1> SUFFICES ASSUME LaunchInv, [LaunchNext]_launchVars PROVE LaunchInv'
    OBVIOUS
<1>1. ASSUME NEW l \in Launches, LaunchStep(l) \/ Close(l) PROVE LaunchInv'
    BY <1>1, CallStep, SpawnStep, TerminateStep, RemoveStep DEF LaunchStep
<1>2. CASE UNCHANGED launchVars
    BY <1>2 DEF launchVars, world, LaunchInv, LaunchTypeOK, OnlyPrivateIsCleaned, MarkerTellsProfile, PrivateIsMarked,
                StagesOfPrivate
<1> QED
    BY <1>1, <1>2, WindowsStep DEF LaunchNext

-----------------------------------------------------------------------------

\* A launch or a close that is over has left neither a directory nor a browser of its own,
\* unless its cleanup could not do its work in time.
THEOREM LaunchesLeaveNothing == LaunchSpec => []NothingLeft
<1>1. LaunchInv => NothingLeft
    BY DEF LaunchInv, StagesOfPrivate, NothingLeft
<1> QED
    BY LaunchInitInv, LaunchNextInv, <1>1, PTL DEF LaunchSpec

\* No launch or close ends the browser or removes the directory of another, or of the user.
THEOREM OthersAreLeftAlone == LaunchSpec => OnlyOwnIsRemoved
<1> DEFINE Own(p) == (p \in dir \ dir' \/ (process[p] # "none" /\ process'[p] = "none"))
                        => (step' = step \/ (p \in Temporary /\ step'[p] # step[p]))
<1>1. ASSUME LaunchInv, NEW l \in Launches, LaunchStep(l) \/ Close(l), NEW p \in Profiles PROVE Own(p)
    <2>1. CASE ResolveRoot(l) \/ MakeProfile(l) \/ FindEndpoint(l) \/ Wait(l) \/ Close(l)
        BY <2>1 DEF ResolveRoot, MakeProfile, FindEndpoint, Wait, Close, world
    <2>2. CASE Spawn(l)
        BY <1>1, <2>2, ProfilesAre DEF Spawn, LaunchInv, LaunchTypeOK
    <2>3. CASE Terminate(l)
        BY <1>1, <2>3, MarkedIsOwn, LaunchAssumption DEF Terminate, At, Goto, LaunchInv, LaunchTypeOK
    <2>4. CASE Remove(l)
        <3>1. l \in Temporary /\ ProfileOf(l) = l /\ UNCHANGED process
            BY <1>1, <2>4 DEF Remove, At, ProfileOf, LaunchInv, OnlyPrivateIsCleaned
        <3>2. dir' = dir \/ (dir' = dir \ {l} /\ step'[l] \in Ended /\ step[l] = "remove")
            BY <1>1, <2>4, <3>1 DEF Remove, Goto, At, Ended, LaunchInv, LaunchTypeOK
        <3> QED
            BY <3>1, <3>2 DEF Ended
    <2> QED
        BY <1>1, <2>1, <2>2, <2>3, <2>4 DEF LaunchStep
<1>2. ASSUME UserStarts \/ (\E q \in Profiles : Appear(q) \/ OpenPort(q) \/ Exit(q)) \/ UNCHANGED launchVars,
             NEW p \in Profiles
      PROVE  Own(p)
    BY <1>2 DEF UserStarts, Appear, OpenPort, Exit, launchVars
<1>3. LaunchInv /\ [LaunchNext]_launchVars => [\A p \in Profiles : Own(p)]_launchVars
    BY <1>1, <1>2 DEF LaunchNext
<1> QED
    BY LaunchInitInv, LaunchNextInv, <1>3, PTL DEF LaunchSpec, OnlyOwnIsRemoved

-----------------------------------------------------------------------------
(***************************************************************************)
(* The session has one file: for any number of commands and directories,   *)
(* and any rule that names session directories.                            *)
(*                                                                         *)
(* The argument: the commands that have asked for a switch were all given  *)
(* in one directory, from which their targets differ; so the file that a   *)
(* switch removes is never that of another switch's target.                *)
(***************************************************************************)

CwdSpec == CwdInit /\ [][CwdNext]_cwdVars

Orders == [from : Dirs \cup {NoDir}, to : Dirs \cup {NoDir}, runtime : Nat]

CwdTypeOK ==
    /\ slotOf \in [Dirs -> Slots]
    /\ here \in Dirs
    /\ fileAt \in [Slots -> Dirs \cup {NoDir}]
    /\ runtime \in Nat
    /\ cwdAt \in [Commands -> {"idle", "waiting", "switching", "over"}]
    /\ order \in [Commands -> Orders]
    /\ refusals \subseteq Slots

Underway(c) == cwdAt[c] \in {"waiting", "switching"}
Fresh(c) == cwdAt[c] = "waiting" /\ order[c].runtime = runtime

\* A command under way goes from one directory to another.
GoesAway ==
    \A c \in Commands : Underway(c) =>
        /\ order[c].from \in Dirs /\ order[c].to \in Dirs
        /\ order[c].from # order[c].to /\ order[c].runtime <= runtime

\* One that is not stale was given where the session is.
FreshIsHere == \A c \in Commands : Fresh(c) => order[c].from = here

\* All that are switching were given in one directory, and so was one that may follow.
OneOrigin ==
    \A b, c \in Commands :
        cwdAt[b] = "switching" /\ (cwdAt[c] = "switching" \/ Fresh(c)) => order[b].from = order[c].from

\* The copy of one that is switching is there, where no two directories share a slot.
CopyIsThere ==
    Distinct => \A c \in Commands : cwdAt[c] = "switching" => fileAt[slotOf[order[c].to]] = order[c].to

CwdInv == CwdTypeOK /\ GoesAway /\ FreshIsHere /\ OneOrigin /\ CopyIsThere /\ OneSessionFile

-----------------------------------------------------------------------------

LEMMA CwdInitInv == CwdInit => CwdInv
<1> SUFFICES ASSUME CwdInit PROVE CwdInv
    OBVIOUS
<1> USE DEF CwdInit
<1>1. CwdTypeOK
    BY DEF CwdTypeOK, Orders
<1>2. GoesAway /\ FreshIsHere /\ OneOrigin /\ CopyIsThere
    BY DEF GoesAway, FreshIsHere, OneOrigin, CopyIsThere, Underway, Fresh
<1>3. OneSessionFile
    BY DEF OneSessionFile, HasItsFile, NoOtherFile, Distinct
<1> QED
    BY <1>1, <1>2, <1>3 DEF CwdInv

\* A command is given: its origin is here, and none is switching.
LEMMA CwdStep == ASSUME CwdInv, NEW c \in Commands, NEW d \in Dirs, Cwd(c, d) PROVE CwdInv'
<1> USE DEF CwdInv, Cwd, Moves
<1>1. CwdTypeOK'
    BY DEF CwdTypeOK, Orders
<1>2. GoesAway'
    BY DEF CwdTypeOK, Orders, GoesAway, Underway
<1>3. FreshIsHere'
    BY DEF CwdTypeOK, Orders, FreshIsHere, Fresh
<1>4. \A b \in Commands : cwdAt'[b] # "switching"
    BY DEF CwdTypeOK
<1>5. OneOrigin' /\ CopyIsThere'
    BY <1>4 DEF OneOrigin, CopyIsThere, Fresh
<1>6. OneSessionFile'
    BY DEF OneSessionFile, HasItsFile, NoOtherFile, Distinct, CwdTypeOK
<1> QED
    BY <1>1, <1>2, <1>3, <1>5, <1>6

\* The copy is written to another slot than that of the running session.
LEMMA BuildStep == ASSUME CwdInv, NEW c \in Commands, Build(c) PROVE CwdInv'
<1> USE DEF CwdInv, Build, Copied, Moves
<1>1. CASE order[c].runtime = runtime /\ cwdAt'[c] = "switching"
    <2> DEFINE to == order[c].to
    <2>1. Fresh(c) /\ to \in Dirs /\ to # here /\ order[c].from = here /\ slotOf[to] \in Slots
        BY <1>1 DEF Fresh, FreshIsHere, GoesAway, Underway, CwdTypeOK
    <2>2. /\ cwdAt' = [cwdAt EXCEPT ![c] = "switching"]
          /\ fileAt' = [fileAt EXCEPT ![slotOf[to]] = to]
        BY <1>1 DEF CwdTypeOK
    <2>3. CwdTypeOK'
        BY <2>1, <2>2 DEF CwdTypeOK
    <2>4. GoesAway' /\ FreshIsHere'
        BY <2>1, <2>2 DEF CwdTypeOK, GoesAway, FreshIsHere, Underway, Fresh
    <2>5. OneOrigin'
        BY <2>1, <2>2 DEF CwdTypeOK, OneOrigin, Fresh, FreshIsHere
    <2>6. ASSUME Distinct', NEW b \in Commands, cwdAt'[b] = "switching"
          PROVE  fileAt'[slotOf[order[b].to]] = order[b].to
        <3>1. Distinct
            BY <2>6 DEF Distinct
        <3>2. b # c => cwdAt[b] = "switching" /\ fileAt[slotOf[order[b].to]] = order[b].to /\ order[b].to \in Dirs
            BY <2>2, <2>6, <3>1 DEF CwdTypeOK, CopyIsThere, GoesAway, Underway
        <3>3. b # c => slotOf[order[b].to] \in Slots
            BY <3>2 DEF CwdTypeOK
        <3>4. b # c /\ slotOf[order[b].to] = slotOf[to] => order[b].to = to
            BY <2>1, <3>1, <3>2 DEF Distinct
        <3> QED
            BY <2>1, <2>2, <3>2, <3>3, <3>4 DEF CwdTypeOK
    <2>7. CopyIsThere'
        BY <2>6 DEF CopyIsThere
    <2>8. HasItsFile'
        <3>1. Distinct' => Distinct /\ slotOf[here] # slotOf[to]
            BY <2>1 DEF Distinct, CwdTypeOK
        <3> QED
            BY <2>1, <2>2, <3>1 DEF HasItsFile, OneSessionFile, CwdTypeOK
    <2>9. NoOtherFile'
        BY <2>1, <2>2 DEF NoOtherFile, OneSessionFile, CwdTypeOK
    <2> QED
        BY <2>3, <2>4, <2>5, <2>7, <2>8, <2>9 DEF OneSessionFile
<1>2. CASE cwdAt' = [cwdAt EXCEPT ![c] = "over"] /\ fileAt' = fileAt
    <2>1. CwdTypeOK'
        BY <1>2 DEF CwdTypeOK
    <2>2. GoesAway' /\ FreshIsHere' /\ OneOrigin' /\ CopyIsThere'
        BY <1>2 DEF CwdTypeOK, GoesAway, FreshIsHere, OneOrigin, CopyIsThere, Underway, Fresh, Distinct
    <2>3. OneSessionFile'
        BY <1>2 DEF CwdTypeOK, OneSessionFile, HasItsFile, NoOtherFile, Distinct
    <2> QED
        BY <2>1, <2>2, <2>3
<1> QED
    BY <1>1, <1>2 DEF CwdTypeOK

\* A refusal changes no file.
LEMMA RefusedStep == ASSUME CwdInv, NEW c \in Commands, Refused(c) PROVE CwdInv'
<1> USE DEF CwdInv, Refused, Moves
<1>1. order[c].to \in Dirs /\ slotOf[order[c].to] \in Slots
    BY DEF GoesAway, Underway, CwdTypeOK
<1>2. CwdTypeOK'
    BY <1>1 DEF CwdTypeOK
<1>3. GoesAway' /\ FreshIsHere' /\ OneOrigin' /\ CopyIsThere'
    BY DEF CwdTypeOK, GoesAway, FreshIsHere, OneOrigin, CopyIsThere, Underway, Fresh, Distinct
<1>4. OneSessionFile'
    BY DEF CwdTypeOK, OneSessionFile, HasItsFile, NoOtherFile, Distinct
<1> QED
    BY <1>2, <1>3, <1>4

\* A switch removes the file of the common origin, where no command goes.
LEMMA SwitchedStep == ASSUME CwdInv, NEW c \in Commands, Switched(c) PROVE CwdInv'
<1> USE DEF CwdInv, Switched, Moves
<1> DEFINE from == order[c].from
           to == order[c].to
<1>1. from \in Dirs /\ to \in Dirs /\ from # to /\ slotOf[from] \in Slots /\ slotOf[to] \in Slots
    BY DEF GoesAway, Underway, CwdTypeOK
<1>2. CwdTypeOK'
    BY <1>1 DEF CwdTypeOK
<1>3. GoesAway'
    BY DEF CwdTypeOK, Orders, GoesAway, Underway
<1>4. \A b \in Commands : ~Fresh(b)'
    BY DEF CwdTypeOK, Orders, GoesAway, Underway, Fresh
<1>5. FreshIsHere' /\ OneOrigin'
    BY <1>4 DEF FreshIsHere, OneOrigin, CwdTypeOK
<1>6. Distinct' => Distinct
    BY DEF Distinct
<1>7. CopyIsThere'
    <2> SUFFICES ASSUME Distinct, NEW b \in Commands, cwdAt'[b] = "switching"
                 PROVE  fileAt'[slotOf[order[b].to]] = order[b].to
        BY <1>6 DEF CopyIsThere
    <2>1. b # c /\ cwdAt[b] = "switching"
        BY DEF CwdTypeOK
    <2>2. order[b].from = from /\ order[b].to # from /\ order[b].to \in Dirs
        BY <2>1 DEF OneOrigin, GoesAway, Underway
    <2>3. slotOf[order[b].to] # slotOf[from]
        BY <1>1, <2>2 DEF Distinct
    <2> QED
        BY <2>1, <2>2, <2>3 DEF CopyIsThere, CwdTypeOK
<1>8. HasItsFile'
    <2> SUFFICES ASSUME Distinct PROVE fileAt'[slotOf[to]] = to
        BY <1>6 DEF HasItsFile
    <2>1. slotOf[to] # slotOf[from]
        BY <1>1 DEF Distinct
    <2> QED
        BY <1>1, <2>1 DEF CopyIsThere, CwdTypeOK
<1>9. NoOtherFile'
    <2> SUFFICES ASSUME NEW s \in Slots, fileAt'[s] # NoDir,
                        s # slotOf[to], s \notin refusals'
                 PROVE  \E b \in Commands : cwdAt'[b] = "switching" /\ s = slotOf[order[b].to]
        BY DEF NoOtherFile
    <2>1. s # slotOf[from] /\ fileAt[s] # NoDir
        BY <1>1 DEF CwdTypeOK
    <2>2. s # slotOf[here] /\ s \notin refusals
        BY <2>1
    <2>3. PICK b \in Commands : cwdAt[b] = "switching" /\ s = slotOf[order[b].to]
        BY <2>1, <2>2 DEF OneSessionFile, NoOtherFile
    <2>4. b # c
        BY <2>3
    <2> QED
        BY <2>3, <2>4 DEF CwdTypeOK
<1> QED
    BY <1>2, <1>3, <1>5, <1>7, <1>8, <1>9 DEF OneSessionFile

LEMMA CwdNextInv == CwdInv /\ [CwdNext]_cwdVars => CwdInv'
<1> SUFFICES ASSUME CwdInv, [CwdNext]_cwdVars PROVE CwdInv'
    OBVIOUS
<1>1. ASSUME NEW c \in Commands, NEW d \in Dirs, Cwd(c, d) PROVE CwdInv'
    BY <1>1, CwdStep
<1>2. ASSUME NEW c \in Commands, Build(c) \/ Refused(c) \/ Switched(c) PROVE CwdInv'
    BY <1>2, BuildStep, RefusedStep, SwitchedStep
<1>3. CASE UNCHANGED cwdVars
    BY <1>3 DEF cwdVars, CwdInv, CwdTypeOK, GoesAway, FreshIsHere, OneOrigin, CopyIsThere, OneSessionFile,
                HasItsFile, NoOtherFile, Distinct, Underway, Fresh
<1> QED
    BY <1>1, <1>2, <1>3 DEF CwdNext

\* However commands overlap, are vetoed or fail, the running session keeps its file and
\* leaves no other behind but what a veto or an overtaking left.
THEOREM SessionKeepsItsFile == CwdSpec => []OneSessionFile
<1>1. CwdInv => OneSessionFile
    BY DEF CwdInv
<1> QED
    BY CwdInitInv, CwdNextInv, <1>1, PTL DEF CwdSpec

-----------------------------------------------------------------------------
(***************************************************************************)
(* The rows of tool calls show the group they are in: for any number of    *)
(* calls, kinds and rows.                                                  *)
(*                                                                         *)
(* The argument: a row that pi has drawn and was not told to draw again    *)
(* shows what the plan says.  A new plan tells every such row it changes,  *)
(* but for calls without a row; those stand alone in the plan before and   *)
(* after, and a row goes only when everything is drawn anew.               *)
(***************************************************************************)

QuietSpec == QuietInit /\ [][QuietNext]_quietVars

RowsTyped == rows \in Seq([id : Calls \cup {Prose}, kind : Foldable \cup {Solo}, settled : BOOLEAN, ok : BOOLEAN])

RowlessStandAlone == \A c \in Calls : RowOf(rows, c) = {} => plan[c] = Single(c)

QuietInv == RowsTyped /\ drawn = [c \in Calls |-> drawn[c]] /\ RowlessStandAlone /\ DrawnIsCurrent

LEMMA PlanOfRowless ==
    ASSUME NEW s, NEW c \in Calls, RowOf(s, c) = {}
    PROVE  Plan(s)[c] = Single(c)
BY DEF Plan

\* Rows are only added or changed in place, and the plan is made again.
LEMMA ReplanStep ==
    ASSUME QuietInv, Replan, UNCHANGED drawn, RowsTyped',
           \A c \in Calls : RowOf(rows, c) # {} => RowOf(rows', c) # {}
    PROVE  QuietInv'
<1>1. \A c \in Calls : RowOf(rows', c) = {} => plan'[c] = Single(c)
  BY PlanOfRowless DEF Replan
<1>2. ASSUME NEW c \in Calls, drawn[c] # Undrawn, c \notin redraw'
      PROVE  /\ drawn[c].role = plan'[c].role
             /\ plan'[c].role = "carrier" => drawn[c].members = plan'[c].members
  <2>1. /\ drawn[c].role = plan[c].role
        /\ plan[c].role = "carrier" => drawn[c].members = plan[c].members
    BY <1>2 DEF QuietInv, DrawnIsCurrent, Replan
  <2>2. CASE RowOf(rows', c) = {}
    BY <1>1, <2>1, <2>2 DEF QuietInv, RowlessStandAlone
  <2>3. CASE RowOf(rows', c) # {}
    BY <1>2, <2>1, <2>3 DEF Replan, Repaint
  <2> QED
    BY <2>2, <2>3
<1> QED
  BY <1>1, <1>2 DEF QuietInv, RowlessStandAlone, DrawnIsCurrent

\* Rows that were added at the end, or changed in place, are rows of the calls they were.
LEMMA RowsStay ==
    ASSUME RowsTyped, NEW r \in [id : Calls \cup {Prose}, kind : Foldable \cup {Solo}, settled : BOOLEAN, ok : BOOLEAN],
           \/ rows' = Append(rows, r)
           \/ \E i \in 1..Len(rows) : rows[i].id = r.id /\ rows' = [rows EXCEPT ![i] = r]
    PROVE  RowsTyped' /\ \A c \in Calls : RowOf(rows, c) # {} => RowOf(rows', c) # {}
<1>1. CASE rows' = Append(rows, r)
  <2>1. RowsTyped'
    BY <1>1 DEF RowsTyped
  <2>2. Len(rows') = Len(rows) + 1 /\ \A i \in 1..Len(rows) : rows'[i] = rows[i]
    BY <1>1 DEF RowsTyped
  <2> QED
    BY <2>1, <2>2 DEF RowOf, RowsTyped
<1>2. ASSUME NEW i \in 1..Len(rows), rows[i].id = r.id, rows' = [rows EXCEPT ![i] = r]
      PROVE  RowsTyped' /\ \A c \in Calls : RowOf(rows, c) # {} => RowOf(rows', c) # {}
  <2>1. RowsTyped'
    BY <1>2 DEF RowsTyped
  <2>2. Len(rows') = Len(rows) /\ \A j \in 1..Len(rows) : rows'[j].id = rows[j].id
    BY <1>2 DEF RowsTyped
  <2> QED
    BY <2>1, <2>2 DEF RowOf
<1> QED
  BY <1>1, <1>2

LEMMA QuietStep == QuietInv /\ [QuietNext]_quietVars => QuietInv'
<1> SUFFICES ASSUME QuietInv, [QuietNext]_quietVars PROVE QuietInv'
  OBVIOUS
<1>1. ASSUME Message PROVE QuietInv'
  <2>1. Splitter \in [id : Calls \cup {Prose}, kind : Foldable \cup {Solo}, settled : BOOLEAN, ok : BOOLEAN]
    BY DEF Splitter
  <2> QED
    BY <1>1, <2>1, RowsStay, ReplanStep DEF Message, QuietInv
<1>2. ASSUME NEW c \in Calls, Start(c) PROVE QuietInv'
  <2>1. CASE RowOf(rows, c) = {}
    <3>1. PICK k \in Foldable \cup {Solo} : rows' = Append(rows, Row(c, k))
      BY <1>2, <2>1 DEF Start
    <3>2. Row(c, k) \in [id : Calls \cup {Prose}, kind : Foldable \cup {Solo}, settled : BOOLEAN, ok : BOOLEAN]
      BY DEF Row
    <3> QED
      BY <1>2, <3>1, <3>2, RowsStay, ReplanStep DEF Start, QuietInv
  <2>2. CASE RowOf(rows, c) # {}
    <3>1. rows' = rows /\ RowsTyped'
      BY <1>2, <2>2 DEF Start, QuietInv, RowsTyped
    <3> QED
      BY <1>2, <3>1, ReplanStep DEF Start
  <2> QED
    BY <2>1, <2>2
<1>3. ASSUME NEW c \in Calls, Settle(c) PROVE QuietInv'
  <2>1. PICK k \in Foldable \cup {Solo}, ok \in BOOLEAN :
            \/ \E i \in RowOf(rows, c) : rows' = [rows EXCEPT ![i] = SettledRow(c, k, ok)]
            \/ rows' = Append(rows, SettledRow(c, k, ok))
    BY <1>3 DEF Settle
  <2>2. /\ SettledRow(c, k, ok) \in [id : Calls \cup {Prose}, kind : Foldable \cup {Solo}, settled : BOOLEAN, ok : BOOLEAN]
        /\ SettledRow(c, k, ok).id = c
    BY DEF SettledRow
  <2>3. RowsTyped' /\ \A d \in Calls : RowOf(rows, d) # {} => RowOf(rows', d) # {}
    BY <2>1, <2>2, RowsStay DEF RowOf, QuietInv
  <2> QED
    BY <1>3, <2>3, ReplanStep DEF Settle
<1>4. ASSUME Rebuild PROVE QuietInv'
  <2>1. RowsTyped'
    <3>1. 1 \in Int /\ Len(rows) \in Int /\ Kept \in SUBSET (1..Len(rows))
      BY DEF Kept, QuietInv, RowsTyped
    <3>2. Cardinality(Kept) \in Nat
      <4>1. IsFiniteSet(1..Len(rows))
        BY <3>1, FS_Interval
      <4>2. IsFiniteSet(Kept)
        BY <3>1, <4>1, FS_Subset
      <4> QED
        BY <4>2, FS_CardinalityType
    <3>3. PICK q \in [1..Cardinality(Kept) -> Kept] : rows' = [i \in DOMAIN q |-> rows[q[i]]]
      BY <1>4 DEF Rebuild, Reloaded
    <3> DEFINE Rec == [id : Calls \cup {Prose}, kind : Foldable \cup {Solo}, settled : BOOLEAN, ok : BOOLEAN]
    <3>4. rows \in Seq(Rec)
      BY DEF QuietInv, RowsTyped
    <3>5. rows' = [i \in 1..Cardinality(Kept) |-> rows[q[i]]]
      BY <3>3
    <3> HIDE DEF Rec
    <3>6. \A i \in 1..Cardinality(Kept) : q[i] \in Kept
      BY <3>3
    <3>7. \A i \in 1..Cardinality(Kept) : q[i] \in 1..Len(rows)
      BY <3>1, <3>6
    <3>8. \A i \in 1..Cardinality(Kept) : rows[q[i]] \in Rec
      BY <3>4, <3>7
    <3>9. rows' \in Seq(Rec)
      BY <3>2, <3>8, <3>5
    <3> QED
      BY <3>9 DEF Rec, RowsTyped
  <2> QED
    BY <1>4, <2>1, PlanOfRowless DEF Rebuild, QuietInv, RowlessStandAlone, DrawnIsCurrent
<1>5. ASSUME NEW c \in Calls, Draw(c) PROVE QuietInv'
  BY <1>5 DEF Draw, QuietInv, RowsTyped, RowlessStandAlone, DrawnIsCurrent
<1>6. CASE UNCHANGED quietVars
  BY <1>6 DEF quietVars, QuietInv, RowsTyped, RowlessStandAlone, DrawnIsCurrent
<1> QED
  BY <1>1, <1>2, <1>3, <1>4, <1>5, <1>6 DEF QuietNext

\* What a row shows is what the plan says, or it was told to be drawn again
\* (CompactionIndex.replan), whatever tools start, settle and are reloaded in what order.
THEOREM RowsShowTheirGroup == QuietSpec => []DrawnIsCurrent
<1>1. QuietInit => QuietInv
  BY DEF QuietInit, QuietInv, RowsTyped, RowlessStandAlone, DrawnIsCurrent, Single
<1>2. QuietInv => DrawnIsCurrent
  BY DEF QuietInv
<1> QED
  BY <1>1, <1>2, QuietStep, PTL DEF QuietSpec

-----------------------------------------------------------------------------
(***************************************************************************)
(* A side chat asks before it writes where the main agent has written: for *)
(* any commands of the common form, however long, files and directories.   *)
(*                                                                         *)
(* The argument: what the extension finds in a common command is all that  *)
(* the command writes, for both agree on the word that is the command and  *)
(* on its operands.  What the main agent had written by the call is        *)
(* tracked, and a path of it is one the user has agreed to, is asked about *)
(* or is still to be looked at.                                            *)
(***************************************************************************)

LEMMA SmallestIs ==
    ASSUME NEW S \in SUBSET Nat, NEW m \in S, \A i \in S : m <= i
    PROVE  (CHOOSE i \in S : \A j \in S : i <= j) = m
<1>1. \A i \in S : (\A j \in S : i <= j) => i = m
  OBVIOUS
<1> QED
  BY <1>1

\* In a segment of a common command the words that are written are found, and none begins
\* with a dash.
LEMMA SegmentIsFound ==
    ASSUME NEW c, DOMAIN c \subseteq Nat, IsCommon(c), NEW segment \in Segments(c),
           NEW i \in OverwrittenIn(c, segment)
    PROVE  i \in FoundIn(c, segment) /\ c[i] \notin Dashed
<1> DEFINE words == WordsIn(c, segment)
           own == {j \in words : ~IsTarget(c, j)}
           name == CHOOSE j \in own : \A k \in own : j <= k
<1>1. words \in SUBSET Nat
  BY DEF WordsIn, Segments, Segment
<1>2. /\ \A j \in words \ own : c[j] \notin Dashed /\ \E k \in own : k < j
      /\ \A j, k \in own : k < j /\ c[j] \in Dashed => c[k] \in Dashed \ {"--"} \/ \A l \in own : k <= l
  BY DEF IsCommon
<1>3. CASE i \in words \ own
  <2>1. i \in {j \in words : IsTarget(c, j)}
    BY <1>3
  <2> QED
    BY <1>2, <1>3, <2>1 DEF FoundIn
<1>4. CASE i \notin words \ own
  <2>1. own # {} /\ i \in WrittenOf(c[name], {j \in own \ {name} :
            c[j] \in Dashed => \E k \in own \ {name} : k < j /\ c[k] = "--"})
    BY <1>4 DEF OverwrittenIn
  <2>2. PICK m \in own : \A j \in own : m <= j
    <3>1. own \in SUBSET Nat
      BY <1>1
    <3> HIDE DEF own
    <3> QED
      BY <2>1, <3>1, LeastOf
  <2>3. name = m
    BY <1>1, <2>2, SmallestIs
  <2>4. m \in words /\ \A j \in words : m <= j
    BY <1>1, <1>2, <2>2
  <2>5. (CHOOSE j \in words : \A k \in words : j <= k) = m
    BY <1>1, <2>4, SmallestIs
  <2> HIDE DEF name
  <2>6. {j \in own \ {m} : c[j] \in Dashed => \E k \in own \ {m} : k < j /\ c[k] = "--"}
          = {j \in own : j # m /\ c[j] \notin Dashed}
    BY <1>1, <1>2, <2>2
  <2>7. Operands(c, words, m) = {j \in own : j # m /\ c[j] \notin Dashed}
    BY <1>1, <1>2, <2>2 DEF Operands
  <2>8. i \in WrittenOf(c[m], Operands(c, words, m))
    BY <2>1, <2>3, <2>6, <2>7
  <2>9. i \in FoundIn(c, segment)
    BY <2>4, <2>5, <2>8 DEF FoundIn
  <2>10. i \in Operands(c, words, m)
    BY <2>8 DEF WrittenOf
  <2> QED
    BY <2>7, <2>9, <2>10
<1> QED
  BY <1>3, <1>4

LEMMA WritesAreFound ==
    ASSUME NEW c, DOMAIN c \subseteq Nat, IsCommon(c)
    PROVE  Overwrites(c) \subseteq Found(c)
BY SegmentIsFound DEF Overwrites, Found, Words

-----------------------------------------------------------------------------

\* What is left to look at covers what the call writes and the user was not asked about.
Covered ==
    \A p \in sideCall.writes :
        Resolved(SideCwd, p) \in before => p \in todo \cup question \cup agreed

OverlapInv ==
    /\ sideCall.writes \subseteq sideCall.found
    /\ wrote \subseteq tracked /\ before \subseteq wrote
    /\ sideAt \in {"none", "asked", "runs", "skipped"}
    /\ sideAt = "asked" => Covered
    /\ OverlapIsAsked

\* What a call writes is found in it.
LEMMA CallIsFound ==
    ASSUME NEW call, call.tool = "bash" => DOMAIN call.command \subseteq Nat /\ IsCommon(call.command)
    PROVE  Writes(call) \subseteq ExtractWritePaths(call)
BY WritesAreFound DEF Writes, ExtractWritePaths

LEMMA SideCallIsFound == \A call \in SideCalls : call.writes \subseteq call.found
<1> SUFFICES ASSUME NEW call \in SideTools PROVE Writes(call) \subseteq ExtractWritePaths(call)
  BY DEF SideCalls
<1>1. ASSUME call.tool = "bash" PROVE DOMAIN call.command \subseteq Nat /\ IsCommon(call.command)
  <2>1. call.command \in SideCommands
    BY <1>1 DEF SideTools
  <2> QED
    BY <2>1 DEF SideCommands
<1> QED
  BY <1>1, CallIsFound

\* The loop over paths that cover the rest.
LEMMA LookStep ==
    ASSUME OverlapInv, NEW paths, LookAt(paths), UNCHANGED <<tracked, wrote, sideCall>>,
           before' \subseteq wrote,
           \A p \in sideCall.writes :
               Resolved(SideCwd, p) \in before' => p \in paths \cup agreed'
    PROVE  OverlapInv'
<1>1. CASE sideAt' = "runs" /\ \A p \in paths : Resolved(SideCwd, p) \notin tracked
  BY <1>1 DEF OverlapInv, OverlapIsAsked
<1>2. ASSUME NEW p \in paths, NEW rest,
             {q \in paths : Resolved(SideCwd, q) \in tracked} \ {p} \subseteq rest,
             sideAt' = "asked" /\ question' = {p} /\ todo' = rest
      PROVE  OverlapInv'
  BY <1>2 DEF OverlapInv, OverlapIsAsked, Covered
<1> QED
  BY <1>1, <1>2 DEF LookAt

LEMMA OverlapStep == OverlapInv /\ [OverlapNext]_overlapVars => OverlapInv'
<1> SUFFICES ASSUME OverlapInv, [OverlapNext]_overlapVars PROVE OverlapInv'
  OBVIOUS
<1>1. ASSUME NEW call \in MainCalls, NEW cwd \in Cwds, MainStarts(call, cwd) PROVE OverlapInv'
  <2>1. Writes(call) \subseteq ExtractWritePaths(call)
    BY CallIsFound, MainAssumption
  <2>2. Files(cwd, Writes(call)) \subseteq Files(cwd, ExtractWritePaths(call))
    BY <2>1 DEF Files
  <2> QED
    BY <1>1, <2>2 DEF MainStarts, OverlapInv, OverlapIsAsked, Covered
<1>2. ASSUME SideExecutes PROVE OverlapInv'
  BY <1>2, LookStep DEF SideExecutes, OverlapInv
<1>3. ASSUME NEW proceed \in BOOLEAN, UserAnswers(proceed) PROVE OverlapInv'
  <2>1. CASE proceed
    BY <1>3, <2>1, LookStep DEF UserAnswers, OverlapInv, Covered
  <2>2. CASE ~proceed
    BY <1>3, <2>2 DEF UserAnswers, OverlapInv, OverlapIsAsked
  <2> QED
    BY <2>1, <2>2
<1>4. CASE UNCHANGED overlapVars
  BY <1>4 DEF overlapVars, OverlapInv, OverlapIsAsked, Covered
<1> QED
  BY <1>1, <1>2, <1>3, <1>4 DEF OverlapNext

\* A side agent's tool that runs writes nothing the main agent had begun to write before,
\* but what the user has agreed to (wrapTool), for all commands of the common form.
THEOREM OverlapsAreAsked == OverlapSpec => []OverlapIsAsked
<1>1. OverlapInit => OverlapInv
  BY SideCallIsFound DEF OverlapInit, OverlapInv, OverlapIsAsked
<1>2. OverlapInv => OverlapIsAsked
  BY DEF OverlapInv
<1> QED
  BY <1>1, <1>2, OverlapStep, PTL DEF OverlapSpec

-----------------------------------------------------------------------------
(***************************************************************************)
(* When a session is told to stop: for any number of calls, sessions and   *)
(* intents, and any limit.                                                 *)
(*                                                                         *)
(* The argument: a call counts in an object of its own session and intent, *)
(* which it got while nothing had reset the counter since that object was  *)
(* made, for a reset takes the object out of the session's reach.  A stop  *)
(* empties an object, and what it emptied is counted nowhere again.        *)
(***************************************************************************)

MermaidSpec == MermaidInit /\ [][MermaidNext]_mermaidVars

MermaidTypeOK ==
    /\ draftAt \in [Drafts -> {"idle", "probe", "render", "unavailable", "passed", "failed", "exhausted", "threw"}]
    /\ draftOf \in [Drafts -> Chats \X Intents]
    /\ counter \in [Chats -> Drafts \cup {NoDraft}]
    /\ held \in [Drafts -> Drafts \cup {NoDraft}]
    /\ failures \in [Drafts -> Seq(Drafts)]
    /\ seen \in [Drafts -> SUBSET Drafts]
    /\ blamed \in [Drafts -> SUBSET Drafts]

\* Nothing has reset the counter since the object of the session was made.
CounterIsFresh ==
    \A c \in Chats : counter[c] # NoDraft =>
        LET o == counter[c] IN draftAt[o] # "idle" /\ Chat(o) = c /\ Resets(o) = seen[o]

\* Two calls of one kind: of one session and intent, and nothing reset the counter between
\* their submissions.
Alike(d, e) == draftOf[d] = draftOf[e] /\ seen[d] = seen[e]
AlikeThen(d, e) == draftOf'[d] = draftOf'[e] /\ seen'[d] = seen'[e]

\* A call counts in an object of its own kind.
HeldIsOfKind ==
    \A d \in Drafts :
        /\ held[d] # NoDraft => draftAt[held[d]] # "idle" /\ Alike(held[d], d)
        /\ draftAt[d] \in {"render", "probe"} => held[d] # NoDraft

FailuresAreOfKind ==
    \A d \in Drafts : \A i \in 1..Len(failures[d]) :
        /\ draftAt[d] # "idle" /\ draftAt[failures[d][i]] = "failed"
        /\ Alike(failures[d][i], d)

CountedOnce ==
    \A o, p \in Drafts : \A i \in 1..Len(failures[o]), j \in 1..Len(failures[p]) :
        failures[o][i] = failures[p][j] => o = p /\ i = j

FewerThanMax == \A d \in Drafts : Len(failures[d]) < MaxFailures

Counted(d) == \E o \in Drafts : \E i \in 1..Len(failures[o]) : failures[o][i] = d

BlamedAreOfKind ==
    \A d \in Drafts :
        /\ draftAt[d] # "exhausted" => blamed[d] = {}
        /\ draftAt[d] = "exhausted" => d \in blamed[d] /\ Cardinality(blamed[d]) = MaxFailures
        /\ \A e \in blamed[d] : Alike(e, d) /\ (e = d \/ draftAt[e] = "failed")

BlamedOnce ==
    \A d \in Drafts :
        /\ \A e \in Drafts \ {d} : blamed[d] \cap blamed[e] = {}
        /\ \A e \in blamed[d] : ~Counted(e)

\* What is counted and what was blamed.
AccountInv == FailuresAreOfKind /\ CountedOnce /\ FewerThanMax /\ BlamedAreOfKind /\ BlamedOnce

MermaidInv == MermaidTypeOK /\ CounterIsFresh /\ HeldIsOfKind /\ AccountInv

-----------------------------------------------------------------------------

LEMMA MermaidInitInv == MermaidInit => MermaidInv
<1> SUFFICES ASSUME MermaidInit PROVE MermaidInv
    OBVIOUS
<1>1. \A d \in Drafts : /\ failures[d] = <<>> /\ Len(failures[d]) = 0 /\ draftAt[d] = "idle"
                        /\ held[d] = NoDraft /\ blamed[d] = {}
    BY DEF MermaidInit
<1>2. MermaidTypeOK
    BY DEF MermaidInit, MermaidTypeOK
<1>3. CounterIsFresh
    BY DEF MermaidInit, CounterIsFresh
<1>4. HeldIsOfKind /\ FailuresAreOfKind /\ CountedOnce /\ FewerThanMax
    BY <1>1, MermaidAssumption DEF HeldIsOfKind, FailuresAreOfKind, CountedOnce, FewerThanMax
<1>5. BlamedAreOfKind /\ BlamedOnce
    BY <1>1 DEF BlamedAreOfKind, BlamedOnce
<1> QED
    BY <1>2, <1>3, <1>4, <1>5 DEF MermaidInv, AccountInv

\* What a step leaves alone of the history of the calls that began.
SeenStays == \A e \in Drafts : draftAt[e] # "idle" => seen'[e] = seen[e]

\* Where no failure is counted, the account stays as it is.
LEMMA NothingCounted ==
    ASSUME MermaidInv, NEW d \in Drafts, draftAt[d] \in {"idle", "probe", "render"},
           NEW s \in {"probe", "render", "unavailable", "passed", "threw"}, Goes(d, s),
           SeenStays, UNCHANGED <<draftOf, failures, blamed>>
    PROVE  AccountInv'
<1>1. \A e \in Drafts : /\ draftAt'[e] = "failed" <=> draftAt[e] = "failed"
                        /\ draftAt'[e] = "exhausted" <=> draftAt[e] = "exhausted"
                        /\ draftAt[e] # "idle" => draftAt'[e] # "idle"
    BY DEF MermaidInv, MermaidTypeOK, Goes
<1>2. \A e, f \in Drafts : draftAt[e] # "idle" /\ draftAt[f] # "idle" /\ Alike(e, f) => AlikeThen(e, f)
    BY DEF SeenStays, Alike, AlikeThen
<1>3. \A e \in Drafts : \A i \in 1..Len(failures[e]) : failures[e][i] \in Drafts
    BY DEF MermaidInv, MermaidTypeOK
<1>4. FailuresAreOfKind'
    <2> SUFFICES ASSUME NEW e \in Drafts, NEW i \in 1..Len(failures[e])
                 PROVE  /\ draftAt'[e] # "idle" /\ draftAt'[failures[e][i]] = "failed"
                        /\ AlikeThen(failures[e][i], e)
        BY DEF FailuresAreOfKind, Alike, AlikeThen
    <2>1. failures[e][i] \in Drafts /\ draftAt[e] # "idle" /\ draftAt[failures[e][i]] = "failed"
          /\ Alike(failures[e][i], e)
        BY <1>3 DEF MermaidInv, AccountInv, FailuresAreOfKind
    <2> QED
        BY <1>1, <1>2, <2>1
<1>5. CountedOnce' /\ FewerThanMax'
    BY DEF MermaidInv, AccountInv, CountedOnce, FewerThanMax
<1>6. BlamedAreOfKind'
    <2>1. \A e \in Drafts : /\ draftAt'[e] # "exhausted" => blamed'[e] = {}
                            /\ draftAt'[e] = "exhausted" => e \in blamed'[e] /\ Cardinality(blamed'[e]) = MaxFailures
        BY <1>1 DEF MermaidInv, AccountInv, BlamedAreOfKind
    <2>2. ASSUME NEW e \in Drafts, NEW f \in blamed[e]
          PROVE  AlikeThen(f, e) /\ (f = e \/ draftAt'[f] = "failed")
        <3>1. f \in Drafts /\ draftAt[e] = "exhausted" /\ Alike(f, e) /\ (f = e \/ draftAt[f] = "failed")
            BY <2>2 DEF MermaidInv, MermaidTypeOK, AccountInv, BlamedAreOfKind
        <3> QED
            BY <1>1, <1>2, <3>1
    <2> QED
        BY <2>1, <2>2 DEF BlamedAreOfKind, Alike, AlikeThen
<1>7. BlamedOnce'
    BY DEF MermaidInv, AccountInv, BlamedOnce, Counted
<1> QED
    BY <1>4, <1>5, <1>6, <1>7 DEF AccountInv

\* The failures of an object are as many as it has places.
LEMMA FailuresOfObject ==
    ASSUME MermaidInv, NEW o \in Drafts
    PROVE  LET C == {failures[o][i] : i \in 1..Len(failures[o])}
           IN  C \subseteq Drafts /\ IsFiniteSet(C) /\ Cardinality(C) = Len(failures[o])
<1> DEFINE f == failures[o]
           n == Len(f)
           C == {f[i] : i \in 1..n}
<1>1. f \in Seq(Drafts) /\ n \in Nat /\ f = [i \in 1..n |-> f[i]]
    BY DEF MermaidInv, MermaidTypeOK
<1>2. \A i, j \in 1..n : f[i] = f[j] => i = j
    BY DEF MermaidInv, AccountInv, CountedOnce
<1> HIDE DEF f
<1>3. IsFiniteSet(1..n) /\ Cardinality(1..n) = n
    <2>1. 1 \in Int /\ n \in Int /\ (IF 1 > n THEN 0 ELSE n - 1 + 1) = n
        BY <1>1
    <2> HIDE DEF n
    <2> QED
        BY <2>1, FS_Interval
<1>4. f \in Bijection(1..n, C)
    BY <1>1, <1>2 DEF Bijection, Injection, Surjection, IsInjective
<1>5. ExistsBijection(1..n, C)
    BY <1>4 DEF ExistsBijection
<1>6. IsFiniteSet(C) /\ Cardinality(C) = n
    BY <1>3, <1>5, FS_Bijection
<1> QED
    BY <1>1, <1>6 DEF f

LEMMA FailureCounted ==
    ASSUME MermaidInv, NEW d \in Drafts, draftAt[d] \in {"idle", "render"}, Count(d),
           SeenStays, UNCHANGED draftOf, held'[d] \in Drafts, AlikeThen(held'[d], d),
           draftAt[held'[d]] # "idle" \/ held'[d] = d
    PROVE  failures' \in [Drafts -> Seq(Drafts)] /\ blamed' \in [Drafts -> SUBSET Drafts] /\ AccountInv'
<1> DEFINE o == held'[d]
           all == Append(failures[o], d)
           n == Len(failures[o])
           C == {failures[o][i] : i \in 1..n}
<1>1. /\ failures[o] \in Seq(Drafts) /\ n \in Nat /\ n < MaxFailures /\ MaxFailures \in Nat
      /\ all \in Seq(Drafts) /\ Len(all) = n + 1 /\ all[n + 1] = d
      /\ \A i \in 1..n : all[i] = failures[o][i]
    BY MermaidAssumption DEF MermaidInv, MermaidTypeOK, AccountInv, FewerThanMax
<1>2. ~Counted(d) /\ blamed[d] = {} /\ \A e \in Drafts : d \notin blamed[e]
    BY DEF Counted, MermaidInv, AccountInv, FailuresAreOfKind, BlamedAreOfKind
<1>3. C \subseteq Drafts /\ IsFiniteSet(C) /\ Cardinality(C) = n
    BY FailuresOfObject
<1>4. \A e, f \in Drafts : draftAt[e] # "idle" /\ draftAt[f] # "idle" /\ Alike(e, f) => AlikeThen(e, f)
    BY DEF SeenStays, Alike, AlikeThen
\* The failures of this object are like the call, for they are like the object.
<1>5. \A e \in C : AlikeThen(e, d) /\ draftAt[e] = "failed" /\ Counted(e) /\ e # d
    <2> SUFFICES ASSUME NEW i \in 1..n
                 PROVE  LET e == failures[o][i] IN AlikeThen(e, d) /\ draftAt[e] = "failed" /\ Counted(e) /\ e # d
        OBVIOUS
    <2>1. /\ failures[o][i] \in Drafts /\ Counted(failures[o][i]) /\ draftAt[o] # "idle"
          /\ draftAt[failures[o][i]] = "failed" /\ Alike(failures[o][i], o)
        BY <1>1 DEF MermaidInv, AccountInv, FailuresAreOfKind, Counted
    <2>2. AlikeThen(failures[o][i], o)
        BY <1>4, <2>1 DEF Alike, AlikeThen
    <2> QED
        BY <1>2, <2>1, <2>2 DEF Alike, AlikeThen
<1>6. PICK s \in {"failed", "exhausted"} : draftAt' = [draftAt EXCEPT ![d] = s]
    BY DEF Count
<1>7. draftAt'[d] = s /\ \A e \in Drafts \ {d} : draftAt'[e] = draftAt[e]
    BY <1>6 DEF MermaidInv, MermaidTypeOK
\* What was blamed before is as it was.
<1>8. \A e \in Drafts : \A f \in blamed[e] :
        e # d /\ f # d /\ f \in Drafts /\ draftAt[e] = "exhausted" /\ AlikeThen(f, e) /\ (f = e \/ draftAt'[f] = "failed")
    <2> SUFFICES ASSUME NEW e \in Drafts, NEW f \in blamed[e]
                 PROVE  e # d /\ f # d /\ f \in Drafts /\ draftAt[e] = "exhausted" /\ AlikeThen(f, e) /\ (f = e \/ draftAt'[f] = "failed")
        OBVIOUS
    <2>1. f \in Drafts /\ draftAt[e] = "exhausted" /\ Alike(f, e) /\ (f = e \/ draftAt[f] = "failed")
        BY DEF MermaidInv, MermaidTypeOK, AccountInv, BlamedAreOfKind
    <2>2. e # d /\ f # d
        BY <1>2
    <2>3. AlikeThen(f, e)
        BY <1>4, <2>1
    <2> QED
        BY <1>7, <2>1, <2>2, <2>3
<1>9. CASE Len(all) < MaxFailures
    <2>1. failures' = [failures EXCEPT ![o] = all] /\ draftAt'[d] = "failed" /\ UNCHANGED blamed
        BY <1>7, <1>9 DEF Count, MermaidInv, MermaidTypeOK
    <2>2. failures'[o] = all /\ \A e \in Drafts \ {o} : failures'[e] = failures[e]
        BY <2>1 DEF MermaidInv, MermaidTypeOK
    <2>3. failures' \in [Drafts -> Seq(Drafts)] /\ blamed' \in [Drafts -> SUBSET Drafts]
        BY <1>1, <2>1 DEF MermaidInv, MermaidTypeOK
    <2> HIDE DEF o, all, C
    \* An entry is one of before, or that of this call.
    <2>4. \A e \in Drafts : \A i \in 1..Len(failures'[e]) :
            \/ i \in 1..Len(failures[e]) /\ failures'[e][i] = failures[e][i] /\ failures'[e][i] # d
            \/ e = o /\ i = n + 1 /\ failures'[e][i] = d
        BY <1>1, <1>2, <2>2 DEF Counted
    <2>5. FailuresAreOfKind'
        <3> SUFFICES ASSUME NEW e \in Drafts, NEW i \in 1..Len(failures'[e])
                     PROVE  draftAt'[e] # "idle" /\ draftAt'[failures'[e][i]] = "failed" /\ AlikeThen(failures'[e][i], e)
            BY DEF FailuresAreOfKind, Alike, AlikeThen
        <3>1. CASE i \in 1..Len(failures[e]) /\ failures'[e][i] = failures[e][i] /\ failures'[e][i] # d
            <4>1. /\ failures[e][i] \in Drafts /\ draftAt[e] # "idle" /\ draftAt[failures[e][i]] = "failed"
                  /\ Alike(failures[e][i], e)
                BY <3>1 DEF MermaidInv, MermaidTypeOK, AccountInv, FailuresAreOfKind
            <4>2. AlikeThen(failures[e][i], e)
                BY <1>4, <4>1 DEF Alike, AlikeThen
            <4> QED
                BY <1>7, <2>1, <3>1, <4>1, <4>2 DEF Alike, AlikeThen
        <3>2. CASE e = o /\ i = n + 1 /\ failures'[e][i] = d
            <4>1. draftAt'[o] # "idle" /\ AlikeThen(d, o)
                BY <1>7, <2>1 DEF o, Alike, AlikeThen
            <4> QED
                BY <2>1, <3>2, <4>1 DEF Alike, AlikeThen
        <3> QED
            BY <2>4, <3>1, <3>2
    <2>6. CountedOnce'
        <3> SUFFICES ASSUME NEW e \in Drafts, NEW p \in Drafts,
                            NEW i \in 1..Len(failures'[e]), NEW j \in 1..Len(failures'[p]),
                            failures'[e][i] = failures'[p][j]
                     PROVE  e = p /\ i = j
            BY DEF CountedOnce
        <3>1. \/ i \in 1..Len(failures[e]) /\ failures'[e][i] = failures[e][i] /\ failures'[e][i] # d
              \/ e = o /\ i = n + 1 /\ failures'[e][i] = d
            BY <2>4
        <3>2. \/ j \in 1..Len(failures[p]) /\ failures'[p][j] = failures[p][j] /\ failures'[p][j] # d
              \/ p = o /\ j = n + 1 /\ failures'[p][j] = d
            BY <2>4
        <3> QED
            BY <3>1, <3>2 DEF MermaidInv, AccountInv, CountedOnce
    <2>7. FewerThanMax'
        BY <1>9, <2>2 DEF MermaidInv, AccountInv, FewerThanMax
    <2>8. BlamedAreOfKind'
        <3>1. \A e \in Drafts : /\ draftAt'[e] # "exhausted" => blamed'[e] = {}
                                /\ draftAt'[e] = "exhausted" => e \in blamed'[e] /\ Cardinality(blamed'[e]) = MaxFailures
            BY <1>2, <1>7, <2>1 DEF MermaidInv, AccountInv, BlamedAreOfKind
        <3> QED
            BY <1>8, <2>1, <3>1 DEF BlamedAreOfKind, Alike, AlikeThen
    <2>9. BlamedOnce'
        <3>1. \A e \in Drafts : Counted(e)' => Counted(e) \/ e = d
            BY <2>4 DEF Counted
        <3>2. \A e \in Drafts : \A f \in blamed[e] : ~Counted(f)'
            BY <1>8, <3>1 DEF MermaidInv, AccountInv, BlamedOnce
        <3> QED
            BY <2>1, <3>2 DEF MermaidInv, AccountInv, BlamedOnce, Counted
    <2> QED
        BY <2>3, <2>5, <2>6, <2>7, <2>8, <2>9 DEF AccountInv
<1>10. CASE ~(Len(all) < MaxFailures)
    <2> DEFINE B == {all[i] : i \in 1..Len(all)}
    <2>1. /\ failures' = [failures EXCEPT ![o] = <<>>] /\ blamed' = [blamed EXCEPT ![d] = B]
          /\ draftAt'[d] = "exhausted"
        BY <1>7, <1>10 DEF Count, MermaidInv, MermaidTypeOK
    <2>2. /\ failures'[o] = <<>> /\ Len(failures'[o]) = 0
          /\ \A e \in Drafts \ {o} : failures'[e] = failures[e]
        BY <2>1 DEF MermaidInv, MermaidTypeOK
    <2>3. n = MaxFailures - 1
        BY <1>1, <1>10
    <2>4. B = C \cup {d}
        <3>1. 1..Len(all) = (1..n) \cup {n + 1}
            BY <1>1
        <3> HIDE DEF all
        <3> QED
            BY <1>1, <3>1
    <2> HIDE DEF B
    <2>5. blamed'[d] = C \cup {d} /\ \A e \in Drafts \ {d} : blamed'[e] = blamed[e]
        BY <2>1, <2>4 DEF MermaidInv, MermaidTypeOK
    <2>6. failures' \in [Drafts -> Seq(Drafts)] /\ blamed' \in [Drafts -> SUBSET Drafts]
        BY <1>3, <2>1, <2>4 DEF MermaidInv, MermaidTypeOK
    <2>7. Cardinality(C \cup {d}) = MaxFailures
        <3>1. d \notin C
            BY <1>5
        <3> HIDE DEF C
        <3>2. Cardinality(C \cup {d}) = Cardinality(C) + 1
            BY <1>3, <3>1, FS_AddElement
        <3> QED
            BY <1>1, <1>3, <2>3, <3>2
    \* No longer counted: what the object had.
    <2>8. \A e \in Drafts : Counted(e)' => Counted(e) /\ e \notin C
        BY <2>2 DEF Counted, MermaidInv, AccountInv, CountedOnce
    <2> HIDE DEF o, all, C
    <2>9. FailuresAreOfKind'
        <3> SUFFICES ASSUME NEW e \in Drafts, NEW i \in 1..Len(failures'[e])
                     PROVE  draftAt'[e] # "idle" /\ draftAt'[failures'[e][i]] = "failed" /\ AlikeThen(failures'[e][i], e)
            BY DEF FailuresAreOfKind, Alike, AlikeThen
        <3>1. e # o /\ failures'[e] = failures[e]
            BY <2>2
        <3>2. /\ failures[e][i] \in Drafts /\ failures[e][i] # d /\ draftAt[e] # "idle"
              /\ draftAt[failures[e][i]] = "failed" /\ Alike(failures[e][i], e)
            BY <1>2, <3>1 DEF MermaidInv, MermaidTypeOK, AccountInv, FailuresAreOfKind, Counted
        <3>3. AlikeThen(failures[e][i], e)
            BY <1>4, <3>2 DEF Alike, AlikeThen
        <3> QED
            BY <1>7, <2>1, <3>1, <3>2, <3>3 DEF Alike, AlikeThen
    <2>10. CountedOnce' /\ FewerThanMax'
        <3>1. \A e \in Drafts : Len(failures'[e]) = 0 \/ failures'[e] = failures[e]
            BY <2>2
        <3>2. CountedOnce'
            BY <3>1 DEF MermaidInv, AccountInv, CountedOnce
        <3>3. 0 < MaxFailures
            BY MermaidAssumption
        <3> QED
            BY <3>1, <3>2, <3>3 DEF MermaidInv, AccountInv, FewerThanMax
    <2>11. BlamedAreOfKind'
        <3>1. ASSUME NEW e \in Drafts
              PROVE  /\ draftAt'[e] # "exhausted" => blamed'[e] = {}
                     /\ draftAt'[e] = "exhausted" => e \in blamed'[e] /\ Cardinality(blamed'[e]) = MaxFailures
            <4>1. CASE e = d
                <5>1. d \in blamed'[d] /\ Cardinality(blamed'[d]) = MaxFailures
                    BY <2>5, <2>7
                <5> QED
                    BY <2>1, <4>1, <5>1
            <4>2. CASE e # d
                <5>1. draftAt'[e] = draftAt[e] /\ blamed'[e] = blamed[e]
                    BY <1>7, <2>5, <4>2
                <5> QED
                    BY <5>1 DEF MermaidInv, AccountInv, BlamedAreOfKind
            <4> QED
                BY <4>1, <4>2
        <3>2. ASSUME NEW e \in Drafts, NEW f \in blamed'[e]
              PROVE  AlikeThen(f, e) /\ (f = e \/ draftAt'[f] = "failed")
            <4>1. CASE e = d /\ f = d
                BY <4>1 DEF Alike, AlikeThen
            <4>2. CASE e = d /\ f \in C
                BY <1>3, <1>5, <1>7, <4>2 DEF Alike, AlikeThen
            <4>3. CASE e # d
                BY <1>8, <2>5, <3>2, <4>3 DEF Alike, AlikeThen
            <4> QED
                BY <2>5, <3>2, <4>1, <4>2, <4>3
        <3> QED
            BY <3>1, <3>2 DEF BlamedAreOfKind, Alike, AlikeThen
    <2>12. BlamedOnce'
        <3>1. \A e \in Drafts : blamed[e] \cap C = {} /\ d \notin blamed[e]
            BY <1>2, <1>5 DEF MermaidInv, AccountInv, BlamedOnce
        <3>2. \A e, f \in Drafts : e # f => blamed'[e] \cap blamed'[f] = {}
            BY <2>5, <3>1 DEF MermaidInv, AccountInv, BlamedOnce
        <3>3. ASSUME NEW e \in Drafts, NEW f \in blamed'[e] PROVE ~Counted(f)'
            <4>1. f \in C \/ f = d \/ f \in blamed[e]
                BY <2>5, <3>3
            <4>2. f \in Drafts
                BY <2>6, <3>3
            <4> QED
                BY <1>2, <2>8, <4>1, <4>2 DEF MermaidInv, AccountInv, BlamedOnce
        <3> QED
            BY <3>2, <3>3 DEF BlamedOnce, Counted
    <2> QED
        BY <2>6, <2>9, <2>10, <2>11, <2>12 DEF AccountInv
<1> QED
    BY <1>9, <1>10

\* The resets of a session are those of before, but for a pass or another intent.
LEMMA ResetsStay ==
    ASSUME MermaidInv, NEW d \in Drafts, draftAt[d] \in {"idle", "probe", "render"},
           NEW s, s # "idle", Goes(d, s), UNCHANGED draftOf, NEW e \in Drafts,
           Chat(e) = Chat(d) => s # "passed" /\ (draftAt[d] = "idle" => draftOf[d] = draftOf[e])
    PROVE  Resets(e)' = Resets(e)
<1>1. \A f \in Drafts : Chat(f)' = Chat(f)
    BY DEF Chat
<1>2. draftAt'[d] = s /\ \A f \in Drafts \ {d} : draftAt'[f] = draftAt[f]
    BY DEF Goes, MermaidInv, MermaidTypeOK
<1> QED
    BY <1>1, <1>2 DEF Resets

\* A call that begins has an object of its kind, which is the session's.
LEMMA TakeStep ==
    ASSUME MermaidInv, NEW d \in Drafts, Take(d), draftAt[d] = "idle", UNCHANGED draftOf,
           NEW s, s \notin {"idle", "passed"}, Goes(d, s), seen' = [seen EXCEPT ![d] = Resets(d)]
    PROVE  /\ held' \in [Drafts -> Drafts \cup {NoDraft}] /\ counter' \in [Chats -> Drafts \cup {NoDraft}]
           /\ seen' \in [Drafts -> SUBSET Drafts] /\ SeenStays
           /\ held'[d] \in Drafts /\ AlikeThen(held'[d], d) /\ (draftAt[held'[d]] # "idle" \/ held'[d] = d)
           /\ CounterIsFresh' /\ HeldIsOfKind'
<1> DEFINE c == Chat(d)
<1>1. c \in Chats /\ counter[c] \in Drafts \cup {NoDraft}
    BY DEF Chat, MermaidInv, MermaidTypeOK
<1>2. /\ held' \in [Drafts -> Drafts \cup {NoDraft}] /\ counter' \in [Chats -> Drafts \cup {NoDraft}]
      /\ \A b \in Chats \ {c} : counter'[b] = counter[b]
    BY <1>1 DEF Take, MermaidInv, MermaidTypeOK
<1>3. /\ held'[d] \in Drafts /\ counter'[c] = held'[d] /\ draftOf[held'[d]] = draftOf[d]
      /\ (held'[d] = d \/ held'[d] = counter[c])
      /\ \A e \in Drafts \ {d} : held'[e] = held[e]
    BY <1>1 DEF Take, MermaidInv, MermaidTypeOK
<1>4. seen'[d] = Resets(d) /\ Resets(d) \subseteq Drafts /\ \A e \in Drafts \ {d} : seen'[e] = seen[e]
    BY DEF Resets, MermaidInv, MermaidTypeOK
<1>5. seen' \in [Drafts -> SUBSET Drafts] /\ SeenStays
    BY <1>4 DEF SeenStays, MermaidInv, MermaidTypeOK
<1>6. draftAt'[d] = s /\ \A e \in Drafts \ {d} : draftAt'[e] = draftAt[e]
    BY DEF Goes, MermaidInv, MermaidTypeOK
<1>7. \A e \in Drafts : Chat(e)' = Chat(e) /\ (draftOf[e] = draftOf[d] => Resets(e) = Resets(d))
    BY DEF Chat, Resets
<1>8. seen'[held'[d]] = Resets(d) /\ (draftAt[held'[d]] # "idle" \/ held'[d] = d)
    <2>1. CASE held'[d] = d
        BY <1>4, <2>1
    <2>2. CASE held'[d] # d /\ held'[d] = counter[c]
        <3>1. counter[c] # NoDraft
            BY <1>3, <2>2, MermaidAssumption
        <3>2. draftAt[held'[d]] # "idle" /\ Resets(held'[d]) = seen[held'[d]]
            BY <1>1, <2>2, <3>1 DEF MermaidInv, CounterIsFresh
        <3> QED
            BY <1>3, <1>4, <1>7, <2>2, <3>2
    <2> QED
        BY <1>3, <2>1, <2>2
<1>9. AlikeThen(held'[d], d)
    BY <1>3, <1>4, <1>8 DEF Alike, AlikeThen
<1>10. CounterIsFresh'
    <2> SUFFICES ASSUME NEW b \in Chats, NEW o \in Drafts, o = counter'[b]
                 PROVE  draftAt'[o] # "idle" /\ Chat(o)' = b /\ Resets(o)' = seen'[o]
        BY <1>2 DEF CounterIsFresh, Chat, Resets
    <2>1. CASE b = c
        <3>1. o = held'[d] /\ o \in Drafts /\ draftOf[o] = draftOf[d]
            BY <1>3, <2>1
        <3>2. Chat(o) = c /\ draftAt'[o] # "idle"
            BY <1>6, <1>8, <3>1 DEF Chat
        <3>3. Resets(o)' = Resets(o)
            BY <3>1, ResetsStay
        <3> QED
            BY <1>7, <1>8, <2>1, <3>1, <3>2, <3>3
    <2>2. CASE b # c
        <3>1. o = counter[b] /\ o # NoDraft
            BY <1>2, <2>2, MermaidAssumption
        <3>2. draftAt[o] # "idle" /\ Chat(o) = b /\ Resets(o) = seen[o]
            BY <3>1 DEF MermaidInv, CounterIsFresh
        <3>3. Resets(o)' = Resets(o)
            BY <2>2, <3>1, <3>2, ResetsStay
        <3> QED
            BY <1>4, <1>6, <1>7, <3>1, <3>2, <3>3
    <2> QED
        BY <2>1, <2>2
<1>11. HeldIsOfKind'
    <2> SUFFICES ASSUME NEW e \in Drafts
                 PROVE  /\ held'[e] # NoDraft => draftAt'[held'[e]] # "idle" /\ AlikeThen(held'[e], e)
                        /\ draftAt'[e] \in {"render", "probe"} => held'[e] # NoDraft
        BY DEF HeldIsOfKind, Alike, AlikeThen
    <2>1. CASE e = d
        BY <1>3, <1>6, <1>8, <1>9, <2>1, MermaidAssumption DEF Alike, AlikeThen
    <2>2. CASE e # d
        <3>1. held'[e] = held[e] /\ draftAt'[e] = draftAt[e] /\ seen'[e] = seen[e]
            BY <1>3, <1>4, <1>6, <2>2
        <3>2. draftAt[e] \in {"render", "probe"} => held[e] # NoDraft
            BY DEF MermaidInv, HeldIsOfKind
        <3>3. ASSUME held[e] # NoDraft PROVE draftAt'[held[e]] # "idle" /\ AlikeThen(held[e], e)
            <4>1. held[e] \in Drafts /\ draftAt[held[e]] # "idle" /\ Alike(held[e], e)
                BY <3>3 DEF MermaidInv, MermaidTypeOK, HeldIsOfKind
            <4>2. held[e] # d
                BY <4>1
            <4> QED
                BY <1>4, <1>6, <3>1, <4>1, <4>2 DEF Alike, AlikeThen
        <3> QED
            BY <3>1, <3>2, <3>3 DEF Alike, AlikeThen
    <2> QED
        BY <2>1, <2>2
<1> QED
    BY <1>2, <1>3, <1>5, <1>8, <1>9, <1>10, <1>11

\* A call that has begun goes on: the objects stay where they are, but that a pass takes its
\* session's away.
LEMMA RunningStep ==
    ASSUME MermaidInv, NEW d \in Drafts, draftAt[d] \in {"probe", "render"}, NEW s, s # "idle", Goes(d, s),
           UNCHANGED <<draftOf, held, seen>>, counter' \in [Chats -> Drafts \cup {NoDraft}],
           \A c \in Chats : counter'[c] \in {counter[c], NoDraft},
           s = "passed" => counter'[Chat(d)] = NoDraft
    PROVE  CounterIsFresh' /\ HeldIsOfKind' /\ SeenStays
<1>1. draftAt'[d] = s /\ \A e \in Drafts \ {d} : draftAt'[e] = draftAt[e]
    BY DEF Goes, MermaidInv, MermaidTypeOK
<1>2. \A e \in Drafts : Chat(e)' = Chat(e) /\ \A f \in Drafts : AlikeThen(e, f) <=> Alike(e, f)
    BY DEF Chat, Alike, AlikeThen
<1>3. CounterIsFresh'
    <2> SUFFICES ASSUME NEW c \in Chats, NEW o \in Drafts, o = counter'[c]
                 PROVE  draftAt'[o] # "idle" /\ Chat(o)' = c /\ Resets(o)' = seen'[o]
        BY DEF CounterIsFresh, Chat, Resets
    <2>1. o = counter[c] /\ o # NoDraft
        BY MermaidAssumption
    <2>2. draftAt[o] # "idle" /\ Chat(o) = c /\ Resets(o) = seen[o]
        BY <2>1 DEF MermaidInv, CounterIsFresh
    <2>3. Chat(o) = Chat(d) => s # "passed"
        BY <2>2, MermaidAssumption
    <2>4. Resets(o)' = Resets(o)
        BY <2>2, <2>3, ResetsStay
    <2> QED
        BY <1>1, <1>2, <2>1, <2>2, <2>4
<1>4. HeldIsOfKind'
    <2> SUFFICES ASSUME NEW e \in Drafts
                 PROVE  /\ held'[e] # NoDraft => draftAt'[held'[e]] # "idle" /\ AlikeThen(held'[e], e)
                        /\ draftAt'[e] \in {"render", "probe"} => held'[e] # NoDraft
        BY DEF HeldIsOfKind, Alike, AlikeThen
    <2>1. /\ held[e] # NoDraft => held[e] \in Drafts /\ draftAt[held[e]] # "idle" /\ Alike(held[e], e)
          /\ draftAt[e] \in {"render", "probe"} => held[e] # NoDraft
          /\ draftAt[d] \in {"render", "probe"} => held[d] # NoDraft
        BY DEF MermaidInv, MermaidTypeOK, HeldIsOfKind
    <2> QED
        BY <1>1, <2>1 DEF Alike, AlikeThen
<1> QED
    BY <1>3, <1>4 DEF SeenStays

LEMMA MermaidStep == MermaidInv /\ [MermaidNext]_mermaidVars => MermaidInv'
<1> SUFFICES ASSUME MermaidInv, [MermaidNext]_mermaidVars PROVE MermaidInv'
    OBVIOUS
<1> DEFINE Quiet == {"probe", "render", "unavailable", "passed", "threw"}
<1>1. ASSUME NEW d \in Drafts, NEW s, Goes(d, s), s \in Quiet \cup {"failed", "exhausted"},
             held' \in [Drafts -> Drafts \cup {NoDraft}], counter' \in [Chats -> Drafts \cup {NoDraft}],
             seen' \in [Drafts -> SUBSET Drafts], failures' \in [Drafts -> Seq(Drafts)],
             blamed' \in [Drafts -> SUBSET Drafts], UNCHANGED draftOf
      PROVE  MermaidTypeOK'
    <2>1. draftAt' \in [Drafts -> {"idle", "probe", "render", "unavailable", "passed", "failed", "exhausted", "threw"}]
        BY <1>1 DEF Goes, MermaidInv, MermaidTypeOK
    <2> QED
        BY <1>1, <2>1 DEF MermaidInv, MermaidTypeOK
<1>2. ASSUME NEW d \in Drafts, Count(d) PROVE \E s \in {"failed", "exhausted"} : Goes(d, s)
    BY <1>2 DEF Count, Goes
<1>3. /\ held \in [Drafts -> Drafts \cup {NoDraft}] /\ counter \in [Chats -> Drafts \cup {NoDraft}]
      /\ failures \in [Drafts -> Seq(Drafts)] /\ blamed \in [Drafts -> SUBSET Drafts]
      /\ seen \in [Drafts -> SUBSET Drafts]
    BY DEF MermaidInv, MermaidTypeOK
<1>4. ASSUME NEW d \in Drafts, Submit(d) PROVE MermaidInv'
    <2>1. draftAt[d] = "idle" /\ UNCHANGED draftOf /\ Take(d) /\ seen' = [seen EXCEPT ![d] = Resets(d)]
        BY <1>4 DEF Submit
    <2>2. CASE Count(d)
        <3>1. PICK s \in {"failed", "exhausted"} : Goes(d, s)
            BY <1>2, <2>2
        <3>2. /\ held' \in [Drafts -> Drafts \cup {NoDraft}] /\ counter' \in [Chats -> Drafts \cup {NoDraft}]
              /\ seen' \in [Drafts -> SUBSET Drafts] /\ SeenStays
              /\ held'[d] \in Drafts /\ AlikeThen(held'[d], d) /\ (draftAt[held'[d]] # "idle" \/ held'[d] = d)
              /\ CounterIsFresh' /\ HeldIsOfKind'
            BY <2>1, <3>1, TakeStep
        <3>3. failures' \in [Drafts -> Seq(Drafts)] /\ blamed' \in [Drafts -> SUBSET Drafts] /\ AccountInv'
            BY <2>1, <2>2, <3>2, FailureCounted
        <3> QED
            BY <1>1, <2>1, <3>1, <3>2, <3>3 DEF MermaidInv
    <2>3. ASSUME UNCHANGED <<failures, blamed>>, NEW s \in {"probe", "render", "unavailable"}, Goes(d, s)
          PROVE  MermaidInv'
        <3>1. /\ held' \in [Drafts -> Drafts \cup {NoDraft}] /\ counter' \in [Chats -> Drafts \cup {NoDraft}]
              /\ seen' \in [Drafts -> SUBSET Drafts] /\ SeenStays /\ CounterIsFresh' /\ HeldIsOfKind'
            BY <2>1, <2>3, TakeStep
        <3>2. AccountInv'
            BY <2>1, <2>3, <3>1, NothingCounted
        <3> QED
            BY <1>1, <1>3, <2>1, <2>3, <3>1, <3>2 DEF MermaidInv
    <2> QED
        BY <1>4, <2>2, <2>3 DEF Submit
<1>5. ASSUME NEW d \in Drafts, Probed(d) \/ Throw(d) \/ Pass(d) PROVE MermaidInv'
    <2>1. draftAt[d] \in {"probe", "render"} /\ UNCHANGED <<draftOf, held, failures, seen, blamed>>
        BY <1>5 DEF Probed, Throw, Pass
    <2>2. PICK s \in Quiet : Goes(d, s) /\ (s = "passed" => Pass(d))
        BY <1>5 DEF Probed, Throw, Pass
    <2>3. Chat(d) \in Chats
        BY DEF Chat, MermaidInv, MermaidTypeOK
    <2>4. /\ counter' \in [Chats -> Drafts \cup {NoDraft}]
          /\ \A c \in Chats : counter'[c] \in {counter[c], NoDraft}
          /\ Pass(d) => counter'[Chat(d)] = NoDraft
        BY <1>3, <1>5, <2>3 DEF Probed, Throw, Pass
    <2>5. CounterIsFresh' /\ HeldIsOfKind' /\ SeenStays
        BY <2>1, <2>2, <2>4, RunningStep
    <2>6. AccountInv'
        BY <2>1, <2>2, <2>5, NothingCounted
    <2> QED
        BY <1>1, <1>3, <2>1, <2>2, <2>4, <2>5, <2>6 DEF MermaidInv
<1>6. ASSUME NEW d \in Drafts, Fail(d) PROVE MermaidInv'
    <2>1. draftAt[d] = "render" /\ Count(d) /\ UNCHANGED <<held, draftOf, counter, seen>>
        BY <1>6 DEF Fail
    <2>2. PICK s \in {"failed", "exhausted"} : Goes(d, s)
        BY <1>2, <2>1
    <2>3. CounterIsFresh' /\ HeldIsOfKind' /\ SeenStays
        BY <1>3, <2>1, <2>2, RunningStep
    <2>4. held[d] \in Drafts /\ draftAt[held[d]] # "idle" /\ Alike(held[d], d)
        BY <1>3, <2>1 DEF MermaidInv, HeldIsOfKind
    <2>5. AlikeThen(held'[d], d)
        BY <2>1, <2>4 DEF Alike, AlikeThen
    <2>6. failures' \in [Drafts -> Seq(Drafts)] /\ blamed' \in [Drafts -> SUBSET Drafts] /\ AccountInv'
        BY <2>1, <2>3, <2>4, <2>5, FailureCounted
    <2> QED
        BY <1>1, <1>3, <2>1, <2>2, <2>3, <2>6 DEF MermaidInv
<1>7. CASE UNCHANGED mermaidVars
    <2>1. UNCHANGED <<draftAt, draftOf, counter, held, failures, seen, blamed>>
        BY <1>7 DEF mermaidVars
    <2>2. MermaidTypeOK' /\ CounterIsFresh' /\ HeldIsOfKind'
        BY <2>1 DEF MermaidInv, MermaidTypeOK, CounterIsFresh, HeldIsOfKind, Alike, AlikeThen, Resets, Chat
    <2>3. FailuresAreOfKind' /\ CountedOnce' /\ FewerThanMax'
        BY <2>1 DEF MermaidInv, AccountInv, FailuresAreOfKind, CountedOnce, FewerThanMax, Alike, AlikeThen
    <2>4. BlamedAreOfKind' /\ BlamedOnce'
        BY <2>1 DEF MermaidInv, AccountInv, BlamedAreOfKind, BlamedOnce, Alike, AlikeThen, Counted
    <2> QED
        BY <2>2, <2>3, <2>4 DEF MermaidInv, AccountInv
<1> QED
    BY <1>4, <1>5, <1>6, <1>7 DEF MermaidNext

\* "Stop" is said for MaxFailures failures that belong together, however the calls run side
\* by side and replace the counter under each other: of one session and intent, submitted
\* with no reset between them, and none of which another stop was said for.
THEOREM StopsAreForThree == MermaidSpec => []ExhaustedAfterThree
<1>1. MermaidInv => ExhaustedAfterThree
    BY DEF MermaidInv, AccountInv, BlamedAreOfKind, BlamedOnce, Alike, AlikeThen, ExhaustedAfterThree
<1> QED
    BY MermaidInitInv, MermaidStep, <1>1, PTL DEF MermaidSpec

-----------------------------------------------------------------------------
(***************************************************************************)
(* The choice of a scope, for any packages, tools and names.               *)
(*                                                                         *)
(* The argument: whatever has the wanted name as a part scores, so that a  *)
(* scope with such a name is a candidate, and for the name of a tool the   *)
(* first of the packages that have it.  With one candidate, that is it.    *)
(***************************************************************************)

ScopeName == Seq(Nat) \ {Missing}

\* What the scripts can be called with: finitely many packages and scopes, tools that are
\* files of packages, a name for each, and any argument.
ScopeInputIs ==
    /\ IsFiniteSet(packages \cup cross)
    /\ packages \subseteq ScopeName /\ cross \subseteq ScopeName /\ wanted \in Seq(Nat)
    /\ \A p \in packages : tools[p] \subseteq ScopeName

ScopeSpec == ScopeInputIs /\ scopeAt = "asked" /\ scope = Missing /\ [][ScopeNext]_scopeVars

ScopeInv == ScopeInputIs /\ (scopeAt = "guessing" => tty) /\ NoSilentGuess

LEMMA HighestOf ==
    ASSUME NEW S \in SUBSET Nat, S # {}, NEW b \in Nat, \A k \in S : k <= b
    PROVE  Highest(S) \in S /\ \A k \in S : k <= Highest(S)
BY LargestOf DEF Highest

LEMMA Quotient == ASSUME NEW a \in Nat, NEW c \in Nat \ {0} PROVE a \div c \in Nat /\ a \div c <= a
OBVIOUS

\* Every score is a number with one bound, and a name that has another in it scores well.
LEMMA ScoreIs ==
    ASSUME NEW n \in Seq(Nat), NEW c \in ScopeName
    PROVE  /\ Score(n, c) \in Nat /\ Score(n, c) <= 100 + 10 * Len(n)
           /\ Within(n, c) => Score(n, c) >= 85
<1>1. Len(n) \in Nat /\ Len(c) \in Nat \ {0}
    BY DEF ScopeName, Missing
<1>2. n = c => Within(n, c)
    <2> SUFFICES ASSUME n = c PROVE Within(n, n)
        OBVIOUS
    <2>1. SubSeq(n, 0 + 1, 0 + Len(n)) = n /\ 0 \in 0..Len(n) /\ 0 + Len(n) <= Len(n)
        BY <1>1 DEF ScopeName
    <2> QED
        BY <2>1 DEF Within
<1>3. CASE n = c
    <2>1. Score(n, c) = 100
        BY <1>2, <1>3 DEF Score
    <2> QED
        BY <1>1, <2>1
<1>4. CASE n # c /\ Within(n, c)
    <2>1. Score(n, c) = 85
        BY <1>4 DEF Score
    <2> QED
        BY <1>1, <2>1
<1>5. CASE ~Within(n, c)
    <2> DEFINE q == (10 * Len(n)) \div Len(c)
    <2>1. q \in Nat /\ q <= 10 * Len(n)
        <3>1. 10 * Len(n) \in Nat
            BY <1>1
        <3> QED
            BY <1>1, <3>1, Quotient
    <2>2. Score(n, c) \in {50 + q, 0}
        BY <1>2, <1>5 DEF Score
    <2> HIDE DEF q
    <2> QED
        BY <1>1, <1>5, <2>1, <2>2
<1> QED
    BY <1>3, <1>4, <1>5

\* Names are in a strict and total order.
LEMMA BeforeIsStrict == ASSUME NEW m \in Seq(Nat) PROVE ~Before(m, m)
BY DEF Before

LEMMA BeforeIsTransitive ==
    ASSUME NEW a \in Seq(Nat), NEW b \in Seq(Nat), NEW c \in Seq(Nat), Before(a, b), Before(b, c)
    PROVE  Before(a, c)
<1>1. PICK k \in 1..Len(b) : /\ k <= Len(a) + 1 /\ \A i \in 1..k - 1 : a[i] = b[i]
                             /\ k <= Len(a) => a[k] < b[k]
    BY DEF Before
<1>2. PICK l \in 1..Len(c) : /\ l <= Len(b) + 1 /\ \A i \in 1..l - 1 : b[i] = c[i]
                             /\ l <= Len(b) => b[l] < c[l]
    BY DEF Before
<1>3. /\ Len(a) \in Nat /\ Len(b) \in Nat /\ Len(c) \in Nat
      /\ (\A i \in 1..Len(a) : a[i] \in Nat) /\ (\A i \in 1..Len(b) : b[i] \in Nat)
      /\ \A i \in 1..Len(c) : c[i] \in Nat
    OBVIOUS
<1>4. CASE k < l
    <2>1. k \in 1..Len(c) /\ b[k] = c[k] /\ \A i \in 1..k - 1 : a[i] = c[i]
        BY <1>1, <1>2, <1>3, <1>4
    <2> QED
        BY <1>1, <2>1 DEF Before
<1>5. CASE l < k
    <2>1. l \in 1..Len(c) /\ l <= Len(a) + 1 /\ l <= Len(b) /\ \A i \in 1..l - 1 : a[i] = c[i]
        BY <1>1, <1>2, <1>3, <1>5
    <2>2. l <= Len(a) => a[l] < c[l]
        BY <1>1, <1>2, <1>3, <1>5, <2>1
    <2> QED
        BY <2>1, <2>2 DEF Before
<1>6. CASE k = l
    <2>1. l \in 1..Len(c) /\ l <= Len(a) + 1 /\ \A i \in 1..l - 1 : a[i] = c[i]
        BY <1>1, <1>2, <1>3, <1>6
    <2>2. l <= Len(a) => a[l] < c[l]
        <3>1. ASSUME NEW x \in Nat, NEW y \in Nat, NEW z \in Nat, x < y, y < z PROVE x < z
            BY <3>1
        <3>2. l <= Len(a) => /\ a[l] \in Nat /\ b[l] \in Nat /\ c[l] \in Nat
                             /\ a[l] < b[l] /\ b[l] < c[l]
            BY <1>1, <1>2, <1>3, <1>6
        <3> QED
            BY <3>1, <3>2
    <2> QED
        BY <2>1, <2>2 DEF Before
<1> QED
    BY <1>1, <1>2, <1>4, <1>5, <1>6

LEMMA BeforeIsTotal ==
    ASSUME NEW m \in Seq(Nat), NEW n \in Seq(Nat), m # n
    PROVE  Before(m, n) \/ Before(n, m)
<1>1. /\ Len(m) \in Nat /\ Len(n) \in Nat
      /\ (\A i \in 1..Len(m) : m[i] \in Nat) /\ (\A i \in 1..Len(n) : n[i] \in Nat)
    OBVIOUS
<1> DEFINE D == {i \in Nat : i \in 1..Len(m) /\ i \in 1..Len(n) /\ m[i] # n[i]}
<1>2. CASE D = {}
    <2>1. \A i \in 1..Len(m) : i \in 1..Len(n) => m[i] = n[i]
        BY <1>2
    <2>2. Len(m) # Len(n)
        <3> SUFFICES ASSUME Len(m) = Len(n) PROVE FALSE
            OBVIOUS
        <3>1. \A i \in 1..Len(m) : m[i] = n[i]
            BY <2>1
        <3> QED
            BY <3>1
    <2>3. CASE Len(m) < Len(n)
        <3>1. /\ Len(m) + 1 \in 1..Len(n) /\ ~(Len(m) + 1 <= Len(m))
              /\ \A i \in 1..(Len(m) + 1) - 1 : m[i] = n[i]
            BY <1>1, <2>1, <2>3
        <3> QED
            BY <3>1 DEF Before
    <2>4. CASE Len(n) < Len(m)
        <3>1. /\ Len(n) + 1 \in 1..Len(m) /\ ~(Len(n) + 1 <= Len(n))
              /\ \A i \in 1..(Len(n) + 1) - 1 : n[i] = m[i]
            BY <1>1, <2>1, <2>4
        <3> QED
            BY <3>1 DEF Before
    <2> QED
        BY <1>1, <2>2, <2>3, <2>4
<1>3. CASE D # {}
    <2>1. PICK k \in D : \A i \in D : k <= i
        BY <1>3, LeastOf
    <2>2. /\ k \in 1..Len(m) /\ k \in 1..Len(n) /\ m[k] \in Nat /\ n[k] \in Nat
          /\ k <= Len(m) + 1 /\ k <= Len(n) + 1 /\ (m[k] < n[k] \/ n[k] < m[k])
        BY <1>1, <2>1
    <2>3. \A i \in 1..k - 1 : m[i] = n[i]
        <3> SUFFICES ASSUME NEW i \in 1..k - 1, m[i] # n[i] PROVE FALSE
            OBVIOUS
        <3>1. i \in D /\ ~(k <= i)
            BY <2>2
        <3> QED
            BY <2>1, <3>1
    <2> QED
        BY <2>2, <2>3 DEF Before
<1> QED
    BY <1>2, <1>3

\* Finitely many names have a first: one with the fewest before it.
LEMMA FirstName ==
    ASSUME NEW S \in SUBSET Seq(Nat), IsFiniteSet(S), S # {}
    PROVE  \E m \in S : \A x \in S \ {m} : Before(m, x)
<1> DEFINE Earlier(m) == {x \in S : Before(x, m)}
           N == {Cardinality(Earlier(m)) : m \in S}
<1>1. \A m \in S : IsFiniteSet(Earlier(m)) /\ Cardinality(Earlier(m)) \in Nat
    <2> TAKE m \in S
    <2>1. Earlier(m) \in SUBSET S
        OBVIOUS
    <2> HIDE DEF Earlier
    <2> QED
        BY <2>1, FS_Subset, FS_CardinalityType
<1>2. PICK n \in N : \A k \in N : n <= k
    <2>1. N \in SUBSET Nat /\ N # {}
        BY <1>1
    <2> HIDE DEF N
    <2> QED
        BY <2>1, LeastOf
<1>3. PICK m \in S : n = Cardinality(Earlier(m))
    OBVIOUS
<1>4. \A x \in S : ~Before(x, m)
    <2> SUFFICES ASSUME NEW x \in S, Before(x, m) PROVE FALSE
        OBVIOUS
    <2>1. x \in Earlier(m) /\ Earlier(x) \subseteq Earlier(m) \ {x}
        BY BeforeIsStrict, BeforeIsTransitive
    <2>2. n <= Cardinality(Earlier(x))
        BY <1>2
    <2> HIDE DEF Earlier, N
    <2>3. IsFiniteSet(Earlier(m) \ {x}) /\ Cardinality(Earlier(m) \ {x}) = Cardinality(Earlier(m)) - 1
        BY <1>1, <2>1, FS_RemoveElement
    <2>4. Cardinality(Earlier(x)) <= Cardinality(Earlier(m) \ {x})
        BY <2>1, <2>3, FS_Subset
    <2>5. Cardinality(Earlier(x)) \in Nat /\ n \in Nat
        BY <1>1, <1>3
    <2> QED
        BY <1>3, <2>2, <2>3, <2>4, <2>5
<1> QED
    BY <1>4, BeforeIsTotal

\* A tool that packages have counts for one of them.
LEMMA ToolHasPackage ==
    ASSUME ScopeInputIs, NEW s \in packages, NEW t \in tools[s]
    PROVE  \E p \in packages : t \in ToolsOf(p)
<1> DEFINE S == {p \in packages : t \in tools[p]}
<1>1. S \in SUBSET Seq(Nat) /\ IsFiniteSet(S) /\ S # {}
    <2>1. S \in SUBSET (packages \cup cross) /\ S \in SUBSET Seq(Nat) /\ s \in S
        BY DEF ScopeInputIs, ScopeName
    <2> HIDE DEF S
    <2> QED
        BY <2>1, FS_Subset DEF ScopeInputIs
<1>2. PICK p \in S : \A x \in S \ {p} : Before(p, x)
    <2> HIDE DEF S
    <2> QED
        BY <1>1, FirstName
<1> QED
    BY <1>2 DEF ToolsOf

\* A scope is ranked at least as high as any of its names resembles the one that is wanted.
LEMMA RankIs ==
    ASSUME ScopeInputIs, NEW s \in Known,
           Within(wanted, s) \/ (s \in packages /\ \E t \in ToolsOf(s) : Within(wanted, t))
    PROVE  s \in Candidates
<1> DEFINE Scores == {Score(wanted, s)} \cup
             IF s \in packages THEN UNION {{Score(wanted, t), Score(wanted, t \o Ts)} : t \in ToolsOf(s)} ELSE {}
           b == 100 + 10 * Len(wanted)
<1>1. s \in ScopeName /\ wanted \in Seq(Nat) /\ b \in Nat
    BY DEF ScopeInputIs, Known, ScopeName
<1>2. ASSUME NEW t \in ScopeName PROVE t \o Ts \in ScopeName
    BY <1>2 DEF ScopeName, Ts, Missing
<1>3. \A t \in ScopeName : /\ Score(wanted, t) \in Nat /\ Score(wanted, t) <= b
                           /\ Within(wanted, t) => Score(wanted, t) >= 85
    BY <1>1, ScoreIs
<1> HIDE DEF b
<1>4. \A x \in Scores : \E t \in ScopeName : x = Score(wanted, t)
    <2> SUFFICES ASSUME NEW x \in Scores PROVE \E t \in ScopeName : x = Score(wanted, t)
        OBVIOUS
    <2>1. CASE x = Score(wanted, s)
        BY <1>1, <2>1
    <2>2. CASE s \in packages /\ \E t \in ToolsOf(s) : x \in {Score(wanted, t), Score(wanted, t \o Ts)}
        BY <1>2, <2>2 DEF ScopeInputIs, ToolsOf
    <2> QED
        BY <2>1, <2>2
<1>5. \E x \in Scores : x >= 85
    <2>1. CASE Within(wanted, s)
        BY <1>1, <1>3, <2>1
    <2>2. ASSUME s \in packages, NEW t \in ToolsOf(s), Within(wanted, t) PROVE \E x \in Scores : x >= 85
        <3>1. t \in ScopeName
            BY <2>2 DEF ScopeInputIs, ToolsOf
        <3> QED
            BY <1>3, <2>2, <3>1
    <2> QED
        BY <2>1, <2>2
<1>6. Rank(s) = Highest(Scores)
    BY DEF Rank
<1> HIDE DEF Scores
<1>7. Scores \in SUBSET Nat /\ Scores # {} /\ \A x \in Scores : x <= b
    BY <1>3, <1>4, <1>5
<1>8. Highest(Scores) \in Scores /\ \A x \in Scores : x <= Highest(Scores)
    BY <1>1, <1>7, HighestOf
<1>9. Rank(s) >= 50
    <2>1. PICK x \in Scores : x >= 85
        BY <1>5
    <2>2. x \in Nat /\ Highest(Scores) \in Nat /\ x <= Highest(Scores)
        BY <1>7, <1>8
    <2> QED
        BY <1>6, <2>1, <2>2
<1> QED
    BY <1>9 DEF Candidates

\* t is no scope that was meant rather than s: what NoSilentGuess says of the others.
Yields(t, s) ==
    /\ ~Within(wanted, t)
    /\ t \in packages => \A u \in tools[t] : Within(wanted, u) => s \in packages /\ u \in tools[s]

LEMMA ScopeStep == ScopeInv /\ [ScopeNext]_scopeVars => ScopeInv'
<1> SUFFICES ASSUME ScopeInv, [ScopeNext]_scopeVars PROVE ScopeInv'
    OBVIOUS
<1>1. ASSUME UNCHANGED scopeInput PROVE ScopeInputIs'
    BY <1>1 DEF ScopeInv, ScopeInputIs, scopeInput
<1>2. ASSUME UNCHANGED scopeInput, scopeAt' \in {"guessing", "failed"}, scopeAt' = "guessing" => tty
      PROVE  ScopeInv'
    BY <1>1, <1>2 DEF ScopeInv, NoSilentGuess, scopeInput
<1>3. ASSUME NEW s, Takes(s), ~tty => s \in Known,
             ~tty /\ s # wanted => assent /\ \A t \in Known \ {s} : Yields(t, s)
      PROVE  ScopeInv'
    <2>1. UNCHANGED <<packages, tools, cross, wanted, assent, tty>> /\ scopeAt' = "chosen" /\ scope' = s
        BY <1>3 DEF Takes, scopeInput
    <2>2. Known' = Known
        BY <2>1 DEF Known
    <2>3. NoSilentGuess'
        BY <1>3, <2>1, <2>2 DEF NoSilentGuess, Within, Yields
    <2> QED
        BY <1>1, <2>1, <2>3 DEF ScopeInv, scopeInput
<1>4. CASE Choose
    <2>1. CASE wanted \in Known /\ Takes(wanted)
        BY <1>3, <2>1
    <2>2. ASSUME ~tty, NEW s \in Settled, Takes(s) PROVE ScopeInv'
        <3>1. assent /\ Cardinality(Candidates) = 1 /\ s \in Candidates
            BY <2>2 DEF Settled
        <3>2. Candidates \in SUBSET Known
            BY DEF Candidates
        <3>3. IsFiniteSet(Candidates)
            <4>1. IsFiniteSet(Known)
                BY DEF ScopeInv, ScopeInputIs, Known
            <4> QED
                BY <3>2, <4>1, FS_Subset
        <3>4. PICK x : Candidates = {x}
            BY <3>1, <3>3, FS_Singleton
        <3>5. ASSUME NEW t \in Known \ {s} PROVE Yields(t, s)
            <4>1. t \notin Candidates
                BY <3>1, <3>4
            <4>2. ~Within(wanted, t)
                BY <4>1, RankIs DEF ScopeInv
            <4>3. ASSUME t \in packages, NEW u \in tools[t], Within(wanted, u)
                  PROVE  s \in packages /\ u \in tools[s]
                <5>1. PICK p \in packages : u \in ToolsOf(p)
                    BY <4>3, ToolHasPackage DEF ScopeInv
                <5>2. p \in Candidates
                    BY <4>3, <5>1, RankIs DEF ScopeInv, Known
                <5> QED
                    BY <3>1, <3>4, <5>1, <5>2 DEF ToolsOf
            <4> QED
                BY <4>2, <4>3 DEF Yields
        <3> QED
            BY <1>3, <2>2, <3>1, <3>2, <3>5
    <2>3. CASE tty /\ Without("guessing")
        BY <1>2, <2>3 DEF Without
    <2>4. CASE Without("failed")
        BY <1>2, <2>4 DEF Without
    <2> QED
        BY <1>4, <2>1, <2>2, <2>3, <2>4 DEF Choose
<1>5. CASE Confirm
    <2>1. tty
        BY <1>5 DEF Confirm, ScopeInv
    <2>2. ASSUME NEW s, Takes(s) PROVE ScopeInv'
        BY <1>3, <2>1, <2>2
    <2>3. CASE Without("failed")
        BY <1>2, <2>3 DEF Without
    <2> QED
        BY <1>5, <2>2, <2>3 DEF Confirm
<1>6. CASE UNCHANGED scopeVars
    <2>1. UNCHANGED <<packages, tools, cross, wanted, assent, tty, scopeAt, scope>>
        BY <1>6 DEF scopeVars, scopeInput
    <2>2. NoSilentGuess'
        BY <2>1 DEF ScopeInv, NoSilentGuess, Known, Within
    <2> QED
        BY <1>1, <2>1, <2>2 DEF ScopeInv, scopeInput
<1> QED
    BY <1>4, <1>5, <1>6 DEF ScopeNext

\* A commit or a release that nobody can be asked about goes to the scope that was named, or,
\* with -y, to one beside which no other has the name as a part of its own or of a tool's,
\* unless the chosen package has that tool's name too: for any packages, tools and names.
THEOREM GuessesAreConfirmed == ScopeSpec => []NoSilentGuess
<1>1. ScopeInputIs /\ scopeAt = "asked" => ScopeInv
    BY DEF ScopeInv, NoSilentGuess
<1>2. ScopeInv => NoSilentGuess
    BY DEF ScopeInv
<1> QED
    BY <1>1, <1>2, ScopeStep, PTL DEF ScopeSpec

-----------------------------------------------------------------------------
(***************************************************************************)
(* What a side chat is told of the main conversation: for conversations of *)
(* any length, with any number of calls.                                   *)
(*                                                                         *)
(* The argument: in the main conversation the answers to a message come    *)
(* right after it, so only the last message with calls can lack some.  The *)
(* cut keeps that form, and gives the last message what it lacks.          *)
(***************************************************************************)

ForkSpec == ForkInit /\ [][ForkNext]_forkVars

\* The messages there can be: the main conversation's and those that are made up.
CallIds == 1..MaxCalls
Messages == {Prompt} \cup {Assistant(C) : C \in SUBSET CallIds}
              \cup {Result(c) : c \in CallIds} \cup {Synthesized(c) : c \in CallIds}

\* A message with calls, and the places its answers belong to.
IsAnswer(m) == m.role \in {"result", "running"}
Turns(t) == {i \in 1..Len(t) : t[i].role = "assistant"}
Wanted(t, i) == Cardinality(t[i].calls)
GroupOf(t, i) == i + 1..i + Wanted(t, i)

\* The answers to a message come right after it, once each, though some may be missing.
History(t) ==
    /\ t \in Seq(Messages)
    /\ \A i \in Turns(t), j \in 1..Len(t) :
          j \in GroupOf(t, i) => IsAnswer(t[j]) /\ t[j].calls \subseteq t[i].calls
    /\ \A j \in 1..Len(t) : IsAnswer(t[j]) => \E i \in Turns(t) : j \in GroupOf(t, i)
    /\ \A i, j \in 1..Len(t) : IsAnswer(t[i]) /\ IsAnswer(t[j]) /\ i # j => t[i].calls # t[j].calls
    /\ \A i, j \in Turns(t) : i # j => t[i].calls \cap t[j].calls = {}

\* None is missing.
Complete(t) == \A i \in Turns(t) : i + Wanted(t, i) <= Len(t)

\* The main conversation is such a history, in which some answers may be missing and none
\* is made up; its calls are numbered.
ForkInv ==
    /\ History(log) /\ \A i \in 1..Len(log) : log[i].role # "running"
    /\ CallsOf(log) = 1..Cardinality(CallsOf(log)) /\ IsFiniteSet(CallsOf(log))
    /\ CiteIsLegal

LEMMA MessageIs ==
    ASSUME NEW m \in Messages
    PROVE  /\ m.calls \in SUBSET CallIds /\ IsFiniteSet(m.calls) /\ Cardinality(m.calls) \in Nat
           /\ m.role \in {"user", "assistant", "result", "running"}
           /\ m.role = "user" => m = Prompt /\ m.calls = {}
           /\ m.role = "result" => \E c \in CallIds : m = Result(c)
           /\ IsAnswer(m) => \E c \in CallIds : m.calls = {c}
<1>1. /\ m.calls \in SUBSET CallIds
      /\ m.role \in {"user", "assistant", "result", "running"}
      /\ m.role = "user" => m = Prompt /\ m.calls = {}
      /\ m.role = "result" => \E c \in CallIds : m = Result(c)
      /\ IsAnswer(m) => \E c \in CallIds : m.calls = {c}
  BY DEF Messages, Prompt, Assistant, Result, Synthesized, IsAnswer
<1>2. IsFiniteSet(CallIds)
  BY ForkAssumption, FirstNumbers DEF CallIds
<1> QED
  BY <1>1, <1>2, FS_Subset, FS_CardinalityType

\* What is answered of the calls of a message.
AnsweredOf(t, i) == t[i].calls \cap Answered(t)

\* As many calls of a message are answered as there are places for it.
LEMMA AnswersCount ==
    ASSUME NEW t, History(t), NEW i \in Turns(t)
    PROVE  /\ i + Wanted(t, i) <= Len(t) => t[i].calls \subseteq Answered(t)
           /\ i + Wanted(t, i) > Len(t) => Cardinality(AnsweredOf(t, i)) = Len(t) - i
<1> DEFINE n == Wanted(t, i)
           m == IF i + n <= Len(t) THEN n ELSE Len(t) - i
           D == AnsweredOf(t, i)
           f == [k \in 1..m |-> CHOOSE c \in CallIds : t[i + k].calls = {c}]
<1>1. /\ t \in Seq(Messages) /\ Len(t) \in Nat /\ i \in 1..Len(t) /\ t[i] \in Messages
      /\ n \in Nat /\ m \in Nat /\ m <= n
      /\ IsFiniteSet(t[i].calls)
  <2>1. t \in Seq(Messages) /\ i \in 1..Len(t)
    BY DEF History, Turns
  <2>2. t[i] \in Messages /\ Len(t) \in Nat
    BY <2>1
  <2>3. n \in Nat /\ IsFiniteSet(t[i].calls)
    BY <2>2, MessageIs DEF Wanted
  <2> HIDE DEF n
  <2> QED
    BY <2>1, <2>2, <2>3
<1>2. \A k \in 1..m : i + k \in 1..Len(t) /\ i + k \in GroupOf(t, i)
  <2> HIDE DEF n
  <2>1. \A k \in 1..m : i + k \in 1..Len(t) /\ i + k \in i + 1..i + n
    BY <1>1
  <2> QED
    BY <2>1 DEF n, GroupOf
<1> HIDE DEF n, m
<1>3. ASSUME NEW k \in 1..m
      PROVE  /\ f[k] \in CallIds /\ t[i + k].calls = {f[k]}
             /\ IsAnswer(t[i + k]) /\ f[k] \in D
  <2>1. i + k \in 1..Len(t) /\ IsAnswer(t[i + k]) /\ t[i + k].calls \subseteq t[i].calls
    BY <1>2 DEF History
  <2>2. t[i + k] \in Messages
    BY <1>1, <2>1
  <2>3. \E c \in CallIds : t[i + k].calls = {c}
    BY <2>1, <2>2, MessageIs
  <2>4. f[k] \in CallIds /\ t[i + k].calls = {f[k]}
    BY <2>3
  <2> HIDE DEF f
  <2>5. f[k] \in Answered(t)
    BY <2>1, <2>4 DEF Answered, IsAnswer
  <2> QED
    BY <2>1, <2>4, <2>5 DEF AnsweredOf
<1>4. f \in [1..m -> D]
  <2>1. f = [k \in 1..m |-> f[k]]
    OBVIOUS
  <2> HIDE DEF f, D
  <2> QED
    BY <1>3, <2>1
<1>5. ASSUME NEW k \in 1..m, NEW l \in 1..m, f[k] = f[l] PROVE k = l
  <2> HIDE DEF f
  <2>1. i + k \in 1..Len(t) /\ i + l \in 1..Len(t) /\ t[i + k].calls = t[i + l].calls
    BY <1>2, <1>3, <1>5
  <2>2. i + k = i + l
    BY <1>3, <2>1 DEF History
  <2> QED
    BY <1>1, <2>2
<1>6. ASSUME NEW c \in D PROVE \E k \in 1..m : f[k] = c
  <2>1. c \in t[i].calls /\ c \in Answered(t)
    BY DEF AnsweredOf
  <2>2. PICK j \in 1..Len(t) : IsAnswer(t[j]) /\ c \in t[j].calls
    BY <2>1 DEF Answered, IsAnswer
  <2>3. PICK a \in Turns(t) : j \in GroupOf(t, a)
    BY <2>2 DEF History
  <2>4. c \in t[a].calls
    BY <2>2, <2>3 DEF History
  <2>5. a = i
    BY <2>1, <2>4 DEF History
  <2>6. j \in i + 1..i + n
    BY <2>3, <2>5 DEF GroupOf, n
  <2>7. j - i \in 1..m /\ i + (j - i) = j
    BY <1>1, <2>6 DEF m
  <2> HIDE DEF f
  <2>8. t[j].calls = {f[j - i]}
    BY <1>3, <2>7
  <2> QED
    BY <2>2, <2>7, <2>8
<1>7. D \in SUBSET t[i].calls
  BY DEF AnsweredOf
<1>8. IsFiniteSet(D) /\ Cardinality(D) \in Nat
  <2> HIDE DEF D
  <2> QED
    BY <1>1, <1>7, FS_Subset, FS_CardinalityType
<1>9. Cardinality(D) = m
  <2> HIDE DEF f, D
  <2>1. f \in Bijection(1..m, D)
    BY <1>4, <1>5, <1>6 DEF Bijection, Injection, Surjection, IsInjective
  <2>2. IsFiniteSet(1..m) /\ Cardinality(1..m) = m
    BY <1>1, FirstNumbers
  <2>3. ExistsBijection(1..m, D)
    BY <2>1 DEF ExistsBijection
  <2> QED
    BY <2>2, <2>3, FS_Bijection
<1>10. ASSUME i + n <= Len(t) PROVE t[i].calls \subseteq Answered(t)
  <2>1. Cardinality(D) = Cardinality(t[i].calls)
    BY <1>9, <1>10 DEF m, n, Wanted
  <2> HIDE DEF D
  <2>2. t[i].calls = D
    BY <1>1, <1>7, <2>1, FS_Subset
  <2> QED
    BY <2>2 DEF D, AnsweredOf
<1>11. i + n > Len(t) => Cardinality(D) = Len(t) - i
  BY <1>1, <1>9 DEF m
<1> QED
  BY <1>10, <1>11 DEF n

\* Only the last message with calls may miss answers.
LEMMA OpenIsLast ==
    ASSUME NEW t, History(t), NEW i \in Turns(t), NEW j \in 1..Len(t), i < j, ~IsAnswer(t[j])
    PROVE  i + Wanted(t, i) < j
<1>1. j \notin i + 1..i + Wanted(t, i)
  BY DEF History, GroupOf
<1>2. i \in Nat /\ j \in Nat /\ Wanted(t, i) \in Nat
  <2>1. t \in Seq(Messages) /\ i \in 1..Len(t)
    BY DEF History, Turns
  <2>2. t[i] \in Messages
    BY <2>1
  <2> QED
    BY <2>1, <2>2, MessageIs DEF Wanted
<1> QED
  BY <1>1, <1>2

LEMMA PartIs ==
    ASSUME NEW T, NEW s \in Seq(T), NEW i \in Nat, NEW n \in Nat, i + n <= Len(s)
    PROVE  Len(SubSeq(s, i + 1, i + n)) = n /\ \A k \in 1..n : SubSeq(s, i + 1, i + n)[k] = s[i + k]
<1> DEFINE f == [k \in 1..(i + n) - (i + 1) + 1 |-> s[k + (i + 1) - 1]]
<1>1. SubSeq(s, i + 1, i + n) = f
  OBVIOUS
<1>2. (i + n) - (i + 1) + 1 = n /\ \A k \in 1..n : k + (i + 1) - 1 = i + k
  OBVIOUS
<1>3. DOMAIN f = 1..n /\ \A k \in 1..n : f[k] = s[i + k]
  BY <1>2
<1>4. Len(f) = n
  BY <1>3
<1> QED
  BY <1>1, <1>3, <1>4

LEMMA CompleteIsLegal ==
    ASSUME NEW t, History(t), Complete(t), t # <<>> => t[Len(t)].role # "user"
    PROVE  IsLegal(t)
<1>1. t \in Seq(Messages) /\ Len(t) \in Nat /\ \A i \in 1..Len(t) : t[i] \in Messages
  BY DEF History
<1>2. ASSUME NEW i \in Turns(t)
      PROVE  /\ Len(t) >= i + Wanted(t, i)
             /\ Answered(SubSeq(t, i + 1, i + Wanted(t, i))) = t[i].calls
  <2> DEFINE n == Wanted(t, i)
             after == SubSeq(t, i + 1, i + n)
  <2>1. i \in 1..Len(t) /\ n \in Nat /\ i + n <= Len(t)
    <3>1. i \in 1..Len(t) /\ i + n <= Len(t)
      BY DEF Turns, Complete
    <3> QED
      BY <1>1, <3>1, MessageIs DEF Wanted
  <2>2. GroupOf(t, i) = i + 1..i + n
    BY DEF GroupOf
  <2> HIDE DEF n
  <2>3. Len(after) = n /\ \A k \in 1..n : after[k] = t[i + k]
    <3>1. i \in Nat /\ n \in Nat /\ i + n <= Len(t) /\ t \in Seq(Messages)
      BY <1>1, <2>1
    <3> QED
      BY <3>1, PartIs
  <2> HIDE DEF after
  <2>4. ASSUME NEW c \in Answered(after) PROVE c \in t[i].calls
    <3>1. PICK k \in 1..n : IsAnswer(after[k]) /\ c \in after[k].calls
      BY <2>3 DEF Answered, IsAnswer
    <3>2. i + k \in GroupOf(t, i) /\ i + k \in 1..Len(t)
      BY <1>1, <2>1, <2>2
    <3>3. t[i + k].calls \subseteq t[i].calls
      BY <3>2 DEF History
    <3> QED
      BY <2>3, <3>1, <3>3
  <2>5. ASSUME NEW c \in t[i].calls PROVE c \in Answered(after)
    <3>1. c \in Answered(t)
      BY <2>1, AnswersCount DEF n
    <3>2. PICK j \in 1..Len(t) : IsAnswer(t[j]) /\ c \in t[j].calls
      BY <3>1 DEF Answered, IsAnswer
    <3>3. PICK a \in Turns(t) : j \in GroupOf(t, a)
      BY <3>2 DEF History
    <3>4. a = i
      BY <3>2, <3>3 DEF History
    <3>5. j - i \in 1..n /\ i + (j - i) = j
      BY <2>1, <2>2, <3>3, <3>4
    <3>6. after[j - i] = t[j] /\ j - i \in 1..Len(after)
      BY <2>3, <3>5
    <3> QED
      BY <3>2, <3>6 DEF Answered, IsAnswer
  <2> QED
    BY <1>1, <2>1, <2>4, <2>5 DEF n, after
<1> DEFINE P == {j \in 1..Len(t) : t[j].role \in {"result", "running"}}
           f == [j \in P |-> CHOOSE c \in CallIds : t[j].calls = {c}]
<1>3. ASSUME NEW j \in P
      PROVE  f[j] \in CallsOf(t) /\ t[j].calls = {f[j]} /\ j \in 1..Len(t) /\ IsAnswer(t[j])
  <2>1. IsAnswer(t[j]) /\ j \in 1..Len(t)
    BY DEF IsAnswer
  <2>2. \E c \in CallIds : t[j].calls = {c}
    BY <1>1, <2>1, MessageIs
  <2>3. t[j].calls = {f[j]}
    BY <2>2
  <2> HIDE DEF f, P
  <2>4. PICK i \in Turns(t) : j \in GroupOf(t, i)
    BY <2>1 DEF History
  <2>5. t[j].calls \subseteq t[i].calls
    BY <2>1, <2>4 DEF History
  <2>6. f[j] \in CallsOf(t)
    BY <2>3, <2>5 DEF CallsOf, Turns
  <2> QED
    BY <2>1, <2>3, <2>6
<1>4. f \in [P -> CallsOf(t)]
  <2>1. f = [j \in P |-> f[j]]
    OBVIOUS
  <2> HIDE DEF f, P
  <2> QED
    BY <1>3, <2>1
<1>5. ASSUME NEW j \in P, NEW k \in P, f[j] = f[k] PROVE j = k
  <2> HIDE DEF f, P
  <2>1. /\ j \in 1..Len(t) /\ IsAnswer(t[j]) /\ k \in 1..Len(t) /\ IsAnswer(t[k])
        /\ t[j].calls = t[k].calls
    BY <1>3, <1>5
  <2> QED
    BY <2>1 DEF History
<1>6. ASSUME NEW c \in CallsOf(t) PROVE \E j \in P : f[j] = c
  <2>1. PICK i \in Turns(t) : c \in t[i].calls
    BY DEF CallsOf, Turns
  <2>2. i + Wanted(t, i) <= Len(t)
    BY DEF Complete
  <2>3. c \in Answered(t)
    BY <2>1, <2>2, AnswersCount
  <2>4. PICK j \in P : c \in t[j].calls
    BY <2>3 DEF Answered
  <2> HIDE DEF f, P
  <2> QED
    BY <1>3, <2>4
<1>7. IsFiniteSet(P)
  <2>1. P \in SUBSET (1..Len(t))
    OBVIOUS
  <2>2. IsFiniteSet(1..Len(t))
    BY <1>1, FirstNumbers
  <2> HIDE DEF P
  <2> QED
    BY <2>1, <2>2, FS_Subset
<1>8. Cardinality(P) = Cardinality(CallsOf(t))
  <2> HIDE DEF f, P
  <2>1. f \in Bijection(P, CallsOf(t))
    BY <1>4, <1>5, <1>6 DEF Bijection, Injection, Surjection, IsInjective
  <2>2. ExistsBijection(P, CallsOf(t))
    BY <2>1 DEF ExistsBijection
  <2> QED
    BY <1>7, <2>2, FS_Bijection
<1> QED
  BY <1>2, <1>8 DEF IsLegal, Turns, Wanted

\* What the next message may be.
LEMMA AppendHistory ==
    ASSUME NEW t, History(t), NEW m \in Messages,
           \/ /\ Complete(t) /\ ~IsAnswer(m)
              /\ m.role = "assistant" => m.calls \cap CallsOf(t) = {}
           \/ \E i \in Turns(t) : \E c \in t[i].calls \ Answered(t) : m = Result(c)
    PROVE  History(Append(t, m))
<1> DEFINE u == Append(t, m)
<1>1. /\ t \in Seq(Messages) /\ Len(t) \in Nat /\ u \in Seq(Messages)
      /\ Len(u) = Len(t) + 1 /\ u[Len(t) + 1] = m
      /\ \A j \in 1..Len(t) : u[j] = t[j]
      /\ \A j \in 1..Len(u) : j \in 1..Len(t) \/ j = Len(t) + 1
  BY DEF History
<1> HIDE DEF u
<1>2. ASSUME NEW i \in Turns(t)
      PROVE  /\ i \in 1..Len(t) /\ Wanted(t, i) \in Nat /\ GroupOf(t, i) = i + 1..i + Wanted(t, i)
             /\ i \in Turns(u) /\ GroupOf(u, i) = GroupOf(t, i) /\ u[i] = t[i]
  <2>1. i \in 1..Len(t)
    BY DEF Turns
  <2>2. t[i] \in Messages /\ u[i] = t[i]
    BY <1>1, <2>1
  <2>3. Wanted(t, i) \in Nat
    BY <2>2, MessageIs DEF Wanted
  <2>4. GroupOf(t, i) = i + 1..i + Wanted(t, i) /\ GroupOf(u, i) = GroupOf(t, i)
    BY <2>2 DEF GroupOf, Wanted
  <2>5. i \in 1..Len(u)
    BY <1>1, <2>1
  <2>6. i \in Turns(u)
    BY <2>2, <2>5 DEF Turns
  <2> QED
    BY <2>1, <2>2, <2>3, <2>4, <2>6
<1>3. \A i \in Turns(u) : i \in Turns(t) \/ (i = Len(t) + 1 /\ m.role = "assistant")
  BY <1>1 DEF Turns
<1>4. CASE /\ Complete(t) /\ ~IsAnswer(m)
           /\ m.role = "assistant" => m.calls \cap CallsOf(t) = {}
  <2>1. ASSUME NEW i \in Turns(u), NEW j \in 1..Len(u), j \in GroupOf(u, i)
        PROVE  IsAnswer(u[j]) /\ u[j].calls \subseteq u[i].calls
    <3>1. i \in Turns(t) /\ j \in 1..Len(t)
      <4>1. CASE i \in Turns(t)
        <5>1. i + Wanted(t, i) <= Len(t) /\ j \in i + 1..i + Wanted(t, i)
          BY <1>2, <1>4, <2>1, <4>1 DEF Complete
        <5> QED
          BY <1>1, <1>2, <4>1, <5>1
      <4>2. CASE i = Len(t) + 1
        <5>1. u[i] \in Messages
          BY <1>1, <4>2
        <5>2. Wanted(u, i) \in Nat /\ j \in i + 1..i + Wanted(u, i)
          BY <2>1, <5>1, MessageIs DEF Wanted, GroupOf
        <5> QED
          BY <1>1, <4>2, <5>2
      <4> QED
        BY <1>3, <4>1, <4>2
    <3> QED
      BY <1>1, <1>2, <2>1, <3>1 DEF History
  <2>2. ASSUME NEW j \in 1..Len(u), IsAnswer(u[j]) PROVE \E i \in Turns(u) : j \in GroupOf(u, i)
    <3>1. j \in 1..Len(t) /\ u[j] = t[j]
      BY <1>1, <1>4, <2>2
    <3>2. PICK i \in Turns(t) : j \in GroupOf(t, i)
      BY <2>2, <3>1 DEF History
    <3> QED
      BY <1>2, <3>2
  <2>3. ASSUME NEW i \in 1..Len(u), NEW j \in 1..Len(u), IsAnswer(u[i]), IsAnswer(u[j]), i # j
        PROVE  u[i].calls # u[j].calls
    <3>1. i \in 1..Len(t) /\ u[i] = t[i] /\ j \in 1..Len(t) /\ u[j] = t[j]
      BY <1>1, <1>4, <2>3
    <3> QED
      BY <2>3, <3>1 DEF History
  <2>4. ASSUME NEW i \in Turns(t), m.role = "assistant" PROVE t[i].calls \cap m.calls = {}
    BY <1>4, <2>4 DEF CallsOf, Turns
  <2>5. ASSUME NEW i \in Turns(u), NEW j \in Turns(u), i # j PROVE u[i].calls \cap u[j].calls = {}
    <3>1. CASE i \in Turns(t) /\ j \in Turns(t)
      BY <1>2, <2>5, <3>1 DEF History
    <3>2. CASE i \notin Turns(t) \/ j \notin Turns(t)
      BY <1>1, <1>2, <1>3, <2>4, <2>5, <3>2
    <3> QED
      BY <3>1, <3>2
  <2> QED
    BY <1>1, <2>1, <2>2, <2>3, <2>5 DEF History, u
<1>5. ASSUME NEW o \in Turns(t), NEW c \in t[o].calls \ Answered(t), m = Result(c)
      PROVE  History(Append(t, m))
  <2>0. IsAnswer(m) /\ m.calls = {c} /\ m.role = "result"
    BY <1>5 DEF Result, IsAnswer
  <2>1. o + Wanted(t, o) > Len(t)
    <3>1. ~(o + Wanted(t, o) <= Len(t))
      BY AnswersCount
    <3> QED
      BY <1>1, <1>2, <3>1
  <2>2. \A i \in Turns(u) : i \in Turns(t)
    BY <1>3, <2>0
  <2>3. ASSUME NEW i \in Turns(t), Len(t) + 1 \in GroupOf(t, i) PROVE i = o
    <3>1. i + Wanted(t, i) >= Len(t) + 1 /\ i \in 1..Len(t) /\ o \in 1..Len(t)
      BY <1>1, <1>2, <2>3
    <3>2. ~IsAnswer(t[i]) /\ ~IsAnswer(t[o])
      BY DEF Turns, IsAnswer
    <3>3. ~(i < o) /\ ~(o < i)
      <4>1. i < o => i + Wanted(t, i) < o
        BY <3>1, <3>2, OpenIsLast
      <4>2. o < i => o + Wanted(t, o) < i
        BY <3>1, <3>2, OpenIsLast
      <4> QED
        BY <1>1, <1>2, <2>1, <3>1, <4>1, <4>2
    <3> QED
      BY <3>1, <3>3
  <2>4. ASSUME NEW i \in Turns(u), NEW j \in 1..Len(u), j \in GroupOf(u, i)
        PROVE  IsAnswer(u[j]) /\ u[j].calls \subseteq u[i].calls
    <3>1. i \in Turns(t) /\ j \in GroupOf(t, i) /\ u[i] = t[i]
      BY <1>2, <2>2, <2>4
    <3>2. CASE j \in 1..Len(t)
      BY <1>1, <3>1, <3>2 DEF History
    <3>3. CASE j = Len(t) + 1
      BY <1>1, <1>5, <2>0, <2>3, <3>1, <3>3
    <3> QED
      BY <1>1, <3>2, <3>3
  <2>5. ASSUME NEW j \in 1..Len(u), IsAnswer(u[j]) PROVE \E i \in Turns(u) : j \in GroupOf(u, i)
    <3>1. CASE j \in 1..Len(t)
      <4>1. PICK i \in Turns(t) : j \in GroupOf(t, i)
        BY <1>1, <2>5, <3>1 DEF History
      <4> QED
        BY <1>2, <4>1
    <3>2. CASE j = Len(t) + 1
      <4>1. j \in GroupOf(t, o)
        BY <1>1, <1>2, <2>1, <3>2
      <4> QED
        BY <1>2, <4>1
    <3> QED
      BY <1>1, <3>1, <3>2
  <2>6. ASSUME NEW j \in 1..Len(t), IsAnswer(t[j]) PROVE t[j].calls # {c}
    <3>1. c \notin t[j].calls
      BY <1>5, <2>6 DEF Answered, IsAnswer
    <3> QED
      BY <3>1
  <2>7. ASSUME NEW i \in 1..Len(u), NEW j \in 1..Len(u), IsAnswer(u[i]), IsAnswer(u[j]), i # j
        PROVE  u[i].calls # u[j].calls
    <3>1. CASE i \in 1..Len(t) /\ j \in 1..Len(t)
      BY <1>1, <2>7, <3>1 DEF History
    <3>2. CASE i = Len(t) + 1 \/ j = Len(t) + 1
      BY <1>1, <2>0, <2>6, <2>7, <3>2
    <3> QED
      BY <1>1, <3>1, <3>2
  <2>8. ASSUME NEW i \in Turns(u), NEW j \in Turns(u), i # j PROVE u[i].calls \cap u[j].calls = {}
    BY <1>2, <2>2, <2>8 DEF History
  <2> QED
    BY <1>1, <2>4, <2>5, <2>7, <2>8 DEF History, u
<1> QED
  BY <1>4, <1>5

LEMMA CutIs ==
    ASSUME NEW s \in Seq(Messages)
    PROVE  /\ CutAt(s) \in 0..Len(s)
           /\ CutAt(s) > 0 => s[CutAt(s)].role # "user"
           /\ \A i \in CutAt(s) + 1..Len(s) : s[i].role = "user"
<1> DEFINE N == {i \in 1..Len(s) : s[i].role # "user"}
           Cut(n) == /\ n > 0 => s[n].role # "user"
                     /\ \A i \in n + 1..Len(s) : s[i].role = "user"
<1>1. Len(s) \in Nat
  OBVIOUS
<1>2. \E n \in 0..Len(s) : Cut(n)
  <2>1. CASE N = {}
    <3>1. \A i \in 0 + 1..Len(s) : s[i].role = "user"
      BY <2>1
    <3> QED
      BY <1>1, <3>1
  <2>2. CASE N # {}
    <3>1. N \in SUBSET Nat /\ \A k \in N : k <= Len(s)
      OBVIOUS
    <3> HIDE DEF N
    <3>2. PICK m \in N : \A k \in N : k <= m
      BY <1>1, <2>2, <3>1, LargestOf
    <3>3. m \in 1..Len(s) /\ s[m].role # "user"
      BY DEF N
    <3>4. \A i \in m + 1..Len(s) : s[i].role = "user"
      <4> TAKE i \in m + 1..Len(s)
      <4>1. i \in 1..Len(s) /\ ~(i <= m)
        BY <1>1, <3>3
      <4> QED
        BY <3>2, <4>1 DEF N
    <3> QED
      BY <1>1, <3>3, <3>4
  <2> QED
    BY <2>1, <2>2
<1>3. CutAt(s) = CHOOSE n \in 0..Len(s) : Cut(n)
  BY DEF CutAt
<1> HIDE DEF Cut
<1>4. CutAt(s) \in 0..Len(s) /\ Cut(CutAt(s))
  BY <1>2, <1>3
<1> QED
  BY <1>4 DEF Cut

LEMMA ExchangeIs ==
    ASSUME NEW s \in Seq(Messages)
    PROVE  /\ ExchangeAt(s) \in 0..CutAt(s)
           /\ ExchangeAt(s) > 0 => ~Exchange(s[ExchangeAt(s)])
           /\ \A i \in ExchangeAt(s) + 1..CutAt(s) : Exchange(s[i])
<1> DEFINE end == CutAt(s)
           N == {i \in 1..end : ~Exchange(s[i])}
           Opening(n) == /\ n > 0 => ~Exchange(s[n])
                       /\ \A i \in n + 1..end : Exchange(s[i])
<1>1. end \in Nat
  BY CutIs
<1>2. ExchangeAt(s) = CHOOSE n \in 0..end : Opening(n)
  BY DEF ExchangeAt
<1> HIDE DEF end
<1>3. \E n \in 0..end : Opening(n)
  <2>1. CASE N = {}
    <3>1. \A i \in 0 + 1..end : Exchange(s[i])
      BY <1>1, <2>1
    <3> QED
      BY <1>1, <3>1
  <2>2. CASE N # {}
    <3>1. N \in SUBSET Nat /\ \A k \in N : k <= end
      BY <1>1
    <3> HIDE DEF N
    <3>2. PICK m \in N : \A k \in N : k <= m
      BY <1>1, <2>2, <3>1, LargestOf
    <3>3. m \in 1..end /\ ~Exchange(s[m])
      BY DEF N
    <3>4. \A i \in m + 1..end : Exchange(s[i])
      <4> TAKE i \in m + 1..end
      <4>1. i \in 1..end /\ ~(i <= m)
        BY <1>1, <3>3
      <4> QED
        BY <3>2, <4>1 DEF N
    <3> QED
      BY <1>1, <3>3, <3>4
  <2> QED
    BY <2>1, <2>2
<1> HIDE DEF Opening
<1>4. ExchangeAt(s) \in 0..end /\ Opening(ExchangeAt(s))
  BY <1>2, <1>3
<1> QED
  BY <1>4 DEF Opening, end

\* The calls that still run are of one message, the last: with as many places as they need
\* after the exchange.
LEMMA DanglingIs ==
    ASSUME NEW s, History(s), NEW D, D = Dangling(s, SubSeq(s, ExchangeAt(s) + 1, CutAt(s)))
    PROVE  /\ D \in SUBSET CallIds /\ D \cap Answered(s) = {}
           /\ \A c \in D : \E i \in Turns(s) :
                /\ i \in ExchangeAt(s) + 1..CutAt(s) /\ i + Wanted(s, i) > CutAt(s)
                /\ c \in s[i].calls
           /\ \A i \in Turns(s) : i \in ExchangeAt(s) + 1..CutAt(s) /\ i + Wanted(s, i) > CutAt(s) =>
                D \subseteq s[i].calls /\ Cardinality(D) = i + Wanted(s, i) - CutAt(s)
<1> DEFINE e == CutAt(s)
           st == ExchangeAt(s)
           region == SubSeq(s, st + 1, e)
<1>1. s \in Seq(Messages) /\ Len(s) \in Nat
  BY DEF History
<1>2. /\ e \in 0..Len(s) /\ st \in 0..e
      /\ \A i \in e + 1..Len(s) : s[i].role = "user"
  BY <1>1, CutIs, ExchangeIs
<1> HIDE DEF e, st
<1>3. /\ Len(region) = e - st
      /\ \A k \in 1..e - st : region[k] = s[st + k] /\ st + k \in st + 1..e
  BY <1>1, <1>2
<1>4. D = CallsOf(region) \ Answered(s)
  BY DEF Dangling, e, st
<1> HIDE DEF region
<1>5. ASSUME NEW i \in Turns(s)
      PROVE  /\ i \in 1..Len(s) /\ Wanted(s, i) \in Nat /\ s[i].role = "assistant"
             /\ s[i].calls \in SUBSET CallIds /\ IsFiniteSet(s[i].calls)
  <2>1. i \in 1..Len(s) /\ s[i].role = "assistant"
    BY DEF Turns
  <2>2. s[i] \in Messages
    BY <1>1, <2>1
  <2> QED
    BY <2>1, <2>2, MessageIs DEF Wanted
<1>6. ASSUME NEW c \in CallsOf(region) PROVE \E i \in Turns(s) : i \in st + 1..e /\ c \in s[i].calls
  <2>1. PICK k \in 1..e - st : region[k].role = "assistant" /\ c \in region[k].calls
    BY <1>3 DEF CallsOf
  <2>2. st + k \in st + 1..e /\ st + k \in 1..Len(s) /\ region[k] = s[st + k]
    BY <1>1, <1>2, <1>3
  <2> QED
    BY <2>1, <2>2 DEF Turns
<1>7. ASSUME NEW i \in Turns(s), i \in st + 1..e PROVE s[i].calls \subseteq CallsOf(region)
  <2>1. i - st \in 1..e - st /\ st + (i - st) = i
    BY <1>2, <1>5, <1>7
  <2>2. i - st \in 1..Len(region) /\ region[i - st] = s[i]
    BY <1>3, <2>1
  <2> QED
    BY <1>5, <2>2 DEF CallsOf
<1>8. ASSUME NEW c \in D
      PROVE  /\ c \in CallIds /\ c \notin Answered(s)
             /\ \E i \in Turns(s) : i \in st + 1..e /\ i + Wanted(s, i) > e /\ c \in s[i].calls
  <2>1. c \in CallsOf(region) /\ c \notin Answered(s)
    BY <1>4
  <2>2. PICK i \in Turns(s) : i \in st + 1..e /\ c \in s[i].calls
    BY <1>6, <2>1
  <2>3. ~(i + Wanted(s, i) <= Len(s))
    BY <2>1, <2>2, AnswersCount
  <2>4. i + Wanted(s, i) > e
    BY <1>1, <1>2, <1>5, <2>3
  <2> QED
    BY <1>5, <2>1, <2>2, <2>4
<1>9. ASSUME NEW i \in Turns(s), i \in st + 1..e, i + Wanted(s, i) > e
      PROVE  D \subseteq s[i].calls /\ Cardinality(D) = i + Wanted(s, i) - e
  <2>1. e = Len(s)
    <3> SUFFICES ASSUME e # Len(s) PROVE FALSE
      OBVIOUS
    <3>1. e + 1 \in 1..Len(s) /\ e + 1 \in i + 1..i + Wanted(s, i)
      BY <1>1, <1>2, <1>5, <1>9
    <3>2. IsAnswer(s[e + 1])
      BY <3>1 DEF History, GroupOf
    <3>3. e + 1 \in e + 1..Len(s)
      BY <1>2, <3>1
    <3> QED
      BY <1>2, <3>2, <3>3 DEF IsAnswer
  <2>2. ASSUME NEW a \in Turns(s), a # i, a + Wanted(s, a) > e PROVE FALSE
    <3>1. /\ a \in 1..Len(s) /\ i \in 1..Len(s) /\ ~IsAnswer(s[a]) /\ ~IsAnswer(s[i])
          /\ Wanted(s, a) \in Nat /\ Wanted(s, i) \in Nat
      BY <1>5 DEF IsAnswer
    <3>2. a < i => a + Wanted(s, a) < i
      BY <3>1, OpenIsLast
    <3>3. i < a => i + Wanted(s, i) < a
      BY <3>1, OpenIsLast
    <3> QED
      BY <1>1, <1>9, <2>1, <2>2, <3>1, <3>2, <3>3
  <2>3. D = s[i].calls \ Answered(s)
    BY <1>4, <1>7, <1>8, <1>9, <2>2
  <2>4. Cardinality(s[i].calls \cap Answered(s)) = e - i
    BY <1>9, <2>1, AnswersCount DEF AnsweredOf
  <2>5. Cardinality(D) = Wanted(s, i) - (e - i)
    BY <1>5, <2>3, <2>4, FS_Difference DEF Wanted
  <2> QED
    BY <1>1, <1>2, <1>5, <2>3, <2>5
<1> QED
  BY <1>8, <1>9 DEF e, st

\* What is cited: the places of s that are kept, in their order, and the results that were
\* made up.
PlaceOf(k, carry, start) == IF k <= carry THEN k ELSE k + (start - carry)

IsCite(t, s, carry, start, end, q, D) ==
    LET kept == end - (start - carry)
    IN /\ end \in 0..Len(s) /\ start \in 0..end /\ carry \in 0..start
       /\ q \in [1..Cardinality(D) -> D] /\ Cardinality(D) \in Nat
       /\ \A k, l \in 1..Cardinality(D) : k < l => q[k] < q[l]
       /\ t \in Seq(Messages) /\ Len(t) = kept + Cardinality(D)
       /\ \A k \in 1..kept : t[k] = s[PlaceOf(k, carry, start)]
       /\ \A k \in 1..Cardinality(D) : t[kept + k] = Synthesized(q[k])

LEMMA SurgeryIs ==
    ASSUME NEW s, History(s)
    PROVE  \E carry, q, D :
              /\ D = Dangling(s, SubSeq(s, ExchangeAt(s) + 1, CutAt(s)))
              /\ carry = IF ExchangeAt(s) > 0 /\ s[ExchangeAt(s)].role = "user"
                         THEN ExchangeAt(s) - 1 ELSE ExchangeAt(s)
              /\ IsCite(Surgery(s), s, carry, ExchangeAt(s), CutAt(s), q, D)
<1> DEFINE end == CutAt(s)
           start == ExchangeAt(s)
           carry == IF start > 0 /\ s[start].role = "user" THEN start - 1 ELSE start
           D == Dangling(s, SubSeq(s, start + 1, end))
           d == Cardinality(D)
           q == InOrder(D)
           called == {i \in start + 1..end : s[i].role = "result" => s[i].calls \subseteq CallsOf(s)}
           a == SubSeq(s, 1, carry)
           b == SubSeq(s, start + 1, end)
           c == [i \in 1..Len(q) |-> Synthesized(q[i])]
<1>1. s \in Seq(Messages) /\ Len(s) \in Nat
  BY DEF History
<1>2. end \in 0..Len(s) /\ start \in 0..end
  BY <1>1, CutIs, ExchangeIs
<1>3. D \in SUBSET CallIds
  BY DanglingIs
<1>4. Surgery(s) = a \o Taken(s, called) \o c
  BY DEF Surgery
<1> HIDE DEF end, start, D
<1>5. carry \in 0..start
  BY <1>2
<1> HIDE DEF carry
<1>6. called = start + 1..end
  <2>1. ASSUME NEW i \in start + 1..end, s[i].role = "result" PROVE s[i].calls \subseteq CallsOf(s)
    <3>1. i \in 1..Len(s) /\ IsAnswer(s[i])
      BY <1>1, <1>2, <2>1 DEF IsAnswer
    <3>2. PICK j \in Turns(s) : i \in GroupOf(s, j)
      BY <3>1 DEF History
    <3>3. s[i].calls \subseteq s[j].calls
      BY <3>1, <3>2 DEF History
    <3> QED
      BY <3>3 DEF CallsOf, Turns
  <2> QED
    BY <2>1
<1> HIDE DEF called
<1>7. Taken(s, called) = b
  BY <1>1, <1>2, <1>6, TakenNeighbours
<1>8. /\ d \in Nat /\ q \in [1..d -> D]
      /\ \A k, l \in 1..d : k < l => q[k] < q[l]
  <2>1. IsFiniteSet(CallIds) /\ CallIds \in SUBSET Nat
    BY ForkAssumption, FirstNumbers DEF CallIds
  <2>2. D \in SUBSET Nat /\ IsFiniteSet(D)
    BY <1>3, <2>1, FS_Subset
  <2> QED
    BY <2>2, InOrderIs
<1> HIDE DEF d, q
<1>9. /\ a \in Seq(Messages) /\ Len(a) = carry /\ \A k \in 1..carry : a[k] = s[k]
      /\ b \in Seq(Messages) /\ Len(b) = end - start /\ \A k \in 1..end - start : b[k] = s[start + k]
  BY <1>1, <1>2, <1>5
<1>10. c \in Seq(Messages) /\ Len(c) = d /\ \A k \in 1..d : c[k] = Synthesized(q[k])
  <2>1. Len(q) = d
    BY <1>8
  <2>2. \A k \in 1..d : Synthesized(q[k]) \in Messages
    BY <1>3, <1>8 DEF Messages
  <2> QED
    BY <1>8, <2>1, <2>2
<1> HIDE DEF a, b, c
<1> DEFINE kept == end - (start - carry)
           t == Surgery(s)
<1>11. /\ a \o b \in Seq(Messages) /\ Len(a \o b) = kept
       /\ \A k \in 1..kept : (a \o b)[k] = s[PlaceOf(k, carry, start)]
  <2>1. a \o b \in Seq(Messages) /\ Len(a \o b) = carry + (end - start) /\ kept = carry + (end - start)
    <3>1. a \o b \in Seq(Messages) /\ Len(a \o b) = Len(a) + Len(b)
      BY <1>9, ConcatIs
    <3> QED
      BY <1>2, <1>5, <1>9, <3>1
  <2>2. ASSUME NEW k \in 1..kept PROVE (a \o b)[k] = s[PlaceOf(k, carry, start)]
    <3>1. CASE k <= carry
      <4>1. k \in 1..carry
        BY <1>5, <3>1
      <4>2. (a \o b)[k] = a[k]
        BY <1>9, <4>1, ConcatIs
      <4> QED
        BY <1>9, <3>1, <4>1, <4>2 DEF PlaceOf
    <3>2. CASE ~(k <= carry)
      <4>1. k - carry \in 1..end - start /\ start + (k - carry) = k + (start - carry)
        BY <1>2, <1>5, <3>2
      <4>2. (a \o b)[Len(a) + (k - carry)] = b[k - carry]
        BY <1>9, <4>1, ConcatIs
      <4>3. Len(a) + (k - carry) = k
        BY <1>5, <1>9
      <4> QED
        BY <1>9, <3>2, <4>1, <4>2, <4>3 DEF PlaceOf
    <3> QED
      BY <3>1, <3>2
  <2> QED
    BY <2>1, <2>2
<1>12. t = (a \o b) \o c /\ kept \in Nat
  BY <1>2, <1>4, <1>5, <1>7
<1>13. /\ t \in Seq(Messages) /\ Len(t) = kept + d
       /\ \A k \in 1..kept : t[k] = s[PlaceOf(k, carry, start)]
       /\ \A k \in 1..d : t[kept + k] = Synthesized(q[k])
  <2> DEFINE ab == a \o b
  <2> HIDE DEF t, kept, ab
  <2>1. ab \in Seq(Messages) /\ Len(ab) = kept /\ kept \in Nat /\ t = ab \o c
    BY <1>11, <1>12 DEF ab
  <2>2. t \in Seq(Messages) /\ Len(t) = kept + d
    BY <1>10, <2>1, ConcatIs
  <2>3. \A k \in 1..kept : t[k] = ab[k]
    BY <1>10, <2>1, ConcatIs
  <2>4. \A k \in 1..d : t[kept + k] = c[k]
    BY <1>10, <2>1, ConcatIs
  <2> QED
    BY <1>10, <1>11, <2>2, <2>3, <2>4 DEF ab
<1>14. IsCite(t, s, carry, start, end, q, D)
  BY <1>2, <1>5, <1>8, <1>13 DEF IsCite, d
<1> HIDE DEF t, q
<1>15. \E q1 : IsCite(t, s, carry, start, end, q1, D)
  BY <1>14
<1> QED
  BY <1>15 DEF t, carry, start, end, D

\* Where the messages of a cite come from: groups of the places before the cut are whole,
\* and a message of the exchange has the places of its answers in it, or those made up.
LEMMA SurgeryIsComplete ==
    ASSUME NEW s, History(s), \A i \in 1..Len(s) : s[i].role # "running"
    PROVE  LET t == Surgery(s)
           IN History(t) /\ Complete(t) /\ (t # <<>> => t[Len(t)].role # "user")
<1> DEFINE end == CutAt(s)
           start == ExchangeAt(s)
           t == Surgery(s)
<1>1. PICK carry, q, D :
        /\ D = Dangling(s, SubSeq(s, start + 1, end))
        /\ carry = IF start > 0 /\ s[start].role = "user" THEN start - 1 ELSE start
        /\ IsCite(t, s, carry, start, end, q, D)
  BY SurgeryIs
<1>2. /\ s \in Seq(Messages) /\ Len(s) \in Nat
      /\ end \in 0..Len(s) /\ (end > 0 => s[end].role # "user")
      /\ start \in 0..end /\ (start > 0 => ~Exchange(s[start]))
      /\ \A i \in start + 1..end : Exchange(s[i])
  <2>1. s \in Seq(Messages) /\ Len(s) \in Nat
    BY DEF History
  <2> QED
    BY <2>1, CutIs, ExchangeIs
<1>3. /\ D \in SUBSET CallIds /\ D \cap Answered(s) = {}
      /\ \A c \in D : \E i \in Turns(s) :
           /\ i \in start + 1..end /\ i + Wanted(s, i) > end
           /\ c \in s[i].calls
      /\ \A i \in Turns(s) : i \in start + 1..end /\ i + Wanted(s, i) > end =>
           D \subseteq s[i].calls /\ Cardinality(D) = i + Wanted(s, i) - end
  BY <1>1, DanglingIs
<1> HIDE DEF end, start, t
<1> DEFINE gap == start - carry
           kept == end - gap
           d == Cardinality(D)
           at(k) == PlaceOf(k, carry, start)
<1>4. /\ carry \in Nat /\ gap \in 0..1 /\ kept \in Nat /\ carry <= kept
      /\ start \in Nat /\ start = carry + gap /\ start <= end
      /\ end \in Nat /\ end = kept + gap /\ end <= Len(s)
  <2>1. carry \in 0..start
    BY <1>1 DEF IsCite
  <2>2. carry = start \/ carry = start - 1
    BY <1>1
  <2>3. Len(s) \in Nat /\ end \in 0..Len(s) /\ start \in 0..end
    BY <1>2
  <2> QED
    BY <2>1, <2>2, <2>3
<1>5. /\ t \in Seq(Messages) /\ d \in Nat /\ Len(t) = kept + d
      /\ q \in [1..d -> D] /\ \A k, l \in 1..d : k < l => q[k] < q[l]
  BY <1>1 DEF IsCite
<1>6. ASSUME NEW k \in 1..kept
      PROVE  /\ t[k] = s[at(k)] /\ at(k) = (IF k <= carry THEN k ELSE k + gap)
             /\ at(k) \in 1..Len(s) /\ k \in 1..Len(t)
  <2>1. t[k] = s[at(k)]
    BY <1>1 DEF IsCite
  <2>2. at(k) = IF k <= carry THEN k ELSE k + gap
    BY DEF PlaceOf
  <2> HIDE DEF at, gap, kept, d
  <2> QED
    BY <1>2, <1>4, <1>5, <2>1, <2>2
<1>61. ASSUME NEW k \in 1..d
       PROVE  /\ t[kept + k] = Synthesized(q[k]) /\ q[k] \in D
              /\ t[kept + k].role = "running" /\ t[kept + k].calls = {q[k]} /\ IsAnswer(t[kept + k])
  <2>1. t[kept + k] = Synthesized(q[k]) /\ q[k] \in D
    BY <1>1 DEF IsCite
  <2> HIDE DEF kept, d
  <2> QED
    BY <2>1 DEF Synthesized, IsAnswer
<1> HIDE DEF gap, kept, d, at
<1>62. ASSUME NEW j \in 1..Len(t) PROVE j \in 1..kept \/ \E k \in 1..d : j = kept + k
  <2>1. CASE j > kept
    <3>1. j - kept \in 1..d /\ j = kept + (j - kept)
      BY <1>4, <1>5, <2>1
    <3> QED
      BY <3>1
  <2> QED
    BY <1>4, <1>5, <2>1
<1>7. ASSUME NEW i \in Turns(s)
      PROVE  /\ i \in 1..Len(s) /\ Wanted(s, i) \in Nat /\ GroupOf(s, i) = i + 1..i + Wanted(s, i)
             /\ ~IsAnswer(s[i])
  <2>1. i \in 1..Len(s) /\ s[i].role = "assistant"
    BY DEF Turns
  <2>2. s[i] \in Messages
    BY <1>2, <2>1
  <2> QED
    BY <2>1, <2>2, MessageIs DEF Wanted, GroupOf, IsAnswer
\* What is before the exchange does not reach into it.
<1>8. ASSUME NEW i \in Turns(s), i <= start PROVE i + Wanted(s, i) <= start
  <2>1. start \in 1..Len(s)
    BY <1>2, <1>7, <1>8
  <2>2. s[start] \in Messages
    BY <1>2, <2>1
  <2>3. ~IsAnswer(s[start])
    BY <1>1, <1>2, <2>1, <2>2 DEF Exchange, IsAnswer
  <2>4. CASE i < start
    BY <1>2, <1>7, <2>1, <2>3, <2>4, OpenIsLast
  <2>5. CASE i = start
    <3>1. s[i].calls = {}
      BY <1>2, <2>1, <2>5 DEF Turns, Exchange
    <3>2. Wanted(s, i) = 0
      BY <3>1, FS_EmptySet DEF Wanted
    <3> QED
      BY <1>7, <2>5, <3>2
  <2> QED
    BY <1>2, <1>7, <1>8, <2>4, <2>5
<1>9. ASSUME NEW i \in Turns(s), i <= carry PROVE i + Wanted(s, i) <= carry
  <2>1. i <= start /\ i + Wanted(s, i) <= start
    BY <1>4, <1>7, <1>8, <1>9
  <2>2. CASE carry = start
    BY <2>1, <2>2
  <2>3. CASE carry # start
    <3>1. start > 0 /\ s[start].role = "user" /\ carry = start - 1
      BY <1>1, <2>3
    <3>2. start \in 1..Len(s) /\ ~IsAnswer(s[start]) /\ i < start
      BY <1>2, <1>7, <1>9, <3>1 DEF IsAnswer
    <3>3. i + Wanted(s, i) < start
      BY <3>2, OpenIsLast
    <3> QED
      BY <1>2, <1>7, <3>1, <3>3
  <2> QED
    BY <2>2, <2>3
\* The messages of t with calls, and where they come from.
<1>10. ASSUME NEW k \in Turns(t)
       PROVE  /\ k \in 1..kept /\ at(k) \in Turns(s) /\ t[k] = s[at(k)]
              /\ Wanted(t, k) = Wanted(s, at(k)) /\ Wanted(t, k) \in Nat
              /\ GroupOf(t, k) = k + 1..k + Wanted(t, k)
  <2>1. k \in 1..Len(t) /\ t[k].role = "assistant"
    BY DEF Turns
  <2>2. k \in 1..kept
    <3>1. \A l \in 1..d : k # kept + l
      BY <1>61, <2>1
    <3> QED
      BY <1>62, <2>1, <3>1
  <2>3. t[k] = s[at(k)] /\ at(k) \in Turns(s)
    BY <1>6, <2>1, <2>2 DEF Turns
  <2> QED
    BY <1>7, <2>2, <2>3 DEF Wanted, GroupOf
<1>11. ASSUME NEW i \in Turns(s), i <= carry \/ i \in start + 1..end
       PROVE  \E k \in Turns(t) : at(k) = i /\ k = IF i <= carry THEN i ELSE i - gap
  <2> DEFINE k == IF i <= carry THEN i ELSE i - gap
  <2>1. k \in 1..kept /\ i = IF k <= carry THEN k ELSE k + gap
    <3>1. i \in 1..Len(s) /\ Len(s) \in Nat
      BY <1>2, <1>7
    <3>2. CASE i <= carry
      BY <1>4, <3>1, <3>2
    <3>3. CASE ~(i <= carry) /\ i \in start + 1..end
      BY <1>4, <3>1, <3>3
    <3> QED
      BY <1>11, <3>2, <3>3
  <2>2. at(k) = i /\ t[k] = s[i] /\ k \in 1..Len(t)
    BY <1>6, <2>1
  <2> HIDE DEF k
  <2>3. k \in Turns(t)
    BY <2>2 DEF Turns
  <2> QED
    BY <2>2, <2>3 DEF k
\* Either all places of a message's answers are kept, or all that are missing are made up.
<1>12. ASSUME NEW k \in Turns(t)
       PROVE  \/ k <= carry /\ k + Wanted(t, k) <= carry
              \/ k > carry /\ k + Wanted(t, k) <= kept
              \/ /\ k > carry /\ k + Wanted(t, k) = kept + d /\ D \subseteq t[k].calls
                 /\ at(k) \in start + 1..end
  <2>1. CASE k <= carry
    <3>1. at(k) = k
      BY <1>6, <1>10, <2>1
    <3> QED
      BY <1>9, <1>10, <2>1, <3>1
  <2>2. CASE k > carry
    <3>0. k \in 1..kept /\ at(k) = k + gap
      BY <1>4, <1>6, <1>10, <2>2
    <3>1. at(k) = k + gap /\ at(k) \in start + 1..end
      BY <1>4, <2>2, <3>0
    <3>2. CASE at(k) + Wanted(s, at(k)) > end
      <4>1. D \subseteq s[at(k)].calls /\ d = at(k) + Wanted(s, at(k)) - end
        BY <1>3, <1>10, <3>1, <3>2 DEF d
      <4>2. k + Wanted(t, k) = kept + d
        BY <1>4, <1>5, <1>10, <3>0, <4>1
      <4> QED
        BY <1>10, <2>2, <3>1, <4>1, <4>2
    <3>3. CASE ~(at(k) + Wanted(s, at(k)) > end)
      <4>1. k + Wanted(t, k) <= kept
        BY <1>4, <1>10, <3>0, <3>3
      <4> QED
        BY <2>2, <4>1
    <3> QED
      BY <3>2, <3>3
  <2> QED
    BY <1>4, <1>10, <2>1, <2>2
<1>13. Complete(t)
  <2> SUFFICES ASSUME NEW k \in Turns(t) PROVE k + Wanted(t, k) <= Len(t)
    BY DEF Complete
  <2>1. k + Wanted(t, k) <= carry \/ k + Wanted(t, k) <= kept \/ k + Wanted(t, k) = kept + d
    BY <1>12
  <2> QED
    BY <1>4, <1>5, <1>10, <2>1
\* The answers of t.
<1>14. ASSUME NEW k \in Turns(t), NEW j \in 1..Len(t), j \in GroupOf(t, k)
       PROVE  IsAnswer(t[j]) /\ t[j].calls \subseteq t[k].calls
  <2>1. k + 1 <= j /\ j <= k + Wanted(t, k) /\ k \in 1..kept /\ Wanted(t, k) \in Nat
    BY <1>10, <1>14
  <2>2. CASE j \in 1..kept
    <3>1. /\ at(k) = (IF k <= carry THEN k ELSE k + gap)
          /\ at(j) = (IF j <= carry THEN j ELSE j + gap)
          /\ at(j) \in 1..Len(s)
      BY <1>6, <2>1, <2>2
    <3>2. k <= carry => k + Wanted(t, k) <= carry
      BY <1>4, <1>12, <2>1
    <3>3. at(k) + 1 <= at(j) /\ at(j) <= at(k) + Wanted(t, k)
      BY <1>4, <2>1, <2>2, <3>1, <3>2
    <3>4. at(j) \in GroupOf(s, at(k))
      BY <1>4, <1>7, <1>10, <2>1, <3>1, <3>3
    <3>5. IsAnswer(s[at(j)]) /\ s[at(j)].calls \subseteq s[at(k)].calls
      BY <1>10, <3>1, <3>4 DEF History
    <3> QED
      BY <1>6, <1>10, <2>2, <3>5
  <2>3. ASSUME NEW l \in 1..d, j = kept + l PROVE IsAnswer(t[j]) /\ t[j].calls \subseteq t[k].calls
    <3>1. ~(k + Wanted(t, k) <= carry) /\ ~(k + Wanted(t, k) <= kept)
      BY <1>4, <1>5, <2>1, <2>3
    <3>2. D \subseteq t[k].calls
      BY <1>12, <3>1
    <3> QED
      BY <1>61, <2>3, <3>2
  <2> QED
    BY <1>62, <2>2, <2>3
<1>15. ASSUME NEW j \in 1..Len(t), IsAnswer(t[j]) PROVE \E k \in Turns(t) : j \in GroupOf(t, k)
  <2>1. CASE j \in 1..kept
    <3>1. /\ at(j) \in 1..Len(s) /\ IsAnswer(s[at(j)])
          /\ at(j) = IF j <= carry THEN j ELSE j + gap
      BY <1>6, <1>15, <2>1
    <3>2. PICK i \in Turns(s) : at(j) \in GroupOf(s, i)
      BY <3>1 DEF History
    <3>3. i \in Nat /\ i >= 1 /\ i < at(j) /\ at(j) <= i + Wanted(s, i) /\ Wanted(s, i) \in Nat
      <4>1. i \in 1..Len(s) /\ Wanted(s, i) \in Nat /\ at(j) \in i + 1..i + Wanted(s, i)
        BY <1>7, <3>2
      <4> QED
        BY <1>2, <4>1
    <3>4. (j <= carry /\ i <= carry) \/ (~(j <= carry) /\ ~(i <= carry) /\ i \in start + 1..end)
      <4>1. i <= start => i + Wanted(s, i) <= start
        BY <1>8
      <4> QED
        BY <1>4, <2>1, <3>1, <3>3, <4>1
    <3>5. PICK k \in Turns(t) : at(k) = i /\ k = IF i <= carry THEN i ELSE i - gap
      BY <1>11, <3>4
    <3>6. Wanted(t, k) = Wanted(s, i) /\ k \in 1..kept /\ GroupOf(t, k) = k + 1..k + Wanted(t, k)
      BY <1>10, <3>5
    <3>7. k + 1 <= j /\ j <= k + Wanted(t, k)
      BY <1>4, <2>1, <3>1, <3>3, <3>4, <3>5, <3>6
    <3> QED
      BY <1>4, <2>1, <3>3, <3>6, <3>7
  <2>2. ASSUME NEW l \in 1..d, j = kept + l PROVE \E k \in Turns(t) : j \in GroupOf(t, k)
    <3>1. q[l] \in D
      BY <1>61
    <3>2. PICK i \in Turns(s) : i \in start + 1..end /\ i + Wanted(s, i) > end
      BY <1>3, <3>1
    <3>3. ~(i <= carry)
      BY <1>4, <3>2
    <3>4. PICK k \in Turns(t) : at(k) = i /\ k = i - gap
      BY <1>11, <3>2, <3>3
    <3>5. d = i + Wanted(s, i) - end
      BY <1>3, <3>2 DEF d
    <3>6. /\ Wanted(t, k) = Wanted(s, i) /\ k \in 1..kept /\ Wanted(t, k) \in Nat
          /\ GroupOf(t, k) = k + 1..k + Wanted(t, k)
      BY <1>10, <3>4
    <3>7. k + 1 <= j /\ j <= k + Wanted(t, k)
      BY <1>4, <1>5, <2>2, <3>2, <3>4, <3>5, <3>6
    <3> QED
      BY <1>4, <2>2, <3>6, <3>7
  <2> QED
    BY <1>62, <2>1, <2>2
<1>16. ASSUME NEW i \in 1..Len(t), NEW j \in 1..Len(t), IsAnswer(t[i]), IsAnswer(t[j]), i < j
       PROVE  t[i].calls # t[j].calls
  <2>1. CASE i \in 1..kept /\ j \in 1..kept
    <3>1. /\ at(i) = (IF i <= carry THEN i ELSE i + gap) /\ at(i) \in 1..Len(s)
          /\ at(j) = (IF j <= carry THEN j ELSE j + gap) /\ at(j) \in 1..Len(s)
          /\ t[i] = s[at(i)] /\ t[j] = s[at(j)]
      BY <1>6, <2>1
    <3>2. at(i) # at(j)
      BY <1>4, <1>16, <2>1, <3>1
    <3> QED
      BY <1>16, <3>1, <3>2 DEF History
  <2>2. ASSUME i \in 1..kept, NEW l \in 1..d, j = kept + l PROVE t[i].calls # t[j].calls
    <3>1. t[j].calls = {q[l]} /\ q[l] \in D
      BY <1>61, <2>2
    <3>2. t[i] = s[at(i)] /\ at(i) \in 1..Len(s)
      BY <1>6, <2>2
    <3>3. t[i].calls \subseteq Answered(s)
      BY <1>16, <3>2 DEF Answered, IsAnswer
    <3> QED
      BY <1>3, <3>1, <3>3
  <2>3. ASSUME NEW k \in 1..d, i = kept + k, NEW l \in 1..d, j = kept + l PROVE t[i].calls # t[j].calls
    <3>1. k < l
      BY <1>4, <1>5, <1>16, <2>3
    <3>2. q[k] < q[l] /\ q[k] \in D /\ q[l] \in D
      BY <1>5, <1>61, <3>1
    <3>3. q[k] \in Nat
      <4>1. q[k] \in CallIds
        BY <1>3, <3>2
      <4> QED
        BY <4>1, ForkAssumption DEF CallIds
    <3>4. q[k] # q[l]
      BY <3>2, <3>3
    <3> QED
      BY <1>61, <2>3, <3>4
  <2>4. ~(i \notin 1..kept /\ j \in 1..kept)
    BY <1>4, <1>5, <1>16
  <2> QED
    BY <1>62, <2>1, <2>2, <2>3, <2>4
<1>17. ASSUME NEW k \in Turns(t), NEW l \in Turns(t), k # l PROVE t[k].calls \cap t[l].calls = {}
  <2>0. /\ k \in 1..kept /\ at(k) = (IF k <= carry THEN k ELSE k + gap)
        /\ l \in 1..kept /\ at(l) = (IF l <= carry THEN l ELSE l + gap)
    BY <1>6, <1>10
  <2>1. at(k) # at(l)
    BY <1>4, <1>17, <2>0
  <2> QED
    BY <1>10, <2>1 DEF History
<1>18. History(t)
  <2>1. \A i, j \in 1..Len(t) : i # j => i < j \/ j < i
    BY <1>4, <1>5
  <2>2. \A i, j \in 1..Len(t) : IsAnswer(t[i]) /\ IsAnswer(t[j]) /\ i # j => t[i].calls # t[j].calls
    BY <1>16, <2>1
  <2> QED
    BY <1>5, <1>14, <1>15, <1>17, <2>2 DEF History
<1>19. ASSUME t # <<>> PROVE t[Len(t)].role # "user"
  <2>1. CASE d > 0
    <3>1. d \in 1..d
      BY <1>5, <2>1
    <3>2. t[kept + d].role = "running"
      BY <1>61, <3>1
    <3> QED
      BY <1>5, <3>2
  <2>2. CASE d = 0
    <3>1. Len(t) = kept /\ kept \in 1..kept
      BY <1>4, <1>5, <1>19, <2>2
    <3>2. at(kept) = (IF kept <= carry THEN kept ELSE kept + gap) /\ t[kept] = s[at(kept)]
      BY <1>6, <3>1
    <3>3. at(kept) = end
      <4>1. CASE start = end
        <5>1. end > 0
          BY <1>4, <3>1
        <5>2. carry = start
          BY <1>1, <1>2, <4>1, <5>1
        <5> QED
          BY <1>4, <3>2, <4>1, <5>2
      <4>2. CASE start # end
        BY <1>4, <3>2, <4>2
      <4> QED
        BY <4>1, <4>2
    <3>4. end > 0
      BY <1>4, <3>1
    <3> QED
      BY <1>2, <3>1, <3>2, <3>3, <3>4
  <2> QED
    BY <1>5, <2>1, <2>2
<1> QED
  BY <1>13, <1>18, <1>19 DEF t

LEMMA ForkInitInv == ForkInit => ForkInv
<1> SUFFICES ASSUME ForkInit PROVE ForkInv
  OBVIOUS
<1>1. log = <<>> /\ cite = <<>> /\ Len(<<>>) = 0 /\ 1..0 = {}
  BY DEF ForkInit
<1>2. History(<<>>) /\ Complete(<<>>)
  BY DEF History, Complete, Turns
<1>3. CallsOf(<<>>) = {}
  BY DEF CallsOf
<1> QED
  BY <1>1, <1>2, <1>3, FS_EmptySet, CompleteIsLegal DEF ForkInv, CiteIsLegal

\* Without a call that runs every message has its answers.
LEMMA NoneRuns ==
    ASSUME ForkInv, Running = {}
    PROVE  Complete(log)
<1> SUFFICES ASSUME NEW i \in Turns(log), ~(i + Wanted(log, i) <= Len(log)) PROVE FALSE
  BY DEF Complete
<1>1. History(log) /\ log \in Seq(Messages) /\ i \in 1..Len(log)
  BY DEF ForkInv, History, Turns
<1>2. log[i] \in Messages /\ Len(log) \in Nat
  BY <1>1
<1>3. Wanted(log, i) \in Nat
  BY <1>2, MessageIs DEF Wanted
<1>4. Cardinality(AnsweredOf(log, i)) = Len(log) - i
  BY <1>1, <1>2, <1>3, AnswersCount
<1>5. log[i].calls \subseteq CallsOf(log)
  BY DEF CallsOf, Turns
<1>6. AnsweredOf(log, i) = log[i].calls
  BY <1>5 DEF AnsweredOf, Running
<1> QED
  BY <1>1, <1>2, <1>3, <1>4, <1>6 DEF Wanted

LEMMA TellsIs ==
    ASSUME ForkInv, NEW m \in Messages, Tells(m), m.role # "running",
           \/ /\ Complete(log) /\ ~IsAnswer(m)
              /\ m.role = "assistant" => m.calls \cap CallsOf(log) = {}
           \/ \E i \in Turns(log) : \E c \in log[i].calls \ Answered(log) : m = Result(c),
           LET now == IF m.role = "assistant" THEN CallsOf(log) \cup m.calls ELSE CallsOf(log)
           IN now = 1..Cardinality(now) /\ IsFiniteSet(now)
    PROVE  ForkInv'
<1> DEFINE u == Append(log, m)
<1>1. log' = u /\ cite' = cite
  BY DEF Tells
<1>2. History(u)
  BY AppendHistory DEF ForkInv
<1>3. /\ log \in Seq(Messages) /\ Len(log) \in Nat
      /\ Len(u) = Len(log) + 1 /\ u[Len(log) + 1] = m
      /\ \A j \in 1..Len(log) : u[j] = log[j]
      /\ \A j \in 1..Len(u) : j \in 1..Len(log) \/ j = Len(log) + 1
  BY DEF ForkInv, History
<1> HIDE DEF u
<1>4. \A i \in 1..Len(u) : u[i].role # "running"
  BY <1>3 DEF ForkInv
<1>5. CallsOf(u) = IF m.role = "assistant" THEN CallsOf(log) \cup m.calls ELSE CallsOf(log)
  <2>1. Turns(u) = IF m.role = "assistant" THEN Turns(log) \cup {Len(log) + 1} ELSE Turns(log)
    BY <1>3 DEF Turns
  <2>2. CallsOf(u) = UNION {u[i].calls : i \in Turns(u)} /\ CallsOf(log) = UNION {log[i].calls : i \in Turns(log)}
    BY DEF CallsOf, Turns
  <2>3. \A i \in Turns(log) : u[i] = log[i]
    BY <1>3 DEF Turns
  <2> QED
    BY <1>3, <2>1, <2>2, <2>3
<1>6. CallsOf(u) = 1..Cardinality(CallsOf(u)) /\ IsFiniteSet(CallsOf(u))
  BY <1>5
<1>7. CiteIsLegal'
  BY <1>1 DEF ForkInv, CiteIsLegal
<1> QED
  BY <1>1, <1>2, <1>4, <1>6, <1>7 DEF ForkInv

LEMMA ForkStepInv == ForkInv /\ [ForkNext]_forkVars => ForkInv'
<1> SUFFICES ASSUME ForkInv, [ForkNext]_forkVars PROVE ForkInv'
  OBVIOUS
<1>1. CASE Fork
  <2>1. /\ History(Surgery(log)) /\ Complete(Surgery(log))
        /\ Surgery(log) # <<>> => Surgery(log)[Len(Surgery(log))].role # "user"
    BY SurgeryIsComplete DEF ForkInv
  <2>2. IsLegal(Surgery(log))
    BY <2>1, CompleteIsLegal
  <2>3. log' = log /\ cite' = Surgery(log)
    BY <1>1 DEF Fork
  <2>4. CiteIsLegal'
    BY <2>2, <2>3 DEF CiteIsLegal
  <2> QED
    BY <2>3, <2>4 DEF ForkInv
<1>2. CASE Asks
  <2>1. Running = {} /\ Tells(Prompt)
    BY <1>2 DEF Asks
  <2>2. /\ Prompt \in Messages /\ ~IsAnswer(Prompt)
        /\ Prompt.role # "assistant" /\ Prompt.role # "running"
    BY DEF Messages, Prompt, IsAnswer
  <2>3. CallsOf(log) = 1..Cardinality(CallsOf(log)) /\ IsFiniteSet(CallsOf(log))
    BY DEF ForkInv
  <2> QED
    BY <2>1, <2>2, <2>3, NoneRuns, TellsIs
<1>3. CASE Answers
  <2> DEFINE next == Cardinality(CallsOf(log))
  <2>0. Running = {} /\ CallsOf(log) = 1..next /\ IsFiniteSet(CallsOf(log))
    BY <1>3 DEF Answers, ForkInv
  <2>1. PICK n \in 0..2 : next + n <= MaxCalls /\ Tells(Assistant(next + 1..next + n))
    BY <1>3 DEF Answers
  <2>2. next \in Nat
    BY <2>0, FS_CardinalityType
  <2> HIDE DEF next
  <2> DEFINE m == Assistant(next + 1..next + n)
             now == CallsOf(log) \cup m.calls
  <2>3. m.role = "assistant" /\ m.calls = next + 1..next + n /\ ~IsAnswer(m) /\ m.role # "running"
    BY DEF Assistant, IsAnswer
  <2>4. m \in Messages
    <3>1. next + 1..next + n \in SUBSET CallIds
      BY <2>1, <2>2, ForkAssumption DEF CallIds
    <3> QED
      BY <3>1 DEF Messages
  <2> HIDE DEF m
  <2>5. m.calls \cap CallsOf(log) = {}
    BY <2>0, <2>1, <2>2, <2>3
  <2>6. now = 1..next + n
    BY <2>0, <2>1, <2>2, <2>3
  <2>7. next + n \in Nat
    BY <2>1, <2>2
  <2> HIDE DEF now
  <2>8. IsFiniteSet(now) /\ Cardinality(now) = next + n
    BY <2>6, <2>7, FirstNumbers
  <2>9. now = 1..Cardinality(now) /\ IsFiniteSet(now)
    BY <2>6, <2>8
  <2>10. Tells(m)
    BY <2>1 DEF m
  <2>11. Complete(log)
    BY <2>0, NoneRuns
  <2> QED
    BY <2>3, <2>4, <2>5, <2>9, <2>10, <2>11, TellsIs DEF now
<1>4. CASE Returns
  <2>1. PICK c \in Running : Tells(Result(c))
    BY <1>4 DEF Returns
  <2>2. PICK i \in Turns(log) : c \in log[i].calls \ Answered(log)
    BY <2>1 DEF Running, CallsOf, Turns
  <2>3. log[i] \in Messages
    <3>1. log \in Seq(Messages) /\ i \in 1..Len(log)
      BY DEF ForkInv, History, Turns
    <3> QED
      BY <3>1
  <2>4. c \in CallIds
    BY <2>2, <2>3, MessageIs
  <2>5. Result(c) \in Messages /\ Result(c).role = "result"
    BY <2>4 DEF Messages, Result
  <2>6. CallsOf(log) = 1..Cardinality(CallsOf(log)) /\ IsFiniteSet(CallsOf(log))
    BY DEF ForkInv
  <2> QED
    BY <2>1, <2>2, <2>5, <2>6, TellsIs
<1>5. CASE UNCHANGED forkVars
  BY <1>5 DEF forkVars, ForkInv, CiteIsLegal
<1> QED
  BY <1>1, <1>2, <1>3, <1>4, <1>5 DEF ForkNext

\* For any conversation, with any number of calls side by side that end in any order, the
\* history a side chat is opened with is one a gateway takes (forkSurgery).
THEOREM HistoriesAreLegal == ForkSpec => []CiteIsLegal
<1>1. ForkInv => CiteIsLegal
  BY DEF ForkInv
<1> QED
  BY ForkInitInv, ForkStepInv, <1>1, PTL DEF ForkSpec

-----------------------------------------------------------------------------
(***************************************************************************)
(* Where the vision helper sends images: for settings and stores of any    *)
(* size, and names of any length.                                          *)
(*                                                                         *)
(* The argument: what is sent to is what the settings resolve to, and they *)
(* do not change during the call.  The rest is about the operators: a name *)
(* that is picked is equal to the one asked for, if there is such a name,  *)
(* has it in it or is in it; and a model is picked among those that see    *)
(* images wherever there are such models.                                  *)
(***************************************************************************)

Name == Seq(Nat)

\* The files as the program reads them: the providers of models-store.json are the keys of
\* an object, each there once and none of them empty.
VisionInput ==
    /\ store \in Seq([id : Name \ {Missing}, models : Seq([id : Name, sees : {"yes", "no", "unsaid"}, url : BOOLEAN])])
    /\ \A i, j \in 1..Len(store) : store[i].id = store[j].id => i = j
    /\ setting.models \in Seq([name : Name, registry : BOOLEAN, provider : Name, model : Name, url : BOOLEAN,
                               key : {"none", "literal", "env", "unset"}])
    /\ setting.flat \in SUBSET [provider : Name, model : Name, substring : BOOLEAN, url : BOOLEAN,
                                key : {"none", "literal", "env", "unset"}]
    /\ keys \subseteq Name

VisionSpec ==
    /\ VisionInput /\ visionCall = "called" /\ backend = NoBackend
    /\ [][VisionNext]_visionVars

\* While the call is on its way, it goes where the settings say.
VisionInv ==
    /\ VisionInput
    /\ visionCall = "sent" => backend = ResolveTarget /\ backend # NoBackend

-----------------------------------------------------------------------------

\* Each name is a part of itself, and the empty one of all.
LEMMA WithinItself ==
    ASSUME NEW n \in Name
    PROVE  Within(n, n) /\ Within(Missing, n)
<1>1. Len(n) \in Nat /\ Len(Missing) = 0 /\ 0 \in 0..Len(n)
  BY DEF Name, Missing
<1>2. SubSeq(n, 0 + 1, 0 + Len(n)) = n
  BY <1>1 DEF Name
<1>3. SubSeq(n, 0 + 1, 0 + Len(Missing)) = Missing
  BY <1>1 DEF Name, Missing
<1>4. 0 + Len(n) <= Len(n) /\ 0 + Len(Missing) <= Len(n)
  BY <1>1
<1> QED
  BY <1>1, <1>2, <1>3, <1>4 DEF Within

LEMMA RelatedItself ==
    ASSUME NEW n \in Name
    PROVE  Related(n, n) /\ Related(Missing, n)
BY WithinItself DEF Related

LEMMA LeastIsOne == ASSUME NEW I \in SUBSET Nat, I # {} PROVE Least(I) \in I
BY LeastOf DEF Least

\* What is found is at one of the places.
LEMMA FirstIs ==
    ASSUME NEW names, NEW I \in SUBSET Nat, FirstAt(names, I) # Missing
    PROVE  \E i \in I : FirstAt(names, I) = names[i]
BY LeastIsOne DEF FirstAt

\* fuzzyPick: a name at one of the places that has to do with the one asked for, and that
\* one itself if it is there.
LEMMA PickIs ==
    ASSUME NEW n \in Name, NEW names, NEW I \in SUBSET Nat, \A i \in I : names[i] \in Name,
           Pick(n, names, I) # Missing
    PROVE  /\ \E i \in I : Pick(n, names, I) = names[i]
           /\ Related(n, Pick(n, names, I))
           /\ (\E i \in I : names[i] = n) => Pick(n, names, I) = n
<1> DEFINE Exact == {i \in I : names[i] = n}
           Longer == {i \in I : Within(n, names[i])}
           Shorter == {i \in I : Within(names[i], n)}
           J == Preferred(Exact, Preferred(Longer, Shorter))
<1>1. Pick(n, names, I) = FirstAt(names, J)
  BY DEF Pick
<1>2. J \in SUBSET Nat /\ J \in SUBSET I
  BY DEF Preferred
<1>3. Exact # {} => J = Exact
  BY DEF Preferred
<1>4. \A i \in J : Related(n, names[i])
  <2>1. \A i \in Exact : Related(n, names[i])
    BY RelatedItself
  <2>2. \A i \in Longer \cup Shorter : Related(n, names[i])
    BY DEF Related
  <2> QED
    BY <2>1, <2>2 DEF Preferred
<1>5. \A i \in Exact : names[i] = n
  OBVIOUS
<1>6. (\E i \in I : names[i] = n) => Exact # {}
  OBVIOUS
<1> HIDE DEF J, Exact
<1>7. PICK i \in J : FirstAt(names, J) = names[i]
  BY <1>1, <1>2, FirstIs
<1> QED
  BY <1>1, <1>2, <1>3, <1>4, <1>5, <1>6, <1>7

Model == [id : Name, sees : {"yes", "no", "unsaid"}, url : BOOLEAN]

LEMMA ElementOf ==
    ASSUME NEW T, NEW s \in Seq(T), NEW i \in 1..Len(s)
    PROVE  s[i] \in T
OBVIOUS

LEMMA IdsAre ==
    ASSUME NEW models \in Seq(Model)
    PROVE  \A i \in 1..Len(models) : Ids(models)[i] = models[i].id /\ models[i].id \in Name
<1> TAKE i \in 1..Len(models)
<1>1. models[i] \in Model
  BY ElementOf
<1>2. models[i].id \in Name
  BY <1>1 DEF Model
<1> QED
  BY <1>2 DEF Ids

\* The model that is sent to if none is named sees images.
LEMMA DefaultModelSees ==
    ASSUME NEW models \in Seq(Model), DefaultModel(models) # Missing
    PROVE  \E i \in 1..Len(models) : models[i].id = DefaultModel(models) /\ Capable(models[i])
<1> DEFINE J == Preferred(Lunas(models), Seeing(models))
<1>1. J \in SUBSET Nat /\ J \subseteq Seeing(models)
  BY DEF Preferred, Lunas, Seeing
<1>2. DefaultModel(models) = FirstAt(Ids(models), J)
  BY DEF DefaultModel
<1> HIDE DEF J
<1>3. PICK i \in J : DefaultModel(models) = Ids(models)[i]
  BY <1>1, <1>2, FirstIs
<1> QED
  BY <1>1, <1>3 DEF Seeing, Ids

\* A model of these that sees images, or any name if none of them does.
SeesOrNone(models, m) ==
    \/ \E i \in 1..Len(models) : models[i].id = m /\ Capable(models[i])
    \/ \A i \in 1..Len(models) : ~Capable(models[i])

\* The model that is picked for a name: it has to do with the name, and sees images if one
\* of them does and the choice is among these.
LEMMA PickedModel ==
    ASSUME NEW models \in Seq(Model), NEW n \in Name, NEW J \in SUBSET (1..Len(models)),
           NEW m, m # Missing,
           n = Missing => m = DefaultModel(models), n # Missing => m = Pick(n, Ids(models), J)
    PROVE  /\ Related(n, m)
           /\ J = Preferred(Seeing(models), 1..Len(models)) => SeesOrNone(models, m)
<1> DEFINE ids == Ids(models)
<1>1. \A i \in 1..Len(models) : ids[i] = models[i].id /\ ids[i] \in Name
  BY IdsAre
<1>2. CASE n = Missing
  <2>1. PICK i \in 1..Len(models) : models[i].id = m /\ Capable(models[i])
    BY <1>2, DefaultModelSees
  <2>2. m \in Name
    BY <1>1, <2>1
  <2>3. SeesOrNone(models, m)
    BY <2>1 DEF SeesOrNone
  <2> QED
    BY <1>2, <2>2, <2>3, RelatedItself
<1>3. CASE n # Missing
  <2>1. J \in SUBSET Nat
    OBVIOUS
  <2>2. J = Preferred(Seeing(models), 1..Len(models)) => J = Seeing(models) \/ Seeing(models) = {}
    BY DEF Preferred
  <2>3. m = Pick(n, ids, J)
    BY <1>3
  <2>4. \A i \in J : ids[i] \in Name
    BY <1>1, <2>1
  <2> HIDE DEF ids
  <2>5. Related(n, m) /\ \E i \in J : m = ids[i]
    BY <2>1, <2>3, <2>4, PickIs
  <2>6. PICK i \in J : m = ids[i]
    BY <2>5
  <2>7. Seeing(models) = {} => \A k \in 1..Len(models) : ~Capable(models[k])
    BY DEF Seeing
  <2>8. i \in Seeing(models) => models[i].id = m /\ Capable(models[i])
    BY <1>1, <2>1, <2>6 DEF Seeing
  <2>9. J = Preferred(Seeing(models), 1..Len(models)) => SeesOrNone(models, m)
    BY <2>2, <2>6, <2>7, <2>8 DEF SeesOrNone
  <2> QED
    BY <2>5, <2>9
<1> QED
  BY <1>2, <1>3

-----------------------------------------------------------------------------

LEMMA BackendIs ==
    ASSUME NEW m, NEW p, NEW h, NEW k, Backend(m, p, h, k) # NoBackend
    PROVE  m # Missing /\ Backend(m, p, h, k).model = m /\ Backend(m, p, h, k).provider = p
BY DEF Backend

\* The places of the store.
LEMMA ProvidersAre ==
    ASSUME VisionInput
    PROVE  /\ \A i \in 1..Len(store) : ProviderIds[i] = store[i].id /\ store[i].id \in Name /\ store[i].id # Missing
           /\ \A i \in 1..Len(store) : store[i].models \in Seq(Model)
           /\ \A i \in 1..Len(store) : ModelsOf(store[i].id) = store[i].models
           /\ \A p : ModelsOf(p) \in Seq(Model)
<1> DEFINE T == [id : Name \ {Missing}, models : Seq(Model)]
<1>1. store \in Seq(T)
  BY DEF VisionInput, Model
<1>2. \A i \in 1..Len(store) : store[i] \in T
  <2> HIDE DEF T
  <2> QED
    BY <1>1, ElementOf
<1>3. \A i \in 1..Len(store) : store[i].id \in Name /\ store[i].id # Missing /\ store[i].models \in Seq(Model)
  BY <1>2
<1>4. \A i \in 1..Len(store) : ProviderIds[i] = store[i].id
  BY DEF ProviderIds
<1>5. ASSUME NEW p, NEW ofIt, ofIt = {i \in 1..Len(store) : store[i].id = p}, ofIt # {}
      PROVE  Least(ofIt) \in 1..Len(store) /\ store[Least(ofIt)].id = p
  <2>1. ofIt \in SUBSET Nat
    BY <1>5
  <2>2. Least(ofIt) \in ofIt
    BY <1>5, <2>1, LeastIsOne
  <2> QED
    BY <1>5, <2>2
<1>6. \A p : ModelsOf(p) \in Seq(Model)
  <2> TAKE p
  <2> DEFINE ofIt == {i \in 1..Len(store) : store[i].id = p}
  <2>1. CASE ofIt = {}
    <3>1. ModelsOf(p) = << >>
      BY <2>1 DEF ModelsOf
    <3> QED
      BY <3>1
  <2>2. CASE ofIt # {}
    <3>1. ModelsOf(p) = store[Least(ofIt)].models
      BY <2>2 DEF ModelsOf
    <3>2. Least(ofIt) \in 1..Len(store)
      BY <1>5, <2>2
    <3> QED
      BY <1>3, <3>1, <3>2
  <2> QED
    BY <2>1, <2>2
<1>7. ASSUME NEW i \in 1..Len(store) PROVE ModelsOf(store[i].id) = store[i].models
  <2> DEFINE ofIt == {j \in 1..Len(store) : store[j].id = store[i].id}
  <2>1. ofIt # {}
    OBVIOUS
  <2>2. ModelsOf(store[i].id) = store[Least(ofIt)].models
    BY <2>1 DEF ModelsOf
  <2>3. Least(ofIt) \in 1..Len(store) /\ store[Least(ofIt)].id = store[i].id
    BY <1>5, <2>1
  <2>4. Least(ofIt) = i
    BY <2>3 DEF VisionInput
  <2> QED
    BY <2>2, <2>4
<1> QED
  BY <1>3, <1>4, <1>6, <1>7

\* What the settings mean: a provider that has to do with the name asked for, the one of
\* that name if there is one, and so with the model; and one that sees images.
Meant(e, all, b) ==
    /\ Related(e.provider, b.provider) /\ Related(e.model, b.model)
    /\ (\E i \in 1..Len(store) : store[i].id = e.provider) => b.provider = e.provider
    /\ all \/ SeesOrNone(ModelsOf(b.provider), b.model)

\* The first provider stands in for one that is not named.
LEMMA AnyProvider ==
    ASSUME VisionInput, NEW p, p # Missing, p = FirstAt(ProviderIds, 1..Len(store))
    PROVE  Related(Missing, p) /\ \A i \in 1..Len(store) : store[i].id # Missing
<1>1. 1..Len(store) \in SUBSET Nat
  OBVIOUS
<1>2. PICK i \in 1..Len(store) : p = ProviderIds[i]
  BY <1>1, FirstIs
<1>3. p \in Name
  BY <1>2, ProvidersAre
<1> QED
  BY <1>3, ProvidersAre, RelatedItself

LEMMA RegistryIsMeant ==
    ASSUME VisionInput, NEW e, e.provider \in Name, e.model \in Name,
           Registry(e) # NoBackend, Registry(e).provider # Missing
    PROVE  Meant(e, FALSE, Registry(e))
<1> DEFINE all == 1..Len(store)
           p == IF e.provider # Missing THEN Pick(e.provider, ProviderIds, all) ELSE FirstAt(ProviderIds, all)
           models == ModelsOf(p)
           m == IF e.model = Missing THEN DefaultModel(models)
                ELSE Pick(e.model, Ids(models), Preferred(Seeing(models), 1..Len(models)))
<1>1. Registry(e) = Backend(m, p, HostOf(p, m), StoredKey(p))
  BY DEF Registry
<1>2. models \in Seq(Model)
  BY ProvidersAre
<1>3. /\ p # Missing => Related(e.provider, p)
      /\ p # Missing => ((\E i \in all : store[i].id = e.provider) => p = e.provider)
  <2> SUFFICES ASSUME p # Missing
               PROVE  Related(e.provider, p) /\ ((\E i \in all : store[i].id = e.provider) => p = e.provider)
    OBVIOUS
  <2>1. CASE e.provider = Missing
    <3>1. p = FirstAt(ProviderIds, 1..Len(store))
      BY <2>1
    <3> HIDE DEF p
    <3> QED
      BY <2>1, <3>1, AnyProvider
  <2>2. CASE e.provider # Missing
    <3>1. p = Pick(e.provider, ProviderIds, all)
      BY <2>2
    <3>2. all \in SUBSET Nat /\ \A i \in all : ProviderIds[i] \in Name /\ ProviderIds[i] = store[i].id
      BY ProvidersAre
    <3> HIDE DEF p, all
    <3>3. Related(e.provider, p) /\ ((\E i \in all : ProviderIds[i] = e.provider) => p = e.provider)
      BY <3>1, <3>2, PickIs
    <3> QED
      BY <3>2, <3>3
  <2> QED
    BY <2>1, <2>2
<1> HIDE DEF p
<1>4. m # Missing => Related(e.model, m) /\ SeesOrNone(models, m)
  <2> DEFINE J == Preferred(Seeing(models), 1..Len(models))
  <2>1. /\ e.model = Missing => m = DefaultModel(models)
        /\ e.model # Missing => m = Pick(e.model, Ids(models), J)
    OBVIOUS
  <2>2. J \in SUBSET (1..Len(models))
    BY DEF Preferred, Seeing
  <2>3. J = Preferred(Seeing(models), 1..Len(models))
    OBVIOUS
  <2> HIDE DEF models, m, J
  <2> HAVE m # Missing
  <2>4. Related(e.model, m)
    BY <1>2, <2>1, <2>2, PickedModel
  <2>5. J = Preferred(Seeing(models), 1..Len(models)) => SeesOrNone(models, m)
    BY <1>2, <2>1, <2>2, PickedModel
  <2> QED
    BY <2>3, <2>4, <2>5
<1> HIDE DEF m, models
<1>5. m # Missing /\ Registry(e).model = m /\ Registry(e).provider = p
  BY <1>1, BackendIs
<1>6. p # Missing
  BY <1>5
<1> QED
  BY <1>3, <1>4, <1>5, <1>6 DEF Meant, models

LEMMA LegacyIsMeant ==
    ASSUME VisionInput, NEW f, f.provider \in Name, f.model \in Name, f.substring \in BOOLEAN,
           Legacy(f) # NoBackend, Legacy(f).provider # Missing
    PROVE  Meant(f, f.substring, Legacy(f))
<1> DEFINE p == IF f.provider # Missing THEN f.provider ELSE FirstAt(ProviderIds, 1..Len(store))
           models == ModelsOf(p)
           m == IF f.model = Missing THEN DefaultModel(models)
                ELSE Pick(f.model, Ids(models),
                          IF f.substring THEN 1..Len(models) ELSE Preferred(Seeing(models), 1..Len(models)))
           key == IF f.key = "none" THEN StoredKey(p) ELSE IF Given(f.key) THEN ConfigHost ELSE Missing
           host == IF f.url THEN ConfigHost ELSE HostOf(p, m)
<1>1. Legacy(f) = Backend(m, p, host, key)
  BY DEF Legacy
<1>2. models \in Seq(Model)
  BY ProvidersAre
<1>3. p # Missing => /\ Related(f.provider, p)
                     /\ (\E i \in 1..Len(store) : store[i].id = f.provider) => p = f.provider
  <2>1. CASE f.provider = Missing
    <3>1. p = FirstAt(ProviderIds, 1..Len(store))
      BY <2>1
    <3> HIDE DEF p
    <3> QED
      BY <2>1, <3>1, AnyProvider
  <2>2. CASE f.provider # Missing
    BY <2>2, RelatedItself
  <2> QED
    BY <2>1, <2>2
<1> HIDE DEF p, key, host
<1>4. m # Missing => Related(f.model, m) /\ (f.substring \/ SeesOrNone(models, m))
  <2> DEFINE J == IF f.substring THEN 1..Len(models) ELSE Preferred(Seeing(models), 1..Len(models))
  <2>1. /\ f.model = Missing => m = DefaultModel(models)
        /\ f.model # Missing => m = Pick(f.model, Ids(models), J)
    OBVIOUS
  <2>2. J \in SUBSET (1..Len(models))
    BY DEF Preferred, Seeing
  <2>3. ~f.substring => J = Preferred(Seeing(models), 1..Len(models))
    OBVIOUS
  <2> HIDE DEF models, m, J
  <2> HAVE m # Missing
  <2>4. Related(f.model, m)
    BY <1>2, <2>1, <2>2, PickedModel
  <2>5. J = Preferred(Seeing(models), 1..Len(models)) => SeesOrNone(models, m)
    BY <1>2, <2>1, <2>2, PickedModel
  <2> QED
    BY <2>3, <2>4, <2>5
<1> HIDE DEF m, models
<1>5. m # Missing /\ Legacy(f).model = m /\ Legacy(f).provider = p
  BY <1>1, BackendIs
<1>6. p # Missing
  BY <1>5
<1> QED
  BY <1>3, <1>4, <1>5, <1>6 DEF Meant, models

LEMMA DefaultLunaIsMeant ==
    ASSUME VisionInput, DefaultLuna # NoBackend,
           NEW e, e.provider = Missing, e.model = Missing
    PROVE  Meant(e, FALSE, DefaultLuna)
<1> DEFINE having == {i \in 1..Len(store) : Lunas(store[i].models) # {}}
           k == Least(having)
           models == store[k].models
           l == Least(Lunas(models))
           m == models[l].id
<1>1. having # {} /\ DefaultLuna = Backend(m, store[k].id, HostOf(store[k].id, m), StoredKey(store[k].id))
  BY DEF DefaultLuna
<1>2. k \in 1..Len(store) /\ Lunas(models) # {}
  <2>1. having \in SUBSET Nat
    OBVIOUS
  <2>2. k \in having
    BY <1>1, <2>1, LeastIsOne
  <2> QED
    BY <2>2
<1> HIDE DEF k
<1>3. store[k].id \in Name /\ store[k].id # Missing /\ models \in Seq(Model) /\ ModelsOf(store[k].id) = models
  BY <1>2, ProvidersAre
<1> HIDE DEF models
<1>4. l \in 1..Len(models) /\ Capable(models[l])
  <2>1. Lunas(models) \in SUBSET Nat
    BY DEF Lunas, Seeing
  <2>2. l \in Lunas(models)
    BY <1>2, <2>1, LeastIsOne
  <2> QED
    BY <2>2 DEF Lunas, Seeing
<1> HIDE DEF l
<1>5. m \in Name
  BY <1>3, <1>4, IdsAre
<1>6. DefaultLuna.model = m /\ DefaultLuna.provider = store[k].id
  <2> HIDE DEF m
  <2> QED
    BY <1>1, BackendIs
<1>7. Related(e.provider, store[k].id) /\ Related(e.model, m)
  BY <1>3, <1>5, RelatedItself
<1>8. \A i \in 1..Len(store) : store[i].id # e.provider
  BY ProvidersAre
<1>9. SeesOrNone(models, m)
  BY <1>4 DEF SeesOrNone
<1> HIDE DEF m
<1> QED
  BY <1>3, <1>6, <1>7, <1>8, <1>9 DEF Meant

-----------------------------------------------------------------------------

LEMMA TargetIsMeant ==
    ASSUME VisionInput, ResolveTarget # NoBackend, ResolveTarget.provider # Missing
    PROVE  \/ Meant(Asked, FALSE, ResolveTarget)
           \/ \E f \in Flat : Meant(Asked, f.substring, ResolveTarget)
<1> DEFINE entry == setting.models[Least(Active)]
<1>1. CASE Active # {}
  <2>1. Active \in SUBSET Nat
    BY DEF Active
  <2>2. Least(Active) \in 1..Len(setting.models)
    BY <1>1, <2>1, LeastIsOne DEF Active
  <2>3. entry.provider \in Name /\ entry.model \in Name /\ Asked = entry
    <3> DEFINE T == [name : Name, registry : BOOLEAN, provider : Name, model : Name, url : BOOLEAN,
                     key : {"none", "literal", "env", "unset"}]
    <3>1. setting.models \in Seq(T)
      BY DEF VisionInput
    <3>2. entry \in T
      <4> HIDE DEF T
      <4> QED
        BY <2>2, <3>1, ElementOf
    <3>3. Asked = entry
      BY <1>1 DEF Asked
    <3> HIDE DEF entry
    <3> QED
      BY <3>2, <3>3
  <2>4. ResolveTarget = IF entry.registry THEN Registry(entry) ELSE Responses(entry)
    BY <1>1 DEF ResolveTarget
  <2>5. entry.registry
    BY <2>4 DEF Responses, Backend, NoBackend
  <2>6. ResolveTarget = Registry(entry)
    BY <2>4, <2>5
  <2> HIDE DEF entry
  <2> QED
    BY <2>3, <2>6, RegistryIsMeant
<1>2. CASE Active = {} /\ Flat # {}
  <2> DEFINE f == CHOOSE g \in Flat : TRUE
  <2>1. f \in Flat /\ Asked = f
    BY <1>2 DEF Asked
  <2>2. f \in setting.flat
    BY <2>1 DEF Flat
  <2>3. f.provider \in Name /\ f.model \in Name /\ f.substring \in BOOLEAN
    BY <2>2 DEF VisionInput
  <2>4. ResolveTarget = Legacy(f)
    BY <1>2 DEF ResolveTarget
  <2> HIDE DEF f
  <2> QED
    BY <2>1, <2>3, <2>4, LegacyIsMeant
<1>3. CASE Active = {} /\ Flat = {}
  <2>1. Asked = [provider |-> Missing, model |-> Missing]
    BY <1>3 DEF Asked
  <2>2. Asked.provider = Missing /\ Asked.model = Missing
    BY <2>1
  <2>3. ResolveTarget = DefaultLuna
    BY <1>3 DEF ResolveTarget
  <2> QED
    BY <2>2, <2>3, DefaultLunaIsMeant
<1> QED
  BY <1>1, <1>2, <1>3

LEMMA SentIsMeant == VisionInv => ImagesGoWhereMeant
<1> SUFFICES ASSUME VisionInv, visionCall = "sent", backend.provider # Missing
             PROVE  /\ Related(Asked.provider, backend.provider) /\ Related(Asked.model, backend.model)
                    /\ (\E i \in 1..Len(store) : store[i].id = Asked.provider) => backend.provider = Asked.provider
                    /\ (\A f \in Flat : ~f.substring) =>
                         LET models == ModelsOf(backend.provider)
                         IN \/ \E i \in 1..Len(models) : models[i].id = backend.model /\ Capable(models[i])
                            \/ \A i \in 1..Len(models) : ~Capable(models[i])
  BY DEF ImagesGoWhereMeant, NoStrangers, SeesImages
<1>1. VisionInput /\ backend = ResolveTarget /\ backend # NoBackend
  BY DEF VisionInv
<1>2. Meant(Asked, FALSE, backend) \/ \E f \in Flat : Meant(Asked, f.substring, backend)
  BY <1>1, TargetIsMeant
<1> QED
  BY <1>2 DEF Meant, SeesOrNone

LEMMA VisionStepInv == VisionInv /\ [VisionNext]_visionVars => VisionInv'
<1> SUFFICES ASSUME VisionInv, [VisionNext]_visionVars PROVE VisionInv'
  OBVIOUS
<1>1. UNCHANGED <<setting, store, keys>>
  BY DEF VisionNext, Refuse, Send, Receive, visionVars
<1>2. VisionInput'
  BY <1>1 DEF VisionInv, VisionInput
<1>3. ResolveTarget' = ResolveTarget
  <2>1. Active' = Active /\ Flat' = Flat /\ ProviderIds' = ProviderIds
    BY <1>1 DEF Active, Flat, ProviderIds
  <2>2. \A p : ModelsOf(p)' = ModelsOf(p) /\ StoredKey(p)' = StoredKey(p)
    BY <1>1 DEF ModelsOf, StoredKey
  <2>3. \A p, m : HostOf(p, m)' = HostOf(p, m)
    BY <2>2 DEF HostOf
  <2>4. \A e : Registry(e)' = Registry(e)
    BY <1>1, <2>1, <2>2, <2>3 DEF Registry
  <2>5. \A f : Legacy(f)' = Legacy(f)
    BY <1>1, <2>1, <2>2, <2>3 DEF Legacy
  <2>6. DefaultLuna' = DefaultLuna
    BY <1>1, <2>1, <2>2, <2>3 DEF DefaultLuna
  <2> QED
    BY <1>1, <2>1, <2>4, <2>5, <2>6 DEF ResolveTarget
<1>4. visionCall' = "sent" => backend' = ResolveTarget /\ backend' # NoBackend
  BY DEF VisionInv, VisionNext, Refuse, Send, Receive, visionVars
<1> QED
  BY <1>2, <1>3, <1>4 DEF VisionInv

\* resolveTarget, for settings of any form: images go to no provider or model that has
\* nothing to do with the names asked for, to the one of the name itself if there is one, and
\* to a model that sees images where there is one.
THEOREM ImagesStayWhereMeant == VisionSpec => []ImagesGoWhereMeant
<1>1. VisionInput /\ visionCall = "called" /\ backend = NoBackend => VisionInv
  BY DEF VisionInv
<1> QED
  BY <1>1, VisionStepInv, SentIsMeant, PTL DEF VisionSpec

=============================================================================

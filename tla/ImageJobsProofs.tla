--------------------------- MODULE ImageJobsProofs ---------------------------
(***************************************************************************)
(* What image jobs promise about files, for any number of calls and paths. *)
(*                                                                         *)
(* The argument: a reservation lasts exactly as long as its call is busy,  *)
(* so of the calls for one path one is busy; and an image that was copied  *)
(* lies at its path until its own job takes it back, because nobody else   *)
(* writes where something is.                                              *)
(***************************************************************************)
EXTENDS ImageJobs, TLAPS

Steps == {"idle"} \cup Busy \cup Over

TypeOK ==
    /\ path \in [Jobs -> Paths]
    /\ step \in [Jobs -> Steps]
    /\ file \in [Paths -> Jobs \cup {NoFile, Foreign}]
    /\ posted \in [Jobs -> {"none", "completed", "failed"}]

Delivered(j) ==
    \/ step[j] = "unlink"
    \/ step[j] \in {"close", "clean"} /\ j \notin failure
    \/ posted[j] = "completed"

\* What was copied, and not taken back since, is there.
DeliveredStays == \A j \in Jobs : Delivered(j) => file[path[j]] = j

PostedIsOver == \A j \in Jobs : posted[j] # "none" => step[j] = "done"

IInv == TypeOK /\ OneJobPerPath /\ DeliveredStays /\ PostedIsOver

-----------------------------------------------------------------------------

LEMMA InitInv == Init => IInv
BY JobsAssumption DEF Init, IInv, TypeOK, Steps, OneJobPerPath, DeliveredStays, Delivered, PostedIsOver, Busy, Over

\* A call stays on its path and stays busy, or has never been: nothing of the reservations
\* changes.
LEMMA SameHolders ==
    ASSUME IInv, UNCHANGED <<path, reserved>>, step' \in [Jobs -> Steps],
           \A j \in Jobs : step'[j] \in Busy <=> step[j] \in Busy
    PROVE  OneJobPerPath'
<1>1. \A i, j \in Jobs : {step'[i], step'[j]} \subseteq Busy => {step[i], step[j]} \subseteq Busy
    OBVIOUS
<1>2. {j \in Jobs : step'[j] \in Busy} = {j \in Jobs : step[j] \in Busy}
    OBVIOUS
<1> QED
    BY <1>1, <1>2 DEF IInv, OneJobPerPath

\* The call that ends was the only one on its path.
LEMMA Release ==
    ASSUME IInv, NEW j \in Jobs, step[j] \in Busy, UNCHANGED path,
           step' \in [Jobs -> Steps], step'[j] \notin Busy, \A i \in Jobs \ {j} : step'[i] = step[i],
           reserved' = reserved \ {path[j]}
    PROVE  OneJobPerPath'
<1>1. \A i, k \in Jobs : i # k /\ path'[i] = path'[k] => ~({step'[i], step'[k]} \subseteq Busy)
    BY DEF IInv, OneJobPerPath
<1>2. \A i \in Jobs : step'[i] \in Busy => step[i] \in Busy /\ i # j /\ path[i] # path[j]
    BY DEF IInv, OneJobPerPath
<1>3. reserved' = {path'[i] : i \in {k \in Jobs : step'[k] \in Busy}}
    BY <1>2 DEF IInv, OneJobPerPath
<1> QED
    BY <1>1, <1>3 DEF OneJobPerPath

-----------------------------------------------------------------------------

LEMMA ExecuteStep == ASSUME IInv, NEW j \in Jobs, Execute(j) PROVE IInv'
<1>1. /\ UNCHANGED <<path, failure, posted, file>> /\ step[j] = "idle"
      /\ step' \in [Jobs -> Steps] /\ \A i \in Jobs \ {j} : step'[i] = step[i]
      /\ step'[j] \in {"prepare", "refused"}
    BY DEF IInv, TypeOK, Steps, Busy, Over, Execute, Goto, At, disk
<1>2. OneJobPerPath'
    <2>1. CASE step'[j] = "refused"
        <3>1. UNCHANGED reserved
            BY <2>1, <1>1 DEF Execute, Goto, IInv, TypeOK
        <3> QED
            BY <3>1, <2>1, <1>1, SameHolders DEF Busy
    <2>2. CASE step'[j] = "prepare"
        <3>1. path[j] \notin reserved /\ reserved' = reserved \cup {path[j]}
            BY <2>2, <1>1 DEF Execute, Goto, IInv, TypeOK
        <3>2. \A i \in Jobs : step[i] \in Busy => path[i] # path[j]
            BY <3>1 DEF IInv, OneJobPerPath
        <3>3. \A i \in Jobs : step'[i] \in Busy <=> step[i] \in Busy \/ i = j
            BY <2>2, <1>1 DEF Busy
        <3>4. \A i, k \in Jobs : i # k /\ path'[i] = path'[k] => ~({step'[i], step'[k]} \subseteq Busy)
            BY <3>2, <3>3, <1>1 DEF IInv, OneJobPerPath
        <3>5. reserved' = {path'[i] : i \in {k \in Jobs : step'[k] \in Busy}}
            BY <3>1, <3>3, <1>1 DEF IInv, OneJobPerPath
        <3> QED
            BY <3>4, <3>5 DEF OneJobPerPath
    <2> QED
        BY <2>1, <2>2, <1>1
<1>3. DeliveredStays' /\ PostedIsOver' /\ TypeOK'
    BY <1>1 DEF IInv, TypeOK, DeliveredStays, Delivered, PostedIsOver
<1> QED
    BY <1>2, <1>3 DEF IInv

\* The launch and the wait: no file is touched.
LEMMA QuietStep ==
    ASSUME IInv, NEW j \in Jobs,
           Prepare(j) \/ StartShell(j) \/ Register(j) \/ WaitForCodex(j) \/ CloseShell(j)
    PROVE  IInv'
<1>1. /\ UNCHANGED <<path, reserved, posted, file>> /\ failure \subseteq failure'
      /\ step' \in [Jobs -> Steps] /\ \A i \in Jobs \ {j} : step'[i] = step[i]
      /\ step[j] \in Busy /\ step'[j] \in Busy \ {"unlink"}
    BY DEF IInv, TypeOK, Steps, Busy, Over, Prepare, StartShell, Register, WaitForCodex, CloseShell,
           Goto, At, disk
<1>2. step'[j] \in {"close", "clean"} /\ j \notin failure' => step[j] = "close" /\ j \notin failure
    BY DEF IInv, TypeOK, Prepare, StartShell, Register, WaitForCodex, CloseShell, Goto, At
<1>3. OneJobPerPath'
    BY <1>1, SameHolders
<1>4. TypeOK' /\ DeliveredStays' /\ PostedIsOver'
    BY <1>1, <1>2 DEF IInv, TypeOK, DeliveredStays, Delivered, PostedIsOver, Busy
<1> QED
    BY <1>3, <1>4 DEF IInv

LEMMA LaunchFailsStep == ASSUME IInv, NEW j \in Jobs, LaunchFails(j) PROVE IInv'
<1>1. /\ UNCHANGED <<path, failure, posted, file>> /\ reserved' = reserved \ {path[j]}
      /\ step' \in [Jobs -> Steps] /\ \A i \in Jobs \ {j} : step'[i] = step[i]
      /\ step[j] \in Busy /\ step[j] # "done" /\ step'[j] = "refused"
    BY DEF IInv, TypeOK, Steps, Busy, Over, LaunchFails, Goto
<1>2. OneJobPerPath'
    BY <1>1, Release DEF Busy
<1>3. TypeOK' /\ DeliveredStays' /\ PostedIsOver'
    BY <1>1 DEF IInv, TypeOK, DeliveredStays, Delivered, PostedIsOver
<1> QED
    BY <1>2, <1>3 DEF IInv

LEMMA CopyStep == ASSUME IInv, NEW j \in Jobs, Copy(j) PROVE IInv'
<1>1. /\ UNCHANGED <<path, reserved, posted>> /\ failure \subseteq failure'
      /\ step' \in [Jobs -> Steps] /\ \A i \in Jobs \ {j} : step'[i] = step[i]
      /\ step[j] = "copy" /\ step'[j] \in {"unlink", "close"} /\ path[j] \in Paths
    BY DEF IInv, TypeOK, Steps, Busy, Over, Copy, Goto, At
<1>2. OneJobPerPath'
    BY <1>1, SameHolders DEF Busy
<1>3. CASE /\ file[path[j]] = NoFile /\ file' = [file EXCEPT ![path[j]] = j]
           /\ step'[j] = "unlink" /\ UNCHANGED failure
    BY <1>1, <1>2, <1>3, JobsAssumption DEF IInv, TypeOK, DeliveredStays, Delivered, PostedIsOver
<1>4. CASE step'[j] = "close" /\ j \in failure' /\ UNCHANGED file
    BY <1>1, <1>2, <1>4 DEF IInv, TypeOK, DeliveredStays, Delivered, PostedIsOver
<1> QED
    BY <1>3, <1>4 DEF IInv, TypeOK, Copy, Goto

LEMMA UnlinkStep == ASSUME IInv, NEW j \in Jobs, Unlink(j) PROVE IInv'
<1>1. /\ UNCHANGED <<path, reserved, posted>> /\ failure \subseteq failure'
      /\ step' \in [Jobs -> Steps] /\ \A i \in Jobs \ {j} : step'[i] = step[i]
      /\ step[j] = "unlink" /\ step'[j] = "close" /\ path[j] \in Paths
      /\ file[path[j]] = j /\ posted[j] = "none"
    BY DEF IInv, TypeOK, Steps, Busy, Over, Unlink, Goto, At, DeliveredStays, Delivered, PostedIsOver
<1>2. OneJobPerPath'
    BY <1>1, SameHolders DEF Busy
<1>3. CASE UNCHANGED <<file, failure>>
    BY <1>1, <1>2, <1>3 DEF IInv, TypeOK, DeliveredStays, Delivered, PostedIsOver
<1>4. CASE file' = [file EXCEPT ![path[j]] = NoFile] /\ j \in failure'
    BY <1>1, <1>2, <1>4 DEF IInv, TypeOK, DeliveredStays, Delivered, PostedIsOver
<1> QED
    BY <1>3, <1>4 DEF Unlink

LEMMA CleanStep == ASSUME IInv, NEW j \in Jobs, Clean(j) PROVE IInv'
<1>1. /\ UNCHANGED <<path, failure, file>> /\ reserved' = reserved \ {path[j]}
      /\ step' \in [Jobs -> Steps] /\ \A i \in Jobs \ {j} : step'[i] = step[i]
      /\ step[j] = "clean" /\ step'[j] \in {"done", "rejected"}
      /\ step'[j] = "rejected" => UNCHANGED posted
    BY DEF IInv, TypeOK, Steps, Busy, Over, Clean, Goto, At
<1>2. OneJobPerPath'
    BY <1>1, Release DEF Busy
<1>3. \/ UNCHANGED posted
      \/ posted' = [posted EXCEPT ![j] = IF j \in failure THEN "failed" ELSE "completed"]
    BY DEF Clean, Post
<1>4. TypeOK'
    BY <1>1, <1>3 DEF IInv, TypeOK
<1>5. PostedIsOver' /\ DeliveredStays'
    BY <1>1, <1>3 DEF IInv, TypeOK, PostedIsOver, DeliveredStays, Delivered
<1> QED
    BY <1>2, <1>4, <1>5 DEF IInv

\* What touches neither calls nor their files.
LEMMA OtherStep ==
    ASSUME IInv, \/ Shutdown \/ ShutdownEnds \/ Sweep
                 \/ \E j \in Jobs : CodexExits(j)
                 \/ \E p \in Paths : UserSaves(p)
    PROVE  IInv'
<1>1. UNCHANGED <<path, step, reserved, failure, posted>>
    BY DEF Shutdown, ShutdownEnds, Sweep, CodexExits, UserSaves, own
<1>2. \/ UNCHANGED file
      \/ \E p \in Paths : file[p] = NoFile /\ file' = [file EXCEPT ![p] = Foreign]
    BY DEF Shutdown, ShutdownEnds, Sweep, CodexExits, UserSaves, disk
<1>3. OneJobPerPath'
    BY <1>1 DEF IInv, OneJobPerPath
<1>4. TypeOK' /\ PostedIsOver' /\ DeliveredStays'
    BY <1>1, <1>2, JobsAssumption DEF IInv, TypeOK, PostedIsOver, DeliveredStays, Delivered
<1> QED
    BY <1>3, <1>4 DEF IInv

LEMMA NextInv == IInv /\ [Next]_vars => IInv'
<1> SUFFICES ASSUME IInv, [Next]_vars PROVE IInv'
    OBVIOUS
<1>1. ASSUME NEW j \in Jobs, Execute(j) \/ JobStep(j) PROVE IInv'
    BY <1>1, ExecuteStep, QuietStep, LaunchFailsStep, CopyStep, UnlinkStep, CleanStep DEF JobStep
<1>2. CASE UNCHANGED vars
    BY <1>2 DEF vars, own, disk, IInv, TypeOK, OneJobPerPath, DeliveredStays, Delivered, PostedIsOver
<1> QED
    BY <1>1, <1>2, OtherStep DEF Next

-----------------------------------------------------------------------------

\* However calls, failures, aborts and the end of the session interleave, one call at a time
\* works on a path, and the reservations are those of the busy calls.
THEOREM PathsAreExclusive == Spec => []OneJobPerPath
<1>1. IInv => OneJobPerPath
    BY DEF IInv
<1> QED
    BY InitInv, NextInv, <1>1, PTL DEF Spec

\* An image that is reported as completed lies at its path.
THEOREM CompletedIsThere == Spec => []DeliveredIsThere
<1>1. IInv => DeliveredIsThere
    BY DEF IInv, DeliveredStays, Delivered, DeliveredIsThere
<1> QED
    BY InitInv, NextInv, <1>1, PTL DEF Spec

\* Nothing that lies at a path is replaced, and only a job that has failed takes its own
\* image back.
THEOREM NothingIsOverwritten == Spec => NothingOverwritten
<1> DEFINE Kept == \A p \in Paths : file[p] # NoFile /\ file'[p] # file[p] =>
                       file'[p] = NoFile /\ \E j \in Jobs : file[p] = j /\ j \in failure'
<1>1. ASSUME IInv, NEW j \in Jobs, Copy(j) PROVE Kept
    <2>1. \/ UNCHANGED file
          \/ file[path[j]] = NoFile /\ file' = [file EXCEPT ![path[j]] = j]
        BY <1>1 DEF Copy
    <2> QED
        BY <1>1, <2>1 DEF IInv, TypeOK
<1>2. ASSUME IInv, NEW j \in Jobs, Unlink(j) PROVE Kept
    <2>1. file[path[j]] = j
        BY <1>2 DEF IInv, DeliveredStays, Delivered, Unlink, At
    <2>2. \/ UNCHANGED file
          \/ file' = [file EXCEPT ![path[j]] = NoFile] /\ j \in failure'
        BY <1>2 DEF Unlink
    <2> QED
        BY <1>2, <2>1, <2>2 DEF IInv, TypeOK
<1>3. ASSUME IInv, NEW p \in Paths, UserSaves(p) PROVE Kept
    BY <1>3 DEF UserSaves, IInv, TypeOK
<1>4. ASSUME NEW j \in Jobs,
             \/ Execute(j) \/ Prepare(j) \/ StartShell(j) \/ LaunchFails(j) \/ Register(j)
             \/ WaitForCodex(j) \/ CloseShell(j) \/ Clean(j) \/ CodexExits(j)
      PROVE  Kept
    BY <1>4 DEF Execute, Prepare, StartShell, LaunchFails, Register, WaitForCodex, CloseShell, Clean,
                CodexExits, disk
<1>5. ASSUME Shutdown \/ ShutdownEnds \/ Sweep \/ UNCHANGED vars PROVE Kept
    BY <1>5 DEF Shutdown, ShutdownEnds, Sweep, disk, vars
<1>6. IInv /\ [Next]_vars => [Kept]_vars
    BY <1>1, <1>2, <1>3, <1>4, <1>5 DEF Next, JobStep
<1> QED
    BY InitInv, NextInv, <1>6, PTL DEF Spec, NothingOverwritten

=============================================================================

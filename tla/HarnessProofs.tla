---------------------------- MODULE HarnessProofs ----------------------------
(* Theorems about a daemon of the browser harness without a lease: what it *)
(* does for its clients, and how commands start and stop it; and about the *)
(* release scripts.                                                        *)
EXTENDS TabRecovery, NamedDaemon, Release, DataLemmas

-----------------------------------------------------------------------------
(***************************************************************************)
(* A request of a named daemon runs on the tab it was meant for: for any   *)
(* number of tabs, requests, sessions and remembered replacements.         *)
(*                                                                         *)
(* The argument: who recovers holds the lock, so the current session stays *)
(* the one the request came for until it is replaced; what is recorded as  *)
(* its replacement is a session of the same tab, unless that tab has gone, *)
(* and remains so along the chains of replacements, also when the oldest   *)
(* are forgotten.                                                          *)
(***************************************************************************)

Places == {"idle", "sent", "stale", "list", "recheck", "create", "attach", "repeat", "done", "error"}
InLock == {"list", "recheck", "create", "attach"}

\* The sessions there have been.
Attached == 1..Len(tabOf)

TabTypeOK ==
    /\ open \subseteq Tabs
    /\ tabOf \in Seq(Tabs)
    /\ live \subseteq Attached /\ current \in Attached /\ switching \in Attached \cup {NoSession}
    /\ replaced \in Seq(Nat \X Nat)
    /\ at \in [TabRequests -> Places]
    /\ asked \in [TabRequests -> Nat]
    /\ goal \in [TabRequests -> Tabs \cup {NoTab} \cup Nat]
    /\ ran \in [TabRequests -> Tabs \cup {NoTab}]

TargetIsCurrent == target = tabOf[current]

\* A tab that is not shown any more has been closed.
NoneLost == \A s \in Attached : tabOf[s] \in open \cup gone

AskedExists == \A r \in TabRequests : at[r] # "idle" => asked[r] \in Attached

LockHeld == \A r \in TabRequests : at[r] \in InLock => holder = r /\ asked[r] = current

\* t will do for a request that came for session s.
Meant(s, t) == tabOf[s] = t \/ tabOf[s] \in gone

Leads == \A i \in 1..Len(replaced) :
            /\ replaced[i][1] \in Attached /\ replaced[i][2] \in Attached
            /\ Named => Meant(replaced[i][1], tabOf[replaced[i][2]])

Aims == Named => \A r \in TabRequests :
            /\ at[r] = "create" => tabOf[asked[r]] \in gone
            /\ at[r] = "attach" => Meant(asked[r], goal[r])
            /\ at[r] = "repeat" => goal[r] \in Attached /\ Meant(asked[r], tabOf[goal[r]])
            /\ at[r] = "done" => Meant(asked[r], ran[r])

TabInv == TabTypeOK /\ TargetIsCurrent /\ NoneLost /\ AskedExists /\ LockHeld /\ Leads /\ Aims

-----------------------------------------------------------------------------

LEMMA TabInitInv == TabInit => TabInv
<1> SUFFICES ASSUME TabInit PROVE TabInv
    OBVIOUS
<1> PICK t \in Tabs : TabInit!(t)
    BY DEF TabInit
<1>1. tabOf \in Seq(Tabs) /\ Len(tabOf) = 1 /\ tabOf[1] = t
    OBVIOUS
<1>2. replaced \in Seq(Nat \X Nat) /\ Len(replaced) = 0
    OBVIOUS
<1>3. TabTypeOK
    BY <1>1, <1>2 DEF TabTypeOK, Attached, NoSession, Places
<1>4. TargetIsCurrent /\ NoneLost /\ AskedExists /\ LockHeld /\ Leads /\ Aims
    BY <1>1, <1>2 DEF TargetIsCurrent, NoneLost, AskedExists, LockHeld, Leads, Aims, Attached, InLock
<1> QED
    BY <1>3, <1>4 DEF TabInv

\* A new session takes nothing from the others.
LEMMA OneMore ==
    ASSUME tabOf \in Seq(Tabs), NEW t \in Tabs, tabOf' = Append(tabOf, t)
    PROVE  /\ tabOf' \in Seq(Tabs)
           /\ Attached' = Attached \cup {NewSession} /\ NewSession \in Nat /\ NewSession # NoSession
           /\ \A s \in Attached : s \in Attached' /\ tabOf'[s] = tabOf[s]
           /\ tabOf'[NewSession] = t
BY DEF Attached, NewSession, NoSession

\* A step of a request that attaches nothing and records nothing.
LEMMA Undisturbed ==
    ASSUME TabInv, UNCHANGED <<gone, tabOf, live, current, target, replaced, switching>>,
           open \subseteq open', open' \subseteq Tabs,
           at' \in [TabRequests -> Places], asked' \in [TabRequests -> Nat],
           goal' \in [TabRequests -> Tabs \cup {NoTab} \cup Nat],
           ran' \in [TabRequests -> Tabs \cup {NoTab}],
           AskedExists', LockHeld', Aims'
    PROVE  TabInv'
BY DEF TabInv, TabTypeOK, TargetIsCurrent, NoneLost, Leads, Meant, Attached

LEMMA IssueStep == ASSUME TabInv, NEW r \in TabRequests, Issue(r) PROVE TabInv'
<1> USE DEF Issue, Step, browser, state
<1>1. AskedExists' /\ LockHeld' /\ Aims'
    BY DEF TabInv, TabTypeOK, Attached, AskedExists, LockHeld, InLock, Aims, Meant
<1> QED
    BY <1>1, Undisturbed DEF TabInv, TabTypeOK, Places, Attached

LEMMA AnswerStep == ASSUME TabInv, NEW r \in TabRequests, Answer(r) PROVE TabInv'
<1> USE DEF Answer, Step, browser, state
<1>1. AskedExists' /\ LockHeld'
    BY DEF TabInv, TabTypeOK, Attached, AskedExists, LockHeld, InLock
<1>2. Aims'
    BY DEF TabInv, TabTypeOK, Attached, Aims, Meant
<1>3. ran' \in [TabRequests -> Tabs \cup {NoTab}]
    <2>1. asked[r] \in live => tabOf[asked[r]] \in Tabs
        BY DEF TabInv, TabTypeOK, Attached
    <2> QED
        BY <2>1 DEF TabInv, TabTypeOK
<1> QED
    BY <1>1, <1>2, <1>3, Undisturbed DEF TabInv, TabTypeOK, Places

\* What a session was replaced by leads to the same tab.
LEMMA ReplacementLeads ==
    ASSUME TabInv, NEW s, Replacement(s) # NoSession
    PROVE  /\ Replacement(s) \in Attached
           /\ Named => Meant(s, tabOf[Replacement(s)])
<1>1. PICK i \in 1..Len(replaced) : replaced[i][1] = s /\ Replacement(s) = replaced[i][2]
    BY DEF Replacement, Ranges
<1> QED
    BY <1>1 DEF TabInv, Leads

LEMMA EnterStep == ASSUME TabInv, NEW r \in TabRequests, Enter(r) PROVE TabInv'
<1> USE DEF Enter, Step, browser
<1>1. at[r] = "stale" /\ holder = Free /\ UNCHANGED <<asked, ran, tabOf, gone, current>>
    BY DEF TabInv, TabTypeOK
<1>2. \A b \in TabRequests : at[b] \notin InLock
    BY <1>1, TabAssumption DEF TabInv, LockHeld
<1>3. AskedExists' /\ LockHeld'
    BY <1>1, <1>2 DEF TabInv, TabTypeOK, Attached, AskedExists, LockHeld, InLock
<1>4. CASE Replacement(asked[r]) # NoSession
    <2>1. /\ at' = [at EXCEPT ![r] = "repeat"] /\ goal' = [goal EXCEPT ![r] = Replacement(asked[r])]
        BY <1>4
    <2>2. Replacement(asked[r]) \in Attached /\ (Named => Meant(asked[r], tabOf[Replacement(asked[r])]))
        BY <1>4, ReplacementLeads
    <2>3. Aims'
        BY <1>1, <2>1, <2>2 DEF TabInv, TabTypeOK, Aims, Meant, Attached
    <2> QED
        BY <1>3, <2>1, <2>2, <2>3, Undisturbed DEF TabInv, TabTypeOK, Places, Attached
<1>5. CASE Replacement(asked[r]) = NoSession
    <2>1. at' \in {[at EXCEPT ![r] = "list"], [at EXCEPT ![r] = "error"]} /\ UNCHANGED goal
        BY <1>5
    <2>2. Aims'
        BY <1>1, <2>1 DEF TabInv, TabTypeOK, Aims, Meant, Attached
    <2> QED
        BY <1>3, <2>1, <2>2, Undisturbed DEF TabInv, TabTypeOK, Places
<1> QED
    BY <1>4, <1>5

LEMMA ListStep == ASSUME TabInv, NEW r \in TabRequests, List(r) PROVE TabInv'
<1> DEFINE found == IF Named THEN {Kept} \ {NoTab} ELSE open
<1>1. /\ at[r] \in {"list", "recheck"} /\ holder = r /\ asked[r] = current
      /\ UNCHANGED <<browser, state, asked, ran, switching>>
    BY DEF List, TabInv, LockHeld, InLock
<1>2. CASE found # {}
    <2>1. PICK t \in found : goal' = [goal EXCEPT ![r] = t]
        BY <1>2 DEF List
    <2>2. at' = [at EXCEPT ![r] = "attach"]
        BY <1>2 DEF List
    <2>3. t \in open
        BY TabAssumption DEF Kept, TabInv, TabTypeOK
    <2>4. Named => t = target \/ target \notin open
        BY DEF Kept
    <2>5. Named => Meant(asked[r], t)
        BY <1>1, <2>4 DEF TabInv, TargetIsCurrent, NoneLost, TabTypeOK, Meant
    <2>6. AskedExists' /\ LockHeld'
        BY <1>1, <2>2 DEF TabInv, TabTypeOK, AskedExists, LockHeld, InLock, browser, state, Attached
    <2>7. Aims'
        BY <1>1, <2>1, <2>2, <2>5 DEF TabInv, TabTypeOK, Aims, Meant, Attached, browser
    <2> QED
        BY <1>1, <2>1, <2>2, <2>3, <2>6, <2>7, Undisturbed DEF TabInv, TabTypeOK, Places, browser, state
<1>3. CASE found = {}
    <2>1. UNCHANGED goal /\ at' \in {[at EXCEPT ![r] = "recheck"], [at EXCEPT ![r] = "create"]}
        BY <1>3 DEF List
    <2>2. Named => target \notin open
        BY <1>3, TabAssumption DEF Kept, TabInv, TabTypeOK
    <2>3. Named => tabOf[asked[r]] \in gone
        BY <1>1, <2>2 DEF TabInv, TargetIsCurrent, NoneLost, TabTypeOK
    <2>4. AskedExists' /\ LockHeld'
        BY <1>1, <2>1 DEF TabInv, TabTypeOK, AskedExists, LockHeld, InLock, browser, state, Attached
    <2>5. Aims'
        BY <1>1, <2>1, <2>3 DEF TabInv, TabTypeOK, Aims, Meant, Attached, browser
    <2> QED
        BY <1>1, <2>1, <2>4, <2>5, Undisturbed DEF TabInv, TabTypeOK, Places, browser, state
<1> QED
    BY <1>2, <1>3

LEMMA CreateStep == ASSUME TabInv, NEW r \in TabRequests, Create(r) PROVE TabInv'
<1>1. /\ at[r] = "create" /\ holder = r /\ asked[r] = current
      /\ UNCHANGED <<gone, tabOf, live, current, target, replaced, asked, ran, switching>>
    BY DEF Create, TabInv, LockHeld, InLock
<1>2. \A b \in TabRequests \ {r} : at[b] \notin InLock
    BY <1>1 DEF TabInv, LockHeld
<1>3. CASE Fails(r) /\ UNCHANGED <<open, dedicated, goal>>
    <2>1. AskedExists' /\ LockHeld' /\ Aims'
        BY <1>1, <1>2, <1>3 DEF Fails, TabInv, TabTypeOK, AskedExists, LockHeld, InLock, Aims, Meant, Attached
    <2> QED
        BY <1>1, <1>3, <2>1, Undisturbed DEF Fails, TabInv, TabTypeOK, Places
<1>4. ASSUME NEW t \in NewTabs, Step(r, "create", "attach"), open' = open \cup {t},
             goal' = [goal EXCEPT ![r] = t], UNCHANGED holder
      PROVE  TabInv'
    <2>1. t \in Tabs
        BY DEF NewTabs
    <2>2. Named => Meant(asked[r], t)
        BY <1>1 DEF TabInv, Aims, Meant
    <2>3. AskedExists' /\ LockHeld'
        BY <1>1, <1>4 DEF Step, TabInv, TabTypeOK, AskedExists, LockHeld, InLock, Attached
    <2>4. Aims'
        BY <1>1, <1>4, <2>2 DEF Step, TabInv, TabTypeOK, Aims, Meant, Attached
    <2> QED
        BY <1>1, <1>4, <2>1, <2>3, <2>4, Undisturbed DEF Step, TabInv, TabTypeOK, Places
<1> QED
    BY <1>3, <1>4 DEF Create

LEMMA TailOf ==
    ASSUME NEW S, NEW q \in Seq(S), NEW n \in Nat, Len(q) = n + 1
    PROVE  /\ Tail(q) \in Seq(S) /\ Len(Tail(q)) = n
           /\ \A i \in 1..n : Tail(q)[i] = q[i + 1]
OBVIOUS

\* What is recorded is one of the old entries, possibly led on to the new session, or the
\* new entry; and every such entry leads where it should.
LEMMA RecordLeads ==
    ASSUME TabInv, NEW r \in TabRequests, at[r] = "attach", goal[r] \in open,
           tabOf' = Append(tabOf, goal[r]), gone' = gone,
           replaced' = Record(asked[r], NewSession)
    PROVE  replaced' \in Seq(Nat \X Nat) /\ Leads'
<1> DEFINE stale == asked[r]
           new == NewSession
           chained == [i \in 1..Len(replaced) |->
                         IF replaced[i][2] = stale THEN <<replaced[i][1], new>> ELSE replaced[i]]
           all == Append(chained, <<stale, new>>)
           Good(e) == /\ e \in Nat \X Nat
                      /\ e[1] \in Attached' /\ e[2] \in Attached'
                      /\ Named => tabOf'[e[1]] = tabOf'[e[2]] \/ tabOf'[e[1]] \in gone
<1>1. goal[r] \in Tabs /\ stale \in Attached /\ (Named => Meant(stale, goal[r]))
    BY DEF TabInv, TabTypeOK, AskedExists, Aims
<1>2. /\ new \in Attached' /\ new \in Nat /\ tabOf'[new] = goal[r]
      /\ \A s \in Attached : s \in Attached' /\ s \in Nat /\ tabOf'[s] = tabOf[s]
    <2>1. tabOf \in Seq(Tabs) /\ \A s \in Attached : s \in Nat
        BY DEF TabInv, TabTypeOK, Attached
    <2> QED
        BY <1>1, <2>1, OneMore
<1>3. Good(<<stale, new>>)
    BY <1>1, <1>2 DEF Meant
<1>4. chained \in Seq(Nat \X Nat) /\ Len(chained) = Len(replaced)
    <2>1. Len(replaced) \in Nat /\ \A i \in 1..Len(replaced) : replaced[i] \in Nat \X Nat
        BY DEF TabInv, TabTypeOK
    <2>2. \A i \in 1..Len(replaced) : chained[i] \in Nat \X Nat
        BY <1>2, <2>1
    <2> QED
        BY <2>1, <2>2
<1>5. ASSUME NEW i \in 1..Len(replaced) PROVE Good(chained[i])
    <2>0. TabTypeOK /\ Leads
        BY DEF TabInv
    <2>1. /\ replaced[i] \in Nat \X Nat /\ replaced[i][1] \in Attached /\ replaced[i][2] \in Attached
          /\ Named => Meant(replaced[i][1], tabOf[replaced[i][2]])
        <3>1. replaced[i] \in Nat \X Nat
            BY <2>0 DEF TabTypeOK
        <3> QED
            BY <2>0, <3>1 DEF Leads
    <2>2. CASE replaced[i][2] = stale
        <3>1. chained[i] = <<replaced[i][1], new>>
            BY <2>2
        <3>2. Named => Meant(replaced[i][1], goal[r])
            BY <1>1, <2>1, <2>2 DEF Meant
        <3> QED
            BY <1>2, <2>1, <3>1, <3>2 DEF Meant
    <2>3. CASE replaced[i][2] # stale
        BY <1>2, <2>1, <2>3 DEF Meant
    <2> QED
        BY <2>2, <2>3
<1> HIDE DEF chained, Good
<1>6. all \in Seq(Nat \X Nat) /\ Len(all) = Len(replaced) + 1
      /\ \A i \in 1..Len(all) : Good(all[i])
    <2>1. <<stale, new>> \in Nat \X Nat /\ Len(replaced) \in Nat
        BY <1>3 DEF Good, TabInv, TabTypeOK
    <2>2. /\ all \in Seq(Nat \X Nat) /\ Len(all) = Len(replaced) + 1
          /\ all[Len(replaced) + 1] = <<stale, new>>
          /\ \A i \in 1..Len(replaced) : all[i] = chained[i]
        BY <1>4, <2>1
    <2>3. ASSUME NEW i \in 1..Len(all) PROVE Good(all[i])
        <3>1. CASE i \in 1..Len(replaced)
            BY <1>5, <2>2, <3>1
        <3>2. CASE i = Len(replaced) + 1
            BY <1>3, <2>2, <3>2
        <3> QED
            BY <2>1, <2>2, <3>1, <3>2
    <2> QED
        BY <2>2, <2>3
<1>7. Tail(all) \in Seq(Nat \X Nat) /\ \A i \in 1..Len(Tail(all)) : Good(Tail(all)[i])
    <2>1. Len(replaced) \in Nat
        BY DEF TabInv, TabTypeOK
    <2>2. /\ Tail(all) \in Seq(Nat \X Nat) /\ Len(Tail(all)) = Len(replaced)
          /\ \A i \in 1..Len(replaced) : Tail(all)[i] = all[i + 1]
        BY <1>6, <2>1, TailOf
    <2>3. \A i \in 1..Len(replaced) : i + 1 \in 1..Len(all)
        BY <1>6, <2>1
    <2> QED
        BY <1>6, <2>2, <2>3
<1>8. replaced' \in {all, Tail(all)}
    BY DEF Record, chained
<1> HIDE DEF all
<1> QED
    BY <1>6, <1>7, <1>8 DEF Leads, Good, Meant

LEMMA AttachStep == ASSUME TabInv, NEW r \in TabRequests, Attach(r) PROVE TabInv'
<1>1. /\ at[r] = "attach" /\ holder = r /\ asked[r] = current
      /\ UNCHANGED <<open, gone, asked, ran, switching>>
    BY DEF Attach, TabInv, LockHeld, InLock
<1>2. \A b \in TabRequests \ {r} : at[b] \notin InLock
    BY <1>1 DEF TabInv, LockHeld
<1>3. CASE Fails(r) /\ UNCHANGED <<tabOf, live, current, target, replaced, goal>>
    <2>1. AskedExists' /\ LockHeld' /\ Aims'
        BY <1>1, <1>2, <1>3 DEF Fails, TabInv, TabTypeOK, AskedExists, LockHeld, InLock, Aims, Meant, Attached
    <2> QED
        BY <1>1, <1>3, <2>1, Undisturbed DEF Fails, TabInv, TabTypeOK, Places
<1>4. CASE /\ goal[r] \in open /\ tabOf' = Append(tabOf, goal[r]) /\ live' = live \cup {NewSession}
           /\ current' = NewSession /\ target' = goal[r]
           /\ replaced' = Record(asked[r], NewSession)
           /\ at' = [at EXCEPT ![r] = "repeat"] /\ goal' = [goal EXCEPT ![r] = NewSession]
    <2>1. goal[r] \in Tabs /\ tabOf \in Seq(Tabs)
        BY <1>4 DEF TabInv, TabTypeOK
    <2>2. /\ tabOf' \in Seq(Tabs) /\ Attached' = Attached \cup {NewSession} /\ NewSession \in Nat
          /\ \A s \in Attached : tabOf'[s] = tabOf[s]
          /\ tabOf'[NewSession] = goal[r]
        BY <1>4, <2>1, OneMore
    <2>3. replaced' \in Seq(Nat \X Nat) /\ Leads'
        BY <1>1, <1>4, RecordLeads
    <2>4. TabTypeOK'
        BY <1>1, <1>4, <2>2, <2>3 DEF TabInv, TabTypeOK, Places
    <2>5. TargetIsCurrent' /\ NoneLost' /\ AskedExists' /\ LockHeld'
        BY <1>1, <1>2, <1>4, <2>2
        DEF TabInv, TabTypeOK, TargetIsCurrent, NoneLost, AskedExists, LockHeld, InLock
    <2>6. Named => tabOf'[asked[r]] = goal[r] \/ tabOf'[asked[r]] \in gone
        BY <1>1, <2>2 DEF TabInv, TabTypeOK, Aims, Meant
    <2>7. Aims'
        BY <1>1, <1>4, <2>2, <2>6 DEF TabInv, TabTypeOK, AskedExists, Aims, Meant
    <2> QED
        BY <2>3, <2>4, <2>5, <2>7 DEF TabInv
<1> QED
    BY <1>3, <1>4 DEF Attach, Step

LEMMA RepeatStep == ASSUME TabInv, NEW r \in TabRequests, Repeat(r) PROVE TabInv'
<1> USE DEF Repeat, Step, browser, state
<1>1. AskedExists' /\ LockHeld'
    BY DEF TabInv, TabTypeOK, Attached, AskedExists, LockHeld, InLock
<1>2. Aims'
    BY DEF TabInv, TabTypeOK, Attached, Aims, Meant
<1>3. ran' \in [TabRequests -> Tabs \cup {NoTab}]
    <2>1. goal[r] \in live => goal[r] \in 1..Len(tabOf) /\ tabOf \in Seq(Tabs)
        BY DEF TabInv, TabTypeOK, Attached
    <2>2. goal[r] \in live => tabOf[goal[r]] \in Tabs
        BY <2>1
    <2> QED
        BY <2>2 DEF TabInv, TabTypeOK
<1> QED
    BY <1>1, <1>2, <1>3, Undisturbed DEF TabInv, TabTypeOK, Places

-----------------------------------------------------------------------------
(* The helper and the browser. *)

LEMMA SwitchTabStep == ASSUME TabInv, NEW t \in Tabs, SwitchTab(t) PROVE TabInv'
<1>1. /\ t \in open /\ UNCHANGED <<open, gone, current, target, dedicated, replaced, holder, at, asked, goal, ran>>
      /\ tabOf' = Append(tabOf, t) /\ live' = live \cup {NewSession} /\ switching' = NewSession
    BY DEF SwitchTab, state, request
<1>2. /\ tabOf' \in Seq(Tabs) /\ Attached' = Attached \cup {NewSession}
      /\ \A s \in Attached : tabOf'[s] = tabOf[s]
      /\ tabOf'[NewSession] = t
    BY <1>1, OneMore DEF TabInv, TabTypeOK
<1>3. TabTypeOK'
    BY <1>1, <1>2 DEF TabInv, TabTypeOK
<1>4. TargetIsCurrent' /\ NoneLost' /\ AskedExists' /\ LockHeld'
    BY <1>1, <1>2 DEF TabInv, TabTypeOK, TargetIsCurrent, NoneLost, AskedExists, LockHeld
<1>5. Leads' /\ Aims'
    BY <1>1, <1>2 DEF TabInv, TabTypeOK, AskedExists, Leads, Aims, Meant
<1> QED
    BY <1>3, <1>4, <1>5 DEF TabInv

\* Nobody holds the lock, so no recovery loses its session.
LEMMA SetSessionStep == ASSUME TabInv, SetSession PROVE TabInv'
<1>1. \A b \in TabRequests : at[b] \notin InLock
    BY TabAssumption DEF SetSession, TabInv, LockHeld
<1> QED
    BY <1>1 DEF SetSession, browser, request, TabInv, TabTypeOK, TargetIsCurrent, NoneLost, AskedExists, LockHeld,
                Leads, Aims, Meant, Attached

LEMMA BrowserStep ==
    ASSUME TabInv, OpenTab \/ (\E t \in Tabs : CloseTab(t)) \/ (\E s \in Sessions : Detach(s))
    PROVE  TabInv'
<1>1. /\ UNCHANGED <<tabOf, current, target, replaced, at, asked, goal, ran, switching, holder>>
      /\ open' \subseteq Tabs /\ gone \subseteq gone' /\ open \cup gone \subseteq open' \cup gone'
      /\ live' \subseteq live
    BY DEF OpenTab, CloseTab, Detach, NewTabs, state, request, TabInv, TabTypeOK
<1>2. TabTypeOK' /\ TargetIsCurrent' /\ NoneLost' /\ AskedExists' /\ LockHeld'
    BY <1>1 DEF TabInv, TabTypeOK, TargetIsCurrent, NoneLost, AskedExists, LockHeld, Attached
<1>3. Leads' /\ Aims'
    BY <1>1 DEF TabInv, Leads, Aims, Meant, Attached
<1> QED
    BY <1>2, <1>3 DEF TabInv

LEMMA TabNextInv == TabInv /\ [TabNext]_tabVars => TabInv'
<1> SUFFICES ASSUME TabInv, [TabNext]_tabVars PROVE TabInv'
    OBVIOUS
<1>1. ASSUME NEW r \in TabRequests, RequestStep(r) PROVE TabInv'
    BY <1>1, IssueStep, AnswerStep, EnterStep, ListStep, CreateStep, AttachStep, RepeatStep DEF RequestStep
<1>2. CASE UNCHANGED tabVars
    BY <1>2 DEF tabVars, browser, state, request, TabInv, TabTypeOK, TargetIsCurrent, NoneLost, AskedExists,
                LockHeld, Leads, Aims, Meant, Attached
<1> QED
    BY <1>1, <1>2, SwitchTabStep, SetSessionStep, BrowserStep DEF TabNext

\* However recoveries, switches and closed tabs interleave, and however few replacements are
\* remembered, a request of a named daemon that is carried out is carried out on its tab.
THEOREM RequestsKeepTheirTab == TabSpec => []LandsOnItsTab
<1>1. TabInv => LandsOnItsTab
    BY DEF TabInv, Aims, Meant, LandsOnItsTab
<1> QED
    BY TabInitInv, TabNextInv, <1>1, PTL DEF TabSpec

-----------------------------------------------------------------------------
(***************************************************************************)
(* SIGTERM reaches daemons only: for any number of commands, daemons and   *)
(* pids.                                                                   *)
(*                                                                         *)
(* The argument: a daemon that answers has a pid, so a pid it reports a    *)
(* second time is its own; and a start time that was read once is that of  *)
(* a daemon for ever.                                                      *)
(***************************************************************************)

NamedSpec == NamedInit /\ [][NamedNext]_namedVars

Phases ==
    {"idle", "probe", "again", "spawn", "await", "judge", "launch", "stop", "shutdown", "watch", "clean",
     "up", "stopped", "failed"}
\* Where restart_daemon returns to.
Afters == {"idle", "spawn", "launch", "stopped", "failed"}
Lives == {"unborn", "new", "connecting", "serving", "deaf", "ending", "gone"}
Identities == [pid : Pids \cup {Nobody}, whose : Daemons \cup {Nobody}]

DaemonTypeOK ==
    /\ phase \in [Callers -> Phases] /\ after \in [Callers -> Afters]
    /\ seen \in [Callers -> Identities]
    /\ life \in [Daemons -> Lives]
    /\ socket \in Daemons \cup {Nobody}
    /\ owner \in [Pids -> Daemons \cup {Nobody, Stranger}]

\* A daemon between its spawn and its end has a pid.
LivingHasPid == \A d \in Daemons : life[d] \notin {"unborn", "gone"} => \E n \in Pids : owner[n] = d

\* What is known of a daemon is known as a whole.
SeenIsWhole == \A c \in Callers : seen[c] = NoPid \/ (seen[c].pid \in Pids /\ seen[c].whose \in Daemons)

\* Only a pid that was reported is watched.
WatchedIsSeen == \A c \in Callers : phase[c] = "watch" => seen[c] # NoPid

DaemonInv == DaemonTypeOK /\ LivingHasPid /\ SeenIsWhole /\ WatchedIsSeen /\ OnlyDaemonsAreStopped

-----------------------------------------------------------------------------

\* The pid that a daemon with a pid reports is its own.
LEMMA ReportsItsOwn ==
    ASSUME NEW d, \E n \in Pids : owner[n] = d
    PROVE  PidOf(d) \in Pids /\ owner[PidOf(d)] = d
BY DEF PidOf

LEMMA AliveHasPid ==
    ASSUME DaemonInv, Alive
    PROVE  socket \in Daemons /\ PidOf(socket) \in Pids /\ owner[PidOf(socket)] = socket
<1>1. socket \in Daemons /\ life[socket] \notin {"unborn", "gone"}
    BY DEF DaemonInv, DaemonTypeOK, Alive
<1> QED
    BY <1>1, ReportsItsOwn DEF DaemonInv, LivingHasPid

LEMMA DaemonInitInv == NamedInit => DaemonInv
<1> SUFFICES ASSUME NamedInit PROVE DaemonInv
    OBVIOUS
<1> USE DEF NamedInit
<1>1. DaemonTypeOK
    BY DEF DaemonTypeOK, Lives, Phases, Afters, Identities, NoPid
<1>2. LivingHasPid /\ SeenIsWhole /\ WatchedIsSeen /\ OnlyDaemonsAreStopped
    BY DEF LivingHasPid, SeenIsWhole, WatchedIsSeen, OnlyDaemonsAreStopped
<1> QED
    BY <1>1, <1>2 DEF DaemonInv

\* A step of a command that neither watches nor identifies.
LEMMA CallStep ==
    ASSUME DaemonInv, NEW c \in Callers,
           Ensure(c) \/ Probe(c) \/ Await(c) \/ Judge(c) \/ Launch(c)
    PROVE  DaemonInv'
<1>1. /\ UNCHANGED <<seen, life, socket, owner, struck>>
      /\ phase' \in [Callers -> Phases] /\ after' \in [Callers -> Afters]
      /\ \A b \in Callers : phase'[b] = "watch" => phase[b] = "watch"
    BY DEF DaemonInv, DaemonTypeOK, Phases, Afters, Ensure, Probe, Await, Judge, Launch, Stop, Turn, Doing, worldVars
<1> QED
    BY <1>1 DEF DaemonInv, DaemonTypeOK, LivingHasPid, SeenIsWhole, WatchedIsSeen, OnlyDaemonsAreStopped

LEMMA SpawnStep == ASSUME DaemonInv, NEW c \in Callers, SpawnDaemon(c) PROVE DaemonInv'
<1> DEFINE d == CHOOSE e \in Daemons : life[e] = "unborn"
<1>1. d \in Daemons /\ life[d] = "unborn"
    BY DEF SpawnDaemon
<1>2. PICK n \in Pids : owner[n] = Nobody /\ owner' = [owner EXCEPT ![n] = d]
    BY DEF SpawnDaemon
<1>3. life' = [life EXCEPT ![d] = "new"] /\ phase' = [phase EXCEPT ![c] = "await"]
      /\ UNCHANGED <<after, seen, socket, struck>>
    BY DEF SpawnDaemon, Turn
<1> HIDE DEF d
<1>4. DaemonTypeOK'
    BY <1>1, <1>2, <1>3 DEF DaemonInv, DaemonTypeOK, Lives, Phases, Afters
<1>5. LivingHasPid'
    <2> SUFFICES ASSUME NEW e \in Daemons, life'[e] \notin {"unborn", "gone"}
                 PROVE  \E k \in Pids : owner'[k] = e
        BY DEF LivingHasPid
    <2>1. CASE e = d
        BY <2>1, <1>2 DEF DaemonInv, DaemonTypeOK
    <2>2. CASE e # d
        <3>1. PICK k \in Pids : owner[k] = e
            BY <2>2, <1>3 DEF DaemonInv, DaemonTypeOK, LivingHasPid
        <3>2. k # n
            BY <3>1, <1>2, NamedAssumption
        <3> QED
            BY <3>1, <3>2, <1>2 DEF DaemonInv, DaemonTypeOK
    <2> QED
        BY <2>1, <2>2
<1> QED
    BY <1>3, <1>4, <1>5 DEF DaemonInv, DaemonTypeOK, SeenIsWhole, WatchedIsSeen, OnlyDaemonsAreStopped

\* restart_daemon, but for the signal.
LEMMA StopStep ==
    ASSUME DaemonInv, NEW c \in Callers, Identify(c) \/ Shutdown(c) \/ Clean(c)
    PROVE  DaemonInv'
<1>1. CASE Identify(c)
    <2>1. /\ UNCHANGED <<after, life, socket, owner, struck>>
          /\ phase' \in [Callers -> Phases]
          /\ \A b \in Callers : phase'[b] = "watch" => phase[b] = "watch" /\ b # c
        BY <1>1 DEF DaemonInv, DaemonTypeOK, Phases, Afters, Identify, Turn, Doing, worldVars
    <2>2. \E i \in Identities : /\ seen' = [seen EXCEPT ![c] = i]
                                /\ i = NoPid \/ (i.pid \in Pids /\ i.whose \in Daemons)
        <3>1. CASE seen' = [seen EXCEPT ![c] = NoPid]
            BY <3>1 DEF Identities, NoPid
        <3>2. CASE Alive /\ seen' = [seen EXCEPT ![c] = Identity(socket)]
            <4>1. Identity(socket) \in Identities
                BY <3>2, AliveHasPid DEF Identity, Identities
            <4> QED
                BY <3>2, <4>1, AliveHasPid DEF Identity
        <3> QED
            BY <1>1, <3>1, <3>2 DEF Identify
    <2> QED
        BY <2>1, <2>2 DEF DaemonInv, DaemonTypeOK, LivingHasPid, SeenIsWhole, WatchedIsSeen, OnlyDaemonsAreStopped
<1>2. CASE Shutdown(c)
    <2>1. /\ UNCHANGED <<after, seen, life, socket, owner, struck>>
          /\ phase' \in [Callers -> Phases]
          /\ \A b \in Callers : phase'[b] = "watch" => phase[b] = "watch" \/ seen[b] # NoPid
        BY <1>2 DEF DaemonInv, DaemonTypeOK, Phases, Afters, Shutdown, Turn
    <2> QED
        BY <2>1 DEF DaemonInv, DaemonTypeOK, LivingHasPid, SeenIsWhole, WatchedIsSeen, OnlyDaemonsAreStopped
<1>3. CASE Clean(c)
    <2>1. /\ UNCHANGED <<after, seen, life, owner, struck>> /\ socket' = Nobody
          /\ phase' \in [Callers -> Phases]
          /\ \A b \in Callers : phase'[b] = "watch" => phase[b] = "watch"
        BY <1>3 DEF DaemonInv, DaemonTypeOK, Phases, Afters, Clean, Turn
    <2> QED
        BY <2>1 DEF DaemonInv, DaemonTypeOK, LivingHasPid, SeenIsWhole, WatchedIsSeen, OnlyDaemonsAreStopped
<1> QED
    BY <1>1, <1>2, <1>3

\* The signal: the process is a daemon, as the one that reports the pid or as the one whose
\* start time was read.
LEMMA WatchStep == ASSUME DaemonInv, NEW c \in Callers, Watch(c) PROVE DaemonInv'
<1> DEFINE n == seen[c].pid
           p == owner[n]
<1>1. n \in Pids /\ seen[c].whose \in Daemons
    BY DEF DaemonInv, WatchedIsSeen, SeenIsWhole, Watch, Doing
<1>2. UNCHANGED <<after, seen, socket>> /\ phase' = [phase EXCEPT ![c] = "clean"]
    BY DEF Watch, Turn
<1>3. CASE UNCHANGED <<life, owner, struck>>
    BY <1>2, <1>3 DEF DaemonInv, DaemonTypeOK, Phases, LivingHasPid, SeenIsWhole, WatchedIsSeen, OnlyDaemonsAreStopped
<1>4. CASE /\ p # Nobody /\ SameProcess(c)
           /\ struck' = struck \cup {p} /\ owner' = [owner EXCEPT ![n] = Nobody]
           /\ life' = [d \in Daemons |-> IF d = p THEN "gone" ELSE life[d]]
    <2>1. p \in Daemons
        <3>1. CASE Alive /\ PidOf(socket) = n
            BY <3>1, AliveHasPid
        <3>2. CASE p = seen[c].whose
            BY <3>2, <1>1
        <3> QED
            BY <1>4, <3>1, <3>2 DEF SameProcess
    <2>2. DaemonTypeOK'
        BY <1>1, <1>2, <1>4 DEF DaemonInv, DaemonTypeOK, Phases, Lives
    <2>3. LivingHasPid'
        <3> SUFFICES ASSUME NEW d \in Daemons, life'[d] \notin {"unborn", "gone"}
                     PROVE  \E k \in Pids : owner'[k] = d
            BY DEF LivingHasPid
        <3>1. d # p /\ life[d] \notin {"unborn", "gone"}
            BY <1>4
        <3>2. PICK k \in Pids : owner[k] = d
            BY <3>1 DEF DaemonInv, LivingHasPid
        <3>3. k # n
            BY <3>1, <3>2
        <3> QED
            BY <1>1, <1>4, <3>2, <3>3 DEF DaemonInv, DaemonTypeOK
    <2> QED
        BY <1>2, <1>4, <2>1, <2>2, <2>3
        DEF DaemonInv, DaemonTypeOK, SeenIsWhole, WatchedIsSeen, OnlyDaemonsAreStopped
<1> QED
    BY <1>3, <1>4 DEF Watch

\* A step of a daemon, of its browser or of another process: the pid of one daemon may be
\* freed, when it has gone, or a free one be taken.
LEMMA WorldStep ==
    ASSUME DaemonInv, NEW e,
           \/ e \in Daemons /\ (\/ Begin(e) \/ AwaitPopup(e) \/ FailToStart(e) \/ Bind(e)
                                \/ CloseDaemon(e) \/ End(e) \/ LoseBrowser(e) \/ Crash(e))
           \/ e \in Pids /\ Reuse(e)
    PROVE  DaemonInv'
<1>1. UNCHANGED <<phase, after, seen, struck>>
    BY DEF Begin, AwaitPopup, FailToStart, Bind, CloseDaemon, End, LoseBrowser, Crash, Reuse, callerVars
<1>2. socket' \in Daemons \cup {Nobody} /\ life' \in [Daemons -> Lives]
    BY DEF DaemonInv, DaemonTypeOK, Lives, Begin, AwaitPopup, FailToStart, Bind, CloseDaemon, End, LoseBrowser, Crash, Reuse
<1>3. CASE UNCHANGED owner /\ e \in Daemons /\ life[e] \notin {"unborn", "gone"}
           /\ \A d \in Daemons : d # e => life'[d] = life[d]
    BY <1>1, <1>2, <1>3 DEF DaemonInv, DaemonTypeOK, LivingHasPid, SeenIsWhole, WatchedIsSeen, OnlyDaemonsAreStopped
<1>4. CASE e \in Daemons /\ owner' = Freed(e) /\ life' = [life EXCEPT ![e] = "gone"]
    <2>1. owner' \in [Pids -> Daemons \cup {Nobody, Stranger}]
        BY <1>4 DEF DaemonInv, DaemonTypeOK, Freed
    <2>2. LivingHasPid'
        BY <1>4 DEF DaemonInv, DaemonTypeOK, LivingHasPid, Freed
    <2> QED
        BY <1>1, <1>2, <2>1, <2>2 DEF DaemonInv, DaemonTypeOK, SeenIsWhole, WatchedIsSeen, OnlyDaemonsAreStopped
<1>5. CASE e \in Pids /\ owner[e] = Nobody /\ owner' = [owner EXCEPT ![e] = Stranger] /\ UNCHANGED life
    <2>1. LivingHasPid'
        BY <1>5, NamedAssumption DEF DaemonInv, DaemonTypeOK, LivingHasPid
    <2> QED
        BY <1>1, <1>2, <1>5, <2>1 DEF DaemonInv, DaemonTypeOK, SeenIsWhole, WatchedIsSeen, OnlyDaemonsAreStopped
<1> QED
    BY <1>3, <1>4, <1>5
    DEF DaemonInv, DaemonTypeOK, Begin, AwaitPopup, FailToStart, Bind, CloseDaemon, End, LoseBrowser, Crash, Reuse

LEMMA DaemonNextInv == DaemonInv /\ [NamedNext]_namedVars => DaemonInv'
<1> SUFFICES ASSUME DaemonInv, [NamedNext]_namedVars PROVE DaemonInv'
    OBVIOUS
<1>1. ASSUME NEW c \in Callers, Ensure(c) \/ Probe(c) \/ Await(c) \/ Judge(c) \/ Launch(c) PROVE DaemonInv'
    BY <1>1, CallStep
<1>2. ASSUME NEW c \in Callers, SpawnDaemon(c) \/ Watch(c) PROVE DaemonInv'
    BY <1>2, SpawnStep, WatchStep
<1>3. ASSUME NEW c \in Callers, Identify(c) \/ Shutdown(c) \/ Clean(c) PROVE DaemonInv'
    BY <1>3, StopStep
<1>4. ASSUME NEW d \in Daemons,
             \/ Begin(d) \/ AwaitPopup(d) \/ FailToStart(d) \/ Bind(d)
             \/ CloseDaemon(d) \/ End(d) \/ LoseBrowser(d) \/ Crash(d)
      PROVE  DaemonInv'
    BY <1>4, WorldStep
<1>5. ASSUME NEW n \in Pids, Reuse(n) PROVE DaemonInv'
    BY <1>5, WorldStep
<1>6. CASE UNCHANGED namedVars
    BY <1>6 DEF namedVars, callerVars, worldVars, DaemonInv, DaemonTypeOK, LivingHasPid, SeenIsWhole, WatchedIsSeen,
                OnlyDaemonsAreStopped
<1> QED
    BY <1>1, <1>2, <1>3, <1>4, <1>5, <1>6 DEF NamedNext

\* However commands, daemons and other processes come and go, restart_daemon signals daemons
\* of the harness only.
THEOREM StrangersAreSafe == NamedSpec => []OnlyDaemonsAreStopped
<1>1. DaemonInv => OnlyDaemonsAreStopped
    BY DEF DaemonInv
<1> QED
    BY DaemonInitInv, DaemonNextInv, <1>1, PTL DEF NamedSpec

-----------------------------------------------------------------------------
(***************************************************************************)
(* What is published is what its tag names, tags on origin stay, and an    *)
(* initial release that broke off can be run again: for any packages,      *)
(* versions and histories.                                                 *)
(*                                                                         *)
(* The argument: a version is accepted before its tag is on origin only by *)
(* an initial release, and a package that was never public has the version *)
(* of its first manifest everywhere; releases by others and by the         *)
(* workflow need a package that is public.                                 *)
(***************************************************************************)

Commits == [ver : [Packages -> Versions], touched : SUBSET Packages]
Marks(S) == [Packages -> [Versions -> S]]
Here == 0..head
There == 0..head \cup {Theirs}
InitialJobs == [kind : {"initial"}, pkg : Packages, at : {"tag", "publish", "branch", "push"}]
RegularJobs == [kind : {"regular"}, plan : Plans, at : {"write", "commit", "tag"}, left : SUBSET Packages]

TypeOK ==
  /\ manifest \in [Packages -> Versions]
  /\ head \in 1..MaxCommit
  /\ commits \in [1..head -> Commits]
  /\ tag \in Marks(Here)
  /\ origin \in [has : SUBSET (1..head), ahead : Commits \cup {NoCommit}, tag : Marks(There)]
  /\ origin.has # {}
  /\ accepted \in Marks(There)
  /\ visible \in [Packages -> SUBSET Versions]
  /\ begun \in [Packages -> {0, 1}]
  /\ job \in {NoJob} \cup InitialJobs \cup RegularJobs

\* A tag of the clone names a commit whose manifest has its version, and a tag on
\* origin one on the branch, or what others have pushed.
TagInv ==
  \A p \in Packages, v \in Versions :
    /\ tag[p][v] # 0 => commits[tag[p][v]].ver[p] = v
    /\ origin.tag[p][v] \notin {0, Theirs} =>
         origin.tag[p][v] \in origin.has /\ commits[origin.tag[p][v]].ver[p] = v
    /\ origin.tag[p][v] = Theirs => origin.ahead \in Commits /\ origin.ahead.ver[p] = v

\* What the registry took has its tag on origin, or is an initial release.
AcceptedInv ==
  \A p \in Packages, v \in Versions :
    accepted[p][v] # 0 =>
      \/ origin.tag[p][v] # 0 /\ accepted[p][v] = origin.tag[p][v]
      \/ origin.tag[p][v] = 0 /\ v = 1 /\ accepted[p][v] = tag[p][v]

VisibleInv == \A p \in Packages : \A v \in visible[p] : accepted[p][v] # 0

\* A package that is not public has version 1 in every manifest.
FreshInv ==
  \A p \in Packages : visible[p] = {} =>
    /\ manifest[p] = 1
    /\ \A c \in 1..head : commits[c].ver[p] = 1
    /\ origin.ahead \in Commits => origin.ahead.ver[p] = 1

\* What the release that runs relies on.
InitialInv ==
  LET p == job.pkg IN
    job \in InitialJobs =>
      /\ manifest[p] = 1 /\ commits[head].ver[p] = 1 /\ origin.tag[p][1] = 0
      /\ IF job.at = "tag" THEN tag[p][1] = 0 ELSE tag[p][1] = head
      /\ job.at = "push" => head \in origin.has

RegularInv ==
  job \in RegularJobs => \A p \in DOMAIN job.plan :
    /\ visible[p] # {} /\ job.plan[p] # 1
    /\ job.at = "write" /\ p \notin job.left => manifest[p] = job.plan[p]
    /\ job.at \in {"commit", "tag"} => manifest[p] = job.plan[p]
    /\ job.at = "tag" => commits[head].ver[p] = job.plan[p]
    /\ job.at = "tag" /\ p \notin job.left => tag[p][job.plan[p]] = head

\* The packages still to be done are in the plan.
LeftInv == job \in RegularJobs => job.left \subseteq DOMAIN job.plan

IInv == TypeOK /\ TagInv /\ AcceptedInv /\ VisibleInv /\ FreshInv /\ InitialInv /\ RegularInv /\ LeftInv

-----------------------------------------------------------------------------
LEMMA Bounds ==
  /\ MaxCommit \in Nat /\ MaxCommit >= 1 /\ MaxVersion \in Nat /\ 1 \in Versions
  /\ Versions \subseteq Nat /\ 0 \notin Versions
  /\ Theirs \in Nat /\ Theirs # 0 /\ \A c \in 0..MaxCommit : c # Theirs
BY ReleaseAssumption DEF Versions, Theirs

\* A bounded set of numbers has its largest member: what sort().at(-1) picks.
LEMMA MaxOfBounded ==
  ASSUME NEW n \in Nat, NEW S \in SUBSET (0..n), S # {}
  PROVE  MaxOf(S) \in S /\ \A m \in S : m <= MaxOf(S)
<1>1. S \in SUBSET Nat /\ \A k \in S : k <= n
  OBVIOUS
<1> QED
  BY <1>1, LargestOf DEF MaxOf

\* The highest version the registry shows is one that is public, or 0 for none.
LEMMA BaselineIsPublic ==
  ASSUME visible \in [Packages -> SUBSET Versions], NEW p \in Packages
  PROVE  /\ Baseline(p) \in visible[p] \cup {0}
         /\ \A v \in visible[p] : v <= Baseline(p)
         /\ visible[p] = {} => Baseline(p) = 0
<1>1. visible[p] \cup {0} \in SUBSET (0..MaxVersion) /\ visible[p] \cup {0} # {}
  BY Bounds DEF Versions
<1> QED
  BY <1>1, MaxOfBounded, Bounds DEF Baseline

LEMMA MaxOfPair ==
  ASSUME NEW a \in Nat, NEW b \in Nat
  PROVE  MaxOf({a, b}) \in {a, b}
<1>1. {a, b} \in SUBSET (0..(a + b)) /\ a + b \in Nat
  OBVIOUS
<1> QED
  BY <1>1, MaxOfBounded

LEMMA JobKinds ==
  /\ NoJob \notin InitialJobs \cup RegularJobs
  /\ \A j \in InitialJobs : j.kind = "initial" /\ j \notin RegularJobs
  /\ \A j \in RegularJobs : j.kind = "regular" /\ j \notin InitialJobs
BY DEF NoJob, InitialJobs, RegularJobs

LEMMA NoCommitIsNone == NoCommit \notin Commits
BY DEF NoCommit, Commits

LEMMA PlanOf == ASSUME NEW plan \in Plans
                PROVE  DOMAIN plan \subseteq Packages /\ plan \in [DOMAIN plan -> Versions]
BY DEF Plans

LEMMA InitInv == ReleaseInit => IInv
<1> SUFFICES ASSUME ReleaseInit PROVE IInv
  OBVIOUS
<1> DEFINE first == [p \in Packages |-> 1]
           old == [p \in Packages |-> [v \in Versions |-> IF v = 1 /\ p \notin New THEN 1 ELSE 0]]
<1>1. /\ manifest = first /\ commits = [c \in {1} |-> [ver |-> first, touched |-> Packages]]
      /\ head = 1 /\ tag = old /\ origin = [has |-> {1}, ahead |-> NoCommit, tag |-> old]
      /\ accepted = old /\ visible = [p \in Packages |-> IF p \in New THEN {} ELSE {1}]
      /\ begun = [p \in Packages |-> 0] /\ job = NoJob
  BY DEF ReleaseInit
<1>2. first \in [Packages -> Versions] /\ old \in Marks(0..1) /\ 1..1 = {1}
  BY Bounds DEF Marks
<1>3. commits[1] \in Commits
  BY <1>1, <1>2 DEF Commits
<1>4. TypeOK
  <2>1. old \in Marks(There) /\ old \in Marks(Here)
    BY <1>1, <1>2 DEF Marks, Here, There
  <2>2. origin \in [has : SUBSET (1..head), ahead : Commits \cup {NoCommit}, tag : Marks(There)]
    BY <1>1, <1>2, <2>1
  <2> QED
    BY <1>1, <1>2, <1>3, <2>1, <2>2, Bounds DEF TypeOK
<1>5. TagInv
  BY <1>1, <1>2, Bounds DEF TagInv
<1>6. AcceptedInv /\ VisibleInv
  BY <1>1, Bounds DEF AcceptedInv, VisibleInv
<1>7. FreshInv
  BY <1>1, <1>2, NoCommitIsNone DEF FreshInv
<1>8. InitialInv /\ RegularInv /\ LeftInv
  BY <1>1, JobKinds DEF InitialInv, RegularInv, LeftInv
<1> QED
  BY <1>4, <1>5, <1>6, <1>7, <1>8 DEF IInv

-----------------------------------------------------------------------------
(* The developer's work.                                                   *)

\* The clone, its history and origin as they are; the job goes on or ends.
LEMMA NothingStep ==
  ASSUME IInv, UNCHANGED <<manifest, head, commits, tag, origin, accepted, visible, begun>>,
         job' \in {job, NoJob}
  PROVE  IInv'
<1>1. TypeOK' /\ TagInv' /\ AcceptedInv' /\ VisibleInv' /\ FreshInv'
  BY DEF IInv, TypeOK, Here, There, TagInv, AcceptedInv, VisibleInv, FreshInv
<1>2. InitialInv' /\ RegularInv' /\ LeftInv'
  <2>1. CASE job' = job
    BY <2>1 DEF IInv, InitialInv, RegularInv, LeftInv
  <2>2. CASE job' = NoJob
    BY <2>2, JobKinds DEF InitialInv, RegularInv, LeftInv
  <2> QED
    BY <2>1, <2>2
<1> QED
  BY <1>1, <1>2 DEF IInv

\* The versions of manifests change between releases: packages that were never public
\* keep theirs.
LEMMA ManifestStep ==
  ASSUME IInv, job = NoJob, manifest' \in [Packages -> Versions],
         \A p \in Packages : visible[p] = {} => manifest'[p] = 1,
         UNCHANGED <<head, commits, tag, origin, accepted, visible, begun, job>>
  PROVE  IInv'
<1>1. TypeOK' /\ TagInv' /\ AcceptedInv' /\ VisibleInv' /\ FreshInv'
  BY DEF IInv, TypeOK, Here, There, TagInv, AcceptedInv, VisibleInv, FreshInv
<1>2. InitialInv' /\ RegularInv' /\ LeftInv'
  BY JobKinds DEF InitialInv, RegularInv, LeftInv
<1> QED
  BY <1>1, <1>2 DEF IInv

LEMMA DiscardStep == ASSUME IInv, Discard PROVE IInv'
<1>1. /\ job = NoJob /\ manifest' = commits[head].ver
      /\ UNCHANGED <<head, commits, tag, origin, accepted, visible, begun, job>>
  BY DEF Discard, history, registry
<1>2. head \in 1..head /\ commits[head] \in Commits
  BY DEF IInv, TypeOK
<1>3. manifest' \in [Packages -> Versions]
  BY <1>1, <1>2 DEF Commits
<1>4. \A p \in Packages : visible[p] = {} => manifest'[p] = 1
  BY <1>1, <1>2 DEF IInv, FreshInv
<1> QED
  BY <1>1, <1>3, <1>4, ManifestStep

LEMMA AlignStep ==
  ASSUME IInv, NEW moved \in SUBSET Packages, \A p \in moved : visible[p] # {}, Align(moved)
  PROVE  IInv'
<1>1. /\ job = NoJob
      /\ manifest' = [p \in Packages |-> IF p \in moved THEN Baseline(p) ELSE manifest[p]]
      /\ UNCHANGED <<head, commits, tag, origin, accepted, visible, begun, job>>
  BY DEF Align, history, registry
<1>2. ASSUME NEW p \in moved PROVE Baseline(p) \in Versions
  <2>1. visible[p] \in SUBSET Versions /\ visible[p] # {}
    BY DEF IInv, TypeOK
  <2>2. Baseline(p) \in visible[p] \cup {0} /\ \A v \in visible[p] : v <= Baseline(p)
    BY BaselineIsPublic DEF IInv, TypeOK
  <2> QED
    BY <2>1, <2>2, Bounds DEF Versions
<1>3. manifest' \in [Packages -> Versions]
  BY <1>1, <1>2 DEF IInv, TypeOK
<1>4. \A p \in Packages : visible[p] = {} => manifest'[p] = 1
  BY <1>1 DEF IInv, FreshInv
<1> QED
  BY <1>1, <1>3, <1>4, ManifestStep

LEMMA AlignmentStep == ASSUME IInv, SyncVersions \/ ResetVersions PROVE IInv'
<1>1. ASSUME NEW p \in Behind PROVE visible[p] # {}
  <2>1. p \in Packages /\ manifest[p] < Baseline(p) /\ manifest[p] \in Versions
    BY DEF Behind, IInv, TypeOK
  <2>2. visible[p] = {} => Baseline(p) = 0
    BY <2>1, BaselineIsPublic DEF IInv, TypeOK
  <2> QED
    BY <2>1, <2>2 DEF Versions
<1>2. \A p \in Ahead : visible[p] # {}
  BY DEF Ahead
<1>3. Behind \subseteq Packages /\ Ahead \subseteq Packages
  BY DEF Behind, Ahead
<1> QED
  BY <1>1, <1>2, <1>3, AlignStep DEF SyncVersions, ResetVersions

\* A commit: the history goes on, and its manifests are the working tree's or the last
\* commit's.
LEMMA RecordStep ==
  ASSUME IInv, NEW files, RecordCommit(files),
         UNCHANGED <<manifest, tag, origin, accepted, visible, begun>>
  PROVE  /\ job' \in {NoJob} \cup InitialJobs \cup RegularJobs => TypeOK'
         /\ head' = head + 1 /\ head' \in 1..MaxCommit
         /\ commits' \in [1..head' -> Commits]
         /\ \A c \in 1..head : commits'[c] = commits[c]
         /\ \A p \in Packages : commits'[head'].ver[p] =
              IF <<"manifest", p>> \in files THEN manifest[p] ELSE commits[head].ver[p]
         /\ TagInv' /\ AcceptedInv' /\ VisibleInv' /\ FreshInv'
<1> DEFINE new == [ver |-> [p \in Packages |-> IF <<"manifest", p>> \in files
                                               THEN manifest[p] ELSE commits[head].ver[p]],
                   touched |-> TouchedBy(files)]
<1>1. head' = head + 1 /\ head' \in 1..MaxCommit /\ head \in Nat
  BY Bounds DEF RecordCommit, IInv, TypeOK
<1>2. commits' = [c \in 1..head + 1 |-> IF c <= head THEN commits[c] ELSE new]
  BY DEF RecordCommit
<1>3. new \in Commits
  <2>1. commits[head] \in Commits
    BY DEF IInv, TypeOK
  <2>2. TouchedBy(files) \in SUBSET Packages
    BY DEF TouchedBy
  <2>3. new.ver \in [Packages -> Versions]
    BY <2>1 DEF IInv, TypeOK, Commits
  <2> QED
    BY <2>2, <2>3 DEF Commits
<1> HIDE DEF new
<1>4. commits' \in [1..head' -> Commits]
  BY <1>1, <1>2, <1>3 DEF IInv, TypeOK
<1>5. /\ \A c \in 1..head : commits'[c] = commits[c]
      /\ commits'[head'] = new
  BY <1>1, <1>2
<1>6. \A p \in Packages : commits'[head'].ver[p] =
         IF <<"manifest", p>> \in files THEN manifest[p] ELSE commits[head].ver[p]
  BY <1>5 DEF new
<1>7. job' \in {NoJob} \cup InitialJobs \cup RegularJobs => TypeOK'
  <2>1. There \subseteq There' /\ Here \subseteq Here' /\ SUBSET (1..head) \subseteq SUBSET (1..head')
    BY <1>1 DEF There, Here
  <2>2. Marks(There) \subseteq Marks(There)' /\ Marks(Here) \subseteq Marks(Here)'
    BY <2>1 DEF Marks
  <2>3. tag \in Marks(Here)' /\ accepted \in Marks(There)'
    BY <2>2 DEF IInv, TypeOK
  <2>4. origin \in [has : SUBSET (1..head'), ahead : Commits \cup {NoCommit}, tag : Marks(There)']
    BY <2>1, <2>2 DEF IInv, TypeOK
  <2> QED
    BY <1>1, <1>4, <2>3, <2>4 DEF IInv, TypeOK
<1>8. TagInv'
  <2> SUFFICES ASSUME NEW p \in Packages, NEW v \in Versions
      PROVE  /\ tag[p][v] # 0 => commits'[tag[p][v]].ver[p] = v
             /\ origin.tag[p][v] \notin {0, Theirs} =>
                  origin.tag[p][v] \in origin.has /\ commits'[origin.tag[p][v]].ver[p] = v
             /\ origin.tag[p][v] = Theirs => origin.ahead \in Commits /\ origin.ahead.ver[p] = v
    BY DEF TagInv
  <2>1. tag[p][v] \in 0..head /\ origin.tag[p][v] \in 0..head \cup {Theirs}
    BY DEF IInv, TypeOK, Marks, Here, There
  <2> QED
    BY <1>1, <1>5, <2>1 DEF IInv, TagInv
<1>9. AcceptedInv' /\ VisibleInv'
  BY DEF IInv, AcceptedInv, VisibleInv
<1>10. FreshInv'
  <2> SUFFICES ASSUME NEW p \in Packages, visible[p] = {}
      PROVE  /\ manifest[p] = 1 /\ (origin.ahead \in Commits => origin.ahead.ver[p] = 1)
             /\ \A c \in 1..head' : commits'[c].ver[p] = 1
    BY DEF FreshInv
  <2>1. /\ manifest[p] = 1 /\ (origin.ahead \in Commits => origin.ahead.ver[p] = 1)
        /\ \A c \in 1..head : commits[c].ver[p] = 1
    BY DEF IInv, FreshInv
  <2>2. head \in 1..head
    BY <1>1 DEF IInv, TypeOK
  <2>3. commits'[head'].ver[p] = 1
    BY <1>6, <2>1, <2>2
  <2> QED
    BY <1>1, <1>5, <2>1, <2>2, <2>3
<1> QED
  BY <1>1, <1>4, <1>5, <1>6, <1>7, <1>8, <1>9, <1>10

LEMMA CommitStep == ASSUME IInv, NEW staged, Commit(staged) PROVE IInv'
<1>1. /\ RecordCommit(staged) /\ job = NoJob
      /\ UNCHANGED <<manifest, tag, origin, accepted, visible, begun, job>>
  BY DEF Commit, registry
<1>2. TypeOK' /\ TagInv' /\ AcceptedInv' /\ VisibleInv' /\ FreshInv'
  <2>1. job' \in {NoJob} \cup InitialJobs \cup RegularJobs
    BY <1>1
  <2> QED
    BY <1>1, <2>1, RecordStep
<1>3. InitialInv' /\ RegularInv' /\ LeftInv'
  BY <1>1, JobKinds DEF InitialInv, RegularInv, LeftInv
<1> QED
  BY <1>2, <1>3 DEF IInv

-----------------------------------------------------------------------------
(* Pulling what others have pushed.                                        *)

LEMMA PullStep == ASSUME IInv, Pull PROVE IInv'
<1> DEFINE theirs == head + 1
           unseen == (1..head) \ origin.has
           last == IF unseen = {} THEN theirs ELSE theirs + 1
           newer == [p \in Packages |-> MaxOf({commits[head].ver[p], origin.ahead.ver[p]})]
           merge == [ver |-> newer, touched |-> UNION {commits[u].touched : u \in unseen}]
<1>1. /\ job = NoJob /\ origin.ahead # NoCommit /\ last <= MaxCommit /\ head' = last
      /\ manifest' = newer
      /\ commits' = [c \in 1..last |-> IF c < theirs THEN commits[c]
                                       ELSE IF c = theirs THEN origin.ahead ELSE merge]
      /\ accepted' = Renamed(accepted, theirs)
      /\ origin' = [has |-> origin.has \cup {theirs}, ahead |-> NoCommit,
                    tag |-> Renamed(origin.tag, theirs)]
      /\ tag' = [p \in Packages |-> [v \in Versions |->
            IF tag[p][v] = 0 /\ origin.tag[p][v] = Theirs THEN theirs ELSE tag[p][v]]]
      /\ UNCHANGED <<visible, begun, job>>
  BY DEF Pull, Merge
<1>2. /\ head \in Nat /\ head \in 1..head /\ theirs \in 1..head' /\ head' \in 1..MaxCommit
      /\ \A c \in 1..head : c < theirs /\ c \in 1..head' /\ c # Theirs
      /\ \A c \in 1..head' : c < theirs => c \in 1..head
      /\ theirs # 0 /\ theirs # Theirs
  <2>1. head \in 1..MaxCommit /\ MaxCommit \in Nat /\ Theirs = MaxCommit + 1
    BY Bounds DEF IInv, TypeOK, Theirs
  <2>2. theirs \in Nat /\ theirs = head + 1 /\ last \in {theirs, theirs + 1} /\ last \in Nat
    BY <2>1
  <2>3. theirs <= last /\ head < theirs /\ last <= MaxCommit /\ head' = last
    BY <1>1, <2>1, <2>2
  <2> QED
    BY <2>1, <2>2, <2>3
<1>3. origin.ahead \in Commits /\ commits[head] \in Commits
  BY <1>1, <1>2 DEF IInv, TypeOK
<1>4. newer \in [Packages -> Versions]
  <2> SUFFICES ASSUME NEW p \in Packages
      PROVE  MaxOf({commits[head].ver[p], origin.ahead.ver[p]}) \in Versions
    OBVIOUS
  <2>1. commits[head].ver[p] \in Versions /\ origin.ahead.ver[p] \in Versions
    BY <1>3 DEF Commits
  <2> QED
    BY <2>1, MaxOfPair, Bounds
<1>5. merge \in Commits
  <2>1. \A u \in unseen : commits[u].touched \in SUBSET Packages
    BY DEF IInv, TypeOK, Commits
  <2> QED
    BY <1>4, <2>1 DEF Commits
<1> HIDE DEF newer, merge
<1>6. /\ \A c \in 1..head : commits'[c] = commits[c]
      /\ commits'[theirs] = origin.ahead
      /\ \A c \in 1..head' : c \in 1..head \/ c = theirs \/ commits'[c] = merge
      /\ commits' \in [1..head' -> Commits]
  <2>1. \A c \in 1..head : commits[c] \in Commits
    BY DEF IInv, TypeOK
  <2> QED
    BY <1>1, <1>2, <1>3, <1>5, <2>1
<1>7. ASSUME NEW p \in Packages, NEW v \in Versions
      PROVE  /\ tag[p][v] \in 0..head /\ origin.tag[p][v] \in 0..head \cup {Theirs}
             /\ accepted[p][v] \in 0..head \cup {Theirs}
             /\ tag'[p][v] = IF tag[p][v] = 0 /\ origin.tag[p][v] = Theirs THEN theirs ELSE tag[p][v]
             /\ origin'.tag[p][v] = IF origin.tag[p][v] = Theirs THEN theirs ELSE origin.tag[p][v]
             /\ accepted'[p][v] = IF accepted[p][v] = Theirs THEN theirs ELSE accepted[p][v]
             /\ \A c \in 0..head \cup {theirs} : c \in 0..head'
  BY <1>1, <1>2 DEF Renamed, IInv, TypeOK, Marks, Here, There
<1>8. TypeOK'
  <2>1. tag' \in Marks(Here)'
    BY <1>1, <1>2, <1>7 DEF Marks, Here
  <2>2. accepted' \in Marks(There)' /\ Renamed(origin.tag, theirs) \in Marks(There)'
    BY <1>1, <1>2, <1>7 DEF Marks, There, Renamed
  <2>3. origin.has \cup {theirs} \in SUBSET (1..head')
    BY <1>2 DEF IInv, TypeOK
  <2>4. origin' \in [has : SUBSET (1..head'), ahead : Commits \cup {NoCommit}, tag : Marks(There)']
        /\ origin'.has # {}
    BY <1>1, <2>2, <2>3
  <2> QED
    BY <1>1, <1>2, <1>4, <1>6, <2>1, <2>2, <2>4 DEF IInv, TypeOK
<1>9. TagInv'
  <2> SUFFICES ASSUME NEW p \in Packages, NEW v \in Versions
      PROVE  /\ tag'[p][v] # 0 => commits'[tag'[p][v]].ver[p] = v
             /\ origin'.tag[p][v] \notin {0, Theirs} =>
                  origin'.tag[p][v] \in origin'.has /\ commits'[origin'.tag[p][v]].ver[p] = v
             /\ origin'.tag[p][v] # Theirs
    BY DEF TagInv
  <2>1. /\ tag[p][v] # 0 => commits[tag[p][v]].ver[p] = v
        /\ origin.tag[p][v] \notin {0, Theirs} =>
             origin.tag[p][v] \in origin.has /\ commits[origin.tag[p][v]].ver[p] = v
        /\ origin.tag[p][v] = Theirs => origin.ahead.ver[p] = v
    BY DEF IInv, TagInv
  <2>2. origin'.has = origin.has \cup {theirs}
    BY <1>1
  <2> QED
    BY <1>2, <1>6, <1>7, <2>1, <2>2
<1>10. AcceptedInv'
  <2> SUFFICES ASSUME NEW p \in Packages, NEW v \in Versions, accepted'[p][v] # 0
      PROVE  \/ origin'.tag[p][v] # 0 /\ accepted'[p][v] = origin'.tag[p][v]
             \/ origin'.tag[p][v] = 0 /\ v = 1 /\ accepted'[p][v] = tag'[p][v]
    BY DEF AcceptedInv
  <2>1. accepted[p][v] # 0
    BY <1>7, Bounds
  <2>2. \/ origin.tag[p][v] # 0 /\ accepted[p][v] = origin.tag[p][v]
        \/ origin.tag[p][v] = 0 /\ v = 1 /\ accepted[p][v] = tag[p][v]
    BY <2>1 DEF IInv, AcceptedInv
  <2> QED
    BY <1>2, <1>7, <2>2, Bounds
<1>11. VisibleInv'
  <2>1. \A p \in Packages : visible[p] \subseteq Versions
    BY DEF IInv, TypeOK
  <2> QED
    BY <1>1, <1>2, <1>7, <2>1 DEF IInv, VisibleInv
<1>12. FreshInv'
  <2> SUFFICES ASSUME NEW p \in Packages, visible[p] = {}
      PROVE  /\ newer[p] = 1 /\ \A c \in 1..head' : commits'[c].ver[p] = 1
             /\ origin'.ahead \notin Commits
    BY <1>1 DEF FreshInv
  <2>1. /\ origin.ahead.ver[p] = 1 /\ commits[head].ver[p] = 1
        /\ \A c \in 1..head : commits[c].ver[p] = 1
    BY <1>2, <1>3 DEF IInv, FreshInv
  <2>2. newer[p] = 1
    BY <2>1, MaxOfPair DEF newer
  <2>3. merge.ver[p] = 1
    BY <2>2 DEF merge
  <2> QED
    BY <1>1, <1>6, <2>1, <2>2, <2>3, NoCommitIsNone
<1>13. InitialInv' /\ RegularInv' /\ LeftInv'
  BY <1>1, JobKinds DEF InitialInv, RegularInv, LeftInv
<1> QED
  BY <1>8, <1>9, <1>10, <1>11, <1>12, <1>13 DEF IInv

-----------------------------------------------------------------------------
(* The first release of a package.                                         *)

LEMMA MarkOne ==
  ASSUME NEW S, NEW f \in Marks(S), NEW p \in Packages, NEW v \in Versions, NEW c \in S
  PROVE  /\ [f EXCEPT ![p][v] = c] \in Marks(S)
         /\ \A q \in Packages, w \in Versions :
              [f EXCEPT ![p][v] = c][q][w] = IF q = p /\ w = v THEN c ELSE f[q][w]
BY DEF Marks

\* The tree and the history as they are.
LEMMA JobStep ==
  ASSUME IInv, UNCHANGED <<manifest, head, commits, tag, origin, accepted, visible, begun>>,
         job' \in InitialJobs \cup RegularJobs, InitialInv', RegularInv', LeftInv'
  PROVE  IInv'
<1>1. TypeOK' /\ TagInv' /\ AcceptedInv' /\ VisibleInv' /\ FreshInv'
  BY DEF IInv, TypeOK, Here, There, TagInv, AcceptedInv, VisibleInv, FreshInv
<1> QED
  BY <1>1 DEF IInv

LEMMA StartInitialStep == ASSUME IInv, NEW p \in Packages, StartInitial(p) PROVE IInv'
<1> DEFINE v == manifest[p]
           first == IF Decision(p).createTag THEN "tag"
                 ELSE IF Decision(p).publish THEN "publish" ELSE "branch"
<1>1. /\ MayRelease /\ ~Decision(p).error /\ ~Decision(p).done
      /\ job' = [kind |-> "initial", pkg |-> p, at |-> first]
      /\ UNCHANGED <<manifest, head, commits, tag, origin, accepted, visible, begun>>
  BY DEF StartInitial, tree, history, registry
<1>2. job' \in InitialJobs /\ job'.pkg = p /\ job'.at = first /\ job' \notin RegularJobs
  BY <1>1, JobKinds DEF InitialJobs
<1>3. commits[head].ver[p] = v
  BY <1>1 DEF MayRelease, Dirty
<1>4. /\ v \in Versions /\ tag[p][v] \in 0..head /\ origin.tag[p][v] \in 0..head \cup {Theirs}
      /\ visible[p] \subseteq Versions /\ head # 0
  BY DEF IInv, TypeOK, Marks, Here, There
<1>5. /\ TagState(tag[p][v]) # "other" /\ TagState(origin.tag[p][v]) # "other"
      /\ visible[p] = {} => TagState(origin.tag[p][v]) = "absent"
      /\ visible[p] # {} => Baseline(p) = v /\ TagState(tag[p][v]) # "absent"
                            /\ TagState(origin.tag[p][v]) # "head"
      /\ first = IF visible[p] # {} THEN "branch"
              ELSE IF TagState(tag[p][v]) = "absent" THEN "tag" ELSE "publish"
  BY <1>1 DEF Decision
<1>6. /\ origin.tag[p][v] = 0
      /\ IF first = "tag" THEN tag[p][v] = 0 ELSE tag[p][v] = head
      /\ first # "push"
  BY <1>5 DEF TagState
<1>7. v = 1
  <2>1. CASE visible[p] = {}
    BY <2>1 DEF IInv, FreshInv
  <2>2. CASE visible[p] # {}
    <3>1. v \in visible[p]
      <4>1. Baseline(p) \in visible[p] \cup {0}
        BY BaselineIsPublic DEF IInv, TypeOK
      <4> QED
        BY <1>4, <1>5, <2>2, <4>1, Bounds
    <3>2. accepted[p][v] # 0
      BY <3>1 DEF IInv, VisibleInv
    <3> QED
      BY <1>4, <1>6, <3>2 DEF IInv, AcceptedInv
  <2> QED
    BY <2>1, <2>2
<1>8. InitialInv' /\ RegularInv' /\ LeftInv'
  BY <1>1, <1>2, <1>3, <1>6, <1>7 DEF InitialInv, RegularInv, LeftInv
<1> QED
  BY <1>1, <1>2, <1>8, JobStep

\* What an initial release has when it is at some step.
LEMMA InInitial ==
  ASSUME IInv, NEW step \in {"tag", "publish", "branch", "push"}, Initial(step)
  PROVE  /\ job \in InitialJobs /\ job \notin RegularJobs /\ job.pkg \in Packages
         /\ manifest[job.pkg] = 1 /\ 1 \in Versions /\ commits[head].ver[job.pkg] = 1
         /\ origin.tag[job.pkg][1] = 0
         /\ IF step = "tag" THEN tag[job.pkg][1] = 0 ELSE tag[job.pkg][1] = head
         /\ step = "push" => head \in origin.has
<1>1. job \in InitialJobs /\ job \notin RegularJobs
  BY JobKinds DEF Initial, IInv, TypeOK, NoJob
<1> QED
  BY <1>1, Bounds DEF Initial, IInv, InitialInv, InitialJobs

LEMMA InitialMoves ==
  ASSUME job \in InitialJobs, NEW step \in {"tag", "publish", "branch", "push"},
         job' = [job EXCEPT !.at = step]
  PROVE  /\ job' \in InitialJobs /\ job' \notin RegularJobs
         /\ job'.pkg = job.pkg /\ job'.at = step
<1>1. job' \in InitialJobs /\ job'.pkg = job.pkg /\ job'.at = step
  BY DEF InitialJobs
<1> QED
  BY <1>1, JobKinds

LEMMA InitialTagStep == ASSUME IInv, InitialTag PROVE IInv'
<1> DEFINE p == job.pkg
<1>1. /\ job \in InitialJobs /\ p \in Packages /\ manifest[p] = 1 /\ 1 \in Versions
      /\ commits[head].ver[p] = 1 /\ origin.tag[p][1] = 0 /\ tag[p][1] = 0
  BY InInitial DEF InitialTag
<1>2. /\ tag' = [tag EXCEPT ![p][1] = head] /\ begun' = [begun EXCEPT ![p] = 1]
      /\ job' = [job EXCEPT !.at = "publish"]
      /\ UNCHANGED <<manifest, head, commits, origin, accepted, visible>>
  BY <1>1 DEF InitialTag, tree, registry
<1>3. job' \in InitialJobs /\ job' \notin RegularJobs /\ job'.pkg = p /\ job'.at = "publish"
  BY <1>1, <1>2, InitialMoves
<1>4. tag \in Marks(Here) /\ head \in Here /\ head # 0 /\ accepted[p][1] = 0
  BY <1>1, Bounds DEF IInv, TypeOK, Here, AcceptedInv
<1>5. /\ tag' \in Marks(Here)
      /\ \A q \in Packages, w \in Versions :
           tag'[q][w] = IF q = p /\ w = 1 THEN head ELSE tag[q][w]
  <2> DEFINE marks == [tag EXCEPT ![p][1] = head]
  <2>1. /\ marks \in Marks(Here)
        /\ \A q \in Packages, w \in Versions : marks[q][w] = IF q = p /\ w = 1 THEN head ELSE tag[q][w]
    BY <1>1, <1>4, MarkOne
  <2>2. tag' = marks
    BY <1>2
  <2> QED
    BY <2>1, <2>2
<1>6. TypeOK'
  BY <1>2, <1>3, <1>5 DEF IInv, TypeOK, Here, There
<1>7. TagInv'
  BY <1>1, <1>2, <1>5 DEF IInv, TagInv
<1>8. AcceptedInv'
  BY <1>1, <1>2, <1>4, <1>5 DEF IInv, AcceptedInv
<1>9. VisibleInv' /\ FreshInv'
  BY <1>2 DEF IInv, VisibleInv, FreshInv
<1>10. InitialInv' /\ RegularInv' /\ LeftInv'
  BY <1>1, <1>2, <1>3, <1>5 DEF InitialInv, RegularInv, LeftInv
<1> QED
  BY <1>6, <1>7, <1>8, <1>9, <1>10 DEF IInv

LEMMA InitialPublishStep == ASSUME IInv, InitialPublish PROVE IInv'
<1> DEFINE p == job.pkg
<1>1. /\ job \in InitialJobs /\ p \in Packages /\ manifest[p] = 1 /\ 1 \in Versions
      /\ commits[head].ver[p] = 1 /\ origin.tag[p][1] = 0 /\ tag[p][1] = head
  BY InInitial DEF InitialPublish
<1>2. /\ accepted' = [accepted EXCEPT ![p][1] = head] /\ job' = [job EXCEPT !.at = "branch"]
      /\ UNCHANGED <<manifest, head, commits, tag, begun, origin, visible>>
  BY <1>1 DEF InitialPublish, tree, history
<1>3. job' \in InitialJobs /\ job' \notin RegularJobs /\ job'.pkg = p /\ job'.at = "branch"
  BY <1>1, <1>2, InitialMoves
<1>4. accepted \in Marks(There) /\ head \in There /\ head # 0
  BY Bounds DEF IInv, TypeOK, There
<1>5. /\ accepted' \in Marks(There)
      /\ \A q \in Packages, w \in Versions :
           accepted'[q][w] = IF q = p /\ w = 1 THEN head ELSE accepted[q][w]
  <2> DEFINE marks == [accepted EXCEPT ![p][1] = head]
  <2>1. /\ marks \in Marks(There)
        /\ \A q \in Packages, w \in Versions : marks[q][w] = IF q = p /\ w = 1 THEN head ELSE accepted[q][w]
    BY <1>1, <1>4, MarkOne
  <2>2. accepted' = marks
    BY <1>2
  <2> QED
    BY <2>1, <2>2
<1>6. TypeOK'
  BY <1>2, <1>3, <1>5 DEF IInv, TypeOK, Here, There
<1>7. TagInv' /\ FreshInv'
  BY <1>2 DEF IInv, TagInv, FreshInv
<1>8. AcceptedInv'
  BY <1>1, <1>2, <1>5 DEF IInv, AcceptedInv
<1>9. VisibleInv'
  <2>1. \A q \in Packages : visible[q] \subseteq Versions
    BY DEF IInv, TypeOK
  <2> QED
    BY <1>2, <1>4, <1>5, <2>1 DEF IInv, VisibleInv
<1>10. InitialInv' /\ RegularInv' /\ LeftInv'
  BY <1>1, <1>2, <1>3 DEF InitialInv, RegularInv, LeftInv
<1> QED
  BY <1>6, <1>7, <1>8, <1>9, <1>10 DEF IInv

\* origin gets the branch: every commit of the clone, and what it had.
LEMMA OriginStep ==
  ASSUME IInv, NEW marks \in Marks(There),
         origin' = [origin EXCEPT !.has = 1..head, !.tag = marks],
         \A p \in Packages, v \in Versions :
           marks[p][v] = origin.tag[p][v] \/ (origin.tag[p][v] = 0 /\ marks[p][v] = tag[p][v]),
         UNCHANGED <<manifest, head, commits, tag, begun, accepted, visible>>,
         job' \in {NoJob} \cup InitialJobs \cup RegularJobs, InitialInv', RegularInv', LeftInv'
  PROVE  IInv'
<1>1. /\ origin' \in [has : SUBSET (1..head), ahead : Commits \cup {NoCommit}, tag : Marks(There)]
      /\ origin'.has = 1..head /\ origin'.ahead = origin.ahead /\ origin'.tag = marks
  BY DEF IInv, TypeOK
<1>2. TypeOK'
  <2>1. 1 \in 1..head
    BY Bounds DEF IInv, TypeOK
  <2> QED
    BY <1>1, <2>1 DEF IInv, TypeOK, Here, There
<1>3. \A p \in Packages, v \in Versions : tag[p][v] \in 0..head /\ origin.tag[p][v] \in 0..head \cup {Theirs}
  BY DEF IInv, TypeOK, Marks, Here, There
<1>4. \A c \in 0..head : c # Theirs
  BY Bounds DEF IInv, TypeOK
<1>5. TagInv'
  BY <1>1, <1>3, <1>4 DEF IInv, TagInv
<1>6. AcceptedInv'
  BY <1>1, <1>3 DEF IInv, AcceptedInv
<1>7. VisibleInv' /\ FreshInv'
  BY <1>1 DEF IInv, VisibleInv, FreshInv
<1> QED
  BY <1>2, <1>5, <1>6, <1>7 DEF IInv

LEMMA PushBranchStep == ASSUME IInv, PushBranch PROVE IInv'
<1> DEFINE p == job.pkg
<1>1. /\ job \in InitialJobs /\ p \in Packages /\ manifest[p] = 1 /\ 1 \in Versions
      /\ commits[head].ver[p] = 1 /\ origin.tag[p][1] = 0 /\ tag[p][1] = head
  BY InInitial DEF PushBranch
<1>2. /\ origin' = [origin EXCEPT !.has = 1..head] /\ job' = [job EXCEPT !.at = "push"]
      /\ UNCHANGED <<manifest, head, commits, tag, begun, accepted, visible>>
  BY DEF PushBranch, tree, history, registry
<1>3. job' \in InitialJobs /\ job' \notin RegularJobs /\ job'.pkg = p /\ job'.at = "push"
  BY <1>1, <1>2, InitialMoves
<1>4. origin' = [origin EXCEPT !.has = 1..head, !.tag = origin.tag] /\ origin.tag \in Marks(There)
      /\ origin'.has = 1..head /\ origin'.tag = origin.tag
  BY <1>2 DEF IInv, TypeOK
<1>5. head \in 1..head
  BY DEF IInv, TypeOK
<1>6. InitialInv' /\ RegularInv' /\ LeftInv'
  BY <1>1, <1>2, <1>3, <1>4, <1>5 DEF InitialInv, RegularInv, LeftInv
<1> QED
  BY <1>2, <1>3, <1>4, <1>6, OriginStep

LEMMA PushTagStep == ASSUME IInv, PushTag PROVE IInv'
<1> DEFINE p == job.pkg
<1>1. /\ job \in InitialJobs /\ p \in Packages /\ manifest[p] = 1 /\ 1 \in Versions
      /\ commits[head].ver[p] = 1 /\ origin.tag[p][1] = 0 /\ tag[p][1] = head /\ head \in origin.has
  BY InInitial DEF PushTag
<1>2. /\ origin' = [origin EXCEPT !.tag[p][1] = head] /\ job' = NoJob
      /\ UNCHANGED <<manifest, head, commits, tag, begun, accepted, visible>>
  BY <1>1 DEF PushTag, tree, history, registry
<1> DEFINE marks == [origin.tag EXCEPT ![p][1] = head]
<1>3. /\ origin.tag \in Marks(There) /\ head \in There /\ head # 0 /\ head # Theirs
      /\ origin \in [has : SUBSET (1..head), ahead : Commits \cup {NoCommit}, tag : Marks(There)]
  BY Bounds DEF IInv, TypeOK, There
<1>4. /\ marks \in Marks(There)
      /\ \A q \in Packages, w \in Versions : marks[q][w] = IF q = p /\ w = 1 THEN head ELSE origin.tag[q][w]
  BY <1>1, <1>3, MarkOne
<1>5. origin'.has = origin.has /\ origin'.ahead = origin.ahead /\ origin'.tag = marks
      /\ origin' \in [has : SUBSET (1..head), ahead : Commits \cup {NoCommit}, tag : Marks(There)]
  BY <1>2, <1>3, <1>4
<1> HIDE DEF marks
<1>6. TypeOK'
  BY <1>2, <1>5 DEF IInv, TypeOK, Here, There
<1>7. TagInv'
  BY <1>1, <1>2, <1>3, <1>4, <1>5 DEF IInv, TagInv
<1>8. AcceptedInv'
  BY <1>1, <1>2, <1>3, <1>4, <1>5 DEF IInv, AcceptedInv
<1>9. VisibleInv' /\ FreshInv'
  BY <1>2, <1>5 DEF IInv, VisibleInv, FreshInv
<1>10. InitialInv' /\ RegularInv' /\ LeftInv'
  BY <1>2, JobKinds DEF InitialInv, RegularInv, LeftInv
<1> QED
  BY <1>6, <1>7, <1>8, <1>9, <1>10 DEF IInv

-----------------------------------------------------------------------------
(* Regular releases.                                                       *)

LEMMA PlanHas == ASSUME job \in RegularJobs
                 PROVE  /\ job \notin InitialJobs /\ DOMAIN job.plan \subseteq Packages
                        /\ \A p \in DOMAIN job.plan : job.plan[p] \in Versions
<1>1. job.plan \in Plans
  BY DEF RegularJobs
<1> QED
  BY <1>1, JobKinds, PlanOf

LEMMA StartRegularStep == ASSUME IInv, NEW plan \in Plans, StartRegular(plan) PROVE IInv'
<1>1. /\ \A p \in DOMAIN plan : MayRaise(p, plan[p])
      /\ job' = [kind |-> "regular", plan |-> plan, at |-> "write", left |-> DOMAIN plan]
      /\ UNCHANGED <<manifest, head, commits, tag, begun, origin, accepted, visible>>
  BY DEF StartRegular, tree, history, registry
<1>2. DOMAIN plan \subseteq Packages /\ plan \in [DOMAIN plan -> Versions]
  BY PlanOf
<1>3. /\ job' \in RegularJobs /\ job'.plan = plan /\ job'.at = "write" /\ job'.left = DOMAIN plan
  BY <1>1, <1>2 DEF RegularJobs
<1>4. job' \notin InitialJobs
  BY <1>3, JobKinds
<1>5. ASSUME NEW p \in DOMAIN plan PROVE visible[p] # {} /\ plan[p] # 1
  <2>1. plan[p] > manifest[p] /\ visible[p] # {}
    BY <1>1 DEF MayRaise, Raises
  <2>2. manifest[p] \in Versions /\ plan[p] \in Versions
    BY <1>2 DEF IInv, TypeOK
  <2> QED
    BY <2>1, <2>2, Bounds DEF Versions
<1>6. InitialInv' /\ RegularInv' /\ LeftInv'
  BY <1>1, <1>3, <1>4, <1>5 DEF InitialInv, RegularInv, LeftInv
<1> QED
  BY <1>1, <1>3, <1>6, JobStep

LEMMA InRegular ==
  ASSUME IInv, NEW step \in {"write", "commit", "tag"}, Regular(step)
  PROVE  job \in RegularJobs /\ job \notin InitialJobs /\ job.at = step
<1>1. job \in RegularJobs
  BY JobKinds DEF Regular, IInv, TypeOK, NoJob
<1> QED
  BY <1>1, JobKinds DEF Regular

LEMMA RegularMoves ==
  ASSUME job \in RegularJobs, NEW step \in {"write", "commit", "tag"}, NEW left \in SUBSET Packages,
         job' = [job EXCEPT !.at = step, !.left = left]
  PROVE  /\ job' \in RegularJobs /\ job' \notin InitialJobs
         /\ job'.plan = job.plan /\ job'.at = step /\ job'.left = left
<1>1. job' \in RegularJobs /\ job'.plan = job.plan /\ job'.at = step /\ job'.left = left
  BY DEF RegularJobs
<1> QED
  BY <1>1, JobKinds

LEMMA WriteManifestStep == ASSUME IInv, NEW p \in Packages, WriteManifest(p) PROVE IInv'
<1>1. job \in RegularJobs /\ job \notin InitialJobs /\ job.at = "write" /\ p \in job.left
  BY InRegular DEF WriteManifest
<1>2. /\ manifest' = [manifest EXCEPT ![p] = job.plan[p]] /\ job' = [job EXCEPT !.left = @ \ {p}]
      /\ UNCHANGED <<head, commits, tag, begun, origin, accepted, visible>>
  BY DEF WriteManifest, history, registry
<1>3. job.left \in SUBSET Packages /\ job' = [job EXCEPT !.at = "write", !.left = job.left \ {p}]
  BY <1>1, <1>2 DEF RegularJobs
<1>4. /\ job' \in RegularJobs /\ job' \notin InitialJobs
      /\ job'.plan = job.plan /\ job'.at = "write" /\ job'.left = job.left \ {p}
  BY <1>1, <1>3, RegularMoves
<1>5. p \in DOMAIN job.plan
  BY <1>1 DEF IInv, LeftInv
<1>6. job.plan[p] \in Versions /\ visible[p] # {} /\ DOMAIN job.plan \subseteq Packages
  BY <1>1, <1>5, PlanHas DEF IInv, RegularInv
<1>7. /\ manifest' \in [Packages -> Versions]
      /\ \A q \in Packages : manifest'[q] = IF q = p THEN job.plan[p] ELSE manifest[q]
  BY <1>2, <1>6 DEF IInv, TypeOK
<1>8. TypeOK' /\ TagInv' /\ AcceptedInv' /\ VisibleInv'
  BY <1>2, <1>4, <1>7 DEF IInv, TypeOK, Here, There, TagInv, AcceptedInv, VisibleInv
<1>9. FreshInv'
  BY <1>2, <1>6, <1>7 DEF IInv, FreshInv
<1>10. InitialInv' /\ RegularInv' /\ LeftInv'
  BY <1>1, <1>2, <1>4, <1>6, <1>7 DEF IInv, InitialInv, RegularInv, LeftInv
<1> QED
  BY <1>8, <1>9, <1>10 DEF IInv

LEMMA SyncLockfileStep == ASSUME IInv, SyncLockfile PROVE IInv'
<1>1. job \in RegularJobs /\ job \notin InitialJobs /\ job.at = "write" /\ job.left = {}
  BY InRegular DEF SyncLockfile
<1>2. /\ job' = [job EXCEPT !.at = "commit"]
      /\ UNCHANGED <<manifest, head, commits, tag, begun, origin, accepted, visible>>
  BY DEF SyncLockfile, history, registry
<1>3. job' = [job EXCEPT !.at = "commit", !.left = {}]
  BY <1>1, <1>2 DEF RegularJobs
<1>4. /\ job' \in RegularJobs /\ job' \notin InitialJobs
      /\ job'.plan = job.plan /\ job'.at = "commit" /\ job'.left = {}
  BY <1>1, <1>3, RegularMoves
<1>5. InitialInv' /\ RegularInv' /\ LeftInv'
  BY <1>1, <1>2, <1>4 DEF IInv, InitialInv, RegularInv, LeftInv
<1> QED
  BY <1>2, <1>4, <1>5, JobStep

LEMMA CommitReleaseStep == ASSUME IInv, CommitRelease PROVE IInv'
<1> DEFINE files == {Lock} \cup ({"manifest"} \X DOMAIN job.plan)
<1>1. job \in RegularJobs /\ job \notin InitialJobs /\ job.at = "commit"
  BY InRegular DEF CommitRelease
<1>2. /\ RecordCommit(files) /\ job' = [job EXCEPT !.at = "tag", !.left = DOMAIN job.plan]
      /\ UNCHANGED <<manifest, tag, begun, origin, accepted, visible>>
  BY DEF CommitRelease, registry
<1>3. DOMAIN job.plan \subseteq Packages
  BY <1>1, PlanHas
<1>4. /\ job' \in RegularJobs /\ job' \notin InitialJobs
      /\ job'.plan = job.plan /\ job'.at = "tag" /\ job'.left = DOMAIN job.plan
  BY <1>1, <1>2, <1>3, RegularMoves
<1>5. /\ \A p \in Packages : commits'[head'].ver[p] =
              IF <<"manifest", p>> \in files THEN manifest[p] ELSE commits[head].ver[p]
      /\ TypeOK' /\ TagInv' /\ AcceptedInv' /\ VisibleInv' /\ FreshInv'
  <2> HIDE DEF files
  <2> QED
    BY <1>2, <1>4, RecordStep
<1>6. \A p \in DOMAIN job.plan : commits'[head'].ver[p] = job.plan[p] /\ manifest[p] = job.plan[p]
  <2>1. \A p \in DOMAIN job.plan : manifest[p] = job.plan[p] /\ <<"manifest", p>> \in files
    BY <1>1 DEF IInv, RegularInv
  <2> QED
    BY <1>3, <1>5, <2>1
<1>7. InitialInv' /\ RegularInv' /\ LeftInv'
  BY <1>1, <1>2, <1>4, <1>6 DEF IInv, InitialInv, RegularInv, LeftInv
<1> QED
  BY <1>5, <1>7 DEF IInv

LEMMA TagReleaseStep == ASSUME IInv, NEW p \in Packages, TagRelease(p) PROVE IInv'
<1>1. job \in RegularJobs /\ job \notin InitialJobs /\ job.at = "tag" /\ p \in job.left
  BY InRegular DEF TagRelease
<1>2. /\ tag' = [tag EXCEPT ![p][job.plan[p]] = head] /\ job' = [job EXCEPT !.left = @ \ {p}]
      /\ UNCHANGED <<manifest, head, commits, begun, origin, accepted, visible>>
  BY DEF TagRelease, tree, registry
<1>3. job.left \in SUBSET Packages /\ job' = [job EXCEPT !.at = "tag", !.left = job.left \ {p}]
  BY <1>1, <1>2 DEF RegularJobs
<1>4. /\ job' \in RegularJobs /\ job' \notin InitialJobs
      /\ job'.plan = job.plan /\ job'.at = "tag" /\ job'.left = job.left \ {p}
  BY <1>1, <1>3, RegularMoves
<1>5. p \in DOMAIN job.plan
  BY <1>1 DEF IInv, LeftInv
<1>6. /\ job.plan[p] \in Versions /\ job.plan[p] # 1 /\ commits[head].ver[p] = job.plan[p]
      /\ DOMAIN job.plan \subseteq Packages
  BY <1>1, <1>5, PlanHas DEF IInv, RegularInv
<1>7. tag \in Marks(Here) /\ head \in Here
  BY Bounds DEF IInv, TypeOK, Here
<1>8. /\ tag' \in Marks(Here)
      /\ \A q \in Packages, w \in Versions :
           tag'[q][w] = IF q = p /\ w = job.plan[p] THEN head ELSE tag[q][w]
  <2> DEFINE v == job.plan[p]
             marks == [tag EXCEPT ![p][v] = head]
  <2>1. v \in Versions
    BY <1>6
  <2>2. tag' = marks
    BY <1>2
  <2> HIDE DEF v
  <2>3. /\ marks \in Marks(Here)
        /\ \A q \in Packages, w \in Versions : marks[q][w] = IF q = p /\ w = v THEN head ELSE tag[q][w]
    BY <1>7, <2>1, MarkOne
  <2> QED
    BY <2>2, <2>3 DEF v
<1>9. TypeOK'
  BY <1>2, <1>4, <1>8 DEF IInv, TypeOK, Here, There
<1>10. TagInv' /\ AcceptedInv'
  BY <1>2, <1>6, <1>8 DEF IInv, TagInv, AcceptedInv
<1>11. VisibleInv' /\ FreshInv'
  BY <1>2 DEF IInv, VisibleInv, FreshInv
<1>12. InitialInv' /\ LeftInv'
  BY <1>1, <1>4 DEF IInv, InitialInv, LeftInv
<1>13. RegularInv'
  BY <1>1, <1>2, <1>4, <1>6, <1>8, PlanHas DEF IInv, RegularInv
<1> QED
  BY <1>9, <1>10, <1>11, <1>12, <1>13 DEF IInv

\* The marks an atomic push leaves on origin.
LEMMA AtomicPushMarks ==
  ASSUME IInv, NEW tags \in SUBSET Packages, AtomicPush(tags)
  PROVE  \E marks \in Marks(There) :
           /\ origin' = [origin EXCEPT !.has = 1..head, !.tag = marks]
           /\ \A p \in Packages, v \in Versions :
                marks[p][v] = origin.tag[p][v] \/ (origin.tag[p][v] = 0 /\ marks[p][v] = tag[p][v])
<1> DEFINE marks == [p \in Packages |-> IF p \in tags
                       THEN [origin.tag[p] EXCEPT ![manifest[p]] = tag[p][manifest[p]]]
                       ELSE origin.tag[p]]
<1>1. origin' = [origin EXCEPT !.has = 1..head, !.tag = marks]
  BY DEF AtomicPush
<1>2. /\ origin.tag \in Marks(There) /\ tag \in Marks(There) /\ manifest \in [Packages -> Versions]
  BY DEF IInv, TypeOK, Marks, Here, There
<1>3. marks \in Marks(There)
  BY <1>2 DEF Marks
<1>4. \A p \in Packages, v \in Versions :
        marks[p][v] = origin.tag[p][v] \/ (origin.tag[p][v] = 0 /\ marks[p][v] = tag[p][v])
  <2> SUFFICES ASSUME NEW p \in Packages, NEW v \in Versions
      PROVE  marks[p][v] = origin.tag[p][v] \/ (origin.tag[p][v] = 0 /\ marks[p][v] = tag[p][v])
    OBVIOUS
  <2>1. p \in tags => origin.tag[p][manifest[p]] = 0
    BY DEF AtomicPush
  <2> QED
    BY <1>2, <2>1 DEF Marks
<1> QED
  BY <1>1, <1>3, <1>4

LEMMA PushStep ==
  ASSUME IInv, NEW tags \in SUBSET Packages, AtomicPush(tags), job' = NoJob,
         UNCHANGED <<manifest, head, commits, tag, begun, accepted, visible>>
  PROVE  IInv'
<1>1. InitialInv' /\ RegularInv' /\ LeftInv'
  BY JobKinds DEF InitialInv, RegularInv, LeftInv
<1>2. PICK marks \in Marks(There) :
        /\ origin' = [origin EXCEPT !.has = 1..head, !.tag = marks]
        /\ \A p \in Packages, v \in Versions :
             marks[p][v] = origin.tag[p][v] \/ (origin.tag[p][v] = 0 /\ marks[p][v] = tag[p][v])
  BY AtomicPushMarks
<1> QED
  BY <1>1, <1>2, OriginStep

LEMMA PushReleaseStep == ASSUME IInv, PushRelease PROVE IInv'
<1>1. DOMAIN job.plan \subseteq Packages
  BY InRegular, PlanHas DEF PushRelease
<1> QED
  BY <1>1, PushStep DEF PushRelease, tree, history, registry

LEMMA FinishPushStep == ASSUME IInv, FinishPush PROVE IInv'
<1> DEFINE tags == {p \in Packages : /\ tag[p][manifest[p]] # 0 /\ begun[p] # manifest[p]
                                     /\ origin.tag[p][manifest[p]] = 0}
<1>1. /\ AtomicPush(tags) /\ job' = NoJob
      /\ UNCHANGED <<manifest, head, commits, tag, begun, accepted, visible>>
  BY DEF FinishPush, tree, history, registry
<1>2. tags \in SUBSET Packages
  OBVIOUS
<1> HIDE DEF tags
<1> QED
  BY <1>1, <1>2, PushStep

-----------------------------------------------------------------------------
(* The workflow, the registry and other developers.                        *)

LEMMA WorkflowStep == ASSUME IInv, NEW p \in Packages, NEW v \in Versions, Workflow(p, v) PROVE IInv'
<1> DEFINE there == origin.tag[p][v]
<1>1. /\ there # 0 /\ accepted' = [accepted EXCEPT ![p][v] = there]
      /\ UNCHANGED <<manifest, head, commits, tag, begun, origin, visible, job>>
  BY DEF Workflow, tree, history
<1>2. accepted \in Marks(There) /\ there \in There
  BY DEF IInv, TypeOK, Marks
<1>3. /\ accepted' \in Marks(There)
      /\ \A q \in Packages, w \in Versions :
           accepted'[q][w] = IF q = p /\ w = v THEN there ELSE accepted[q][w]
  <2> DEFINE marks == [accepted EXCEPT ![p][v] = there]
  <2> HIDE DEF there
  <2>1. /\ marks \in Marks(There)
        /\ \A q \in Packages, w \in Versions : marks[q][w] = IF q = p /\ w = v THEN there ELSE accepted[q][w]
    BY <1>2, MarkOne
  <2> QED
    BY <1>1, <2>1
<1>4. TypeOK'
  BY <1>1, <1>3 DEF IInv, TypeOK, Here, There
<1>5. TagInv' /\ FreshInv' /\ InitialInv' /\ RegularInv' /\ LeftInv'
  BY <1>1 DEF IInv, TagInv, FreshInv, InitialInv, RegularInv, LeftInv
<1>6. AcceptedInv'
  BY <1>1, <1>3 DEF IInv, AcceptedInv
<1>7. VisibleInv'
  <2>1. \A q \in Packages : visible[q] \subseteq Versions
    BY DEF IInv, TypeOK
  <2> QED
    BY <1>1, <1>3, <2>1 DEF IInv, VisibleInv
<1> QED
  BY <1>4, <1>5, <1>6, <1>7 DEF IInv

LEMMA AppearStep == ASSUME IInv, NEW p \in Packages, NEW v \in Versions, BecomesVisible(p, v) PROVE IInv'
<1>1. /\ accepted[p][v] # 0 /\ visible' = [visible EXCEPT ![p] = @ \cup {v}]
      /\ UNCHANGED <<manifest, head, commits, tag, begun, origin, accepted, job>>
  BY DEF BecomesVisible, tree, history
<1>2. /\ visible' \in [Packages -> SUBSET Versions]
      /\ \A q \in Packages : visible'[q] = IF q = p THEN visible[q] \cup {v} ELSE visible[q]
  BY <1>1 DEF IInv, TypeOK
<1>3. TypeOK'
  BY <1>1, <1>2 DEF IInv, TypeOK, Here, There
<1>4. TagInv' /\ AcceptedInv' /\ InitialInv' /\ LeftInv'
  BY <1>1 DEF IInv, TagInv, AcceptedInv, InitialInv, LeftInv
<1>5. VisibleInv' /\ FreshInv'
  BY <1>1, <1>2 DEF IInv, VisibleInv, FreshInv
<1>6. RegularInv'
  BY <1>1, <1>2, PlanHas DEF IInv, RegularInv
<1> QED
  BY <1>3, <1>4, <1>5, <1>6 DEF IInv

LEMMA OtherPushStep == ASSUME IInv, NEW p \in Packages, OtherPush(p) PROVE IInv'
<1> DEFINE c == MaxOf(origin.has)
           tip == commits[c].ver
           v == tip[p] + 1
           push(ver) == [ver |-> ver, touched |-> {p}]
<1>1. /\ origin.ahead = NoCommit
      /\ UNCHANGED <<manifest, head, commits, tag, begun, accepted, visible, job>>
      /\ \/ origin' = [origin EXCEPT !.ahead = push(tip)]
         \/ /\ tip[p] = Baseline(p) /\ v \in Versions /\ origin.tag[p][v] = 0
            /\ origin' = [origin EXCEPT !.ahead = push([tip EXCEPT ![p] = v]), !.tag[p][v] = Theirs]
  BY DEF OtherPush, tree, history, registry
<1>2. c \in 1..head /\ tip \in [Packages -> Versions]
  <2>1. head \in Nat /\ origin.has \in SUBSET (0..head) /\ origin.has # {} /\ origin.has \subseteq 1..head
    BY DEF IInv, TypeOK
  <2>2. c \in origin.has
    BY <2>1, MaxOfBounded
  <2> QED
    BY <2>1, <2>2 DEF IInv, TypeOK, Commits
<1> HIDE DEF c
<1>3. \A q \in Packages : visible[q] = {} => tip[q] = 1
  BY <1>2 DEF IInv, FreshInv
<1>4. /\ origin \in [has : SUBSET (1..head), ahead : Commits \cup {NoCommit}, tag : Marks(There)]
      /\ origin.tag \in Marks(There) /\ Theirs \in There /\ origin.has # {}
  BY DEF IInv, TypeOK, There
<1>5. \A q \in Packages, w \in Versions : origin.tag[q][w] # Theirs
  BY <1>1, NoCommitIsNone DEF IInv, TagInv
<1>6. CASE origin' = [origin EXCEPT !.ahead = push(tip)]
  <2>1. /\ origin'.has = origin.has /\ origin'.tag = origin.tag /\ origin'.ahead = push(tip)
        /\ push(tip) \in Commits
    BY <1>2, <1>4, <1>6 DEF Commits
  <2>2. origin' \in [has : SUBSET (1..head), ahead : Commits \cup {NoCommit}, tag : Marks(There)]
    BY <1>4, <1>6, <2>1
  <2>3. TypeOK'
    BY <1>1, <1>4, <2>1, <2>2 DEF IInv, TypeOK, Here, There
  <2>4. TagInv' /\ AcceptedInv' /\ VisibleInv'
    BY <1>1, <1>5, <2>1 DEF IInv, TagInv, AcceptedInv, VisibleInv
  <2>5. FreshInv'
    BY <1>1, <1>3, <2>1 DEF IInv, FreshInv
  <2>6. InitialInv' /\ RegularInv' /\ LeftInv'
    BY <1>1, <2>1 DEF IInv, InitialInv, RegularInv, LeftInv
  <2> QED
    BY <2>3, <2>4, <2>5, <2>6 DEF IInv
<1>7. CASE /\ tip[p] = Baseline(p) /\ v \in Versions /\ origin.tag[p][v] = 0
           /\ origin' = [origin EXCEPT !.ahead = push([tip EXCEPT ![p] = v]), !.tag[p][v] = Theirs]
  <2> DEFINE new == [tip EXCEPT ![p] = v]
             marks == [origin.tag EXCEPT ![p][v] = Theirs]
  <2>1. new \in [Packages -> Versions] /\ new[p] = v /\ \A q \in Packages : q # p => new[q] = tip[q]
    BY <1>2, <1>7
  <2>2. tip[p] \in Versions /\ v # 1 /\ visible[p] # {}
    BY <1>2, <1>7, BaselineIsPublic, Bounds DEF IInv, TypeOK
  <2> HIDE DEF v, tip, new
  <2>3. /\ marks \in Marks(There)
        /\ \A q \in Packages, w \in Versions : marks[q][w] = IF q = p /\ w = v THEN Theirs ELSE origin.tag[q][w]
    BY <1>4, <1>7, MarkOne
  <2>4. /\ origin'.has = origin.has /\ origin'.tag = marks /\ origin'.ahead = push(new)
        /\ push(new) \in Commits /\ push(new).ver = new
    BY <1>4, <1>7, <2>1 DEF new, Commits
  <2>5. origin' \in [has : SUBSET (1..head), ahead : Commits \cup {NoCommit}, tag : Marks(There)]
    BY <1>4, <1>7, <2>3, <2>4 DEF new
  <2> HIDE DEF marks, push
  <2>6. TypeOK'
    BY <1>1, <1>4, <2>4, <2>5 DEF IInv, TypeOK, Here, There
  <2>7. TagInv'
    BY <1>1, <1>5, <2>1, <2>3, <2>4 DEF IInv, TagInv
  <2>8. AcceptedInv'
    BY <1>1, <1>7, <2>2, <2>3, <2>4, Bounds DEF IInv, AcceptedInv
  <2>9. VisibleInv'
    BY <1>1 DEF IInv, VisibleInv
  <2>10. FreshInv'
    BY <1>1, <1>3, <2>1, <2>2, <2>4 DEF IInv, FreshInv
  <2>11. InitialInv'
    BY <1>1, <2>2, <2>3, <2>4, Bounds DEF IInv, InitialInv, InitialJobs
  <2>12. RegularInv' /\ LeftInv'
    BY <1>1 DEF IInv, RegularInv, LeftInv
  <2> QED
    BY <2>6, <2>7, <2>8, <2>9, <2>10, <2>11, <2>12 DEF IInv
<1> QED
  BY <1>1, <1>6, <1>7

-----------------------------------------------------------------------------
LEMMA NextInv == IInv /\ [ReleaseNext]_releaseVars => IInv'
<1> SUFFICES ASSUME IInv, [ReleaseNext]_releaseVars PROVE IInv'
  OBVIOUS
<1>1. CASE Developer
  <2>1. CASE SyncReadme \/ \E p \in Packages : Edit(p) \/ \E v \in Versions : Changelog(p, v)
    BY <2>1, NothingStep DEF SyncReadme, Edit, Changelog, history, registry
  <2> QED
    BY <1>1, <2>1, DiscardStep, PullStep, AlignmentStep, FinishPushStep, CommitStep DEF Developer
<1>2. CASE Tool
  <2>1. CASE Break \/ ReleaseRefused
    BY <2>1, NothingStep DEF Break, ReleaseRefused, tree, history, registry
  <2> QED
    BY <1>2, <2>1, InitialTagStep, InitialPublishStep, PushBranchStep, PushTagStep, SyncLockfileStep,
       CommitReleaseStep, PushReleaseStep, StartInitialStep, WriteManifestStep, TagReleaseStep,
       StartRegularStep DEF Tool
<1>3. CASE World
  BY <1>3, OtherPushStep, WorkflowStep, AppearStep DEF World
<1>4. CASE UNCHANGED releaseVars
  BY <1>4, NothingStep DEF releaseVars, tree, history, registry
<1> QED
  BY <1>1, <1>2, <1>3, <1>4 DEF ReleaseNext

\* The history of the clone, the tags, the registry and the release that runs fit
\* together (gcm, gbump, mono-tagcheck and publish.yml, whatever breaks off).
THEOREM Invariance == ReleaseSpec => []IInv
BY InitInv, NextInv, PTL DEF ReleaseSpec

\* What is published under a version is what its tag names, in a commit whose manifest
\* has the version (gbump on this machine, publish.yml for a pushed tag).
THEOREM PublishedVersionsAreTagged == ReleaseSpec => []PublishedIsTagged
<1>1. IInv => PublishedIsTagged
  <2> SUFFICES ASSUME IInv, NEW p \in Packages, NEW v \in Versions, accepted[p][v] # 0
      PROVE  /\ accepted[p][v] = IF origin.tag[p][v] # 0 THEN origin.tag[p][v] ELSE tag[p][v]
             /\ accepted[p][v] # Theirs => commits[accepted[p][v]].ver[p] = v
    BY DEF PublishedIsTagged
  <2>1. \/ origin.tag[p][v] # 0 /\ accepted[p][v] = origin.tag[p][v]
        \/ origin.tag[p][v] = 0 /\ accepted[p][v] = tag[p][v]
    BY DEF IInv, AcceptedInv
  <2> QED
    BY <2>1 DEF IInv, TagInv
<1> QED
  BY <1>1, Invariance, PTL

\* An initial release that broke off can be run again: its decision is no error while
\* HEAD stays at its tag and nobody else releases (initialReleaseDecision).
THEOREM InitialReleaseCanBeRetried == ReleaseSpec => []RetryIsAccepted
<1>1. IInv => RetryIsAccepted
  <2> SUFFICES ASSUME IInv, NEW p \in Packages, begun[p] = manifest[p], tag[p][manifest[p]] = head,
                      origin.tag[p][manifest[p]] = 0, Baseline(p) <= manifest[p]
      PROVE  ~Decision(p).error
    BY DEF RetryIsAccepted
  <2>1. manifest[p] = 1 /\ head # 0 /\ visible[p] \subseteq Versions
    BY Bounds DEF IInv, TypeOK
  <2>2. visible[p] # {} => Baseline(p) = 1
    <3>1. Baseline(p) \in visible[p] \cup {0} /\ \A v \in visible[p] : v <= Baseline(p)
      BY BaselineIsPublic DEF IInv, TypeOK
    <3> QED
      BY <2>1, <3>1 DEF Versions
  <2> QED
    BY <2>1, <2>2 DEF Decision, TagState
<1> QED
  BY <1>1, Invariance, PTL

\* A tag on origin names a commit of the branch and no push of this machine moves it
\* (git push of the branch before the tag, and --atomic).
THEOREM TagsOnOriginStay == ReleaseSpec => TagsStay
<1> DEFINE Stays == \A p \in Packages, v \in Versions : LET c == origin.tag[p][v] IN
                      c \notin {0, Theirs} => c \in origin.has /\ origin'.tag[p][v] = c
<1>1. IInv /\ [ReleaseNext]_releaseVars => Stays
  <2> SUFFICES ASSUME IInv, [ReleaseNext]_releaseVars, NEW p \in Packages, NEW v \in Versions,
                      origin.tag[p][v] \notin {0, Theirs}
      PROVE  origin.tag[p][v] \in origin.has /\ origin'.tag[p][v] = origin.tag[p][v]
    OBVIOUS
  <2>1. origin.tag[p][v] \in origin.has
    BY DEF IInv, TagInv
  <2>2. origin \in [has : SUBSET (1..head), ahead : Commits \cup {NoCommit}, tag : Marks(There)]
        /\ origin.tag \in Marks(There)
    BY DEF IInv, TypeOK
  <2>3. \/ origin' = origin \/ Pull \/ PushBranch \/ PushTag \/ PushRelease \/ FinishPush
        \/ \E q \in Packages : OtherPush(q)
    BY DEF ReleaseNext, Developer, Tool, World, Discard, SyncReadme, SyncVersions, ResetVersions, Align, Commit,
       Edit, Changelog, InitialTag, InitialPublish, SyncLockfile, CommitRelease, Break, ReleaseRefused,
       StartInitial, WriteManifest, TagRelease, StartRegular, Workflow, BecomesVisible, releaseVars
  <2>4. CASE Pull
    <3>1. origin'.tag = Renamed(origin.tag, head + 1)
      BY <2>4 DEF Pull, Merge
    <3> QED
      BY <2>1, <3>1 DEF Renamed
  <2>5. CASE PushBranch
    BY <2>1, <2>2, <2>5 DEF PushBranch
  <2>6. CASE PushTag
    <3> DEFINE q == job.pkg
               marks == [origin.tag EXCEPT ![q][1] = head]
    <3>1. q \in Packages /\ manifest[q] = 1 /\ 1 \in Versions /\ origin.tag[q][1] = 0 /\ tag[q][1] = head
          /\ head \in There
      BY <2>6, InInitial DEF PushTag, IInv, TypeOK, There
    <3>2. origin'.tag = marks
      BY <2>2, <2>6, <3>1 DEF PushTag
    <3>3. marks[p][v] = IF p = q /\ v = 1 THEN head ELSE origin.tag[p][v]
      BY <2>2, <3>1, MarkOne
    <3> QED
      BY <2>1, <3>1, <3>2, <3>3
  <2>7. CASE PushRelease \/ FinishPush
    <3>1. PICK tags \in SUBSET Packages : AtomicPush(tags)
      <4>1. CASE PushRelease
        <5>1. DOMAIN job.plan \in SUBSET Packages /\ AtomicPush(DOMAIN job.plan)
          BY <4>1, InRegular, PlanHas DEF PushRelease
        <5> QED
          BY <5>1
      <4>2. CASE FinishPush
        <5> DEFINE unpushed == {q \in Packages : /\ tag[q][manifest[q]] # 0 /\ begun[q] # manifest[q]
                                                 /\ origin.tag[q][manifest[q]] = 0}
        <5>1. AtomicPush(unpushed) /\ unpushed \in SUBSET Packages
          BY <4>2 DEF FinishPush
        <5> QED
          BY <5>1
      <4> QED
        BY <2>7, <4>1, <4>2
    <3>2. PICK marks \in Marks(There) :
            /\ origin' = [origin EXCEPT !.has = 1..head, !.tag = marks]
            /\ \A q \in Packages, w \in Versions :
                 marks[q][w] = origin.tag[q][w] \/ (origin.tag[q][w] = 0 /\ marks[q][w] = tag[q][w])
      BY <3>1, AtomicPushMarks
    <3>3. origin'.tag = marks
      BY <2>2, <3>2
    <3> QED
      BY <2>1, <3>2, <3>3
  <2>8. ASSUME NEW r \in Packages, OtherPush(r) PROVE origin'.tag[p][v] = origin.tag[p][v]
    <3>1. \/ origin'.tag = origin.tag
          \/ \E x \in Versions : origin.tag[r][x] = 0 /\ origin'.tag = [origin.tag EXCEPT ![r][x] = Theirs]
      BY <2>2, <2>8 DEF OtherPush
    <3>2. ASSUME NEW x \in Versions, origin.tag[r][x] = 0, origin'.tag = [origin.tag EXCEPT ![r][x] = Theirs]
          PROVE  origin'.tag[p][v] = origin.tag[p][v]
      <4>1. Theirs \in There /\ origin.tag \in Marks(There)
        BY <2>2 DEF There
      <4>2. p # r \/ v # x
        BY <3>2
      <4> QED
        BY <3>2, <4>1, <4>2 DEF Marks
    <3> QED
      BY <3>1, <3>2
  <2> QED
    BY <2>1, <2>3, <2>4, <2>5, <2>6, <2>7, <2>8
<1> QED
  BY <1>1, Invariance, PTL DEF ReleaseSpec, TagsStay

=============================================================================

----------------------------- MODULE TabRecovery -----------------------------
(***************************************************************************)
(* The browser harness's daemon without a lease (daemon.py): requests      *)
(* without a session of their own run in the current one, and one that     *)
(* finds it gone attaches again and is repeated.                           *)
(*                                                                         *)
(* The asyncio tasks of the daemon interleave at every await.  A request   *)
(* carries the session that was current when it came; it may learn much    *)
(* later that the session is gone, after other requests have recovered and *)
(* the user has switched tabs.                                             *)
(***************************************************************************)
EXTENDS Naturals, Sequences, FiniteSets

CONSTANTS
    Tabs,
    NoTab,
    TabRequests,    \* requests without an explicit session
    Named,          \* the daemon has a name: it keeps to a tab of its own
    MaxSessions,    \* bound on CDP sessions
    Capacity        \* entries of _session_replacements; 32 in the code

NoSession == 0
Sessions == 1..MaxSessions
Free == "free"

ASSUME TabAssumption ==
    /\ NoTab \notin Tabs /\ Free \notin TabRequests
    /\ Named \in BOOLEAN
    /\ MaxSessions \in Nat \ {0} /\ Capacity \in Nat \ {0}

VARIABLES
    open,           \* tabs the browser shows
    gone,           \* tabs that have been closed; their ids do not come back
    tabOf,          \* the tab of each session that was ever attached
    live,           \* sessions that work
    current,        \* self.session
    target,         \* self.target_id
    dedicated,      \* self.dedicated_target_id
    replaced,       \* _session_replacements, a dictionary in order of insertion
    holder,         \* who holds _session_state_lock
    at,             \* where each request is
    asked,          \* the session a request came for
    goal,           \* the tab a recovery decided for, or the session of the repetition
    ran,            \* the tab a request was carried out on
    switching       \* the session a helper attached and is about to select

browser == <<open, gone, tabOf, live>>
state == <<current, target, dedicated, replaced, holder>>
request == <<at, asked, goal, ran>>
tabVars == <<browser, state, request, switching>>

Ranges(s) == {s[i] : i \in 1..Len(s)}

\* The session that replaced s, or none.
Replacement(s) == IF \E e \in Ranges(replaced) : e[1] = s
                  THEN (CHOOSE e \in Ranges(replaced) : e[1] = s)[2] ELSE NoSession

Step(r, from, to) == at[r] = from /\ at' = [at EXCEPT ![r] = to]

TabInit ==
    \E t \in Tabs :
        /\ open = {t} /\ gone = {} /\ tabOf = <<t>> /\ live = {1}
        /\ current = 1 /\ target = t
        /\ dedicated = IF Named THEN t ELSE NoTab
        /\ replaced = <<>> /\ holder = Free
        /\ at = [r \in TabRequests |-> "idle"]
        /\ asked = [r \in TabRequests |-> NoSession]
        /\ goal = [r \in TabRequests |-> NoTab]
        /\ ran = [r \in TabRequests |-> NoTab]
        /\ switching = NoSession

-----------------------------------------------------------------------------
(* handle: a CDP method without a session of its own. *)

Issue(r) ==
    /\ Step(r, "idle", "sent")
    /\ asked' = [asked EXCEPT ![r] = current]
    /\ UNCHANGED <<browser, state, goal, ran, switching>>

\* The browser carries it out in the session, or has no such session.
Answer(r) ==
    /\ \/ /\ asked[r] \in live /\ Step(r, "sent", "done")
          /\ ran' = [ran EXCEPT ![r] = tabOf[asked[r]]]
       \/ asked[r] \notin live /\ Step(r, "sent", "stale") /\ UNCHANGED ran
    /\ UNCHANGED <<browser, state, asked, goal, switching>>

\* Mutant: a request whose session was not replaced is repeated in the current one.
EnterMutant(r) ==
    /\ holder = Free
    /\ LET s == IF Replacement(asked[r]) # NoSession THEN Replacement(asked[r]) ELSE current
       IN IF s # asked[r]
          THEN /\ Step(r, "stale", "repeat") /\ goal' = [goal EXCEPT ![r] = s]
               /\ UNCHANGED holder
          ELSE /\ Step(r, "stale", "list") /\ holder' = r /\ UNCHANGED goal
    /\ UNCHANGED <<browser, current, target, dedicated, replaced, asked, ran, switching>>

\* Under the lock: a session that was replaced since is followed, the current one is
\* recovered, any other is given up.
Enter(r) ==
    /\ holder = Free
    /\ LET s == Replacement(asked[r])
       IN \/ /\ s # NoSession /\ Step(r, "stale", "repeat")
             /\ goal' = [goal EXCEPT ![r] = s] /\ UNCHANGED holder
          \/ /\ s = NoSession /\ asked[r] = current /\ Step(r, "stale", "list")
             /\ holder' = r /\ UNCHANGED goal
          \/ /\ s = NoSession /\ asked[r] # current /\ Step(r, "stale", "error")
             /\ UNCHANGED <<holder, goal>>
    /\ UNCHANGED <<browser, current, target, dedicated, replaced, asked, ran, switching>>

\* An exception leaves the lock and is answered as an error.
Fails(r) == at' = [at EXCEPT ![r] = "error"] /\ holder' = Free

-----------------------------------------------------------------------------
(* attach_first_page, within the lock. *)

\* The tab a named daemon keeps to: the current one, or else its own.
Kept == IF target \in open THEN target ELSE IF dedicated \in open THEN dedicated ELSE NoTab

\* Target.getTargets.  A named daemon that finds no tab of its own asks once more under
\* a narrower lock; any other takes the first page, or makes one.
List(r) ==
    /\ at[r] \in {"list", "recheck"}
    /\ LET found == IF Named THEN {Kept} \ {NoTab} ELSE open
           next == IF found # {} THEN "attach"
                   ELSE IF Named /\ at[r] = "list" THEN "recheck" ELSE "create"
       IN /\ at' = [at EXCEPT ![r] = next]
          /\ IF found = {} THEN UNCHANGED goal
             ELSE \E t \in found : goal' = [goal EXCEPT ![r] = t]
    /\ UNCHANGED <<browser, state, asked, ran, switching>>

NewTabs == Tabs \ (open \cup gone)

Create(r) ==
    /\ at[r] = "create"
    /\ \/ \E t \in NewTabs :
            /\ Step(r, "create", "attach")
            /\ open' = open \cup {t}
            /\ dedicated' = IF Named THEN t ELSE dedicated
            /\ goal' = [goal EXCEPT ![r] = t]
            /\ UNCHANGED holder
       \/ Fails(r) /\ UNCHANGED <<open, dedicated, goal>>
    /\ UNCHANGED <<gone, tabOf, live, current, target, replaced, asked, ran, switching>>

\* _record_session_replacement: what led to the stale session leads to the new one; the
\* oldest entry goes when there are too many.
Record(stale, new) ==
    LET chained == [i \in 1..Len(replaced) |->
                      IF replaced[i][2] = stale THEN <<replaced[i][1], new>> ELSE replaced[i]]
        all == Append(chained, <<stale, new>>)
    IN IF Len(all) > Capacity THEN Tail(all) ELSE all

NewSession == Len(tabOf) + 1

Attach(r) ==
    /\ at[r] = "attach"
    /\ \/ /\ goal[r] \in open /\ NewSession \in Sessions
          /\ tabOf' = Append(tabOf, goal[r]) /\ live' = live \cup {NewSession}
          /\ current' = NewSession /\ target' = goal[r]
          /\ replaced' = Record(asked[r], NewSession)
          /\ Step(r, "attach", "repeat") /\ goal' = [goal EXCEPT ![r] = NewSession]
          /\ holder' = Free
       \/ /\ goal[r] \notin open \/ NewSession \notin Sessions
          /\ Fails(r) /\ UNCHANGED <<tabOf, live, current, target, replaced, goal>>
    /\ UNCHANGED <<open, gone, dedicated, asked, ran, switching>>

\* The request is repeated once, in the session that replaced its own.
Repeat(r) ==
    /\ IF goal[r] \in live
       THEN Step(r, "repeat", "done") /\ ran' = [ran EXCEPT ![r] = tabOf[goal[r]]]
       ELSE Step(r, "repeat", "error") /\ UNCHANGED ran
    /\ UNCHANGED <<browser, state, asked, goal, switching>>

-----------------------------------------------------------------------------
(* switch_tab of the helpers: a session is attached, then selected. *)

SwitchTab(t) ==
    /\ switching = NoSession /\ t \in open /\ NewSession \in Sessions
    /\ tabOf' = Append(tabOf, t) /\ live' = live \cup {NewSession}
    /\ switching' = NewSession
    /\ UNCHANGED <<open, gone, state, request>>

\* meta set_session, under the same lock.
SetSession ==
    /\ switching # NoSession /\ holder = Free
    /\ current' = switching /\ target' = tabOf[switching]
    /\ switching' = NoSession
    /\ UNCHANGED <<browser, dedicated, replaced, holder, request>>

-----------------------------------------------------------------------------
(* The browser and its user (external). *)

\* A tab is closed: its sessions are gone.
CloseTab(t) ==
    /\ t \in open
    /\ open' = open \ {t} /\ gone' = gone \cup {t}
    /\ live' = {s \in live : tabOf[s] # t}
    /\ UNCHANGED <<tabOf, state, request, switching>>

OpenTab ==
    /\ \E t \in NewTabs : open' = open \cup {t}
    /\ UNCHANGED <<gone, tabOf, live, state, request, switching>>

\* A session ends although its tab stays.
Detach(s) ==
    /\ s \in live /\ live' = live \ {s}
    /\ UNCHANGED <<open, gone, tabOf, state, request, switching>>

-----------------------------------------------------------------------------

RequestStep(r) ==
    \/ Issue(r) \/ Answer(r) \/ Enter(r) \/ List(r) \/ Create(r) \/ Attach(r) \/ Repeat(r)

TabNext ==
    \/ \E r \in TabRequests : RequestStep(r)
    \/ \E t \in Tabs : SwitchTab(t) \/ CloseTab(t)
    \/ SetSession \/ OpenTab
    \/ \E s \in Sessions : Detach(s)

TabSpec == TabInit /\ [][TabNext]_tabVars

-----------------------------------------------------------------------------

\* A request of a named daemon is carried out on the tab it was meant for, however many
\* recoveries and switches came in between, unless that tab has been closed.
LandsOnItsTab ==
    \A r \in TabRequests : Named /\ at[r] = "done" => ran[r] = tabOf[asked[r]] \/ tabOf[asked[r]] \in gone

=============================================================================

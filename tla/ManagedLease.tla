---------------------------- MODULE ManagedLease ----------------------------
(***************************************************************************)
(* The managed browser daemon of pi-wsl-browser (runtime/browser-harness/  *)
(* src/browser_harness/daemon.py): one lease on a root page and the tree   *)
(* of pages it opened, kept for the agent over one CDP connection to a     *)
(* browser that also shows the user's own pages.                           *)
(*                                                                         *)
(* Each connection to the daemon's socket is a coroutine: it runs until it *)
(* awaits a CDP answer, and an action is what it does between two awaits.  *)
(* The browser answers in order, and its target events share that channel. *)
(* Control connections (the extension's controller) serialise acquire and  *)
(* release by a lock; agent connections and status take no lock.           *)
(*                                                                         *)
(* A definition named ...Mutant is a plausible bug in the definition that  *)
(* follows it; the specification uses none of them.                        *)
(***************************************************************************)
EXTENDS Naturals, Sequences, FiniteSets

CONSTANTS
  Targets,     \* CDP targets; each is opened and closed at most once
  Users,       \* the targets that are the user's pages from the start
  Requests,    \* what an acquire asks for: a mode, a profile and a marker
  Controls,    \* control connections
  Agents,      \* agent connections
  Discovery,   \* whether the browser reports targets created and destroyed
  Probes,      \* what control connections ask for besides: "status", "health"
  MaxFaults,   \* bound: CDP calls that fail for no reason of the daemon's
  NoTarget, NoRequest, NoLease, Free

ASSUME LeaseAssumption ==
  /\ Users \subseteq Targets
  /\ Requests # {}
  /\ Controls \cap Agents = {}
  /\ Discovery \in BOOLEAN
  /\ Probes \subseteq {"status", "health"}
  /\ MaxFaults \in Nat
  /\ NoTarget \notin Targets /\ NoRequest \notin Requests
  /\ NoLease \notin [root : Targets, req : Requests \cup {NoRequest}]
  /\ Free \notin Controls

VARIABLES
  \* the browser
  live,        \* open targets
  born,        \* targets opened so far
  opener,      \* openerId or parentId: the target that opened a target
  mark,        \* the marker in a page's URL
  faults,      \* faults so far
  \* the CDP connection
  sent,        \* calls on their way to the browser
  wire,        \* answers not yet acted on and events not yet recorded
  \* the daemon
  lease,       \* the lease, or NoLease
  owned,       \* owned_target_ids
  infos,       \* keys of _managed_target_infos
  sessions,    \* targets with a session in _managed_session_targets
  current,     \* target_id: where the agent's commands go by default
  created,     \* _managed_root_created
  lock,        \* holder of _managed_lease_lock
  task,        \* what each connection waits for
  roots,       \* history: every root the daemon leased or created
  unclosed,    \* history: the targets whose closeTarget failed
  unlisted     \* history: the found roots whose acquire got no inventory of their tree

browserVars == <<live, born, opener, mark, faults>>
wireVars == <<sent, wire>>
ownVars == <<owned, infos>>
leaseVars == <<lease, sessions, current, created, roots, unclosed, unlisted>>
vars == <<browserVars, wireVars, ownVars, leaseVars, lock, task>>

Tasks == Controls \cup Agents
Leased == lease # NoLease

\* root and every transitive opener/parent descendant within the targets of L.
Tree(root, L) ==
  LET within == L \cup {root}
  IN  {t \in within : \A S \in SUBSET within :
         (root \in S /\ \A x \in L : opener[x] \in S => x \in S) => t \in S}

\* The descendants the browser knows, dead openers included.
Family(root) == Tree(root, born)

Idle == [pc |-> "idle", req |-> NoRequest, t |-> NoTarget, known |-> {}, todo |-> {}]

\* A temporary profile starts with one marked page, the main profile with none.
Init ==
  /\ opener = [t \in Targets |-> NoTarget]
  /\ \/ born = Users /\ mark = [t \in Targets |-> NoRequest]
     \/ \E r \in Targets \ Users, q \in Requests :
          /\ born = Users \cup {r}
          /\ mark = [t \in Targets |-> IF t = r THEN q ELSE NoRequest]
  /\ live = born /\ faults = 0
  /\ sent = <<>> /\ wire = <<>>
  /\ lease = NoLease /\ owned = {} /\ infos = {} /\ sessions = {}
  /\ current = NoTarget /\ created = FALSE
  /\ roots = {} /\ unclosed = {} /\ unlisted = {}
  /\ lock = Free
  /\ task = [k \in Tasks |-> Idle]

-----------------------------------------------------------------------------
(* The browser.                                                            *)

Event(e, t) == IF Discovery \/ e = "destroyed" THEN <<[event |-> e, t |-> t]>> ELSE <<>>

\* A page opens another (window.open, or an iframe or worker of its own).
PageOpens(o, t) ==
  /\ o \in live /\ t \notin born
  /\ live' = live \cup {t} /\ born' = born \cup {t}
  /\ opener' = [opener EXCEPT ![t] = o]
  /\ wire' = wire \o Event("created", t)
  /\ UNCHANGED <<mark, faults, sent, ownVars, leaseVars, lock, task>>

\* A page closes, by itself or by the user's hand, and its URL is gone. Bound:
\* the pages the user had at the start stay, for the daemon does nothing with
\* the event but drop it.
PageCloses(t) ==
  /\ t \in live \ Users
  /\ live' = live \ {t} /\ mark' = [mark EXCEPT ![t] = NoRequest]
  /\ wire' = wire \o Event("destroyed", t)
  /\ UNCHANGED <<born, opener, faults, sent, ownVars, leaseVars, lock, task>>

Answer(m, ok, L, t) ==
  [event |-> "answer", task |-> m.task, ok |-> ok, live |-> L, t |-> t,
   marked |-> {x \in L : mark[x] # NoRequest /\ mark[x] = task[m.task].req}]

\* The browser executes the next call and answers it. A call on a target that
\* is gone fails; so may any call.
BrowserAnswers ==
  /\ sent # <<>> /\ sent' = Tail(sent)
  /\ LET m == Head(sent)
         Reply(ok, L, t) == Append(wire, Answer(m, ok, L, t))
     IN  \/ /\ m.op = "targets"
            /\ wire' = Reply(TRUE, live, NoTarget)
            /\ UNCHANGED browserVars
         \/ /\ m.op = "create"
            /\ \E t \in Targets \ born :
                 /\ live' = live \cup {t} /\ born' = born \cup {t}
                 /\ mark' = [mark EXCEPT ![t] = task[m.task].req]
                 /\ wire' = Append(wire \o Event("created", t), Answer(m, TRUE, {}, t))
            /\ UNCHANGED <<opener, faults>>
         \/ \* bound: the targets are used up
            /\ m.op = "create" /\ Targets \subseteq born
            /\ wire' = Reply(FALSE, {}, m.t)
            /\ UNCHANGED browserVars
         \/ /\ m.op = "attach"
            /\ wire' = Reply(m.t \in live, {}, m.t)
            /\ UNCHANGED browserVars
         \/ /\ m.op = "close"
            /\ live' = live \ {m.t} /\ mark' = [mark EXCEPT ![m.t] = NoRequest]
            /\ wire' = IF m.t \in live
                       THEN Append(wire \o Event("destroyed", m.t), Answer(m, TRUE, {}, m.t))
                       ELSE Reply(FALSE, {}, m.t)
            /\ UNCHANGED <<born, opener, faults>>
         \/ \* a command may navigate the page away from its marker
            /\ m.op = "command"
            /\ \E q \in {mark[m.t], NoRequest} : mark' = [mark EXCEPT ![m.t] = q]
            /\ wire' = Reply(m.t \in live, {}, m.t)
            /\ UNCHANGED <<live, born, opener, faults>>
         \/ /\ faults < MaxFaults /\ faults' = faults + 1
            /\ wire' = Reply(FALSE, {}, m.t)
            /\ UNCHANGED <<live, born, opener, mark>>
  /\ UNCHANGED <<ownVars, leaseVars, lock, task>>

-----------------------------------------------------------------------------
(* The daemon: what it does with an event.                                 *)

\* _managed_event_is_owned and _record_event: a new target joins when its opener
\* is owned, a destroyed one leaves if it was owned. The receive loop does not
\* wait for the coroutines that earlier answers woke: an event overtakes answers.
Receive ==
  \E i \in 1..Len(wire) :
    /\ wire[i].event # "answer" /\ \A j \in 1..(i - 1) : wire[j].event = "answer"
    /\ wire' = SubSeq(wire, 1, i - 1) \o SubSeq(wire, i + 1, Len(wire))
    /\ LET t == wire[i].t
       IN  CASE wire[i].event = "created" ->
                  LET mine == IF {t, opener[t]} \cap owned # {} THEN {t} ELSE {}
                  IN  /\ owned' = owned \cup mine /\ infos' = infos \cup mine
                      /\ UNCHANGED sessions
             [] wire[i].event = "destroyed" /\ t \in owned ->
                  /\ sessions' = sessions \ {t}
                  /\ IF Discovery THEN owned' = owned \ {t} /\ infos' = infos \ {t}
                                  ELSE UNCHANGED ownVars
             [] OTHER -> UNCHANGED <<ownVars, sessions>>
    /\ UNCHANGED <<browserVars, sent, lease, current, created, roots, unclosed, unlisted, lock, task>>

\* The next coroutine to run, with the answer it waited for.
Answered == Head(wire)
Resumes(k, pc) ==
  /\ wire # <<>> /\ Answered.event = "answer" /\ Answered.task = k
  /\ task[k].pc = pc
  /\ wire' = Tail(wire)

Call(k, op, t) == sent' = Append(sent, [task |-> k, op |-> op, t |-> t])
Await(k, pc) == task' = [task EXCEPT ![k].pc = pc]
Done(k) == task' = [task EXCEPT ![k] = Idle]
Unlock == lock' = Free

\* _refresh_managed_ownership with the inventory L. The lease may have been
\* released since the inventory was asked for: then the infos are replaced and
\* reading the lease's root raises.
RefreshMutant(L) ==
  /\ infos' = L
  /\ owned' = IF Leased THEN L ELSE owned
Refresh(L) ==
  /\ infos' = L
  /\ owned' = IF Leased THEN Tree(lease.root, L) ELSE owned

-----------------------------------------------------------------------------
(* Acquire.                                                                *)

\* A request for another root while one is leased is refused.
AcquireRoot(c, q) ==
  /\ task[c].pc = "idle" /\ lock = Free
  /\ Leased => lease.req = q
  /\ lock' = c
  /\ task' = [task EXCEPT ![c] = [Idle EXCEPT
                !.pc = IF Leased THEN "reacquire" ELSE "inventory", !.req = q]]
  /\ Call(c, "targets", NoTarget)
  /\ UNCHANGED <<browserVars, wire, ownVars, leaseVars>>

\* The same request again: nothing is acquired twice.
Reacquired(c) ==
  /\ Resumes(c, "reacquire")
  /\ IF Answered.ok THEN Refresh(Answered.live) ELSE UNCHANGED ownVars
  /\ Done(c) /\ Unlock
  /\ UNCHANGED <<browserVars, sent, leaseVars>>

\* The root is the one marked page, or a new page; two marked pages are an error.
RootChosen(c) ==
  /\ Resumes(c, "inventory")
  /\ \/ /\ ~Answered.ok \/ Cardinality(Answered.marked) > 1
        /\ Done(c) /\ Unlock
        /\ UNCHANGED sent
     \/ \E t \in Answered.marked :
          /\ Answered.ok /\ Answered.marked = {t}
          /\ task' = [task EXCEPT ![c].pc = "attach", ![c].t = t]
          /\ Call(c, "attach", t)
          /\ UNCHANGED lock
     \/ /\ Answered.ok /\ Answered.marked = {}
        /\ Await(c, "create")
        /\ Call(c, "create", NoTarget)
        /\ UNCHANGED lock
  /\ UNCHANGED <<browserVars, ownVars, leaseVars>>

RootCreated(c) ==
  /\ Resumes(c, "create")
  /\ IF Answered.ok
     THEN /\ task' = [task EXCEPT ![c].pc = "attach", ![c].t = Answered.t,
                                  ![c].todo = {Answered.t}]
          /\ Call(c, "attach", Answered.t)
          /\ roots' = roots \cup {Answered.t}
          /\ UNCHANGED lock
     ELSE /\ Done(c) /\ Unlock
          /\ UNCHANGED <<sent, roots>>
  /\ UNCHANGED <<browserVars, ownVars, lease, sessions, current, created, unclosed, unlisted>>

\* A created root (todo) that cannot be attached to is closed again.
AttachFailedMutant(c) ==
  /\ Done(c) /\ Unlock
  /\ UNCHANGED sent
AttachKeepsLockMutant(c) ==
  IF task[c].todo # {}
  THEN /\ Await(c, "undo") /\ Call(c, "close", task[c].t)
       /\ UNCHANGED lock
  ELSE /\ Done(c)
       /\ UNCHANGED <<sent, lock>>
AttachFailed(c) ==
  IF task[c].todo # {}
  THEN /\ Await(c, "undo") /\ Call(c, "close", task[c].t)
       /\ UNCHANGED lock
  ELSE /\ Done(c) /\ Unlock
       /\ UNCHANGED sent

\* Attached: the lease is there before its tree is.
RootAttached(c) ==
  /\ Resumes(c, "attach")
  /\ IF Answered.ok
     THEN /\ lease' = [root |-> task[c].t, req |-> task[c].req]
          /\ roots' = roots \cup {task[c].t}
          /\ current' = task[c].t
          /\ created' = (task[c].todo # {})
          /\ sessions' = {task[c].t}
          /\ Await(c, "adopt") /\ Call(c, "targets", NoTarget)
          /\ UNCHANGED <<unclosed, unlisted, lock>>
     ELSE AttachFailed(c) /\ UNCHANGED leaseVars
  /\ UNCHANGED <<browserVars, ownVars>>

\* Whether the close failed is not looked at.
RootUndone(c) ==
  /\ Resumes(c, "undo")
  /\ unclosed' = IF Answered.ok THEN unclosed ELSE unclosed \cup ({task[c].t} \cap live)
  /\ Done(c) /\ Unlock
  /\ UNCHANGED <<browserVars, sent, ownVars, lease, sessions, current, created, roots, unlisted>>

\* The tree of the new root. If the inventory fails, acquire fails and the lease
\* stays: the same request finds it.
RootAdopted(c) ==
  /\ Resumes(c, "adopt")
  /\ IF Answered.ok THEN Refresh(Answered.live) ELSE UNCHANGED ownVars
  /\ unlisted' = IF Answered.ok \/ created THEN unlisted ELSE unlisted \cup {lease.root}
  /\ Done(c) /\ Unlock
  /\ UNCHANGED <<browserVars, sent, lease, sessions, current, created, roots, unclosed>>

-----------------------------------------------------------------------------
(* Release.                                                                *)

ReleaseRoot(c) ==
  /\ task[c].pc = "idle" /\ lock = Free /\ Leased
  /\ lock' = c
  /\ task' = [task EXCEPT ![c] = [Idle EXCEPT
                !.pc = "release", !.known = infos, !.todo = owned]]
  /\ Call(c, "targets", NoTarget)
  /\ UNCHANGED <<browserVars, wire, ownVars, leaseVars>>

\* What to close: the tree of the inventory, or, when that cannot be had, the
\* one cached before; and the root the daemon created, listed or not.
ToCloseMutant(c) == IF Answered.ok THEN Tree(lease.root, Answered.live) \cap Answered.live ELSE {}
ToClose(c) ==
  (IF Answered.ok THEN Tree(lease.root, Answered.live) \cap Answered.live
                  ELSE task[c].todo)
    \cup (IF created THEN {lease.root} ELSE {})

Known(c) == IF Answered.ok THEN Answered.live ELSE task[c].known

\* How many known targets are above t: children are closed before their openers.
Depth(t, L) == Cardinality({a \in L \ {t} : t \in Tree(a, L)})
Deepest(T, L) == {t \in T : \A u \in T : Depth(u, L) <= Depth(t, L)}

\* The lease is dropped, whatever the closes brought.
LeaseDropped ==
  /\ lease' = NoLease /\ owned' = {} /\ infos' = {} /\ sessions' = {}
  /\ current' = NoTarget /\ created' = FALSE

TreeListed(c) ==
  /\ Resumes(c, "release")
  /\ IF ToClose(c) = {}
     THEN LeaseDropped /\ Done(c) /\ Unlock /\ UNCHANGED sent
     ELSE \E t \in Deepest(ToClose(c), Known(c)) :
            /\ task' = [task EXCEPT ![c].pc = "close", ![c].t = t,
                          ![c].known = Known(c), ![c].todo = ToClose(c)]
            /\ Call(c, "close", t)
            /\ IF Answered.ok THEN Refresh(Answered.live) ELSE UNCHANGED ownVars
            /\ UNCHANGED <<lease, sessions, current, created, lock>>
  /\ UNCHANGED <<browserVars, roots, unclosed, unlisted>>

Rest(c) == task[c].todo \ {task[c].t}

TargetClosed(c) ==
  /\ Resumes(c, "close")
  /\ unclosed' = IF Answered.ok THEN unclosed ELSE unclosed \cup ({task[c].t} \cap live)
  /\ IF Rest(c) = {}
     THEN LeaseDropped /\ Done(c) /\ Unlock /\ UNCHANGED sent
     ELSE \E t \in Deepest(Rest(c), task[c].known) :
            /\ task' = [task EXCEPT ![c].t = t, ![c].todo = Rest(c)]
            /\ Call(c, "close", t)
            /\ UNCHANGED <<ownVars, lease, sessions, current, created, lock>>
  /\ UNCHANGED <<browserVars, roots, unlisted>>

-----------------------------------------------------------------------------
(* Status and health: no lock.                                             *)

AskStatus(c, pc) ==
  /\ task[c].pc = "idle" /\ (pc = "status" => Leased)
  /\ task' = [task EXCEPT ![c] = [Idle EXCEPT !.pc = pc]]
  /\ Call(c, "targets", NoTarget)
  /\ UNCHANGED <<browserVars, wire, ownVars, leaseVars, lock>>

\* Health looks at the lease once it has the inventory, status only before.
StatusTold(c) ==
  /\ Resumes(c, "status") \/ Resumes(c, "health")
  /\ IF Answered.ok /\ (task[c].pc = "health" => Leased)
     THEN Refresh(Answered.live) ELSE UNCHANGED ownVars
  /\ Done(c)
  /\ UNCHANGED <<browserVars, sent, leaseVars, lock>>

-----------------------------------------------------------------------------
(* The agent's requests (_handle_managed_cdp, _managed_set_session).       *)

\* Target.attachToTarget, set_session and a list of the targets ask for the
\* inventory first; set_session wants a session that the daemon attached.
AgentAsks(a, pc, t) ==
  /\ task[a].pc = "idle" /\ Leased
  /\ CASE pc = "list" -> t = NoTarget
       [] pc = "may attach" -> t \in born
       [] pc = "may select" -> t \in sessions
  /\ task' = [task EXCEPT ![a] = [Idle EXCEPT !.pc = pc, !.t = t]]
  /\ Call(a, "targets", NoTarget)
  /\ UNCHANGED <<browserVars, wire, ownVars, leaseVars, lock>>

\* A command in a session the daemon attached: no inventory is asked for.
AgentCommands(a, t) ==
  /\ task[a].pc = "idle" /\ Leased /\ t \in sessions
  /\ task' = [task EXCEPT ![a] = [Idle EXCEPT !.pc = "command", !.t = t]]
  /\ Call(a, "command", t)
  /\ UNCHANGED <<browserVars, wire, ownVars, leaseVars, lock>>

\* Target.getTargets: without a lease the refresh clears the sets.
AgentLists(a) ==
  /\ Resumes(a, "list")
  /\ IF ~Answered.ok THEN UNCHANGED ownVars
     ELSE IF Leased THEN Refresh(Answered.live) ELSE owned' = {} /\ infos' = {}
  /\ Done(a)
  /\ UNCHANGED <<browserVars, sent, leaseVars, lock>>

\* _managed_is_owned, after its inventory.
IsOwnedMutant(t) == t \in Answered.live
IsOwned(t) == Leased /\ t \in Tree(lease.root, Answered.live) /\ t \in Answered.live

AgentMayAttach(a) ==
  /\ Resumes(a, "may attach")
  /\ IF Answered.ok THEN Refresh(Answered.live) ELSE UNCHANGED ownVars
  /\ IF Answered.ok /\ IsOwned(task[a].t)
     THEN Await(a, "attaching") /\ Call(a, "attach", task[a].t)
     ELSE Done(a) /\ UNCHANGED sent
  /\ UNCHANGED <<browserVars, leaseVars, lock>>

\* The session is recorded without another look at the lease.
AgentAttached(a) ==
  /\ Resumes(a, "attaching")
  /\ sessions' = IF Answered.ok THEN sessions \cup {task[a].t} ELSE sessions
  /\ Done(a)
  /\ UNCHANGED <<browserVars, sent, ownVars, lease, current, created, roots, unclosed, unlisted, lock>>

AgentSelects(a) ==
  /\ Resumes(a, "may select")
  /\ IF Answered.ok THEN Refresh(Answered.live) ELSE UNCHANGED ownVars
  /\ IF Answered.ok /\ IsOwned(task[a].t)
     THEN current' = task[a].t /\ sessions' = sessions \cup {task[a].t}
     ELSE UNCHANGED <<current, sessions>>
  /\ Done(a)
  /\ UNCHANGED <<browserVars, sent, lease, created, roots, unclosed, unlisted, lock>>

AgentCommanded(a) ==
  /\ Resumes(a, "command")
  /\ Done(a)
  /\ UNCHANGED <<browserVars, sent, ownVars, leaseVars, lock>>

-----------------------------------------------------------------------------
ControlRuns(c) ==
  \/ Reacquired(c) \/ RootChosen(c) \/ RootCreated(c) \/ RootAttached(c)
  \/ RootUndone(c) \/ RootAdopted(c)
  \/ TreeListed(c) \/ TargetClosed(c) \/ StatusTold(c)
AgentRuns(a) ==
  AgentLists(a) \/ AgentMayAttach(a) \/ AgentAttached(a) \/ AgentSelects(a)
    \/ AgentCommanded(a)

Daemon ==
  \/ \E c \in Controls : ControlRuns(c)
  \/ \E a \in Agents : AgentRuns(a)

Next ==
  \/ \E o, t \in Targets : PageOpens(o, t)
  \/ \E t \in Targets : PageCloses(t)
  \/ BrowserAnswers
  \/ Receive
  \/ Daemon
  \/ \E c \in Controls :
       \/ \E q \in Requests : AcquireRoot(c, q)
       \/ ReleaseRoot(c)
       \/ \E pc \in Probes : AskStatus(c, pc)
  \/ \E a \in Agents, t \in Targets \cup {NoTarget} :
       \/ \E pc \in {"list", "may attach", "may select"} : AgentAsks(a, pc, t)
       \/ AgentCommands(a, t)

Spec == Init /\ [][Next]_vars

\* The browser answers, the connection delivers, woken coroutines run.
FairSpec == Spec /\ WF_vars(BrowserAnswers) /\ WF_vars(Receive) /\ WF_vars(Daemon)

-----------------------------------------------------------------------------
\* Whatever the daemon closes, attaches to or drives belongs to a page it once
\* leased or created, never to the user's pages, although ownership is judged
\* on inventories and events that are behind the browser.
OnlyTheFamily ==
  LET mine == UNION {Family(r) : r \in roots}
  IN  /\ owned \cup sessions \subseteq mine
      /\ \A i \in 1..Len(sent) :
           sent[i].op \in {"close", "attach", "command"} =>
             \/ sent[i].t \in mine
             \/ task[sent[i].task].pc = "attach"

\* Nothing of an earlier lease is left in the next one: no session, no owned
\* target, although the agent's calls run across a release and an acquire.
SessionsOfLease ==
  Leased => sessions \cup owned \subseteq Family(lease.root)

\* A page that was leased or created as a root and is still open is the root of
\* the lease, or in the hands of the control call that holds the lock, or the
\* browser refused to close it: no error path forgets it, however many calls
\* fail. The exception is the code's: a root it found, and got no inventory of,
\* is in no list, and a release that gets no inventory either leaves it open.
NoStrayRoot ==
  \A r \in (roots \cap live) \ (unclosed \cup unlisted) :
    \/ Leased /\ lease.root = r
    \/ lock # Free /\ task[lock].t = r

\* When the lease goes, what is left open of the tree that release knew is what
\* the browser refused to close, though pages come and go while it closes them
\* and the inventory may have failed.
ReleaseClosesTheTree ==
  [][\A c \in Controls :
       Leased /\ ~Leased' /\ lock = c /\ lease.root \notin unlisted =>
         LET known == IF task[c].pc = "release" THEN Known(c) ELSE task[c].known
         IN  Tree(lease.root, known) \cap live \subseteq unclosed']_vars

\* A control call that has begun, or holds the lock, comes to where it has ended and does
\* not hold it: on every way out of an acquire or release, those of a failing call included.
ControlEnds ==
  \A c \in Controls :
    (task[c].pc # "idle" \/ lock = c) ~> (task[c].pc = "idle" /\ lock # c)

=============================================================================

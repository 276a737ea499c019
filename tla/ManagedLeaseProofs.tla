-------------------------- MODULE ManagedLeaseProofs --------------------------
(***************************************************************************)
(* Four facts about the managed daemon, for any number of pages,           *)
(* connections and failed calls.                                           *)
(*                                                                         *)
(* It touches only pages of its roots' families: a family only grows, for  *)
(* openers are fixed when a target is born; an inventory lists targets     *)
(* that were born, so the tree the daemon reads in it lies in the family   *)
(* of the lease's root, however old it is; and a connection has one call   *)
(* on its way at a time, so what it asked for is still what it waits for   *)
(* when the answer arrives.                                                *)
(*                                                                         *)
(* No session of a lease is left for the next: the browser answers in the  *)
(* order it was asked, so an attach that outlives its lease is answered    *)
(* before the next acquire is.                                             *)
(*                                                                         *)
(* No root page is forgotten: a page that went does not come back, and     *)
(* what the wire says of a page, late as it is, is true of it.             *)
(*                                                                         *)
(* Release leaves nothing open of the tree it knew: a page is reported     *)
(* only after its opener, so whatever mix of inventories and events the    *)
(* daemon's list of pages is made of, it owns the tree to be read in it.   *)
(***************************************************************************)
EXTENDS ManagedLease, TLAPS

InLock == {"reacquire", "inventory", "create", "attach", "undo", "adopt", "release", "close"}
Stages == InLock \cup {"idle", "status", "health", "list", "may attach", "may select",
                       "attaching", "command"}

Place == Targets \cup {NoTarget}
Ops == {"targets", "create", "attach", "close", "command"}
CallTo == [task : Tasks, op : Ops, t : Place]
TargetEvent == [event : {"created", "destroyed"}, t : Place]
AnswerTo == [event : {"answer"}, task : Tasks, ok : BOOLEAN, live : SUBSET Targets, t : Place,
             marked : SUBSET Targets]
TaskState == [pc : Stages, req : Requests \cup {NoRequest}, t : Place,
              known : SUBSET Place, todo : SUBSET Place]

TypeOK ==
    /\ born \subseteq Targets /\ live \subseteq born
    /\ opener \in [Targets -> Place]
    /\ sent \in Seq(CallTo)
    /\ wire \in Seq(TargetEvent \cup AnswerTo)
    /\ owned \subseteq Place /\ infos \subseteq Place
    /\ task \in [Tasks -> TaskState]
    /\ roots \subseteq Place

IsAnswer(i) == wire[i].event = "answer"

\* An inventory or an event is about targets that have been opened.
WireIsReal == \A i \in 1..Len(wire) :
    IF IsAnswer(i) THEN wire[i].live \subseteq born /\ wire[i].marked \subseteq wire[i].live
                   ELSE wire[i].t \in born

\* A connection that waits has one call on its way, there or back; an idle one has none.
OneCall ==
    /\ \A i, j \in 1..Len(sent) : sent[i].task = sent[j].task => i = j
    /\ \A i, j \in 1..Len(wire) :
         IsAnswer(i) /\ IsAnswer(j) /\ wire[i].task = wire[j].task => i = j
    /\ \A i \in 1..Len(sent), j \in 1..Len(wire) : IsAnswer(j) => wire[j].task # sent[i].task
    /\ \A i \in 1..Len(sent) : task[sent[i].task].pc # "idle"
    /\ \A i \in 1..Len(wire) : IsAnswer(i) => task[wire[i].task].pc # "idle"

\* Acquire and release hold the lock, and release works on a lease.
LockHeld == \A k \in Tasks :
    /\ task[k].pc \in InLock => k \in Controls /\ lock = k
    /\ task[k].pc = "release" => Leased

LeaseIsRoot == Leased => lease.root \in roots

\* The families of all roots.
Mine == UNION {Family(r) : r \in roots}

OwnedIsMine == owned \cup sessions \subseteq Mine

\* What a connection keeps for after its call.
Keeps(k) ==
    /\ task[k].pc \in {"inventory", "create"} => task[k].todo = {}
    /\ task[k].pc = "attach" /\ task[k].todo # {} => task[k].t \in Mine
    /\ task[k].pc \in {"release", "close"} => task[k].todo \subseteq Mine
    /\ task[k].pc = "attaching" => task[k].t \in Mine
KeptIsMine == \A k \in Tasks : Keeps(k)

SentIsMine == \A i \in 1..Len(sent) :
    sent[i].op \in {"close", "attach", "command"} =>
      sent[i].t \in Mine \/ task[sent[i].task].pc = "attach"

IInv == /\ TypeOK /\ WireIsReal /\ OneCall /\ LockHeld /\ LeaseIsRoot
        /\ OwnedIsMine /\ KeptIsMine /\ SentIsMine

-----------------------------------------------------------------------------
(* Trees and families.                                                     *)

LEMMA RootOfTree == ASSUME NEW r, NEW L PROVE r \in Tree(r, L)
BY DEF Tree

\* What a member of the tree opened is a member, if it is among the targets.
LEMMA TreeClosed ==
    ASSUME NEW r, NEW L, NEW t \in L, opener[t] \in Tree(r, L)
    PROVE  t \in Tree(r, L)
BY DEF Tree

\* The tree grows with the targets, as long as they keep their openers.
LEMMA TreeGrows ==
    ASSUME NEW r, NEW L, NEW M, L \subseteq M
    PROVE  Tree(r, L) \subseteq Tree(r, M)
<1> SUFFICES ASSUME NEW t \in Tree(r, L), NEW S \in SUBSET (M \cup {r}),
                    r \in S, \A x \in M : opener[x] \in S => x \in S
             PROVE  t \in S
    BY DEF Tree
<1> DEFINE R == S \cap (L \cup {r})
<1>1. R \in SUBSET (L \cup {r}) /\ r \in R /\ \A x \in L : opener[x] \in R => x \in R
    OBVIOUS
<1> QED
    BY <1>1 DEF Tree

LEMMA FamilyGrows ==
    ASSUME NEW r, born \subseteq born', \A x \in born : opener'[x] = opener[x]
    PROVE  Family(r) \subseteq Family(r)'
<1> SUFFICES ASSUME NEW t \in Tree(r, born), NEW S \in SUBSET (born' \cup {r}),
                    r \in S, \A x \in born' : opener'[x] \in S => x \in S
             PROVE  t \in S
    BY DEF Family, Tree
<1> DEFINE R == S \cap (born \cup {r})
<1>1. R \in SUBSET (born \cup {r}) /\ r \in R /\ \A x \in born : opener[x] \in R => x \in R
    OBVIOUS
<1> QED
    BY <1>1 DEF Tree

LEMMA MineGrows ==
    ASSUME born \subseteq born', \A x \in born : opener'[x] = opener[x], roots \subseteq roots'
    PROVE  Mine \subseteq Mine'
BY FamilyGrows DEF Mine

LEMMA SameMine == ASSUME UNCHANGED <<browserVars, roots>> PROVE Mine' = Mine
BY DEF Mine, Family, Tree, browserVars

\* A root is of its own family.
LEMMA RootIsMine == ASSUME NEW r \in roots PROVE r \in Mine
BY RootOfTree DEF Mine, Family

\* The tree the daemon reads in an inventory.
LEMMA TreeIsMine ==
    ASSUME Leased, LeaseIsRoot, NEW L, L \subseteq born
    PROVE  Tree(lease.root, L) \subseteq Mine
BY TreeGrows DEF LeaseIsRoot, Mine, Family

-----------------------------------------------------------------------------

LEMMA IdleTyped == Idle \in TaskState
<1>1. {} \in SUBSET Place
    OBVIOUS
<1>2. "idle" \in Stages /\ NoTarget \in Place
    BY DEF Stages, Place
<1> QED
    BY <1>1, <1>2 DEF Idle, TaskState

LEMMA InitInv == Init => IInv
<1> SUFFICES ASSUME Init PROVE IInv
    OBVIOUS
<1> USE DEF Init
<1>1. sent \in Seq(CallTo) /\ Len(sent) = 0
    OBVIOUS
<1>2. wire \in Seq(TargetEvent \cup AnswerTo) /\ Len(wire) = 0
    OBVIOUS
<1>3. born \subseteq Targets /\ live \subseteq born
    BY LeaseAssumption
<1>4. Idle \in TaskState
    BY IdleTyped
<1>5. task \in [Tasks -> TaskState] /\ opener \in [Targets -> Place]
    BY <1>4 DEF Place
<1>6. owned \subseteq Place /\ infos \subseteq Place /\ roots \subseteq Place
    OBVIOUS
<1> HIDE DEF Init
<1>7. TypeOK
    BY <1>1, <1>2, <1>3, <1>5, <1>6 DEF TypeOK
<1>8. WireIsReal /\ OneCall /\ SentIsMine
    BY <1>1, <1>2 DEF WireIsReal, OneCall, SentIsMine
<1>9. LockHeld /\ LeaseIsRoot /\ OwnedIsMine /\ KeptIsMine
    BY DEF Init, LockHeld, InLock, LeaseIsRoot, Leased, OwnedIsMine, KeptIsMine, Keeps, Idle
<1> QED
    BY <1>7, <1>8, <1>9 DEF IInv

\* The wire without its first message.
LEMMA Behead ==
    ASSUME NEW S, NEW s \in Seq(S), s # <<>>
    PROVE  /\ Tail(s) \in Seq(S) /\ Head(s) = s[1] /\ s[1] \in S
           /\ Len(s) \in Nat /\ Len(s) > 0 /\ Len(Tail(s)) = Len(s) - 1
           /\ \A i \in 1..Len(Tail(s)) : Tail(s)[i] = s[i + 1]
OBVIOUS

\* What a connection does with its answer, when it leaves the lock and the lease to their
\* holder.
LEMMA Resumption ==
    ASSUME IInv, NEW k \in Tasks, wire # <<>>, Answered.event = "answer", Answered.task = k,
           wire' = Tail(wire), UNCHANGED browserVars,
           task' \in [Tasks -> TaskState], \A j \in Tasks \ {k} : task'[j] = task[j],
           roots \subseteq roots', roots' \subseteq Place,
           owned' \subseteq Place, infos' \subseteq Place,
           \/ sent' = sent
           \/ /\ task'[k].pc # "idle"
              /\ \E m \in CallTo : /\ sent' = Append(sent, m) /\ m.task = k
                                   /\ m.op \in {"close", "attach", "command"} =>
                                        m.t \in Mine' \/ task'[k].pc = "attach",
           OwnedIsMine', LeaseIsRoot', Keeps(k)',
           lock' = lock \/ lock = k, task'[k].pc \in InLock => k \in Controls /\ lock' = k,
           Leased => Leased' \/ lock = k, task'[k].pc # "release"
    PROVE  IInv'
<1>1. Mine \subseteq Mine'
    BY MineGrows DEF browserVars
<1>2. /\ wire' \in Seq(TargetEvent \cup AnswerTo) /\ wire[1].event = "answer" /\ wire[1].task = k
      /\ Len(wire) \in Nat /\ Len(wire) > 0 /\ Len(wire') = Len(wire) - 1
      /\ \A i \in 1..Len(wire') : wire'[i] = wire[i + 1]
    BY Behead DEF IInv, TypeOK, Answered
<1>3. sent \in Seq(CallTo) /\ Len(sent) \in Nat
    BY DEF IInv, TypeOK
<1>4. /\ sent' \in Seq(CallTo) /\ Len(sent') \in Nat
      /\ \A i \in 1..Len(sent') :
           \/ i \in 1..Len(sent) /\ sent'[i] = sent[i]
           \/ /\ i = Len(sent) + 1 /\ sent'[i].task = k /\ task'[k].pc # "idle"
              /\ sent'[i].op \in {"close", "attach", "command"} =>
                   sent'[i].t \in Mine' \/ task'[k].pc = "attach"
    <2>1. CASE sent' = sent
        BY <1>3, <2>1
    <2>2. ASSUME NEW m \in CallTo, sent' = Append(sent, m), m.task = k, task'[k].pc # "idle",
                 m.op \in {"close", "attach", "command"} =>
                   m.t \in Mine' \/ task'[k].pc = "attach"
          PROVE  <1>4!1
        BY <1>3, <2>2
    <2> QED
        BY <2>1, <2>2
<1>5. \A i \in 1..Len(sent) : sent[i].task # k /\ sent[i].task \in Tasks
    <2> SUFFICES ASSUME NEW i \in 1..Len(sent) PROVE sent[i].task # k /\ sent[i].task \in Tasks
        OBVIOUS
    <2>1. sent[i] \in CallTo
        BY <1>3
    <2> QED
        BY <1>2, <2>1 DEF IInv, OneCall, IsAnswer, CallTo
<1>6. \A i \in 1..Len(wire') :
        IsAnswer(i)' => wire'[i].task # k /\ wire'[i].task \in Tasks
    <2> SUFFICES ASSUME NEW i \in 1..Len(wire'), IsAnswer(i)'
                 PROVE  wire'[i].task # k /\ wire'[i].task \in Tasks
        OBVIOUS
    <2>1. i + 1 \in 1..Len(wire) /\ 1 \in 1..Len(wire) /\ i + 1 # 1 /\ wire'[i] = wire[i + 1]
        BY <1>2
    <2>2. wire[i + 1] \in TargetEvent \cup AnswerTo /\ wire[i + 1].event = "answer"
        BY <2>1 DEF IInv, TypeOK, IsAnswer
    <2>3. wire[i + 1].task \in Tasks
        BY <2>2 DEF TargetEvent, AnswerTo
    <2> QED
        BY <1>2, <2>1, <2>2, <2>3 DEF IInv, OneCall, IsAnswer
<1>7. TypeOK'
    BY <1>2, <1>4 DEF IInv, TypeOK, browserVars
<1>8. WireIsReal'
    BY <1>2 DEF IInv, WireIsReal, IsAnswer, browserVars
<1>9. OneCall'
    <2>1. \A i, j \in 1..Len(sent') : sent'[i].task = sent'[j].task => i = j
        BY <1>3, <1>4, <1>5 DEF IInv, OneCall
    <2>2. \A i, j \in 1..Len(wire') :
            IsAnswer(i)' /\ IsAnswer(j)' /\ wire'[i].task = wire'[j].task => i = j
        BY <1>2 DEF IInv, OneCall, IsAnswer
    <2>3. \A i \in 1..Len(sent'), j \in 1..Len(wire') :
            IsAnswer(j)' => wire'[j].task # sent'[i].task
        <3> SUFFICES ASSUME NEW i \in 1..Len(sent'), NEW j \in 1..Len(wire'), IsAnswer(j)'
                     PROVE  wire'[j].task # sent'[i].task
            OBVIOUS
        <3>1. wire'[j].task # k /\ j + 1 \in 1..Len(wire) /\ wire'[j] = wire[j + 1] /\ IsAnswer(j + 1)
            BY <1>2, <1>6 DEF IsAnswer
        <3>2. CASE i \in 1..Len(sent) /\ sent'[i] = sent[i]
            BY <3>1, <3>2 DEF IInv, OneCall
        <3> QED
            BY <3>1, <3>2, <1>4
    <2>4. \A i \in 1..Len(sent') : task'[sent'[i].task].pc # "idle"
        <3> SUFFICES ASSUME NEW i \in 1..Len(sent') PROVE task'[sent'[i].task].pc # "idle"
            OBVIOUS
        <3>1. CASE i \in 1..Len(sent) /\ sent'[i] = sent[i]
            BY <1>5, <3>1 DEF IInv, OneCall
        <3> QED
            BY <3>1, <1>4
    <2>5. \A i \in 1..Len(wire') : IsAnswer(i)' => task'[wire'[i].task].pc # "idle"
        BY <1>2, <1>6 DEF IInv, OneCall, IsAnswer
    <2> QED
        BY <2>1, <2>2, <2>3, <2>4, <2>5 DEF OneCall
<1>10. LockHeld'
    BY DEF IInv, LockHeld, InLock
<1>11. KeptIsMine'
    BY <1>1 DEF IInv, KeptIsMine, Keeps
<1>12. SentIsMine'
    BY <1>1, <1>4, <1>5 DEF IInv, SentIsMine
<1> QED
    BY <1>7, <1>8, <1>9, <1>10, <1>11, <1>12 DEF IInv

\* An idle connection asks for something; what it owns or leases changes later.
LEMMA Request ==
    ASSUME IInv, NEW k \in Tasks, task[k].pc = "idle",
           UNCHANGED <<browserVars, wire, ownVars, leaseVars>>,
           task' \in [Tasks -> TaskState], \A j \in Tasks \ {k} : task'[j] = task[j],
           task'[k].pc # "idle",
           NEW m \in CallTo, sent' = Append(sent, m), m.task = k,
           m.op \in {"close", "attach", "command"} => m.t \in Mine,
           Keeps(k)', lock' = lock \/ lock = Free,
           task'[k].pc \in InLock => k \in Controls /\ lock' = k, task'[k].pc = "release" => Leased
    PROVE  IInv'
<1>1. Mine' = Mine
    BY SameMine DEF leaseVars
<1>2. sent \in Seq(CallTo) /\ Len(sent) \in Nat /\ sent' \in Seq(CallTo)
      /\ Len(sent') = Len(sent) + 1 /\ sent'[Len(sent) + 1] = m
      /\ \A i \in 1..Len(sent) : sent'[i] = sent[i]
    BY DEF IInv, TypeOK
<1>3. \A i \in 1..Len(sent) : sent[i].task # k /\ sent[i].task \in Tasks
    <2> SUFFICES ASSUME NEW i \in 1..Len(sent) PROVE sent[i].task # k /\ sent[i].task \in Tasks
        OBVIOUS
    <2>1. sent[i] \in CallTo
        BY <1>2
    <2> QED
        BY <2>1 DEF IInv, OneCall, CallTo
<1>4. \A i \in 1..Len(wire) : IsAnswer(i) => wire[i].task # k /\ wire[i].task \in Tasks
    <2> SUFFICES ASSUME NEW i \in 1..Len(wire), IsAnswer(i)
                 PROVE  wire[i].task # k /\ wire[i].task \in Tasks
        OBVIOUS
    <2>1. wire[i] \in TargetEvent \cup AnswerTo
        BY DEF IInv, TypeOK
    <2> QED
        BY <2>1 DEF IInv, OneCall, IsAnswer, TargetEvent, AnswerTo
<1>5. TypeOK' /\ WireIsReal'
    BY <1>2 DEF IInv, TypeOK, WireIsReal, IsAnswer, browserVars, ownVars, leaseVars
<1>6. OneCall'
    <2>1. \A i \in 1..Len(sent') : i \in 1..Len(sent) \/ i = Len(sent) + 1
        BY <1>2
    <2>2. \A i, j \in 1..Len(sent') : sent'[i].task = sent'[j].task => i = j
        BY <1>2, <1>3, <2>1 DEF IInv, OneCall
    <2>3. \A i \in 1..Len(sent'), j \in 1..Len(wire') :
            IsAnswer(j)' => wire'[j].task # sent'[i].task
        BY <1>2, <1>4, <2>1 DEF IInv, OneCall, IsAnswer
    <2>4. \A i \in 1..Len(sent') : task'[sent'[i].task].pc # "idle"
        BY <1>2, <1>3, <2>1 DEF IInv, OneCall
    <2> QED
        BY <1>4, <2>2, <2>3, <2>4 DEF IInv, OneCall, IsAnswer
<1>7. LockHeld' /\ LeaseIsRoot' /\ OwnedIsMine'
    BY <1>1, LeaseAssumption DEF IInv, LockHeld, InLock, LeaseIsRoot, Leased, OwnedIsMine, ownVars, leaseVars
<1>8. KeptIsMine'
    BY <1>1 DEF IInv, KeptIsMine, Keeps
<1>9. SentIsMine'
    <2>1. \A i \in 1..Len(sent') : i \in 1..Len(sent) \/ i = Len(sent) + 1
        BY <1>2
    <2> QED
        BY <1>1, <1>2, <1>3, <2>1 DEF IInv, SentIsMine
<1> QED
    BY <1>5, <1>6, <1>7, <1>8, <1>9 DEF IInv

-----------------------------------------------------------------------------
(* The browser and the wire.                                               *)

\* Wire messages that are no answers, or answer a call that leaves sent, leave the rest.
LEMMA Delivery ==
    ASSUME IInv, TypeOK', WireIsReal', OneCall',
           UNCHANGED <<lease, roots, lock, task>>,
           born \subseteq born', \A x \in born : opener'[x] = opener[x],
           owned' \subseteq Mine', sessions' \subseteq Mine',
           \A i \in 1..Len(sent') : \E j \in 1..Len(sent) : sent'[i] = sent[j]
    PROVE  IInv'
<1>1. Mine \subseteq Mine'
    BY MineGrows
<1>2. LockHeld' /\ LeaseIsRoot' /\ OwnedIsMine'
    BY DEF IInv, LockHeld, LeaseIsRoot, Leased, OwnedIsMine
<1>3. KeptIsMine' /\ SentIsMine'
    BY <1>1 DEF IInv, KeptIsMine, Keeps, SentIsMine
<1> QED
    BY <1>2, <1>3 DEF IInv

Messages == TargetEvent \cup AnswerTo

\* w is the wire, perhaps with an event about a target there is, or was; one that is
\* reported as created is new.
Told(w) ==
    /\ w \in Seq(Messages) /\ Len(w) \in {Len(wire), Len(wire) + 1}
    /\ \A i \in 1..Len(wire) : w[i] = wire[i]
    /\ Len(w) = Len(wire) + 1 =>
         /\ w[Len(w)] \in TargetEvent /\ w[Len(w)].t \in born'
         /\ w[Len(w)].event = "created" => w[Len(w)].t \notin born
         /\ w[Len(w)].event = "destroyed" => w[Len(w)].t \notin live'

LEMMA EventTold ==
    ASSUME TypeOK, NEW e \in {"created", "destroyed"}, NEW t \in born', born' \subseteq Targets,
           e = "created" => t \notin born, e = "destroyed" => t \notin live'
    PROVE  Told(wire \o Event(e, t))
<1> DEFINE m == [event |-> e, t |-> t]
<1>1. /\ m \in TargetEvent /\ m.t \in born'
      /\ m.event = "created" => m.t \notin born
      /\ m.event = "destroyed" => m.t \notin live'
    BY DEF TargetEvent, Place
<1>2. wire \in Seq(Messages) /\ Len(wire) \in Nat
    BY DEF TypeOK, Messages
<1>3. CASE Event(e, t) = <<>>
    BY <1>2, <1>3 DEF Told
<1>4. CASE Event(e, t) = <<m>>
    <2> HIDE DEF m
    <2>1. m \in Messages
        BY <1>1 DEF Messages
    <2>2. /\ wire \o <<m>> \in Seq(Messages) /\ Len(wire \o <<m>>) = Len(wire) + 1
          /\ (wire \o <<m>>)[Len(wire) + 1] = m
          /\ \A i \in 1..Len(wire) : (wire \o <<m>>)[i] = wire[i]
        BY <1>2, <2>1
    <2> QED
        BY <1>1, <1>2, <1>4, <2>2 DEF Told
<1> QED
    BY <1>3, <1>4 DEF Event

\* An event is told, and nobody has taken notice yet.
LEMMA EventStep ==
    ASSUME IInv, UNCHANGED <<sent, ownVars, leaseVars, lock, task>>, Told(wire'),
           born \subseteq born', \A x \in born : opener'[x] = opener[x],
           born' \subseteq Targets, live' \subseteq born', opener' \in [Targets -> Place]
    PROVE  IInv'
<1>1. wire \in Seq(Messages) /\ Len(wire) \in Nat
    BY DEF IInv, TypeOK, Messages
<1>2. \A i \in 1..Len(wire') :
         \/ i \in 1..Len(wire) /\ wire'[i] = wire[i]
         \/ wire'[i].event # "answer" /\ wire'[i].t \in born'
    BY <1>1 DEF Told, TargetEvent
<1>3. TypeOK'
    BY DEF IInv, TypeOK, Told, Messages, ownVars, leaseVars
<1>4. WireIsReal'
    BY <1>2 DEF IInv, WireIsReal, IsAnswer
<1>5. OneCall'
    BY <1>2 DEF IInv, OneCall, IsAnswer
<1>6. Mine \subseteq Mine'
    BY MineGrows DEF leaseVars
<1> QED
    BY <1>3, <1>4, <1>5, <1>6, Delivery DEF IInv, OwnedIsMine, ownVars, leaseVars

\* The next call is answered by a, perhaps after an event.
Answers(w, a) ==
    /\ sent # <<>> /\ sent' = Tail(sent) /\ wire' = Append(w, a) /\ Told(w)
    /\ a \in AnswerTo /\ a.task = Head(sent).task
    /\ a.live \subseteq born' /\ a.marked \subseteq a.live
    /\ born \subseteq born' /\ \A x \in born : opener'[x] = opener[x]
    /\ born' \subseteq Targets /\ live' \subseteq born' /\ opener' \in [Targets -> Place]
    /\ live' \cap born \subseteq live
    /\ a.ok => /\ Head(sent).op = "targets" => a.live = live'
               /\ Head(sent).op = "create" => a.t \in born' \ born
               /\ Head(sent).op = "close" => Head(sent).t \notin live'

LEMMA AnswerStep ==
    ASSUME IInv, UNCHANGED <<ownVars, leaseVars, lock, task>>, NEW w, NEW a, Answers(w, a)
    PROVE  IInv'
<1> USE DEF Answers
<1>1. /\ sent' \in Seq(CallTo) /\ Head(sent) = sent[1] /\ Len(sent) \in Nat /\ Len(sent) > 0
      /\ Len(sent') = Len(sent) - 1 /\ \A i \in 1..Len(sent') : sent'[i] = sent[i + 1]
    BY Behead DEF IInv, TypeOK
<1>2. wire \in Seq(Messages) /\ Len(wire) \in Nat /\ w \in Seq(Messages) /\ Len(w) \in Nat
    BY DEF IInv, TypeOK, Messages, Told
<1>3. a \in Messages /\ a.event = "answer"
    BY DEF Messages, AnswerTo
<1>4. /\ wire' \in Seq(Messages) /\ Len(wire') = Len(w) + 1 /\ wire'[Len(w) + 1] = a
      /\ \A i \in 1..Len(w) : wire'[i] = w[i]
    BY <1>2, <1>3
<1>5. \A i \in 1..Len(wire') :
         \/ i \in 1..Len(wire) /\ wire'[i] = wire[i]
         \/ wire'[i].event # "answer" /\ wire'[i].t \in born'
         \/ i = Len(wire') /\ wire'[i] = a
    BY <1>2, <1>4 DEF Told, TargetEvent
<1>6. TypeOK'
    BY <1>1, <1>4 DEF IInv, TypeOK, Messages, ownVars, leaseVars
<1>7. WireIsReal'
    BY <1>3, <1>5 DEF IInv, WireIsReal, IsAnswer
<1>8. OneCall'
    <2>1. \A i, j \in 1..Len(sent') : sent'[i].task = sent'[j].task => i = j
        BY <1>1 DEF IInv, OneCall
    <2>2. \A i \in 1..Len(wire') : IsAnswer(i)' =>
             \/ i \in 1..Len(wire) /\ wire'[i] = wire[i] /\ IsAnswer(i) /\ wire[i].task # sent[1].task
             \/ i = Len(wire') /\ wire'[i].task = sent[1].task
        BY <1>1, <1>5 DEF IInv, OneCall, IsAnswer
    <2>3. \A i, j \in 1..Len(wire') :
            IsAnswer(i)' /\ IsAnswer(j)' /\ wire'[i].task = wire'[j].task => i = j
        BY <2>2 DEF IInv, OneCall
    <2>4. \A i \in 1..Len(sent') : i + 1 \in 1..Len(sent) /\ sent[i + 1].task # sent[1].task
        BY <1>1 DEF IInv, OneCall
    <2>5. \A i \in 1..Len(sent'), j \in 1..Len(wire') :
            IsAnswer(j)' => wire'[j].task # sent'[i].task
        BY <1>1, <2>2, <2>4 DEF IInv, OneCall
    <2>6. \A i \in 1..Len(sent') : task'[sent'[i].task].pc # "idle"
        BY <1>1, <2>4 DEF IInv, OneCall
    <2>7. \A i \in 1..Len(wire') : IsAnswer(i)' => task'[wire'[i].task].pc # "idle"
        BY <1>1, <2>2 DEF IInv, OneCall
    <2> QED
        BY <2>1, <2>3, <2>5, <2>6, <2>7 DEF OneCall
<1>9. Mine \subseteq Mine'
    BY MineGrows DEF leaseVars
<1>10. \A i \in 1..Len(sent') : \E j \in 1..Len(sent) : sent'[i] = sent[j]
    BY <1>1
<1> QED
    BY <1>6, <1>7, <1>8, <1>9, <1>10, Delivery DEF IInv, OwnedIsMine, ownVars, leaseVars

LEMMA PageOpensStep == ASSUME IInv, NEW o \in Targets, NEW t \in Targets, PageOpens(o, t) PROVE IInv'
<1> USE DEF PageOpens
<1>1. TypeOK /\ born' \subseteq Targets /\ live' \subseteq born' /\ t \in born'
    BY DEF IInv, TypeOK
<1>2. opener' \in [Targets -> Place] /\ \A x \in born : opener'[x] = opener[x]
    BY <1>1 DEF TypeOK, Place
<1>3. Told(wire')
    BY <1>1, EventTold
<1> QED
    BY <1>1, <1>2, <1>3, EventStep

LEMMA PageClosesStep == ASSUME IInv, NEW t \in Targets, PageCloses(t) PROVE IInv'
<1> USE DEF PageCloses
<1>1. TypeOK /\ born' \subseteq Targets /\ live' \subseteq born' /\ t \in born'
    BY DEF IInv, TypeOK
<1>2. Told(wire')
    BY <1>1, EventTold
<1> QED
    BY <1>1, <1>2, EventStep DEF TypeOK

\* The browser's answer: an inventory, or a target that is open or was asked for.
LEMMA AnswerTyped ==
    ASSUME NEW m \in CallTo, NEW ok \in BOOLEAN, NEW L \in SUBSET Targets, NEW t \in Place
    PROVE  LET a == Answer(m, ok, L, t)
           IN  a \in AnswerTo /\ a.task = m.task /\ a.live = L /\ a.marked \subseteq a.live
BY DEF Answer, AnswerTo, CallTo

LEMMA BrowserTells == ASSUME IInv, BrowserAnswers PROVE \E w, a : Answers(w, a)
<1> DEFINE m == Head(sent)
<1>1. sent # <<>> /\ sent' = Tail(sent) /\ UNCHANGED <<ownVars, leaseVars, lock, task>>
    BY DEF BrowserAnswers
<1>2. /\ TypeOK /\ born \subseteq Targets /\ live \subseteq born /\ opener \in [Targets -> Place]
      /\ wire \in Seq(Messages) /\ sent \in Seq(CallTo)
    BY DEF IInv, TypeOK, Messages
<1>3. m \in CallTo /\ m.t \in Place
    <2>1. m \in CallTo
        BY <1>1, <1>2, Behead
    <2> QED
        BY <2>1 DEF CallTo
<1>4. Told(wire)
    BY <1>2 DEF Told
<1> HIDE DEF m
<1>5. ASSUME NEW t \in Place, NEW ok \in BOOLEAN, NEW L \in SUBSET born, NEW w, Told(w),
             wire' = Append(w, Answer(m, ok, L, t)), UNCHANGED opener,
             born \subseteq born', born' \subseteq Targets, live' \subseteq born',
             live' \cap born \subseteq live,
             ok => /\ m.op = "targets" => L = live'
                   /\ m.op = "create" => t \in born' \ born
                   /\ m.op = "close" => m.t \notin live'
      PROVE  \E v, a : Answers(v, a)
    <2>1. L \in SUBSET Targets /\ m = Head(sent)
        BY <1>2 DEF m
    <2>2. Answer(m, ok, L, t) \in AnswerTo /\ Answer(m, ok, L, t).task = Head(sent).task
          /\ Answer(m, ok, L, t).live = L
          /\ Answer(m, ok, L, t).marked \subseteq Answer(m, ok, L, t).live
        BY <1>3, <2>1, AnswerTyped
    <2>3. Answer(m, ok, L, t).ok = ok /\ Answer(m, ok, L, t).t = t
        BY DEF Answer
    <2> HIDE DEF Answer
    <2>4. Answers(w, Answer(m, ok, L, t))
        BY <1>1, <1>2, <1>5, <2>1, <2>2, <2>3 DEF Answers
    <2> QED
        BY <2>4
<1>6. CASE /\ m.op = "targets" /\ UNCHANGED browserVars
           /\ wire' = Append(wire, Answer(m, TRUE, live, NoTarget))
    <2>1. NoTarget \in Place /\ live \in SUBSET born /\ TRUE \in BOOLEAN
        BY <1>2 DEF Place
    <2> QED
        BY <1>2, <1>4, <1>5, <1>6, <2>1 DEF browserVars
<1>7. ASSUME m.op = "create", NEW t \in Targets \ born, live' = live \cup {t}, born' = born \cup {t},
             UNCHANGED opener,
             wire' = Append(wire \o Event("created", t), Answer(m, TRUE, {}, t))
      PROVE  \E w, a : Answers(w, a)
    <2>1. t \in Place /\ t \in born' /\ born' \subseteq Targets /\ live' \subseteq born'
          /\ TRUE \in BOOLEAN /\ {} \in SUBSET born /\ live' \cap born \subseteq live
        BY <1>2, <1>7 DEF Place
    <2>2. Told(wire \o Event("created", t))
        BY <1>2, <2>1, EventTold
    <2> QED
        BY <1>5, <1>7, <2>1, <2>2
<1>8. ASSUME NEW ok \in BOOLEAN, ok => m.op \in {"attach", "command"}, UNCHANGED <<live, born, opener>>,
             wire' = Append(wire, Answer(m, ok, {}, m.t))
      PROVE  \E w, a : Answers(w, a)
    <2>1. {} \in SUBSET born
        OBVIOUS
    <2> QED
        BY <1>2, <1>3, <1>4, <1>5, <1>8, <2>1
<1>9. CASE /\ m.op = "close" /\ live' = live \ {m.t} /\ UNCHANGED <<born, opener>>
           /\ wire' = IF m.t \in live
                      THEN Append(wire \o Event("destroyed", m.t), Answer(m, TRUE, {}, m.t))
                      ELSE Append(wire, Answer(m, FALSE, {}, m.t))
    <2>1. born' \subseteq Targets /\ live' \subseteq born' /\ {} \in SUBSET born
          /\ TRUE \in BOOLEAN /\ FALSE \in BOOLEAN /\ m.t \notin live' /\ live' \cap born \subseteq live
        BY <1>2, <1>9
    <2>2. CASE m.t \in live
        <3>1. m.t \in born'
            BY <1>2, <1>9, <2>2
        <3>2. Told(wire \o Event("destroyed", m.t))
            BY <1>2, <2>1, <3>1, EventTold
        <3> QED
            BY <1>3, <1>5, <1>9, <2>1, <2>2, <3>2
    <2> QED
        BY <1>3, <1>4, <1>5, <1>9, <2>1, <2>2
<1> QED
    <2>1. (m.t \in live) \in BOOLEAN /\ TRUE \in BOOLEAN /\ FALSE \in BOOLEAN
        OBVIOUS
    <2>2. \/ /\ m.op = "targets" /\ UNCHANGED browserVars
             /\ wire' = Append(wire, Answer(m, TRUE, live, NoTarget))
          \/ \E t \in Targets \ born :
               /\ m.op = "create" /\ live' = live \cup {t} /\ born' = born \cup {t} /\ UNCHANGED opener
               /\ wire' = Append(wire \o Event("created", t), Answer(m, TRUE, {}, t))
          \/ /\ UNCHANGED <<live, born, opener>>
             /\ \/ wire' = Append(wire, Answer(m, FALSE, {}, m.t))
                \/ /\ m.op \in {"attach", "command"}
                   /\ wire' = Append(wire, Answer(m, m.t \in live, {}, m.t))
          \/ /\ m.op = "close" /\ live' = live \ {m.t} /\ UNCHANGED <<born, opener>>
             /\ wire' = IF m.t \in live
                        THEN Append(wire \o Event("destroyed", m.t), Answer(m, TRUE, {}, m.t))
                        ELSE Append(wire, Answer(m, FALSE, {}, m.t))
        BY Zenon DEF BrowserAnswers, browserVars, m
    <2> QED
        BY <1>6, <1>7, <1>8, <1>9, <2>1, <2>2

LEMMA BrowserStep == ASSUME IInv, BrowserAnswers PROVE IInv'
BY BrowserTells, AnswerStep DEF BrowserAnswers

\* A message is taken out of the wire.
LEMMA TakeOut ==
    ASSUME NEW S, NEW s \in Seq(S), NEW n \in 1..Len(s)
    PROVE  LET r == SubSeq(s, 1, n - 1) \o SubSeq(s, n + 1, Len(s))
           IN  /\ r \in Seq(S) /\ Len(r) = Len(s) - 1
               /\ \A i \in 1..Len(r) : r[i] = s[IF i < n THEN i ELSE i + 1]
<1>1. Len(s) \in Nat /\ n \in Nat
    OBVIOUS
<1> DEFINE u == SubSeq(s, 1, n - 1)
           v == SubSeq(s, n + 1, Len(s))
<1>2. u \in Seq(S) /\ Len(u) = n - 1 /\ \A i \in 1..(n - 1) : u[i] = s[i]
    BY <1>1
<1>3. v \in Seq(S) /\ Len(v) = Len(s) - n /\ \A i \in 1..(Len(s) - n) : v[i] = s[n + i]
    BY <1>1
<1> HIDE DEF u, v
<1>4. u \o v \in Seq(S) /\ Len(u \o v) = Len(s) - 1
      /\ \A i \in 1..(Len(s) - 1) : (u \o v)[i] = IF i <= n - 1 THEN u[i] ELSE v[i - (n - 1)]
    BY <1>1, <1>2, <1>3
<1> DEFINE w == u \o v
<1>5. w \in Seq(S) /\ Len(w) = Len(s) - 1
      /\ \A i \in 1..(Len(s) - 1) : w[i] = IF i <= n - 1 THEN u[i] ELSE v[i - (n - 1)]
    BY <1>4
<1>6. w = SubSeq(s, 1, n - 1) \o SubSeq(s, n + 1, Len(s))
    BY DEF u, v
<1> HIDE DEF w
<1>7. ASSUME NEW i \in 1..(Len(s) - 1) PROVE w[i] = s[IF i < n THEN i ELSE i + 1]
    <2>1. CASE i < n
        <3>1. i \in 1..(n - 1) /\ i <= n - 1
            BY <1>1, <2>1
        <3>2. w[i] = u[i]
            BY <1>5, <3>1
        <3> QED
            BY <1>2, <2>1, <3>1, <3>2
    <2>2. CASE ~(i < n)
        <3> DEFINE j == i - (n - 1)
        <3>1. j \in 1..(Len(s) - n) /\ ~(i <= n - 1) /\ n + j = i + 1
            BY <1>1, <2>2
        <3>2. w[i] = v[j]
            BY <1>5, <3>1
        <3> HIDE DEF j
        <3> QED
            BY <1>3, <2>2, <3>1, <3>2
    <2> QED
        BY <2>1, <2>2
<1> QED
    BY <1>5, <1>6, <1>7

LEMMA ReceiveStep == ASSUME IInv, Receive PROVE IInv'
<1>0. PICK n \in 1..Len(wire) : Receive!(n)
    BY DEF Receive
<1>1. wire \in Seq(Messages) /\ Len(wire) \in Nat
    BY DEF IInv, TypeOK, Messages
<1>2. /\ wire' \in Seq(Messages) /\ Len(wire') = Len(wire) - 1
      /\ \A i \in 1..Len(wire') : wire'[i] = wire[IF i < n THEN i ELSE i + 1]
    BY <1>0, <1>1, TakeOut
<1>3. wire[n].t \in born /\ wire[n] \in TargetEvent
    <2>1. wire[n] \in Messages /\ wire[n].event # "answer"
        BY <1>0, <1>1
    <2> QED
        BY <2>1 DEF IInv, WireIsReal, IsAnswer, Messages, AnswerTo
<1>4. Mine' = Mine
    BY <1>0, SameMine
<1>5. owned' \cup sessions' \subseteq Mine /\ owned' \subseteq Place /\ infos' \subseteq Place
    <2> DEFINE t == wire[n].t
    <2>1. owned \cup sessions \subseteq Mine /\ owned \subseteq Place /\ infos \subseteq Place /\ t \in Place
        BY <1>3 DEF IInv, OwnedIsMine, TypeOK, TargetEvent
    <2>2. {t, opener[t]} \cap owned # {} => t \in Mine
        BY <1>3, <2>1, TreeClosed DEF Mine, Family
    <2>3. CASE wire[n].event = "created"
        BY <1>0, <2>1, <2>2, <2>3
    <2>4. CASE wire[n].event = "destroyed"
        BY <1>0, <2>1, <2>4 DEF ownVars
    <2> QED
        BY <1>3, <2>3, <2>4 DEF TargetEvent
<1>6. TypeOK'
    BY <1>0, <1>2, <1>5 DEF IInv, TypeOK, Messages, browserVars
<1>7. WireIsReal' /\ OneCall'
    <2>1. \A i \in 1..Len(wire') : \E j \in 1..Len(wire) :
            wire'[i] = wire[j] /\ j = IF i < n THEN i ELSE i + 1
        BY <1>1, <1>2
    <2>2. WireIsReal'
        <3>1. WireIsReal /\ born' = born
            BY <1>0 DEF IInv, browserVars
        <3> QED
            BY <2>1, <3>1 DEF WireIsReal, IsAnswer
    <2>3. \A i, j \in 1..Len(wire') :
            IsAnswer(i)' /\ IsAnswer(j)' /\ wire'[i].task = wire'[j].task => i = j
        <3> SUFFICES ASSUME NEW i \in 1..Len(wire'), NEW j \in 1..Len(wire'), IsAnswer(i)', IsAnswer(j)',
                            wire'[i].task = wire'[j].task
                     PROVE  i = j
            OBVIOUS
        <3>1. PICK k \in 1..Len(wire) : wire'[i] = wire[k] /\ k = IF i < n THEN i ELSE i + 1
            BY <2>1
        <3>2. PICK l \in 1..Len(wire) : wire'[j] = wire[l] /\ l = IF j < n THEN j ELSE j + 1
            BY <2>1
        <3>3. k = l
            BY <3>1, <3>2 DEF IInv, OneCall, IsAnswer
        <3> QED
            BY <1>1, <1>2, <3>1, <3>2, <3>3
    <2>4. \A i \in 1..Len(wire') : IsAnswer(i)' =>
            /\ \A j \in 1..Len(sent) : wire'[i].task # sent[j].task
            /\ task[wire'[i].task].pc # "idle"
        BY <2>1 DEF IInv, OneCall, IsAnswer
    <2>5. OneCall'
        BY <1>0, <2>3, <2>4 DEF IInv, OneCall
    <2> QED
        BY <2>2, <2>5
<1>8. \A i \in 1..Len(sent') : \E j \in 1..Len(sent) : sent'[i] = sent[j]
    BY <1>0
<1> QED
    BY <1>0, <1>4, <1>5, <1>6, <1>7, <1>8, Delivery DEF browserVars

-----------------------------------------------------------------------------
(* The daemon's coroutines.                                                *)

\* What an answer brings, and that the lists the daemon makes of it are its own.
LEMMA Brought ==
    ASSUME IInv, NEW k \in Tasks, NEW pc, Resumes(k, pc)
    PROVE  /\ wire # <<>> /\ Answered.event = "answer" /\ Answered.task = k /\ wire' = Tail(wire)
           /\ task[k].pc = pc /\ task[k] \in TaskState
           /\ Answered \in AnswerTo /\ Answered.live \subseteq born /\ Answered.marked \subseteq Targets
           /\ Leased => Tree(lease.root, Answered.live) \subseteq Mine
<1>1. wire # <<>> /\ Answered.event = "answer" /\ Answered.task = k /\ wire' = Tail(wire)
      /\ task[k].pc = pc
    BY DEF Resumes
<1>2. task[k] \in TaskState /\ born \subseteq Targets /\ wire \in Seq(TargetEvent \cup AnswerTo)
    BY DEF IInv, TypeOK
<1>3. Answered = wire[1] /\ wire[1] \in TargetEvent \cup AnswerTo /\ 1 \in 1..Len(wire)
    BY <1>1, <1>2, Behead DEF Answered
<1>4. Answered \in AnswerTo
    BY <1>1, <1>3 DEF TargetEvent
<1>5. Answered.live \subseteq born /\ Answered.marked \subseteq Answered.live
    BY <1>1, <1>3 DEF IInv, WireIsReal, IsAnswer
<1> QED
    BY <1>1, <1>2, <1>4, <1>5, TreeIsMine DEF IInv

\* The daemon's lists after a refresh.
LEMMA Refreshed ==
    ASSUME IInv, NEW L \in SUBSET born, Refresh(L)
    PROVE  owned' \subseteq Mine /\ owned' \subseteq Place /\ infos' \subseteq Place
<1>1. born \subseteq Targets /\ owned \subseteq Place /\ owned \subseteq Mine
    BY DEF IInv, TypeOK, OwnedIsMine
<1>2. CASE Leased
    <2>1. Tree(lease.root, L) \subseteq L \cup {lease.root}
        BY DEF Tree
    <2>2. lease.root \in Place
        BY <1>2 DEF IInv, TypeOK, LeaseIsRoot
    <2> QED
        BY <1>1, <1>2, <2>1, <2>2, TreeIsMine DEF IInv, Refresh, Place
<1> QED
    BY <1>1, <1>2 DEF Refresh, Place

\* A coroutine that ends and at most has refreshed the lists.
LEMMA Ended ==
    ASSUME IInv, NEW k \in Tasks, NEW pc, Resumes(k, pc), Done(k),
           UNCHANGED <<browserVars, sent, lease, roots>>,
           owned' \subseteq Mine, owned' \subseteq Place, infos' \subseteq Place, sessions' \subseteq Mine,
           lock' = lock \/ lock = k
    PROVE  IInv'
<1>1. task' \in [Tasks -> TaskState] /\ (\A j \in Tasks \ {k} : task'[j] = task[j]) /\ task'[k] = Idle
    BY IdleTyped DEF IInv, TypeOK, Done
<1>2. Mine' = Mine
    BY SameMine
<1>3. Keeps(k)' /\ task'[k].pc \notin InLock /\ task'[k].pc # "release"
    BY <1>1 DEF Keeps, Idle, InLock
<1>4. OwnedIsMine' /\ LeaseIsRoot' /\ (Leased => Leased') /\ roots' = roots /\ roots' \subseteq Place
    BY <1>2 DEF IInv, TypeOK, OwnedIsMine, LeaseIsRoot, Leased
<1> QED
    BY <1>1, <1>3, <1>4, Brought, Resumption

LEMMA ReacquiredStep ==
    ASSUME IInv, NEW c \in Controls, Reacquired(c) \/ RootAdopted(c) PROVE IInv'
<1>1. PICK pc \in {"reacquire", "adopt"} : Resumes(c, pc)
    BY DEF Reacquired, RootAdopted
<1>2. /\ Done(c) /\ UNCHANGED <<browserVars, sent, lease, sessions, roots>> /\ lock' = Free
      /\ Refresh(Answered.live) \/ UNCHANGED ownVars
    BY DEF Reacquired, RootAdopted, Unlock, leaseVars
<1>3. c \in Tasks /\ lock = c
    BY <1>1 DEF Tasks, Resumes, IInv, LockHeld, InLock
<1>4. owned' \subseteq Mine /\ owned' \subseteq Place /\ infos' \subseteq Place /\ sessions' \subseteq Mine
    BY <1>1, <1>2, <1>3, Brought, Refreshed DEF IInv, OwnedIsMine, TypeOK, ownVars
<1> QED
    BY <1>1, <1>2, <1>3, <1>4, Ended

LEMMA StatusToldStep == ASSUME IInv, NEW c \in Controls, StatusTold(c) PROVE IInv'
<1>1. PICK pc \in {"status", "health"} : Resumes(c, pc)
    BY DEF StatusTold
<1>2. /\ Done(c) /\ UNCHANGED <<browserVars, sent, leaseVars, lock>>
      /\ Refresh(Answered.live) \/ UNCHANGED ownVars
    BY DEF StatusTold
<1>3. c \in Tasks
    BY DEF Tasks
<1>4. owned' \subseteq Mine /\ owned' \subseteq Place /\ infos' \subseteq Place /\ sessions' \subseteq Mine
    BY <1>1, <1>2, <1>3, Brought, Refreshed DEF IInv, OwnedIsMine, TypeOK, ownVars, leaseVars
<1> QED
    BY <1>1, <1>2, <1>3, <1>4, Ended DEF leaseVars

\* A coroutine that goes on with another call.
LEMMA Continued ==
    ASSUME IInv, NEW k \in Tasks, NEW pc, Resumes(k, pc), NEW op \in Ops, NEW t \in Place,
           Call(k, op, t), UNCHANGED browserVars,
           NEW v \in TaskState, task' = [task EXCEPT ![k] = v], v.pc \notin {"idle", "release"},
           roots \subseteq roots', roots' \subseteq Place, owned' \subseteq Place, infos' \subseteq Place,
           OwnedIsMine', LeaseIsRoot', Keeps(k)',
           op \in {"close", "attach", "command"} => t \in Mine' \/ v.pc = "attach",
           lock' = lock, v.pc \in InLock => k \in Controls /\ lock = k,
           Leased => Leased' \/ lock = k
    PROVE  IInv'
<1> DEFINE m == [task |-> k, op |-> op, t |-> t]
<1>1. m \in CallTo /\ m.task = k /\ m.op = op /\ m.t = t /\ sent' = Append(sent, m)
    BY DEF CallTo, Call
<1> HIDE DEF m
<1>2. task' \in [Tasks -> TaskState] /\ (\A j \in Tasks \ {k} : task'[j] = task[j]) /\ task'[k] = v
    BY DEF IInv, TypeOK
<1>3. wire # <<>> /\ Answered.event = "answer" /\ Answered.task = k /\ wire' = Tail(wire)
    BY Brought
<1>4. /\ task'[k].pc # "idle" /\ task'[k].pc # "release"
      /\ task'[k].pc \in InLock => k \in Controls /\ lock' = k
      /\ m.op \in {"close", "attach", "command"} => m.t \in Mine' \/ task'[k].pc = "attach"
    BY <1>1, <1>2
<1> QED
    BY <1>1, <1>2, <1>3, <1>4, Resumption

\* A connection that was idle makes its first call.
LEMMA Asked ==
    ASSUME IInv, NEW k \in Tasks, task[k].pc = "idle",
           UNCHANGED <<browserVars, wire, ownVars, leaseVars>>,
           NEW op \in Ops, NEW t \in Place, Call(k, op, t),
           NEW v \in TaskState, task' = [task EXCEPT ![k] = v], v.pc # "idle",
           op \in {"close", "attach", "command"} => t \in Mine,
           Keeps(k)', lock' = lock \/ lock = Free,
           v.pc \in InLock => k \in Controls /\ lock' = k, v.pc = "release" => Leased
    PROVE  IInv'
<1> DEFINE m == [task |-> k, op |-> op, t |-> t]
<1>1. m \in CallTo /\ m.task = k /\ m.op = op /\ m.t = t /\ sent' = Append(sent, m)
    BY DEF CallTo, Call
<1> HIDE DEF m
<1>2. task' \in [Tasks -> TaskState] /\ (\A j \in Tasks \ {k} : task'[j] = task[j]) /\ task'[k] = v
    BY DEF IInv, TypeOK
<1> QED
    BY <1>1, <1>2, Request

LEMMA AcquireStep ==
    ASSUME IInv, NEW c \in Controls, NEW q \in Requests, AcquireRoot(c, q) PROVE IInv'
<1> DEFINE p == IF Leased THEN "reacquire" ELSE "inventory"
           v == [Idle EXCEPT !.pc = p, !.req = q]
<1>1. v \in TaskState /\ v.pc = p /\ v.todo = {}
    BY IdleTyped DEF Idle, TaskState, Stages, InLock
<1>2. /\ task[c].pc = "idle" /\ lock = Free /\ lock' = c /\ task' = [task EXCEPT ![c] = v]
      /\ Call(c, "targets", NoTarget) /\ UNCHANGED <<browserVars, wire, ownVars, leaseVars>>
    BY DEF AcquireRoot
<1>3. p \in InLock /\ p \notin {"idle", "release", "close", "attach", "attaching"}
    BY DEF InLock
<1>4. c \in Tasks /\ "targets" \in Ops /\ NoTarget \in Place
      /\ "targets" \notin {"close", "attach", "command"}
    BY DEF Tasks, Ops, Place
<1> HIDE DEF v, p
<1>5. Keeps(c)'
    BY <1>1, <1>2, <1>3, <1>4 DEF Keeps, IInv, TypeOK
<1> QED
    BY <1>1, <1>2, <1>3, <1>4, <1>5, Asked

LEMMA ReleaseStep == ASSUME IInv, NEW c \in Controls, ReleaseRoot(c) PROVE IInv'
<1> DEFINE v == [Idle EXCEPT !.pc = "release", !.known = infos, !.todo = owned]
<1>1. v \in TaskState /\ v.pc = "release" /\ v.todo = owned
    BY IdleTyped DEF Idle, TaskState, Stages, InLock, IInv, TypeOK
<1>2. /\ task[c].pc = "idle" /\ lock = Free /\ Leased /\ lock' = c /\ task' = [task EXCEPT ![c] = v]
      /\ Call(c, "targets", NoTarget) /\ UNCHANGED <<browserVars, wire, ownVars, leaseVars>>
    BY DEF ReleaseRoot
<1>4. c \in Tasks /\ "targets" \in Ops /\ NoTarget \in Place
      /\ "targets" \notin {"close", "attach", "command"}
    BY DEF Tasks, Ops, Place
<1> HIDE DEF v
<1>5. Keeps(c)'
    <2>1. Mine' = Mine
        BY <1>2, SameMine DEF leaseVars
    <2> QED
        BY <1>1, <1>2, <1>4, <2>1 DEF Keeps, IInv, TypeOK, OwnedIsMine
<1> QED
    BY <1>1, <1>2, <1>4, <1>5, Asked

LEMMA AskStatusStep ==
    ASSUME IInv, NEW c \in Controls, NEW pc \in {"status", "health"}, AskStatus(c, pc) PROVE IInv'
<1> DEFINE v == [Idle EXCEPT !.pc = pc]
<1>1. v \in TaskState /\ v.pc = pc
    BY IdleTyped DEF Idle, TaskState, Stages
<1>2. /\ task[c].pc = "idle" /\ UNCHANGED lock /\ task' = [task EXCEPT ![c] = v]
      /\ Call(c, "targets", NoTarget) /\ UNCHANGED <<browserVars, wire, ownVars, leaseVars>>
    BY DEF AskStatus
<1>3. pc \notin InLock \cup {"idle", "attaching"}
    BY DEF InLock
<1>4. c \in Tasks /\ "targets" \in Ops /\ NoTarget \in Place
      /\ "targets" \notin {"close", "attach", "command"}
    BY DEF Tasks, Ops, Place
<1> HIDE DEF v
<1>5. Keeps(c)'
    BY <1>1, <1>2, <1>3, <1>4 DEF Keeps, IInv, TypeOK, InLock
<1> QED
    BY <1>1, <1>2, <1>3, <1>4, <1>5, Asked DEF InLock

LEMMA AgentAsksStep ==
    ASSUME IInv, NEW a \in Agents, NEW t \in Targets \cup {NoTarget},
           \/ \E pc \in {"list", "may attach", "may select"} : AgentAsks(a, pc, t)
           \/ AgentCommands(a, t)
    PROVE  IInv'
<1>1. PICK pc \in {"list", "may attach", "may select", "command"} :
        /\ task[a].pc = "idle" /\ task' = [task EXCEPT ![a] = [Idle EXCEPT !.pc = pc, !.t = t]]
        /\ \/ Call(a, "targets", NoTarget)
           \/ Call(a, "command", t) /\ t \in sessions
        /\ UNCHANGED <<browserVars, wire, ownVars, leaseVars, lock>>
    BY DEF AgentAsks, AgentCommands
<1> DEFINE v == [Idle EXCEPT !.pc = pc, !.t = t]
<1>2. v \in TaskState /\ v.pc = pc
    BY IdleTyped DEF Idle, TaskState, Stages, Place
<1>3. pc \notin InLock \cup {"idle", "attaching"}
    BY DEF InLock
<1>4. a \in Tasks /\ {"targets", "command"} \subseteq Ops /\ NoTarget \in Place /\ t \in Place
      /\ "targets" \notin {"close", "attach", "command"}
    BY DEF Tasks, Ops, Place
<1>5. task' = [task EXCEPT ![a] = v]
    BY <1>1
<1> HIDE DEF v
<1>6. Keeps(a)'
    BY <1>2, <1>3, <1>4, <1>5 DEF Keeps, IInv, TypeOK, InLock
<1>7. t \in sessions => t \in Mine
    BY DEF IInv, OwnedIsMine
<1> QED
    BY <1>1, <1>2, <1>3, <1>4, <1>5, <1>6, <1>7, Asked DEF InLock

\* While the lists are as they were, they are of the families there are.
LEMMA Kept ==
    ASSUME IInv, UNCHANGED <<browserVars, ownVars, sessions>>, roots \subseteq roots'
    PROVE  /\ owned' \cup sessions' \subseteq Mine' /\ owned' \subseteq Place /\ infos' \subseteq Place
           /\ OwnedIsMine'
BY MineGrows DEF IInv, OwnedIsMine, TypeOK, browserVars, ownVars

\* The holder of the lock gives it back and nothing else has changed.
LEMMA GivenUp ==
    ASSUME IInv, NEW c \in Controls, NEW pc \in InLock, Resumes(c, pc), Done(c), Unlock,
           UNCHANGED <<browserVars, sent, ownVars, lease, sessions, roots>>
    PROVE  IInv'
<1>1. c \in Tasks /\ lock = c /\ lock' = Free
    BY DEF Tasks, Resumes, IInv, LockHeld, Unlock
<1>2. owned' \subseteq Mine /\ owned' \subseteq Place /\ infos' \subseteq Place /\ sessions' \subseteq Mine
    BY DEF IInv, OwnedIsMine, TypeOK, ownVars
<1> QED
    BY <1>1, <1>2, Ended

LEMMA RootChosenStep == ASSUME IInv, NEW c \in Controls, RootChosen(c) PROVE IInv'
<1>1. Resumes(c, "inventory") /\ UNCHANGED <<browserVars, ownVars, leaseVars>>
    BY DEF RootChosen
<1>2. c \in Tasks /\ "inventory" \in InLock /\ {"attach", "create"} \subseteq InLock \cap Ops
    BY DEF Tasks, InLock, Ops
<1>3. /\ lock = c /\ task[c] \in TaskState /\ task[c].todo = {}
      /\ Answered.marked \subseteq Targets
    BY <1>1, <1>2, Brought DEF IInv, LockHeld, KeptIsMine, Keeps
<1>4. OwnedIsMine' /\ LeaseIsRoot' /\ roots' = roots /\ roots' \subseteq Place
      /\ owned' \subseteq Place /\ infos' \subseteq Place /\ (Leased => Leased')
    BY <1>1, Kept DEF leaseVars, IInv, LeaseIsRoot, Leased, TypeOK
<1>5. CASE Done(c) /\ Unlock /\ UNCHANGED sent
    BY <1>1, <1>2, <1>5, GivenUp DEF leaseVars
<1>6. ASSUME NEW t \in Answered.marked, Call(c, "attach", t), UNCHANGED lock,
             task' = [task EXCEPT ![c].pc = "attach", ![c].t = t]
      PROVE  IInv'
    <2> DEFINE v == [task[c] EXCEPT !.pc = "attach", !.t = t]
    <2>1. v \in TaskState /\ v.pc = "attach" /\ v.todo = {} /\ t \in Place
        BY <1>3 DEF TaskState, Stages, InLock, Place
    <2>2. task' = [task EXCEPT ![c] = v]
        BY <1>6, <1>2 DEF IInv, TypeOK, TaskState
    <2> HIDE DEF v
    <2>3. Keeps(c)'
        BY <1>2, <2>1, <2>2 DEF Keeps, IInv, TypeOK
    <2> QED
        BY <1>1, <1>2, <1>3, <1>4, <1>6, <2>1, <2>2, <2>3, Continued
<1>7. CASE Await(c, "create") /\ Call(c, "create", NoTarget) /\ UNCHANGED lock
    <2> DEFINE v == [task[c] EXCEPT !.pc = "create"]
    <2>1. v \in TaskState /\ v.pc = "create" /\ v.todo = {} /\ NoTarget \in Place
        BY <1>3 DEF TaskState, Stages, InLock, Place
    <2>2. task' = [task EXCEPT ![c] = v]
        BY <1>7, <1>2 DEF IInv, TypeOK, TaskState, Await
    <2> HIDE DEF v
    <2>3. Keeps(c)'
        BY <1>2, <2>1, <2>2 DEF Keeps, IInv, TypeOK
    <2> QED
        BY <1>1, <1>2, <1>3, <1>4, <1>7, <2>1, <2>2, <2>3, Continued
<1> QED
    BY <1>5, <1>6, <1>7 DEF RootChosen

LEMMA RootCreatedStep == ASSUME IInv, NEW c \in Controls, RootCreated(c) PROVE IInv'
<1>1. Resumes(c, "create") /\ UNCHANGED <<browserVars, ownVars, lease, sessions>>
    BY DEF RootCreated
<1>2. c \in Tasks /\ "create" \in InLock /\ "attach" \in InLock \cap Ops
    BY DEF Tasks, InLock, Ops
<1>3. lock = c /\ task[c] \in TaskState /\ Answered.t \in Place
    BY <1>1, <1>2, Brought DEF IInv, LockHeld, AnswerTo
<1>4. CASE Answered.ok
    <2> DEFINE t == Answered.t
               v == [task[c] EXCEPT !.pc = "attach", !.t = t, !.todo = {t}]
    <2>1. roots' = roots \cup {t} /\ UNCHANGED lock /\ Call(c, "attach", t)
          /\ task' = [task EXCEPT ![c].pc = "attach", ![c].t = t, ![c].todo = {t}]
        BY <1>4 DEF RootCreated
    <2> HIDE DEF t
    <2>2. v \in TaskState /\ v.pc = "attach" /\ v.t = t /\ t \in Place
        BY <1>3 DEF TaskState, Stages, InLock, t
    <2>3. task' = [task EXCEPT ![c] = v]
        BY <1>2, <2>1 DEF IInv, TypeOK, TaskState
    <2>4. t \in roots' /\ roots \subseteq roots' /\ roots' \subseteq Place
        BY <2>1, <2>2 DEF IInv, TypeOK
    <2>5. t \in Mine'
        BY <2>4, RootOfTree DEF Mine, Family, Tree
    <2>6. OwnedIsMine' /\ LeaseIsRoot' /\ owned' \subseteq Place /\ infos' \subseteq Place
          /\ (Leased => Leased')
        BY <1>1, <2>4, Kept DEF IInv, LeaseIsRoot, Leased
    <2> HIDE DEF v
    <2>7. Keeps(c)'
        BY <1>2, <2>2, <2>3, <2>5 DEF Keeps, IInv, TypeOK
    <2> QED
        BY <1>1, <1>2, <1>3, <2>1, <2>2, <2>3, <2>4, <2>5, <2>6, <2>7, Continued
<1>5. CASE ~Answered.ok
    BY <1>1, <1>2, <1>5, GivenUp DEF RootCreated
<1> QED
    BY <1>4, <1>5

LEMMA RootAttachedStep == ASSUME IInv, NEW c \in Controls, RootAttached(c) PROVE IInv'
<1>1. Resumes(c, "attach") /\ UNCHANGED <<browserVars, ownVars>>
    BY DEF RootAttached
<1>2. c \in Tasks /\ {"attach", "adopt", "undo"} \subseteq InLock /\ {"close", "targets"} \subseteq Ops
      /\ NoTarget \in Place
    BY DEF Tasks, InLock, Ops, Place
<1>3. lock = c /\ task[c] \in TaskState /\ task[c].t \in Place /\ task[c].pc = "attach"
    BY <1>1, <1>2, Brought DEF IInv, LockHeld, TaskState
<1>4. CASE Answered.ok
    <2> DEFINE t == task[c].t
               v == [task[c] EXCEPT !.pc = "adopt"]
    <2>1. /\ roots' = roots \cup {t} /\ lease' = [root |-> t, req |-> task[c].req] /\ sessions' = {t}
          /\ UNCHANGED lock /\ Call(c, "targets", NoTarget) /\ Await(c, "adopt")
        BY <1>4 DEF RootAttached
    <2>2. v \in TaskState /\ v.pc = "adopt"
        BY <1>3 DEF TaskState, Stages, InLock
    <2>3. task' = [task EXCEPT ![c] = v]
        BY <1>2, <2>1 DEF IInv, TypeOK, TaskState, Await
    <2>4. t \in roots' /\ roots \subseteq roots' /\ roots' \subseteq Place
        BY <1>3, <2>1 DEF IInv, TypeOK
    <2>5. t \in Mine' /\ Mine \subseteq Mine'
        BY <1>1, <2>4, MineGrows, RootOfTree DEF Mine, Family, Tree, browserVars
    <2>6. OwnedIsMine' /\ LeaseIsRoot' /\ owned' \subseteq Place /\ infos' \subseteq Place
        BY <1>1, <2>1, <2>4, <2>5 DEF IInv, OwnedIsMine, TypeOK, LeaseIsRoot, ownVars
    <2> HIDE DEF v
    <2>7. Keeps(c)'
        BY <1>2, <2>2, <2>3 DEF Keeps, IInv, TypeOK
    <2> QED
        BY <1>1, <1>2, <1>3, <2>1, <2>2, <2>3, <2>4, <2>6, <2>7, Continued
<1>5. CASE ~Answered.ok /\ task[c].todo = {}
    BY <1>1, <1>2, <1>5, GivenUp DEF RootAttached, AttachFailed, leaseVars
<1>6. CASE ~Answered.ok /\ task[c].todo # {}
    <2> DEFINE t == task[c].t
               v == [task[c] EXCEPT !.pc = "undo"]
    <2>1. UNCHANGED <<leaseVars, lock>> /\ Call(c, "close", t) /\ Await(c, "undo")
        BY <1>6 DEF RootAttached, AttachFailed
    <2>2. v \in TaskState /\ v.pc = "undo"
        BY <1>3 DEF TaskState, Stages, InLock
    <2>3. task' = [task EXCEPT ![c] = v]
        BY <1>2, <2>1 DEF IInv, TypeOK, TaskState, Await
    <2>4. t \in Mine /\ Mine \subseteq Mine'
        BY <1>1, <1>2, <1>3, <1>6, <2>1, MineGrows DEF IInv, KeptIsMine, Keeps, browserVars, leaseVars
    <2>5. OwnedIsMine' /\ LeaseIsRoot' /\ roots' = roots /\ roots' \subseteq Place
          /\ owned' \subseteq Place /\ infos' \subseteq Place
        BY <1>1, <2>1, Kept DEF IInv, LeaseIsRoot, Leased, leaseVars, TypeOK
    <2> HIDE DEF v
    <2>6. Keeps(c)'
        BY <1>2, <2>2, <2>3 DEF Keeps, IInv, TypeOK
    <2> QED
        BY <1>1, <1>2, <1>3, <2>1, <2>2, <2>3, <2>4, <2>5, <2>6, Continued
<1> QED
    BY <1>4, <1>5, <1>6

LEMMA RootUndoneStep == ASSUME IInv, NEW c \in Controls, RootUndone(c) PROVE IInv'
BY GivenUp DEF RootUndone, InLock

\* The lease goes with its lists.
LEMMA DroppedStep ==
    ASSUME IInv, NEW c \in Controls, NEW pc \in InLock, Resumes(c, pc), LeaseDropped, Done(c), Unlock,
           UNCHANGED <<browserVars, sent, roots>>
    PROVE  IInv'
<1>1. c \in Tasks /\ lock = c
    BY DEF Tasks, Resumes, IInv, LockHeld
<1>2. task' \in [Tasks -> TaskState] /\ (\A j \in Tasks \ {c} : task'[j] = task[j]) /\ task'[c] = Idle
    BY <1>1, IdleTyped DEF IInv, TypeOK, Done
<1>3. Keeps(c)' /\ task'[c].pc \notin InLock /\ task'[c].pc # "release"
    BY <1>2 DEF Keeps, Idle, InLock
<1>4. owned' = {} /\ infos' = {} /\ sessions' = {} /\ ~Leased' /\ roots' \subseteq Place
    BY DEF LeaseDropped, Leased, IInv, TypeOK
<1>5. OwnedIsMine' /\ LeaseIsRoot' /\ owned' \subseteq Place /\ infos' \subseteq Place
    BY <1>4 DEF OwnedIsMine, LeaseIsRoot
<1> QED
    BY <1>1, <1>2, <1>3, <1>4, <1>5, Brought, Resumption

\* The holder of the lock closes a page of the list T.
LEMMA ClosesNext ==
    ASSUME IInv, NEW c \in Controls, NEW pc \in InLock, Resumes(c, pc), NEW T, T \subseteq Mine,
           T \subseteq Place, NEW t \in T, Call(c, "close", t),
           NEW v \in TaskState, task' = [task EXCEPT ![c] = v], v.pc = "close", v.todo = T,
           UNCHANGED <<browserVars, lease, roots, lock, sessions>>,
           owned' \subseteq Mine, owned' \subseteq Place, infos' \subseteq Place
    PROVE  IInv'
<1>1. c \in Tasks /\ lock = c /\ "close" \in InLock \cap Ops
    BY DEF Tasks, Resumes, IInv, LockHeld, InLock, Ops
<1>2. Mine' = Mine
    BY SameMine
<1>3. OwnedIsMine' /\ LeaseIsRoot' /\ roots' \subseteq Place
    BY <1>2 DEF IInv, OwnedIsMine, LeaseIsRoot, Leased, TypeOK
<1>4. Keeps(c)'
    BY <1>1, <1>2 DEF Keeps, IInv, TypeOK
<1> QED
    BY <1>1, <1>2, <1>3, <1>4, Continued

LEMMA TreeListedStep == ASSUME IInv, NEW c \in Controls, TreeListed(c) PROVE IInv'
<1>1. Resumes(c, "release") /\ UNCHANGED <<browserVars, roots>>
    BY DEF TreeListed
<1>2. c \in Tasks /\ "release" \in InLock /\ task[c].pc = "release" /\ Leased
    BY <1>1 DEF Tasks, InLock, Resumes, IInv, LockHeld
<1>3. /\ task[c] \in TaskState /\ Answered \in AnswerTo /\ Answered.live \in SUBSET born
      /\ Tree(lease.root, Answered.live) \subseteq Mine
    BY <1>1, <1>2, Brought
<1>4. lease.root \in Mine /\ lease.root \in Place /\ task[c].todo \subseteq Mine
      /\ task[c].todo \subseteq Place
    BY <1>2, <1>3, RootIsMine DEF IInv, LeaseIsRoot, TypeOK, KeptIsMine, Keeps, TaskState
<1>5. Answered.live \subseteq Place /\ Known(c) \subseteq Place
    BY <1>3 DEF Known, IInv, TypeOK, Place, TaskState
<1>6. ToClose(c) \subseteq Mine /\ ToClose(c) \subseteq Place
    BY <1>3, <1>4, <1>5 DEF ToClose
<1>7. CASE ToClose(c) = {}
    BY <1>1, <1>2, <1>7, DroppedStep DEF TreeListed
<1>8. CASE ToClose(c) # {}
    <2>1. PICK t \in Deepest(ToClose(c), Known(c)) :
            /\ task' = [task EXCEPT ![c].pc = "close", ![c].t = t,
                          ![c].known = Known(c), ![c].todo = ToClose(c)]
            /\ Call(c, "close", t)
            /\ Refresh(Answered.live) \/ UNCHANGED ownVars
            /\ UNCHANGED <<lease, sessions, lock>>
        BY <1>8 DEF TreeListed
    <2>2. t \in ToClose(c) /\ t \in Place
        BY <1>6 DEF Deepest
    <2> DEFINE v == [task[c] EXCEPT !.pc = "close", !.t = t, !.known = Known(c), !.todo = ToClose(c)]
    <2>3. v \in TaskState /\ v.pc = "close" /\ v.todo = ToClose(c)
        BY <1>3, <1>5, <1>6, <2>2 DEF TaskState, Stages, InLock
    <2>4. task' = [task EXCEPT ![c] = v]
        BY <1>2, <2>1 DEF IInv, TypeOK, TaskState
    <2> HIDE DEF v
    <2>5. owned' \subseteq Mine /\ owned' \subseteq Place /\ infos' \subseteq Place
        BY <1>3, <2>1, Refreshed DEF IInv, OwnedIsMine, TypeOK, ownVars
    <2> QED
        BY <1>1, <1>2, <1>6, <2>1, <2>2, <2>3, <2>4, <2>5, ClosesNext
<1> QED
    BY <1>7, <1>8

LEMMA TargetClosedStep == ASSUME IInv, NEW c \in Controls, TargetClosed(c) PROVE IInv'
<1>1. Resumes(c, "close") /\ UNCHANGED <<browserVars, roots>>
    BY DEF TargetClosed
<1>2. c \in Tasks /\ "close" \in InLock /\ task[c].pc = "close" /\ task[c] \in TaskState
    BY <1>1 DEF Tasks, InLock, Resumes, IInv, TypeOK
<1>3. Rest(c) \subseteq Mine /\ Rest(c) \subseteq Place
    BY <1>2 DEF Rest, IInv, KeptIsMine, Keeps, TaskState
<1>4. CASE Rest(c) = {}
    BY <1>1, <1>2, <1>4, DroppedStep DEF TargetClosed
<1>5. CASE Rest(c) # {}
    <2>1. PICK t \in Deepest(Rest(c), task[c].known) :
            /\ task' = [task EXCEPT ![c].t = t, ![c].todo = Rest(c)]
            /\ Call(c, "close", t)
            /\ UNCHANGED <<ownVars, lease, sessions, lock>>
        BY <1>5 DEF TargetClosed
    <2>2. t \in Rest(c) /\ t \in Place
        BY <1>3 DEF Deepest
    <2> DEFINE v == [task[c] EXCEPT !.t = t, !.todo = Rest(c)]
    <2>3. v \in TaskState /\ v.pc = "close" /\ v.todo = Rest(c)
        BY <1>2, <1>3, <2>2 DEF TaskState
    <2>4. task' = [task EXCEPT ![c] = v]
        BY <1>2, <2>1 DEF IInv, TypeOK, TaskState
    <2> HIDE DEF v
    <2>5. owned' \subseteq Mine /\ owned' \subseteq Place /\ infos' \subseteq Place
        BY <2>1 DEF IInv, OwnedIsMine, TypeOK, ownVars
    <2> QED
        BY <1>1, <1>2, <1>3, <2>1, <2>2, <2>3, <2>4, <2>5, ClosesNext
<1> QED
    BY <1>4, <1>5

LEMMA AgentListsStep == ASSUME IInv, NEW a \in Agents, AgentLists(a) PROVE IInv'
<1>1. Resumes(a, "list") /\ Done(a) /\ UNCHANGED <<browserVars, sent, leaseVars, lock>>
    BY DEF AgentLists
<1>2. a \in Tasks
    BY DEF Tasks
<1>3. Refresh(Answered.live) \/ UNCHANGED ownVars \/ (owned' = {} /\ infos' = {})
    BY DEF AgentLists
<1>4. owned' \subseteq Mine /\ owned' \subseteq Place /\ infos' \subseteq Place /\ sessions' \subseteq Mine
    BY <1>1, <1>2, <1>3, Brought, Refreshed DEF IInv, OwnedIsMine, TypeOK, ownVars, leaseVars
<1> QED
    BY <1>1, <1>2, <1>4, Ended DEF leaseVars

LEMMA AgentMayAttachStep == ASSUME IInv, NEW a \in Agents, AgentMayAttach(a) PROVE IInv'
<1>1. /\ Resumes(a, "may attach") /\ UNCHANGED <<browserVars, leaseVars, lock>>
      /\ Refresh(Answered.live) \/ UNCHANGED ownVars
    BY DEF AgentMayAttach
<1>2. a \in Tasks /\ "attach" \in Ops /\ "attaching" \notin InLock
    BY DEF Tasks, Ops, InLock
<1>3. /\ task[a] \in TaskState /\ task[a].t \in Place
      /\ Leased => Tree(lease.root, Answered.live) \subseteq Mine
    BY <1>1, <1>2, Brought DEF TaskState
<1>4. owned' \subseteq Mine /\ owned' \subseteq Place /\ infos' \subseteq Place /\ sessions' \subseteq Mine
    BY <1>1, <1>2, Brought, Refreshed DEF IInv, OwnedIsMine, TypeOK, ownVars, leaseVars
<1>5. CASE IsOwned(task[a].t) /\ Await(a, "attaching") /\ Call(a, "attach", task[a].t)
    <2> DEFINE t == task[a].t
               v == [task[a] EXCEPT !.pc = "attaching"]
    <2>1. v \in TaskState /\ v.pc = "attaching" /\ v.t = t
        BY <1>3 DEF TaskState, Stages
    <2>2. task' = [task EXCEPT ![a] = v]
        BY <1>2, <1>5 DEF IInv, TypeOK, TaskState, Await
    <2> HIDE DEF v
    <2>3. t \in Mine /\ Mine' = Mine
        <3>1. t \in Mine
            BY <1>3, <1>5 DEF IsOwned
        <3>2. Mine' = Mine
            BY <1>1, SameMine DEF leaseVars
        <3> QED
            BY <3>1, <3>2
    <2>4. Keeps(a)'
        BY <1>2, <2>1, <2>2, <2>3 DEF Keeps, IInv, TypeOK
    <2>5. OwnedIsMine' /\ LeaseIsRoot' /\ (Leased => Leased') /\ roots' = roots /\ roots' \subseteq Place
        BY <1>1, <1>4, <2>3 DEF IInv, OwnedIsMine, LeaseIsRoot, Leased, leaseVars, TypeOK
    <2> QED
        BY <1>1, <1>2, <1>3, <1>4, <1>5, <2>1, <2>2, <2>3, <2>4, <2>5, Continued
<1>6. CASE Done(a) /\ UNCHANGED sent
    BY <1>1, <1>2, <1>4, <1>6, Ended DEF leaseVars
<1> QED
    BY <1>5, <1>6 DEF AgentMayAttach

LEMMA AgentAttachedStep == ASSUME IInv, NEW a \in Agents, AgentAttached(a) PROVE IInv'
<1>1. /\ Resumes(a, "attaching") /\ Done(a) /\ UNCHANGED <<browserVars, sent, ownVars, lease, roots, lock>>
      /\ sessions' \subseteq sessions \cup {task[a].t}
    BY DEF AgentAttached
<1>2. a \in Tasks /\ task[a].t \in Mine
    BY <1>1 DEF Tasks, Resumes, IInv, KeptIsMine, Keeps
<1>3. owned' \subseteq Mine /\ owned' \subseteq Place /\ infos' \subseteq Place /\ sessions' \subseteq Mine
    BY <1>1, <1>2 DEF IInv, OwnedIsMine, TypeOK, ownVars
<1> QED
    BY <1>1, <1>2, <1>3, Ended

LEMMA AgentSelectsStep == ASSUME IInv, NEW a \in Agents, AgentSelects(a) PROVE IInv'
<1>1. /\ Resumes(a, "may select") /\ Done(a) /\ UNCHANGED <<browserVars, sent, lease, roots, lock>>
      /\ Refresh(Answered.live) \/ UNCHANGED ownVars
      /\ sessions' = sessions \/ (IsOwned(task[a].t) /\ sessions' = sessions \cup {task[a].t})
    BY DEF AgentSelects
<1>2. a \in Tasks
    BY DEF Tasks
<1>3. IsOwned(task[a].t) => task[a].t \in Mine
    BY <1>1, <1>2, Brought DEF IsOwned
<1>4. owned' \subseteq Mine /\ owned' \subseteq Place /\ infos' \subseteq Place /\ sessions' \subseteq Mine
    BY <1>1, <1>2, <1>3, Brought, Refreshed DEF IInv, OwnedIsMine, TypeOK, ownVars
<1> QED
    BY <1>1, <1>2, <1>4, Ended

LEMMA AgentCommandedStep == ASSUME IInv, NEW a \in Agents, AgentCommanded(a) PROVE IInv'
<1>1. a \in Tasks /\ owned' \subseteq Mine /\ owned' \subseteq Place /\ infos' \subseteq Place
      /\ sessions' \subseteq Mine
    BY DEF AgentCommanded, Tasks, IInv, OwnedIsMine, TypeOK, ownVars, leaseVars
<1> QED
    BY <1>1, Ended DEF AgentCommanded, leaseVars

-----------------------------------------------------------------------------

LEMMA NextInv == IInv /\ [Next]_vars => IInv'
<1> SUFFICES ASSUME IInv, [Next]_vars PROVE IInv'
    OBVIOUS
<1>1. CASE \E o, t \in Targets : PageOpens(o, t)
    BY <1>1, PageOpensStep
<1>2. CASE \E t \in Targets : PageCloses(t)
    BY <1>2, PageClosesStep
<1>3. CASE BrowserAnswers \/ Receive
    BY <1>3, BrowserStep, ReceiveStep
<1>4. CASE \E c \in Controls : ControlRuns(c)
    BY <1>4, ReacquiredStep, RootChosenStep, RootCreatedStep, RootAttachedStep, RootUndoneStep,
       TreeListedStep, TargetClosedStep, StatusToldStep DEF ControlRuns
<1>5. CASE \E a \in Agents : AgentRuns(a)
    BY <1>5, AgentListsStep, AgentMayAttachStep, AgentAttachedStep, AgentSelectsStep,
       AgentCommandedStep DEF AgentRuns
<1>6. ASSUME NEW c \in Controls, \/ \E q \in Requests : AcquireRoot(c, q)
                                 \/ ReleaseRoot(c)
                                 \/ \E pc \in Probes : AskStatus(c, pc)
      PROVE  IInv'
    BY <1>6, LeaseAssumption, AcquireStep, ReleaseStep, AskStatusStep
<1>7. ASSUME NEW a \in Agents, NEW t \in Targets \cup {NoTarget},
             \/ \E pc \in {"list", "may attach", "may select"} : AgentAsks(a, pc, t)
             \/ AgentCommands(a, t)
      PROVE  IInv'
    BY <1>7, AgentAsksStep
<1>8. CASE UNCHANGED vars
    <2>1. UNCHANGED <<browserVars, wire, sent, ownVars, leaseVars, lock, task>>
        BY <1>8 DEF vars, wireVars
    <2>2. TypeOK /\ wire \in Seq(Messages)
        BY DEF IInv, TypeOK, Messages
    <2>3. Told(wire')
        BY <2>1, <2>2 DEF Told
    <2> QED
        BY <2>1, <2>2, <2>3, EventStep DEF TypeOK, browserVars
<1> QED
    BY <1>1, <1>2, <1>3, <1>4, <1>5, <1>6, <1>7, <1>8 DEF Next, Daemon

\* The daemon closes, attaches to, drives and lists only pages that belong to a page it once
\* leased or created, for any number of pages, connections, requests and failed calls.
THEOREM OnlyTheFamilyIsTouched == Spec => []OnlyTheFamily
<1>1. IInv => OnlyTheFamily
    BY DEF IInv, OwnedIsMine, SentIsMine, Mine, OnlyTheFamily
<1> QED
    BY InitInv, NextInv, <1>1, PTL DEF Spec

-----------------------------------------------------------------------------
(* The order of the answers: who asked first is answered first.            *)

\* The call of k is on its way, there or back.
Waits(k) ==
    \/ \E i \in 1..Len(sent) : sent[i].task = k
    \/ \E i \in 1..Len(wire) : IsAnswer(i) /\ wire[i].task = k

\* The call of a will be answered before that of k.
Ahead(a, k) ==
    \/ \E i, j \in 1..Len(sent) : i < j /\ sent[i].task = a /\ sent[j].task = k
    \/ \E i \in 1..Len(wire), j \in 1..Len(sent) :
         IsAnswer(i) /\ wire[i].task = a /\ sent[j].task = k
    \/ \E i, j \in 1..Len(wire) :
         i < j /\ IsAnswer(i) /\ IsAnswer(j) /\ wire[i].task = a /\ wire[j].task = k

\* No call of the connections in K is lost or overtaken.
OrderKept(K) ==
    /\ \A k \in K : Waits(k) => Waits(k)'
    /\ \A a, k \in K : Ahead(a, k) => Ahead(a, k)'

LEMMA EventKeepsOrder ==
    ASSUME IInv, UNCHANGED sent, Told(wire')
    PROVE  OrderKept(Tasks)
<1>1. Len(wire) \in Nat /\ Len(wire') \in Nat /\ Len(wire) <= Len(wire')
    BY DEF IInv, TypeOK, Told, Messages
<1>2. \A i \in 1..Len(wire) : i \in 1..Len(wire') /\ wire'[i] = wire[i] /\ IsAnswer(i)' = IsAnswer(i)
    BY <1>1 DEF Told, IsAnswer
<1>3. \A k \in Tasks : Waits(k) => Waits(k)'
    BY <1>2 DEF Waits
<1>4. \A a, k \in Tasks : Ahead(a, k) => Ahead(a, k)'
    BY <1>2 DEF Ahead
<1> QED
    BY <1>3, <1>4 DEF OrderKept

LEMMA AnswerKeepsOrder ==
    ASSUME IInv, NEW w, NEW m, Answers(w, m)
    PROVE  OrderKept(Tasks)
<1>1. /\ Head(sent) = sent[1] /\ Len(sent) \in Nat /\ Len(sent) > 0
      /\ Len(sent') = Len(sent) - 1 /\ \A i \in 1..Len(sent') : sent'[i] = sent[i + 1]
    BY Behead DEF IInv, TypeOK, Answers
<1>2. w \in Seq(Messages) /\ Len(w) \in Nat /\ Len(wire) \in Nat /\ Len(wire) <= Len(w)
    BY DEF IInv, TypeOK, Told, Messages, Answers
<1>3. m \in Messages /\ m.event = "answer" /\ m.task = sent[1].task
    BY <1>1 DEF Messages, AnswerTo, Answers
<1>4. /\ Len(wire') = Len(w) + 1 /\ wire'[Len(w) + 1] = m
      /\ \A i \in 1..Len(w) : wire'[i] = w[i]
    BY <1>2, <1>3 DEF Answers
<1>5. \A i \in 1..Len(wire) : i \in 1..Len(wire') /\ i < Len(wire') /\ wire'[i] = wire[i]
                              /\ IsAnswer(i)' = IsAnswer(i)
    BY <1>2, <1>4 DEF Told, IsAnswer, Answers
<1>0. PICK n \in Nat : n = Len(wire')
    BY <1>2, <1>4
<1>6. n \in 1..Len(wire') /\ IsAnswer(n)' /\ wire'[n].task = sent[1].task
    BY <1>0, <1>2, <1>3, <1>4 DEF IsAnswer
<1>7. \A i \in 1..Len(sent) : i # 1 => i - 1 \in 1..Len(sent') /\ sent'[i - 1] = sent[i]
    BY <1>1
<1>8. ASSUME NEW k \in Tasks, Waits(k) PROVE Waits(k)'
    <2>1. CASE \E i \in 1..Len(sent) : sent[i].task = k
        BY <1>6, <1>7, <2>1 DEF Waits
    <2>2. CASE \E i \in 1..Len(wire) : IsAnswer(i) /\ wire[i].task = k
        BY <1>5, <2>2 DEF Waits
    <2> QED
        BY <1>8, <2>1, <2>2 DEF Waits
<1>9. ASSUME NEW a \in Tasks, NEW k \in Tasks, Ahead(a, k) PROVE Ahead(a, k)'
    <2>1. ASSUME NEW i \in 1..Len(sent), NEW j \in 1..Len(sent),
                 i < j, sent[i].task = a, sent[j].task = k
          PROVE  Ahead(a, k)'
        <3>1. j # 1 /\ j - 1 \in 1..Len(sent') /\ sent'[j - 1] = sent[j]
            BY <1>1, <1>7, <2>1
        <3>2. CASE i = 1
            BY <1>6, <2>1, <3>1, <3>2 DEF Ahead
        <3>3. CASE i # 1
            <4>1. i - 1 \in 1..Len(sent') /\ sent'[i - 1] = sent[i] /\ i - 1 < j - 1
                BY <1>1, <1>7, <2>1, <3>3
            <4> QED
                BY <2>1, <3>1, <4>1 DEF Ahead
        <3> QED
            BY <3>2, <3>3
    <2>2. ASSUME NEW i \in 1..Len(wire), NEW j \in 1..Len(sent),
                 IsAnswer(i), wire[i].task = a, sent[j].task = k
          PROVE  Ahead(a, k)'
        <3>1. i \in 1..Len(wire') /\ i < Len(wire') /\ wire'[i].task = a /\ IsAnswer(i)'
            BY <1>5, <2>2
        <3>2. CASE j = 1
            BY <1>0, <1>6, <2>2, <3>1, <3>2 DEF Ahead
        <3>3. CASE j # 1
            BY <1>7, <2>2, <3>1, <3>3 DEF Ahead
        <3> QED
            BY <3>2, <3>3
    <2>3. ASSUME NEW i \in 1..Len(wire), NEW j \in 1..Len(wire),
                 i < j, IsAnswer(i), IsAnswer(j), wire[i].task = a, wire[j].task = k
          PROVE  Ahead(a, k)'
        BY <1>5, <2>3 DEF Ahead
    <2> QED
        BY <1>9, <2>1, <2>2, <2>3 DEF Ahead
<1> QED
    BY <1>8, <1>9 DEF OrderKept

LEMMA ReceiveKeepsOrder == ASSUME IInv, Receive PROVE OrderKept(Tasks)
<1>0. PICK n \in 1..Len(wire) : Receive!(n)
    BY DEF Receive
<1>1. wire \in Seq(Messages) /\ Len(wire) \in Nat /\ sent' = sent /\ ~IsAnswer(n)
    BY <1>0 DEF IInv, TypeOK, Messages, IsAnswer
<1>2. /\ wire' \in Seq(Messages) /\ Len(wire') = Len(wire) - 1
      /\ \A i \in 1..Len(wire') : wire'[i] = wire[IF i < n THEN i ELSE i + 1]
    BY <1>0, <1>1, TakeOut
<1> DEFINE to(i) == IF i < n THEN i ELSE i - 1
<1>3. ASSUME NEW i \in 1..Len(wire), IsAnswer(i)
      PROVE  to(i) \in 1..Len(wire') /\ wire'[to(i)] = wire[i] /\ IsAnswer(to(i))'
    <2>1. i # n
        BY <1>1, <1>3
    <2>2. CASE i < n
        BY <1>1, <1>2, <1>3, <2>2 DEF IsAnswer
    <2>3. CASE i > n
        <3>1. i - 1 \in 1..Len(wire') /\ ~(i - 1 < n) /\ (i - 1) + 1 = i
            BY <1>1, <1>2, <2>3
        <3>2. wire'[i - 1] = wire[i]
            BY <1>2, <3>1
        <3> QED
            BY <1>1, <1>3, <2>3, <3>1, <3>2 DEF IsAnswer
    <2> QED
        BY <1>1, <2>1, <2>2, <2>3
<1>4. \A i, j \in 1..Len(wire) : i < j /\ i # n /\ j # n => to(i) < to(j)
    BY <1>1
<1>5. \A i \in 1..Len(wire) : IsAnswer(i) => i # n
    BY <1>1
<1> HIDE DEF to
<1>6. \A k \in Tasks : Waits(k) => Waits(k)'
    BY <1>1, <1>3 DEF Waits
<1>7. ASSUME NEW a \in Tasks, NEW k \in Tasks, Ahead(a, k) PROVE Ahead(a, k)'
    <2>1. CASE \E i, j \in 1..Len(sent) : i < j /\ sent[i].task = a /\ sent[j].task = k
        BY <1>1, <2>1 DEF Ahead
    <2>2. ASSUME NEW i \in 1..Len(wire), NEW j \in 1..Len(sent),
                 IsAnswer(i), wire[i].task = a, sent[j].task = k
          PROVE  Ahead(a, k)'
        BY <1>1, <1>3, <2>2 DEF Ahead
    <2>3. ASSUME NEW i \in 1..Len(wire), NEW j \in 1..Len(wire),
                 i < j, IsAnswer(i), IsAnswer(j), wire[i].task = a, wire[j].task = k
          PROVE  Ahead(a, k)'
        <3>1. to(i) < to(j)
            BY <1>4, <1>5, <2>3
        <3>2. to(i) \in 1..Len(wire') /\ wire'[to(i)] = wire[i] /\ IsAnswer(to(i))'
            BY <1>3, <2>3
        <3>3. to(j) \in 1..Len(wire') /\ wire'[to(j)] = wire[j] /\ IsAnswer(to(j))'
            BY <1>3, <2>3
        <3> QED
            BY <2>3, <3>1, <3>2, <3>3 DEF Ahead
    <2> QED
        BY <1>7, <2>1, <2>2, <2>3 DEF Ahead
<1> QED
    BY <1>6, <1>7 DEF OrderKept

\* A connection resumes, perhaps with another call: nobody was ahead of it, and the others
\* keep their order.
LEMMA ResumeKeepsOrder ==
    ASSUME IInv, NEW k \in Tasks, wire # <<>>, Answered.event = "answer", Answered.task = k,
           wire' = Tail(wire), sent' = sent \/ \E m \in CallTo : sent' = Append(sent, m)
    PROVE  OrderKept(Tasks \ {k}) /\ \A a \in Tasks : ~Ahead(a, k)
<1>1. /\ wire[1].task = k /\ IsAnswer(1) /\ 1 \in 1..Len(wire) /\ Len(wire) \in Nat
      /\ Len(wire') = Len(wire) - 1 /\ \A i \in 1..Len(wire') : wire'[i] = wire[i + 1]
    BY Behead DEF IInv, TypeOK, Answered, IsAnswer
<1>2. \A i \in 1..Len(wire) : wire[i].task # k =>
        i - 1 \in 1..Len(wire') /\ wire'[i - 1] = wire[i] /\ IsAnswer(i - 1)' = IsAnswer(i)
    BY <1>1 DEF IsAnswer
<1>3. \A i \in 1..Len(sent) : i \in 1..Len(sent') /\ sent'[i] = sent[i]
    <2>1. sent \in Seq(CallTo)
        BY DEF IInv, TypeOK
    <2> QED
        BY <2>1
<1>4. ASSUME NEW j \in Tasks \ {k}, Waits(j) PROVE Waits(j)'
    <2>1. CASE \E i \in 1..Len(sent) : sent[i].task = j
        BY <1>3, <2>1 DEF Waits
    <2>2. CASE \E i \in 1..Len(wire) : IsAnswer(i) /\ wire[i].task = j
        BY <1>2, <2>2 DEF Waits
    <2> QED
        BY <1>4, <2>1, <2>2 DEF Waits
<1>5. ASSUME NEW a \in Tasks \ {k}, NEW c \in Tasks \ {k}, Ahead(a, c) PROVE Ahead(a, c)'
    <2>1. CASE \E i, j \in 1..Len(sent) : i < j /\ sent[i].task = a /\ sent[j].task = c
        BY <1>3, <2>1 DEF Ahead
    <2>2. ASSUME NEW i \in 1..Len(wire), NEW j \in 1..Len(sent),
                 IsAnswer(i), wire[i].task = a, sent[j].task = c
          PROVE  Ahead(a, c)'
        BY <1>2, <1>3, <2>2 DEF Ahead
    <2>3. ASSUME NEW i \in 1..Len(wire), NEW j \in 1..Len(wire),
                 i < j, IsAnswer(i), IsAnswer(j), wire[i].task = a, wire[j].task = c
          PROVE  Ahead(a, c)'
        <3>1. i - 1 < j - 1
            BY <1>1, <2>3
        <3> QED
            BY <1>2, <2>3, <3>1 DEF Ahead
    <2> QED
        BY <1>5, <2>1, <2>2, <2>3 DEF Ahead
<1>6. ASSUME NEW a \in Tasks, Ahead(a, k) PROVE FALSE
    <2>1. \A j \in 1..Len(sent) : sent[j].task # k
        BY <1>1 DEF IInv, OneCall
    <2>2. \A j \in 1..Len(wire) : IsAnswer(j) /\ wire[j].task = k => j = 1
        BY <1>1 DEF IInv, OneCall
    <2> QED
        BY <1>1, <1>6, <2>1, <2>2 DEF Ahead
<1> QED
    BY <1>4, <1>5, <1>6 DEF OrderKept

\* A connection asks: whoever waits is ahead of it.
LEMMA AskKeepsOrder ==
    ASSUME IInv, NEW k \in Tasks, task[k].pc = "idle", UNCHANGED wire,
           NEW m \in CallTo, sent' = Append(sent, m), m.task = k
    PROVE  OrderKept(Tasks) /\ Waits(k)' /\ \A a \in Tasks : Waits(a) => Ahead(a, k)'
<1>1. sent \in Seq(CallTo) /\ Len(sent) \in Nat
    BY DEF IInv, TypeOK
<1>2. /\ Len(sent') = Len(sent) + 1 /\ Len(sent') \in 1..Len(sent') /\ sent'[Len(sent')].task = k
      /\ \A i \in 1..Len(sent) : i \in 1..Len(sent') /\ i < Len(sent') /\ sent'[i] = sent[i]
    BY <1>1
<1>3. \A i \in 1..Len(wire) : IsAnswer(i)' = IsAnswer(i)
    BY DEF IsAnswer
<1>4. \A j \in Tasks : Waits(j) => Waits(j)'
    BY <1>2, <1>3 DEF Waits
<1>5. \A a, c \in Tasks : Ahead(a, c) => Ahead(a, c)'
    BY <1>2, <1>3 DEF Ahead
<1>6. Waits(k)' /\ \A a \in Tasks : Waits(a) => Ahead(a, k)'
    BY <1>2, <1>3 DEF Waits, Ahead
<1> QED
    BY <1>4, <1>5, <1>6 DEF OrderKept

-----------------------------------------------------------------------------
(* Nothing of an earlier lease is left in the next one.                    *)

\* What acquire does before there is a lease.
Acquiring == {"inventory", "create", "attach"}

NoneLost == \A k \in Tasks : task[k].pc # "idle" => Waits(k)

NotYetLeased == \A c \in Tasks : task[c].pc \in Acquiring => ~Leased

OwnedWithLease == Leased \/ owned = {}

\* The page an agent attaches to is of the lease; or the lease is gone, and the agent will
\* have its session, which nobody uses, before the next acquire hears of anything.
AttachesInLease == \A a \in Tasks : task[a].pc = "attaching" =>
    IF Leased THEN task[a].t \in Family(lease.root)
    ELSE \A c \in Tasks : task[c].pc \in Acquiring => Ahead(a, c)

SInv == NoneLost /\ NotYetLeased /\ OwnedWithLease /\ AttachesInLease /\ SessionsOfLease

LEMMA LeaseFamilyGrows ==
    ASSUME UNCHANGED lease, born \subseteq born', \A x \in born : opener'[x] = opener[x]
    PROVE  Family(lease.root) \subseteq Family(lease.root)'
<1>1. PICK r : r = lease.root
    OBVIOUS
<1>2. Family(r) \subseteq Family(r)'
    BY FamilyGrows
<1>3. Family(lease.root)' = Family(r)'
    BY <1>1 DEF Family, Tree
<1> QED
    BY <1>1, <1>2, <1>3

LEMMA SameLeaseFamily ==
    ASSUME UNCHANGED <<browserVars, lease>>
    PROVE  Family(lease.root)' = Family(lease.root)
BY DEF Family, Tree, browserVars

\* The world around the daemon moves.
LEMMA WorldKeepsLease ==
    ASSUME SInv, UNCHANGED <<ownVars, leaseVars, task>>, OrderKept(Tasks),
           born \subseteq born', \A x \in born : opener'[x] = opener[x]
    PROVE  SInv'
<1>1. Family(lease.root) \subseteq Family(lease.root)' /\ Leased' = Leased
    BY LeaseFamilyGrows DEF leaseVars, Leased
<1>2. NoneLost'
    BY DEF SInv, NoneLost, OrderKept
<1>3. NotYetLeased' /\ OwnedWithLease'
    BY <1>1 DEF SInv, NotYetLeased, OwnedWithLease, ownVars
<1>4. AttachesInLease'
    BY <1>1 DEF SInv, AttachesInLease, OrderKept
<1>5. SessionsOfLease'
    BY <1>1 DEF SInv, SessionsOfLease, ownVars, leaseVars
<1> QED
    BY <1>2, <1>3, <1>4, <1>5 DEF SInv

LEMMA ReceiveKeepsLease == ASSUME IInv, SInv, Receive PROVE SInv'
<1>0. PICK n \in 1..Len(wire) : Receive!(n)
    BY DEF Receive
<1>1. UNCHANGED <<browserVars, lease, task>>
    BY <1>0
<1>2. Family(lease.root)' = Family(lease.root) /\ Leased' = Leased /\ OrderKept(Tasks)
    BY <1>1, SameLeaseFamily, ReceiveKeepsOrder DEF Leased
<1> DEFINE t == wire[n].t
<1>3. t \in born
    BY <1>0 DEF IInv, WireIsReal, IsAnswer
<1>4. /\ owned' \subseteq owned \cup {t} /\ sessions' \subseteq sessions
      /\ t \in owned' \ owned => opener[t] \in owned
    <2>1. CASE wire[n].event = "created"
        BY <1>0, <2>1
    <2>2. CASE wire[n].event # "created"
        BY <1>0, <2>2 DEF ownVars
    <2> QED
        BY <2>1, <2>2
<1> HIDE DEF t
<1>5. owned = {} => owned' = {}
    BY <1>4
<1>6. Leased => sessions' \cup owned' \subseteq Family(lease.root)
    BY <1>3, <1>4, TreeClosed DEF SInv, SessionsOfLease, Family
<1>7. NoneLost'
    BY <1>1, <1>2 DEF SInv, NoneLost, OrderKept
<1>8. NotYetLeased' /\ OwnedWithLease'
    BY <1>1, <1>2, <1>5 DEF SInv, NotYetLeased, OwnedWithLease
<1>9. AttachesInLease'
    BY <1>1, <1>2 DEF SInv, AttachesInLease, OrderKept
<1>10. SessionsOfLease'
    BY <1>2, <1>6 DEF SessionsOfLease
<1> QED
    BY <1>7, <1>8, <1>9, <1>10 DEF SInv

\* A connection makes its first call: an acquire is behind every agent that waits.
LEMMA AskKeepsLease ==
    ASSUME IInv, SInv, NEW k \in Tasks, task[k].pc = "idle",
           UNCHANGED <<browserVars, wire, ownVars, leaseVars>>,
           NEW op \in Ops, NEW t \in Place, Call(k, op, t),
           NEW v \in TaskState, task' = [task EXCEPT ![k] = v],
           v.pc # "attaching", v.pc \in Acquiring => ~Leased
    PROVE  SInv'
<1> DEFINE m == [task |-> k, op |-> op, t |-> t]
<1>1. m \in CallTo /\ m.task = k /\ sent' = Append(sent, m)
    BY DEF CallTo, Call
<1> HIDE DEF m
<1>2. OrderKept(Tasks) /\ Waits(k)' /\ \A a \in Tasks : Waits(a) => Ahead(a, k)'
    BY <1>1, AskKeepsOrder
<1>3. task'[k] = v /\ \A j \in Tasks \ {k} : task'[j] = task[j]
    BY DEF IInv, TypeOK
<1>4. Family(lease.root)' = Family(lease.root) /\ Leased' = Leased
    BY SameLeaseFamily DEF leaseVars, Leased
<1>5. NoneLost'
    BY <1>2, <1>3 DEF SInv, NoneLost, OrderKept
<1>6. NotYetLeased' /\ OwnedWithLease'
    BY <1>3, <1>4 DEF SInv, NotYetLeased, OwnedWithLease, ownVars
<1>7. AttachesInLease'
    <2> SUFFICES ASSUME NEW a \in Tasks, task'[a].pc = "attaching"
                 PROVE  IF Leased THEN task'[a].t \in Family(lease.root)
                        ELSE \A c \in Tasks : task'[c].pc \in Acquiring => Ahead(a, c)'
        BY <1>4 DEF AttachesInLease
    <2>1. a # k /\ task'[a] = task[a] /\ Waits(a)
        BY <1>3 DEF SInv, NoneLost
    <2> QED
        BY <1>2, <1>3, <2>1 DEF SInv, AttachesInLease, OrderKept
<1>8. SessionsOfLease'
    BY <1>4 DEF SInv, SessionsOfLease, ownVars, leaseVars
<1> QED
    BY <1>5, <1>6, <1>7, <1>8 DEF SInv

\* A connection goes on with its answer. Only the holder of the lock sets or drops the
\* lease; and when an acquire goes on, no agent is ahead of it any more.
LEMMA ResumeKeepsLease ==
    ASSUME IInv, SInv, NEW k \in Tasks, NEW pc, Resumes(k, pc), UNCHANGED browserVars,
           NEW v \in TaskState, task' = [task EXCEPT ![k] = v],
           \/ sent' = sent /\ v.pc = "idle"
           \/ \E op \in Ops, t \in Place : Call(k, op, t),
           \/ lease' = lease
           \/ lock = k /\ ~Leased' /\ v.pc \notin Acquiring
           \/ pc = "attach" /\ v.pc \notin Acquiring,
           v.pc \in Acquiring => pc \in Acquiring,
           v.pc = "attaching" => Leased' /\ v.t \in Family(lease.root)',
           Leased' \/ owned' = {}, SessionsOfLease'
    PROVE  SInv'
<1>1. /\ wire # <<>> /\ Answered.event = "answer" /\ Answered.task = k /\ wire' = Tail(wire)
      /\ task[k].pc = pc
    BY DEF Resumes
<1>2. \/ sent' = sent /\ v.pc = "idle"
      \/ \E m \in CallTo : sent' = Append(sent, m) /\ m.task = k
    <2> SUFFICES ASSUME NEW op \in Ops, NEW t \in Place, Call(k, op, t)
                 PROVE  \E m \in CallTo : sent' = Append(sent, m) /\ m.task = k
        OBVIOUS
    <2> DEFINE m == [task |-> k, op |-> op, t |-> t]
    <2>1. m \in CallTo /\ m.task = k /\ sent' = Append(sent, m)
        BY DEF Call, CallTo
    <2> QED
        BY <2>1
<1>3. OrderKept(Tasks \ {k}) /\ \A a \in Tasks : ~Ahead(a, k)
    BY <1>1, <1>2, ResumeKeepsOrder
<1>4. task'[k] = v /\ \A j \in Tasks \ {k} : task'[j] = task[j]
    BY DEF IInv, TypeOK
<1>5. NoneLost'
    <2>1. v.pc # "idle" => Waits(k)'
        <3> SUFFICES ASSUME NEW m \in CallTo, sent' = Append(sent, m), m.task = k PROVE Waits(k)'
            BY <1>2
        <3>1. sent \in Seq(CallTo)
            BY DEF IInv, TypeOK
        <3>2. Len(sent') \in 1..Len(sent') /\ sent'[Len(sent')] = m
            BY <3>1
        <3> QED
            BY <3>2 DEF Waits
    <2> QED
        BY <1>3, <1>4, <2>1 DEF SInv, NoneLost, OrderKept
<1>6. NotYetLeased'
    <2> SUFFICES ASSUME NEW c \in Tasks, task'[c].pc \in Acquiring PROVE ~Leased'
        BY DEF NotYetLeased
    <2>1. task[c].pc \in Acquiring
        BY <1>1, <1>4
    <2>2. ~Leased /\ task[c].pc \in InLock /\ lock = c
        BY <2>1 DEF SInv, NotYetLeased, Acquiring, InLock, IInv, LockHeld
    <2>3. pc = "attach" => c = k
        BY <1>1, <2>2 DEF IInv, LockHeld, InLock
    <2>4. CASE lease' = lease
        BY <2>2, <2>4 DEF Leased
    <2> QED
        BY <1>4, <2>3, <2>4
<1>7. AttachesInLease'
    <2> SUFFICES ASSUME NEW a \in Tasks, task'[a].pc = "attaching"
                 PROVE  IF Leased' THEN task'[a].t \in Family(lease.root)'
                        ELSE \A c \in Tasks : task'[c].pc \in Acquiring => Ahead(a, c)'
        BY DEF AttachesInLease
    <2>1. CASE a = k
        BY <1>4, <2>1
    <2>2. CASE a # k /\ lease' = lease
        <3>1. Family(lease.root)' = Family(lease.root) /\ Leased' = Leased /\ task'[a] = task[a]
            BY <1>4, <2>2, SameLeaseFamily DEF Leased
        <3>2. \A c \in Tasks \ {k} : Ahead(a, c) => Ahead(a, c)'
            BY <1>3, <2>2 DEF OrderKept
        <3>3. pc \in Acquiring => Leased
            BY <1>1, <1>3, <2>2, <3>1 DEF SInv, AttachesInLease
        <3> QED
            BY <1>4, <3>1, <3>2, <3>3 DEF SInv, AttachesInLease
    <2>3. CASE a # k /\ lock = k /\ ~Leased' /\ v.pc \notin Acquiring
        <3>1. \A c \in Tasks \ {k} : task'[c].pc \notin Acquiring
            BY <1>4, <2>3 DEF IInv, LockHeld, InLock, Acquiring
        <3> QED
            BY <1>4, <2>3, <3>1
    <2>4. CASE a # k /\ pc = "attach"
        <3>1. task[a].pc = "attaching" /\ task[k].pc \in Acquiring
            BY <1>1, <1>4, <2>4 DEF Acquiring
        <3>2. ~Leased
            BY <3>1 DEF SInv, NotYetLeased
        <3> QED
            BY <1>3, <3>1, <3>2 DEF SInv, AttachesInLease
    <2> QED
        BY <2>1, <2>2, <2>3, <2>4
<1> QED
    BY <1>5, <1>6, <1>7 DEF SInv, OwnedWithLease

\* The daemon's lists after it looked at its answer, while the lease stays.
LEMMA ListsOfLease ==
    ASSUME IInv, SInv, NEW k \in Tasks, NEW pc, Resumes(k, pc), UNCHANGED <<browserVars, lease>>,
           Refresh(Answered.live) \/ UNCHANGED ownVars \/ (~Leased /\ owned' = {})
    PROVE  /\ Leased' = Leased /\ Family(lease.root)' = Family(lease.root)
           /\ Leased' \/ owned' = {}
           /\ Leased => owned' \subseteq Family(lease.root)
<1>1. Leased' = Leased /\ Family(lease.root)' = Family(lease.root)
    BY SameLeaseFamily DEF Leased
<1>2. Answered.live \subseteq born
    BY Brought
<1>3. Tree(lease.root, Answered.live) \subseteq Family(lease.root)
    BY <1>2, TreeGrows DEF Family
<1>4. Leased' \/ owned' = {}
    BY <1>1 DEF SInv, OwnedWithLease, Refresh, ownVars
<1>5. Leased => owned' \subseteq Family(lease.root)
    BY <1>3 DEF SInv, SessionsOfLease, Refresh, ownVars
<1> QED
    BY <1>1, <1>4, <1>5

LEMMA EndKeepsLease ==
    ASSUME IInv, SInv, NEW k \in Tasks, NEW pc, Resumes(k, pc), Done(k),
           UNCHANGED <<browserVars, sent, lease>>,
           Refresh(Answered.live) \/ UNCHANGED ownVars \/ (~Leased /\ owned' = {}),
           Leased => sessions' \subseteq Family(lease.root)
    PROVE  SInv'
<1>1. Idle \in TaskState /\ Idle.pc = "idle" /\ task' = [task EXCEPT ![k] = Idle]
    BY IdleTyped DEF Idle, Done
<1>2. SessionsOfLease' /\ (Leased' \/ owned' = {})
    BY ListsOfLease DEF SessionsOfLease
<1> HIDE DEF Idle
<1>3. Idle.pc \notin Acquiring /\ Idle.pc # "attaching"
    BY <1>1 DEF Acquiring
<1> QED
    BY <1>1, <1>2, <1>3, ResumeKeepsLease

LEMMA SessionsKept == ASSUME SInv, sessions' = sessions PROVE Leased => sessions' \subseteq Family(lease.root)
BY DEF SInv, SessionsOfLease

\* Acquire goes on to its next call, with nothing leased.
LEMMA AcquireGoesOn ==
    ASSUME IInv, SInv, NEW c \in Controls, NEW pc \in Acquiring, Resumes(c, pc), NEW npc \in InLock,
           UNCHANGED <<browserVars, ownVars, lease, sessions>>, NEW op \in Ops, NEW t \in Place,
           Call(c, op, t), NEW v \in TaskState, task' = [task EXCEPT ![c] = v], v.pc = npc
    PROVE  SInv'
<1>1. c \in Tasks /\ npc # "attaching"
    BY DEF Tasks, InLock
<1>2. SessionsOfLease' /\ (Leased' \/ owned' = {})
    BY <1>1, ListsOfLease, SessionsKept DEF SessionsOfLease
<1> QED
    BY <1>1, <1>2, ResumeKeepsLease

LEMMA RootChosenLease == ASSUME IInv, SInv, NEW c \in Controls, RootChosen(c) PROVE SInv'
<1>1. Resumes(c, "inventory") /\ UNCHANGED <<browserVars, ownVars, lease, sessions>>
    BY DEF RootChosen, leaseVars
<1>2. c \in Tasks /\ "inventory" \in Acquiring /\ {"attach", "create"} \subseteq InLock \cap Ops
      /\ NoTarget \in Place
    BY DEF Tasks, Acquiring, InLock, Ops, Place
<1>3. task[c] \in TaskState /\ Answered.marked \subseteq Targets
    BY <1>1, <1>2, Brought
<1>4. CASE Done(c) /\ UNCHANGED sent
    BY <1>1, <1>2, <1>4, SessionsKept, EndKeepsLease
<1>5. ASSUME NEW t \in Answered.marked, Call(c, "attach", t),
             task' = [task EXCEPT ![c].pc = "attach", ![c].t = t]
      PROVE  SInv'
    <2> DEFINE v == [task[c] EXCEPT !.pc = "attach", !.t = t]
    <2>1. v \in TaskState /\ v.pc = "attach" /\ t \in Place
        BY <1>3 DEF TaskState, Stages, InLock, Place
    <2>2. task' = [task EXCEPT ![c] = v]
        BY <1>5, <1>2 DEF IInv, TypeOK, TaskState
    <2> HIDE DEF v
    <2> QED
        BY <1>1, <1>2, <1>5, <2>1, <2>2, AcquireGoesOn
<1>6. CASE Await(c, "create") /\ Call(c, "create", NoTarget)
    <2> DEFINE v == [task[c] EXCEPT !.pc = "create"]
    <2>1. v \in TaskState /\ v.pc = "create"
        BY <1>3 DEF TaskState, Stages, InLock
    <2>2. task' = [task EXCEPT ![c] = v]
        BY <1>6, <1>2 DEF IInv, TypeOK, TaskState, Await
    <2> HIDE DEF v
    <2> QED
        BY <1>1, <1>2, <1>6, <2>1, <2>2, AcquireGoesOn
<1> QED
    BY <1>4, <1>5, <1>6 DEF RootChosen

LEMMA RootCreatedLease == ASSUME IInv, SInv, NEW c \in Controls, RootCreated(c) PROVE SInv'
<1>1. Resumes(c, "create") /\ UNCHANGED <<browserVars, ownVars, lease, sessions>>
    BY DEF RootCreated
<1>2. c \in Tasks /\ "create" \in Acquiring /\ "attach" \in InLock \cap Ops
    BY DEF Tasks, Acquiring, InLock, Ops
<1>3. task[c] \in TaskState /\ Answered.t \in Place
    BY <1>1, <1>2, Brought DEF AnswerTo
<1>4. CASE Answered.ok
    <2> DEFINE t == Answered.t
               v == [task[c] EXCEPT !.pc = "attach", !.t = t, !.todo = {t}]
    <2>1. Call(c, "attach", t) /\ task' = [task EXCEPT ![c].pc = "attach", ![c].t = t, ![c].todo = {t}]
        BY <1>4 DEF RootCreated
    <2> HIDE DEF t
    <2>2. v \in TaskState /\ v.pc = "attach" /\ t \in Place
        BY <1>3 DEF TaskState, Stages, InLock, t
    <2>3. task' = [task EXCEPT ![c] = v]
        BY <1>2, <2>1 DEF IInv, TypeOK, TaskState
    <2> HIDE DEF v
    <2> QED
        BY <1>1, <1>2, <2>1, <2>2, <2>3, AcquireGoesOn
<1>5. CASE ~Answered.ok
    BY <1>1, <1>2, <1>5, SessionsKept, EndKeepsLease DEF RootCreated
<1> QED
    BY <1>4, <1>5

LEMMA RootAttachedLease == ASSUME IInv, SInv, NEW c \in Controls, RootAttached(c) PROVE SInv'
<1>1. Resumes(c, "attach") /\ UNCHANGED <<browserVars, ownVars>>
    BY DEF RootAttached
<1>2. c \in Tasks /\ "attach" \in Acquiring /\ {"attach", "adopt", "undo"} \subseteq InLock
      /\ {"close", "targets"} \subseteq Ops /\ NoTarget \in Place
    BY DEF Tasks, Acquiring, InLock, Ops, Place
<1>3. task[c] \in TaskState /\ task[c].t \in Place /\ task[c].pc = "attach"
    BY <1>1, <1>2, Brought DEF TaskState
<1>4. CASE Answered.ok
    <2> DEFINE t == task[c].t
               v == [task[c] EXCEPT !.pc = "adopt"]
    <2>1. /\ lease' = [root |-> t, req |-> task[c].req] /\ sessions' = {t}
          /\ Call(c, "targets", NoTarget) /\ Await(c, "adopt")
        BY <1>4 DEF RootAttached
    <2>2. v \in TaskState /\ v.pc = "adopt"
        BY <1>3 DEF TaskState, Stages, InLock
    <2>3. task' = [task EXCEPT ![c] = v]
        BY <1>2, <2>1 DEF IInv, TypeOK, TaskState, Await
    <2>4. ~Leased /\ owned' = {}
        BY <1>1, <1>2, <1>3 DEF SInv, NotYetLeased, OwnedWithLease, ownVars
    <2>5. SessionsOfLease'
        BY <2>1, <2>4, RootOfTree DEF SessionsOfLease, Family, Tree
    <2> HIDE DEF v
    <2>6. v.pc \notin Acquiring /\ v.pc # "attaching"
        BY <2>2 DEF Acquiring
    <2> QED
        BY <1>1, <1>2, <2>1, <2>2, <2>3, <2>4, <2>5, <2>6, ResumeKeepsLease
<1>5. CASE ~Answered.ok /\ task[c].todo = {}
    BY <1>1, <1>2, <1>5, SessionsKept, EndKeepsLease DEF RootAttached, AttachFailed, leaseVars
<1>6. CASE ~Answered.ok /\ task[c].todo # {}
    <2> DEFINE v == [task[c] EXCEPT !.pc = "undo"]
    <2>1. UNCHANGED leaseVars /\ Call(c, "close", task[c].t) /\ Await(c, "undo")
        BY <1>6 DEF RootAttached, AttachFailed
    <2>2. v \in TaskState /\ v.pc = "undo"
        BY <1>3 DEF TaskState, Stages, InLock
    <2>3. task' = [task EXCEPT ![c] = v]
        BY <1>2, <2>1 DEF IInv, TypeOK, TaskState, Await
    <2> HIDE DEF v
    <2> QED
        BY <1>1, <1>2, <1>3, <2>1, <2>2, <2>3, AcquireGoesOn DEF leaseVars
<1> QED
    BY <1>4, <1>5, <1>6

\* The lease is dropped by the holder of the lock.
LEMMA DroppedLease ==
    ASSUME IInv, SInv, NEW c \in Controls, NEW pc \in InLock, Resumes(c, pc), LeaseDropped, Done(c),
           UNCHANGED <<browserVars, sent>>
    PROVE  SInv'
<1>1. c \in Tasks /\ lock = c
    BY DEF Tasks, Resumes, IInv, LockHeld
<1>2. Idle \in TaskState /\ Idle.pc = "idle" /\ task' = [task EXCEPT ![c] = Idle]
    BY IdleTyped DEF Idle, Done
<1>3. ~Leased' /\ owned' = {} /\ SessionsOfLease'
    BY DEF LeaseDropped, Leased, SessionsOfLease
<1> HIDE DEF Idle
<1>4. Idle.pc \notin Acquiring /\ Idle.pc # "attaching"
    BY <1>2 DEF Acquiring
<1> QED
    BY <1>1, <1>2, <1>3, <1>4, ResumeKeepsLease

\* Release goes on to close the next page.
LEMMA CloseKeepsLease ==
    ASSUME IInv, SInv, NEW c \in Controls, NEW pc \in {"release", "close"}, Resumes(c, pc),
           UNCHANGED <<browserVars, lease, sessions>>, Refresh(Answered.live) \/ UNCHANGED ownVars,
           NEW t \in Place, Call(c, "close", t),
           NEW v \in TaskState, task' = [task EXCEPT ![c] = v], v.pc = "close"
    PROVE  SInv'
<1>1. c \in Tasks /\ "close" \in Ops /\ v.pc \notin Acquiring /\ v.pc # "attaching"
    BY DEF Tasks, Ops, Acquiring
<1>2. SessionsOfLease' /\ (Leased' \/ owned' = {})
    BY <1>1, ListsOfLease, SessionsKept DEF SessionsOfLease
<1> QED
    BY <1>1, <1>2, ResumeKeepsLease

LEMMA TreeListedLease == ASSUME IInv, SInv, NEW c \in Controls, TreeListed(c) PROVE SInv'
<1>1. Resumes(c, "release") /\ UNCHANGED browserVars /\ c \in Tasks /\ "release" \in InLock
    BY DEF TreeListed, Tasks, InLock
<1>2. task[c] \in TaskState /\ Answered.live \subseteq born /\ (task[c].pc = "release" => Leased)
      /\ task[c].pc = "release"
    BY <1>1, Brought DEF IInv, LockHeld
<1>3. lease.root \in Place /\ Known(c) \subseteq Place /\ Answered.live \subseteq Place
      /\ task[c].todo \subseteq Place
    BY <1>2 DEF IInv, TypeOK, LeaseIsRoot, Known, Place, TaskState
<1>4. ToClose(c) \subseteq Place
    BY <1>3 DEF ToClose
<1>5. CASE ToClose(c) = {}
    BY <1>1, <1>5, DroppedLease DEF TreeListed
<1>6. CASE ToClose(c) # {}
    <2>1. PICK t \in Deepest(ToClose(c), Known(c)) :
            /\ task' = [task EXCEPT ![c].pc = "close", ![c].t = t,
                          ![c].known = Known(c), ![c].todo = ToClose(c)]
            /\ Call(c, "close", t)
            /\ Refresh(Answered.live) \/ UNCHANGED ownVars
            /\ UNCHANGED <<lease, sessions>>
        BY <1>6 DEF TreeListed
    <2>2. t \in Place
        BY <1>4 DEF Deepest
    <2> DEFINE v == [task[c] EXCEPT !.pc = "close", !.t = t, !.known = Known(c), !.todo = ToClose(c)]
    <2>3. v \in TaskState /\ v.pc = "close"
        BY <1>2, <1>3, <1>4, <2>2 DEF TaskState, Stages, InLock
    <2>4. task' = [task EXCEPT ![c] = v]
        BY <1>1, <2>1 DEF IInv, TypeOK, TaskState
    <2> HIDE DEF v
    <2> QED
        BY <1>1, <2>1, <2>2, <2>3, <2>4, CloseKeepsLease
<1> QED
    BY <1>5, <1>6

LEMMA TargetClosedLease == ASSUME IInv, SInv, NEW c \in Controls, TargetClosed(c) PROVE SInv'
<1>1. Resumes(c, "close") /\ UNCHANGED browserVars /\ c \in Tasks /\ "close" \in InLock
    BY DEF TargetClosed, Tasks, InLock
<1>2. task[c] \in TaskState /\ task[c].pc = "close" /\ Rest(c) \subseteq Place
    BY <1>1, Brought DEF Rest, TaskState
<1>3. CASE Rest(c) = {}
    BY <1>1, <1>3, DroppedLease DEF TargetClosed
<1>4. CASE Rest(c) # {}
    <2>1. PICK t \in Deepest(Rest(c), task[c].known) :
            /\ task' = [task EXCEPT ![c].t = t, ![c].todo = Rest(c)]
            /\ Call(c, "close", t)
            /\ UNCHANGED <<ownVars, lease, sessions>>
        BY <1>4 DEF TargetClosed
    <2>2. t \in Place
        BY <1>2 DEF Deepest
    <2> DEFINE v == [task[c] EXCEPT !.t = t, !.todo = Rest(c)]
    <2>3. v \in TaskState /\ v.pc = "close"
        BY <1>2, <2>2 DEF TaskState
    <2>4. task' = [task EXCEPT ![c] = v]
        BY <1>1, <2>1 DEF IInv, TypeOK, TaskState
    <2> HIDE DEF v
    <2> QED
        BY <1>1, <2>1, <2>2, <2>3, <2>4, CloseKeepsLease
<1> QED
    BY <1>3, <1>4

LEMMA ControlEndsLease ==
    ASSUME IInv, SInv, NEW c \in Controls,
           Reacquired(c) \/ RootAdopted(c) \/ RootUndone(c) \/ StatusTold(c)
    PROVE  SInv'
<1>1. \E pc : Resumes(c, pc)
    BY DEF Reacquired, RootAdopted, RootUndone, StatusTold
<1>2. /\ Done(c) /\ UNCHANGED <<browserVars, sent, lease, sessions>> /\ c \in Tasks
      /\ Refresh(Answered.live) \/ UNCHANGED ownVars
    BY DEF Reacquired, RootAdopted, RootUndone, StatusTold, leaseVars, Tasks
<1> QED
    BY <1>1, <1>2, SessionsKept, EndKeepsLease

LEMMA AgentListsLease ==
    ASSUME IInv, SInv, NEW a \in Agents, AgentLists(a) \/ AgentCommanded(a) PROVE SInv'
<1>1. \E pc : Resumes(a, pc)
    BY DEF AgentLists, AgentCommanded
<1>2. /\ Done(a) /\ UNCHANGED <<browserVars, sent, lease, sessions>> /\ a \in Tasks
      /\ Refresh(Answered.live) \/ UNCHANGED ownVars \/ (~Leased /\ owned' = {})
    BY DEF AgentLists, AgentCommanded, leaseVars, Tasks
<1> QED
    BY <1>1, <1>2, SessionsKept, EndKeepsLease

LEMMA AgentMayAttachLease == ASSUME IInv, SInv, NEW a \in Agents, AgentMayAttach(a) PROVE SInv'
<1>1. /\ Resumes(a, "may attach") /\ UNCHANGED <<browserVars, lease, sessions>> /\ a \in Tasks
      /\ Refresh(Answered.live) \/ UNCHANGED ownVars
    BY DEF AgentMayAttach, leaseVars, Tasks
<1>2. task[a] \in TaskState /\ task[a].t \in Place /\ Answered.live \subseteq born
    BY <1>1, Brought DEF TaskState
<1>3. CASE IsOwned(task[a].t) /\ Await(a, "attaching") /\ Call(a, "attach", task[a].t)
    <2> DEFINE v == [task[a] EXCEPT !.pc = "attaching"]
    <2>1. v \in TaskState /\ v.pc = "attaching" /\ v.t = task[a].t
        BY <1>2 DEF TaskState, Stages
    <2>2. task' = [task EXCEPT ![a] = v]
        BY <1>1, <1>3 DEF IInv, TypeOK, TaskState, Await
    <2> HIDE DEF v
    <2>3. Leased /\ v.t \in Family(lease.root)
        BY <1>2, <1>3, <2>1, TreeGrows DEF IsOwned, Family
    <2>4. SessionsOfLease' /\ (Leased' \/ owned' = {}) /\ Leased' /\ v.t \in Family(lease.root)'
        BY <1>1, <2>3, ListsOfLease, SessionsKept DEF SessionsOfLease
    <2>5. "attach" \in Ops /\ v.pc \notin Acquiring
        BY <2>1 DEF Ops, Acquiring
    <2> QED
        BY <1>1, <1>2, <1>3, <2>1, <2>2, <2>4, <2>5, ResumeKeepsLease
<1>4. CASE Done(a) /\ UNCHANGED sent
    BY <1>1, <1>4, SessionsKept, EndKeepsLease
<1> QED
    BY <1>3, <1>4 DEF AgentMayAttach

\* The session that is recorded without a look at the lease is of the lease.
LEMMA AgentAttachedLease == ASSUME IInv, SInv, NEW a \in Agents, AgentAttached(a) PROVE SInv'
<1>1. /\ Resumes(a, "attaching") /\ Done(a) /\ UNCHANGED <<browserVars, sent, ownVars, lease>>
      /\ sessions' \subseteq sessions \cup {task[a].t} /\ a \in Tasks
    BY DEF AgentAttached, Tasks
<1>2. Leased => task[a].t \in Family(lease.root) /\ sessions \subseteq Family(lease.root)
    BY <1>1 DEF SInv, AttachesInLease, SessionsOfLease, Resumes
<1> QED
    BY <1>1, <1>2, EndKeepsLease

LEMMA AgentSelectsLease == ASSUME IInv, SInv, NEW a \in Agents, AgentSelects(a) PROVE SInv'
<1>1. /\ Resumes(a, "may select") /\ Done(a) /\ UNCHANGED <<browserVars, sent, lease>> /\ a \in Tasks
      /\ Refresh(Answered.live) \/ UNCHANGED ownVars
      /\ sessions' = sessions \/ (IsOwned(task[a].t) /\ sessions' = sessions \cup {task[a].t})
    BY DEF AgentSelects, Tasks
<1>2. Answered.live \subseteq born
    BY <1>1, Brought
<1>3. IsOwned(task[a].t) => task[a].t \in Family(lease.root)
    BY <1>2, TreeGrows DEF IsOwned, Family
<1>4. Leased => sessions' \subseteq Family(lease.root)
    BY <1>1, <1>3 DEF SInv, SessionsOfLease
<1> QED
    BY <1>1, <1>4, EndKeepsLease

LEMMA AsksLease ==
    ASSUME IInv, SInv,
           \/ \E c \in Controls : \/ \E q \in Requests : AcquireRoot(c, q)
                                  \/ ReleaseRoot(c)
                                  \/ \E pc \in Probes : AskStatus(c, pc)
           \/ \E a \in Agents, t \in Targets \cup {NoTarget} :
                \/ \E pc \in {"list", "may attach", "may select"} : AgentAsks(a, pc, t)
                \/ AgentCommands(a, t)
    PROVE  SInv'
<1>1. "targets" \in Ops /\ "command" \in Ops /\ NoTarget \in Place /\ Controls \cup Agents = Tasks
      /\ Targets \cup {NoTarget} = Place
    BY DEF Ops, Place, Tasks
<1>2. ASSUME NEW c \in Controls, NEW q \in Requests, AcquireRoot(c, q) PROVE SInv'
    <2> DEFINE v == [Idle EXCEPT !.pc = IF Leased THEN "reacquire" ELSE "inventory", !.req = q]
    <2>1. v \in TaskState /\ v.pc = IF Leased THEN "reacquire" ELSE "inventory"
        BY IdleTyped DEF Idle, TaskState, Stages, InLock
    <2>2. task' = [task EXCEPT ![c] = v] /\ task[c].pc = "idle" /\ Call(c, "targets", NoTarget)
          /\ UNCHANGED <<browserVars, wire, ownVars, leaseVars>>
        BY <1>2 DEF AcquireRoot
    <2> HIDE DEF v
    <2>3. v.pc # "attaching" /\ (v.pc \in Acquiring => ~Leased)
        BY <2>1 DEF Acquiring
    <2> QED
        BY <1>1, <2>1, <2>2, <2>3, AskKeepsLease
<1>3. ASSUME NEW c \in Controls, ReleaseRoot(c) PROVE SInv'
    <2> DEFINE v == [Idle EXCEPT !.pc = "release", !.known = infos, !.todo = owned]
    <2>1. v \in TaskState /\ v.pc = "release"
        BY IdleTyped DEF Idle, TaskState, Stages, InLock, IInv, TypeOK
    <2>2. task' = [task EXCEPT ![c] = v] /\ task[c].pc = "idle" /\ Call(c, "targets", NoTarget)
          /\ UNCHANGED <<browserVars, wire, ownVars, leaseVars>>
        BY <1>3 DEF ReleaseRoot
    <2> HIDE DEF v
    <2>3. v.pc # "attaching" /\ v.pc \notin Acquiring
        BY <2>1 DEF Acquiring
    <2> QED
        BY <1>1, <2>1, <2>2, <2>3, AskKeepsLease
<1>4. ASSUME NEW c \in Controls, NEW pc \in Probes, AskStatus(c, pc) PROVE SInv'
    <2> DEFINE v == [Idle EXCEPT !.pc = pc]
    <2>1. pc \in {"status", "health"}
        BY LeaseAssumption
    <2>2. v \in TaskState /\ v.pc = pc
        BY <2>1, IdleTyped DEF Idle, TaskState, Stages
    <2>3. task' = [task EXCEPT ![c] = v] /\ task[c].pc = "idle" /\ Call(c, "targets", NoTarget)
          /\ UNCHANGED <<browserVars, wire, ownVars, leaseVars>>
        BY <1>4 DEF AskStatus
    <2> HIDE DEF v
    <2>4. v.pc # "attaching" /\ v.pc \notin Acquiring
        BY <2>1, <2>2 DEF Acquiring
    <2> QED
        BY <1>1, <2>2, <2>3, <2>4, AskKeepsLease
<1>5. ASSUME NEW a \in Agents, NEW t \in Targets \cup {NoTarget},
             \/ \E pc \in {"list", "may attach", "may select"} : AgentAsks(a, pc, t)
             \/ AgentCommands(a, t)
      PROVE  SInv'
    <2>1. PICK pc \in {"list", "may attach", "may select", "command"} :
            /\ task[a].pc = "idle" /\ task' = [task EXCEPT ![a] = [Idle EXCEPT !.pc = pc, !.t = t]]
            /\ Call(a, "targets", NoTarget) \/ Call(a, "command", t)
            /\ UNCHANGED <<browserVars, wire, ownVars, leaseVars>>
        BY <1>5 DEF AgentAsks, AgentCommands
    <2> DEFINE v == [Idle EXCEPT !.pc = pc, !.t = t]
    <2>2. v \in TaskState /\ v.pc = pc
        BY IdleTyped DEF Idle, TaskState, Stages, Place
    <2>3. task' = [task EXCEPT ![a] = v]
        BY <2>1
    <2> HIDE DEF v
    <2>4. v.pc # "attaching" /\ v.pc \notin Acquiring
        BY <2>2 DEF Acquiring
    <2> QED
        BY <1>1, <2>1, <2>2, <2>3, <2>4, AskKeepsLease
<1> QED
    BY <1>2, <1>3, <1>4, <1>5

\* What the browser and its pages do leaves the daemon alone, and no call overtakes another.
WorldMoves ==
    /\ UNCHANGED <<ownVars, leaseVars, lock, task>> /\ OrderKept(Tasks)
    /\ born \subseteq born' /\ \A x \in born : opener'[x] = opener[x]

LEMMA OnlyWorldMoves ==
    ASSUME IInv, \/ \E o, t \in Targets : PageOpens(o, t)
                 \/ \E t \in Targets : PageCloses(t)
                 \/ BrowserAnswers
    PROVE  WorldMoves
<1> USE DEF WorldMoves
<1>1. TypeOK /\ born \subseteq Targets /\ live \subseteq born
    BY DEF IInv, TypeOK
<1>2. ASSUME NEW o \in Targets, NEW t \in Targets, PageOpens(o, t) PROVE WorldMoves
    <2>1. Told(wire')
        BY <1>1, <1>2, EventTold DEF PageOpens
    <2>2. \A x \in born : opener'[x] = opener[x]
        BY <1>1, <1>2 DEF PageOpens, TypeOK
    <2> QED
        BY <1>2, <2>1, <2>2, EventKeepsOrder DEF PageOpens
<1>3. ASSUME NEW t \in Targets, PageCloses(t) PROVE WorldMoves
    <2>1. Told(wire')
        BY <1>1, <1>3, EventTold DEF PageCloses
    <2> QED
        BY <1>3, <2>1, EventKeepsOrder DEF PageCloses
<1>4. CASE BrowserAnswers
    <2>1. PICK w, m : Answers(w, m)
        BY <1>4, BrowserTells
    <2> QED
        BY <1>4, <2>1, AnswerKeepsOrder DEF BrowserAnswers, Answers
<1> QED
    BY <1>2, <1>3, <1>4

LEMMA NextLease == IInv /\ SInv /\ [Next]_vars => SInv'
<1> SUFFICES ASSUME IInv, SInv, [Next]_vars PROVE SInv'
    OBVIOUS
<1>1. CASE \/ \E o, t \in Targets : PageOpens(o, t)
           \/ \E t \in Targets : PageCloses(t)
           \/ BrowserAnswers
    BY <1>1, OnlyWorldMoves, WorldKeepsLease DEF WorldMoves
<1>2. CASE Receive
    BY <1>2, ReceiveKeepsLease
<1>3. CASE \E c \in Controls : ControlRuns(c)
    BY <1>3, RootChosenLease, RootCreatedLease, RootAttachedLease, TreeListedLease,
       TargetClosedLease, ControlEndsLease DEF ControlRuns
<1>4. CASE \E a \in Agents : AgentRuns(a)
    BY <1>4, AgentListsLease, AgentMayAttachLease, AgentAttachedLease, AgentSelectsLease DEF AgentRuns
<1>5. CASE \/ \E c \in Controls : \/ \E q \in Requests : AcquireRoot(c, q)
                                  \/ ReleaseRoot(c)
                                  \/ \E pc \in Probes : AskStatus(c, pc)
           \/ \E a \in Agents, t \in Targets \cup {NoTarget} :
                \/ \E pc \in {"list", "may attach", "may select"} : AgentAsks(a, pc, t)
                \/ AgentCommands(a, t)
    BY <1>5, AsksLease
<1>6. CASE UNCHANGED vars
    <2>1. UNCHANGED <<ownVars, leaseVars, task, born, opener>>
        BY <1>6 DEF vars, browserVars
    <2>2. OrderKept(Tasks)
        BY <1>6 DEF vars, wireVars, OrderKept, Waits, Ahead, IsAnswer
    <2> QED
        BY <2>1, <2>2, WorldKeepsLease
<1> QED
    BY <1>1, <1>2, <1>3, <1>4, <1>5, <1>6 DEF Next, Daemon

LEMMA InitLease == Init => SInv
<1> SUFFICES ASSUME Init PROVE SInv
    OBVIOUS
<1>1. \A k \in Tasks : task[k].pc = "idle"
    BY DEF Init, Idle
<1>2. ~Leased /\ owned = {}
    BY DEF Init, Leased
<1> QED
    BY <1>1, <1>2 DEF SInv, NoneLost, NotYetLeased, Acquiring, OwnedWithLease, AttachesInLease,
                      SessionsOfLease

\* No session and no owned target of an earlier lease is left in the next one, although an
\* agent's session is recorded without another look at the lease: its call is answered
\* before any call of the acquire that follows the release.
THEOREM SessionsAreOfTheLease == Spec => []SessionsOfLease
<1>1. SInv => SessionsOfLease
    BY DEF SInv
<1> QED
    BY InitInv, NextInv, InitLease, NextLease, <1>1, PTL DEF Spec

-----------------------------------------------------------------------------
(* No error path forgets a root page.                                      *)

\* The call that a connection waits for.
Asks(pc) == CASE pc = "create" -> "create"
              [] pc \in {"attach", "attaching"} -> "attach"
              [] pc \in {"undo", "close"} -> "close"
              [] pc = "command" -> "command"
              [] OTHER -> "targets"

SentIsAwaited == \A i \in 1..Len(sent) :
    LET w == task[sent[i].task]
    IN  /\ sent[i].op = Asks(w.pc)
        /\ w.pc \in {"undo", "close"} => sent[i].t = w.t

\* What the wire says of pages: a destroyed or closed page does not come back, a created
\* one was born, and release hears of the lease's root if that is still open.
TrueOf(i) ==
    /\ wire[i].event = "destroyed" => wire[i].t \notin live
    /\ IsAnswer(i) /\ wire[i].ok =>
         LET w == task[wire[i].task]
         IN  /\ w.pc \in {"undo", "close"} => w.t \notin live
             /\ w.pc = "create" => wire[i].t \in born
             /\ w.pc = "release" /\ lease.root \in live => lease.root \in wire[i].live
AnswersAreTrue == \A i \in 1..Len(wire) : TrueOf(i)

RootsAreBorn ==
    /\ roots \subseteq born
    /\ \A k \in Tasks : task[k].pc \in {"attach", "undo", "close"} => task[k].t \in born

\* The root pages that somebody has to answer for.
Strays == (roots \cap live) \ (unclosed \cup unlisted)

InHand == \A r \in Strays :
    \/ Leased /\ lease.root = r
    \/ \E k \in Tasks : task[k].pc \in {"attach", "undo"} /\ task[k].t = r

\* A page that acquire has found, and did not create, is nobody's so far.
FoundIsNoStray == \A c \in Tasks :
    task[c].pc = "attach" /\ task[c].todo = {} => task[c].t \notin Strays

\* The root of the lease is in the lists from which release closes.
Listed ==
    Leased /\ lease.root \in Strays =>
      /\ created \/ lease.root \in owned \/ \E k \in Tasks : task[k].pc = "adopt"
      /\ \A c \in Tasks :
           /\ task[c].pc = "release" => created \/ lease.root \in task[c].todo
           /\ task[c].pc = "close" => lease.root \in task[c].todo

HInv == SentIsAwaited /\ AnswersAreTrue /\ RootsAreBorn /\ InHand /\ FoundIsNoStray /\ Listed

LEMMA LockAlone ==
    ASSUME IInv, NEW k \in Tasks, lock = k
    PROVE  \A c \in Tasks \ {k} : task[c].pc \notin InLock
BY DEF IInv, LockHeld

\* While the daemon does nothing and no page comes back, nothing is forgotten.
LEMMA WorldForgetsNothing ==
    ASSUME HInv, UNCHANGED <<ownVars, leaseVars, lock, task>>,
           live' \cap born \subseteq live, born \subseteq born', SentIsAwaited', AnswersAreTrue'
    PROVE  HInv'
<1>1. Strays' \subseteq Strays
    BY DEF HInv, RootsAreBorn, Strays, leaseVars
<1>2. RootsAreBorn' /\ InHand'
    BY <1>1 DEF HInv, RootsAreBorn, InHand, Leased, leaseVars
<1>3. FoundIsNoStray'
    BY <1>1 DEF HInv, FoundIsNoStray
<1>4. Listed'
    BY <1>1 DEF HInv, Listed, Leased, leaseVars, ownVars
<1> QED
    BY <1>2, <1>3, <1>4 DEF HInv

\* What was true on the wire is true as long as no page comes back.
LEMMA StaysTrue ==
    ASSUME IInv, HInv, UNCHANGED <<lease, task>>, live' \cap born \subseteq live, born \subseteq born',
           NEW i \in 1..Len(wire), NEW j \in 1..Len(wire'), wire'[j] = wire[i]
    PROVE  TrueOf(j)'
<1>1. TrueOf(i) /\ IsAnswer(j)' = IsAnswer(i)
    BY DEF HInv, AnswersAreTrue, IsAnswer
<1>2. wire[i].event = "destroyed" => wire[i].t \in born
    BY DEF IInv, WireIsReal, IsAnswer
<1>3. IsAnswer(i) => task[wire[i].task].pc # "idle" /\ wire[i].task \in Tasks
    <2>1. wire[i] \in TargetEvent \cup AnswerTo
        BY DEF IInv, TypeOK
    <2> QED
        BY <2>1 DEF IInv, OneCall, IsAnswer, TargetEvent, AnswerTo
<1>4. IsAnswer(i) /\ task[wire[i].task].pc \in {"undo", "close"} => task[wire[i].task].t \in born
    BY <1>3 DEF HInv, RootsAreBorn
<1>5. IsAnswer(i) /\ task[wire[i].task].pc = "release" => lease.root \in born
    BY <1>3 DEF HInv, RootsAreBorn, IInv, LockHeld, LeaseIsRoot
<1> QED
    BY <1>1, <1>2, <1>4, <1>5 DEF TrueOf

LEMMA EventForgetsNothing ==
    ASSUME IInv, HInv, UNCHANGED <<sent, ownVars, leaseVars, lock, task>>, Told(wire'),
           live' \cap born \subseteq live, born \subseteq born'
    PROVE  HInv'
<1>1. Len(wire) \in Nat /\ Len(wire') \in Nat
    BY DEF IInv, TypeOK, Told, Messages
<1>2. SentIsAwaited'
    BY DEF HInv, SentIsAwaited
<1>3. ASSUME NEW j \in 1..Len(wire') PROVE TrueOf(j)'
    <2>1. CASE j \in 1..Len(wire)
        <3>1. wire'[j] = wire[j]
            BY <2>1 DEF Told
        <3> QED
            BY <2>1, <3>1, StaysTrue DEF leaseVars
    <2>2. CASE j \notin 1..Len(wire)
        <3>1. j = Len(wire') /\ Len(wire') = Len(wire) + 1
            BY <1>1, <2>2 DEF Told
        <3>2. wire'[j] \in TargetEvent /\ (wire'[j].event = "destroyed" => wire'[j].t \notin live')
            BY <3>1 DEF Told
        <3> QED
            BY <3>2 DEF TrueOf, IsAnswer, TargetEvent
    <2> QED
        BY <2>1, <2>2
<1> QED
    BY <1>2, <1>3, WorldForgetsNothing DEF AnswersAreTrue

LEMMA AnswerForgetsNothing ==
    ASSUME IInv, HInv, UNCHANGED <<ownVars, leaseVars, lock, task>>, NEW w, NEW m, Answers(w, m)
    PROVE  HInv'
<1>1. /\ Head(sent) = sent[1] /\ 1 \in 1..Len(sent) /\ Len(sent') = Len(sent) - 1 /\ Len(sent) \in Nat
      /\ \A i \in 1..Len(sent') : i + 1 \in 1..Len(sent) /\ sent'[i] = sent[i + 1]
    BY Behead DEF IInv, TypeOK, Answers
<1>2. w \in Seq(Messages) /\ Len(w) \in Nat /\ Len(wire) \in Nat
    BY DEF IInv, TypeOK, Told, Messages, Answers
<1>3. m \in Messages /\ m.event = "answer" /\ m.task = sent[1].task /\ m.task \in Tasks
    BY <1>1 DEF Messages, AnswerTo, Answers
<1>4. /\ Len(wire') = Len(w) + 1 /\ wire'[Len(w) + 1] = m
      /\ \A i \in 1..Len(w) : wire'[i] = w[i]
    BY <1>2, <1>3 DEF Answers
<1>5. SentIsAwaited'
    BY <1>1 DEF HInv, SentIsAwaited
<1>6. live' \cap born \subseteq live /\ born \subseteq born'
    BY DEF Answers
<1>7. ASSUME NEW j \in 1..Len(wire') PROVE TrueOf(j)'
    <2>1. CASE j \in 1..Len(wire)
        <3>1. wire'[j] = wire[j]
            BY <1>2, <1>4, <2>1 DEF Told, Answers
        <3> QED
            BY <1>6, <2>1, <3>1, StaysTrue DEF leaseVars
    <2>2. CASE j \notin 1..Len(wire) /\ j \in 1..Len(w)
        <3>1. j = Len(w) /\ Len(w) = Len(wire) + 1 /\ wire'[j] = w[j]
            BY <1>2, <1>4, <2>2 DEF Told, Answers
        <3>2. wire'[j] \in TargetEvent /\ (wire'[j].event = "destroyed" => wire'[j].t \notin live')
            BY <3>1 DEF Told, Answers
        <3> QED
            BY <3>2 DEF TrueOf, IsAnswer, TargetEvent
    <2>3. CASE j = Len(w) + 1
        <3> DEFINE u == task[sent[1].task]
        <3>1. wire'[j] = m /\ task'[m.task] = u
            BY <1>3, <1>4, <2>3
        <3>2. sent[1].op = Asks(u.pc) /\ (u.pc \in {"undo", "close"} => sent[1].t = u.t)
            BY <1>1 DEF HInv, SentIsAwaited
        <3>3. m.ok => /\ sent[1].op = "targets" => m.live = live'
                      /\ sent[1].op = "create" => m.t \in born'
                      /\ sent[1].op = "close" => sent[1].t \notin live'
            BY <1>1 DEF Answers
        <3> HIDE DEF u
        <3>4. m.ok => /\ u.pc \in {"undo", "close"} => u.t \notin live'
                      /\ u.pc = "create" => m.t \in born'
                      /\ u.pc = "release" => m.live = live'
            BY <3>2, <3>3 DEF Asks
        <3> QED
            BY <1>3, <3>1, <3>4 DEF TrueOf
    <2> QED
        BY <1>2, <1>4, <2>1, <2>2, <2>3
<1> QED
    BY <1>5, <1>6, <1>7, WorldForgetsNothing DEF AnswersAreTrue

LEMMA ReceiveForgetsNothing == ASSUME IInv, HInv, Receive PROVE HInv'
<1>0. PICK n \in 1..Len(wire) : Receive!(n)
    BY DEF Receive
<1>1. wire \in Seq(Messages) /\ Len(wire) \in Nat
    BY DEF IInv, TypeOK, Messages
<1>2. /\ Len(wire') = Len(wire) - 1
      /\ \A i \in 1..Len(wire') : wire'[i] = wire[IF i < n THEN i ELSE i + 1]
    BY <1>0, <1>1, TakeOut
<1>3. UNCHANGED <<live, born, sent, lease, created, roots, unclosed, unlisted, lock, task>>
    BY <1>0 DEF browserVars
<1>4. ASSUME NEW j \in 1..Len(wire') PROVE TrueOf(j)'
    <2>1. PICK i \in 1..Len(wire) : wire'[j] = wire[i]
        BY <1>1, <1>2
    <2> QED
        BY <1>3, <2>1, StaysTrue
<1>5. \A r \in live : r \in owned => r \in owned'
    <2> DEFINE t == wire[n].t
    <2>1. wire[n].event = "destroyed" => t \notin live
        BY DEF HInv, AnswersAreTrue, TrueOf
    <2>2. owned \subseteq owned' \/ (owned' = owned \ {t} /\ wire[n].event = "destroyed")
        BY <1>0 DEF ownVars
    <2> QED
        BY <2>1, <2>2
<1>6. Strays' = Strays /\ Leased' = Leased
    BY <1>3 DEF Strays, Leased
<1>7. SentIsAwaited' /\ RootsAreBorn' /\ InHand' /\ FoundIsNoStray'
    BY <1>3, <1>6 DEF HInv, SentIsAwaited, RootsAreBorn, InHand, FoundIsNoStray
<1>8. Listed'
    BY <1>3, <1>5, <1>6 DEF HInv, Listed, Strays
<1> QED
    BY <1>4, <1>7, <1>8 DEF HInv, AnswersAreTrue

\* A connection makes its first call.
LEMMA AskForgetsNothing ==
    ASSUME IInv, HInv, NEW k \in Tasks, task[k].pc = "idle",
           UNCHANGED <<browserVars, wire, ownVars, leaseVars>>,
           NEW op \in Ops, NEW t \in Place, Call(k, op, t),
           NEW v \in TaskState, task' = [task EXCEPT ![k] = v], op = Asks(v.pc),
           v.pc \notin {"attach", "undo", "close"},
           v.pc = "release" => v.todo = owned /\ lock = Free
    PROVE  HInv'
<1>1. task'[k] = v /\ \A j \in Tasks \ {k} : task'[j] = task[j]
    BY DEF IInv, TypeOK
<1>2. Strays' = Strays /\ Leased' = Leased
    BY DEF Strays, Leased, browserVars, leaseVars
<1>3. SentIsAwaited'
    <2> DEFINE m == [task |-> k, op |-> op, t |-> t]
    <2>1. m \in CallTo /\ m.task = k /\ m.op = op /\ sent' = Append(sent, m)
        BY DEF Call, CallTo
    <2> HIDE DEF m
    <2>2. sent \in Seq(CallTo)
        BY DEF IInv, TypeOK
    <2>3. \A i \in 1..Len(sent') : (i \in 1..Len(sent) /\ sent'[i] = sent[i]) \/ sent'[i] = m
        BY <2>1, <2>2
    <2>4. \A i \in 1..Len(sent) : sent[i].task \in Tasks \ {k}
        <3> SUFFICES ASSUME NEW i \in 1..Len(sent) PROVE sent[i].task \in Tasks \ {k}
            OBVIOUS
        <3>1. sent[i] \in CallTo
            BY <2>2
        <3> QED
            BY <3>1 DEF IInv, OneCall, CallTo
    <2> QED
        BY <1>1, <2>1, <2>3, <2>4 DEF HInv, SentIsAwaited
<1>4. AnswersAreTrue'
    <2> SUFFICES ASSUME NEW i \in 1..Len(wire) PROVE TrueOf(i)'
        BY DEF AnswersAreTrue
    <2>1. TrueOf(i) /\ IsAnswer(i)' = IsAnswer(i) /\ UNCHANGED <<live, born, lease>>
        BY DEF HInv, AnswersAreTrue, IsAnswer, browserVars, leaseVars
    <2>2. wire[i] \in TargetEvent \cup AnswerTo
        BY DEF IInv, TypeOK
    <2>3. IsAnswer(i) => wire[i].task \in Tasks \ {k}
        BY <2>2 DEF IInv, OneCall, IsAnswer, TargetEvent, AnswerTo
    <2> QED
        BY <1>1, <2>1, <2>3 DEF TrueOf
<1>5. RootsAreBorn' /\ FoundIsNoStray'
    BY <1>1, <1>2 DEF HInv, RootsAreBorn, FoundIsNoStray, browserVars, leaseVars
<1>6. InHand'
    BY <1>1, <1>2 DEF HInv, InHand, leaseVars
<1>7. Listed'
    <2> SUFFICES ASSUME Leased, lease.root \in Strays
                 PROVE  /\ created \/ lease.root \in owned \/ \E c \in Tasks : task'[c].pc = "adopt"
                        /\ \A c \in Tasks :
                             /\ task'[c].pc = "release" => created \/ lease.root \in task'[c].todo
                             /\ task'[c].pc = "close" => lease.root \in task'[c].todo
        BY <1>2 DEF Listed, ownVars, leaseVars
    <2>1. created \/ lease.root \in owned \/ \E c \in Tasks : task[c].pc = "adopt"
        BY DEF HInv, Listed
    <2>2. (\E c \in Tasks : task[c].pc = "adopt") => \E c \in Tasks : task'[c].pc = "adopt"
        BY <1>1
    <2>4. lock = Free => ~\E c \in Tasks : task[c].pc = "adopt"
        BY LeaseAssumption DEF IInv, LockHeld, InLock
    <2>3. ASSUME NEW c \in Tasks
          PROVE  /\ task'[c].pc = "release" => created \/ lease.root \in task'[c].todo
                 /\ task'[c].pc = "close" => lease.root \in task'[c].todo
        BY <1>1, <2>1, <2>4 DEF HInv, Listed
    <2> QED
        BY <2>1, <2>2, <2>3
<1> QED
    BY <1>3, <1>4, <1>5, <1>6, <1>7 DEF HInv

\* A connection goes on with its answer: the wire and the calls.
LEMMA ResumeForgetsNothing ==
    ASSUME IInv, HInv, NEW k \in Tasks, NEW pc, Resumes(k, pc), UNCHANGED browserVars,
           NEW v \in TaskState, task' = [task EXCEPT ![k] = v],
           \/ sent' = sent
           \/ \E op \in Ops, t \in Place : /\ Call(k, op, t) /\ op = Asks(v.pc)
                                           /\ v.pc \in {"undo", "close"} => t = v.t,
           lease' = lease \/ lock = k,
           roots' \subseteq born, v.pc \in {"attach", "undo", "close"} => v.t \in born,
           InHand', FoundIsNoStray', Listed'
    PROVE  HInv'
<1>1. /\ wire # <<>> /\ Answered.event = "answer" /\ Answered.task = k /\ wire' = Tail(wire)
      /\ task[k].pc = pc
    BY DEF Resumes
<1>2. task'[k] = v /\ \A j \in Tasks \ {k} : task'[j] = task[j]
    BY DEF IInv, TypeOK
<1>3. /\ wire[1].task = k /\ IsAnswer(1) /\ 1 \in 1..Len(wire) /\ Len(wire) \in Nat
      /\ Len(wire') = Len(wire) - 1
      /\ \A i \in 1..Len(wire') : i + 1 \in 1..Len(wire) /\ wire'[i] = wire[i + 1]
    BY <1>1, Behead DEF IInv, TypeOK, Answered, IsAnswer
<1>4. \A i \in 1..Len(sent) : sent[i].task \in Tasks \ {k}
    <2> SUFFICES ASSUME NEW i \in 1..Len(sent) PROVE sent[i].task \in Tasks \ {k}
        OBVIOUS
    <2>1. sent[i] \in CallTo
        BY DEF IInv, TypeOK
    <2> QED
        BY <1>3, <2>1 DEF IInv, OneCall, CallTo
<1>5. SentIsAwaited'
    <2>1. CASE sent' = sent
        BY <1>2, <1>4, <2>1 DEF HInv, SentIsAwaited
    <2>2. ASSUME NEW op \in Ops, NEW t \in Place, Call(k, op, t), op = Asks(v.pc),
                 v.pc \in {"undo", "close"} => t = v.t
          PROVE  SentIsAwaited'
        <3> DEFINE m == [task |-> k, op |-> op, t |-> t]
        <3>1. m \in CallTo /\ m.task = k /\ m.op = op /\ m.t = t /\ sent' = Append(sent, m)
            BY <2>2 DEF Call, CallTo
        <3> HIDE DEF m
        <3>2. sent \in Seq(CallTo)
            BY DEF IInv, TypeOK
        <3>3. \A i \in 1..Len(sent') : (i \in 1..Len(sent) /\ sent'[i] = sent[i]) \/ sent'[i] = m
            BY <3>1, <3>2
        <3> QED
            BY <1>2, <1>4, <2>2, <3>1, <3>3 DEF HInv, SentIsAwaited
    <2> QED
        BY <2>1, <2>2
<1>6. AnswersAreTrue'
    <2> SUFFICES ASSUME NEW j \in 1..Len(wire') PROVE TrueOf(j)'
        BY DEF AnswersAreTrue
    <2> DEFINE i == j + 1
    <2>1. i \in 1..Len(wire) /\ i # 1 /\ wire'[j] = wire[i] /\ IsAnswer(j)' = IsAnswer(i)
        BY <1>3 DEF IsAnswer
    <2> HIDE DEF i
    <2>2. TrueOf(i) /\ UNCHANGED <<live, born>>
        BY <2>1 DEF HInv, AnswersAreTrue, browserVars
    <2>3. wire[i] \in TargetEvent \cup AnswerTo
        BY <2>1 DEF IInv, TypeOK
    <2>4. IsAnswer(i) => wire[i].task \in Tasks \ {k}
        BY <1>3, <2>1, <2>3 DEF IInv, OneCall, IsAnswer, TargetEvent, AnswerTo
    <2>5. IsAnswer(i) /\ task[wire[i].task].pc = "release" => lease' = lease
        BY <2>4, LockAlone DEF InLock
    <2> QED
        BY <1>2, <2>1, <2>2, <2>4, <2>5 DEF TrueOf
<1>7. RootsAreBorn'
    BY <1>2 DEF HInv, RootsAreBorn, browserVars
<1> QED
    BY <1>5, <1>6, <1>7 DEF HInv

\* A connection that has no part in acquire or release.
LEMMA BystanderForgetsNothing ==
    ASSUME IInv, HInv, NEW k \in Tasks, NEW pc, pc \notin InLock, Resumes(k, pc),
           UNCHANGED <<browserVars, lease, created, roots, unclosed, unlisted>>,
           NEW v \in TaskState, task' = [task EXCEPT ![k] = v], v.pc \notin InLock,
           sent' = sent \/ \E t \in Place : Call(k, Asks(v.pc), t) /\ Asks(v.pc) \in Ops,
           Refresh(Answered.live) \/ UNCHANGED ownVars \/ ~Leased
    PROVE  HInv'
<1>1. task'[k] = v /\ task[k].pc = pc /\ \A j \in Tasks \ {k} : task'[j] = task[j]
    BY DEF IInv, TypeOK, Resumes
<1>2. Strays' = Strays /\ Leased' = Leased
    BY DEF Strays, Leased, browserVars
<1>3. Leased /\ lease.root \in owned => lease.root \in owned'
    BY RootOfTree DEF Refresh, ownVars
<1>4. InHand'
    BY <1>1, <1>2 DEF HInv, InHand, InLock
<1>5. FoundIsNoStray'
    BY <1>1, <1>2 DEF HInv, FoundIsNoStray, InLock
<1>6. Listed'
    BY <1>1, <1>2, <1>3 DEF HInv, Listed, InLock
<1>7. roots' \subseteq born /\ v.pc \notin {"attach", "undo", "close"}
    BY DEF HInv, RootsAreBorn, InLock
<1> QED
    BY <1>4, <1>5, <1>6, <1>7, ResumeForgetsNothing

\* What the holder of the lock starts from.
LEMMA Holder ==
    ASSUME IInv, SInv, HInv, NEW c \in Controls, NEW pc \in InLock, Resumes(c, pc)
    PROVE  /\ c \in Tasks /\ lock = c /\ task[c].pc = pc /\ task[c] \in TaskState
           /\ \A k \in Tasks \ {c} : task[k].pc \notin InLock
           /\ \A r \in Strays : \/ Leased /\ lease.root = r
                                \/ pc \in {"attach", "undo"} /\ task[c].t = r
           /\ pc \in Acquiring => ~Leased
           /\ TrueOf(1) /\ IsAnswer(1) /\ wire[1] = Answered /\ Answered.task = c
<1>1. c \in Tasks /\ lock = c /\ task[c].pc = pc /\ task[c] \in TaskState
    BY DEF Tasks, Resumes, IInv, LockHeld, TypeOK
<1>2. \A k \in Tasks \ {c} : task[k].pc \notin InLock
    BY <1>1, LockAlone
<1>3. \A r \in Strays : \/ Leased /\ lease.root = r
                        \/ pc \in {"attach", "undo"} /\ task[c].t = r
    BY <1>1, <1>2 DEF HInv, InHand, InLock
<1>4. pc \in Acquiring => ~Leased
    BY <1>1 DEF SInv, NotYetLeased
<1>5. wire \in Seq(TargetEvent \cup AnswerTo) /\ wire # <<>> /\ Answered.event = "answer"
      /\ Answered.task = c
    BY DEF IInv, TypeOK, Resumes
<1>6. wire[1] = Answered /\ 1 \in 1..Len(wire)
    BY <1>5, Behead DEF Answered
<1>7. TrueOf(1) /\ IsAnswer(1)
    BY <1>5, <1>6 DEF HInv, AnswersAreTrue, IsAnswer
<1> QED
    BY <1>1, <1>2, <1>3, <1>4, <1>5, <1>6, <1>7

\* The holder of the lock ends: the only root there may still be is that of the lease.
LEMMA HolderEnds ==
    ASSUME IInv, SInv, HInv, NEW c \in Controls, NEW pc \in InLock, Resumes(c, pc), Done(c),
           UNCHANGED <<browserVars, sent>>, roots' \subseteq born,
           \A r \in Strays' : /\ Leased' /\ lease'.root = r
                              /\ created' \/ lease'.root \in owned'
    PROVE  HInv'
<1>1. c \in Tasks /\ lock = c /\ \A k \in Tasks \ {c} : task[k].pc \notin InLock
    BY Holder
<1>2. Idle \in TaskState /\ Idle.pc = "idle" /\ task' = [task EXCEPT ![c] = Idle]
    BY IdleTyped DEF Idle, Done
<1> HIDE DEF Idle
<1>3. \A k \in Tasks : task'[k].pc \notin InLock
    BY <1>1, <1>2 DEF IInv, TypeOK, InLock
<1>4. InHand' /\ FoundIsNoStray' /\ Listed'
    BY <1>3 DEF InHand, FoundIsNoStray, Listed, InLock
<1> QED
    BY <1>1, <1>2, <1>4, ResumeForgetsNothing

\* Acquire goes on to its next call, with nothing leased and at most its own page to answer for.
LEMMA AcquireForgetsNothing ==
    ASSUME IInv, SInv, HInv, NEW c \in Controls, NEW pc \in Acquiring, Resumes(c, pc),
           UNCHANGED <<browserVars, lease>>, roots' \subseteq born,
           NEW v \in TaskState, task' = [task EXCEPT ![c] = v], v.pc \in {"create", "attach", "undo"},
           NEW t \in Place, Call(c, Asks(v.pc), t), v.pc = "undo" => t = v.t,
           v.pc # "create" => v.t \in born,
           \A r \in Strays' : v.pc # "create" /\ v.t = r,
           v.pc = "attach" /\ v.todo = {} => v.t \notin Strays'
    PROVE  HInv'
<1>1. pc \in InLock
    BY DEF Acquiring, InLock
<1>2. c \in Tasks /\ lock = c /\ ~Leased /\ \A k \in Tasks \ {c} : task[k].pc \notin InLock
    BY <1>1, Holder
<1>3. task'[c] = v /\ \A k \in Tasks \ {c} : task'[k] = task[k]
    BY <1>2 DEF IInv, TypeOK
<1>4. InHand'
    BY <1>2, <1>3 DEF InHand
<1>5. FoundIsNoStray'
    BY <1>2, <1>3 DEF FoundIsNoStray, InLock
<1>6. Listed'
    BY <1>2 DEF Listed, Leased
<1>7. Asks(v.pc) \in Ops /\ v.pc # "close"
    BY DEF Asks, Ops
<1> QED
    BY <1>1, <1>2, <1>4, <1>5, <1>6, <1>7, ResumeForgetsNothing

LEMMA RootChosenForgets == ASSUME IInv, SInv, HInv, NEW c \in Controls, RootChosen(c) PROVE HInv'
<1>1. Resumes(c, "inventory") /\ UNCHANGED <<browserVars, ownVars, leaseVars>>
    BY DEF RootChosen
<1>2. c \in Tasks /\ "inventory" \in Acquiring \cap InLock /\ NoTarget \in Place
    BY DEF Tasks, Acquiring, InLock, Place
<1>3. Strays = {} /\ task[c] \in TaskState
    <2>1. \A r \in Strays : \/ Leased /\ lease.root = r
                            \/ "inventory" \in {"attach", "undo"} /\ task[c].t = r
        BY <1>1, <1>2, Holder
    <2>2. ~Leased /\ task[c] \in TaskState
        BY <1>1, <1>2, Holder
    <2> QED
        BY <2>1, <2>2
<1>4. Strays' = {} /\ roots' \subseteq born
    BY <1>1, <1>3 DEF Strays, browserVars, leaseVars, HInv, RootsAreBorn
<1>5. Answered.marked \subseteq born
    <2>1. wire # <<>> /\ wire \in Seq(TargetEvent \cup AnswerTo) /\ Answered.event = "answer"
        BY <1>1 DEF Resumes, IInv, TypeOK
    <2>2. Answered = wire[1] /\ 1 \in 1..Len(wire)
        BY <2>1, Behead DEF Answered
    <2> QED
        BY <2>1, <2>2 DEF IInv, WireIsReal, IsAnswer
<1>6. CASE Done(c) /\ UNCHANGED sent
    BY <1>1, <1>2, <1>4, <1>6, HolderEnds
<1>7. ASSUME NEW t \in Answered.marked, Call(c, "attach", t),
             task' = [task EXCEPT ![c].pc = "attach", ![c].t = t]
      PROVE  HInv'
    <2> DEFINE v == [task[c] EXCEPT !.pc = "attach", !.t = t]
    <2>1. t \in Place /\ t \in born
        BY <1>5, <1>7 DEF IInv, TypeOK, Place
    <2>2. v \in TaskState /\ v.pc = "attach" /\ v.t = t
        BY <1>3, <2>1 DEF TaskState, Stages, InLock
    <2>3. task' = [task EXCEPT ![c] = v]
        BY <1>7, <1>2 DEF IInv, TypeOK, TaskState
    <2> HIDE DEF v
    <2>4. Call(c, Asks(v.pc), t)
        BY <1>7, <2>2 DEF Asks
    <2> QED
        BY <1>1, <1>2, <1>4, <2>1, <2>2, <2>3, <2>4, AcquireForgetsNothing DEF leaseVars
<1>8. CASE Await(c, "create") /\ Call(c, "create", NoTarget)
    <2> DEFINE v == [task[c] EXCEPT !.pc = "create"]
    <2>1. v \in TaskState /\ v.pc = "create"
        BY <1>3 DEF TaskState, Stages, InLock
    <2>2. task' = [task EXCEPT ![c] = v]
        BY <1>8, <1>2 DEF IInv, TypeOK, TaskState, Await
    <2> HIDE DEF v
    <2>3. Call(c, Asks(v.pc), NoTarget)
        BY <1>8, <2>1 DEF Asks
    <2> QED
        BY <1>1, <1>2, <1>4, <2>1, <2>2, <2>3, AcquireForgetsNothing DEF leaseVars
<1> QED
    BY <1>6, <1>7, <1>8 DEF RootChosen

LEMMA RootCreatedForgets == ASSUME IInv, SInv, HInv, NEW c \in Controls, RootCreated(c) PROVE HInv'
<1>1. Resumes(c, "create") /\ UNCHANGED <<browserVars, ownVars, lease, created, unclosed, unlisted>>
    BY DEF RootCreated
<1>2. c \in Tasks /\ "create" \in Acquiring \cap InLock
    BY DEF Tasks, Acquiring, InLock
<1>3. Strays = {} /\ task[c] \in TaskState
    <2>1. \A r \in Strays : \/ Leased /\ lease.root = r
                            \/ "create" \in {"attach", "undo"} /\ task[c].t = r
        BY <1>1, <1>2, Holder
    <2>2. ~Leased /\ task[c] \in TaskState
        BY <1>1, <1>2, Holder
    <2> QED
        BY <2>1, <2>2
<1>4. CASE Answered.ok
    <2> DEFINE t == Answered.t
               v == [task[c] EXCEPT !.pc = "attach", !.t = t, !.todo = {t}]
    <2>1. Call(c, "attach", t) /\ task' = [task EXCEPT ![c].pc = "attach", ![c].t = t, ![c].todo = {t}]
          /\ roots' = roots \cup {t}
        BY <1>4 DEF RootCreated
    <2>2. TrueOf(1) /\ IsAnswer(1) /\ wire[1] = Answered /\ Answered.task = c /\ task[c].pc = "create"
        BY <1>1, <1>2, Holder
    <2>3. t \in born
        BY <1>4, <2>2 DEF TrueOf
    <2> HIDE DEF t
    <2>4. t \in Place /\ roots' \subseteq born
        BY <2>1, <2>3 DEF IInv, TypeOK, Place, HInv, RootsAreBorn
    <2>5. v \in TaskState /\ v.pc = "attach" /\ v.t = t /\ v.todo = {t}
        BY <1>3, <2>4 DEF TaskState, Stages, InLock
    <2>6. task' = [task EXCEPT ![c] = v]
        BY <1>2, <2>1 DEF IInv, TypeOK, TaskState
    <2> HIDE DEF v
    <2>7. \A r \in Strays' : r = t
        BY <1>1, <1>3, <2>1 DEF Strays, browserVars
    <2>8. Call(c, Asks(v.pc), t)
        BY <2>1, <2>5 DEF Asks
    <2> QED
        BY <1>1, <1>2, <2>3, <2>4, <2>5, <2>6, <2>7, <2>8, AcquireForgetsNothing
<1>5. CASE ~Answered.ok
    <2>1. Done(c) /\ UNCHANGED <<sent, roots>>
        BY <1>5 DEF RootCreated
    <2>2. Strays' = {} /\ roots' \subseteq born
        BY <1>1, <1>3, <2>1 DEF Strays, browserVars, HInv, RootsAreBorn
    <2> QED
        BY <1>1, <1>2, <2>1, <2>2, HolderEnds
<1> QED
    BY <1>4, <1>5

LEMMA RootAttachedForgets == ASSUME IInv, SInv, HInv, NEW c \in Controls, RootAttached(c) PROVE HInv'
<1>1. Resumes(c, "attach") /\ UNCHANGED <<browserVars, ownVars>>
    BY DEF RootAttached
<1>2. "attach" \in Acquiring \cap InLock
    BY DEF Acquiring, InLock
<1>3. c \in Tasks /\ lock = c /\ task[c].pc = "attach" /\ task[c] \in TaskState /\ ~Leased
      /\ \A k \in Tasks \ {c} : task[k].pc \notin InLock
    BY <1>1, <1>2, Holder
<1> DEFINE t == task[c].t
<1>4. \A r \in Strays : r = t
    BY <1>1, <1>2, <1>3, Holder
<1>5. t \in born /\ t \in Place /\ (task[c].todo = {} => t \notin Strays)
    BY <1>3 DEF HInv, RootsAreBorn, FoundIsNoStray, TaskState
<1>6. CASE Answered.ok
    <2> DEFINE v == [task[c] EXCEPT !.pc = "adopt"]
    <2>1. /\ roots' = roots \cup {t} /\ lease' = [root |-> t, req |-> task[c].req]
          /\ Call(c, "targets", NoTarget) /\ Await(c, "adopt") /\ UNCHANGED <<unclosed, unlisted>>
        BY <1>6 DEF RootAttached
    <2>2. v \in TaskState /\ v.pc = "adopt"
        BY <1>3 DEF TaskState, Stages, InLock
    <2>3. task' = [task EXCEPT ![c] = v]
        BY <1>3, <2>1 DEF IInv, TypeOK, TaskState, Await
    <2> HIDE DEF v
    <2>4. task'[c].pc = "adopt" /\ \A k \in Tasks \ {c} : task'[k].pc \notin InLock
        BY <1>3, <2>2, <2>3 DEF IInv, TypeOK
    <2>5. Leased' /\ lease'.root = t
        <3>1. t \in Targets /\ task[c].req \in Requests \cup {NoRequest}
            BY <1>3, <1>5 DEF IInv, TypeOK, TaskState
        <3>2. lease' \in [root : Targets, req : Requests \cup {NoRequest}]
            BY <2>1, <3>1
        <3> QED
            BY <2>1, <3>2, LeaseAssumption DEF Leased
    <2>6. \A r \in Strays' : r = t
        BY <1>1, <1>4, <2>1 DEF Strays, browserVars
    <2>7. InHand'
        BY <2>5, <2>6 DEF InHand
    <2>8. FoundIsNoStray' /\ Listed'
        BY <1>3, <2>4 DEF FoundIsNoStray, Listed, InLock
    <2>9. roots' \subseteq born
        BY <1>5, <2>1 DEF HInv, RootsAreBorn
    <2>10. "targets" = Asks(v.pc) /\ "targets" \in Ops /\ NoTarget \in Place
           /\ v.pc \notin {"attach", "undo", "close"}
        BY <2>2 DEF Asks, Ops, Place
    <2> QED
        BY <1>1, <1>3, <2>1, <2>2, <2>3, <2>7, <2>8, <2>9, <2>10, ResumeForgetsNothing
<1>7. CASE ~Answered.ok /\ task[c].todo = {}
    <2>1. Done(c) /\ UNCHANGED sent /\ UNCHANGED leaseVars
        BY <1>7 DEF RootAttached, AttachFailed
    <2>2. Strays' = {} /\ roots' \subseteq born
        BY <1>1, <1>4, <1>5, <1>7, <2>1 DEF Strays, browserVars, leaseVars, HInv, RootsAreBorn
    <2> QED
        BY <1>1, <1>2, <2>1, <2>2, HolderEnds
<1>8. CASE ~Answered.ok /\ task[c].todo # {}
    <2> DEFINE v == [task[c] EXCEPT !.pc = "undo"]
    <2>1. UNCHANGED leaseVars /\ Call(c, "close", t) /\ Await(c, "undo")
        BY <1>8 DEF RootAttached, AttachFailed
    <2>2. v \in TaskState /\ v.pc = "undo" /\ v.t = t
        BY <1>3 DEF TaskState, Stages, InLock
    <2>3. task' = [task EXCEPT ![c] = v]
        BY <1>3, <2>1 DEF IInv, TypeOK, TaskState, Await
    <2> HIDE DEF v
    <2>4. Strays' = Strays /\ roots' \subseteq born /\ UNCHANGED lease
        BY <1>1, <2>1 DEF Strays, browserVars, leaseVars, HInv, RootsAreBorn
    <2>5. Call(c, Asks(v.pc), t)
        BY <2>1, <2>2 DEF Asks
    <2> QED
        BY <1>1, <1>2, <1>4, <1>5, <2>2, <2>3, <2>4, <2>5, AcquireForgetsNothing
<1> QED
    BY <1>6, <1>7, <1>8

LEMMA RootUndoneForgets == ASSUME IInv, SInv, HInv, NEW c \in Controls, RootUndone(c) PROVE HInv'
<1>1. /\ Resumes(c, "undo") /\ Done(c)
      /\ UNCHANGED <<browserVars, sent, ownVars, lease, created, roots, unlisted>>
      /\ unclosed' = IF Answered.ok THEN unclosed ELSE unclosed \cup ({task[c].t} \cap live)
    BY DEF RootUndone
<1>2. "undo" \in InLock
    BY DEF InLock
<1>3. /\ task[c].pc = "undo" /\ c \in Tasks /\ TrueOf(1) /\ IsAnswer(1) /\ wire[1] = Answered
      /\ Answered.task = c /\ \A k \in Tasks \ {c} : task[k].pc \notin InLock
      /\ \A r \in Strays : (Leased /\ lease.root = r) \/ task[c].t = r
    BY <1>1, <1>2, Holder
<1>4. task[c].t \notin Strays' /\ Strays' \subseteq Strays
    <2>1. Answered.ok => task[c].t \notin live
        BY <1>3 DEF TrueOf
    <2> QED
        BY <1>1, <2>1 DEF Strays, browserVars
<1>5. ASSUME NEW r \in Strays' PROVE Leased' /\ lease'.root = r /\ (created' \/ lease'.root \in owned')
    <2>1. Leased /\ lease.root = r /\ r \in Strays
        BY <1>3, <1>4
    <2>2. ~\E k \in Tasks : task[k].pc = "adopt"
        BY <1>3 DEF InLock
    <2>3. created \/ lease.root \in owned
        BY <2>1, <2>2 DEF HInv, Listed
    <2> QED
        BY <1>1, <2>1, <2>3 DEF Leased, ownVars
<1>6. roots' \subseteq born
    BY <1>1 DEF HInv, RootsAreBorn
<1> QED
    BY <1>1, <1>2, <1>5, <1>6, HolderEnds

LEMMA AdoptedForgets ==
    ASSUME IInv, SInv, HInv, NEW c \in Controls, Reacquired(c) \/ RootAdopted(c) PROVE HInv'
<1>1. PICK pc \in {"reacquire", "adopt"} :
        /\ Resumes(c, pc)
        /\ pc = "reacquire" => UNCHANGED unlisted
        /\ pc = "adopt" => unlisted' = IF Answered.ok \/ created THEN unlisted
                                       ELSE unlisted \cup {lease.root}
    BY DEF Reacquired, RootAdopted, leaseVars
<1>2. /\ Done(c) /\ UNCHANGED <<browserVars, sent, lease, created, roots, unclosed>>
      /\ IF Answered.ok THEN Refresh(Answered.live) ELSE UNCHANGED ownVars
    BY DEF Reacquired, RootAdopted, leaseVars
<1>3. pc \in InLock /\ pc \notin {"attach", "undo"}
    BY DEF InLock
<1>4. c \in Tasks /\ task[c].pc = pc /\ \A k \in Tasks \ {c} : task[k].pc \notin InLock
    BY <1>1, <1>3, Holder
<1>5. \A r \in Strays : Leased /\ lease.root = r
    BY <1>1, <1>3, Holder
<1>6. Strays' \subseteq Strays /\ roots' \subseteq born
    BY <1>1, <1>2 DEF Strays, browserVars, HInv, RootsAreBorn
<1>7. ASSUME NEW r \in Strays' PROVE Leased' /\ lease'.root = r /\ (created' \/ lease'.root \in owned')
    <2>1. Leased /\ lease.root = r /\ r \in Strays
        BY <1>5, <1>6
    <2>2. CASE Answered.ok
        BY <1>2, <2>1, <2>2, RootOfTree DEF Refresh, Leased
    <2>3. CASE ~Answered.ok /\ pc = "adopt"
        BY <1>1, <1>2, <1>7, <2>1, <2>3 DEF Strays, Leased
    <2>4. CASE ~Answered.ok /\ pc = "reacquire"
        <3>1. ~\E k \in Tasks : task[k].pc = "adopt"
            BY <1>4, <2>4 DEF InLock
        <3>2. created \/ lease.root \in owned
            BY <2>1, <3>1 DEF HInv, Listed
        <3> QED
            BY <1>2, <2>1, <2>4, <3>2 DEF Leased, ownVars
    <2> QED
        BY <2>2, <2>3, <2>4
<1> QED
    BY <1>1, <1>2, <1>3, <1>6, <1>7, HolderEnds

\* Release goes on to close the pages of the list T, the root among them.
LEMMA CloseForgetsNothing ==
    ASSUME IInv, SInv, HInv, NEW c \in Controls, NEW pc \in {"release", "close"}, Resumes(c, pc),
           UNCHANGED <<browserVars, lease, roots, created, unlisted>>, unclosed \subseteq unclosed',
           Refresh(Answered.live) \/ UNCHANGED ownVars,
           NEW T \in SUBSET Mine, NEW t \in T, t \in Place, Call(c, "close", t),
           NEW v \in TaskState, task' = [task EXCEPT ![c] = v], v.pc = "close", v.t = t, v.todo = T,
           \A r \in Strays' : r \in T
    PROVE  HInv'
<1>1. pc \in InLock /\ pc \notin {"attach", "undo"} /\ pc # "adopt"
    BY DEF InLock
<1>2. c \in Tasks /\ task[c].pc = pc /\ lock = c /\ \A k \in Tasks \ {c} : task[k].pc \notin InLock
    BY <1>1, Holder
<1>3. \A r \in Strays : Leased /\ lease.root = r
    BY <1>1, Holder
<1>4. task'[c] = v /\ \A k \in Tasks \ {c} : task'[k].pc \notin InLock
    BY <1>2 DEF IInv, TypeOK
<1>5. Strays' \subseteq Strays /\ roots' \subseteq born /\ Leased' = Leased
    BY DEF Strays, browserVars, HInv, RootsAreBorn, Leased
<1>6. InHand' /\ FoundIsNoStray'
    BY <1>3, <1>4, <1>5 DEF InHand, FoundIsNoStray, InLock
<1>7. Listed'
    <2> SUFFICES ASSUME Leased, lease.root \in Strays'
                 PROVE  /\ created \/ lease.root \in owned'
                        /\ \A k \in Tasks :
                             /\ task'[k].pc = "release" => created \/ lease.root \in task'[k].todo
                             /\ task'[k].pc = "close" => lease.root \in task'[k].todo
        BY <1>5 DEF Listed
    <2>1. ~\E k \in Tasks : task[k].pc = "adopt"
        BY <1>1, <1>2 DEF InLock
    <2>2. created \/ lease.root \in owned
        BY <1>5, <2>1 DEF HInv, Listed
    <2>3. lease.root \in owned => lease.root \in owned'
        BY RootOfTree DEF Refresh, ownVars
    <2>4. \A k \in Tasks : /\ task'[k].pc = "release" => created \/ lease.root \in task'[k].todo
                           /\ task'[k].pc = "close" => lease.root \in task'[k].todo
        BY <1>4 DEF InLock
    <2> QED
        BY <2>2, <2>3, <2>4
<1>8. t \in born
    <2>1. \A r \in roots : Family(r) \subseteq born
        BY DEF HInv, RootsAreBorn, Family, Tree
    <2> QED
        BY <2>1 DEF Mine
<1>9. "close" = Asks(v.pc) /\ "close" \in Ops
    BY DEF Asks, Ops
<1> QED
    BY <1>2, <1>5, <1>6, <1>7, <1>8, <1>9, ResumeForgetsNothing

LEMMA TreeListedForgets == ASSUME IInv, SInv, HInv, NEW c \in Controls, TreeListed(c) PROVE HInv'
<1>1. Resumes(c, "release") /\ UNCHANGED <<browserVars, roots, unclosed, unlisted>>
    BY DEF TreeListed
<1>2. "release" \in InLock
    BY DEF InLock
<1>3. /\ task[c].pc = "release" /\ c \in Tasks /\ task[c] \in TaskState
      /\ TrueOf(1) /\ IsAnswer(1) /\ wire[1] = Answered /\ Answered.task = c
    BY <1>1, <1>2, Holder
<1>4. \A r \in Strays : Leased /\ lease.root = r
    BY <1>1, <1>2, Holder
<1>5. Strays' = Strays /\ roots' \subseteq born
    BY <1>1 DEF Strays, browserVars, HInv, RootsAreBorn
\* The root is in the inventory, or in the list kept from before it failed.
<1>6. ASSUME NEW r \in Strays PROVE r \in ToClose(c)
    <2>1. lease.root = r /\ Leased /\ r \in live
        BY <1>4 DEF Strays
    <2>2. CASE Answered.ok
        BY <1>3, <2>1, <2>2, RootOfTree DEF TrueOf, ToClose
    <2>3. CASE ~Answered.ok
        <3>1. created \/ lease.root \in task[c].todo
            BY <1>3, <1>6, <2>1 DEF HInv, Listed
        <3> QED
            BY <2>1, <2>3, <3>1 DEF ToClose
    <2> QED
        BY <2>2, <2>3
<1>7. CASE ToClose(c) = {}
    <2>1. LeaseDropped /\ Done(c) /\ UNCHANGED sent
        BY <1>7 DEF TreeListed
    <2>2. Strays' = {}
        BY <1>5, <1>6, <1>7
    <2> QED
        BY <1>1, <1>2, <1>5, <2>1, <2>2, HolderEnds
<1>8. CASE ToClose(c) # {}
    <2>1. PICK t \in Deepest(ToClose(c), Known(c)) :
            /\ task' = [task EXCEPT ![c].pc = "close", ![c].t = t,
                          ![c].known = Known(c), ![c].todo = ToClose(c)]
            /\ Call(c, "close", t)
            /\ Refresh(Answered.live) \/ UNCHANGED ownVars
            /\ UNCHANGED <<lease, sessions, created, lock>>
        BY <1>8 DEF TreeListed
    <2>2. Leased /\ Answered.live \in SUBSET born /\ Tree(lease.root, Answered.live) \subseteq Mine
        <3>1. Leased
            BY <1>3 DEF IInv, LockHeld
        <3> QED
            BY <1>1, <1>3, <3>1, Brought
    <2>3. lease.root \in Mine /\ lease.root \in Place /\ task[c].todo \subseteq Mine
          /\ task[c].todo \subseteq Place
        BY <1>3, <2>2, RootIsMine DEF IInv, LeaseIsRoot, TypeOK, KeptIsMine, Keeps, TaskState
    <2>4. Answered.live \subseteq Place /\ Known(c) \subseteq Place
        BY <1>3, <2>2 DEF Known, IInv, TypeOK, Place, TaskState
    <2>5. ToClose(c) \in SUBSET Mine /\ ToClose(c) \subseteq Place
        BY <2>2, <2>3, <2>4 DEF ToClose
    <2>6. t \in ToClose(c) /\ t \in Place
        BY <2>1, <2>5 DEF Deepest
    <2> DEFINE v == [task[c] EXCEPT !.pc = "close", !.t = t, !.known = Known(c), !.todo = ToClose(c)]
    <2>7. v \in TaskState /\ v.pc = "close" /\ v.t = t /\ v.todo = ToClose(c)
        BY <1>3, <2>4, <2>5, <2>6 DEF TaskState, Stages, InLock
    <2>8. task' = [task EXCEPT ![c] = v]
        BY <1>3, <2>1 DEF IInv, TypeOK, TaskState
    <2> HIDE DEF v
    <2> QED
        BY <1>1, <1>5, <1>6, <2>1, <2>5, <2>6, <2>7, <2>8, CloseForgetsNothing
<1> QED
    BY <1>7, <1>8

LEMMA TargetClosedForgets == ASSUME IInv, SInv, HInv, NEW c \in Controls, TargetClosed(c) PROVE HInv'
<1>1. /\ Resumes(c, "close") /\ UNCHANGED <<browserVars, roots, unlisted>>
      /\ unclosed' = IF Answered.ok THEN unclosed ELSE unclosed \cup ({task[c].t} \cap live)
    BY DEF TargetClosed
<1>2. "close" \in InLock
    BY DEF InLock
<1>3. /\ task[c].pc = "close" /\ c \in Tasks /\ task[c] \in TaskState
      /\ TrueOf(1) /\ IsAnswer(1) /\ wire[1] = Answered /\ Answered.task = c
    BY <1>1, <1>2, Holder
<1>4. \A r \in Strays : Leased /\ lease.root = r
    BY <1>1, <1>2, Holder
<1>5. Strays' \subseteq Strays /\ task[c].t \notin Strays' /\ roots' \subseteq born
      /\ unclosed \subseteq unclosed'
    <2>1. Answered.ok => task[c].t \notin live
        BY <1>3 DEF TrueOf
    <2> QED
        BY <1>1, <2>1 DEF Strays, browserVars, HInv, RootsAreBorn
<1>6. ASSUME NEW r \in Strays' PROVE r \in Rest(c)
    <2>1. lease.root = r /\ Leased /\ r \in Strays
        BY <1>4, <1>5
    <2>2. r \in task[c].todo
        BY <1>3, <2>1 DEF HInv, Listed
    <2> QED
        BY <1>5, <2>2 DEF Rest
<1>7. CASE Rest(c) = {}
    <2>1. LeaseDropped /\ Done(c) /\ UNCHANGED sent
        BY <1>7 DEF TargetClosed
    <2>2. Strays' = {}
        BY <1>6, <1>7
    <2> QED
        BY <1>1, <1>2, <1>5, <2>1, <2>2, HolderEnds
<1>8. CASE Rest(c) # {}
    <2>1. PICK t \in Deepest(Rest(c), task[c].known) :
            /\ task' = [task EXCEPT ![c].t = t, ![c].todo = Rest(c)]
            /\ Call(c, "close", t)
            /\ UNCHANGED <<ownVars, lease, sessions, created, lock>>
        BY <1>8 DEF TargetClosed
    <2>2. Rest(c) \in SUBSET Mine /\ Rest(c) \subseteq Place
        BY <1>3 DEF Rest, IInv, KeptIsMine, Keeps, TaskState
    <2>3. t \in Rest(c) /\ t \in Place
        BY <2>1, <2>2 DEF Deepest
    <2> DEFINE v == [task[c] EXCEPT !.t = t, !.todo = Rest(c)]
    <2>4. v \in TaskState /\ v.pc = "close" /\ v.t = t /\ v.todo = Rest(c)
        BY <1>3, <2>2, <2>3 DEF TaskState
    <2>5. task' = [task EXCEPT ![c] = v]
        BY <1>3, <2>1 DEF IInv, TypeOK, TaskState
    <2> HIDE DEF v
    <2> QED
        BY <1>1, <1>5, <1>6, <2>1, <2>2, <2>3, <2>4, <2>5, CloseForgetsNothing
<1> QED
    BY <1>7, <1>8

\* Status, health and the agent's calls: a refresh keeps the root in the lists.
LEMMA BystanderEnds ==
    ASSUME IInv, HInv, NEW k \in Tasks,
           \/ k \in Controls /\ StatusTold(k)
           \/ k \in Agents /\ \/ AgentLists(k) \/ AgentMayAttach(k) \/ AgentAttached(k)
                              \/ AgentSelects(k) \/ AgentCommanded(k)
    PROVE  HInv'
<1>1. PICK pc \in {"status", "health", "list", "may attach", "attaching", "may select", "command"} :
        Resumes(k, pc)
    BY DEF StatusTold, AgentLists, AgentMayAttach, AgentAttached, AgentSelects, AgentCommanded
<1>2. pc \notin InLock
    BY DEF InLock
<1>3. /\ UNCHANGED <<browserVars, lease, created, roots, unclosed, unlisted>>
      /\ Refresh(Answered.live) \/ UNCHANGED ownVars \/ ~Leased
    BY DEF StatusTold, AgentLists, AgentMayAttach, AgentAttached, AgentSelects, AgentCommanded, leaseVars
<1>4. CASE Done(k) /\ UNCHANGED sent
    <2>1. Idle \in TaskState /\ Idle.pc \notin InLock /\ task' = [task EXCEPT ![k] = Idle]
        BY <1>4, IdleTyped DEF Idle, InLock, Done
    <2> HIDE DEF Idle
    <2> QED
        BY <1>1, <1>2, <1>3, <1>4, <2>1, BystanderForgetsNothing
<1>5. CASE Await(k, "attaching") /\ Call(k, "attach", task[k].t)
    <2> DEFINE v == [task[k] EXCEPT !.pc = "attaching"]
    <2>1. task[k] \in TaskState /\ task[k].t \in Place
        BY DEF IInv, TypeOK, TaskState
    <2>2. v \in TaskState /\ v.pc = "attaching" /\ task' = [task EXCEPT ![k] = v]
        BY <1>5, <2>1 DEF IInv, TypeOK, TaskState, Stages, Await
    <2> HIDE DEF v
    <2>3. v.pc \notin InLock /\ Asks(v.pc) = "attach" /\ "attach" \in Ops
        BY <2>2 DEF InLock, Asks, Ops
    <2> QED
        BY <1>1, <1>2, <1>3, <1>5, <2>1, <2>2, <2>3, BystanderForgetsNothing
<1> QED
    BY <1>4, <1>5 DEF StatusTold, AgentLists, AgentMayAttach, AgentAttached, AgentSelects, AgentCommanded

LEMMA AsksForget ==
    ASSUME IInv, HInv,
           \/ \E c \in Controls : \/ \E q \in Requests : AcquireRoot(c, q)
                                  \/ ReleaseRoot(c)
                                  \/ \E pc \in Probes : AskStatus(c, pc)
           \/ \E a \in Agents, t \in Targets \cup {NoTarget} :
                \/ \E pc \in {"list", "may attach", "may select"} : AgentAsks(a, pc, t)
                \/ AgentCommands(a, t)
    PROVE  HInv'
<1>1. "targets" \in Ops /\ "command" \in Ops /\ NoTarget \in Place /\ Controls \cup Agents = Tasks
      /\ Targets \cup {NoTarget} = Place
    BY DEF Ops, Place, Tasks
<1>2. ASSUME NEW k \in Tasks, NEW v \in TaskState, task[k].pc = "idle", task' = [task EXCEPT ![k] = v],
             UNCHANGED <<browserVars, wire, ownVars, leaseVars>>,
             NEW t \in Place,
             \/ /\ Call(k, "targets", t)
                /\ v.pc \in {"reacquire", "inventory", "status", "health", "list", "may attach",
                             "may select"}
             \/ Call(k, "targets", t) /\ v.pc = "release" /\ v.todo = owned /\ lock = Free
             \/ Call(k, "command", t) /\ v.pc = "command"
      PROVE  HInv'
    <2>1. v.pc \notin {"attach", "undo", "close"} /\ (v.pc = "release" => v.todo = owned /\ lock = Free)
        BY <1>2
    <2>2. Call(k, Asks(v.pc), t) /\ Asks(v.pc) \in Ops
        BY <1>1, <1>2 DEF Asks
    <2> QED
        BY <1>2, <2>1, <2>2, AskForgetsNothing
<1>3. ASSUME NEW c \in Controls, NEW q \in Requests, AcquireRoot(c, q) PROVE HInv'
    <2> DEFINE v == [Idle EXCEPT !.pc = IF Leased THEN "reacquire" ELSE "inventory", !.req = q]
    <2>1. v \in TaskState /\ v.pc \in {"reacquire", "inventory"}
        BY IdleTyped DEF Idle, TaskState, Stages, InLock
    <2>2. task' = [task EXCEPT ![c] = v] /\ task[c].pc = "idle" /\ Call(c, "targets", NoTarget)
          /\ UNCHANGED <<browserVars, wire, ownVars, leaseVars>>
        BY <1>3 DEF AcquireRoot
    <2> HIDE DEF v
    <2> QED
        BY <1>1, <1>2, <2>1, <2>2
<1>4. ASSUME NEW c \in Controls, ReleaseRoot(c) PROVE HInv'
    <2> DEFINE v == [Idle EXCEPT !.pc = "release", !.known = infos, !.todo = owned]
    <2>1. v \in TaskState /\ v.pc = "release" /\ v.todo = owned
        BY IdleTyped DEF Idle, TaskState, Stages, InLock, IInv, TypeOK
    <2>2. task' = [task EXCEPT ![c] = v] /\ task[c].pc = "idle" /\ Call(c, "targets", NoTarget)
          /\ UNCHANGED <<browserVars, wire, ownVars, leaseVars>> /\ lock = Free
        BY <1>4 DEF ReleaseRoot
    <2> HIDE DEF v
    <2> QED
        BY <1>1, <1>2, <2>1, <2>2
<1>5. ASSUME NEW c \in Controls, NEW pc \in Probes, AskStatus(c, pc) PROVE HInv'
    <2> DEFINE v == [Idle EXCEPT !.pc = pc]
    <2>1. pc \in {"status", "health"}
        BY LeaseAssumption
    <2>2. v \in TaskState /\ v.pc = pc
        BY <2>1, IdleTyped DEF Idle, TaskState, Stages
    <2>3. task' = [task EXCEPT ![c] = v] /\ task[c].pc = "idle" /\ Call(c, "targets", NoTarget)
          /\ UNCHANGED <<browserVars, wire, ownVars, leaseVars>>
        BY <1>5 DEF AskStatus
    <2> HIDE DEF v
    <2> QED
        BY <1>1, <1>2, <2>1, <2>2, <2>3
<1>6. ASSUME NEW a \in Agents, NEW t \in Targets \cup {NoTarget},
             \/ \E pc \in {"list", "may attach", "may select"} : AgentAsks(a, pc, t)
             \/ AgentCommands(a, t)
      PROVE  HInv'
    <2>1. PICK pc \in {"list", "may attach", "may select", "command"} :
            /\ task[a].pc = "idle" /\ task' = [task EXCEPT ![a] = [Idle EXCEPT !.pc = pc, !.t = t]]
            /\ IF pc = "command" THEN Call(a, "command", t) ELSE Call(a, "targets", NoTarget)
            /\ UNCHANGED <<browserVars, wire, ownVars, leaseVars>>
        BY <1>6 DEF AgentAsks, AgentCommands
    <2> DEFINE v == [Idle EXCEPT !.pc = pc, !.t = t]
    <2>2. v \in TaskState /\ v.pc = pc
        BY IdleTyped DEF Idle, TaskState, Stages, Place
    <2>3. task' = [task EXCEPT ![a] = v]
        BY <2>1
    <2> HIDE DEF v
    <2> QED
        BY <1>1, <1>2, <2>1, <2>2, <2>3
<1> QED
    BY <1>3, <1>4, <1>5, <1>6

LEMMA NextForgets == IInv /\ SInv /\ HInv /\ [Next]_vars => HInv'
<1> SUFFICES ASSUME IInv, SInv, HInv, [Next]_vars PROVE HInv'
    OBVIOUS
<1>0. TypeOK /\ born \subseteq Targets /\ live \subseteq born
    BY DEF IInv, TypeOK
<1>1. ASSUME NEW o \in Targets, NEW t \in Targets, PageOpens(o, t) PROVE HInv'
    <2>1. Told(wire') /\ live' \cap born \subseteq live /\ born \subseteq born'
        BY <1>0, <1>1, EventTold DEF PageOpens
    <2> QED
        BY <1>1, <2>1, EventForgetsNothing DEF PageOpens
<1>2. ASSUME NEW t \in Targets, PageCloses(t) PROVE HInv'
    <2>1. Told(wire') /\ live' \cap born \subseteq live /\ born \subseteq born'
        BY <1>0, <1>2, EventTold DEF PageCloses
    <2> QED
        BY <1>2, <2>1, EventForgetsNothing DEF PageCloses
<1>3. CASE BrowserAnswers
    <2>1. \E w, m : Answers(w, m)
        BY <1>3, BrowserTells
    <2> QED
        BY <1>3, <2>1, AnswerForgetsNothing DEF BrowserAnswers
<1>4. CASE Receive
    BY <1>4, ReceiveForgetsNothing
<1>5. CASE \E c \in Controls : ControlRuns(c)
    BY <1>5, RootChosenForgets, RootCreatedForgets, RootAttachedForgets, RootUndoneForgets,
       AdoptedForgets, TreeListedForgets, TargetClosedForgets, BystanderEnds DEF ControlRuns, Tasks
<1>6. CASE \E a \in Agents : AgentRuns(a)
    BY <1>6, BystanderEnds DEF AgentRuns, Tasks
<1>7. CASE \/ \E c \in Controls : \/ \E q \in Requests : AcquireRoot(c, q)
                                  \/ ReleaseRoot(c)
                                  \/ \E pc \in Probes : AskStatus(c, pc)
           \/ \E a \in Agents, t \in Targets \cup {NoTarget} :
                \/ \E pc \in {"list", "may attach", "may select"} : AgentAsks(a, pc, t)
                \/ AgentCommands(a, t)
    BY <1>7, AsksForget
<1>8. CASE UNCHANGED vars
    <2>1. UNCHANGED <<sent, ownVars, leaseVars, lock, task, live, born, wire>>
        BY <1>8 DEF vars, browserVars, wireVars
    <2>2. Told(wire')
        BY <1>0, <2>1 DEF Told, TypeOK, Messages
    <2> QED
        BY <2>1, <2>2, EventForgetsNothing
<1> QED
    BY <1>1, <1>2, <1>3, <1>4, <1>5, <1>6, <1>7, <1>8 DEF Next, Daemon

LEMMA InitForgets == Init => HInv
<1> SUFFICES ASSUME Init PROVE HInv
    OBVIOUS
<1>1. Len(sent) = 0 /\ Len(wire) = 0 /\ \A k \in Tasks : task[k].pc = "idle"
    BY DEF Init, Idle
<1>2. ~Leased /\ roots = {}
    BY DEF Init, Leased
<1> QED
    BY <1>1, <1>2 DEF HInv, SentIsAwaited, AnswersAreTrue, RootsAreBorn, InHand, FoundIsNoStray,
                      Listed, Strays

\* A page that was leased or created as a root and is still open is the root of the lease, or
\* in the hands of the control call that holds the lock, or the browser refused to close it,
\* or acquire had found it and got no inventory of its tree: however many calls fail.
THEOREM NoRootIsForgotten == Spec => []NoStrayRoot
<1>1. IInv /\ HInv => NoStrayRoot
    <2> SUFFICES ASSUME IInv, HInv, NEW r \in Strays
                 PROVE  (Leased /\ lease.root = r) \/ (lock # Free /\ task[lock].t = r)
        BY DEF NoStrayRoot, Strays
    <2>1. CASE \E k \in Tasks : task[k].pc \in {"attach", "undo"} /\ task[k].t = r
        BY <2>1, LeaseAssumption DEF IInv, LockHeld, InLock
    <2> QED
        BY <2>1 DEF HInv, InHand
<1> QED
    BY InitInv, NextInv, InitLease, NextLease, InitForgets, NextForgets, <1>1, PTL DEF Spec

-----------------------------------------------------------------------------
(* Release closes the tree it knew.                                        *)

\* What asks for an inventory without the lock, and refreshes the lists with it.
Refreshers == {"status", "list", "may attach", "may select"}

\* Their inventories are of the time before acquire created a page.
AsksAhead == \A k, c \in Tasks : task[k].pc \in Refreshers =>
    /\ task[c].pc = "inventory" => Ahead(k, c)
    /\ task[c].pc \notin {"create", "attach"}

OpenersAreBorn == \A x \in Targets : opener[x] # NoTarget => opener[x] \in born

KnownAreBorn == infos \subseteq born /\ \A k \in Tasks : task[k].known \subseteq born

Mentions(i) == IF IsAnswer(i) THEN wire[i].live ELSE {wire[i].t}

\* Who reads of a page, on the wire or in the daemon's lists, has read of its opener before.
ParentsFirst == \A i, j \in 1..Len(wire) :
    i < j /\ wire[j].event = "created" => \A x \in Mentions(i) : opener[x] # wire[j].t
InfosHaveParents == \A j \in 1..Len(wire) :
    wire[j].event = "created" => \A x \in infos : opener[x] # wire[j].t

\* No page that was opened by the page acquire has created is in the lists so far.
FreshRoot == \A c \in Tasks :
    /\ task[c].pc = "attach" /\ task[c].todo # {} => \A x \in infos : opener[x] # task[c].t
    /\ task[c].pc = "create" => \A i \in 1..Len(wire) :
         IsAnswer(i) /\ wire[i].task = c /\ wire[i].ok => \A x \in infos : opener[x] # wire[i].t

OInv == OpenersAreBorn /\ KnownAreBorn /\ ParentsFirst /\ InfosHaveParents /\ AsksAhead /\ FreshRoot

\* The daemon owns the tree it can read in its lists.
Listing == created \/ \A k \in Tasks : task[k].pc # "adopt"
TreeIsOwned == Leased /\ lease.root \notin unlisted /\ Listing =>
    Tree(lease.root, infos) \subseteq owned \cup {lease.root}

\* What release knows and has not closed is in its list.
ReleaseKnows == \A c \in Tasks : Leased /\ lease.root \notin unlisted =>
    /\ task[c].pc = "release" =>
         Tree(lease.root, task[c].known) \subseteq task[c].todo \cup {lease.root}
    /\ task[c].pc = "close" =>
         Tree(lease.root, task[c].known) \cap live \subseteq task[c].todo \cup unclosed

CInv == TreeIsOwned /\ ReleaseKnows

\* A coroutine resumes, and what it may go on with.
Moves(k, pc, v) ==
    /\ Resumes(k, pc) /\ v \in TaskState /\ task' = [task EXCEPT ![k] = v] /\ UNCHANGED browserVars
    /\ sent' = sent \/ \E m \in CallTo : sent' = Append(sent, m)
    /\ infos' = infos \/ infos' = {} \/ (Answered.live \subseteq born /\ infos' = Answered.live)
    /\ v.known \in {task[k].known, {}} \/ (Answered.live \subseteq born /\ v.known = Answered.live)
    /\ v.pc \in {"idle", "attaching", "undo", "adopt", "close", "create", "attach"}
    /\ v.pc = "create" => pc = "inventory"
    /\ v.pc = "attach" /\ v.todo # {} => pc = "create" /\ Answered.ok /\ v.t = Answered.t
    /\ v.pc = "attach" => pc \in {"inventory", "create"}
    /\ infos' # infos => \/ pc \in Refreshers \cup (InLock \ {"inventory", "create", "attach"})
                         \/ pc = "health" /\ Leased

LEMMA ControlMoves ==
    ASSUME IInv, NEW c \in Controls, ControlRuns(c) PROVE \E pc, v : Moves(c, pc, v)
<1>1. /\ c \in Tasks /\ task[c] \in TaskState
      /\ task[c].pc \in {"inventory", "create"} => task[c].todo = {}
    BY DEF Tasks, IInv, TypeOK, KeptIsMine, Keeps
<1>2. \A pc : Resumes(c, pc) => Answered.live \subseteq born /\ Answered \in AnswerTo
                                /\ Answered.marked \subseteq Targets
    BY <1>1, Brought
<1>3. /\ \A op \in Ops, t \in Place : Call(c, op, t) => \E m \in CallTo : sent' = Append(sent, m)
      /\ {"targets", "create", "attach", "close"} \subseteq Ops /\ NoTarget \in Place
      /\ Targets \subseteq Place
    BY <1>1 DEF Call, CallTo, Ops, Place
<1>4. Idle \in TaskState /\ Idle.pc = "idle" /\ Idle.known = {}
    BY IdleTyped DEF Idle
<1> DEFINE Ends == Done(c) /\ UNCHANGED sent
<1>5. ASSUME NEW pc, Resumes(c, pc), Ends, UNCHANGED browserVars,
             infos' = infos \/ infos' = {} \/ infos' = Answered.live,
             infos' # infos => \/ pc \in Refreshers \cup (InLock \ {"inventory", "create", "attach"})
                               \/ pc = "health" /\ Leased
      PROVE  \E p, v : Moves(c, p, v)
    <2>1. task' = [task EXCEPT ![c] = Idle]
        BY <1>5 DEF Done
    <2> HIDE DEF Idle
    <2>2. Moves(c, pc, Idle)
        BY <1>2, <1>4, <1>5, <2>1 DEF Moves
    <2> QED
        BY <2>2
<1> HIDE DEF Ends
<1>6. CASE Reacquired(c)
    BY <1>5, <1>6 DEF Reacquired, Refresh, ownVars, InLock, Ends
<1>7. CASE StatusTold(c)
    BY <1>5, <1>7 DEF StatusTold, Refresh, ownVars, Refreshers, Ends, Resumes
<1>8. CASE RootUndone(c) \/ RootAdopted(c)
    BY <1>5, <1>8 DEF RootUndone, RootAdopted, Refresh, ownVars, InLock, Ends
<1>9. CASE RootChosen(c)
    <2>1. Resumes(c, "inventory") /\ UNCHANGED <<browserVars, infos>>
        BY <1>9 DEF RootChosen, ownVars
    <2>2. ASSUME NEW t \in Answered.marked, Call(c, "attach", t),
                 task' = [task EXCEPT ![c].pc = "attach", ![c].t = t]
          PROVE  \E pc, v : Moves(c, pc, v)
        <3> DEFINE v == [task[c] EXCEPT !.pc = "attach", !.t = t]
        <3>1. t \in Place
            BY <1>2, <1>3, <2>1, <2>2
        <3>2. v \in TaskState /\ v.pc = "attach" /\ v.known = task[c].known /\ v.todo = task[c].todo
            BY <1>1, <3>1 DEF TaskState, Stages, InLock
        <3>3. task' = [task EXCEPT ![c] = v]
            BY <1>1, <2>2 DEF IInv, TypeOK, TaskState
        <3> HIDE DEF v
        <3>4. task[c].todo = {}
            BY <1>1, <2>1 DEF Resumes
        <3>5. Moves(c, "inventory", v)
            BY <1>3, <2>1, <2>2, <3>1, <3>2, <3>3, <3>4 DEF Moves
        <3> QED
            BY <3>5
    <2>3. CASE Await(c, "create") /\ Call(c, "create", NoTarget)
        <3> DEFINE v == [task[c] EXCEPT !.pc = "create"]
        <3>1. v \in TaskState /\ v.pc = "create" /\ v.known = task[c].known
            BY <1>1 DEF TaskState, Stages, InLock
        <3>2. task' = [task EXCEPT ![c] = v]
            BY <1>1, <2>3 DEF IInv, TypeOK, TaskState, Await
        <3> HIDE DEF v
        <3>3. Moves(c, "inventory", v)
            BY <1>3, <2>1, <2>3, <3>1, <3>2 DEF Moves
        <3> QED
            BY <3>3
    <2>4. CASE Ends
        BY <1>5, <2>1, <2>4
    <2> QED
        BY <1>9, <2>2, <2>3, <2>4 DEF RootChosen, Ends
<1>10. CASE RootCreated(c)
    <2>1. Resumes(c, "create") /\ UNCHANGED <<browserVars, infos>>
        BY <1>10 DEF RootCreated, ownVars
    <2>2. CASE Answered.ok
        <3> DEFINE t == Answered.t
                   v == [task[c] EXCEPT !.pc = "attach", !.t = t, !.todo = {t}]
        <3>1. Call(c, "attach", t) /\ task' = [task EXCEPT ![c].pc = "attach", ![c].t = t, ![c].todo = {t}]
            BY <1>10, <2>2 DEF RootCreated
        <3>2. t \in Place
            BY <1>2, <2>1 DEF AnswerTo
        <3> HIDE DEF t
        <3>3. v \in TaskState /\ v.pc = "attach" /\ v.known = task[c].known /\ v.t = t
            BY <1>1, <3>2 DEF TaskState, Stages, InLock
        <3>4. task' = [task EXCEPT ![c] = v]
            BY <1>1, <3>1 DEF IInv, TypeOK, TaskState
        <3> HIDE DEF v
        <3>5. Moves(c, "create", v)
            BY <1>3, <2>1, <2>2, <3>1, <3>2, <3>3, <3>4 DEF Moves, t
        <3> QED
            BY <3>5
    <2>3. CASE ~Answered.ok
        BY <1>5, <1>10, <2>1, <2>3 DEF RootCreated, Ends
    <2> QED
        BY <2>2, <2>3
<1>11. CASE RootAttached(c)
    <2>1. Resumes(c, "attach") /\ UNCHANGED <<browserVars, infos>>
        BY <1>11 DEF RootAttached, ownVars
    <2>2. ASSUME NEW npc \in {"adopt", "undo"}, NEW op \in Ops, NEW t \in Place,
                 Call(c, op, t), Await(c, npc)
          PROVE  \E pc, v : Moves(c, pc, v)
        <3> DEFINE v == [task[c] EXCEPT !.pc = npc]
        <3>1. v \in TaskState /\ v.pc = npc /\ v.known = task[c].known
            BY <1>1 DEF TaskState, Stages, InLock
        <3>2. task' = [task EXCEPT ![c] = v]
            BY <1>1, <2>2 DEF IInv, TypeOK, TaskState, Await
        <3> HIDE DEF v
        <3>3. Moves(c, "attach", v)
            BY <1>3, <2>1, <2>2, <3>1, <3>2 DEF Moves
        <3> QED
            BY <3>3
    <2>3. task[c].t \in Place
        BY <1>1 DEF TaskState
    <2>4. CASE Ends
        BY <1>5, <2>1, <2>4
    <2> QED
        BY <1>3, <1>11, <2>2, <2>3, <2>4 DEF RootAttached, AttachFailed, Ends
<1>12. ASSUME NEW pc \in {"release", "close"}, Resumes(c, pc), NEW t \in Place, Call(c, "close", t),
              UNCHANGED browserVars, infos' = infos \/ infos' = Answered.live,
              NEW K \in SUBSET Place, NEW T \in SUBSET Place,
              K = task[c].known \/ K = Answered.live,
              task' = [task EXCEPT ![c].pc = "close", ![c].t = t, ![c].known = K, ![c].todo = T]
       PROVE  \E p, v : Moves(c, p, v)
    <2> DEFINE v == [task[c] EXCEPT !.pc = "close", !.t = t, !.known = K, !.todo = T]
    <2>1. v \in TaskState /\ v.pc = "close" /\ v.known = K
        BY <1>1, <1>12 DEF TaskState, Stages, InLock
    <2>2. task' = [task EXCEPT ![c] = v]
        BY <1>1, <1>12 DEF IInv, TypeOK, TaskState
    <2> HIDE DEF v
    <2>3. pc \in InLock \ {"inventory", "create", "attach"}
        BY <1>12 DEF InLock
    <2>4. Moves(c, pc, v)
        BY <1>2, <1>3, <1>12, <2>1, <2>2, <2>3 DEF Moves
    <2> QED
        BY <2>4
<1>13. CASE TreeListed(c)
    <2>1. Resumes(c, "release") /\ UNCHANGED browserVars
        BY <1>13 DEF TreeListed
    <2>2. CASE ToClose(c) = {}
        BY <1>5, <1>13, <2>1, <2>2 DEF TreeListed, LeaseDropped, InLock, Ends
    <2>3. CASE ToClose(c) # {}
        <3>1. PICK t \in Deepest(ToClose(c), Known(c)) :
                /\ task' = [task EXCEPT ![c].pc = "close", ![c].t = t,
                              ![c].known = Known(c), ![c].todo = ToClose(c)]
                /\ Call(c, "close", t)
                /\ IF Answered.ok THEN Refresh(Answered.live) ELSE UNCHANGED ownVars
            BY <1>13, <2>3 DEF TreeListed
        <3>2. Leased /\ lease.root \in Place /\ born \subseteq Place
            BY <1>1, <2>1 DEF Resumes, IInv, LockHeld, LeaseIsRoot, TypeOK, Place
        <3>3. Known(c) \subseteq Place /\ (Known(c) = task[c].known \/ Known(c) = Answered.live)
            BY <1>1, <1>2, <2>1, <3>2 DEF Known, TaskState
        <3>4. ToClose(c) \subseteq Place
            BY <1>1, <1>2, <2>1, <3>2 DEF ToClose, TaskState
        <3>5. t \in Place
            BY <3>1, <3>4 DEF Deepest
        <3>6. infos' = infos \/ infos' = Answered.live
            BY <3>1 DEF Refresh, ownVars
        <3> QED
            BY <1>12, <2>1, <3>1, <3>3, <3>4, <3>5, <3>6
    <2> QED
        BY <2>2, <2>3
<1>14. CASE TargetClosed(c)
    <2>1. Resumes(c, "close") /\ UNCHANGED browserVars /\ task[c].pc = "close"
        BY <1>14 DEF TargetClosed, Resumes
    <2>2. CASE Rest(c) = {}
        BY <1>5, <1>14, <2>1, <2>2 DEF TargetClosed, LeaseDropped, InLock, Ends
    <2>3. CASE Rest(c) # {}
        <3>1. PICK t \in Deepest(Rest(c), task[c].known) :
                /\ task' = [task EXCEPT ![c].t = t, ![c].todo = Rest(c)]
                /\ Call(c, "close", t) /\ UNCHANGED infos
            BY <1>14, <2>3 DEF TargetClosed, ownVars
        <3>2. Rest(c) \subseteq Place /\ task[c].known \subseteq Place
            BY <1>1 DEF Rest, TaskState
        <3>3. t \in Place
            BY <3>1, <3>2 DEF Deepest
        <3>4. task' = [task EXCEPT ![c].pc = "close", ![c].t = t, ![c].known = task[c].known,
                                   ![c].todo = Rest(c)]
            BY <1>1, <2>1, <3>1 DEF IInv, TypeOK, TaskState
        <3> QED
            BY <1>12, <2>1, <3>1, <3>2, <3>3, <3>4
    <2> QED
        BY <2>2, <2>3
<1> QED
    BY <1>6, <1>7, <1>8, <1>9, <1>10, <1>11, <1>13, <1>14 DEF ControlRuns

LEMMA AgentMoves == ASSUME IInv, NEW a \in Agents, AgentRuns(a) PROVE \E pc, v : Moves(a, pc, v)
<1>1. a \in Tasks /\ task[a] \in TaskState
    BY DEF Tasks, IInv, TypeOK
<1>2. PICK pc \in {"list", "may attach", "attaching", "may select", "command"} :
        /\ Resumes(a, pc) /\ UNCHANGED browserVars
        /\ infos' = infos \/ (pc \in Refreshers /\ (infos' = {} \/ infos' = Answered.live))
        /\ \/ Done(a) /\ UNCHANGED sent
           \/ Await(a, "attaching") /\ Call(a, "attach", task[a].t)
    BY DEF AgentRuns, AgentLists, AgentMayAttach, AgentAttached, AgentSelects, AgentCommanded, Refresh,
           ownVars, Refreshers
<1>3. Answered.live \subseteq born
    BY <1>1, <1>2, Brought
<1>4. CASE Done(a) /\ UNCHANGED sent
    <2>1. Idle \in TaskState /\ Idle.pc = "idle" /\ Idle.known = {} /\ task' = [task EXCEPT ![a] = Idle]
        BY <1>4, IdleTyped DEF Idle, Done
    <2> HIDE DEF Idle
    <2>2. Moves(a, pc, Idle)
        BY <1>2, <1>3, <1>4, <2>1 DEF Moves
    <2> QED
        BY <2>2
<1>5. CASE Await(a, "attaching") /\ Call(a, "attach", task[a].t)
    <2> DEFINE v == [task[a] EXCEPT !.pc = "attaching"]
    <2>1. v \in TaskState /\ v.pc = "attaching" /\ v.known = task[a].known
        BY <1>1 DEF TaskState, Stages
    <2>2. task' = [task EXCEPT ![a] = v]
        BY <1>1, <1>5 DEF IInv, TypeOK, TaskState, Await
    <2>3. \E m \in CallTo : sent' = Append(sent, m)
        BY <1>1, <1>5 DEF Call, CallTo, Ops, TaskState
    <2> HIDE DEF v
    <2>4. Moves(a, pc, v)
        BY <1>2, <1>3, <2>1, <2>2, <2>3 DEF Moves
    <2> QED
        BY <2>4
<1> QED
    BY <1>2, <1>4, <1>5

-----------------------------------------------------------------------------
(* Trees.                                                                  *)

LEMMA SameTree ==
    ASSUME NEW r, NEW L, \A x \in L : opener'[x] = opener[x]
    PROVE  Tree(r, L)' = Tree(r, L)
BY DEF Tree

\* A set with the root that has all that its members opened has the tree.
LEMMA TreeLeast ==
    ASSUME NEW r, NEW L, NEW S, S \subseteq L \cup {r}, r \in S, \A x \in L : opener[x] \in S => x \in S
    PROVE  Tree(r, L) \subseteq S
BY DEF Tree

LEMMA TreeWithin == ASSUME NEW r, NEW L PROVE Tree(r, L) \subseteq L \cup {r}
BY DEF Tree

\* What is on the wire or known to the daemon was born, and so were their openers.
LEMMA MentionsAreBorn == ASSUME IInv, NEW i \in 1..Len(wire) PROVE Mentions(i) \subseteq born
BY DEF IInv, WireIsReal, Mentions

\* While the daemon does nothing and what is new on the wire is about new pages.
LEMMA WorldKeepsTrees ==
    ASSUME IInv, SInv, HInv, OInv, CInv, IInv', WorldMoves, OpenersAreBorn',
           live' \cap born \subseteq live, Len(wire) <= Len(wire'),
           \A i \in 1..Len(wire) : wire'[i] = wire[i],
           \A i \in 1..Len(wire') : i \in 1..Len(wire) \/
              /\ wire'[i].event = "created" => i = Len(wire) + 1 /\ wire'[i].t \notin born
              /\ IsAnswer(i)' /\ wire'[i].ok /\ task[wire'[i].task].pc = "create" =>
                   wire'[i].t \in born' \ born
    PROVE  OInv' /\ CInv'
<1>1. Len(wire) \in Nat /\ Len(wire') \in Nat
    BY DEF IInv, TypeOK
<1>2. UNCHANGED <<owned, infos, lease, created, unlisted, unclosed, lock, task>>
    BY DEF WorldMoves, ownVars, leaseVars
<1>3. born \subseteq born' /\ \A x \in born : opener'[x] = opener[x]
    BY DEF WorldMoves
<1>4. infos \subseteq born /\ \A k \in Tasks : task[k].known \subseteq born
    BY DEF OInv, KnownAreBorn
<1>5. NoTarget \notin born' /\ born \subseteq Targets
    BY LeaseAssumption DEF IInv, TypeOK
\* A page that is new has opened nothing yet.
<1>6. ASSUME NEW x \in born, NEW t \in born' \ born PROVE opener'[x] # t
    BY <1>3, <1>5 DEF OInv, OpenersAreBorn
<1>7. \A i \in 1..Len(wire) : Mentions(i)' = Mentions(i) /\ IsAnswer(i)' = IsAnswer(i)
    BY DEF Mentions, IsAnswer
<1>8. \A j \in 1..Len(wire') : wire'[j].event = "created" => wire'[j].t \in born'
    <2> SUFFICES ASSUME NEW j \in 1..Len(wire'), wire'[j].event = "created" PROVE wire'[j].t \in born'
        OBVIOUS
    <2> QED
        BY DEF IInv, WireIsReal, IsAnswer
<1>9. KnownAreBorn'
    BY <1>2, <1>3 DEF OInv, KnownAreBorn
<1>10. ASSUME NEW j \in 1..Len(wire'), wire'[j].event = "created",
              NEW i \in 1..Len(wire'), i < j, NEW x \in Mentions(i)'
       PROVE  opener'[x] # wire'[j].t
    <2>1. i \in 1..Len(wire)
        BY <1>1, <1>10
    <2>2. x \in Mentions(i) /\ x \in born
        BY <1>7, <1>10, <2>1, MentionsAreBorn
    <2>3. CASE j \in 1..Len(wire)
        BY <1>3, <1>10, <2>1, <2>2, <2>3 DEF OInv, ParentsFirst
    <2>4. CASE j \notin 1..Len(wire)
        BY <1>6, <1>8, <1>10, <2>2, <2>4
    <2> QED
        BY <2>3, <2>4
<1>11. ASSUME NEW j \in 1..Len(wire'), wire'[j].event = "created", NEW x \in infos
       PROVE  opener'[x] # wire'[j].t
    <2>1. CASE j \in 1..Len(wire)
        BY <1>3, <1>4, <1>11, <2>1 DEF OInv, InfosHaveParents
    <2>2. CASE j \notin 1..Len(wire)
        BY <1>4, <1>6, <1>8, <1>11, <2>2
    <2> QED
        BY <2>1, <2>2
<1>12. AsksAhead'
    BY <1>2 DEF OInv, AsksAhead, WorldMoves, OrderKept
<1>13. FreshRoot'
    <2> SUFFICES ASSUME NEW c \in Tasks
                 PROVE  /\ task[c].pc = "attach" /\ task[c].todo # {} => \A x \in infos : opener'[x] # task[c].t
                        /\ task[c].pc = "create" => \A i \in 1..Len(wire') :
                             IsAnswer(i)' /\ wire'[i].task = c /\ wire'[i].ok =>
                               \A x \in infos : opener'[x] # wire'[i].t
        BY <1>2 DEF FreshRoot
    <2>1. task[c].pc = "attach" /\ task[c].todo # {} => \A x \in infos : opener'[x] # task[c].t
        BY <1>3, <1>4 DEF OInv, FreshRoot
    <2>2. ASSUME task[c].pc = "create", NEW i \in 1..Len(wire'), IsAnswer(i)', wire'[i].task = c, wire'[i].ok,
                 NEW x \in infos
          PROVE  opener'[x] # wire'[i].t
        <3>1. CASE i \in 1..Len(wire)
            BY <1>3, <1>4, <1>7, <2>2, <3>1 DEF OInv, FreshRoot
        <3>2. CASE i \notin 1..Len(wire)
            BY <1>4, <1>6, <2>2, <3>2
        <3> QED
            BY <3>1, <3>2
    <2> QED
        BY <2>1, <2>2
<1>14. OInv'
    BY <1>2, <1>9, <1>10, <1>11, <1>12, <1>13 DEF OInv, ParentsFirst, InfosHaveParents
<1>15. \A r, L : L \subseteq born => Tree(r, L)' = Tree(r, L)
    <2> TAKE r, L
    <2> HAVE L \subseteq born
    <2> QED
        BY <1>3, SameTree
<1>16. TreeIsOwned'
    <2>1. PICK r, L : r = lease.root /\ L = infos
        OBVIOUS
    <2>2. Tree(lease.root, infos)' = Tree(r, L)'
        BY <1>2, <2>1 DEF Tree
    <2>3. Tree(lease.root, infos)' = Tree(lease.root, infos)
        BY <1>4, <1>15, <2>1, <2>2
    <2> QED
        BY <1>2, <2>3 DEF CInv, TreeIsOwned, Leased, Listing
<1>17. ReleaseKnows'
    <2> SUFFICES ASSUME NEW c \in Tasks, Leased, lease.root \notin unlisted
                 PROVE  /\ task[c].pc = "release" =>
                             Tree(lease.root, task[c].known)' \subseteq task[c].todo \cup {lease.root}
                        /\ task[c].pc = "close" =>
                             Tree(lease.root, task[c].known)' \cap live' \subseteq task[c].todo \cup unclosed
        BY <1>2 DEF ReleaseKnows, Leased
    <2>1. PICK r, L : r = lease.root /\ L = task[c].known
        OBVIOUS
    <2>2. Tree(lease.root, task[c].known)' = Tree(r, L)'
        BY <1>2, <2>1 DEF Tree
    <2>3. Tree(lease.root, task[c].known)' = Tree(lease.root, task[c].known)
        BY <1>4, <1>15, <2>1, <2>2
    <2>4. lease.root \in born
        BY DEF IInv, LeaseIsRoot, HInv, RootsAreBorn
    <2>5. Tree(lease.root, task[c].known) \subseteq born
        BY <1>4, <2>4, TreeWithin
    <2> QED
        BY <2>3, <2>5 DEF CInv, ReleaseKnows
<1> QED
    BY <1>14, <1>16, <1>17 DEF CInv

LEMMA WorldOwnsTrees ==
    ASSUME IInv, SInv, HInv, OInv, CInv, IInv',
           \/ \E o, t \in Targets : PageOpens(o, t)
           \/ \E t \in Targets : PageCloses(t)
           \/ BrowserAnswers
    PROVE  OInv' /\ CInv'
<1>0. TypeOK /\ born \subseteq Targets /\ live \subseteq born /\ Len(wire) \in Nat
    BY DEF IInv, TypeOK
<1>1. WorldMoves
    BY OnlyWorldMoves
<1>2. ASSUME Told(wire'), OpenersAreBorn', live' \cap born \subseteq live PROVE OInv' /\ CInv'
    <2>1. Len(wire) <= Len(wire') /\ \A i \in 1..Len(wire) : wire'[i] = wire[i]
        BY <1>0, <1>2 DEF Told, Messages
    <2>2. \A i \in 1..Len(wire') : i \in 1..Len(wire) \/
            /\ wire'[i].event = "created" => i = Len(wire) + 1 /\ wire'[i].t \notin born
            /\ IsAnswer(i)' => FALSE
        BY <1>0, <1>2 DEF Told, IsAnswer, TargetEvent
    <2> QED
        BY <1>1, <1>2, <2>1, <2>2, WorldKeepsTrees
<1>3. ASSUME NEW o \in Targets, NEW t \in Targets, PageOpens(o, t) PROVE OInv' /\ CInv'
    <2>1. Told(wire') /\ live' \cap born \subseteq live
        BY <1>0, <1>3, EventTold DEF PageOpens
    <2>2. OpenersAreBorn'
        BY <1>0, <1>3 DEF PageOpens, OInv, OpenersAreBorn, TypeOK
    <2> QED
        BY <1>2, <2>1, <2>2
<1>4. ASSUME NEW t \in Targets, PageCloses(t) PROVE OInv' /\ CInv'
    <2>1. Told(wire') /\ live' \cap born \subseteq live
        BY <1>0, <1>4, EventTold DEF PageCloses
    <2>2. OpenersAreBorn'
        BY <1>4 DEF PageCloses, OInv, OpenersAreBorn
    <2> QED
        BY <1>2, <2>1, <2>2
<1>5. CASE BrowserAnswers
    <2>1. PICK w, a : Answers(w, a)
        BY <1>5, BrowserTells
    <2>2. UNCHANGED opener /\ born \subseteq born' /\ live' \cap born \subseteq live
        BY <1>5, <2>1 DEF BrowserAnswers, browserVars, Answers
    <2>3. OpenersAreBorn'
        BY <2>2 DEF OInv, OpenersAreBorn
    <2>4. w \in Seq(Messages) /\ Len(w) \in Nat /\ Told(w) /\ wire' = Append(w, a)
          /\ a.event = "answer" /\ a \in Messages /\ a.task = Head(sent).task
        BY <2>1 DEF Answers, Told, AnswerTo, Messages
    <2>5. Len(wire') = Len(w) + 1 /\ wire'[Len(w) + 1] = a /\ \A i \in 1..Len(w) : wire'[i] = w[i]
        BY <2>4
    <2>6. Len(wire) <= Len(wire') /\ \A i \in 1..Len(wire) : wire'[i] = wire[i]
        BY <1>0, <2>4, <2>5 DEF Told
    <2>7. a.ok /\ task[a.task].pc = "create" => a.t \in born' \ born
        <3>1. Head(sent) = sent[1] /\ 1 \in 1..Len(sent)
            BY <1>0, <2>1, Behead DEF TypeOK, Answers
        <3>2. Head(sent).op = Asks(task[Head(sent).task].pc)
            BY <3>1 DEF HInv, SentIsAwaited
        <3> QED
            BY <2>1, <2>4, <3>2 DEF Answers, Asks
    <2>8. ASSUME NEW i \in 1..Len(wire'), i \notin 1..Len(wire)
          PROVE  /\ wire'[i].event = "created" => i = Len(wire) + 1 /\ wire'[i].t \notin born
                 /\ IsAnswer(i)' /\ wire'[i].ok /\ task[wire'[i].task].pc = "create" =>
                      wire'[i].t \in born' \ born
        <3>1. CASE i = Len(w) + 1
            BY <2>4, <2>5, <2>7, <3>1
        <3>2. CASE i # Len(w) + 1
            <4>1. i = Len(w) /\ Len(w) = Len(wire) + 1 /\ wire'[i] = w[i]
                BY <1>0, <2>4, <2>5, <2>8, <3>2 DEF Told
            <4>2. w[i] \in TargetEvent /\ (w[i].event = "created" => w[i].t \notin born)
                BY <2>4, <4>1 DEF Told
            <4> QED
                BY <4>1, <4>2 DEF IsAnswer, TargetEvent
        <3> QED
            BY <3>1, <3>2
    <2> QED
        BY <1>1, <2>2, <2>3, <2>6, <2>8, WorldKeepsTrees
<1> QED
    BY <1>3, <1>4, <1>5

LEMMA StutterOwnsTrees == ASSUME IInv, SInv, HInv, OInv, CInv, IInv', UNCHANGED vars PROVE OInv' /\ CInv'
<1>1. WorldMoves
    BY DEF WorldMoves, vars, browserVars, wireVars, OrderKept, Waits, Ahead, IsAnswer
<1>2. OpenersAreBorn'
    BY DEF vars, browserVars, OInv, OpenersAreBorn
<1>3. wire' = wire /\ live' = live /\ Len(wire) \in Nat
    BY DEF vars, browserVars, wireVars, IInv, TypeOK
<1> QED
    BY <1>1, <1>2, <1>3, WorldKeepsTrees

LEMMA ReceiveOwnsTrees == ASSUME IInv, SInv, HInv, OInv, CInv, Receive PROVE OInv' /\ CInv'
<1>0. PICK n \in 1..Len(wire) : Receive!(n)
    BY DEF Receive
<1>1. wire \in Seq(Messages) /\ Len(wire) \in Nat
    BY DEF IInv, TypeOK, Messages
<1>2. /\ Len(wire') = Len(wire) - 1
      /\ \A i \in 1..Len(wire') : wire'[i] = wire[IF i < n THEN i ELSE i + 1]
    BY <1>0, <1>1, TakeOut
<1>3. UNCHANGED <<live, born, opener, sent, lease, created, roots, unclosed, unlisted, lock, task>>
    BY <1>0 DEF browserVars
<1>4. wire[n].event # "answer" /\ \A j \in 1..(n - 1) : wire[j].event = "answer"
    BY <1>0
<1>5. wire[n].t \in born
    BY <1>4 DEF IInv, WireIsReal, IsAnswer
<1> DEFINE t == wire[n].t
           from(i) == IF i < n THEN i ELSE i + 1
\* What is left keeps its order, and is behind the event if it is no answer.
<1>6. /\ \A i \in 1..Len(wire') : from(i) \in 1..Len(wire) /\ wire'[i] = wire[from(i)]
      /\ \A i, j \in 1..Len(wire') : i < j => from(i) < from(j)
      /\ \A i \in 1..Len(wire') : wire'[i].event # "answer" => n < from(i)
    BY <1>1, <1>2, <1>4
<1> HIDE DEF from
<1>7. \A i \in 1..Len(wire') : Mentions(i)' = Mentions(from(i)) /\ IsAnswer(i)' = IsAnswer(from(i))
    BY <1>6 DEF Mentions, IsAnswer
<1>8. t \in Mentions(n)
    BY <1>4 DEF Mentions, IsAnswer
<1> HIDE DEF t
<1>9. \/ UNCHANGED <<owned, infos>>
      \/ /\ wire[n].event = "created"
         /\ {t, opener[t]} \cap owned # {} /\ owned' = owned \cup {t} /\ infos' = infos \cup {t}
      \/ t \in owned /\ owned' = owned \ {t} /\ infos' = infos \ {t}
    BY <1>0 DEF ownVars, t
\* Without a lease nothing is owned.
<1>10. ~Leased => infos' = infos
    BY <1>9 DEF SInv, OwnedWithLease
<1>11. KnownAreBorn' /\ OpenersAreBorn'
    BY <1>3, <1>5, <1>9 DEF OInv, KnownAreBorn, OpenersAreBorn, t
<1>12. ParentsFirst'
    <2> SUFFICES ASSUME NEW i \in 1..Len(wire'), NEW j \in 1..Len(wire'), i < j,
                        wire'[j].event = "created", NEW x \in Mentions(i)'
                 PROVE  opener[x] # wire'[j].t
        BY <1>3 DEF ParentsFirst
    <2> QED
        BY <1>6, <1>7 DEF OInv, ParentsFirst
<1>13. InfosHaveParents'
    <2> SUFFICES ASSUME NEW j \in 1..Len(wire'), wire'[j].event = "created", NEW x \in infos'
                 PROVE  opener[x] # wire'[j].t
        BY <1>3 DEF InfosHaveParents
    <2>1. n < from(j) /\ from(j) \in 1..Len(wire) /\ wire'[j] = wire[from(j)]
        BY <1>6
    <2>2. CASE x = t
        BY <1>8, <2>1, <2>2 DEF OInv, ParentsFirst
    <2>3. CASE x \in infos
        BY <2>1, <2>3 DEF OInv, InfosHaveParents
    <2> QED
        BY <1>9, <2>2, <2>3
<1>14. AsksAhead'
    <2>1. OrderKept(Tasks)
        BY ReceiveKeepsOrder
    <2> QED
        BY <1>3, <2>1 DEF OInv, AsksAhead, OrderKept
<1>15. FreshRoot'
    <2> SUFFICES ASSUME NEW c \in Tasks
                 PROVE  /\ task[c].pc = "attach" /\ task[c].todo # {} => \A x \in infos' : opener[x] # task[c].t
                        /\ task[c].pc = "create" => \A i \in 1..Len(wire') :
                             IsAnswer(i)' /\ wire'[i].task = c /\ wire'[i].ok =>
                               \A x \in infos' : opener[x] # wire'[i].t
        BY <1>3 DEF FreshRoot
    <2>1. task[c].pc \in {"attach", "create"} => infos' = infos
        BY <1>10 DEF SInv, NotYetLeased, Acquiring
    <2> QED
        BY <1>6, <1>7, <2>1 DEF OInv, FreshRoot
<1>16. TreeIsOwned'
    <2> SUFFICES ASSUME Leased, lease.root \notin unlisted, Listing
                 PROVE  Tree(lease.root, infos') \subseteq owned' \cup {lease.root}
        BY <1>3 DEF TreeIsOwned, Leased, Listing, Tree
    <2>1. Tree(lease.root, infos) \subseteq owned \cup {lease.root}
        BY DEF CInv, TreeIsOwned
    <2>2. CASE UNCHANGED <<owned, infos>>
        BY <2>1, <2>2
    <2>3. CASE t \in owned /\ owned' = owned \ {t} /\ infos' = infos \ {t}
        <3>1. Tree(lease.root, infos') \subseteq Tree(lease.root, infos)
            BY <2>3, TreeGrows
        <3>2. Tree(lease.root, infos') \subseteq infos' \cup {lease.root}
            BY TreeWithin
        <3> QED
            BY <2>1, <2>3, <3>1, <3>2
    <2>4. CASE /\ wire[n].event = "created"
               /\ {t, opener[t]} \cap owned # {} /\ owned' = owned \cup {t} /\ infos' = infos \cup {t}
        <3> DEFINE S == Tree(lease.root, infos) \cup {t}
        <3>1. S \subseteq infos' \cup {lease.root} /\ lease.root \in S
            BY <2>4, TreeWithin, RootOfTree
        <3>2. ASSUME NEW x \in infos, opener[x] \in S PROVE x \in S
            <4>1. opener[x] # t
                BY <2>4 DEF OInv, InfosHaveParents, t
            <4>2. opener[x] \in Tree(lease.root, infos)
                BY <3>2, <4>1
            <4>3. x \in Tree(lease.root, infos)
                BY <4>2, TreeClosed
            <4> QED
                BY <4>3
        <3>3. \A x \in infos' : opener[x] \in S => x \in S
            <4> TAKE x \in infos'
            <4>1. CASE x = t
                BY <4>1
            <4>2. CASE x # t
                BY <2>4, <3>2, <4>2
            <4> QED
                BY <4>1, <4>2
        <3>4. Tree(lease.root, infos') \subseteq S
            <4> HIDE DEF S
            <4> QED
                BY <3>1, <3>3, TreeLeast
        <3> QED
            BY <2>1, <2>4, <3>4
    <2> QED
        BY <1>9, <2>2, <2>3, <2>4
<1>17. ReleaseKnows'
    BY <1>3 DEF CInv, ReleaseKnows, Leased, Tree
<1> QED
    BY <1>11, <1>12, <1>13, <1>14, <1>15, <1>16, <1>17 DEF OInv, CInv

\* A coroutine goes on: nobody is ahead of it, and the lists are only replaced by what it
\* was told.
LEMMA MovesOwnTrees ==
    ASSUME IInv, SInv, OInv, NEW k \in Tasks, NEW pc, NEW v, Moves(k, pc, v) PROVE OInv'
<1> USE DEF Moves
<1>1. /\ wire # <<>> /\ Answered.event = "answer" /\ Answered.task = k /\ wire' = Tail(wire)
      /\ task[k].pc = pc
    BY DEF Resumes
<1>2. task'[k] = v /\ \A j \in Tasks \ {k} : task'[j] = task[j]
    BY DEF IInv, TypeOK
<1>3. /\ wire[1] = Answered /\ wire[1].task = k /\ IsAnswer(1) /\ 1 \in 1..Len(wire) /\ Len(wire) \in Nat
      /\ Len(wire') = Len(wire) - 1
      /\ \A i \in 1..Len(wire') : i + 1 \in 1..Len(wire) /\ wire'[i] = wire[i + 1]
    BY <1>1, Behead DEF IInv, TypeOK, Answered, IsAnswer
<1>4. \A i \in 1..Len(wire') : Mentions(i)' = Mentions(i + 1) /\ IsAnswer(i)' = IsAnswer(i + 1)
    BY <1>3 DEF Mentions, IsAnswer
<1>5. Answered.live = Mentions(1)
    BY <1>3 DEF Mentions
<1>6. UNCHANGED <<live, born, opener>>
    BY DEF browserVars
<1>7. infos' \subseteq infos \cup Mentions(1) /\ infos' \subseteq born
    BY <1>5 DEF OInv, KnownAreBorn
<1>8. OpenersAreBorn' /\ KnownAreBorn'
    BY <1>2, <1>6, <1>7 DEF OInv, OpenersAreBorn, KnownAreBorn
<1>9. ParentsFirst'
    <2> SUFFICES ASSUME NEW i \in 1..Len(wire'), NEW j \in 1..Len(wire'), i < j,
                        wire'[j].event = "created", NEW x \in Mentions(i)'
                 PROVE  opener[x] # wire'[j].t
        BY <1>6 DEF ParentsFirst
    <2>1. i + 1 < j + 1
        BY <1>3
    <2> QED
        BY <1>3, <1>4, <2>1 DEF OInv, ParentsFirst
<1>10. InfosHaveParents'
    <2> SUFFICES ASSUME NEW j \in 1..Len(wire'), wire'[j].event = "created", NEW x \in infos'
                 PROVE  opener[x] # wire'[j].t
        BY <1>6 DEF InfosHaveParents
    <2>1. 1 < j + 1 /\ j + 1 \in 1..Len(wire) /\ wire[j + 1] = wire'[j]
        BY <1>3
    <2>2. CASE x \in infos
        BY <2>1, <2>2 DEF OInv, InfosHaveParents
    <2>3. CASE x \in Mentions(1)
        BY <1>3, <2>1, <2>3 DEF OInv, ParentsFirst
    <2> QED
        BY <1>7, <2>2, <2>3
<1>11. OrderKept(Tasks \ {k}) /\ \A a \in Tasks : ~Ahead(a, k)
    BY <1>1, ResumeKeepsOrder
<1>12. AsksAhead'
    <2> SUFFICES ASSUME NEW j \in Tasks, NEW c \in Tasks, task'[j].pc \in Refreshers
                 PROVE  /\ task'[c].pc = "inventory" => Ahead(j, c)'
                        /\ task'[c].pc \notin {"create", "attach"}
        BY DEF AsksAhead
    <2>1. j # k /\ task[j].pc \in Refreshers
        BY <1>2 DEF Refreshers
    <2>2. CASE c # k
        BY <1>2, <1>11, <2>1, <2>2 DEF OInv, AsksAhead, OrderKept
    <2>3. CASE c = k
        <3>1. task[k].pc \notin {"inventory", "create", "attach"}
            BY <1>11, <2>1 DEF OInv, AsksAhead
        <3> QED
            BY <1>1, <1>2, <2>3, <3>1
    <2> QED
        BY <2>2, <2>3
\* Who replaces the lists is not beside an acquire that has asked for a page.
<1>13. ASSUME NEW c \in Tasks \ {k}, task[c].pc \in {"create", "attach"} PROVE infos' = infos
    <2>1. pc \notin Refreshers
        BY <1>1, <1>13 DEF OInv, AsksAhead
    <2>2. pc \notin InLock
        BY <1>1, <1>13 DEF IInv, LockHeld, InLock
    <2>3. ~Leased
        BY <1>13 DEF SInv, NotYetLeased, Acquiring
    <2> QED
        BY <2>1, <2>2, <2>3
<1>14. FreshRoot'
    <2> SUFFICES ASSUME NEW c \in Tasks
                 PROVE  /\ task'[c].pc = "attach" /\ task'[c].todo # {} =>
                             \A x \in infos' : opener[x] # task'[c].t
                        /\ task'[c].pc = "create" => \A i \in 1..Len(wire') :
                             IsAnswer(i)' /\ wire'[i].task = c /\ wire'[i].ok =>
                               \A x \in infos' : opener[x] # wire'[i].t
        BY <1>6 DEF FreshRoot
    <2>1. CASE c # k
        <3>1. task'[c] = task[c]
            BY <1>2, <2>1
        <3>2. task[c].pc \in {"create", "attach"} => infos' = infos
            BY <1>13, <2>1
        <3> QED
            BY <1>3, <1>4, <3>1, <3>2 DEF OInv, FreshRoot
    <2>2. ASSUME c = k, v.pc = "attach", v.todo # {}, NEW x \in infos' PROVE opener[x] # v.t
        <3>1. pc = "create" /\ Answered.ok /\ v.t = Answered.t
            BY <2>2
        <3>2. infos' = infos
            BY <3>1 DEF Refreshers
        <3> QED
            BY <1>1, <1>3, <2>2, <3>1, <3>2 DEF OInv, FreshRoot
    <2>3. ASSUME c = k, NEW i \in 1..Len(wire'), IsAnswer(i)', wire'[i].task = k PROVE FALSE
        <3>1. i + 1 \in 1..Len(wire) /\ i + 1 # 1 /\ IsAnswer(i + 1) /\ wire[i + 1].task = k
            BY <1>3, <1>4, <2>3
        <3> QED
            BY <1>3, <3>1 DEF IInv, OneCall
    <2> QED
        BY <1>2, <2>1, <2>2, <2>3
<1> QED
    BY <1>8, <1>9, <1>10, <1>12, <1>14 DEF OInv

\* A connection asks: who asks for the lists without the lock does so under a lease, and
\* who acquires has everybody ahead.
LEMMA AskOwnsTrees ==
    ASSUME IInv, SInv, OInv, CInv, NEW k \in Tasks, task[k].pc = "idle",
           UNCHANGED <<browserVars, wire, ownVars, leaseVars>>,
           NEW op \in Ops, NEW t \in Place, Call(k, op, t),
           NEW v \in TaskState, task' = [task EXCEPT ![k] = v],
           v.pc \notin {"create", "attach", "adopt", "close"}, v.pc \in Refreshers => Leased,
           v.known = {} \/ v.known = infos,
           v.pc = "release" => v.known = infos /\ v.todo = owned /\ lock = Free
    PROVE  OInv' /\ CInv'
<1>1. task'[k] = v /\ \A j \in Tasks \ {k} : task'[j] = task[j]
    BY DEF IInv, TypeOK
<1>2. UNCHANGED <<live, born, opener, wire, owned, infos, lease, created, unclosed, unlisted>>
    BY DEF browserVars, ownVars, leaseVars
<1>3. OrderKept(Tasks) /\ \A a \in Tasks : Waits(a) => Ahead(a, k)'
    <2> DEFINE m == [task |-> k, op |-> op, t |-> t]
    <2>1. m \in CallTo /\ m.task = k /\ sent' = Append(sent, m)
        BY DEF Call, CallTo
    <2> HIDE DEF m
    <2> QED
        BY <2>1, AskKeepsOrder
<1>4. AsksAhead'
    <2> SUFFICES ASSUME NEW j \in Tasks, NEW c \in Tasks, task'[j].pc \in Refreshers
                 PROVE  /\ task'[c].pc = "inventory" => Ahead(j, c)'
                        /\ task'[c].pc \notin {"create", "attach"}
        BY DEF AsksAhead
    <2>1. CASE j = k
        <3>1. Leased /\ v.pc # "inventory"
            BY <1>1, <2>1 DEF Refreshers
        <3>2. task[c].pc \notin Acquiring
            BY <3>1 DEF SInv, NotYetLeased
        <3> QED
            BY <1>1, <3>1, <3>2 DEF Acquiring
    <2>2. CASE j # k /\ c = k
        <3>1. task[j].pc # "idle"
            BY <1>1, <2>2 DEF Refreshers
        <3>2. Waits(j)
            BY <3>1 DEF SInv, NoneLost
        <3> QED
            BY <1>1, <1>3, <2>2, <3>2
    <2>3. CASE j # k /\ c # k
        BY <1>1, <1>3, <2>3 DEF OInv, AsksAhead, OrderKept
    <2> QED
        BY <2>1, <2>2, <2>3
<1>5. FreshRoot'
    <2> SUFFICES ASSUME NEW c \in Tasks
                 PROVE  /\ task'[c].pc = "attach" /\ task'[c].todo # {} =>
                             \A x \in infos : opener[x] # task'[c].t
                        /\ task'[c].pc = "create" => \A i \in 1..Len(wire) :
                             IsAnswer(i) /\ wire[i].task = c /\ wire[i].ok =>
                               \A x \in infos : opener[x] # wire[i].t
        BY <1>2 DEF FreshRoot, IsAnswer
    <2> QED
        BY <1>1 DEF OInv, FreshRoot
<1>6. OpenersAreBorn' /\ KnownAreBorn'
    BY <1>1, <1>2 DEF OInv, OpenersAreBorn, KnownAreBorn
<1>7. ParentsFirst' /\ InfosHaveParents'
    BY <1>2 DEF OInv, ParentsFirst, InfosHaveParents, Mentions, IsAnswer
<1>8. Leased' = Leased /\ \A r, L : Tree(r, L)' = Tree(r, L)
    BY <1>2 DEF Leased, Tree
<1>9. Listing' => Listing
    BY <1>1, <1>2 DEF Listing
<1>10. TreeIsOwned'
    BY <1>2, <1>8, <1>9 DEF CInv, TreeIsOwned, Tree
<1>11. ReleaseKnows'
    <2> SUFFICES ASSUME NEW c \in Tasks, Leased, lease.root \notin unlisted
                 PROVE  /\ task'[c].pc = "release" =>
                             Tree(lease.root, task'[c].known) \subseteq task'[c].todo \cup {lease.root}
                        /\ task'[c].pc = "close" =>
                             Tree(lease.root, task'[c].known) \cap live \subseteq task'[c].todo \cup unclosed
        BY <1>2, <1>8 DEF ReleaseKnows, Tree
    <2>1. CASE c # k
        BY <1>1, <2>1 DEF CInv, ReleaseKnows
    <2>2. CASE c = k /\ v.pc = "release"
        <3>1. \A j \in Tasks : task[j].pc # "adopt"
            BY <2>2, LeaseAssumption DEF IInv, LockHeld, InLock
        <3>2. Tree(lease.root, infos) \subseteq owned \cup {lease.root}
            BY <3>1 DEF CInv, TreeIsOwned, Listing
        <3> QED
            BY <1>1, <2>2, <3>2
    <2> QED
        BY <1>1, <2>1, <2>2
<1> QED
    BY <1>4, <1>5, <1>6, <1>7, <1>10, <1>11 DEF OInv, CInv

\* The lists follow an inventory or stay, and nobody starts to rely on them.
LEMMA ListsOwnTrees ==
    ASSUME CInv, UNCHANGED <<opener, lease, created>>, unlisted \subseteq unlisted',
           \/ UNCHANGED ownVars /\ (Listing' => Listing \/ lease.root \in unlisted')
           \/ \E L : Refresh(L)
           \/ ~Leased
    PROVE  TreeIsOwned'
<1> SUFFICES ASSUME Leased, lease.root \notin unlisted', Listing'
             PROVE  Tree(lease.root, infos') \subseteq owned' \cup {lease.root}
    BY DEF TreeIsOwned, Leased, Tree
<1>1. CASE UNCHANGED ownVars
    BY <1>1 DEF CInv, TreeIsOwned, ownVars, Refresh
<1>2. CASE \E L : Refresh(L)
    BY <1>2 DEF Refresh
<1> QED
    BY <1>1, <1>2

\* Who is not at release leaves what it knows alone.
LEMMA BystanderOwnsTrees ==
    ASSUME IInv, CInv, NEW k \in Tasks,
           \/ k \in Controls /\ StatusTold(k)
           \/ k \in Agents /\ AgentRuns(k)
    PROVE  CInv'
<1>1. PICK pc \in {"status", "health", "list", "may attach", "attaching", "may select", "command"} :
        Resumes(k, pc)
    BY DEF StatusTold, AgentRuns, AgentLists, AgentMayAttach, AgentAttached, AgentSelects, AgentCommanded
<1>2. /\ UNCHANGED <<browserVars, lease, created, unclosed, unlisted>>
      /\ (\E L : Refresh(L)) \/ UNCHANGED ownVars \/ ~Leased
    BY DEF StatusTold, AgentRuns, AgentLists, AgentMayAttach, AgentAttached, AgentSelects,
           AgentCommanded, leaseVars
<1>3. \E v \in TaskState : v.pc \in {"idle", "attaching"} /\ task' = [task EXCEPT ![k] = v]
    <2>1. CASE Done(k)
        <3>1. Idle \in TaskState /\ Idle.pc = "idle"
            BY IdleTyped DEF Idle
        <3> QED
            BY <2>1, <3>1 DEF Done
    <2>2. CASE Await(k, "attaching")
        <3>1. task[k] \in TaskState
            BY DEF IInv, TypeOK
        <3> DEFINE v == [task[k] EXCEPT !.pc = "attaching"]
        <3>2. v \in TaskState /\ v.pc = "attaching"
            BY <3>1 DEF TaskState, Stages
        <3>3. task' = [task EXCEPT ![k] = v]
            BY <2>2, <3>1 DEF TaskState, Await
        <3> HIDE DEF v
        <3> QED
            BY <3>2, <3>3
    <2> QED
        BY <2>1, <2>2 DEF StatusTold, AgentRuns, AgentLists, AgentMayAttach, AgentAttached,
                          AgentSelects, AgentCommanded
<1>4. /\ task[k].pc = pc /\ task'[k].pc \in {"idle", "attaching"}
      /\ \A j \in Tasks \ {k} : task'[j] = task[j]
    BY <1>1, <1>3 DEF IInv, TypeOK, Resumes
<1>5. Listing' => Listing
    BY <1>2, <1>4 DEF Listing
<1>6. TreeIsOwned'
    BY <1>2, <1>5, ListsOwnTrees DEF browserVars
<1>7. ReleaseKnows'
    BY <1>2, <1>4 DEF CInv, ReleaseKnows, Leased, Tree, browserVars
<1> QED
    BY <1>6, <1>7 DEF CInv

\* The holder of the lock is not at release, or leaves no lease.
LEMMA HolderOwnsTrees ==
    ASSUME IInv, SInv, HInv, NEW c \in Controls, NEW pc \in InLock, Resumes(c, pc),
           NEW v \in TaskState, task' = [task EXCEPT ![c] = v],
           ~Leased' \/ v.pc \notin {"release", "close"}, TreeIsOwned'
    PROVE  CInv'
<1>1. c \in Tasks /\ \A k \in Tasks \ {c} : task[k].pc \notin InLock
    BY Holder
<1>2. ReleaseKnows'
    BY <1>1 DEF ReleaseKnows, InLock, IInv, TypeOK
<1> QED
    BY <1>2 DEF CInv

LEMMA AcquireOwnsTrees ==
    ASSUME IInv, SInv, HInv, OInv, CInv, NEW c \in Controls,
           \/ Reacquired(c) \/ RootChosen(c) \/ RootCreated(c) \/ RootAttached(c)
           \/ RootUndone(c) \/ RootAdopted(c)
    PROVE  CInv'
<1>1. PICK pc \in {"reacquire", "inventory", "create", "attach", "undo", "adopt"} : Resumes(c, pc)
    BY DEF Reacquired, RootChosen, RootCreated, RootAttached, RootUndone, RootAdopted
<1>2. pc \in InLock
    BY <1>1 DEF InLock
<1>3. c \in Tasks /\ task[c] \in TaskState /\ task[c].pc = pc /\ UNCHANGED browserVars
      /\ \A k \in Tasks \ {c} : task[k].pc \notin InLock
    BY <1>1, <1>2, Holder DEF Reacquired, RootChosen, RootCreated, RootAttached, RootUndone, RootAdopted
<1>4. \E v \in TaskState : v.pc \notin {"release", "close"} /\ task' = [task EXCEPT ![c] = v]
    <2>1. PICK p, v : Moves(c, p, v) /\ task' = [task EXCEPT ![c] = v] /\ v \in TaskState
        BY ControlMoves DEF ControlRuns, Moves
    <2>2. task'[c] = v
        BY <1>3, <2>1 DEF IInv, TypeOK
    <2>3. task'[c].pc \notin {"release", "close"}
        BY <1>3 DEF Reacquired, RootChosen, RootCreated, RootAttached, AttachFailed, RootUndone,
                    RootAdopted, Done, Await, Idle, IInv, TypeOK, TaskState
    <2> QED
        BY <2>1, <2>2, <2>3
<1>5. task'[c].pc = "adopt" => RootAttached(c) /\ Answered.ok
    BY <1>3 DEF Reacquired, RootChosen, RootCreated, RootAttached, AttachFailed, RootUndone,
                RootAdopted, Done, Await, Idle, IInv, TypeOK, TaskState
<1>6. \A k \in Tasks \ {c} : task'[k] = task[k]
    BY <1>4 DEF IInv, TypeOK
<1>7. TreeIsOwned'
    <2>1. CASE RootAttached(c) /\ Answered.ok
        <3>1. /\ lease' = [root |-> task[c].t, req |-> task[c].req] /\ created' = (task[c].todo # {})
              /\ task'[c].pc = "adopt" /\ UNCHANGED ownVars /\ pc = "attach"
            BY <1>3, <2>1 DEF RootAttached, Await, Resumes, IInv, TypeOK, TaskState
        <3>2. lease'.root = task[c].t
            BY <3>1
        <3>3. SUFFICES ASSUME created' PROVE Tree(task[c].t, infos) \subseteq {task[c].t}
            BY <1>3, <3>1, <3>2 DEF TreeIsOwned, Listing, Tree, browserVars, ownVars
        <3>4. \A x \in infos : opener[x] # task[c].t
            BY <1>3, <3>1, <3>3 DEF OInv, FreshRoot
        <3> DEFINE r == task[c].t
        <3>5. {r} \subseteq infos \cup {r} /\ r \in {r} /\ \A x \in infos : opener[x] \in {r} => x \in {r}
            BY <3>4
        <3> HIDE DEF r
        <3>6. Tree(r, infos) \subseteq {r}
            BY <3>5, TreeLeast
        <3> QED
            BY <3>6 DEF r
    <2>2. CASE ~(RootAttached(c) /\ Answered.ok)
        <3>1. UNCHANGED <<lease, created>> /\ unlisted \subseteq unlisted'
            BY <2>2 DEF Reacquired, RootChosen, RootCreated, RootAttached, RootUndone, RootAdopted, leaseVars
        <3>2. (\E L : Refresh(L)) \/ UNCHANGED ownVars
            BY <2>2 DEF Reacquired, RootChosen, RootCreated, RootAttached, RootUndone, RootAdopted
        <3>3. CASE RootAdopted(c) /\ ~Answered.ok
            <4>1. created \/ lease.root \in unlisted'
                BY <3>3 DEF RootAdopted
            <4>2. UNCHANGED ownVars
                BY <3>3 DEF RootAdopted
            <4> QED
                BY <1>3, <3>1, <4>1, <4>2, ListsOwnTrees DEF Listing, browserVars
        <3>4. CASE RootAdopted(c) /\ Answered.ok
            <4>1. \E L : Refresh(L)
                BY <3>4 DEF RootAdopted
            <4> QED
                BY <1>3, <3>1, <4>1, ListsOwnTrees DEF browserVars
        <3>5. CASE ~RootAdopted(c)
            <4>1. task[c].pc # "adopt"
                BY <1>3, <3>5 DEF Reacquired, RootChosen, RootCreated, RootAttached, RootUndone, Resumes
            <4>2. \A k \in Tasks : task[k].pc # "adopt"
                BY <1>3, <4>1 DEF InLock
            <4> QED
                BY <1>3, <3>1, <3>2, <4>2, ListsOwnTrees DEF Listing, browserVars
        <3> QED
            BY <3>3, <3>4, <3>5
    <2> QED
        BY <2>1, <2>2
<1> QED
    BY <1>1, <1>2, <1>4, <1>7, HolderOwnsTrees

\* What is open of the tree that release has read is in its list.
LEMMA ListedCovers ==
    ASSUME IInv, SInv, HInv, CInv, NEW c \in Controls, Resumes(c, "release"), lease.root \notin unlisted
    PROVE  Leased /\ Tree(lease.root, Known(c)) \cap live \subseteq ToClose(c) \cup unclosed
<1>1. "release" \in InLock
    BY DEF InLock
<1>2. /\ task[c].pc = "release" /\ c \in Tasks /\ TrueOf(1) /\ IsAnswer(1) /\ wire[1] = Answered
      /\ Answered.task = c
    BY <1>1, Holder
<1>3. Leased /\ lease.root \in roots
    BY <1>2 DEF IInv, LockHeld, LeaseIsRoot
<1> SUFFICES ASSUME NEW x \in Tree(lease.root, Known(c)) \cap live, x \notin unclosed
             PROVE  x \in ToClose(c)
    BY <1>3
<1>4. CASE Answered.ok
    <2>1. x \in Tree(lease.root, Answered.live)
        BY <1>4 DEF Known
    <2>2. x \in Answered.live \cup {lease.root}
        BY <2>1, TreeWithin
    <2>3. lease.root \in live => lease.root \in Answered.live
        BY <1>2, <1>4 DEF TrueOf
    <2> QED
        BY <1>4, <2>1, <2>2, <2>3 DEF ToClose
<1>5. CASE ~Answered.ok
    <2>1. x \in task[c].todo \cup {lease.root}
        BY <1>2, <1>3, <1>5 DEF CInv, ReleaseKnows, Known
    <2>2. x = lease.root => created \/ x \in task[c].todo
        BY <1>2, <1>3 DEF HInv, Listed, Strays
    <2> QED
        BY <1>5, <2>1, <2>2 DEF ToClose
<1> QED
    BY <1>4, <1>5

LEMMA ClosedCovers ==
    ASSUME IInv, SInv, HInv, CInv, NEW c \in Controls, TargetClosed(c), Leased,
           lease.root \notin unlisted
    PROVE  Tree(lease.root, task[c].known) \cap live \subseteq Rest(c) \cup unclosed'
<1>1. /\ Resumes(c, "close")
      /\ unclosed' = IF Answered.ok THEN unclosed ELSE unclosed \cup ({task[c].t} \cap live)
    BY DEF TargetClosed
<1>2. "close" \in InLock
    BY DEF InLock
<1>3. /\ task[c].pc = "close" /\ c \in Tasks /\ TrueOf(1) /\ IsAnswer(1) /\ wire[1] = Answered
      /\ Answered.task = c
    BY <1>1, <1>2, Holder
<1>4. Answered.ok => task[c].t \notin live
    BY <1>3 DEF TrueOf
<1>5. Tree(lease.root, task[c].known) \cap live \subseteq task[c].todo \cup unclosed
    BY <1>3 DEF CInv, ReleaseKnows
<1> QED
    BY <1>1, <1>4, <1>5 DEF Rest

\* Release goes on with a list that has what is open of what it knows.
LEMMA CloseOwnsTrees ==
    ASSUME IInv, SInv, HInv, CInv, NEW c \in Controls, NEW pc \in {"release", "close"}, Resumes(c, pc),
           UNCHANGED <<browserVars, lease, created, unlisted>>,
           (\E L : Refresh(L)) \/ UNCHANGED ownVars,
           task'[c].pc = "close", \A k \in Tasks \ {c} : task'[k] = task[k],
           lease.root \notin unlisted /\ Leased =>
             Tree(lease.root, task'[c].known) \cap live \subseteq task'[c].todo \cup unclosed'
    PROVE  CInv'
<1>1. pc \in InLock
    BY DEF InLock
<1>2. c \in Tasks /\ task[c].pc = pc /\ \A k \in Tasks \ {c} : task[k].pc \notin InLock
    BY <1>1, Holder
<1>3. \A k \in Tasks : task[k].pc # "adopt"
    BY <1>2 DEF InLock
<1>4. TreeIsOwned'
    BY <1>3, ListsOwnTrees DEF Listing, browserVars
<1>5. ReleaseKnows'
    BY <1>2 DEF ReleaseKnows, InLock, Leased, Tree, browserVars
<1> QED
    BY <1>4, <1>5 DEF CInv

LEMMA ReleaseOwnsTrees ==
    ASSUME IInv, SInv, HInv, CInv, NEW c \in Controls, TreeListed(c) \/ TargetClosed(c)
    PROVE  CInv'
<1>1. c \in Tasks /\ task[c] \in TaskState /\ task \in [Tasks -> TaskState]
    BY DEF Tasks, IInv, TypeOK
<1>2. ASSUME NEW pc \in {"release", "close"}, Resumes(c, pc), LeaseDropped, Done(c) PROVE CInv'
    <2>1. pc \in InLock /\ Idle \in TaskState /\ task' = [task EXCEPT ![c] = Idle]
        BY <1>2, IdleTyped DEF InLock, Done
    <2>2. ~Leased'
        BY <1>2 DEF LeaseDropped, Leased
    <2>3. TreeIsOwned'
        BY <2>2 DEF TreeIsOwned
    <2> HIDE DEF Idle
    <2> QED
        BY <1>2, <2>1, <2>2, <2>3, HolderOwnsTrees
<1>3. CASE TreeListed(c)
    <2>1. Resumes(c, "release") /\ UNCHANGED <<browserVars, unclosed, unlisted>> /\ task[c].pc = "release"
        BY <1>3 DEF TreeListed, Resumes
    <2>2. CASE ToClose(c) = {}
        BY <1>2, <1>3, <2>1, <2>2 DEF TreeListed
    <2>3. CASE ToClose(c) # {}
        <3>1. PICK t \in Deepest(ToClose(c), Known(c)) :
                /\ task' = [task EXCEPT ![c].pc = "close", ![c].t = t,
                              ![c].known = Known(c), ![c].todo = ToClose(c)]
                /\ (\E L : Refresh(L)) \/ UNCHANGED ownVars
                /\ UNCHANGED <<lease, created>>
            BY <1>3, <2>3 DEF TreeListed
        <3>2. /\ task'[c].pc = "close" /\ task'[c].known = Known(c) /\ task'[c].todo = ToClose(c)
              /\ \A k \in Tasks \ {c} : task'[k] = task[k]
            BY <1>1, <3>1 DEF TaskState
        <3>3. lease.root \notin unlisted /\ Leased =>
                Tree(lease.root, task'[c].known) \cap live \subseteq task'[c].todo \cup unclosed'
            BY <2>1, <3>2, ListedCovers
        <3> QED
            BY <2>1, <3>1, <3>2, <3>3, CloseOwnsTrees
    <2> QED
        BY <2>2, <2>3
<1>4. CASE TargetClosed(c)
    <2>1. Resumes(c, "close") /\ UNCHANGED <<browserVars, unlisted>> /\ task[c].pc = "close"
        BY <1>4 DEF TargetClosed, Resumes
    <2>2. CASE Rest(c) = {}
        BY <1>2, <1>4, <2>1, <2>2 DEF TargetClosed
    <2>3. CASE Rest(c) # {}
        <3>1. PICK t \in Deepest(Rest(c), task[c].known) :
                /\ task' = [task EXCEPT ![c].t = t, ![c].todo = Rest(c)]
                /\ UNCHANGED <<ownVars, lease, created>>
            BY <1>4, <2>3 DEF TargetClosed
        <3>2. /\ task'[c].pc = "close" /\ task'[c].known = task[c].known /\ task'[c].todo = Rest(c)
              /\ \A k \in Tasks \ {c} : task'[k] = task[k]
            BY <1>1, <2>1, <3>1 DEF TaskState
        <3>3. lease.root \notin unlisted /\ Leased =>
                Tree(lease.root, task'[c].known) \cap live \subseteq task'[c].todo \cup unclosed'
            BY <1>4, <3>2, ClosedCovers
        <3> QED
            BY <2>1, <3>1, <3>2, <3>3, CloseOwnsTrees
    <2> QED
        BY <2>2, <2>3
<1> QED
    BY <1>3, <1>4

LEMMA AsksOwnTrees ==
    ASSUME IInv, SInv, OInv, CInv,
           \/ \E c \in Controls : \/ \E q \in Requests : AcquireRoot(c, q)
                                  \/ ReleaseRoot(c)
                                  \/ \E pc \in Probes : AskStatus(c, pc)
           \/ \E a \in Agents, t \in Targets \cup {NoTarget} :
                \/ \E pc \in {"list", "may attach", "may select"} : AgentAsks(a, pc, t)
                \/ AgentCommands(a, t)
    PROVE  OInv' /\ CInv'
<1>1. "targets" \in Ops /\ "command" \in Ops /\ NoTarget \in Place /\ Controls \cup Agents = Tasks
      /\ Targets \cup {NoTarget} = Place
    BY DEF Ops, Place, Tasks
<1>2. ASSUME NEW c \in Controls, NEW q \in Requests, AcquireRoot(c, q) PROVE OInv' /\ CInv'
    <2> DEFINE v == [Idle EXCEPT !.pc = IF Leased THEN "reacquire" ELSE "inventory", !.req = q]
    <2>1. v \in TaskState /\ v.pc \in {"reacquire", "inventory"} /\ v.known = {}
        BY IdleTyped DEF Idle, TaskState, Stages, InLock
    <2>2. task' = [task EXCEPT ![c] = v] /\ task[c].pc = "idle" /\ Call(c, "targets", NoTarget)
          /\ UNCHANGED <<browserVars, wire, ownVars, leaseVars>>
        BY <1>2 DEF AcquireRoot
    <2> HIDE DEF v
    <2>3. v.pc \notin {"create", "attach", "adopt", "close", "release"} /\ v.pc \notin Refreshers
        BY <2>1 DEF Refreshers
    <2> QED
        BY <1>1, <2>1, <2>2, <2>3, AskOwnsTrees
<1>3. ASSUME NEW c \in Controls, ReleaseRoot(c) PROVE OInv' /\ CInv'
    <2> DEFINE v == [Idle EXCEPT !.pc = "release", !.known = infos, !.todo = owned]
    <2>1. v \in TaskState /\ v.pc = "release" /\ v.todo = owned /\ v.known = infos
        BY IdleTyped DEF Idle, TaskState, Stages, InLock, IInv, TypeOK
    <2>2. task' = [task EXCEPT ![c] = v] /\ task[c].pc = "idle" /\ Call(c, "targets", NoTarget)
          /\ UNCHANGED <<browserVars, wire, ownVars, leaseVars>> /\ lock = Free
        BY <1>3 DEF ReleaseRoot
    <2> HIDE DEF v
    <2>3. v.pc \notin {"create", "attach", "adopt", "close"} /\ v.pc \notin Refreshers
        BY <2>1 DEF Refreshers
    <2> QED
        BY <1>1, <2>1, <2>2, <2>3, AskOwnsTrees
<1>4. ASSUME NEW c \in Controls, NEW pc \in Probes, AskStatus(c, pc) PROVE OInv' /\ CInv'
    <2> DEFINE v == [Idle EXCEPT !.pc = pc]
    <2>1. pc \in {"status", "health"}
        BY LeaseAssumption
    <2>2. v \in TaskState /\ v.pc = pc /\ v.known = {}
        BY <2>1, IdleTyped DEF Idle, TaskState, Stages
    <2>3. task' = [task EXCEPT ![c] = v] /\ task[c].pc = "idle" /\ Call(c, "targets", NoTarget)
          /\ UNCHANGED <<browserVars, wire, ownVars, leaseVars>> /\ (pc = "status" => Leased)
        BY <1>4 DEF AskStatus
    <2> HIDE DEF v
    <2>4. v.pc \notin {"create", "attach", "adopt", "close", "release"} /\ (v.pc \in Refreshers => Leased)
        BY <2>1, <2>2, <2>3 DEF Refreshers
    <2> QED
        BY <1>1, <2>2, <2>3, <2>4, AskOwnsTrees
<1>5. ASSUME NEW a \in Agents, NEW t \in Targets \cup {NoTarget},
             \/ \E pc \in {"list", "may attach", "may select"} : AgentAsks(a, pc, t)
             \/ AgentCommands(a, t)
      PROVE  OInv' /\ CInv'
    <2>1. PICK pc \in {"list", "may attach", "may select", "command"} :
            /\ task[a].pc = "idle" /\ task' = [task EXCEPT ![a] = [Idle EXCEPT !.pc = pc, !.t = t]]
            /\ IF pc = "command" THEN Call(a, "command", t) ELSE Call(a, "targets", NoTarget)
            /\ UNCHANGED <<browserVars, wire, ownVars, leaseVars>> /\ Leased
        BY <1>5 DEF AgentAsks, AgentCommands
    <2> DEFINE v == [Idle EXCEPT !.pc = pc, !.t = t]
    <2>2. v \in TaskState /\ v.pc = pc /\ v.known = {}
        BY IdleTyped DEF Idle, TaskState, Stages, Place
    <2>3. task' = [task EXCEPT ![a] = v]
        BY <2>1
    <2> HIDE DEF v
    <2>4. v.pc \notin {"create", "attach", "adopt", "close", "release"}
        BY <2>2
    <2>5. \E op \in Ops, u \in Place : Call(a, op, u)
        BY <1>1, <2>1
    <2> QED
        BY <1>1, <2>1, <2>2, <2>3, <2>4, <2>5, AskOwnsTrees
<1> QED
    BY <1>2, <1>3, <1>4, <1>5

LEMMA NextOwnsTrees == IInv /\ SInv /\ HInv /\ OInv /\ CInv /\ IInv' /\ [Next]_vars => OInv' /\ CInv'
<1> SUFFICES ASSUME IInv, SInv, HInv, OInv, CInv, IInv', [Next]_vars PROVE OInv' /\ CInv'
    OBVIOUS
<1>1. CASE \/ \E o, t \in Targets : PageOpens(o, t)
           \/ \E t \in Targets : PageCloses(t)
           \/ BrowserAnswers
    BY <1>1, WorldOwnsTrees
<1>2. CASE Receive
    BY <1>2, ReceiveOwnsTrees
<1>3. ASSUME NEW c \in Controls, ControlRuns(c) PROVE OInv' /\ CInv'
    <2>1. c \in Tasks
        BY DEF Tasks
    <2>2. OInv'
        BY <1>3, <2>1, ControlMoves, MovesOwnTrees
    <2>3. CInv'
        BY <1>3, <2>1, AcquireOwnsTrees, ReleaseOwnsTrees, BystanderOwnsTrees DEF ControlRuns
    <2> QED
        BY <2>2, <2>3
<1>4. ASSUME NEW a \in Agents, AgentRuns(a) PROVE OInv' /\ CInv'
    <2>1. a \in Tasks
        BY DEF Tasks
    <2>2. OInv'
        BY <1>4, <2>1, AgentMoves, MovesOwnTrees
    <2> QED
        BY <1>4, <2>1, <2>2, BystanderOwnsTrees
<1>5. CASE \/ \E c \in Controls : \/ \E q \in Requests : AcquireRoot(c, q)
                                  \/ ReleaseRoot(c)
                                  \/ \E pc \in Probes : AskStatus(c, pc)
           \/ \E a \in Agents, t \in Targets \cup {NoTarget} :
                \/ \E pc \in {"list", "may attach", "may select"} : AgentAsks(a, pc, t)
                \/ AgentCommands(a, t)
    BY <1>5, AsksOwnTrees
<1>6. CASE UNCHANGED vars
    BY <1>6, StutterOwnsTrees
<1> QED
    BY <1>1, <1>2, <1>3, <1>4, <1>5, <1>6 DEF Next, Daemon

LEMMA InitOwnsTrees == Init => OInv /\ CInv
<1> SUFFICES ASSUME Init PROVE OInv /\ CInv
    OBVIOUS
<1>1. Len(wire) = 0 /\ ~Leased /\ infos = {}
    BY DEF Init, Leased
<1>2. \A k \in Tasks : task[k].pc = "idle" /\ task[k].known = {}
    BY DEF Init, Idle
<1>3. \A x \in Targets : opener[x] = NoTarget
    BY DEF Init
<1>4. OpenersAreBorn /\ KnownAreBorn
    BY <1>1, <1>2, <1>3 DEF OpenersAreBorn, KnownAreBorn
<1>5. ParentsFirst /\ InfosHaveParents
    BY <1>1 DEF ParentsFirst, InfosHaveParents
<1>6. AsksAhead /\ FreshRoot
    BY <1>2 DEF AsksAhead, FreshRoot, Refreshers
<1>7. TreeIsOwned /\ ReleaseKnows
    BY <1>1 DEF TreeIsOwned, ReleaseKnows
<1> QED
    BY <1>4, <1>5, <1>6, <1>7 DEF OInv, CInv

\* Only release drops the lease, and only with an empty list.
LEMMA LeaseGoes ==
    ASSUME IInv, SInv, [Next]_vars, Leased, ~Leased'
    PROVE  \E c \in Controls : \/ TreeListed(c) /\ ToClose(c) = {}
                               \/ TargetClosed(c) /\ Rest(c) = {}
<1>1. ~UNCHANGED lease
    BY DEF Leased
<1>2. \E k \in Controls : ControlRuns(k)
    BY <1>1 DEF Next, Daemon, vars, leaseVars, PageOpens, PageCloses, BrowserAnswers, Receive,
                AcquireRoot, ReleaseRoot, AskStatus, AgentAsks, AgentCommands, AgentRuns, AgentLists,
                AgentMayAttach, AgentAttached, AgentSelects, AgentCommanded
<1>3. PICK c \in Controls : ControlRuns(c)
    BY <1>2
<1>4. ~RootAttached(c)
    <2> SUFFICES ASSUME RootAttached(c) PROVE FALSE
        OBVIOUS
    <2>1. task[c].pc = "attach" /\ c \in Tasks
        BY DEF RootAttached, Resumes, Tasks
    <2> QED
        BY <2>1 DEF SInv, NotYetLeased, Acquiring
<1>5. TreeListed(c) \/ TargetClosed(c)
    BY <1>1, <1>3, <1>4 DEF ControlRuns, leaseVars, Reacquired, RootChosen, RootCreated, RootUndone,
                            RootAdopted, StatusTold
<1> QED
    BY <1>1, <1>5 DEF TreeListed, TargetClosed

\* When the lease goes, what is left open of the tree that release knew is what the browser
\* refused to close, though pages come and go while it closes them and the inventory may have
\* failed: the daemon's lists hold the tree that can be read in them, in whatever order
\* inventories and events have made them.
THEOREM ReleaseClosesWhatItKnew == Spec => ReleaseClosesTheTree
<1>1. ASSUME IInv, SInv, HInv, CInv, [Next]_vars
      PROVE  [\A c \in Controls :
                Leased /\ ~Leased' /\ lock = c /\ lease.root \notin unlisted =>
                  LET known == IF task[c].pc = "release" THEN Known(c) ELSE task[c].known
                  IN  Tree(lease.root, known) \cap live \subseteq unclosed']_vars
    <2> SUFFICES ASSUME NEW c \in Controls, Leased, ~Leased', lock = c, lease.root \notin unlisted
                 PROVE  LET known == IF task[c].pc = "release" THEN Known(c) ELSE task[c].known
                        IN  Tree(lease.root, known) \cap live \subseteq unclosed'
        OBVIOUS
    <2>1. PICK d \in Controls : \/ TreeListed(d) /\ ToClose(d) = {}
                                \/ TargetClosed(d) /\ Rest(d) = {}
        BY <1>1, LeaseGoes
    <2>2. d \in Tasks /\ (TreeListed(d) => Resumes(d, "release")) /\ (TargetClosed(d) => Resumes(d, "close"))
        BY DEF TreeListed, TargetClosed, Tasks
    <2>3. d = c
        BY <1>1, <2>1, <2>2 DEF Resumes, IInv, LockHeld, InLock
    <2>4. CASE TreeListed(c) /\ ToClose(c) = {}
        <3>1. task[c].pc = "release" /\ UNCHANGED unclosed
            BY <2>2, <2>3, <2>4 DEF TreeListed, Resumes
        <3>2. Tree(lease.root, Known(c)) \cap live \subseteq ToClose(c) \cup unclosed
            BY <1>1, <2>2, <2>3, <2>4, ListedCovers
        <3> QED
            BY <2>4, <3>1, <3>2
    <2>5. CASE TargetClosed(c) /\ Rest(c) = {}
        <3>1. task[c].pc = "close"
            BY <2>2, <2>3, <2>5 DEF Resumes
        <3>2. Tree(lease.root, task[c].known) \cap live \subseteq Rest(c) \cup unclosed'
            BY <1>1, <2>5, ClosedCovers
        <3> QED
            BY <2>5, <3>1, <3>2
    <2> QED
        BY <2>1, <2>3, <2>4, <2>5
<1> QED
    BY InitInv, NextInv, InitLease, NextLease, InitForgets, NextForgets, InitOwnsTrees, NextOwnsTrees,
       <1>1, PTL DEF Spec, ReleaseClosesTheTree

=============================================================================

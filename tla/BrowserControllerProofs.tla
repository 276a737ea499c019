----------------------- MODULE BrowserControllerProofs -----------------------
(***************************************************************************)
(* Proofs about BrowserController for any modes and any bounds: the        *)
(* controller owns one daemon and one browser, and a lease is stable.      *)
(*                                                                         *)
(* The argument: the record of the daemon and the launch that the running  *)
(* operation made name at most one pair between them, at every await; a    *)
(* start begins only with nothing recorded, and every way out of one       *)
(* closes what it made before the record goes.                             *)
(***************************************************************************)
EXTENDS BrowserController, FiniteSetTheorems, TLAPS

Leases == [mode : Modes, root : Nat, retained : BOOLEAN]
Daemons == [launch : 0..MaxLaunch, mode : Modes,
            status : {"starting", "running", "exited"}, failed : BOOLEAN]
Replies == [ok : {"ok", "pending", "error"}, root : Nat]
Acts == {"health", "acquire", "release", "shutdown"}
Calls == [launch : Launches, act : Acts, heard : BOOLEAN]
Pcs == {"idle", "begin", "releasing", "farewell", "leaving", "closing", "quitting", "starting",
        "launching", "spawning", "health", "recheck", "rooting", "writing", "undo shell",
        "undo browser"}
Nexts == {"done", "stop", "launching", "health", "rooting"}
Ops == [kind : Kinds \cup {"none"}, mode : Modes \cup {NoMode}, pc : Pcs, next : Nexts,
        prev : Leases \cup {NoLease}, launch : 0..MaxLaunch, bad : BOOLEAN]

TypeOK ==
  /\ op \in Ops
  /\ daemon \in Daemons \cup {NoDaemon}
  /\ browser \in 0..MaxLaunch
  /\ lease \in Leases \cup {NoLease}
  /\ inbox \in Seq(Calls)
  /\ reply \in Replies \cup {NoReply}
  /\ alive \subseteq Launches /\ open \subseteq Launches
  /\ remote \in [Launches -> Nat] /\ roots \in Nat
  /\ launches \in 0..MaxLaunch

\* The daemon's record has a process.
Spawned == daemon # NoDaemon /\ daemon.launch # None

\* Where an operation stands: in a start, asking for the root page, in a stop.
Writing(next) == op.pc = "writing" /\ op.next = next
Starts == \/ op.pc \in {"starting", "launching", "spawning", "health", "undo shell", "undo browser"}
          \/ Writing("launching") \/ Writing("health") \/ Writing("rooting")
Roots == op.pc \in {"recheck", "rooting"}
Stops == op.pc \in {"farewell", "leaving", "closing", "quitting"} \/ Writing("stop")

OpInv ==
  /\ op.kind = "acquire" => op.mode \in Modes
  /\ Starts \/ Roots => op.kind = "acquire"
  /\ Stops => op.kind \in {"acquire", "shutdown"}
  /\ op.pc = "releasing" => op.kind \in {"acquire", "release", "settle"}

\* What the record of the daemon says where.
DaemonInv ==
  /\ daemon # NoDaemon => daemon.status = "starting" \/ Spawned
  /\ Spawned => browser = daemon.launch
  /\ op.pc \in {"releasing", "farewell", "leaving", "closing"} \/ Roots => Spawned
  /\ op.pc = "starting" => daemon = NoDaemon
  /\ (Starts /\ op.pc # "starting") \/ Roots => daemon # NoDaemon /\ daemon.mode = op.mode

\* The launch of the running operation: where it has one, and that the record, once it
\* has a process, has the same.
LaunchInv ==
  /\ op.launch # None =>
       \/ op.pc \in {"spawning", "undo shell", "undo browser", "health", "rooting"}
       \/ Writing("health") \/ Writing("rooting") \/ Writing("done")
  /\ op.launch # None => daemon # NoDaemon /\ daemon.launch \in {None, op.launch}
  /\ op.launch # None /\ ~Spawned => op.pc \in {"spawning", "undo shell", "undo browser"}
  /\ op.pc = "spawning" => op.launch # None
  /\ op.pc \in {"launching", "spawning"} \/ Writing("launching") => ~Spawned
  /\ op.pc = "health" \/ Writing("health") \/ Writing("rooting") => op.launch # None
  /\ op.pc \in {"undo shell", "undo browser"} /\ Spawned => daemon.launch = op.launch

\* A lease needs a daemon of its mode, and the operation that runs knows about it.
LeaseInv ==
  /\ lease # NoLease => Spawned /\ daemon.mode = lease.mode
  /\ Starts => lease = NoLease
  /\ op.pc \in {"leaving", "closing", "quitting"} \/ Writing("stop") => lease = NoLease
  /\ op.pc = "begin" => op.prev = lease
  /\ Roots /\ lease # NoLease => op.prev = lease /\ lease.mode = op.mode
  /\ op.pc = "releasing" =>
       /\ lease # NoLease
       /\ op.kind = "acquire" => lease.mode # op.mode
       /\ op.kind = "settle" => ~lease.retained
  /\ op.pc = "farewell" => lease # NoLease /\ (op.kind = "acquire" => lease.mode # op.mode)

\* The launch that is accounted for.
Pair == IF Spawned THEN daemon.launch ELSE op.launch

PairInv ==
  /\ alive \cup open \subseteq stuck \cup {Pair}
  /\ ~Spawned \/ op.pc \in {"quitting", "undo browser"} => alive \subseteq stuck

IInv == TypeOK /\ OpInv /\ DaemonInv /\ LaunchInv /\ LeaseInv /\ PairInv

LEMMA NoRecords == NoDaemon \notin Daemons /\ NoLease \notin Leases /\ NoReply \notin Replies
BY ControllerAssumption DEF Daemons, Leases, Replies

LEMMA NoneIsNoLaunch == None \notin Launches /\ None \in 0..MaxLaunch /\ Launches \subseteq 0..MaxLaunch
BY ControllerAssumption DEF None, Launches

-----------------------------------------------------------------------------
(* What the pieces of an operation do to its record.                       *)

SameOp == /\ op'.kind = op.kind /\ op'.mode = op.mode /\ op'.prev = op.prev
          /\ op'.launch = op.launch /\ op'.bad = op.bad

LEMMA GotoOp ==
  ASSUME op \in Ops, NEW p \in Pcs, Goto(p)
  PROVE  op' \in Ops /\ op'.pc = p /\ op'.next = op.next /\ SameOp
BY DEF Goto, Ops, SameOp

LEMMA WriteOp ==
  ASSUME op \in Ops, NEW next \in Nexts, Write(next)
  PROVE  op' \in Ops /\ op'.pc = "writing" /\ op'.next = next /\ SameOp
BY DEF Write, Ops, SameOp, Pcs

LEMMA EndOp ==
  ASSUME End
  PROVE  /\ op' \in Ops /\ op'.pc = "idle" /\ op'.kind = "none" /\ op'.launch = None
         /\ op'.next = "done" /\ op'.prev = NoLease
BY ControllerAssumption DEF End, Idle, Ops, Pcs, Nexts, None

\* A request joins the inbox of the daemon that is recorded.
LEMMA AskOp ==
  ASSUME TypeOK, Spawned, NEW act \in Acts, NEW p \in Pcs, Ask(act, p)
  PROVE  /\ op' \in Ops /\ op'.pc = p /\ op'.next = op.next /\ SameOp
         /\ inbox' \in Seq(Calls) /\ reply' = NoReply
<1>1. op' \in Ops /\ op'.pc = p /\ op'.next = op.next /\ SameOp
  BY GotoOp DEF Ask, TypeOK
<1>2. [launch |-> daemon.launch, act |-> act, heard |-> TRUE] \in Calls
  BY DEF TypeOK, Spawned, Daemons, Calls, Launches, None
<1> QED
  BY <1>1, <1>2 DEF Ask, TypeOK

LEMMA IdleOp == TypeOK => /\ op.kind \in Kinds \cup {"none"} /\ op.launch \in 0..MaxLaunch
                          /\ op.mode \in Modes \cup {NoMode} /\ op.next \in Nexts /\ op.pc \in Pcs
BY DEF TypeOK, Ops

LEMMA InitInv == Init => IInv
<1> SUFFICES ASSUME Init PROVE IInv
  OBVIOUS
<1>1. op \in Ops
  BY ControllerAssumption DEF Init, Idle, Ops, Pcs, Nexts, None
<1>2. TypeOK
  BY <1>1, ControllerAssumption DEF Init, TypeOK, None
<1> QED
  BY <1>2 DEF Init, Idle, IInv, OpInv, DaemonInv, LaunchInv, LeaseInv, PairInv, Spawned, Pair, Writing,
     Starts, Roots, Stops, None

-----------------------------------------------------------------------------
(* What happens beside the operation.                                      *)

\* A step that leaves the operation, the lease and the launch on record alone, and at
\* most ends daemons.
LEMMA BesideStep ==
  ASSUME IInv, TypeOK', UNCHANGED <<op, browser, lease, open, stuck>>, alive' \subseteq alive,
         (daemon' = NoDaemon) <=> (daemon = NoDaemon),
         daemon # NoDaemon => /\ daemon'.launch = daemon.launch /\ daemon'.mode = daemon.mode
                              /\ daemon'.status = daemon.status \/ Spawned
  PROVE  IInv'
<1>1. Spawned' <=> Spawned
  BY DEF Spawned
<1>2. Spawned => daemon'.launch = daemon.launch
  BY DEF Spawned
<1>3. OpInv'
  BY DEF IInv, OpInv, Starts, Roots, Stops, Writing
<1>4. DaemonInv'
  BY <1>1, <1>2 DEF IInv, DaemonInv, Starts, Roots, Writing
<1>5. LaunchInv'
  BY <1>1, <1>2 DEF IInv, LaunchInv, Writing
<1>6. LeaseInv'
  BY <1>1, <1>2 DEF IInv, LeaseInv, Starts, Roots, Writing, Spawned
<1>7. PairInv'
  BY <1>1, <1>2 DEF IInv, PairInv, Pair
<1> QED
  BY <1>3, <1>4, <1>5, <1>6, <1>7 DEF IInv

LEMMA DaemonDiesStep == ASSUME IInv, NEW l \in Launches, DaemonDies(l) PROVE IInv'
<1>1. UNCHANGED <<op, daemon, browser, lease, inbox, reply, open, stuck, remote, roots, launches>>
      /\ alive' \subseteq alive
  BY DEF DaemonDies, control, wire, browsers
<1>2. TypeOK'
  BY <1>1 DEF IInv, TypeOK
<1> QED
  BY <1>1, <1>2, BesideStep

LEMMA ServeStep == ASSUME IInv, Serve PROVE IInv'
<1>1. UNCHANGED <<op, daemon, browser, lease, open, stuck, launches>>
  BY DEF Serve, control, browsers
<1> DEFINE r == Head(inbox)
<1>2. inbox # <<>> /\ inbox \in Seq(Calls) /\ inbox' = Tail(inbox)
  BY DEF Serve, IInv, TypeOK
<1>3. inbox' \in Seq(Calls) /\ r \in Calls
  BY <1>2
<1>4. r.launch \in Launches
  BY <1>3 DEF Calls
<1>5. /\ alive' \subseteq alive
      /\ \/ UNCHANGED <<remote, roots>>
         \/ remote' = [remote EXCEPT ![r.launch] = None] /\ roots' = roots
         \/ roots' = roots + 1 /\ remote' = [remote EXCEPT ![r.launch] = roots + 1]
      /\ \E ok \in {"ok", "pending", "error"}, root \in {None, remote[r.launch], roots + 1} :
            Answered(r, ok, root)
  BY DEF Serve
<1> HIDE DEF r
<1>6. remote' \in [Launches -> Nat] /\ roots' \in Nat
  BY <1>4, <1>5 DEF IInv, TypeOK, None
<1>7. reply' \in Replies \cup {NoReply}
  <2>1. PICK ok \in {"ok", "pending", "error"}, root \in {None, remote[r.launch], roots + 1} :
            Answered(r, ok, root)
    BY <1>5
  <2>2. root \in Nat
    BY <1>4 DEF IInv, TypeOK, None
  <2> QED
    BY <2>1, <2>2 DEF Answered, Replies, IInv, TypeOK
<1>8. TypeOK'
  BY <1>1, <1>3, <1>5, <1>6, <1>7 DEF IInv, TypeOK
<1> QED
  BY <1>1, <1>5, <1>8, BesideStep

LEMMA WritingStep ==
  ASSUME IInv, NEW w \in Launches \cup {None}, WritePrepared(w) \/ TextWritten(w) \/ ExitWritten(w)
  PROVE  IInv'
<1>1. UNCHANGED <<op, daemon, browser, lease, inbox, reply, alive, open, stuck, remote, roots, launches>>
  BY DEF WritePrepared, TextWritten, ExitWritten, control, wire, processes, browsers
<1>2. TypeOK'
  BY <1>1 DEF IInv, TypeOK
<1> QED
  BY <1>1, <1>2, BesideStep

LEMMA HandleExitStep == ASSUME IInv, NEW l \in Launches, HandleExit(l) PROVE IInv'
<1>1. UNCHANGED <<op, browser, lease, inbox, reply, alive, open, stuck, remote, roots, launches>>
  BY DEF HandleExit, wire, browsers
<1>2. CASE daemon # NoDaemon /\ daemon.launch = l /\ daemon' = [daemon EXCEPT !.status = "exited", !.failed = TRUE]
  <2>1. daemon \in Daemons
    BY <1>2 DEF IInv, TypeOK
  <2>2. daemon' \in Daemons /\ daemon'.launch = daemon.launch /\ daemon'.mode = daemon.mode
    BY <1>2, <2>1 DEF Daemons
  <2>3. daemon' # NoDaemon /\ Spawned
    BY <1>2, <2>2, NoRecords DEF Spawned, Launches, None
  <2>4. TypeOK'
    BY <1>1, <2>2 DEF IInv, TypeOK
  <2> QED
    BY <1>1, <1>2, <2>2, <2>3, <2>4, BesideStep
<1>3. CASE daemon' = daemon
  <2>1. TypeOK'
    BY <1>1, <1>3 DEF IInv, TypeOK
  <2> QED
    BY <1>1, <1>3, <2>1, BesideStep
<1> QED
  BY <1>2, <1>3 DEF HandleExit

LEMMA GiveUpStep == ASSUME IInv, GiveUp PROVE IInv'
<1>1. UNCHANGED <<op, daemon, browser, lease, alive, open, stuck, remote, roots, launches>>
      /\ inbox' = Deaf(inbox) /\ reply' = [ok |-> "error", root |-> None]
  BY DEF GiveUp, control, processes, browsers
<1>2. inbox' \in Seq(Calls)
  <2>1. inbox \in Seq(Calls) /\ Len(inbox) \in Nat
    BY DEF IInv, TypeOK
  <2>2. ASSUME NEW i \in 1..Len(inbox) PROVE [inbox[i] EXCEPT !.heard = FALSE] \in Calls
    <3>1. inbox[i] \in Calls
      BY <2>1
    <3> QED
      BY <3>1 DEF Calls
  <2> QED
    BY <1>1, <2>1, <2>2 DEF Deaf
<1>3. reply' \in Replies
  BY <1>1 DEF Replies, None
<1>4. TypeOK'
  BY <1>1, <1>2, <1>3 DEF IInv, TypeOK
<1> QED
  BY <1>1, <1>4, BesideStep

-----------------------------------------------------------------------------
(* The steps of the operation.                                             *)

\* Of a step that only moves the operation on and may send a request.
Untouched == UNCHANGED <<daemon, browser, lease, alive, open, stuck, remote, roots, launches>>
Wired == inbox' \in Seq(Calls) /\ reply' \in Replies \cup {NoReply}

LEMMA WireKept == ASSUME IInv, UNCHANGED wire PROVE Wired
BY DEF IInv, TypeOK, Wired, wire

\* The operation ends: what it launched is on record, or is no more.
LEMMA EndStep ==
  ASSUME IInv, End, Untouched, Wired,
         op.launch # None => Spawned \/ alive \cup open \subseteq stuck
  PROVE  IInv'
<1>1. op' \in Ops /\ op'.pc = "idle" /\ op'.kind = "none" /\ op'.launch = None
  BY EndOp
<1>2. (Spawned' <=> Spawned) /\ (Spawned => daemon'.launch = daemon.launch)
  BY DEF Untouched, Spawned
<1>3. TypeOK'
  BY <1>1 DEF IInv, TypeOK, Untouched, Wired
<1>4. OpInv' /\ LaunchInv'
  BY <1>1 DEF OpInv, LaunchInv, Starts, Roots, Stops, Writing
<1>5. DaemonInv' /\ LeaseInv'
  BY <1>1, <1>2 DEF IInv, DaemonInv, LeaseInv, Starts, Roots, Writing, Untouched
<1>6. PairInv'
  BY <1>1, <1>2 DEF IInv, PairInv, Pair, Untouched
<1> QED
  BY <1>3, <1>4, <1>5, <1>6 DEF IInv

\* The operation moves on with the launch it has.
LEMMA MoveStep ==
  ASSUME IInv, op' \in Ops, SameOp, Untouched, Wired,
         OpInv', DaemonInv', LaunchInv', LeaseInv',
         op'.pc \in {"quitting", "undo browser"} => alive \subseteq stuck
  PROVE  IInv'
<1>1. TypeOK'
  BY DEF IInv, TypeOK, Untouched, Wired
<1>2. PairInv'
  BY DEF IInv, PairInv, Pair, Spawned, Untouched, SameOp
<1> QED
  BY <1>1, <1>2 DEF IInv

LEMMA BeginStep ==
  ASSUME IInv, NEW kind \in Kinds, NEW m \in Modes \cup {NoMode}, Begin(kind, m),
         kind = "acquire" => m \in Modes
  PROVE  IInv'
<1>1. Untouched /\ Wired
  BY WireKept DEF Begin, control, processes, browsers, Untouched
<1>2. op' = [Idle EXCEPT !.kind = kind, !.mode = m, !.pc = "begin", !.prev = lease]
  BY DEF Begin
<1>3. /\ op' \in Ops /\ op'.pc = "begin" /\ op'.kind = kind /\ op'.mode = m /\ op'.prev = lease
      /\ op'.launch = None
  <2>1. op' = [kind |-> kind, mode |-> m, pc |-> "begin", next |-> "done", prev |-> lease,
               launch |-> None, bad |-> FALSE]
    BY <1>2 DEF Idle
  <2>2. lease \in Leases \cup {NoLease} /\ "begin" \in Pcs /\ "done" \in Nexts
    BY DEF IInv, TypeOK, Pcs, Nexts
  <2> QED
    BY <2>1, <2>2, NoneIsNoLaunch DEF Ops
<1>4. op.launch = None
  BY DEF Begin, At, IInv, LaunchInv, Writing
<1>5. TypeOK'
  BY <1>1, <1>3 DEF IInv, TypeOK, Untouched, Wired
<1>6. OpInv' /\ LaunchInv'
  BY <1>3 DEF OpInv, LaunchInv, Starts, Roots, Stops, Writing
<1>7. DaemonInv' /\ LeaseInv'
  BY <1>1, <1>3 DEF IInv, DaemonInv, LeaseInv, Starts, Roots, Writing, Untouched, Spawned
<1>8. PairInv'
  BY <1>1, <1>3, <1>4 DEF IInv, PairInv, Pair, Spawned, Untouched
<1> QED
  BY <1>5, <1>6, <1>7, <1>8 DEF IInv

\* An operation that asks its daemon for something, at a point where it may.
LEMMA AskStep ==
  ASSUME IInv, Spawned, NEW act \in Acts, NEW p \in Asking, Ask(act, p), Untouched,
         p # "health" => op.launch = None \/ (p = "rooting" /\ op.launch = daemon.launch),
         p = "health" => op.pc = "health" \/ Writing("health"),
         p \in {"recheck", "rooting"} => op.kind = "acquire" /\ daemon.mode = op.mode
                                         /\ (lease # NoLease => op.prev = lease /\ lease.mode = op.mode),
         p = "releasing" => /\ op.kind \in {"acquire", "release", "settle"} /\ lease # NoLease
                            /\ op.kind = "acquire" => lease.mode # op.mode
                            /\ op.kind = "settle" => ~lease.retained,
         p \in {"farewell", "leaving"} => op.kind \in {"acquire", "shutdown"},
         p = "farewell" => lease # NoLease /\ (op.kind = "acquire" => lease.mode # op.mode),
         p = "leaving" => lease = NoLease
  PROVE  IInv'
<1>1. p \in Pcs /\ p \notin {"quitting", "undo browser", "undo shell", "begin", "starting", "launching",
                             "spawning", "closing", "writing"}
  BY DEF Asking, Pcs
<1>2. /\ op' \in Ops /\ op'.pc = p /\ SameOp /\ inbox' \in Seq(Calls) /\ reply' = NoReply
  BY <1>1, AskOp DEF IInv
<1>3. (Spawned' <=> Spawned) /\ daemon' = daemon /\ daemon # NoDaemon /\ lease' = lease /\ browser' = browser
  BY DEF Untouched, Spawned
<1>4. OpInv'
  BY <1>1, <1>2 DEF IInv, OpInv, SameOp, Starts, Roots, Stops, Writing
<1>5. DaemonInv'
  BY <1>1, <1>2, <1>3 DEF IInv, DaemonInv, SameOp, Starts, Roots, Writing
<1>6. LaunchInv'
  BY <1>1, <1>2, <1>3 DEF IInv, LaunchInv, SameOp, Writing
<1>7. LeaseInv'
  BY <1>1, <1>2, <1>3 DEF IInv, LeaseInv, SameOp, Starts, Roots, Writing
<1> QED
  BY <1>1, <1>2, <1>4, <1>5, <1>6, <1>7, MoveStep DEF Wired

\* acquire, once the daemon is up.
LEMMA RootStep ==
  ASSUME IInv, Root, Untouched, op.kind = "acquire",
         daemon # NoDaemon, daemon.mode = op.mode,
         lease # NoLease => op.prev = lease /\ lease.mode = op.mode,
         op.launch = None \/ (Spawned /\ op.launch = daemon.launch)
  PROVE  IInv'
<1>1. CASE daemon.status = "running" /\ browser # None
  <2>1. Spawned /\ Ask("acquire", "rooting")
    BY <1>1 DEF Root, IInv, DaemonInv
  <2> QED
    BY <2>1, AskStep DEF Acts, Asking
<1>2. CASE ~(daemon.status = "running" /\ browser # None)
  <2>1. End /\ UNCHANGED wire
    BY <1>2 DEF Root
  <2> QED
    BY <2>1, WireKept, EndStep
<1> QED
  BY <1>1, <1>2

\* stopDaemon and shutdown, up to their first await.
LEMMA StopStep ==
  ASSUME IInv, Stop, Untouched, op.launch = None, op.kind \in {"acquire", "shutdown"},
         lease # NoLease /\ op.kind = "acquire" => lease.mode # op.mode
  PROVE  IInv'
<1>1. CASE Spawned /\ lease # NoLease
  <2>1. Ask("release", "farewell")
    BY <1>1 DEF Stop, Spawned
  <2> QED
    BY <1>1, <2>1, AskStep DEF Acts, Asking
<1>2. CASE Spawned /\ lease = NoLease
  <2>1. Ask("shutdown", "leaving")
    BY <1>2 DEF Stop, Spawned
  <2> QED
    BY <1>2, <2>1, AskStep DEF Acts, Asking
<1>3. CASE ~Spawned
  <2>1. Goto("quitting") /\ Wired
    BY <1>3, WireKept DEF Stop, Spawned
  <2>2. op' \in Ops /\ op'.pc = "quitting" /\ SameOp
    BY <2>1, GotoOp DEF IInv, TypeOK, Pcs
  <2>3. alive \subseteq stuck
    BY <1>3, NoneIsNoLaunch DEF IInv, PairInv, Pair, TypeOK
  <2>4. ~Spawned' /\ lease' = NoLease
    BY <1>3 DEF Untouched, Spawned, IInv, LeaseInv
  <2>5. OpInv' /\ LaunchInv'
    BY <2>2 DEF IInv, OpInv, LaunchInv, SameOp, Starts, Roots, Stops, Writing
  <2>6. DaemonInv' /\ LeaseInv'
    BY <1>3, <2>2, <2>4 DEF IInv, DaemonInv, LeaseInv, Starts, Roots, Writing, Untouched
  <2> QED
    BY <2>1, <2>2, <2>3, <2>5, <2>6, MoveStep
<1> QED
  BY <1>1, <1>2, <1>3

LEMMA AskReleaseStep ==
  ASSUME IInv, AskRelease, Untouched, op.pc = "begin", op.launch = None, lease # NoLease,
         op.kind \in {"acquire", "release", "settle"},
         op.kind = "acquire" => lease.mode # op.mode,
         op.kind = "settle" => ~lease.retained
  PROVE  IInv'
<1>1. CASE Usable
  <2>1. Ask("release", "releasing") /\ Spawned
    BY <1>1 DEF AskRelease, Usable, Spawned
  <2> QED
    BY <2>1, AskStep DEF Acts, Asking
<1>2. CASE ~Usable
  <2>1. End /\ UNCHANGED wire
    BY <1>2 DEF AskRelease
  <2> QED
    BY <2>1, WireKept, EndStep
<1> QED
  BY <1>1, <1>2

LEMMA AcquireStep == ASSUME IInv, Acquire PROVE IInv'
<1>1. /\ Begins("acquire") /\ Untouched /\ op.kind = "acquire" /\ op.mode \in Modes
      /\ op.pc = "begin" /\ op.launch = None /\ op.prev = lease
  BY DEF Acquire, Begins, At, Keeps, control, processes, browsers, Untouched, IInv, OpInv, LaunchInv,
         LeaseInv, Writing
<1>2. CASE lease # NoLease /\ lease.mode # op.mode
  <2>1. AskRelease
    BY <1>2 DEF Acquire
  <2> QED
    BY <1>1, <1>2, <2>1, AskReleaseStep
<1>3. CASE ~(lease # NoLease /\ lease.mode # op.mode) /\ OtherMode
  <2>1. Stop
    BY <1>3 DEF Acquire
  <2>2. lease = NoLease
    BY <1>3 DEF OtherMode, IInv, LeaseInv
  <2> QED
    BY <1>1, <2>1, <2>2, StopStep
<1>4. CASE ~(lease # NoLease /\ lease.mode # op.mode) /\ ~OtherMode
  <2>1. Ensure
    BY <1>4 DEF Acquire
  <2>2. CASE daemon = NoDaemon
    <3>1. Goto("starting") /\ Wired
      BY <2>1, <2>2, WireKept DEF Ensure
    <3>2. op' \in Ops /\ op'.pc = "starting" /\ SameOp
      BY <3>1, GotoOp DEF IInv, TypeOK, Pcs
    <3>3. lease = NoLease
      BY <2>2 DEF IInv, LeaseInv, Spawned
    <3>4. OpInv' /\ LaunchInv'
      BY <1>1, <3>2 DEF IInv, OpInv, LaunchInv, SameOp, Starts, Roots, Stops, Writing
    <3>5. daemon' = NoDaemon /\ lease' = NoLease /\ ~Spawned'
      BY <1>1, <2>2, <3>3 DEF Untouched, Spawned
    <3>6. DaemonInv' /\ LeaseInv'
      BY <3>2, <3>5 DEF DaemonInv, LeaseInv, Starts, Roots, Writing
    <3> QED
      BY <1>1, <3>1, <3>2, <3>4, <3>6, MoveStep
  <2>3. CASE daemon # NoDaemon /\ daemon.status = "running" /\ ~daemon.failed
    <3>1. Ask("health", "recheck")
      BY <2>1, <2>3 DEF Ensure
    <3>2. Spawned
      BY <2>3 DEF IInv, DaemonInv
    <3>3. daemon.mode = op.mode /\ (lease # NoLease => op.prev = lease /\ lease.mode = op.mode)
      BY <1>1, <1>4, <2>3 DEF OtherMode
    <3> QED
      BY <1>1, <3>1, <3>2, <3>3, AskStep DEF Acts, Asking
  <2>4. CASE daemon # NoDaemon /\ ~(daemon.status = "running" /\ ~daemon.failed)
    <3>1. End /\ UNCHANGED wire
      BY <2>1, <2>4 DEF Ensure
    <3> QED
      BY <1>1, <3>1, WireKept, EndStep
  <2> QED
    BY <2>2, <2>3, <2>4
<1> QED
  BY <1>2, <1>3, <1>4

LEMMA ReleaseStep == ASSUME IInv, Release PROVE IInv'
<1>1. Untouched /\ op.pc = "begin" /\ op.kind \in {"release", "settle"} /\ op.launch = None
  BY DEF Release, Begins, At, Keeps, control, processes, browsers, Untouched, IInv, LaunchInv, Writing
<1>2. CASE MayRelease
  <2>1. AskRelease
    BY <1>2 DEF Release
  <2> QED
    BY <1>1, <1>2, <2>1, AskReleaseStep DEF MayRelease
<1>3. CASE ~MayRelease
  <2>1. End /\ UNCHANGED wire
    BY <1>3 DEF Release
  <2> QED
    BY <1>1, <2>1, WireKept, EndStep
<1> QED
  BY <1>2, <1>3

LEMMA ShutdownStep == ASSUME IInv, Shutdown PROVE IInv'
<1>1. Stop /\ Untouched /\ op.pc = "begin" /\ op.kind = "shutdown" /\ op.launch = None
  BY DEF Shutdown, Begins, At, Keeps, processes, browsers, Untouched, IInv, LaunchInv, Writing
<1> QED
  BY <1>1, StopStep

\* The operation writes the descriptor and the lease changes, while its daemon is there.
LEMMA LeaseStep ==
  ASSUME IInv, Spawned, NEW next \in {"done", "stop"}, Write(next),
         UNCHANGED <<daemon, browser, wire, alive, open, stuck, remote, roots, launches>>,
         lease' \in Leases \cup {NoLease}, lease' # NoLease => lease'.mode = daemon.mode,
         next = "stop" => lease' = NoLease /\ op.kind = "acquire" /\ op.launch = None
  PROVE  IInv'
<1>1. op' \in Ops /\ op'.pc = "writing" /\ op'.next = next /\ SameOp
  BY WriteOp DEF IInv, TypeOK, Nexts
<1>2. Spawned' /\ daemon' = daemon /\ daemon # NoDaemon
  BY DEF Spawned
<1>3. TypeOK'
  BY <1>1 DEF IInv, TypeOK, wire
<1>4. OpInv' /\ LaunchInv'
  BY <1>1, <1>2 DEF IInv, OpInv, LaunchInv, SameOp, Starts, Roots, Stops, Writing
<1>5. DaemonInv' /\ LeaseInv'
  BY <1>1, <1>2 DEF IInv, DaemonInv, LeaseInv, Starts, Roots, Writing
<1>6. PairInv'
  BY <1>1, <1>2 DEF IInv, PairInv, Pair
<1> QED
  BY <1>3, <1>4, <1>5, <1>6 DEF IInv

LEMMA RetainStep == ASSUME IInv, Retain PROVE IInv'
<1>1. UNCHANGED <<daemon, browser, wire, alive, open, stuck, remote, roots, launches>>
  BY DEF Retain, Keeps, processes, browsers
<1>2. CASE lease # NoLease /\ Usable
  <2>1. lease' = [lease EXCEPT !.retained = TRUE] /\ Write("done")
    BY <1>2 DEF Retain
  <2>2. lease \in Leases /\ Spawned /\ daemon.mode = lease.mode
    BY <1>2 DEF IInv, TypeOK, LeaseInv
  <2>3. lease' \in Leases /\ lease'.mode = lease.mode
    BY <2>1, <2>2 DEF Leases
  <2> QED
    BY <1>1, <2>1, <2>2, <2>3, LeaseStep
<1>3. CASE ~(lease # NoLease /\ Usable)
  <2>1. End /\ Untouched /\ UNCHANGED wire
    BY <1>1, <1>3 DEF Retain, Untouched
  <2>2. op.launch = None
    BY DEF Retain, Begins, At, IInv, LaunchInv, Writing
  <2> QED
    BY <2>1, <2>2, WireKept, EndStep
<1> QED
  BY <1>2, <1>3

LEMMA ReleasedStep == ASSUME IInv, Released PROVE IInv'
<1>1. UNCHANGED <<daemon, browser, wire, alive, open, stuck, remote, roots, launches>>
  BY DEF Released, Keeps, processes, browsers
<1>2. op.pc = "releasing" /\ Spawned /\ op.launch = None
  BY DEF Released, Told, At, IInv, DaemonInv, LaunchInv, Writing
<1>3. CASE Ok
  <2>1. lease' = NoLease /\ Write(IF op.kind = "acquire" THEN "stop" ELSE "done")
    BY <1>3 DEF Released
  <2> QED
    BY <1>1, <1>2, <2>1, LeaseStep
<1>4. CASE ~Ok
  <2>1. End /\ Untouched
    BY <1>1, <1>4 DEF Released, Untouched
  <2> QED
    BY <1>1, <1>2, <2>1, WireKept, EndStep
<1> QED
  BY <1>3, <1>4

LEMMA RootToldStep == ASSUME IInv, RootTold PROVE IInv'
<1>1. UNCHANGED <<daemon, browser, wire, alive, open, stuck, remote, roots, launches>>
  BY DEF RootTold, Keeps, processes, browsers
<1>2. op.pc = "rooting" /\ op.kind = "acquire" /\ Spawned /\ daemon.mode = op.mode /\ op.mode \in Modes
      /\ reply \in Replies
  BY DEF RootTold, Told, At, IInv, TypeOK, OpInv, DaemonInv, Roots
<1>3. CASE Ok /\ SameRoot
  <2>1. /\ lease' = [mode |-> op.mode, root |-> reply.root,
                     retained |-> op.prev # NoLease /\ op.prev.mode = op.mode /\ op.prev.retained]
        /\ Write("done")
    BY <1>3 DEF RootTold
  <2>2. (op.prev # NoLease /\ op.prev.mode = op.mode /\ op.prev.retained) \in BOOLEAN
    OBVIOUS
  <2>3. lease' \in Leases /\ lease'.mode = daemon.mode
    BY <1>2, <2>1, <2>2 DEF Leases, Replies
  <2> QED
    BY <1>1, <1>2, <2>1, <2>3, LeaseStep
<1>4. CASE ~(Ok /\ SameRoot)
  <2>1. End /\ Untouched
    BY <1>1, <1>4 DEF RootTold, Untouched
  <2> QED
    BY <1>1, <1>2, <2>1, WireKept, EndStep
<1> QED
  BY <1>3, <1>4

-----------------------------------------------------------------------------
(* Stopping a daemon and its browser.                                      *)

LEMMA FarewellToldStep == ASSUME IInv, FarewellTold PROVE IInv'
<1>1. /\ op.pc = "farewell" /\ Spawned /\ op.kind \in {"acquire", "shutdown"} /\ op.launch = None
      /\ UNCHANGED <<daemon, browser, alive, open, stuck, remote, roots, launches>>
      /\ lease' = NoLease /\ reply' = NoReply
  BY DEF FarewellTold, Told, At, Keeps, processes, browsers, IInv, OpInv, DaemonInv, LaunchInv, Stops, Writing
<1>2. op' = [op EXCEPT !.pc = "leaving", !.bad = op.bad \/ ~Ok]
  BY DEF FarewellTold
<1>3. op' \in Ops /\ op'.pc = "leaving" /\ op'.kind = op.kind /\ op'.mode = op.mode /\ op'.launch = None
  BY <1>1, <1>2 DEF IInv, TypeOK, Ops, Pcs
<1>4. inbox' \in Seq(Calls)
  <2>1. [launch |-> daemon.launch, act |-> "shutdown", heard |-> TRUE] \in Calls
    BY <1>1 DEF IInv, TypeOK, Spawned, Daemons, Calls, Acts, Launches, None
  <2> QED
    BY <2>1 DEF FarewellTold, IInv, TypeOK
<1>5. (Spawned' <=> Spawned) /\ daemon' = daemon
  BY <1>1 DEF Spawned
<1>6. TypeOK'
  BY <1>1, <1>3, <1>4 DEF IInv, TypeOK
<1>7. OpInv' /\ LaunchInv'
  BY <1>1, <1>3 DEF IInv, OpInv, LaunchInv, Starts, Roots, Stops, Writing
<1>8. DaemonInv' /\ LeaseInv'
  BY <1>1, <1>3, <1>5 DEF IInv, DaemonInv, LeaseInv, Starts, Roots, Writing
<1>9. PairInv'
  BY <1>1, <1>3, <1>5 DEF IInv, PairInv, Pair
<1> QED
  BY <1>6, <1>7, <1>8, <1>9 DEF IInv

LEMMA LeavingToldStep == ASSUME IInv, LeavingTold PROVE IInv'
<1>1. /\ op.pc = "leaving" /\ Spawned /\ op.kind \in {"acquire", "shutdown"} /\ op.launch = None
      /\ UNCHANGED <<daemon, browser, lease, inbox, reply, alive, open, stuck, remote, roots, launches>>
  BY DEF LeavingTold, Told, At, Keeps, control, wire, processes, browsers, IInv, OpInv, DaemonInv, LaunchInv,
         Stops, Writing
<1>2. op' = [op EXCEPT !.pc = "closing", !.bad = op.bad \/ (~Ok /\ ~daemon.failed)]
  BY DEF LeavingTold
<1>3. op' \in Ops /\ op'.pc = "closing" /\ op'.kind = op.kind /\ op'.mode = op.mode /\ op'.launch = None
  BY <1>1, <1>2 DEF IInv, TypeOK, Ops, Pcs
<1>4. (Spawned' <=> Spawned) /\ daemon' = daemon
  BY <1>1 DEF Spawned
<1>5. TypeOK'
  BY <1>1, <1>3 DEF IInv, TypeOK
<1>6. OpInv' /\ LaunchInv'
  BY <1>1, <1>3 DEF IInv, OpInv, LaunchInv, Starts, Roots, Stops, Writing
<1>7. DaemonInv' /\ LeaseInv'
  BY <1>1, <1>3, <1>4 DEF IInv, DaemonInv, LeaseInv, Starts, Roots, Writing
<1>8. PairInv'
  BY <1>1, <1>3, <1>4 DEF IInv, PairInv, Pair
<1> QED
  BY <1>5, <1>6, <1>7, <1>8 DEF IInv

LEMMA CloseShellStep == ASSUME IInv, CloseShell PROVE IInv'
<1>1. /\ op.pc = "closing" /\ Spawned /\ lease = NoLease /\ op.kind \in {"acquire", "shutdown"}
      /\ op.launch = None
      /\ UNCHANGED <<daemon, browser, lease, inbox, reply, open, remote, roots, launches>>
  BY DEF CloseShell, ShellClosed, At, control, wire, processes, browsers, IInv, OpInv, DaemonInv, LaunchInv,
         LeaseInv, Stops, Writing
<1>2. op' \in Ops /\ op'.pc = "quitting" /\ op'.kind = op.kind /\ op'.mode = op.mode /\ op'.launch = None
  BY <1>1 DEF CloseShell, Goto, IInv, TypeOK, Ops, Pcs
<1>3. \/ alive' = alive \ {daemon.launch} /\ stuck' = stuck
      \/ alive' = alive /\ stuck' = stuck \cup {daemon.launch}
  BY DEF CloseShell, ShellClosed, CloseFails, processes
<1>4. (Spawned' <=> Spawned) /\ daemon' = daemon
  BY <1>1 DEF Spawned
<1>5. TypeOK'
  BY <1>1, <1>2, <1>3 DEF IInv, TypeOK
<1>6. OpInv' /\ LaunchInv'
  BY <1>1, <1>2 DEF IInv, OpInv, LaunchInv, Starts, Roots, Stops, Writing
<1>7. DaemonInv' /\ LeaseInv'
  BY <1>1, <1>2, <1>4 DEF IInv, DaemonInv, LeaseInv, Starts, Roots, Writing
<1>8. PairInv'
  BY <1>1, <1>2, <1>3, <1>4 DEF IInv, PairInv, Pair
<1> QED
  BY <1>5, <1>6, <1>7, <1>8 DEF IInv

LEMMA QuitStep == ASSUME IInv, Quit PROVE IInv'
<1>1. /\ op.pc = "quitting" /\ op.launch = None /\ alive \subseteq stuck
      /\ UNCHANGED <<inbox, reply, alive, remote, roots, launches>>
      /\ daemon' = NoDaemon /\ browser' = None /\ lease' = NoLease /\ ~Spawned'
  BY DEF Quit, At, wire, processes, IInv, LaunchInv, PairInv, Writing, Spawned
<1>2. stuck \subseteq stuck' /\ open' \subseteq open /\ open' \subseteq stuck'
  <2>1. open \subseteq stuck \cup {browser}
    <3>1. CASE Spawned
      BY <3>1 DEF IInv, PairInv, Pair, DaemonInv
    <3>2. CASE ~Spawned
      BY <1>1, <3>2, NoneIsNoLaunch DEF IInv, PairInv, Pair, TypeOK
    <3> QED
      BY <3>1, <3>2
  <2> QED
    BY <2>1 DEF Quit, CloseBrowser, CloseFails
<1>3. /\ op' \in Ops /\ op'.launch = None
      /\ \/ op'.pc = "idle" /\ op'.kind = "none"
         \/ op'.pc = "starting" /\ op'.kind = "acquire" /\ op.kind = "acquire" /\ op'.mode = op.mode
  <2>1. CASE op.kind = "acquire" /\ ~op.bad /\ stuck' = stuck
    <3>1. Goto("starting")
      BY <2>1 DEF Quit
    <3> QED
      BY <1>1, <2>1, <3>1, GotoOp DEF IInv, TypeOK, Pcs, SameOp
  <2>2. CASE ~(op.kind = "acquire" /\ ~op.bad /\ stuck' = stuck)
    <3>1. End
      BY <2>2 DEF Quit
    <3> QED
      BY <3>1, EndOp
  <2> QED
    BY <2>1, <2>2
<1>4. TypeOK'
  BY <1>1, <1>2, <1>3, NoneIsNoLaunch DEF IInv, TypeOK
<1>5. OpInv'
  BY <1>1, <1>3 DEF IInv, OpInv, Starts, Roots, Stops, Writing
<1>6. DaemonInv' /\ LaunchInv' /\ LeaseInv'
  BY <1>1, <1>3 DEF DaemonInv, LaunchInv, LeaseInv, Starts, Roots, Writing
<1>7. PairInv'
  BY <1>1, <1>2 DEF PairInv
<1> QED
  BY <1>4, <1>5, <1>6, <1>7 DEF IInv

-----------------------------------------------------------------------------
(* Starting a browser and its daemon.                                      *)

\* A start has no lease, and its mode is a mode.
LEMMA InStart == ASSUME IInv, Starts
                 PROVE  /\ op.kind = "acquire" /\ op.mode \in Modes /\ lease = NoLease
                        /\ op.pc # "starting" => daemon \in Daemons /\ daemon # NoDaemon /\ daemon.mode = op.mode
BY DEF IInv, TypeOK, OpInv, DaemonInv, LeaseInv

LEMMA FreshStartStep == ASSUME IInv, FreshStart PROVE IInv'
<1>1. /\ op.pc = "starting" /\ daemon = NoDaemon /\ op.launch = None
      /\ UNCHANGED <<browser, lease, inbox, reply, alive, open, stuck, remote, roots, launches>>
      /\ Write("launching")
  BY DEF FreshStart, At, Keeps, wire, processes, browsers, IInv, DaemonInv, LaunchInv, Writing
<1>2. op.kind = "acquire" /\ op.mode \in Modes /\ lease = NoLease
  BY <1>1, InStart DEF Starts
<1>3. op' \in Ops /\ op'.pc = "writing" /\ op'.next = "launching" /\ SameOp
  BY <1>1, WriteOp DEF IInv, TypeOK, Nexts
<1>4. daemon' = [launch |-> None, mode |-> op.mode, status |-> "starting", failed |-> FALSE]
  BY DEF FreshStart
<1>5. /\ daemon' \in Daemons /\ daemon'.launch = None /\ daemon'.mode = op.mode
      /\ daemon'.status = "starting" /\ ~Spawned'
  BY <1>2, <1>4, NoneIsNoLaunch DEF Daemons, Spawned
<1>6. daemon' # NoDaemon
  BY <1>5, NoRecords
<1>7. TypeOK'
  BY <1>1, <1>3, <1>5 DEF IInv, TypeOK
<1>8. OpInv' /\ LaunchInv'
  BY <1>1, <1>2, <1>3, <1>5 DEF IInv, OpInv, LaunchInv, SameOp, Starts, Roots, Stops, Writing
<1>9. DaemonInv' /\ LeaseInv'
  BY <1>1, <1>2, <1>3, <1>5, <1>6 DEF DaemonInv, LeaseInv, SameOp, Starts, Roots, Writing
<1>10. PairInv'
  BY <1>1, <1>3, <1>5 DEF IInv, PairInv, Pair, SameOp, Spawned
<1> QED
  BY <1>7, <1>8, <1>9, <1>10 DEF IInv

\* In a start, a failure leads to the clean-up of what it launched.
LEMMA UndoStep ==
  ASSUME IInv, Starts, op.pc # "starting", Goto("undo shell"), Untouched, Wired
  PROVE  IInv'
<1>1. /\ op.kind = "acquire" /\ lease' = NoLease /\ daemon' # NoDaemon
      /\ daemon'.mode = op.mode /\ daemon' = daemon /\ browser' = browser
      /\ (Spawned' <=> Spawned)
  BY InStart DEF Untouched, Spawned
<1>2. op' \in Ops /\ op'.pc = "undo shell" /\ SameOp
  BY GotoOp DEF IInv, TypeOK, Pcs
<1>3. Spawned => daemon.launch = op.launch
  BY DEF IInv, LaunchInv, Starts, Writing, Spawned
<1>4. OpInv' /\ DaemonInv'
  BY <1>1, <1>2 DEF IInv, OpInv, DaemonInv, SameOp, Starts, Roots, Stops, Writing
<1>5. LaunchInv' /\ LeaseInv'
  BY <1>1, <1>2, <1>3 DEF IInv, LaunchInv, LeaseInv, SameOp, Starts, Roots, Writing
<1> QED
  BY <1>2, <1>4, <1>5, MoveStep

LEMMA LaunchStep == ASSUME IInv, Launch PROVE IInv'
<1>1. /\ op.pc = "launching" /\ Starts /\ ~Spawned /\ op.launch = None
      /\ UNCHANGED <<daemon, browser, lease, inbox, reply, alive, stuck, remote, roots>>
  BY DEF Launch, At, control, wire, processes, IInv, LaunchInv, Starts, Writing
<1>2. op.kind = "acquire" /\ op.mode \in Modes /\ lease = NoLease /\ daemon # NoDaemon /\ daemon.mode = op.mode
  BY <1>1, InStart
<1>3. CASE /\ launches < MaxLaunch /\ launches' = launches + 1
           /\ open' = open \cup (IF op.mode \in Temporary THEN {launches + 1} ELSE {})
           /\ op' = [op EXCEPT !.pc = "spawning", !.launch = launches + 1]
  <2>1. launches' \in Launches /\ launches' # None
    BY <1>3, ControllerAssumption DEF IInv, TypeOK, Launches, None
  <2>2. /\ op' \in Ops /\ op'.pc = "spawning" /\ op'.kind = op.kind /\ op'.mode = op.mode
        /\ op'.launch = launches'
    BY <1>3, <2>1, NoneIsNoLaunch DEF IInv, TypeOK, Ops, Pcs
  <2>3. open' \subseteq open \cup {launches'}
    BY <1>3
  <2>4. (Spawned' <=> Spawned) /\ daemon' = daemon /\ lease' = lease /\ browser' = browser
    BY <1>1 DEF Spawned
  <2>5. TypeOK'
    BY <1>1, <2>1, <2>2, <2>3, NoneIsNoLaunch DEF IInv, TypeOK
  <2>6. OpInv' /\ LaunchInv'
    BY <1>1, <1>2, <2>1, <2>2, <2>4 DEF IInv, OpInv, LaunchInv, Spawned, Starts, Roots, Stops, Writing
  <2>7. DaemonInv' /\ LeaseInv'
    BY <1>1, <1>2, <2>2, <2>4 DEF IInv, DaemonInv, LeaseInv, Starts, Roots, Writing
  <2>8. PairInv'
    BY <1>1, <2>2, <2>3, <2>4, NoneIsNoLaunch DEF IInv, PairInv, Pair, TypeOK
  <2> QED
    BY <2>5, <2>6, <2>7, <2>8 DEF IInv
<1>4. CASE Goto("undo shell") /\ UNCHANGED browsers
  BY <1>1, <1>4, UndoStep DEF Untouched, Wired, browsers, IInv, TypeOK
<1> QED
  BY <1>3, <1>4 DEF Launch

LEMMA SpawnStep == ASSUME IInv, Spawn PROVE IInv'
<1>1. /\ op.pc = "spawning" /\ Starts /\ ~Spawned /\ op.launch # None
      /\ UNCHANGED <<lease, inbox, reply, stuck, remote, roots, open, launches>>
  BY DEF Spawn, At, wire, browsers, IInv, LaunchInv, Starts, Writing
<1>2. /\ op.kind = "acquire" /\ op.mode \in Modes /\ lease = NoLease
      /\ daemon # NoDaemon /\ daemon \in Daemons /\ daemon.mode = op.mode
  BY <1>1, InStart
<1>3. CASE /\ alive' = alive \cup {op.launch} /\ browser' = op.launch
           /\ daemon' = [daemon EXCEPT !.launch = op.launch] /\ Write("health")
  <2>1. op.launch \in Launches /\ op.launch \in 0..MaxLaunch
    BY <1>1, ControllerAssumption DEF IInv, TypeOK, Ops, Launches, None
  <2>2. op' \in Ops /\ op'.pc = "writing" /\ op'.next = "health" /\ SameOp
    BY <1>3, WriteOp DEF IInv, TypeOK, Nexts
  <2>3. daemon' \in Daemons /\ daemon'.launch = op.launch /\ daemon'.mode = op.mode
    BY <1>2, <1>3, <2>1 DEF Daemons
  <2>4. daemon' # NoDaemon /\ Spawned'
    BY <1>1, <2>3, NoRecords DEF Spawned
  <2>5. TypeOK'
    BY <1>1, <1>3, <2>1, <2>2, <2>3 DEF IInv, TypeOK
  <2>6. OpInv' /\ LaunchInv'
    BY <1>1, <1>2, <2>2, <2>3, <2>4 DEF IInv, OpInv, LaunchInv, SameOp, Starts, Roots, Stops, Writing
  <2>7. DaemonInv' /\ LeaseInv'
    BY <1>1, <1>2, <1>3, <2>2, <2>3, <2>4 DEF DaemonInv, LeaseInv, SameOp, Starts, Roots, Writing
  <2>8. PairInv'
    BY <1>1, <1>3, <2>2, <2>3, <2>4 DEF IInv, PairInv, Pair
  <2> QED
    BY <2>5, <2>6, <2>7, <2>8 DEF IInv
<1>4. CASE Goto("undo shell") /\ UNCHANGED <<alive, browser, daemon, writes>>
  BY <1>1, <1>4, UndoStep DEF Untouched, Wired, IInv, TypeOK
<1> QED
  BY <1>3, <1>4 DEF Spawn

LEMMA HealthOkStep == ASSUME IInv, HealthOk PROVE IInv'
<1>1. /\ op.pc = "health" /\ Starts /\ Spawned /\ op.launch # None
      /\ UNCHANGED <<browser, lease, inbox, reply, alive, open, stuck, remote, roots, launches>>
      /\ daemon' = [daemon EXCEPT !.status = "running"] /\ Write("rooting")
  BY DEF HealthOk, Told, At, Keeps, wire, processes, browsers, IInv, LaunchInv, Starts, Writing
<1>2. op.kind = "acquire" /\ lease = NoLease /\ daemon \in Daemons /\ daemon.mode = op.mode
  BY <1>1, InStart
<1>3. op' \in Ops /\ op'.pc = "writing" /\ op'.next = "rooting" /\ SameOp
  BY <1>1, WriteOp DEF IInv, TypeOK, Nexts
<1>4. daemon' \in Daemons /\ daemon'.launch = daemon.launch /\ daemon'.mode = daemon.mode
  BY <1>1, <1>2 DEF Daemons
<1>5. daemon' # NoDaemon /\ Spawned'
  BY <1>1, <1>4, NoRecords DEF Spawned
<1>6. TypeOK'
  BY <1>1, <1>3, <1>4 DEF IInv, TypeOK
<1>7. OpInv' /\ LaunchInv'
  BY <1>1, <1>2, <1>3, <1>4, <1>5 DEF IInv, OpInv, LaunchInv, SameOp, Starts, Roots, Stops, Writing
<1>8. DaemonInv' /\ LeaseInv'
  BY <1>1, <1>2, <1>3, <1>4, <1>5 DEF IInv, DaemonInv, LeaseInv, SameOp, Starts, Roots, Writing
<1>9. PairInv'
  BY <1>1, <1>3, <1>4, <1>5 DEF IInv, PairInv, Pair
<1> QED
  BY <1>6, <1>7, <1>8, <1>9 DEF IInv

LEMMA RecheckOkStep == ASSUME IInv, RecheckOk PROVE IInv'
<1>1. Root /\ Untouched /\ op.pc = "recheck" /\ op.launch = None
  BY DEF RecheckOk, Told, At, Keeps, control, processes, browsers, Untouched, IInv, LaunchInv, Writing
<1>2. /\ op.kind = "acquire" /\ daemon # NoDaemon /\ daemon.mode = op.mode
      /\ lease # NoLease => op.prev = lease /\ lease.mode = op.mode
  BY <1>1 DEF IInv, OpInv, DaemonInv, LeaseInv, Roots
<1> QED
  BY <1>1, <1>2, RootStep

LEMMA PollAgainStep == ASSUME IInv, PollAgain PROVE IInv'
<1>1. Untouched /\ Ask("health", op.pc) /\ op.pc \in {"health", "recheck"}
  BY DEF PollAgain, Told, At, Keeps, control, processes, browsers, Untouched
<1>2. Spawned
  BY <1>1 DEF IInv, DaemonInv, LaunchInv, Roots
<1>3. CASE op.pc = "health"
  BY <1>1, <1>2, <1>3, AskStep DEF Acts, Asking
<1>4. CASE op.pc = "recheck"
  <2>1. /\ op.kind = "acquire" /\ daemon.mode = op.mode /\ op.launch = None
        /\ lease # NoLease => op.prev = lease /\ lease.mode = op.mode
    BY <1>4 DEF IInv, OpInv, DaemonInv, LaunchInv, LeaseInv, Roots, Writing
  <2> QED
    BY <1>1, <1>2, <1>4, <2>1, AskStep DEF Acts, Asking
<1> QED
  BY <1>1, <1>3, <1>4

LEMMA PollOverStep == ASSUME IInv, PollOver PROVE IInv'
<1>1. Untouched /\ Wired /\ op.pc \in {"health", "recheck"}
  BY WireKept DEF PollOver, Told, At, Keeps, control, processes, browsers, Untouched
<1>2. CASE op.pc = "health"
  <2>1. Goto("undo shell") /\ Starts
    BY <1>2 DEF PollOver, At, Starts
  <2> QED
    BY <1>1, <1>2, <2>1, UndoStep
<1>3. CASE op.pc = "recheck"
  <2>1. End /\ Spawned
    BY <1>3 DEF PollOver, At, IInv, DaemonInv, Roots
  <2> QED
    BY <1>1, <2>1, EndStep
<1> QED
  BY <1>1, <1>2, <1>3

LEMMA UndoShellStep == ASSUME IInv, UndoShell PROVE IInv'
<1>1. /\ op.pc = "undo shell" /\ Starts
      /\ UNCHANGED <<daemon, browser, lease, inbox, reply, open, remote, roots, launches>>
  BY DEF UndoShell, ShellClosed, At, Starts, control, wire, processes, browsers
<1>2. op.kind = "acquire" /\ lease = NoLease /\ daemon # NoDaemon /\ daemon.mode = op.mode
  BY <1>1, InStart
<1>3. op' \in Ops /\ op'.pc = "undo browser" /\ SameOp
  BY GotoOp DEF UndoShell, IInv, TypeOK, Pcs
<1>4. (Spawned' <=> Spawned) /\ daemon' = daemon
  BY <1>1 DEF Spawned
<1>5. alive' \subseteq alive /\ stuck \subseteq stuck' /\ alive' \subseteq stuck'
  <2>1. alive \subseteq stuck \cup {Pair}
    BY DEF IInv, PairInv
  <2>2. Spawned => Pair = daemon.launch
    BY DEF Pair
  <2>3. CASE Spawned
    BY <1>2, <2>1, <2>2, <2>3 DEF UndoShell, ShellClosed, CloseFails, processes, Spawned
  <2>4. CASE ~Spawned
    <3>1. UNCHANGED <<alive, stuck>>
      BY <1>2, <2>4 DEF UndoShell, processes, Spawned
    <3>2. alive \subseteq stuck
      BY <1>1, <2>4 DEF IInv, PairInv
    <3> QED
      BY <3>1, <3>2
  <2> QED
    BY <2>3, <2>4
<1>6. TypeOK'
  BY <1>1, <1>3, <1>5 DEF IInv, TypeOK
<1>7. OpInv' /\ LaunchInv'
  BY <1>1, <1>2, <1>3, <1>4 DEF IInv, OpInv, LaunchInv, SameOp, Starts, Roots, Stops, Writing
<1>8. DaemonInv' /\ LeaseInv'
  BY <1>1, <1>2, <1>3, <1>4 DEF IInv, DaemonInv, LeaseInv, SameOp, Starts, Roots, Writing
<1>9. PairInv'
  BY <1>1, <1>3, <1>4, <1>5 DEF IInv, PairInv, Pair, SameOp
<1> QED
  BY <1>6, <1>7, <1>8, <1>9 DEF IInv

LEMMA UndoBrowserStep == ASSUME IInv, UndoBrowser PROVE IInv'
<1>1. /\ op.pc = "undo browser" /\ Starts /\ lease = NoLease /\ alive \subseteq stuck /\ End
      /\ UNCHANGED <<lease, inbox, reply, alive, remote, roots, launches>>
      /\ daemon' = NoDaemon /\ browser' = None /\ ~Spawned'
  BY DEF UndoBrowser, At, Starts, wire, processes, IInv, PairInv, LeaseInv, Spawned
<1>2. op' \in Ops /\ op'.pc = "idle" /\ op'.kind = "none" /\ op'.launch = None
  BY <1>1, EndOp
<1>3. stuck \subseteq stuck' /\ open' \subseteq open /\ open' \subseteq stuck'
  <2>1. Pair = op.launch
    BY <1>1 DEF IInv, LaunchInv, Pair
  <2> QED
    BY <2>1 DEF UndoBrowser, CloseBrowser, CloseFails, IInv, PairInv
<1>4. TypeOK'
  BY <1>1, <1>2, <1>3, NoneIsNoLaunch DEF IInv, TypeOK
<1>5. OpInv' /\ DaemonInv' /\ LaunchInv' /\ LeaseInv'
  BY <1>1, <1>2 DEF OpInv, DaemonInv, LaunchInv, LeaseInv, Starts, Roots, Stops, Writing
<1>6. PairInv'
  BY <1>1, <1>2, <1>3 DEF PairInv
<1> QED
  BY <1>4, <1>5, <1>6 DEF IInv

\* What follows a write: the launch the operation made is on record by then.
LEMMA ContinueStep ==
  ASSUME IInv, op.pc = "writing", Continue, Untouched
  PROVE  IInv'
<1>1. op.next \in Nexts
  BY IdleOp DEF IInv
<1>2. op.launch # None => Spawned /\ daemon.launch = op.launch
  BY DEF IInv, LaunchInv, Spawned
<1>3. CASE op.next = "done"
  <2>1. End /\ UNCHANGED wire
    BY <1>3 DEF Continue
  <2> QED
    BY <1>2, <2>1, WireKept, EndStep
<1>4. CASE op.next = "stop"
  <2>1. Stop
    BY <1>4 DEF Continue
  <2>2. op.launch = None /\ op.kind \in {"acquire", "shutdown"} /\ lease = NoLease
    BY <1>4 DEF IInv, OpInv, LaunchInv, LeaseInv, Stops, Writing
  <2> QED
    BY <2>1, <2>2, StopStep
<1>5. CASE op.next = "launching"
  <2>1. Goto("launching") /\ Wired
    BY <1>5, WireKept DEF Continue
  <2>2. op' \in Ops /\ op'.pc = "launching" /\ SameOp
    BY <2>1, GotoOp DEF IInv, TypeOK, Pcs
  <2>3. Starts /\ Writing("launching") /\ op.pc # "starting"
    BY <1>5 DEF Starts, Writing
  <2>4. op.kind = "acquire" /\ op.mode \in Modes /\ lease = NoLease /\ daemon # NoDaemon /\ daemon.mode = op.mode
    BY <2>3, InStart
  <2>5. (Spawned' <=> Spawned) /\ ~Spawned /\ daemon' = daemon /\ lease' = lease /\ browser' = browser
    BY <2>3 DEF Untouched, Spawned, IInv, LaunchInv
  <2>6. op.launch = None
    BY <2>5, <1>2
  <2>7. OpInv' /\ LaunchInv'
    BY <2>2, <2>4, <2>5, <2>6 DEF OpInv, LaunchInv, SameOp, Starts, Roots, Stops, Writing
  <2>8. DaemonInv' /\ LeaseInv'
    BY <2>2, <2>4, <2>5 DEF IInv, DaemonInv, LeaseInv, SameOp, Starts, Roots, Writing
  <2> QED
    BY <2>1, <2>2, <2>7, <2>8, MoveStep
<1>6. CASE op.next = "health"
  <2>1. Ask("health", "health") /\ Writing("health")
    BY <1>6 DEF Continue, Writing
  <2>2. Spawned
    BY <1>2, <2>1 DEF IInv, LaunchInv
  <2> QED
    BY <2>1, <2>2, AskStep DEF Acts, Asking
<1>7. CASE op.next = "rooting"
  <2>1. Root
    BY <1>7 DEF Continue
  <2>2. Starts /\ op.pc # "starting"
    BY <1>7 DEF Starts, Writing
  <2>3. op.kind = "acquire" /\ lease = NoLease /\ daemon # NoDaemon /\ daemon.mode = op.mode
    BY <2>2, InStart
  <2> QED
    BY <1>2, <2>1, <2>3, RootStep
<1> QED
  BY <1>1, <1>3, <1>4, <1>5, <1>6, <1>7 DEF Nexts

LEMMA WrittenStep == ASSUME IInv, Written PROVE IInv'
<1>1. op.pc = "writing" /\ Untouched
  BY DEF Written, At, control, processes, browsers, Untouched
<1>2. CASE tmp # Absent
  <2>1. Continue
    BY <1>2 DEF Written
  <2> QED
    BY <1>1, <2>1, ContinueStep
<1>3. CASE tmp = Absent /\ op.next \in {"health", "rooting"}
  <2>1. Goto("undo shell") /\ Wired /\ Starts
    BY <1>1, <1>3, WireKept DEF Written, Starts, Writing
  <2> QED
    BY <1>1, <2>1, UndoStep
<1>4. CASE tmp = Absent /\ op.next \notin {"health", "rooting"}
  <2>1. End /\ Wired
    BY <1>4, WireKept DEF Written
  <2>2. op.launch # None => Spawned
    BY <1>1 DEF IInv, LaunchInv
  <2> QED
    BY <1>1, <2>1, <2>2, EndStep
<1> QED
  BY <1>2, <1>3, <1>4

-----------------------------------------------------------------------------
LEMMA NextInv == IInv /\ [Next]_vars => IInv'
<1> SUFFICES ASSUME IInv, [Next]_vars PROVE IInv'
  OBVIOUS
<1>1. CASE \E kind \in Kinds \ {"acquire"} : Begin(kind, NoMode)
  BY <1>1, BeginStep
<1>2. CASE \E m \in Modes : Begin("acquire", m)
  BY <1>2, BeginStep DEF Kinds
<1>3. CASE OpStep
  BY <1>3, AcquireStep, RetainStep, ReleaseStep, ReleasedStep, ShutdownStep, FarewellToldStep,
     LeavingToldStep, CloseShellStep, QuitStep, FreshStartStep, LaunchStep, SpawnStep, HealthOkStep,
     RecheckOkStep, PollAgainStep, PollOverStep, UndoShellStep, UndoBrowserStep, RootToldStep,
     WritingStep, WrittenStep DEF OpStep
<1>4. CASE GiveUp
  BY <1>4, GiveUpStep
<1>5. CASE Serve
  BY <1>5, ServeStep
<1>6. CASE \E l \in Launches :
             DaemonDies(l) \/ HandleExit(l) \/ WritePrepared(l) \/ TextWritten(l) \/ ExitWritten(l)
  BY <1>6, DaemonDiesStep, HandleExitStep, WritingStep
<1>7. CASE UNCHANGED vars
  <2>1. TypeOK' /\ UNCHANGED <<op, daemon, browser, lease, alive, open, stuck>>
    BY <1>7 DEF IInv, TypeOK, vars, control, wire, processes, browsers
  <2> QED
    BY <2>1, BesideStep
<1> QED
  BY <1>1, <1>2, <1>3, <1>4, <1>5, <1>6, <1>7 DEF Next

\* The controller keeps its records consistent: the daemon's, the browser's, the lease's
\* and the running operation's (controller.ts, between any two awaits).
THEOREM Invariance == Spec => []IInv
BY InitInv, NextInv, PTL DEF Spec

\* The controller owns exactly one daemon and browser: whatever runs belongs to the record
\* or to the start that runs, unless a close of it failed (start, stopDaemon, shutdown).
THEOREM OneDaemonAndBrowser == Spec => []OnePair
<1>1. IInv => OnePair
  <2> SUFFICES ASSUME IInv PROVE OnePair
    OBVIOUS
  <2>1. alive \cup open \subseteq stuck \cup {Pair}
    BY DEF IInv, PairInv
  <2>2. Pair \in {op.launch} \cup (IF daemon = NoDaemon THEN {} ELSE {daemon.launch})
    BY DEF Pair, Spawned
  <2>3. (alive \cup open) \ stuck \subseteq {Pair}
    BY <2>1
  <2>4. Cardinality((alive \cup open) \ stuck) <= 1
    <3>1. IsFiniteSet({Pair}) /\ Cardinality({Pair}) = 1
      BY FS_Singleton
    <3>2. Cardinality((alive \cup open) \ stuck) <= Cardinality({Pair})
      BY <2>3, <3>1, FS_Subset
    <3> QED
      BY <3>1, <3>2
  <2> QED
    BY <2>1, <2>2, <2>4 DEF OnePair
<1> QED
  BY <1>1, Invariance, PTL

\* A lease changes by what was asked for only: retain, release, a settle of a lease that
\* is not retained, another mode, or the shutdown. Asking again for its mode keeps its page.
THEOREM LeasesAreStable == Spec => LeaseIsStable
<1> DEFINE Stable ==
      lease # NoLease =>
        \/ lease' = lease
        \/ lease' = [lease EXCEPT !.retained = TRUE]
        \/ /\ lease' = NoLease /\ op.kind \in {"release", "settle", "acquire", "shutdown"}
           /\ op.kind = "acquire" => op.mode # lease.mode
           /\ op.kind = "settle" => ~lease.retained
<1>1. IInv /\ [Next]_vars => Stable
  <2> SUFFICES ASSUME IInv, [Next]_vars, lease # NoLease, lease' # lease PROVE Stable
    OBVIOUS
  <2>1. Retain \/ Released \/ FarewellTold \/ Quit \/ RootTold
    BY DEF Next, OpStep, Begin, GiveUp, Serve, DaemonDies, HandleExit, WritePrepared, TextWritten,
       ExitWritten, Written, Acquire, Release, Shutdown, LeavingTold, CloseShell, FreshStart, Launch,
       Spawn, HealthOk, RecheckOk, PollAgain, PollOver, UndoShell, UndoBrowser, vars, control
  <2>2. CASE Retain
    BY <2>2 DEF Retain
  <2>3. CASE Released
    BY <2>3 DEF Released, Told, At, IInv, OpInv, LeaseInv
  <2>4. CASE FarewellTold
    BY <2>4 DEF FarewellTold, Told, At, IInv, OpInv, LeaseInv, Stops
  <2>5. CASE Quit
    BY <2>5 DEF Quit, At, IInv, LeaseInv
  <2>6. CASE RootTold
    <3>1. Roots /\ op.prev = lease /\ lease.mode = op.mode
      BY <2>6 DEF RootTold, Told, At, Roots, IInv, LeaseInv
    <3>2. lease \in Leases
      BY DEF IInv, TypeOK
    <3>3. lease' = [mode |-> lease.mode, root |-> lease.root, retained |-> lease.retained]
      BY <2>6, <3>1, <3>2 DEF RootTold, SameRoot, Leases
    <3> QED
      BY <3>2, <3>3 DEF Leases
  <2> QED
    BY <2>1, <2>2, <2>3, <2>4, <2>5, <2>6
<1> QED
  BY <1>1, Invariance, PTL DEF Spec, LeaseIsStable

=============================================================================

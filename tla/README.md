# A TLA+ model of ea-pi-extensions

The repository is a monorepo of extensions for the pi coding agent. Each
extension is loaded into the agent's process, registers tools, commands and
session handlers, and most of them keep state that outlives a single call:
background processes, a browser, a second conversation, a release half done.
This directory models that state and its operations in TLA+, checks the models
with TLC on small instances and proves the central invariants with TLAPS.

## The system

| part | state it keeps | operations | what is hard about it |
|---|---|---|---|
| **pi-shelld** `packages/pi-shelld/src` | detached processes, `state.json` and logs per session file, the registry lock, `suppressing`, `closingIds` | start, stop, close, exit events, `session_start` reap, `session_shutdown` sweep | exits and requests interleave with a 3 s grace window inside the lock; crashes of pi; the registry must not lose a process |
| **pi-wsl-browser extension** `src/` | `BrowserLifecycle` queue, the lease the agent believes it has | acquire, retain, release, status, automatic release after the turn, shutdown | lost replies of the controller; turn end racing with calls |
| **pi-wsl-browser controller** `controller/` | lease, daemon handle, browser handle, discovery descriptor | acquire, release, status, shutdown, daemon exit event | daemon exits at any await; partial failure of cleanup; two writers of one descriptor file |
| **managed browser daemon** `runtime/browser-harness/.../daemon.py` | CDP session, root target and the tree of targets it owns, lease lock | acquire root, release root, target events, proxied CDP commands | target inventories go stale across awaits; popups of closed openers |
| **browser harness daemon without a lease** `daemon.py` | current session and tab, the tab a named daemon keeps to, replaced sessions | CDP requests, recovery of a stale session, switch of tab | requests that recover side by side |
| **browser harness: administration** `admin.py`, `_ipc.py` | socket, log, pid of the daemon of a name | ensure and restart of a daemon | nothing locks the name; pids are used again |
| **start of Windows browsers** `controller/windows-browser.ts` | profile directories, Windows processes | launch, wait for the endpoint, cleanup, close | processes appear late and are found by their command line; the user's browser has the same name |
| browser harness: helpers, run | none | wrappers of CDP calls | none |
| browser harness: recorder, video, auth, telemetry | files on disk | encode, render, sync | I/O and formats |
| **pi-better-btw** `srcs/` | the side chat's overlay, its background agent, its forked history; what the overlay shows; which files the main agent has written | open, close, toggle, clear, lane toggles, submit, session events; scroll, select, copy, export; the question before a write | asynchronous open against clear, toggle and session change; a fork in the middle of tool calls; lines that come and go under the reader; timers that share a status line |
| **release scripts** `scripts/` | package versions, changelogs, tags, registry | initial and regular release, retries, alignment of versions, choice of a scope | a failure between publish, push and tag; the registry shows things late; others push |
| **pi-codex-imagegen** | job map, staged image files | start job, wait, deliver, shutdown | settle racing with session shutdown |
| **pi-vision-helper** | settings, pi's registry of models, keys | choose a backend, send images | names that are matched by their parts |
| **pi-switch-cwd** | cwd of a session, session files | switch | overlapping commands, vetoed switches |
| **pi-quiet** | an index of the rows of the transcript | fold neighbouring calls into groups | tools settle in any order and rows are drawn later |
| **pi-better-mermaid** | a counter of failures per session, a version probe | validate a diagram | calls side by side |
| pi-gadget | none | slash commands | presentation |
| `gcm`, `sync-readme`, `env.bash`, `myconfigs` | changelog skeletons, README tables | developer scripts | part of a release |

pi-codex-imagegen and pi-wsl-browser start their processes through the service
that pi-shelld offers on `pi.events` (`pi-shelld:service:v1`): it returns the
shell's id and a promise of its exit, and the shells it starts do not notify
the agent.

## What makes each part correct

- **pi-shelld**: no process without a record, no record of another session, an
  exit message that names the cause, a lock whose flags belong to its holder,
  every death reported, and all of it within the lifecycle of ADR-0001.
- **managed lease**: the daemon touches nothing but the root's family, nothing of
  one lease is left in the next, no error path forgets a root page, release
  closes the tree it knew, every control call gives the lock back.
- **controller**: one daemon and browser at a time, no lease without them, a
  lease keeps its page, every operation ends.
- **side chat**: one overlay of the present session, badge and mouse reporting in
  step with it, turns that stop on a repeated violation; lines that are current, a
  status line that tells the truth, nothing moved under the reader; no write over
  what the main agent writes without a question.
- **daemon without a lease**: a request with a stale session is carried out on the
  tab it was meant for, or not at all.
- **administration**: stopping a daemon never ends another process.
- **browser launch**: nothing left by a failed launch, nothing removed that is
  another launch's or the user's.
- **releases**: what is published is what its tag names, a tag on origin stays and is
  on the branch, and an initial release can be run again from wherever it stopped.
- **scope of a release or commit**: no guess without an answer, or `-y` and no rival.
- **pi-codex-imagegen**: one job per path, nothing overwritten, what is reported as
  completed is there, every job ends and so does the shutdown.
- **fork surgery**: a history a model's gateway takes, whenever it is cut.
- **vision**: images go where the settings meant them to go.
- **quiet rows**: what a row shows is what the index says, or it is drawn again.
- **mermaid**: "stop and think" only for three failures that belong together, with no
  pass and no other intent between their submissions.
- **switch of directory**: a session has its file and leaves no other, but for the copies
  of refused switches.

## Modules

| module | models |
|---|---|
| `ShellLifecycle` | the lifecycle ADR-0001 promises for one shell: unborn, running, to close, closed, and what the agent is told |
| `Shelld` | pi-shelld: processes, registry, lock, sessions, crashes; implements `ShellLifecycle` |
| `ManagedLease` | the browser daemon's lease, the pages it owns, and the browser behind it |
| `BrowserController` | the controller's operations, daemon, browser and descriptor |
| `BrowserLaunch` | the start and the close of Windows browsers, which `BrowserController` takes at once |
| `TabRecovery` | the daemon without a lease: stale sessions and the tab a named daemon keeps to |
| `NamedDaemon` | commands that start, replace and stop a daemon of one name |
| `SideChat` | the side chat's overlay, its agent's turns and lanes |
| `ChatView` | what the side chat shows: lines, scrolling, selection, status line and its timers |
| `OverlapAsk` | the question before the side agent writes where the main agent has |
| `SideFork` | the history a side chat is opened with |
| `ImageJobs` | image generation in the background, on the promises of `ShellLifecycle` |
| `Release` | releases: clone, origin, registry, workflow, other developers |
| `ScopeChoice` | which package a name on the command line is taken for |
| `VisionHelper` | one call of the vision helper: backend, model and key |
| `QuietRows` | the index of tool rows and what pi draws of it |
| `MermaidCheck` | validation of diagrams and the counter of failures |
| `SwitchCwd` | the command /cwd and the session files |
| `Names` | names that are matched by their parts, for `VisionHelper` and `ScopeChoice` |
| `Lists` | what is found in a list by its places: the first, some in their order |
| `ShelldProofs`, `ManagedLeaseProofs`, `BrowserControllerProofs`, `ImageJobsProofs` | theorems about the module each is named after |
| `SideChatProofs` | theorems about `SideChat` and `ChatView` |
| `HarnessProofs` | theorems about `TabRecovery`, `NamedDaemon` and `Release` |
| `PartsProofs` | theorems about the modules that `MCParts` instantiates |
| `DataLemmas` | lemmas about numbers and the operators of `Lists` that the proofs share |
| `MCShelld`, `MCManagedLease`, `MCBrowserController`, `MCImageJobs` | small instances of these for TLC |
| `MCSideChat` | instances of `SideChat` and `ChatView` |
| `MCHarness` | instances of `TabRecovery`, `NamedDaemon` and `Release` |
| `MCParts` | instances of `BrowserLaunch`, `VisionHelper`, `QuietRows`, `MermaidCheck`, `SwitchCwd`, `ScopeChoice`, `SideFork` and `OverlapAsk` |
| `MCSideFork`, `MCChatView` | `SideFork` and `ChatView` alone, for the properties that fail |

The parts in `MCHarness` share no state with each other, and neither do those in
`MCParts` and in `MCSideChat`: they belong to different extensions or processes, or are joined by nothing the properties
speak of. A behaviour of these
modules is therefore one of a single part, chosen at its start (`part`), and the
instance is the sum of the parts', not their product. `ImageJobs` is composed with
`ShellLifecycle`, which `Shelld` implements; `BrowserController` has the daemon
and the browser by the promises that `ManagedLease` and `BrowserLaunch` make.

A definition named `...Mutant` is a plausible bug in the definition after it. No
specification uses it; `PROJECT.json` pairs each property with the one that
breaks it.

### Shelld

JavaScript runs one macrotask at a time, so an action is the code between two
waits. `queue` is the promise chain of `withRegistryLock` (shells.ts:192): its
head is the job that holds the lock. A job that never waits is one action
(`RegisterShell`); one that waits for `killShellTree`'s grace window is two:
`StopShell`/`StopShellResume`, `CloseShell`/`CloseShellResume`,
`ShutdownShells`/`ShutdownShellsResume`, `ReapStaleState`/`ReapStaleStateResume`.
A queued job is a microtask, so it runs before the next event: that is
`EventLoopFree`. Processes run at any time.

| variable | code |
|---|---|
| `proc`, `tree`, `child` | the leader's process, its group, and whether this pi process is the parent (it gets the `exit` event) |
| `recs`, `stoppedBy` | `state.json` of each session file |
| `logs`, `home` | `logs/<id>.log`, in the state directory of the session of the spawn |
| `queue`, `phase`, `targets` | `registryQueue` and the waiting job |
| `suppressing`, `closing` | the variables of the same name (`closingIds`) |
| `session`, `pinned` | which handler is pending, `sessionFileOverride` |
| `crashes` | bound on crashes of pi |
| `known`, `notified` | what the caller and the agent were told |
| `killer` | history: who signalled the shell first |

A dead child is `dying` until its exit event is delivered, because the runtime
reaps it then: until then `kill(pid, 0)` answers, which is what `isPidAlive`
reads. An orphan of a crashed pi process is reaped by init at any time.
A shell in `Stubborn` outlives SIGTERM for the whole grace window; every other
leader has exited, and its event was delivered, when the timer fires.

Abstractions: pids are the shells themselves (no reuse); a failed spawn leaves
no state and is no action; `ps`, `status` and `logs` only read. The state
directory of a pi without a session file (`~/.pi/shelld`) is one more session.

Properties:

- `NoUntrackedChild`: no running child without a record or a queued registration.
- `SessionOwnsItsShells`: after `session_start`'s reap the registry holds only
  this session's own children, with their logs, whatever a crash left.
- `MessageMatchesCause`: the exit message names the cause of the exit.
- `RecordOutlivesLeader`: no record of a running leader is dropped.
- `LifecycleSpec`: all of it implements `ShellLifecycle`.
- `DeathIsReported`, `ShutdownEnds`: liveness.

`LockInv` (`suppressing` and `closingIds` belong to the job in its grace window) is a
part of the proofs; what would go wrong without it shows in the properties above.

Fairness: a queued job and a fired timer are run by the event loop (weak
fairness of `RunJob`, `ResumeJob`), init reaps (weak). Exit events are strongly
fair: they are disabled while a promise chain drains, but the loop polls for
them in every turn. Nobody is obliged to start, stop or close anything.

Bounds: two shells, one of which ignores SIGTERM (`Stubborn`, and for the
safety run `Owned`: started through the service); two session files, so that a
session switch and a crash followed by another session are there; a queue of
three, so that two jobs wait behind a third; one crash. The liveness run has
one session file and a queue of two.

Run `shelld_tree` shows a disagreement of the code with its documentation: members
of a group whose leader has exited survive the sweep of `session_shutdown`
(`SweepStopsTree`, `shells.ts:430` against `README.md:42` of the package). The model
also has, without a property: a start in flight that is registered after the sweep
of its session (`shells.ts:410`), a stop that had to use SIGKILL and reads the
leader as alive because its exit event has not come (`shells.ts:463`, `:478`). Not
in the model: a shell that ends before `RegisterShell` runs and is never announced
(`shells.ts:238`), and a stored pid that another process has got (`shells.ts:448`).

### ManagedLease

The daemon is one asyncio loop. A connection's coroutine runs until it awaits a
CDP answer, so an action is what happens between two awaits, and `task[k].pc`
says which await connection `k` is in. The browser executes `sent` in order and
puts answers and target events on one `wire`; `Receive` takes an event ahead of
the answers before it, because the receive loop does not wait for the coroutines
those answers woke.

| variable | code |
|---|---|
| `live`, `born`, `opener`, `mark` | the browser: open targets, all there ever were, `openerId`/`parentId`, the marker in the URL |
| `lease`, `owned`, `infos`, `sessions`, `current`, `created` | `_managed_lease`, `owned_target_ids`, `_managed_target_infos`, `_managed_session_targets`, `target_id`, `_managed_root_created` |
| `lock` | `_managed_lease_lock` |
| `roots`, `unclosed` | history: pages leased or created as root; pages whose close failed |
| `unlisted` | history: roots an acquire found, and of which its inventory after that failed |

Acquire is `AcquireRoot`, then `RootChosen` (one marked page, none, or too many),
`RootCreated`, `RootAttached`, `RootAdopted`, with `RootUndone` on the error path
and `Reacquired` for the same request again. Release is `ReleaseRoot`,
`TreeListed`, then `TargetClosed` once per page, deepest first. `StatusTold`,
`AgentLists`, `AgentMayAttach`, `AgentAttached` and `AgentSelects` refresh or use
the owned sets without the lock, which is where the races are.

`Discovery` says whether the browser reports created targets. The daemon never
asks it to, but a client's `Target.setDiscoverTargets` would, so the safety run
has it on and the liveness run off. The commands that enable domains after an
attach and the list of tabs for the agent change no state of the daemon and are
left out, and so is `Target.attachedToTarget` in `_record_event`, which adds targets
that are owned already. The user's initial pages stay open: the daemon drops their
events.

Runs: `lease_safety` has a page of the user and two others, a control and an
agent connection and two failing calls: a root, a popup of it and a foreign page
are the least with which owning a wrong page, losing a page or leaving one open
can show; an error path that fails in its turn needs the second failure. Health is asked for in the liveness run only (`Probes`): with a single
control connection the lease cannot change under it, and it does what status
does, or nothing. `lease_liveness` has two control connections with different requests,
and a call that fails: an acquire or release goes every way it can go wrong in while
the other connection asks for the lock. A call that waits for the lock has not begun in
the model (`lock = Free` is a guard), so that a lock kept is a lock that nobody gets.

Properties: `OnlyTheFamily` (what is owned, attached to, driven or closed descends
from a root), `SessionsOfLease` (no session of one lease is left for the next),
`NoStrayRoot` (no error path forgets a root page), `ReleaseClosesTheTree` (what is left
open of the tree that release knew is what the browser refused to close), `ControlEnds`
(a control call that has begun or holds the lock comes to where it has ended and does
not hold it, an error path that leaves without the lock's release would break it). A page whose parent closed is no longer owned, although
`UPSTREAM.md:17` says descendants are (`daemon.py:644`): the model has that, and no
property promises the contrary.

Fairness: the browser answers, the connection delivers, woken coroutines run
(weak). Pages and connections owe nothing.

The two properties of closing leave out the roots in `unlisted`. If the inventory of
an acquire that found a marked page fails after the lease was set, the cached list
that release falls back to (the comment at `daemon.py:1004`) does not have that page;
if the inventory of the release fails too, the page stays open without a lease, and
nothing reports it. One failing call does not show this. The attempt to prove
`NoStrayRoot` for any number of them did, and TLC with two confirms it: without the
exception the property is violated.

### BrowserController

`lifecycle.ts` runs operations one at a time in the order asked for, so an idle
controller may `Begin` any of them; `op.pc` is the await where it stands. The
daemon's exit (`HandleExit`) is handled in between. A request is in `inbox` until
its daemon serves it; `GiveUp` is the timeout or the abort of the call, after
which the daemon still performs the request but nobody hears the answer.

| variable | code |
|---|---|
| `daemon`, `browser`, `lease`, `shuttingDown` | the controller's fields of those names |
| `writes`, `tmp`, `file` | `writeDescriptor`: per writer the step it is at, the shared temporary file, the descriptor |
| `alive`, `exits`, `remote` | daemon processes, exits not handled, the root each daemon has leased |
| `open` | temporary browsers that run |
| `stuck` | history: launches of which a close failed |

`ManagedLease` is reduced here to its promises: an acquire answers with the
leased root or a new one, a release drops the lease even when it reports an
incomplete one (`LeaseDropped`), a shutdown ends the process.

Run `controller`: two modes, one of them with a browser of its own, two launches
(a change of mode, or a restart after a failure), two roots (the lease and what
replaces it), and one failure of whatever kind: a request given up, an error, a
daemon that dies, a close that fails. The controller stops after its shutdown,
so deadlock is not checked. An acquire that the user aborted and the daemon served
late leaves a page that `agent_settled` does not release (`lifecycle.ts:93`, against
`README.md:26` of the package): the model has that, without a property. `OnePair`,
`LeaseIsStable` and `OperationsEnd` hold in spite of it.

Fairness: the event loop runs the steps of an operation and a daemon serves or
its connection breaks (weak). A poll of `health` may be answered "not yet" again
and again; the deadline ends it (strong fairness of `PollOver`).

The descriptor has no property. Its writers share one temporary file: the exit's
write and an operation's can overtake each other, a rename can find the file gone
(modelled: `Written` fails the operation then), and a write by an exit may put a
descriptor back after the shutdown removed it. Its reader, the command line
wrapper, compares only the lease's id. A start whose first write fails leaves the
record `starting` without a process (`Ensure`): later acquires of that mode are
refused until the mode changes or the session ends.

### BrowserLaunch

A launch is `launchBrowser` and, if it returned a handle, the handle's close; an
action is what happens between two awaits (`ResolveRoot`, `MakeProfile`,
`FindEndpoint`, `Spawn`, `Wait`, `Terminate`, `Remove`, `Close`). Windows and its
user move in between: a process is listed (`Appear`), writes its port file
(`OpenPort`), exits (`Exit`); the user starts a browser (`UserStarts`).

| variable | code |
|---|---|
| `step`, `tries` | where a launch or close is; removals tried |
| `dir`, `port` | profile directories; `DevToolsActivePort`, "old" when its browser has gone, which cannot be read from the file |
| `process`, `marker` | the Windows process of a profile, and the launch whose marker its command line has |
| `returned`, `missed` | history: launches that returned a handle; those whose cleanup could not do its work in time |

`OnlyOwnIsRemoved`: a cleanup, which stops every process that carries a marker, ends
no browser and removes no directory of another launch or of the user. `NothingLeft`:
a launch that failed or was closed left neither, unless its cleanup gave up. Two
private profiles, so that one launch can meet another's, and one launch with the
user's profile, whose browser may run before; two attempts of removal for ten.

### TabRecovery

A request without a session of its own runs in the session that was current when
it came (`Issue`, `Answer`). If that is gone it waits for `_session_state_lock`
(`Enter`), finds a replacement or lists the tabs (`List`), creates one if it must
(`Create`), attaches (`Attach`) and is repeated (`Repeat`). The user switches the tab
in two steps (`SwitchTab` attaches, `SetSession` selects), closes and opens tabs, and
sessions end by themselves.

| variable | code |
|---|---|
| `open`, `gone`, `tabOf`, `live` | the browser: its tabs, the tab of each session, sessions that work |
| `current`, `target`, `dedicated` | `session`, `target_id`, `dedicated_target_id` |
| `replaced`, `holder` | `_session_replacements` in order of insertion, the lock |
| `at`, `asked`, `goal`, `ran` | a request: its await, the session it came for, what its recovery decided, where it was carried out |

`LandsOnItsTab`: a request of a named daemon that is carried out runs on the tab of
the session it came for, unless that tab was closed. Two requests recover at once,
with three tabs and four sessions: the current tab, one the user switches to, and
one that recovery creates. `Capacity` is 2 for the code's 32, which two requests, each
issued once, do not overfill: that the oldest entry is dropped from a full map is in the
model, and only the theorem `RequestsKeepTheirTab` covers it. A daemon without a name takes the first page
instead (`daemon.py:1433`); the property says nothing of it.

### NamedDaemon

Commands are processes of their own, and what they share is the socket's path, the
log and the process table. A command is one call of `ensure_daemon` (probe, spawn,
await, judge the log, launch Chrome) or of `restart_daemon` (identify, shut down,
watch for fifteen seconds, signal, clean up). A daemon starts, waits for the popup
of Chrome, binds, serves, loses its browser, stops or crashes.

| variable | code |
|---|---|
| `phase`, `after`, `launched`, `seen` | a command: where it is, where `restart_daemon` returns to, whether it launched Chrome, the pid and start time it read |
| `life`, `stopping` | a daemon's stages; those asked to shut down |
| `socket`, `tail` | the daemon that bound the path last; the last line of the log |
| `owner`, `struck` | who has each pid; history: who was sent SIGTERM |

`OnlyDaemonsAreStopped`: SIGTERM reaches no process but a daemon, although pids are
used again between the report of a pid and the signal. Taken as one step: the answer
to a ping and the reading of the start time that follows; the second look at the
identity and the signal. The model is that of Linux, where the start time can be
read; daemons of versions that report no pid are left out, and so is the PID file,
which decides nothing.

What the model has and nothing in the code promises: two commands that each start a
daemon, of which the later takes the path (`_ipc.py:284`); a restart or a stopping
daemon that unlinks the socket of its successor (`admin.py:631`, `daemon.py:1822`).

Two commands, one with a remote browser, three daemons and two pids: a pid passes from
a daemon to a stranger and to another daemon.

### SideChat

A name in `Chats` is an opening: one run of `openSideChat` with its context, its
overlay, its promise of `ctx.ui.custom` and its agent. A name is used again when
all of that has ended, so the number of openings is not bounded; two names are a
chat and its successor, and the invariants also hold with three.

| variable | code |
|---|---|
| `active`, `handle`, `opening`/`ready`, `lifecycle` | `activeOverlay`, `overlayHandle`, `opening` and the promise in it, `lifecycle` (index.ts) |
| `over` | the extension instance's `session_shutdown` was handled: the badge is disposed |
| `indicator`, `listener`, `reporting` | the footer badge, the mouse listener, the terminal's mouse mode |
| `foreign` | an overlay of another extension is visible |
| `phase`, `custom`, `hidden`, `born` | an opening's overlay, its promise and what is left to run of it, hidden, the lifecycle it was opened in |
| `mode`, `run`, `offered`, `call`, `violations` | `toolMode`, the prompt, the tool lists it may use, the tool that runs, `laneViolations` (side-chat-overlay.ts) |
| `refused` | history: calls of the turn that were refused in the read-only lane |

What is assumed of the host, which is not in the repository: `ctx.ui.custom`
calls the factory at once, mounts later and does not mount an overlay closed
before; keys and commands come when the promise continuations have run
(`Drained`), except that a mount may be pending; session events and overlays of
others come at any time. Of the agent library: a run looks tools up in the list
it began with or in the present one (`offered`), runs one at a time, and makes
no call after an abort. Fields of a disposed overlay that nothing reads are
forgotten in `Dispose`. Layout, help, selection and the content of messages are
left out, and so is the full-screen mode, where the mouse is the host's.

Run `side_chat`, of this part: two openings, two session events (a change and the shutdown, or
two changes). A tool called in the edit lane that fails after Ctrl+T is counted as
a violation of the read-only lane (`side-chat-overlay.ts:781`, against `README.md:76`
of the package): `RepeatStopsTurn` speaks of refused calls only and holds.

Fairness: continuations run, the host mounts what it was given, and a run that
is stopped ends (weak). A run that is not stopped need not end, and no key is
ever pressed: the chat may be left alone, so deadlock is not checked.

`OneSideChat` (one overlay, and the commands reach it), `SessionEndsChat` (none of an
earlier session, and none after the shutdown), `ScreenTellsState` (badge and mouse
reporting are those of the present chat), `RepeatStopsTurn`.

### ChatView

What one overlay shows while its agent speaks: `SideChatMessages` and the handlers,
timers and gestures of `SideChatOverlay`. The host draws when it wants to (`Render`),
so a gesture is measured against what the last drawing left. A line is the pair of its
message and its place in it; texts, columns and colours are left out.

| variable | code |
|---|---|
| `said`, `turn` | the agent's messages by kind; how far a prompt is |
| `listed`, `quiet`, `error`, `stream`, `status` | messages the view was given, the fields of those names, lines of `streamingMessage`, `toolStatus` |
| `cache`, `cachedWidth` | how many lines each message was wrapped to, and for which width |
| `offset`, `anchor`, `selection` | `scrollOffset`, `frozenAnchor`, `selection` |
| `lines`, `promptStarts`, `visible`, `top`, `shown` | the last drawing: all lines, where prompts begin, `maxVisibleLines`, `lastRenderStart`, `plainLines.length` |
| `spinner`, `copying`, `copyTimer` | the interval, a copy that waits for the clipboard, `copyClearTimer` |
| `width`, `height`, `help`, `hit`, `disposed` | of the area to be drawn next; whether there is one to hit; the overlay |
| `dragging`, `pressed`, `clicked`, `double` | `mouseAnchor` and the state of a double click |

`CacheIsCurrent`: a line taken from the cache is what the message wraps to at this
width and setting. `StatusIsTrue`: "working" means that the spinner runs, which it does
in a turn only; what replaced it is not overwritten; the feedback of a copy has a timer
that clears it. `WhatIsReadStays`: the line at the bottom of a frozen window and the
ends of a selection stay in their lines, whatever the agent says, but for a gesture or
a new width.

Run `chat_follow` shows a disagreement with the documentation (`BottomIsFollowed`): when
lines below a frozen view go away, as the status line does, the view is at its bottom
and stays frozen (`side-chat-messages.ts:383`, against the comment at line 83 and
`README.md:91` of the package).

Bounds: five messages hold a turn with a tool call or two short ones; a window of two
lines, so that everything scrolls; a step larger than the window and one of a line; one
line that streams. In `side_chat` a behaviour is that of a reader, with three gestures, or
of a worker, with tools, help, copy, export and close and a gesture less. The product
of the two is out of TLC's reach, and most of it is independent. At most one copy waits
for the clipboard. A press while another is held, wheel steps with a modifier and the
scrolling of the help page are left out.

### OverlapAsk

`wrapTool` finds the paths a call of the side agent writes (`Found`, by the segments,
operands and redirections of a command) and asks for each that the main agent has
written (`LookAt`, `UserAnswers`), while the main agent goes on (`MainStarts`).

| variable | code |
|---|---|
| `tracked` | `FileActivityTracker.written` |
| `sideCall`, `sideAt`, `todo`, `question`, `agreed` | the call, where its `execute` is, the loop over its paths |
| `wrote`, `before` | history: what the main agent's calls write, and what they did when the call was made |

`OverlapIsAsked` compares what is found with what such a command really writes
(`Overwrites`): for every command of the common form, which is what `README.md:244` of the
package claims, a call that runs writes nothing the main agent had begun to write before,
but what the user agreed to. Beyond that form the detection misses files: a
redirection before the command, options after the operands, a descriptor before `>`
or a line break, which the tokenizer takes for a word and for a space. The run has every
common command of five tokens; `mv` is held to write its last operand, not its source.
What the main agent begins to write after the call was made is not asked about.

### SideFork

`log` is the main conversation and `cite` what the side chat is told of it
(`forkSurgery`). A conversation grows by the user's messages, the assistant's, with
up to two calls, and results in any order; `Fork` cuts it at any of its states. Four
calls and eight messages hold two exchanges, one of them unfinished, with the
messages before, between and after. What is cited of an exchange is told by the places of
its messages (`Lists`), not by a filter, so that it can be reasoned about. `CiteIsLegal`: every call has one result right
after its message and the last word is not the user's. Run `fork_prefix` shows that
the cut leaves out the message that led to an unfinished exchange, so that what
follows is no prefix of the main conversation (`CiteIsPrefix`; the comment at
`fork-surgery.ts:27`).

### ImageJobs

| variable | code |
|---|---|
| `path`, `step` | the path a call asks for; where the call, then its job, is |
| `reserved`, `jobs`, `aborted`, `failure` | `reservedOutputPaths`, the map of jobs, aborted controllers, errors to report |
| `file`, `staged`, `workdirs` | what lies at each path, working directories with a `result.png`, those that exist |
| `posted`, `session`, `awaited` | the job's message; `session_shutdown` and the jobs it waits for |
| `shell`, `exit` | the job's shell as `ShellLifecycle` has it; what its promise of an exit resolved to |

A call reserves its path, makes a directory, starts Codex, registers the job and
returns; the job waits for exit, abort or time limit, copies the image where nothing
is, removes the staged one, closes the shell, cleans up and posts its message. Each
of these is an action, and may fail. Codex ends when it likes and writes its image
before; pi-shelld's sweep may close any shell; the user may save a file at a path;
the shutdown may come at any step, also before a job is in the map.

`OneJobPerPath`, `DeliveredIsThere`, `NothingOverwritten` and, under weak fairness of
each job's steps and of the end of the shutdown, `JobsEnd`. Codex need not end: the time
limit ends the wait, at any time in the model. Two calls and two paths:
calls for one path and calls that do not touch are both there.

### Release

A release runs one command after another, and each of them can fail, be killed or do
its work and have the answer lost (`Break`); the next attempt decides from what it
finds. In between the workflow publishes what tags it sees, the registry shows an
accepted version some time later, and another developer pushes and releases.

| variable | code |
|---|---|
| `manifest`, `notes`, `listed`, `edited` | the working tree: versions, changelogs with entries, packages in the READMEs, changed files |
| `commits`, `head`, `tag` | the clone's history, as a line, and its tags |
| `origin` | commits and tags of origin; a push of others that is not pulled |
| `accepted`, `visible` | the registry: from which commit a version was taken, versions it shows |
| `job`, `begun`, `failures` | the release that runs; history: versions whose initial release made its tag; bound |

A version is a number, since only the order counts. The developer does nothing else
in the clone while a release runs; between releases sources change, `gcm` writes
changelogs and commits, READMEs are synced, versions aligned with the registry
(`mono-tagcheck --sync`, `--reset`) and what others pushed is pulled.

`PublishedIsTagged`, `TagsStay` (no release, retry or merge moves or removes a tag on
origin, and it is on the branch) and `RetryIsAccepted` (an initial release that broke
off can be run again). The last has a condition: HEAD is still where the tag is and nobody released a
later version, for the code refuses otherwise and means to. One published package and
a new one; three versions, so that one release follows another; three commits; one
release that breaks off. The run is a part of `harness_release`.

Versions of a package need not become public in their order: a release whose push was
refused, and is pushed again after another developer released, waits for the workflow
beside the other's. Nothing in the repository promises an order, so there is no
property of it.

### The parts of `MCParts`

- `VisionHelper`: `setting`, `store` and `keys` are the files as they were read, `backend`
  is what the call sends to. Names are sequences of letters matched by substring in
  both directions (`Names`), and what is found in a list is the first of the places that
  fit (`Lists`). The run tries every setting and registry within the
  bounds of `MCParts`: up to two providers and two models, names of which one is part of
  another. `ImagesGoWhereMeant`: provider and model have to do with the names asked
  for, an equal name comes first, and a model known to be blind gets images only
  where there is no other. Two disagreements have no property: an empty vision block
  hides the old fields (`config.ts:249`, against `README.md:112` of the package), and the
  key of an entry of pi's registry is ignored although the error advises it
  (`vision.ts:123`).
- `QuietRows`: `rows` and `plan` are the index, `drawn` what each row shows, `redraw` the
  rows whose invalidator was called. `DrawnIsCurrent`, over three
  calls and four rows: a group of two, one that joins or divides, and a message. The
  index is read from a session again by `Rebuild`.
- `MermaidCheck`: a counter is an object that a call takes before its awaits (`held`)
  and the session may replace meanwhile (`counter`); `probe` is the probe of the tool's
  version; `seen` and `blamed` are history. `ExhaustedAfterThree`, over four drafts of one
  session with two intents: "stop" is said for three failures of one intent, counted for
  no other stop, and between whose submissions nothing had reset the counter. What
  does not hold is that the three are consecutive, as the comment in the code
  (`better-mermaid.ts:12-15`) and `README.md:10` of the package have it: a pass deletes
  the session's entry, but a call that ran side by side with the one that passed still
  holds the old object (`better-mermaid.ts:311`, `:229`). After two failures, of two calls that
  render at once one may pass, and the other, failing then, is the third and is told
  to stop. The model has that; the property is about submissions because of it. The probe's flag is set before its await
  (`better-mermaid.ts:256`): calls side by side find no version and throw, which the
  model has (`Probed`).
- `SwitchCwd`: `fileAt` is the session file in each session directory, `order` what a
  command read when it was given, `runtime` the count of runtimes, by which a stale
  context is refused. `OneSessionFile` needs that no two directories share a session
  directory, as `/a/b` and `/a-b` do (`cwd-utils.ts:37`), where the session's file is
  lost. Three commands and directories: two that overlap and a way back.
- `ScopeChoice`: the scores of `fuzzyScopeCandidates`, the candidates and the answer.
  `NoSilentGuess`: without a terminal it is the name given, or with `-y` a scope beside
  which no other has the name as a part, in its own name or in that of a tool, unless
  the chosen package has a tool of that name too. The exception is the code's:
  `bareRootToolScopes` keeps a tool's name for the first package in order that has it
  (`lib.mjs:105`, `ToolsOf`), so with two packages that each have a `config.ts`, `-y -p config`
  goes to the first without a word about the other. Every set of four names is tried, with
  every assignment of two tool names to them, shared ones included. Names are in one
  case: the code tells upper from lower case for an exact name and for a tool's name,
  and not in its scores.

## Theorems

The constants' assumptions are named in the modules (`ShelldAssumption`,
`SideChatAssumption`, `TabAssumption`, ...): the null values are none of the real
ones, bounds are naturals. Sets may be infinite, unless their elements are counted. Every
invariant and action property that a passing run checks has a theorem.

What the models compute from lists is proved for lists of any length. The provers cannot
use the library's rule of induction, whose parameter is a predicate; `DataLemmas` states it
with a set in its place: a set that has 0, and with each number the next, has them all
(`AllNumbers`), since the numbers it lacks would have a least one (`LeastOf`, from the
library's well-foundedness of the naturals). What holds of every number is then proved of
the set of numbers it holds of.

**`ShelldProofs`**, for every set of shells and sessions and every bound:

- `TypeCorrect`: `Spec => []TypeOK`;
- `LockDiscipline`: `Spec => []LockInv`, from `TypeOK` alone;
- `RegistryInvariant`: `Spec => []RegistryInv`. `RegistryInv` is what makes the
  rest inductive: a queued registration is of a shell spawned and not yet
  known (so a shell is registered once and in one session), a queued sweep
  belongs to the session handler that waits for it (so at most one is queued),
  and a waiting sweep has signalled every live leader of the registry it is
  about to clear;
- `RecordsOutliveLeaders`: `Spec => RecordOutlivesLeader`, from the three;
- `NothingUntracked`: `Spec => []NoUntrackedChild`;
- `SessionOwnership`: `Spec => []SessionOwnsItsShells`. The records are judged when
  the session is on, so the invariant (`OwnershipInv`) speaks of what is on its way to
  them: nothing is queued for registration behind a reap, what is queued is the
  session's own, and a close, which removes a log, is of a known shell;
- `MessagesTellTheCause`: `Spec => []MessageMatchesCause`. A child that honours
  SIGTERM and whose exit is still to be handled was signalled by nobody, or by the job
  in its grace window, and then the record names who asked for that job (`Attributed`):
  no exit outlives the job that caused it;
- `LifecycleRefinement`: `Spec => LifecycleSpec`, the initial states and every
  step mapped to `ShellLifecycle`.

**`ManagedLeaseProofs`**, for every number of pages, connections, requests and failed
calls:

- `OnlyTheFamilyIsTouched`: `Spec => []OnlyTheFamily`. The daemon judges by
  inventories and events that are behind the browser, so the invariant (`IInv`) speaks
  of all that is on its way: an inventory, however old, lists targets that were born,
  and their openers are fixed at birth, so the tree read in it lies in the family of
  the lease's root (`WireIsReal`); families only grow; a connection has one call on its
  way, so the answer it takes is to what it asked last (`OneCall`); acquire and release
  hold the lock from their first await to their last (`LockHeld`), so the lease is
  theirs; what is owned, kept across an await or asked for lies in the family of a root
  (`OwnedIsMine`, `KeptIsMine`, `SentIsMine`, `LeaseIsRoot`);
- `SessionsAreOfTheLease`: `Spec => []SessionsOfLease`. An agent's attach may be asked
  for under one lease and answered when that is gone; its session is recorded all the
  same. The browser answers in the order it was asked, and the connection delivers in
  the order of the answers, so such an attach is `Ahead` of every call of an acquire
  that has no lease yet (`AttachesInLease`), and the new lease, which clears the
  sessions, comes after it;
- `NoRootIsForgotten`: `Spec => []NoStrayRoot`. What the wire says of pages may be late
  but is true for ever: a page that went does not come back, and the inventory that a
  release reads has the root if it is still open (`AnswersAreTrue`). An open root page
  is the lease's or in the hands of an acquire (`InHand`), and the root of the lease is
  in the lists from which release closes, or was created by the daemon, or its
  inventory is still to come (`Listed`);
- `ReleaseClosesWhatItKnew`: `Spec => ReleaseClosesTheTree`. If the inventory of a
  release fails, it closes the cached `owned_target_ids`, and these must have the tree
  that can be read in the cached infos (`TreeIsOwned`), which inventories replace as a
  whole and events change page by page. The event that a page was created comes before
  whatever tells of a page it opened (`ParentsFirst`, `InfosHaveParents`), so a page
  never joins the lists after one it opened; and when acquire has created its root, whoever refreshes without the lock has
  been answered (`AsksAhead`), so no page of the new tree is in the lists yet
  (`FreshRoot`). From there `ReleaseKnows`: what is open of the tree it knew is in the
  list of release, or the browser refused to close it.

**`BrowserControllerProofs`**, for every number of operations, modes, launches, lost
answers and failures: `OneDaemonAndBrowser` (`OnePair`) and `LeasesAreStable`
(`LeaseIsStable`). The record of the daemon and the launch the running operation made
name at most one pair between them, at every await (`LaunchInv`, `PairInv`): a start
begins only with nothing recorded, and every way out of one closes what it made before
the record goes. For the lease: where an operation may be while there is one, and that
it knows of it (`LeaseInv`).

**`SideChatProofs`**, for every set of openings and number of sessions, every safety
property of the `side_chat` run:

- `TypeCorrect`: `Spec => []TypeOK`. The count of violations is bounded by two
  only because no call runs in a turn that has two (`CallsBeforeStop`);
- `OneSideChatAlways` and `MouseFollows`: by `WindowInv`. `OneSideChat` is not
  inductive by itself: a continuation that opens the next chat must find no other
  promise pending (`SolePromise`), a promise that the host still holds must be of a
  live overlay (`OpenIsLive`), and a new overlay must start visible and install
  the listener anew (`MouseInv`);
- `SessionEnds` and `BadgeIsTrue`: by `StatusInv`. Alt+N's continuation opens a
  chat with the context of the old one, so the invariant needs that no opening
  has a context of a session to come, and after the shutdown none of the present
  one; then no chat is live once the badge ignores updates;
- `ScreenIsTrue`: `Spec => []ScreenTellsState`, from `MouseFollows` and `BadgeIsTrue`;
- `LinesAreCurrent`: `ChatSpec => []CacheIsCurrent`, for every conversation, size and
  gesture. The width may change between two frames and back, so the cache is right for
  the width it was made for, whatever the width is by then (`CacheInv`);
- `StatusLineIsTrue`: `ChatSpec => []StatusIsTrue`, inductive with the types of its
  switches;
- `ReadersAreLeftAlone`: `ChatSpec => WhatIsReadStays`. The lines of the last drawing are
  those of some messages, one after the other, and then lines of none
  (`LinesAreOfCache`); the messages of the next drawing begin with the same ones, wrapped
  to as many lines each (`CacheIsList`, and `CacheInv` from above), and by induction over
  their number its lines begin with the same text. A frozen view is as far from the end of
  the lines as its anchor is, or at the bottom (`FrozenAtAnchor`), which drawing and
  gestures keep; there is one selection at most (`OneSelection`), clamped to what is drawn.

**`HarnessProofs`**, of `Release`, for every set of packages, versions, commits and pushes of others:
`PublishedVersionsAreTagged` (`PublishedIsTagged`), `InitialReleaseCanBeRetried`
(`RetryIsAccepted`) and `TagsOnOriginStay` (`TagsStay`). A version is accepted before its
tag is on origin only by an initial release (`AcceptedInv`), and a package that was
never public has the version of its first manifest in every commit (`FreshInv`);
releases by others and by the workflow need a public package. `InitialInv` and
`RegularInv` say what the running release relies on at each command.

The smaller modules, each by one inductive invariant (`ImagesStayWhereMeant` supposes that
the providers of a store are the keys of an object: each once, upper and lower case not told
apart, and none empty):

| theorem | property | the strengthening |
|---|---|---|
| `HarnessProofs!RequestsKeepTheirTab` | `LandsOnItsTab` | who recovers holds the lock, so the current session is still the one asked for (`LockHeld`); an entry of the map leads to a session of the same tab, unless that tab has gone, along chains too and after the oldest is dropped (`Leads`); so does what a recovery has decided (`Aims`) |
| `HarnessProofs!StrangersAreSafe` | `OnlyDaemonsAreStopped` | a daemon that lives has a pid (`LivingHasPid`), pid and start time are known together (`SeenIsWhole`), only a pid that was reported is watched (`WatchedIsSeen`) |
| `PartsProofs!LaunchesLeaveNothing`, `OthersAreLeftAlone` | `NothingLeft`, `OnlyOwnIsRemoved` | only a private launch comes to a cleanup; a marker is on a browser of its launch's profile only (`MarkerTellsProfile`), and a private profile has no browser without it (`PrivateIsMarked`); what there is at each stage (`StagesOfPrivate`) |
| `PartsProofs!SessionKeepsItsFile` | `OneSessionFile` | commands that have asked for a switch were all given in one directory (`OneOrigin`), from which their targets differ (`GoesAway`), so the file one removes is not the copy of another (`CopyIsThere`) |
| `PartsProofs!RowsShowTheirGroup` | `DrawnIsCurrent` | a new plan tells every drawn row it changes, but for calls without a row; those stand alone in every plan (`RowlessStandAlone`) |
| `PartsProofs!OverlapsAreAsked` | `OverlapIsAsked` | in a command of the common form, of any length, everything written is found (`WritesAreFound`); the paths still to be looked at, the one in question and those agreed to cover what the call writes (`Covered`), and the tracker only grows |
| `PartsProofs!StopsAreForThree` | `ExhaustedAfterThree` | a call counts in an object of its own session and intent, whatever has replaced it since (`HeldIsOfKind`, `FailuresAreOfKind`), and nothing reset the counter between the submissions of the object's maker and its own, since the session's object is always one that nothing has reset (`CounterIsFresh`); a failure is counted once (`CountedOnce`), and what a stop empties is counted nowhere again (`BlamedOnce`) |
| `PartsProofs!GuessesAreConfirmed` | `NoSilentGuess` | a scope with the name as a part, in its own or in that of a tool that counts for it, scores at least 85 of 100 and is a candidate (`RankIs`), so one candidate means no other such scope; names are in a total order, so of the packages that have a tool there is a first (`FirstName`), for which it counts (`ToolHasPackage`) |
| `PartsProofs!HistoriesAreLegal` | `CiteIsLegal` | answers come right after the message with their calls, once each, and no call is of two messages (`History`), so all but the last message with calls have their answers: the assistant speaks only when nothing runs. A prefix of such a history is one, the exchange that is cut out of it begins at a message and ends with the last, and the calls it lacks answers of are the last ones of its last message, for which the made-up answers stand in the places that are left |
| `PartsProofs!ImagesStayWhereMeant` | `ImagesGoWhereMeant` | while the call is on its way, it goes where the settings resolve to (`VisionInv`); the rest is about the choice itself: what `fuzzyPick` returns (`PickIs`), that a model comes from those that see images (`PickedModel`, `DefaultModelSees`), and each of the three ways to a backend |
| `ImageJobsProofs!PathsAreExclusive`, `CompletedIsThere`, `NothingIsOverwritten` | `OneJobPerPath`, `DeliveredIsThere`, `NothingOverwritten` | an image that was copied, and not taken back, is there (`DeliveredStays`); a message is the end of a job (`PostedIsOver`) |

## What is model-checked only

- Liveness, since the prover does not reach fairness: `DeathIsReported`,
  `ShutdownEnds`, `ControlEnds`, `OperationsEnd`, `JobsEnd`, `RepeatStopsTurn`.

## Not modelled

- The side chat's panel, input, configuration and prompt pack: rendering, the editor,
  files that are read. Columns and colours of what it shows, the text of an export.
- The tokenizer of the overlap question: quotes and escapes.
- The monitor of pi-shelld (`tui.ts`) but for the stop it asks for: pages, selection
  and the footer are drawn from the registry each time.
- Discovery, doctor, configuration and command line of pi-wsl-browser; the harness's
  helpers; recording, video, login and telemetry: they read, wrap or encode, and keep
  no state across calls.
- pi-gadget: small commands and a completion.
- Of modelled parts: what a release prints and asks, the tables of the READMEs and
  `gcm`'s subjects; the text of a quiet row; effort, tokens and cost in the vision
  helper; lint rules of diagrams; the serving of sockets, cloud browsers, update and
  doctor of the harness; the token of control requests.

`PROJECT.json` names every part with its status, and every hazard with its line, those
without a property included.

## Plan

1. The monitor of pi-shelld: which shell a key acts on when the list changes under it.
2. The socket of a name: what `ensure_daemon` could promise if the name were locked.

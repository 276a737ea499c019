----------------------------- MODULE SideChat ------------------------------
(***************************************************************************)
(* The side chat of pi-better-btw: how its one overlay is opened, mounted,  *)
(* hidden, cleared and closed (srcs/index.ts), and the turns of the agent   *)
(* behind it, with the read-only and the edit lane                          *)
(* (srcs/side-chat-overlay.ts).                                             *)
(*                                                                          *)
(* The host and the agent library are outside the repository. Of the host:  *)
(* ctx.ui.custom calls the factory at once, mounts the overlay later, and   *)
(* does not mount one that was closed in between. Keys and commands arrive  *)
(* when the promise continuations have run; an overlay that is being        *)
(* mounted is the exception, for which the code has its own waits. Session  *)
(* events arrive at any time. Of the agent: a run looks its tools up in the *)
(* list it began with or in the present one, and makes no call after abort. *)
(*                                                                          *)
(* A definition named ...Mutant is a plausible bug in the definition that   *)
(* follows it; the specification uses none of them.                         *)
(***************************************************************************)
EXTENDS Naturals, FiniteSets

CONSTANTS
  Chats,       \* names for openings; one is used again when all of it has ended
  NoChat,
  MaxSessions  \* bound: session_start events

ASSUME SideChatAssumption ==
  NoChat \notin Chats /\ MaxSessions \in Nat

VARIABLES
  \* the extension (index.ts)
  active,      \* activeOverlay
  handle,      \* whose handle overlayHandle is
  opening,     \* whose promise `opening` is
  ready,       \* the state of that promise
  lifecycle,
  over,        \* session_shutdown was handled
  indicator,   \* the badge in the footer
  listener,    \* the mouse listener of the regular mode is installed
  reporting,   \* the terminal reports the mouse
  foreign,     \* another extension's overlay is visible
  \* an opening
  phase,       \* its overlay: made, mounted, or none (disposed)
  custom,      \* the promise of ctx.ui.custom
  born,        \* the lifecycle of its context, which is its generation
  hidden,
  \* its agent (side-chat-overlay.ts)
  mode,        \* toolMode
  run,         \* the prompt: idle, running, aborting or settled; isStreaming but for idle
  offered,     \* the lanes whose tool list the run may use
  call,        \* the tool that runs
  violations,  \* laneViolations
  refused      \* history: calls of the turn refused (not found or blocked) in the read-only lane

mouse == <<listener, reporting>>
window == <<active, handle, opening, ready, indicator, mouse>>
session == <<lifecycle, over>>
openings == <<phase, custom, born, hidden>>
agent == <<mode, run, offered, call, violations, refused>>
vars == <<window, session, foreign, openings, agent>>

Lanes == {"read-only", "full"}
\* A tool of the read-only lane, and one that only the edit lane has.
Tools == {"read", "edit"}

Live(c) == phase[c] \in {"made", "mounted"}

TypeOK ==
  /\ active \in Chats \cup {NoChat} /\ handle \in Chats \cup {NoChat}
  /\ opening \in Chats \cup {NoChat}
  /\ lifecycle \in 0..MaxSessions /\ over \in BOOLEAN
  /\ indicator \in {"none", "idle", "busy"}
  /\ listener \in BOOLEAN /\ reporting \in BOOLEAN /\ foreign \in BOOLEAN
  /\ phase \in [Chats -> {"none", "made", "mounted"}]
  /\ custom \in [Chats -> {"none", "open", "close", "clear", "failed", "blocked"}]
  /\ ready \in {"none", "pending", "resolved", "rejected"}
  /\ opening = NoChat <=> ready = "none"
  /\ born \in [Chats -> 0..MaxSessions] /\ hidden \in [Chats -> BOOLEAN]
  /\ mode \in [Chats -> Lanes]
  /\ run \in [Chats -> {"idle", "running", "aborting", "settled"}]
  /\ offered \in [Chats -> SUBSET Lanes]
  /\ call \in [Chats -> Tools \cup {"none"}]
  /\ violations \in [Chats -> 0..2] /\ refused \in [Chats -> 0..2]

Init ==
  /\ active = NoChat /\ handle = NoChat /\ opening = NoChat
  /\ lifecycle = 0 /\ over = FALSE /\ indicator = "none"
  /\ listener = FALSE /\ reporting = FALSE /\ foreign = FALSE
  /\ phase = [c \in Chats |-> "none"] /\ custom = [c \in Chats |-> "none"]
  /\ ready = "none" /\ hidden = [c \in Chats |-> FALSE]
  /\ born = [c \in Chats |-> 0] /\ mode = [c \in Chats |-> "read-only"]
  /\ run = [c \in Chats |-> "idle"] /\ offered = [c \in Chats |-> {}]
  /\ call = [c \in Chats |-> "none"]
  /\ violations = [c \in Chats |-> 0] /\ refused = [c \in Chats |-> 0]

\* The indicator ignores updates once it is disposed.
Show(status) == indicator' = IF over THEN indicator ELSE status

-----------------------------------------------------------------------------
(* Opening.                                                                *)

\* All of an opening has ended: the name may be used for another.
Ended(c) ==
  /\ ~Live(c) /\ custom[c] = "none" /\ opening # c
  /\ run[c] = "idle"

InstallMouse ==
  /\ listener' = TRUE
  /\ reporting' = IF listener THEN reporting ELSE TRUE

\* A promise is settled once.
Settle(c, how) ==
  ready' = IF opening = c /\ ready = "pending" THEN how ELSE ready

VisibleOverlay == foreign \/ \E c \in Chats : phase[c] = "mounted" /\ ~hidden[c]

\* openSideChat up to its first wait, with the context of lifecycle ctx: the
\* factory makes the overlay, is blocked by a visible one, or something fails.
\* The promises of ctx.ui.custom were `promises` before.
OpenSideChat(ctx, promises) ==
  /\ opening = NoChat
  /\ \E c \in Chats :
       /\ Ended(c)
       /\ opening' = c
       /\ ready' = "pending"
       /\ born' = [born EXCEPT ![c] = ctx]
       /\ \/ \E outcome \in {"blocked", "failed"} :
               /\ outcome = "blocked" => VisibleOverlay
               /\ custom' = [promises EXCEPT ![c] = outcome]
               /\ UNCHANGED <<active, indicator, mouse, phase, agent>>
          \/ /\ ~VisibleOverlay
             /\ custom' = [promises EXCEPT ![c] = "open"]
             /\ phase' = [phase EXCEPT ![c] = "made"]
             /\ active' = c /\ InstallMouse /\ Show("idle")
             /\ UNCHANGED agent
  /\ UNCHANGED <<handle, session, foreign, hidden>>

\* The host mounts the overlay and hands out its handle.
Mount(c) ==
  /\ phase[c] = "made" /\ custom[c] = "open"
  /\ handle' = c
  /\ phase' = [phase EXCEPT ![c] = "mounted"]
  /\ Settle(c, "resolved")
  /\ UNCHANGED <<active, opening, indicator, mouse, session, foreign, custom, born,
                 hidden, agent>>

\* The host rejects the promise of ctx.ui.custom, before or after the mount.
HostFails(c) ==
  /\ Live(c) /\ custom[c] = "open"
  /\ custom' = [custom EXCEPT ![c] = "failed"]
  /\ UNCHANGED <<window, session, foreign, phase, born, hidden, agent>>

\* openSideChat returns when `ready` is settled.
OpenReturns(c) ==
  /\ opening = c /\ ready # "pending"
  /\ opening' = NoChat /\ ready' = "none"
  /\ UNCHANGED <<active, handle, indicator, mouse, session, foreign, openings, agent>>

-----------------------------------------------------------------------------
(* Closing.                                                                *)

\* onClose: nothing of the overlay stays, and who waits for it goes on.
OnClose(c, how) ==
  /\ active' = NoChat /\ handle' = NoChat
  /\ listener' = FALSE /\ reporting' = FALSE
  /\ Show("none") /\ Settle(c, how)

\* dispose of a live overlay, which aborts its agent. What nothing reads of it
\* any more is forgotten here.
Dispose(c, how) ==
  /\ phase' = [phase EXCEPT ![c] = "none"]
  /\ run' = [run EXCEPT ![c] = IF @ = "running" THEN "aborting" ELSE @]
  /\ hidden' = [hidden EXCEPT ![c] = FALSE]
  /\ offered' = [offered EXCEPT ![c] = {}]
  /\ mode' = [mode EXCEPT ![c] = "read-only"]
  /\ violations' = [violations EXCEPT ![c] = 0]
  /\ refused' = [refused EXCEPT ![c] = 0]
  /\ OnClose(c, how)
  /\ UNCHANGED call

\* done(action): the promise of ctx.ui.custom, unless the host rejected it.
Done(c, action) == [custom EXCEPT ![c] = IF @ = "open" THEN action ELSE @]

CatchForgetsOverlayMutant(c) ==
  /\ custom[c] = "failed"
  /\ custom' = [custom EXCEPT ![c] = "none"]
  /\ Settle(c, "rejected")
  /\ UNCHANGED <<active, handle, opening, indicator, mouse, session, foreign, phase, born,
                 hidden, agent>>

\* The catch of runInteraction: callers learn of a failed mount, and the overlay
\* that was made is disposed.
CatchFailure(c) ==
  /\ custom[c] = "failed"
  /\ custom' = [custom EXCEPT ![c] = "none"]
  /\ \/ Live(c) /\ Dispose(c, "rejected")
     \/ /\ ~Live(c) /\ Settle(c, "rejected")
        /\ UNCHANGED <<active, handle, indicator, mouse, phase, hidden, agent>>
  /\ UNCHANGED <<opening, session, foreign, born>>

\* Blocked by another overlay: the user is told and the command returns.
CatchBlocked(c) ==
  /\ custom[c] = "blocked"
  /\ custom' = [custom EXCEPT ![c] = "none"]
  /\ Settle(c, "resolved")
  /\ UNCHANGED <<active, handle, opening, indicator, mouse, session, foreign, phase, born,
                 hidden, agent>>

ClosedOfAnySessionMutant(c) ==
  /\ custom[c] \in {"close", "clear"}
  /\ LET promises == [custom EXCEPT ![c] = "none"]
     IN  \/ /\ custom[c] = "clear" /\ opening = NoChat
            /\ OpenSideChat(born[c], promises)
         \/ /\ custom' = promises
            /\ UNCHANGED <<window, session, foreign, phase, born, hidden, agent>>

\* runInteraction after the overlay has closed: Alt+N opens an empty one with
\* the same context, unless the session has changed, one is being opened, or
\* that is refused (no model is configured).
Closed(c) ==
  /\ custom[c] \in {"close", "clear"}
  /\ LET promises == [custom EXCEPT ![c] = "none"]
     IN  \/ /\ custom[c] = "clear" /\ born[c] = lifecycle /\ opening = NoChat
            /\ OpenSideChat(born[c], promises)
         \/ /\ custom' = promises
            /\ UNCHANGED <<window, session, foreign, phase, born, hidden, agent>>

-----------------------------------------------------------------------------
(* Commands, keys and session events.                                      *)

\* No continuation is pending; a mount may be.
Drained ==
  /\ ~over
  /\ \A c \in Chats : custom[c] \in {"none", "open"}
  /\ opening # NoChat => ready = "pending"

Hide(c) ==
  /\ hidden' = [hidden EXCEPT ![c] = TRUE]
  /\ reporting' = FALSE

Unhide(c) ==
  /\ hidden' = [hidden EXCEPT ![c] = FALSE]
  /\ reporting' = TRUE

\* /btw, /side and Alt+W without an overlay.
OpenCommand ==
  /\ Drained /\ active = NoChat
  /\ OpenSideChat(lifecycle, custom)

\* Alt+W, and Esc while no turn runs. While the overlay is being mounted the
\* key waits for that and does no more.
Background(c) ==
  /\ Drained /\ handle = c /\ ~hidden[c]
  /\ Hide(c)
  /\ UNCHANGED <<active, handle, opening, indicator, listener, session, foreign, phase,
                 custom, ready, born, agent>>

\* Alt+W, /btw and /side with a hidden overlay.
Restore(c) ==
  /\ Drained /\ handle = c /\ hidden[c]
  /\ Unhide(c)
  /\ UNCHANGED <<active, handle, opening, indicator, listener, session, foreign, phase,
                 custom, ready, born, agent>>

\* The overlay gets the keys.
HasKeys(c) == Drained /\ handle = c /\ ~hidden[c]

\* Alt+N.
Clear(c) ==
  /\ HasKeys(c)
  /\ custom' = Done(c, "clear") /\ Dispose(c, "resolved")
  /\ UNCHANGED <<opening, session, foreign, born>>

CloseActive ==
  IF active = NoChat
    THEN UNCHANGED <<active, handle, ready, indicator, mouse, phase, custom, hidden, agent>>
    ELSE custom' = Done(active, "close") /\ Dispose(active, "resolved")

SessionStart ==
  /\ ~over /\ lifecycle < MaxSessions
  /\ lifecycle' = lifecycle + 1
  /\ CloseActive
  /\ UNCHANGED <<opening, over, foreign, born>>

\* The last event of this instance of the extension.
SessionShutdown ==
  /\ ~over /\ lifecycle < MaxSessions
  /\ lifecycle' = lifecycle + 1 /\ over' = TRUE
  /\ CloseActive
  /\ UNCHANGED <<opening, foreign, born>>

\* Another extension shows or closes an overlay of its own.
ForeignOverlay ==
  /\ foreign' = ~foreign
  /\ UNCHANGED <<window, session, openings, agent>>

-----------------------------------------------------------------------------
(* The turns of the agent.                                                 *)

\* Ctrl+T.
ToggleMode(c) ==
  /\ HasKeys(c)
  /\ \E lane \in Lanes \ {mode[c]} :
       /\ mode' = [mode EXCEPT ![c] = lane]
       /\ offered' = [offered EXCEPT ![c] = IF run[c] = "idle" THEN @ ELSE @ \cup {lane}]
  /\ UNCHANGED <<window, session, foreign, openings, run, call, violations, refused>>

\* handleSubmit up to the prompt.
Submit(c) ==
  /\ HasKeys(c) /\ run[c] = "idle"
  /\ violations' = [violations EXCEPT ![c] = 0]
  /\ refused' = [refused EXCEPT ![c] = 0]
  /\ Show("busy")
  /\ run' = [run EXCEPT ![c] = "running"]
  /\ offered' = [offered EXCEPT ![c] = {mode[c]}]
  /\ UNCHANGED <<active, handle, opening, ready, mouse, session, foreign, openings, mode, call>>

\* Alt+S, and Esc while a turn runs.
Abort(c) ==
  /\ HasKeys(c) /\ run[c] = "running"
  /\ run' = [run EXCEPT ![c] = "aborting"]
  /\ UNCHANGED <<window, session, foreign, openings, mode, offered, call,
                 violations, refused>>

\* abort() was called, or finishTurn ends the run.
Stopping(c) == run[c] = "aborting" \/ violations[c] >= 2

CountWithoutAbortMutant(c) ==
  /\ violations' = [violations EXCEPT ![c] = 1]
  /\ UNCHANGED run

\* registerLaneViolation: the second one aborts the turn.
RegisterLaneViolation(c) ==
  /\ violations' = [violations EXCEPT ![c] = @ + 1]
  /\ run' = [run EXCEPT ![c] = IF violations[c] >= 1 /\ @ = "running" THEN "aborting" ELSE @]

\* tool_execution_end with an error, as handleAgentEvent sees it.
ToolFailed(c, tool) ==
  IF Live(c) /\ mode[c] = "read-only" /\ tool # "read"
    THEN RegisterLaneViolation(c)
    ELSE UNCHANGED <<violations, run>>

\* The model calls a tool: it is not found, beforeToolCall blocks it, or it runs.
ToolCall(c, tool) ==
  /\ run[c] = "running" /\ call[c] = "none" /\ ~Stopping(c)
  /\ \/ /\ tool = "edit"
        /\ "read-only" \in offered[c] \/ mode[c] = "read-only"
        /\ refused' = [refused EXCEPT ![c] = IF mode[c] = "full" \/ @ = 2 THEN @ ELSE @ + 1]
        /\ ToolFailed(c, tool)
        /\ UNCHANGED call
     \/ /\ tool = "read" \/ ("full" \in offered[c] /\ mode[c] = "full")
        /\ call' = [call EXCEPT ![c] = tool]
        /\ UNCHANGED <<refused, violations, run>>
  /\ UNCHANGED <<window, session, foreign, openings, mode, offered>>

\* The tool ends, with an error or without.
ToolEnds(c) ==
  /\ call[c] # "none"
  /\ call' = [call EXCEPT ![c] = "none"]
  /\ \/ ToolFailed(c, call[c])
     \/ UNCHANGED <<violations, run>>
  /\ UNCHANGED <<window, session, foreign, openings, mode, offered, refused>>

\* The run ends: the answer is complete, the turn was stopped, or it failed.
RunEnds(c) ==
  /\ run[c] \in {"running", "aborting"} /\ call[c] = "none"
  /\ run' = [run EXCEPT ![c] = "settled"]
  /\ UNCHANGED <<window, session, foreign, openings, mode, offered, call,
                 violations, refused>>

TurnOverOfAnyMutant(c) ==
  /\ run[c] = "settled"
  /\ run' = [run EXCEPT ![c] = "idle"]
  /\ Show("idle")
  /\ UNCHANGED <<active, handle, opening, ready, mouse, session, foreign, openings, mode, offered,
                 call, violations, refused>>

\* The finally of handleSubmit: a disposed overlay leaves the badge alone.
TurnOver(c) ==
  /\ run[c] = "settled"
  /\ run' = [run EXCEPT ![c] = "idle"]
  /\ IF Live(c) THEN Show("idle") ELSE UNCHANGED indicator
  /\ UNCHANGED <<active, handle, opening, ready, mouse, session, foreign, openings, mode, offered,
                 call, violations, refused>>

-----------------------------------------------------------------------------
Continue(c) ==
  OpenReturns(c) \/ CatchFailure(c) \/ CatchBlocked(c) \/ Closed(c) \/ TurnOver(c)

Next ==
  \/ OpenCommand \/ SessionStart \/ SessionShutdown \/ ForeignOverlay
  \/ \E c \in Chats :
       \/ Mount(c) \/ HostFails(c) \/ Continue(c)
       \/ Background(c) \/ Restore(c) \/ Clear(c)
       \/ ToggleMode(c) \/ Submit(c) \/ Abort(c)
       \/ \E tool \in Tools : ToolCall(c, tool)
       \/ ToolEnds(c) \/ RunEnds(c)

Spec == Init /\ [][Next]_vars

\* The event loop runs continuations, the host mounts what it was given, and
\* the agent ends a run that is stopped.
Fairness ==
  \A c \in Chats :
    /\ WF_vars(Mount(c)) /\ WF_vars(OpenReturns(c)) /\ WF_vars(CatchFailure(c))
    /\ WF_vars(CatchBlocked(c)) /\ WF_vars(Closed(c)) /\ WF_vars(TurnOver(c))
    /\ WF_vars(Stopping(c) /\ RunEnds(c))

FairSpec == Spec /\ Fairness

-----------------------------------------------------------------------------
(* Properties.                                                             *)

\* There is one side chat: an overlay that is not disposed is the one the
\* commands and session events reach, its promise is still with the host, and
\* the handle, if it was given out, is its own.
OneSideChat ==
  /\ \A c \in Chats : Live(c) => active = c /\ custom[c] \in {"open", "failed"}
  /\ active # NoChat => Live(active)
  /\ handle # NoChat => handle = active

\* A session change ends the side chat: none is alive in a later session than
\* the one whose context it has, and none after the shutdown, even if Alt+N was
\* about to open the next.
SessionEndsChat ==
  \A c \in Chats : Live(c) => born[c] = lifecycle /\ ~over

\* The badge in the footer: none without a side chat, busy exactly while its
\* own turn runs, whatever the turns of disposed chats still do.
BadgeTellsState ==
  indicator = IF active = NoChat THEN "none"
              ELSE IF run[active] = "idle" THEN "idle" ELSE "busy"

\* The terminal reports the mouse exactly while the side chat is visible.
MouseFollowsVisibility ==
  reporting <=> active # NoChat /\ ~hidden[active]

\* Both, as the screen shows them: the footer and the pointer belong to the side chat.
ScreenTellsState == BadgeTellsState /\ MouseFollowsVisibility

\* In the read-only lane the second call to an unavailable tool stops the turn
\* (README.md:76), whatever the lane is afterwards.
RepeatStopsTurn == \A c \in Chats : refused[c] = 2 ~> run[c] = "idle"

=============================================================================

--------------------------- MODULE SideChatProofs ---------------------------
(***************************************************************************)
(* Proofs about SideChat for any set of openings and any number of session *)
(* events: type correctness, that there is one side chat and the mouse     *)
(* reporting follows it, that it ends with its session, and that the badge *)
(* shows its state.  And about ChatView for any conversation, sizes and    *)
(* gestures: the lines that are kept are current, the status line is true, *)
(* and what the user reads or has selected stays where it is.              *)
(***************************************************************************)
EXTENDS SideChat, ChatView, DataLemmas

\* A call runs only in a turn that is not stopped for lane violations, so its
\* end counts the second one at most.
CallsBeforeStop == \A c \in Chats : call[c] # "none" => violations[c] < 2

TypeInv == TypeOK /\ CallsBeforeStop

-----------------------------------------------------------------------------
(* Type correctness.                                                       *)

LEMMA TypeInit == Init => TypeInv
<1> SUFFICES ASSUME Init PROVE TypeInv
  OBVIOUS
<1> USE SideChatAssumption DEF Init
<1>1. hidden \in [Chats -> BOOLEAN]
  OBVIOUS
<1>2. offered \in [Chats -> SUBSET Lanes]
  OBVIOUS
<1>3. mode \in [Chats -> Lanes] /\ call \in [Chats -> Tools \cup {"none"}]
  BY DEF Lanes
<1>4. 0 \in 0..MaxSessions
  OBVIOUS
<1>5. born \in [Chats -> 0..MaxSessions] /\ violations \in [Chats -> 0..2] /\ refused \in [Chats -> 0..2]
  OBVIOUS
<1>6. /\ phase \in [Chats -> {"none", "made", "mounted"}]
      /\ custom \in [Chats -> {"none", "open", "close", "clear", "failed", "blocked"}]
      /\ run \in [Chats -> {"idle", "running", "aborting", "settled"}]
  OBVIOUS
<1>7. CallsBeforeStop
  BY DEF CallsBeforeStop
<1>8. TypeOK
  BY <1>1, <1>2, <1>3, <1>4, <1>5, <1>6 DEF TypeOK
<1> QED
  BY <1>7, <1>8 DEF TypeInv

Promises == [Chats -> {"none", "open", "close", "clear", "failed", "blocked"}]

\* An opening keeps the types.
LEMMA OpenTypes ==
  ASSUME TypeInv, NEW ctx \in 0..MaxSessions, NEW promises \in Promises,
         OpenSideChat(ctx, promises)
  PROVE  TypeInv'
<1> USE DEF TypeInv, TypeOK, CallsBeforeStop, mouse, session, agent, Promises
<1>1. PICK c \in Chats :
        /\ opening' = c /\ ready' = "pending"
        /\ born' = [born EXCEPT ![c] = ctx]
        /\ \/ \E outcome \in {"blocked", "failed"} :
                /\ custom' = [promises EXCEPT ![c] = outcome]
                /\ UNCHANGED <<active, indicator, mouse, phase, agent>>
           \/ /\ custom' = [promises EXCEPT ![c] = "open"]
              /\ phase' = [phase EXCEPT ![c] = "made"]
              /\ active' = c /\ InstallMouse /\ Show("idle")
              /\ UNCHANGED agent
  BY DEF OpenSideChat
<1>2. UNCHANGED <<handle, session, foreign, hidden, agent>>
  BY DEF OpenSideChat
<1>3. custom' \in Promises /\ phase' \in [Chats -> {"none", "made", "mounted"}]
  BY <1>1
<1>4. listener' \in BOOLEAN /\ reporting' \in BOOLEAN
  BY <1>1 DEF InstallMouse
<1>5. /\ active' \in Chats \cup {NoChat}
      /\ indicator' \in {"none", "idle", "busy"}
      /\ opening' \in Chats \cup {NoChat} /\ ready' = "pending" /\ opening' # NoChat
      /\ born' \in [Chats -> 0..MaxSessions]
  BY <1>1, SideChatAssumption DEF Show
<1> QED
  BY <1>2, <1>3, <1>4, <1>5

\* So does closing the overlay, whatever becomes of its promise and of the session.
LEMMA DisposeTypes ==
  ASSUME TypeInv, NEW c \in Chats, NEW how \in {"resolved", "rejected"}, Dispose(c, how),
         custom' \in Promises, lifecycle' \in 0..MaxSessions, over' \in BOOLEAN,
         UNCHANGED <<opening, foreign, born>>
  PROVE  TypeInv'
<1> USE DEF TypeInv, TypeOK, CallsBeforeStop, Promises, Dispose, OnClose
<1>1. /\ active' = NoChat /\ handle' = NoChat
      /\ listener' = FALSE /\ reporting' = FALSE
      /\ indicator' \in {"none", "idle", "busy"}
  BY DEF Show
<1>2. ready' \in {"none", "pending", "resolved", "rejected"} /\ (ready' = "none" <=> ready = "none")
  BY DEF Settle
<1>3. /\ phase' \in [Chats -> {"none", "made", "mounted"}]
      /\ run' \in [Chats -> {"idle", "running", "aborting", "settled"}]
  OBVIOUS
<1>4. hidden' \in [Chats -> BOOLEAN] /\ offered' \in [Chats -> SUBSET Lanes]
  OBVIOUS
<1>5. mode' \in [Chats -> Lanes]
  BY DEF Lanes
<1>6. /\ violations' \in [Chats -> 0..2] /\ refused' \in [Chats -> 0..2]
      /\ call' = call
      /\ \A d \in Chats : violations'[d] = violations[d] \/ violations'[d] = 0
  OBVIOUS
<1>7. CallsBeforeStop'
  BY <1>6
<1>8. /\ foreign' \in BOOLEAN /\ opening' \in Chats \cup {NoChat}
      /\ opening' = NoChat <=> ready' = "none"
      /\ born' \in [Chats -> 0..MaxSessions]
  BY <1>2
<1> QED
  BY <1>1, <1>2, <1>3, <1>4, <1>5, <1>6, <1>7, <1>8

LEMMA TypeNext == TypeInv /\ [Next]_vars => TypeInv'
<1> SUFFICES ASSUME TypeInv, [Next]_vars PROVE TypeInv'
  OBVIOUS
<1> USE SideChatAssumption
    DEF TypeInv, TypeOK, CallsBeforeStop, mouse, window, session, openings, agent, Lanes, Tools
<1>a. ASSUME NEW c \in Chats, NEW action \in {"close", "clear"} PROVE Done(c, action) \in Promises
  BY DEF Done, Promises
<1>1. CASE OpenCommand
  BY <1>1, OpenTypes DEF OpenCommand, Promises
<1>b. ASSUME CloseActive, lifecycle' \in 0..MaxSessions, over' \in BOOLEAN,
             UNCHANGED <<opening, foreign, born>>
      PROVE  TypeInv'
  <2>1. CASE active = NoChat
    BY <1>b, <2>1 DEF CloseActive
  <2>2. CASE active # NoChat
    <3>1. active \in Chats /\ custom' = Done(active, "close") /\ Dispose(active, "resolved")
      BY <1>b, <2>2 DEF CloseActive
    <3>2. custom' \in Promises
      BY <1>a, <3>1
    <3> QED
      BY <1>b, <3>1, <3>2, DisposeTypes
  <2> QED
    BY <2>1, <2>2
<1>2. CASE SessionStart
  BY <1>2, <1>b DEF SessionStart
<1>3. CASE SessionShutdown
  BY <1>3, <1>b DEF SessionShutdown
<1>4. CASE ForeignOverlay
  BY <1>4 DEF ForeignOverlay
<1>5. ASSUME NEW c \in Chats, Mount(c) PROVE TypeInv'
  BY <1>5 DEF Mount, Settle
<1>6. ASSUME NEW c \in Chats, HostFails(c) PROVE TypeInv'
  BY <1>6 DEF HostFails
<1>7. ASSUME NEW c \in Chats, OpenReturns(c) PROVE TypeInv'
  BY <1>7 DEF OpenReturns
<1>8. ASSUME NEW c \in Chats, CatchFailure(c) PROVE TypeInv'
  <2>1. custom' \in Promises /\ UNCHANGED <<opening, session, foreign, born>>
    BY <1>8 DEF CatchFailure, Promises
  <2>2. CASE Live(c) /\ Dispose(c, "rejected")
    BY <2>1, <2>2, DisposeTypes
  <2>3. CASE Settle(c, "rejected") /\ UNCHANGED <<active, handle, indicator, mouse, phase, hidden, agent>>
    BY <2>1, <2>3 DEF Settle, Promises
  <2> QED
    BY <1>8, <2>2, <2>3 DEF CatchFailure
<1>9. ASSUME NEW c \in Chats, CatchBlocked(c) PROVE TypeInv'
  BY <1>9 DEF CatchBlocked, Settle
<1>10. ASSUME NEW c \in Chats, Closed(c) PROVE TypeInv'
  <2> DEFINE promises == [custom EXCEPT ![c] = "none"]
  <2>1. promises \in Promises
    BY DEF Promises
  <2>2. CASE OpenSideChat(born[c], promises)
    BY <2>1, <2>2, OpenTypes
  <2>3. CASE /\ custom' = promises
             /\ UNCHANGED <<window, session, foreign, phase, born, hidden, agent>>
    BY <2>1, <2>3 DEF Promises
  <2> QED
    BY <1>10, <2>2, <2>3 DEF Closed
<1>11. ASSUME NEW c \in Chats, TurnOver(c) PROVE TypeInv'
  BY <1>11 DEF TurnOver, Show
<1>12. ASSUME NEW c \in Chats, Background(c) PROVE TypeInv'
  BY <1>12 DEF Background, Hide
<1>13. ASSUME NEW c \in Chats, Restore(c) PROVE TypeInv'
  BY <1>13 DEF Restore, Unhide
<1>14. ASSUME NEW c \in Chats, Clear(c) PROVE TypeInv'
  <2>1. /\ custom' \in Promises /\ Dispose(c, "resolved")
        /\ UNCHANGED <<opening, session, foreign, born>>
    BY <1>14, <1>a DEF Clear
  <2> QED
    BY <2>1, DisposeTypes
<1>15. ASSUME NEW c \in Chats, ToggleMode(c) PROVE TypeInv'
  BY <1>15 DEF ToggleMode
<1>16. ASSUME NEW c \in Chats, Submit(c) PROVE TypeInv'
  BY <1>16 DEF Submit, Show
<1>17. ASSUME NEW c \in Chats, Abort(c) PROVE TypeInv'
  BY <1>17 DEF Abort
<1>18. ASSUME NEW c \in Chats, NEW tool \in Tools, ToolCall(c, tool) PROVE TypeInv'
  BY <1>18 DEF ToolCall, ToolFailed, RegisterLaneViolation, Stopping
<1>19. ASSUME NEW c \in Chats, ToolEnds(c) PROVE TypeInv'
  BY <1>19 DEF ToolEnds, ToolFailed, RegisterLaneViolation
<1>20. ASSUME NEW c \in Chats, RunEnds(c) PROVE TypeInv'
  BY <1>20 DEF RunEnds
<1>21. CASE UNCHANGED vars
  BY <1>21 DEF vars
<1> QED
  BY <1>1, <1>2, <1>3, <1>4, <1>5, <1>6, <1>7, <1>8, <1>9, <1>10, <1>11, <1>12, <1>13,
     <1>14, <1>15, <1>16, <1>17, <1>18, <1>19, <1>20, <1>21 DEF Next, Continue

\* The type invariant holds for every set of openings and number of sessions.
THEOREM TypeCorrect == Spec => []TypeOK
<1>1. Spec => []TypeInv
  BY TypeInit, TypeNext, PTL DEF Spec
<1>2. TypeInv => TypeOK
  BY DEF TypeInv
<1> QED
  BY <1>1, <1>2, PTL

-----------------------------------------------------------------------------
(* One side chat, and the mouse.                                           *)

\* At most one promise of ctx.ui.custom is pending or has a continuation to run.
SolePromise == \A c, d \in Chats : custom[c] # "none" /\ custom[d] # "none" => c = d

OpenIsLive == \A c \in Chats : custom[c] = "open" => Live(c)

\* Only a live overlay is hidden, and the mouse listener comes and goes with it.
MouseInv ==
  /\ \A c \in Chats : hidden[c] => Live(c)
  /\ listener <=> active # NoChat
  /\ MouseFollowsVisibility

WindowInv == SolePromise /\ OpenIsLive /\ OneSideChat /\ MouseInv

\* An opening, when no promise is left and nothing is live, makes the one overlay.
LEMMA OpenWindow ==
  ASSUME TypeInv, WindowInv, NEW ctx, NEW promises \in Promises,
         \A d \in Chats : promises[d] = "none",
         active = NoChat, OpenSideChat(ctx, promises)
  PROVE  WindowInv'
<1> USE SideChatAssumption
    DEF TypeInv, TypeOK, mouse, Promises, SolePromise, OpenIsLive, OneSideChat, Live
<1>1. PICK c \in Chats :
        \/ \E outcome \in {"blocked", "failed"} :
             /\ custom' = [promises EXCEPT ![c] = outcome]
             /\ UNCHANGED <<active, mouse, phase>>
        \/ /\ custom' = [promises EXCEPT ![c] = "open"]
           /\ phase' = [phase EXCEPT ![c] = "made"]
           /\ active' = c /\ InstallMouse
  BY DEF OpenSideChat
<1>2. /\ UNCHANGED <<handle, hidden>>
      /\ handle = NoChat
      /\ \A d \in Chats : ~Live(d)
  BY DEF OpenSideChat, WindowInv
<1>3. SolePromise' /\ OpenIsLive' /\ OneSideChat'
  <2>1. CASE \E outcome \in {"blocked", "failed"} :
               /\ custom' = [promises EXCEPT ![c] = outcome]
               /\ UNCHANGED <<active, mouse, phase>>
    BY <1>2, <2>1
  <2>2. CASE /\ custom' = [promises EXCEPT ![c] = "open"]
             /\ phase' = [phase EXCEPT ![c] = "made"]
             /\ active' = c
    BY <1>2, <2>2
  <2> QED
    BY <1>1, <2>1, <2>2
<1>4. MouseInv'
  <2>1. /\ \A d \in Chats : ~hidden[d]
        /\ listener = FALSE /\ reporting = FALSE
    BY <1>2 DEF WindowInv, MouseInv, MouseFollowsVisibility
  <2>2. CASE UNCHANGED <<active, mouse, phase>>
    BY <1>2, <2>1, <2>2 DEF MouseInv, MouseFollowsVisibility
  <2>3. CASE active' = c /\ InstallMouse
    BY <1>2, <2>1, <2>3 DEF MouseInv, MouseFollowsVisibility, InstallMouse
  <2> QED
    BY <1>1, <2>2, <2>3
<1> QED
  BY <1>3, <1>4 DEF WindowInv

\* Closing the live overlay leaves none.
LEMMA DisposeWindow ==
  ASSUME TypeInv, WindowInv, NEW c \in Chats, NEW how, Live(c), Dispose(c, how),
         custom' \in Promises, custom'[c] # "open",
         \A d \in Chats \ {c} : custom'[d] = custom[d]
  PROVE  /\ WindowInv'
         /\ \A d \in Chats : ~Live(d)'
<1> USE SideChatAssumption DEF TypeInv, TypeOK, Promises, Dispose, OnClose
<1>1. \A d \in Chats \ {c} : ~Live(d) /\ custom[d] = "none"
  BY DEF WindowInv, OneSideChat, SolePromise
<1>2. /\ phase' = [phase EXCEPT ![c] = "none"]
      /\ \A d \in Chats : ~Live(d)'
  BY <1>1 DEF Live
<1>3. active' = NoChat /\ handle' = NoChat
  OBVIOUS
<1>4. SolePromise' /\ OpenIsLive' /\ OneSideChat'
  BY <1>1, <1>2, <1>3 DEF SolePromise, OpenIsLive, OneSideChat
<1>5. MouseInv'
  <2>1. \A d \in Chats : ~hidden'[d]
    BY <1>1 DEF WindowInv, MouseInv
  <2>2. listener' = FALSE /\ reporting' = FALSE
    OBVIOUS
  <2> QED
    BY <1>3, <2>1, <2>2 DEF MouseInv, MouseFollowsVisibility
<1> QED
  BY <1>2, <1>4, <1>5 DEF WindowInv

\* A step of the agent alone.
LEMMA AgentWindow ==
  ASSUME WindowInv, UNCHANGED <<active, handle, listener, reporting, phase, custom, hidden>>
  PROVE  WindowInv'
BY DEF WindowInv, SolePromise, OpenIsLive, OneSideChat, MouseInv, MouseFollowsVisibility, Live

LEMMA WindowInit == Init => WindowInv
BY SideChatAssumption
   DEF Init, WindowInv, SolePromise, OpenIsLive, OneSideChat, MouseInv, MouseFollowsVisibility, Live

LEMMA WindowNext == TypeInv /\ WindowInv /\ [Next]_vars => WindowInv'
<1> SUFFICES ASSUME TypeInv, WindowInv, [Next]_vars PROVE WindowInv'
  OBVIOUS
<1> USE SideChatAssumption DEF mouse, window, session, openings, agent
<1>a. custom \in Promises /\ phase \in [Chats -> {"none", "made", "mounted"}] /\ hidden \in [Chats -> BOOLEAN]
  BY DEF TypeInv, TypeOK, Promises
<1>1. CASE OpenCommand
  <2>1. active = NoChat /\ \A d \in Chats : custom[d] = "none"
    BY <1>1 DEF OpenCommand, Drained, WindowInv, OpenIsLive, OneSideChat
  <2> QED
    BY <1>1, <1>a, <2>1, OpenWindow DEF OpenCommand
<1>b. ASSUME CloseActive PROVE WindowInv'
  <2>1. CASE active = NoChat
    BY <1>b, <2>1, AgentWindow DEF CloseActive
  <2>2. CASE active # NoChat
    <3>1. active \in Chats /\ Live(active)
      BY <2>2 DEF TypeInv, TypeOK, WindowInv, OneSideChat
    <3>2. custom' = Done(active, "close") /\ Dispose(active, "resolved")
      BY <1>b, <2>2 DEF CloseActive
    <3>3. /\ custom' \in Promises /\ custom'[active] # "open"
          /\ \A d \in Chats \ {active} : custom'[d] = custom[d]
      BY <1>a, <3>1, <3>2 DEF Done, Promises
    <3> QED
      BY <3>1, <3>2, <3>3, DisposeWindow
  <2> QED
    BY <2>1, <2>2
<1>2. CASE SessionStart
  BY <1>2, <1>b DEF SessionStart
<1>3. CASE SessionShutdown
  BY <1>3, <1>b DEF SessionShutdown
<1>4. CASE ForeignOverlay
  BY <1>4, AgentWindow DEF ForeignOverlay
<1>5. ASSUME NEW c \in Chats, Mount(c) PROVE WindowInv'
  <2>1. active = c /\ phase' = [phase EXCEPT ![c] = "mounted"] /\ handle' = c
    BY <1>5 DEF Mount, WindowInv, OneSideChat, Live
  <2>2. /\ UNCHANGED <<active, custom, hidden, listener, reporting>>
        /\ \A d \in Chats : Live(d)' <=> Live(d)
    BY <1>5, <1>a, <2>1 DEF Mount, Live
  <2> QED
    BY <2>1, <2>2
    DEF WindowInv, SolePromise, OpenIsLive, OneSideChat, MouseInv, MouseFollowsVisibility
<1>6. ASSUME NEW c \in Chats, HostFails(c) PROVE WindowInv'
  <2>1. /\ custom' = [custom EXCEPT ![c] = "failed"] /\ custom[c] = "open"
        /\ UNCHANGED <<active, handle, phase, hidden, listener, reporting>>
    BY <1>6 DEF HostFails
  <2> QED
    BY <1>a, <2>1
    DEF Promises, WindowInv, SolePromise, OpenIsLive, OneSideChat, MouseInv, MouseFollowsVisibility, Live
<1>7. ASSUME NEW c \in Chats, OpenReturns(c) PROVE WindowInv'
  BY <1>7, AgentWindow DEF OpenReturns
<1>c. ASSUME NEW c \in Chats, ~Live(c), custom' = [custom EXCEPT ![c] = "none"],
             UNCHANGED <<active, handle, listener, reporting, phase, hidden>>
      PROVE  WindowInv'
  BY <1>a, <1>c
  DEF Promises, WindowInv, SolePromise, OpenIsLive, OneSideChat, MouseInv, MouseFollowsVisibility, Live
<1>8. ASSUME NEW c \in Chats, CatchFailure(c) PROVE WindowInv'
  <2>1. custom' = [custom EXCEPT ![c] = "none"]
    BY <1>8 DEF CatchFailure
  <2>2. CASE Live(c) /\ Dispose(c, "rejected")
    <3>1. /\ custom' \in Promises /\ custom'[c] # "open"
          /\ \A d \in Chats \ {c} : custom'[d] = custom[d]
      BY <1>a, <2>1 DEF Promises
    <3> QED
      BY <2>2, <3>1, DisposeWindow
  <2>3. CASE ~Live(c) /\ UNCHANGED <<active, handle, indicator, mouse, phase, hidden, agent>>
    BY <1>c, <2>1, <2>3
  <2> QED
    BY <1>8, <2>2, <2>3 DEF CatchFailure
<1>9. ASSUME NEW c \in Chats, CatchBlocked(c) PROVE WindowInv'
  <2>1. ~Live(c)
    BY <1>9 DEF CatchBlocked, WindowInv, OneSideChat
  <2> QED
    BY <1>9, <1>c, <2>1 DEF CatchBlocked
<1>10. ASSUME NEW c \in Chats, Closed(c) PROVE WindowInv'
  <2> DEFINE promises == [custom EXCEPT ![c] = "none"]
  <2>1. /\ custom[c] \in {"close", "clear"}
        /\ \/ OpenSideChat(born[c], promises)
           \/ /\ custom' = promises
              /\ UNCHANGED <<window, session, foreign, phase, born, hidden, agent>>
    BY <1>10 DEF Closed
  <2>2. ~Live(c) /\ \A d \in Chats : d # c => custom[d] = "none" /\ ~Live(d)
    BY <2>1 DEF WindowInv, SolePromise, OneSideChat
  <2>3. CASE OpenSideChat(born[c], promises)
    <3>1. active = NoChat
      BY <2>2 DEF WindowInv, OneSideChat, TypeInv, TypeOK
    <3>2. promises \in Promises /\ \A d \in Chats : promises[d] = "none"
      BY <1>a, <2>2 DEF Promises
    <3> HIDE DEF promises
    <3> QED
      BY <2>3, <3>1, <3>2, OpenWindow
  <2>4. CASE /\ custom' = promises
             /\ UNCHANGED <<window, session, foreign, phase, born, hidden, agent>>
    BY <1>c, <2>2, <2>4
  <2> QED
    BY <2>1, <2>3, <2>4
<1>11. ASSUME NEW c \in Chats, TurnOver(c) PROVE WindowInv'
  BY <1>11, AgentWindow DEF TurnOver
<1>d. ASSUME NEW c \in Chats, handle = c, UNCHANGED <<active, handle, listener, phase, custom>>
      PROVE  /\ active = c /\ Live(c) /\ c # NoChat
             /\ SolePromise' /\ OpenIsLive' /\ OneSideChat'
  BY <1>d DEF WindowInv, SolePromise, OpenIsLive, OneSideChat, Live
<1>12. ASSUME NEW c \in Chats, Background(c) PROVE WindowInv'
  <2>1. /\ handle = c /\ hidden' = [hidden EXCEPT ![c] = TRUE] /\ reporting' = FALSE
        /\ UNCHANGED <<active, handle, listener, phase, custom>>
    BY <1>12 DEF Background, Hide
  <2>2. MouseInv'
    BY <1>a, <1>d, <2>1 DEF WindowInv, MouseInv, MouseFollowsVisibility, Live
  <2> QED
    BY <1>d, <2>1, <2>2 DEF WindowInv
<1>13. ASSUME NEW c \in Chats, Restore(c) PROVE WindowInv'
  <2>1. /\ handle = c /\ hidden' = [hidden EXCEPT ![c] = FALSE] /\ reporting' = TRUE
        /\ UNCHANGED <<active, handle, listener, phase, custom>>
    BY <1>13 DEF Restore, Unhide
  <2>2. MouseInv'
    BY <1>a, <1>d, <2>1 DEF WindowInv, MouseInv, MouseFollowsVisibility, Live
  <2> QED
    BY <1>d, <2>1, <2>2 DEF WindowInv
<1>14. ASSUME NEW c \in Chats, Clear(c) PROVE WindowInv'
  <2>1. handle = c /\ custom' = Done(c, "clear") /\ Dispose(c, "resolved")
    BY <1>14 DEF Clear, HasKeys
  <2>2. Live(c)
    BY <2>1 DEF WindowInv, OneSideChat
  <2>3. /\ custom' \in Promises /\ custom'[c] # "open"
        /\ \A d \in Chats \ {c} : custom'[d] = custom[d]
    BY <1>a, <2>1 DEF Done, Promises
  <2> QED
    BY <2>1, <2>2, <2>3, DisposeWindow
<1>15. ASSUME NEW c \in Chats, ToggleMode(c) PROVE WindowInv'
  BY <1>15, AgentWindow DEF ToggleMode
<1>16. ASSUME NEW c \in Chats, Submit(c) PROVE WindowInv'
  BY <1>16, AgentWindow DEF Submit
<1>17. ASSUME NEW c \in Chats, Abort(c) PROVE WindowInv'
  BY <1>17, AgentWindow DEF Abort
<1>18. ASSUME NEW c \in Chats, NEW tool \in Tools, ToolCall(c, tool) PROVE WindowInv'
  BY <1>18, AgentWindow DEF ToolCall
<1>19. ASSUME NEW c \in Chats, ToolEnds(c) PROVE WindowInv'
  BY <1>19, AgentWindow DEF ToolEnds
<1>20. ASSUME NEW c \in Chats, RunEnds(c) PROVE WindowInv'
  BY <1>20, AgentWindow DEF RunEnds
<1>21. CASE UNCHANGED vars
  BY <1>21, AgentWindow DEF vars
<1> QED
  BY <1>1, <1>2, <1>3, <1>4, <1>5, <1>6, <1>7, <1>8, <1>9, <1>10, <1>11, <1>12, <1>13,
     <1>14, <1>15, <1>16, <1>17, <1>18, <1>19, <1>20, <1>21 DEF Next, Continue

LEMMA WindowInvariant == Spec => [](TypeInv /\ WindowInv)
<1>1. Init => TypeInv /\ WindowInv
  BY TypeInit, WindowInit
<1>2. TypeInv /\ WindowInv /\ [Next]_vars => (TypeInv /\ WindowInv)'
  BY TypeNext, WindowNext
<1> QED
  BY <1>1, <1>2, PTL DEF Spec

\* There is one side chat, and commands and session events reach it.
THEOREM OneSideChatAlways == Spec => []OneSideChat
<1>1. WindowInv => OneSideChat
  BY DEF WindowInv
<1> QED
  BY <1>1, WindowInvariant, PTL

\* The terminal reports the mouse exactly while the side chat is visible.
THEOREM MouseFollows == Spec => []MouseFollowsVisibility
<1>1. WindowInv => MouseFollowsVisibility
  BY DEF WindowInv, MouseInv
<1> QED
  BY <1>1, WindowInvariant, PTL
-----------------------------------------------------------------------------
(* Sessions and the badge.                                                 *)

\* No opening is of a session to come; after the shutdown all are of earlier ones.
SessionInv ==
  /\ SessionEndsChat
  /\ \A c \in Chats : born[c] <= lifecycle /\ (over => born[c] < lifecycle)

StatusInv == SessionInv /\ BadgeTellsState

\* An opening with the context of the present session.
LEMMA OpenStatus ==
  ASSUME TypeInv, StatusInv, ~over, active = NoChat,
         NEW promises, OpenSideChat(lifecycle, promises)
  PROVE  StatusInv'
<1> USE SideChatAssumption DEF TypeInv, TypeOK, session, agent
<1>1. PICK c \in Chats :
        /\ Ended(c)
        /\ born' = [born EXCEPT ![c] = lifecycle]
        /\ \/ UNCHANGED <<active, indicator, phase, run>>
           \/ /\ phase' = [phase EXCEPT ![c] = "made"]
              /\ active' = c /\ Show("idle") /\ UNCHANGED run
  BY DEF OpenSideChat
<1>2. UNCHANGED <<lifecycle, over>>
  BY DEF OpenSideChat
<1>3. SessionInv'
  BY <1>1, <1>2 DEF StatusInv, SessionInv, SessionEndsChat, Live
<1>4. BadgeTellsState'
  BY <1>1, <1>2 DEF StatusInv, BadgeTellsState, Show, Ended
<1> QED
  BY <1>3, <1>4 DEF StatusInv

\* Closing the live overlay, in a session that may end with it.
LEMMA DisposeStatus ==
  ASSUME TypeInv, WindowInv, StatusInv, NEW c \in Chats, NEW how, Live(c), Dispose(c, how),
         UNCHANGED born,
         \/ UNCHANGED <<lifecycle, over>>
         \/ lifecycle' = lifecycle + 1
  PROVE  StatusInv'
<1> USE SideChatAssumption DEF TypeInv, TypeOK
<1>1. ~over /\ \A d \in Chats \ {c} : ~Live(d)
  BY DEF StatusInv, SessionInv, SessionEndsChat, WindowInv, OneSideChat
<1>2. \A d \in Chats : ~Live(d)'
  BY <1>1 DEF Dispose, Live
<1>3. active' = NoChat /\ indicator' = "none"
  BY <1>1 DEF Dispose, OnClose, Show
<1>4. SessionInv'
  BY <1>2 DEF StatusInv, SessionInv, SessionEndsChat
<1> QED
  BY <1>3, <1>4 DEF StatusInv, BadgeTellsState

\* A step that neither opens, closes nor changes the session or the badge, and
\* leaves an idle agent idle and a busy one busy.
LEMMA QuietStatus ==
  ASSUME StatusInv, active \in Chats \cup {NoChat},
         UNCHANGED <<active, indicator, lifecycle, over, born>>,
         \A c \in Chats : Live(c)' => Live(c),
         \A c \in Chats : run'[c] = "idle" <=> run[c] = "idle"
  PROVE  StatusInv'
BY DEF StatusInv, SessionInv, SessionEndsChat, BadgeTellsState

LEMMA StatusInit == Init => StatusInv
BY SideChatAssumption DEF Init, StatusInv, SessionInv, SessionEndsChat, BadgeTellsState, Live

LEMMA StatusNext == TypeInv /\ WindowInv /\ StatusInv /\ [Next]_vars => StatusInv'
<1> SUFFICES ASSUME TypeInv, WindowInv, StatusInv, [Next]_vars PROVE StatusInv'
  OBVIOUS
<1> USE SideChatAssumption DEF mouse, window, session, openings, agent
<1>a. /\ active \in Chats \cup {NoChat} /\ lifecycle \in 0..MaxSessions
      /\ phase \in [Chats -> {"none", "made", "mounted"}]
      /\ run \in [Chats -> {"idle", "running", "aborting", "settled"}]
  BY DEF TypeInv, TypeOK
<1>1. CASE OpenCommand
  BY <1>1, OpenStatus DEF OpenCommand, Drained
<1>b. ASSUME CloseActive, lifecycle' = lifecycle + 1, ~over, UNCHANGED born
      PROVE  StatusInv'
  <2>1. CASE active = NoChat
    <3>1. \A c \in Chats : ~Live(c) /\ ~Live(c)'
      BY <1>b, <2>1 DEF CloseActive, WindowInv, OneSideChat, Live
    <3>2. SessionInv'
      BY <1>a, <1>b, <3>1 DEF TypeInv, TypeOK, StatusInv, SessionInv, SessionEndsChat
    <3> QED
      BY <1>b, <2>1, <3>2 DEF CloseActive, StatusInv, BadgeTellsState
  <2>2. CASE active # NoChat
    <3>1. active \in Chats /\ Live(active) /\ Dispose(active, "resolved")
      BY <1>a, <1>b, <2>2 DEF CloseActive, WindowInv, OneSideChat
    <3> QED
      BY <1>b, <3>1, DisposeStatus
  <2> QED
    BY <2>1, <2>2
<1>2. CASE SessionStart
  BY <1>2, <1>b DEF SessionStart
<1>3. CASE SessionShutdown
  BY <1>3, <1>b DEF SessionShutdown
<1>4. CASE ForeignOverlay
  BY <1>4, <1>a, QuietStatus DEF ForeignOverlay, Live
<1>5. ASSUME NEW c \in Chats, Mount(c) PROVE StatusInv'
  BY <1>5, <1>a, QuietStatus DEF Mount, Live
<1>6. ASSUME NEW c \in Chats, HostFails(c) PROVE StatusInv'
  BY <1>6, <1>a, QuietStatus DEF HostFails, Live
<1>7. ASSUME NEW c \in Chats, OpenReturns(c) PROVE StatusInv'
  BY <1>7, <1>a, QuietStatus DEF OpenReturns, Live
<1>8. ASSUME NEW c \in Chats, CatchFailure(c) PROVE StatusInv'
  <2>1. CASE Live(c) /\ Dispose(c, "rejected")
    BY <1>8, <2>1, DisposeStatus DEF CatchFailure
  <2>2. CASE UNCHANGED <<active, handle, indicator, mouse, phase, hidden, agent>>
    BY <1>8, <2>2, <1>a, QuietStatus DEF CatchFailure, Live
  <2> QED
    BY <1>8, <2>1, <2>2 DEF CatchFailure
<1>9. ASSUME NEW c \in Chats, CatchBlocked(c) PROVE StatusInv'
  BY <1>9, <1>a, QuietStatus DEF CatchBlocked, Live
<1>10. ASSUME NEW c \in Chats, Closed(c) PROVE StatusInv'
  <2> DEFINE promises == [custom EXCEPT ![c] = "none"]
  <2>1. CASE born[c] = lifecycle /\ OpenSideChat(born[c], promises)
    <3>1. ~over
      BY <1>a, <2>1 DEF TypeInv, TypeOK, StatusInv, SessionInv
    <3>2. active = NoChat
      BY <1>10 DEF Closed, WindowInv, OneSideChat, SolePromise, TypeInv, TypeOK
    <3>3. OpenSideChat(lifecycle, promises)
      BY <2>1
    <3> HIDE DEF promises
    <3> QED
      BY <3>1, <3>2, <3>3, OpenStatus
  <2>2. CASE UNCHANGED <<window, session, foreign, phase, born, hidden, agent>>
    BY <2>2, <1>a, QuietStatus DEF Live
  <2> QED
    BY <1>10, <2>1, <2>2 DEF Closed
<1>11. ASSUME NEW c \in Chats, TurnOver(c) PROVE StatusInv'
  <2>1. /\ run' = [run EXCEPT ![c] = "idle"]
        /\ UNCHANGED <<active, lifecycle, over, born, phase>>
    BY <1>11 DEF TurnOver
  <2>2. SessionInv'
    BY <2>1 DEF StatusInv, SessionInv, SessionEndsChat, Live
  <2>3. CASE Live(c)
    <3>1. active = c /\ ~over /\ indicator' = "idle"
      BY <1>11, <2>3 DEF TurnOver, Show, WindowInv, OneSideChat, StatusInv, SessionInv, SessionEndsChat
    <3> QED
      BY <1>a, <2>1, <2>2, <3>1 DEF StatusInv, BadgeTellsState
  <2>4. CASE ~Live(c)
    <3>1. active # c /\ UNCHANGED indicator
      BY <1>11, <2>4 DEF TurnOver, WindowInv, OneSideChat
    <3> QED
      BY <1>a, <2>1, <2>2, <3>1 DEF StatusInv, BadgeTellsState
  <2> QED
    BY <2>3, <2>4
<1>12. ASSUME NEW c \in Chats, Background(c) PROVE StatusInv'
  BY <1>12, <1>a, QuietStatus DEF Background, Live
<1>13. ASSUME NEW c \in Chats, Restore(c) PROVE StatusInv'
  BY <1>13, <1>a, QuietStatus DEF Restore, Live
<1>14. ASSUME NEW c \in Chats, Clear(c) PROVE StatusInv'
  <2>1. Live(c)
    BY <1>14 DEF Clear, HasKeys, WindowInv, OneSideChat
  <2> QED
    BY <1>14, <2>1, DisposeStatus DEF Clear
<1>15. ASSUME NEW c \in Chats, ToggleMode(c) PROVE StatusInv'
  BY <1>15, <1>a, QuietStatus DEF ToggleMode, Live
<1>16. ASSUME NEW c \in Chats, Submit(c) PROVE StatusInv'
  <2>1. /\ active = c /\ indicator' = "busy" /\ c # NoChat
        /\ run' = [run EXCEPT ![c] = "running"]
        /\ UNCHANGED <<active, lifecycle, over, born, phase>>
    BY <1>16 DEF Submit, HasKeys, Drained, Show, WindowInv, OneSideChat
  <2> QED
    BY <1>a, <2>1 DEF StatusInv, SessionInv, SessionEndsChat, BadgeTellsState, Live
<1>17. ASSUME NEW c \in Chats, Abort(c) PROVE StatusInv'
  BY <1>17, <1>a, QuietStatus DEF Abort, Live
<1>c. ASSUME NEW c \in Chats, NEW tool, ToolFailed(c, tool)
      PROVE  \A d \in Chats : run'[d] = "idle" <=> run[d] = "idle"
  BY <1>a, <1>c DEF ToolFailed, RegisterLaneViolation
<1>18. ASSUME NEW c \in Chats, NEW tool \in Tools, ToolCall(c, tool) PROVE StatusInv'
  <2>1. \A d \in Chats : run'[d] = "idle" <=> run[d] = "idle"
    BY <1>18, <1>c DEF ToolCall
  <2> QED
    BY <1>18, <1>a, <2>1, QuietStatus DEF ToolCall, Live
<1>19. ASSUME NEW c \in Chats, ToolEnds(c) PROVE StatusInv'
  <2>1. \A d \in Chats : run'[d] = "idle" <=> run[d] = "idle"
    BY <1>19, <1>c DEF ToolEnds
  <2> QED
    BY <1>19, <1>a, <2>1, QuietStatus DEF ToolEnds, Live
<1>20. ASSUME NEW c \in Chats, RunEnds(c) PROVE StatusInv'
  <2>1. \A d \in Chats : run'[d] = "idle" <=> run[d] = "idle"
    BY <1>20, <1>a DEF RunEnds
  <2> QED
    BY <1>20, <1>a, <2>1, QuietStatus DEF RunEnds, Live
<1>21. CASE UNCHANGED vars
  BY <1>21, <1>a, QuietStatus DEF vars, Live
<1> QED
  BY <1>1, <1>2, <1>3, <1>4, <1>5, <1>6, <1>7, <1>8, <1>9, <1>10, <1>11, <1>12, <1>13,
     <1>14, <1>15, <1>16, <1>17, <1>18, <1>19, <1>20, <1>21 DEF Next, Continue

LEMMA StatusInvariant == Spec => []StatusInv
<1>1. Init => TypeInv /\ WindowInv /\ StatusInv
  BY TypeInit, WindowInit, StatusInit
<1>2. TypeInv /\ WindowInv /\ StatusInv /\ [Next]_vars => (TypeInv /\ WindowInv /\ StatusInv)'
  BY TypeNext, WindowNext, StatusNext
<1> QED
  BY <1>1, <1>2, PTL DEF Spec

\* A session change or the shutdown ends the side chat of the session before,
\* and nothing reopens it.
THEOREM SessionEnds == Spec => []SessionEndsChat
<1>1. StatusInv => SessionEndsChat
  BY DEF StatusInv, SessionInv
<1> QED
  BY <1>1, StatusInvariant, PTL

\* The badge shows the state of the side chat, whatever disposed chats still do.
THEOREM BadgeIsTrue == Spec => []BadgeTellsState
<1>1. StatusInv => BadgeTellsState
  BY DEF StatusInv
<1> QED
  BY <1>1, StatusInvariant, PTL

\* The badge and the reporting of the mouse follow the side chat together.
THEOREM ScreenIsTrue == Spec => []ScreenTellsState
<1>1. BadgeTellsState /\ MouseFollowsVisibility => ScreenTellsState
  BY DEF ScreenTellsState
<1> QED
  BY <1>1, BadgeIsTrue, MouseFollows, PTL
-----------------------------------------------------------------------------
(***************************************************************************)
(* The view.  What is kept of the lines is right for the width it was made *)
(* for, whatever the width is by then, and nothing is kept for width 0.    *)
(***************************************************************************)

Kinds == {"forked", "framing", "user", "answer", "calls", "result"}

CacheInv ==
    /\ said \in Seq(Kinds) /\ listed \in 0..Len(said)
    /\ \A i \in DOMAIN cache :
            /\ i \in 1..Len(said) /\ cachedWidth # Tiny
            /\ cache[i] = Wrapped(said[i], quiet, cachedWidth)

LEMMA SaidGrows ==
    ASSUME CacheInv, NEW kind \in Kinds, NEW next, MessageEnd(kind, next)
    PROVE  CacheInv'
<1>1. said' = Append(said, kind) /\ said' \in Seq(Kinds) /\ Len(said') = Len(said) + 1
  BY DEF CacheInv, MessageEnd
<1>2. \A i \in 1..Len(said) : said'[i] = said[i]
  BY <1>1 DEF CacheInv
<1>3. listed' \in 0..Len(said')
  BY <1>1 DEF CacheInv, MessageEnd, SetMessages
<1>4. UNCHANGED <<cache, cachedWidth, quiet>>
  BY DEF MessageEnd, caches
<1> QED
  BY <1>1, <1>2, <1>3, <1>4 DEF CacheInv

\* Drawing keeps what it wrapped, for the width it drew for.
LEMMA CacheIsMade ==
    ASSUME CacheInv, width # Tiny, NEW streams, DrawMessages(streams), UNCHANGED <<said, listed, quiet>>
    PROVE  CacheInv'
<1>1. cache' = Refreshed /\ cachedWidth' = width
  BY DEF DrawMessages
<1>2. DOMAIN Refreshed = 1..listed
  BY DEF Refreshed
<1>3. ASSUME NEW i \in 1..listed PROVE Refreshed[i] = Wrapped(said[i], quiet, width)
  <2>1. i \in DOMAIN Kept => Kept[i] = Wrapped(said[i], quiet, width)
    BY DEF Kept, CacheInv
  <2> QED
    BY <2>1 DEF Refreshed
<1> QED
  BY <1>1, <1>2, <1>3 DEF CacheInv

LEMMA CacheStep == CacheInv /\ [ChatNext]_chatVars => CacheInv'
<1> SUFFICES ASSUME CacheInv, [ChatNext]_chatVars PROVE CacheInv'
  OBVIOUS
<1>1. ASSUME Speaks PROVE CacheInv'
  <2>1. ASSUME Ask \/ SpinnerTick \/ \E text \in BOOLEAN : Streams(text) PROVE CacheInv'
    BY <2>1 DEF Ask, SpinnerTick, Streams, agentVars, caches, CacheInv
  <2>2. ASSUME UserSaid \/ Answers PROVE CacheInv'
    BY <2>2, SaidGrows DEF UserSaid, Answers, Kinds
  <2>3. ASSUME TurnEnd PROVE CacheInv'
    <3>1. listed' = Len(said) /\ UNCHANGED <<said, quiet, cache, cachedWidth>>
      BY <2>3 DEF TurnEnd, SetMessages, caches
    <3> QED
      BY <3>1 DEF CacheInv
  <2> QED
    BY <1>1, <2>1, <2>2, <2>3 DEF Speaks
<1>2. ASSUME Works PROVE CacheInv'
  <2>1. ASSUME CallsTools \/ ToolResult PROVE CacheInv'
    BY <2>1, SaidGrows DEF CallsTools, ToolResult, Kinds
  <2>2. ASSUME ToolStart \/ ToolEnd PROVE CacheInv'
    BY <2>2 DEF ToolStart, ToolEnd, caches, CacheInv
  <2> QED
    BY <1>2, <2>1, <2>2 DEF Works
<1>3. ASSUME Render PROVE CacheInv'
  <2>1. UNCHANGED <<said, listed, quiet>>
    BY <1>3 DEF Render, agentVars
  <2>2. CASE width = Tiny \/ help \/ height = 0
    BY <1>3, <2>1, <2>2 DEF Render, NoteHeight, caches, CacheInv
  <2>3. CASE ~(width = Tiny \/ help \/ height = 0)
    BY <1>3, <2>1, <2>3, CacheIsMade DEF Render
  <2> QED
    BY <2>2, <2>3
<1>4. ASSUME Mouse PROVE CacheInv'
  BY <1>4 DEF Mouse, PressElsewhere, Press, Drag, Release, agentVars, caches, CacheInv
<1>5. ASSUME Reading PROVE CacheInv'
  BY <1>5 DEF Reading, Scroll, Jump, ChangeLayout, Resize, Invalidate, agentVars, caches, CacheInv
<1>6. ASSUME Keys PROVE CacheInv'
  <2>1. ASSUME SetQuiet PROVE CacheInv'
    BY <2>1 DEF SetQuiet, Invalidate, agentVars, CacheInv
  <2>2. ASSUME OpenHelp \/ CloseHelp \/ Copy \/ CopyClears \/ CloseChat PROVE CacheInv'
    BY <2>2 DEF OpenHelp, CloseHelp, Copy, CopyClears, CloseChat, agentVars, caches, CacheInv
  <2>3. ASSUME NEW fails \in BOOLEAN, Copied(fails) \/ Export(fails) PROVE CacheInv'
    BY <2>3 DEF Copied, Export, agentVars, caches, CacheInv
  <2> QED
    BY <1>6, <2>1, <2>2, <2>3 DEF Keys
<1>7. CASE UNCHANGED chatVars
  BY <1>7 DEF chatVars, agentVars, caches, CacheInv
<1> QED
  BY <1>1, <1>2, <1>3, <1>4, <1>5, <1>6, <1>7 DEF ChatNext

LEMMA CacheInitInv == ChatInit => CacheInv
<1> SUFFICES ASSUME ChatInit PROVE CacheInv
  OBVIOUS
<1>1. Forked + 1 \in Nat /\ Forked \in 0..(Forked + 1)
  BY ChatAssumption
<1>2. said \in [1..(Forked + 1) -> Kinds]
  BY <1>1 DEF ChatInit, Kinds
<1>3. said \in Seq(Kinds) /\ Len(said) = Forked + 1
  BY <1>1, <1>2
<1>4. cache = <<>> /\ listed = Forked
  BY DEF ChatInit
<1>5. listed \in 0..Len(said)
  BY <1>1, <1>3, <1>4
<1>6. DOMAIN cache = {}
  BY <1>4
<1> QED
  BY <1>3, <1>5, <1>6 DEF CacheInv

\* No line is drawn for a width, a message or a quiet setting of before (ensureCachedLines,
\* setQuiet, changeLayout).
THEOREM LinesAreCurrent == ChatSpec => []CacheIsCurrent
<1>1. CacheInv => CacheIsCurrent
  BY DEF CacheInv, CacheIsCurrent
<1> QED
  BY <1>1, CacheInitInv, CacheStep, PTL DEF ChatSpec

Switches == spinner \in BOOLEAN /\ disposed \in BOOLEAN /\ copyTimer \in BOOLEAN

LineInv == Switches /\ StatusIsTrue

LEMMA LineStep == LineInv /\ [ChatNext]_chatVars => LineInv'
<1> SUFFICES ASSUME LineInv, [ChatNext]_chatVars PROVE LineInv'
  OBVIOUS
<1>1. ASSUME Speaks PROVE LineInv'
  <2>1. ASSUME Ask PROVE LineInv'
    BY <2>1 DEF Ask, StartSpinner, LineInv, Switches, StatusIsTrue
  <2>4. ASSUME TurnEnd PROVE LineInv'
    BY <2>4 DEF TurnEnd, LineInv, Switches, StatusIsTrue
  <2>5. ASSUME SpinnerTick PROVE LineInv'
    BY <2>5 DEF SpinnerTick, timers, agentVars, LineInv, Switches, StatusIsTrue
  <2>2. ASSUME NEW kind, NEW next \in {"waiting", "ending", "called"}, turn # "tool", MessageEnd(kind, next) PROVE LineInv'
    BY <2>2 DEF MessageEnd, timers, LineInv, Switches, StatusIsTrue
  <2>3. ASSUME NEW text \in BOOLEAN, Streams(text) PROVE LineInv'
    BY <2>3 DEF Streams, StopSpinner, agentVars, LineInv, Switches, StatusIsTrue
  <2> QED
    BY <1>1, <2>1, <2>2, <2>3, <2>4, <2>5 DEF Speaks, UserSaid, Answers
<1>2. ASSUME Works PROVE LineInv'
  <2>1. ASSUME NEW kind, NEW next \in {"waiting", "ending", "called"}, turn # "tool", MessageEnd(kind, next) PROVE LineInv'
    BY <2>1 DEF MessageEnd, timers, LineInv, Switches, StatusIsTrue
  <2>2. ASSUME ToolStart PROVE LineInv'
    BY <2>2 DEF ToolStart, LineInv, Switches, StatusIsTrue
  <2>3. ASSUME ToolEnd PROVE LineInv'
    <3>1. turn = "tool" /\ turn' = "answered" /\ UNCHANGED <<disposed, copyTimer>>
      BY <2>3 DEF ToolEnd
    <3>2. \/ disposed /\ UNCHANGED <<spinner, status>>
          \/ spinner' = TRUE /\ status' = "working" /\ ~disposed
          \/ spinner' = FALSE /\ status' \in {"blocked", "stopped"}
      BY <2>3 DEF ToolEnd, StartSpinner
    <3>3. CASE disposed /\ UNCHANGED <<spinner, status>>
      BY <3>1, <3>3 DEF LineInv, Switches, StatusIsTrue
    <3>4. CASE spinner' = TRUE /\ status' = "working" /\ ~disposed
      BY <3>1, <3>4 DEF LineInv, Switches, StatusIsTrue
    <3>5. CASE spinner' = FALSE /\ status' \in {"blocked", "stopped"}
      BY <3>1, <3>5 DEF LineInv, Switches, StatusIsTrue
    <3> QED
      BY <3>2, <3>3, <3>4, <3>5
  <2> QED
    BY <1>2, <2>1, <2>2, <2>3 DEF Works, CallsTools, ToolResult
<1>3. ASSUME Render \/ Mouse \/ Reading PROVE LineInv'
  <2>1. UNCHANGED <<status, timers, turn, disposed>>
    BY <1>3 DEF Render, Mouse, PressElsewhere, Press, Drag, Release, Reading, Scroll, Jump, ChangeLayout, Resize, agentVars
  <2> QED
    BY <2>1 DEF timers, LineInv, Switches, StatusIsTrue
<1>4. ASSUME Keys PROVE LineInv'
  <2>1. ASSUME SetQuiet \/ OpenHelp \/ CloseHelp \/ Copy PROVE LineInv'
    <3>1. UNCHANGED <<status, spinner, copyTimer, turn, disposed>>
      BY <2>1 DEF SetQuiet, OpenHelp, CloseHelp, Copy, agentVars, timers
    <3> QED
      BY <3>1 DEF LineInv, Switches, StatusIsTrue
  <2>2. ASSUME CopyClears PROVE LineInv'
    <3>1. copyTimer' = FALSE /\ UNCHANGED <<spinner, turn, disposed>>
      BY <2>2 DEF CopyClears, agentVars
    <3>2. status' = IF status = "copied" THEN "" ELSE status
      BY <2>2 DEF CopyClears
    <3> QED
      BY <3>1, <3>2 DEF LineInv, Switches, StatusIsTrue
  <2>3. ASSUME CloseChat PROVE LineInv'
    <3>1. disposed' = TRUE /\ spinner' = FALSE /\ copyTimer' = FALSE
      BY <2>3 DEF CloseChat, StopSpinner
    <3> QED
      BY <3>1 DEF LineInv, Switches, StatusIsTrue
  <2>4. ASSUME NEW fails \in BOOLEAN, Copied(fails) PROVE LineInv'
    <3>1. UNCHANGED <<spinner, turn, disposed>>
      BY <2>4 DEF Copied, agentVars
    <3>2. \/ UNCHANGED <<status, copyTimer>>
          \/ status' = "copied" /\ copyTimer' = TRUE
      BY <2>4 DEF Copied
    <3> QED
      BY <3>1, <3>2 DEF LineInv, Switches, StatusIsTrue
  <2>5. ASSUME NEW fails \in BOOLEAN, Export(fails) PROVE LineInv'
    <3>1. UNCHANGED <<turn, disposed, copyTimer>>
      BY <2>5 DEF Export, agentVars
    <3>2. \/ UNCHANGED <<spinner, status>>
          \/ spinner' = FALSE /\ status' = "exported"
      BY <2>5 DEF Export
    <3>3. CASE UNCHANGED <<spinner, status>>
      BY <3>1, <3>3 DEF LineInv, Switches, StatusIsTrue
    <3>4. CASE spinner' = FALSE /\ status' = "exported"
      BY <3>1, <3>4 DEF LineInv, Switches, StatusIsTrue
    <3> QED
      BY <3>2, <3>3, <3>4
  <2> QED
    BY <1>4, <2>1, <2>2, <2>3, <2>4, <2>5 DEF Keys
<1>5. CASE UNCHANGED chatVars
  BY <1>5 DEF chatVars, agentVars, timers, LineInv, Switches, StatusIsTrue
<1> QED
  BY <1>1, <1>2, <1>3, <1>4, <1>5 DEF ChatNext

\* The status line, the spinner and the timer of a copy agree with the turn, whatever the
\* order of the agent's events, the ticks, the clipboard's answers and the user's keys.
THEOREM StatusLineIsTrue == ChatSpec => []StatusIsTrue
<1>1. ChatInit => LineInv
  BY DEF ChatInit, LineInv, Switches, StatusIsTrue
<1>2. LineInv => StatusIsTrue
  BY DEF LineInv
<1> QED
  BY <1>1, <1>2, LineStep, PTL DEF ChatSpec

-----------------------------------------------------------------------------
(***************************************************************************)
(* What the user reads.  The lines of the last drawing are those that the  *)
(* kept lines of its messages make, and then lines that are not of         *)
(* messages; the messages of the next drawing begin with the same ones, so *)
(* it begins with the same text.  A frozen view is as far from the end of  *)
(* the lines as its line is.                                               *)
(***************************************************************************)

\* FlattenSeq puts one sequence after the other: f[i] is what the first i of them make.
IsFlattened(f, s, n, X) ==
    /\ f \in [0..n -> Seq(X)] /\ f[0] = <<>>
    /\ \A i \in 1..n : f[i] = f[i - 1] \o s[i]

\* What FlattenSeq takes: the function that its own definition is about.
FlattenEq(g, s, n) == g = [i \in 1..n |-> IF i = 1 THEN s[i] ELSE g[i - 1] \o s[i]]

LEMMA FlattenedIs ==
    ASSUME NEW X, NEW n \in Nat, NEW s \in [1..n -> Seq(X)]
    PROVE  \E f : IsFlattened(f, s, n, X) /\ FlattenSeq(s) = f[n]
<1>1. Len(s) = n /\ s \in Seq(Seq(X))
  OBVIOUS
<1>2. \A m \in Nat : m <= n => \E g : FlattenEq(g, s, m)
  <2> DEFINE S == {m \in Nat : m <= n => \E g : FlattenEq(g, s, m)}
  <2>1. 0 \in S
    <3>1. FlattenEq(<<>>, s, 0)
      BY DEF FlattenEq
    <3> QED
      BY <3>1
  <2>2. ASSUME NEW m \in Nat, m \in S PROVE m + 1 \in S
    <3> SUFFICES ASSUME m + 1 <= n PROVE \E g : FlattenEq(g, s, m + 1)
      OBVIOUS
    <3>0. m <= n
      OBVIOUS
    <3>1. PICK g : FlattenEq(g, s, m)
      BY <2>2, <3>0
    <3> DEFINE last == IF m + 1 = 1 THEN s[1] ELSE g[m] \o s[m + 1]
               h == [i \in 1..(m + 1) |-> IF i = m + 1 THEN last ELSE g[i]]
    <3>2. \A i \in 1..(m + 1) : h[i] = IF i = 1 THEN s[i] ELSE h[i - 1] \o s[i]
      <4> TAKE i \in 1..(m + 1)
      <4>1. CASE i = m + 1 /\ m = 0
        BY <4>1
      <4>2. CASE i = m + 1 /\ m # 0
        <5>1. m \in 1..(m + 1) /\ m # m + 1 /\ m + 1 \in 1..(m + 1) /\ m + 1 # 1 /\ i - 1 = m
          BY <4>2
        <5>2. h[m] = g[m] /\ h[m + 1] = g[m] \o s[m + 1]
          BY <5>1
        <5> QED
          BY <4>2, <5>1, <5>2
      <4>3. CASE i # m + 1
        <5>1. i \in 1..m /\ h[i] = g[i]
          BY <4>3
        <5>2. i # 1 => i - 1 \in 1..(m + 1) /\ i - 1 # m + 1 /\ h[i - 1] = g[i - 1]
          BY <5>1
        <5>3. g[i] = IF i = 1 THEN s[i] ELSE g[i - 1] \o s[i]
          BY <3>1, <5>1 DEF FlattenEq
        <5> QED
          BY <5>1, <5>2, <5>3
      <4> QED
        BY <4>1, <4>2, <4>3
    <3>3. h = [i \in 1..(m + 1) |-> h[i]]
      OBVIOUS
    <3> HIDE DEF h
    <3>4. FlattenEq(h, s, m + 1)
      BY <3>2, <3>3 DEF FlattenEq
    <3> QED
      BY <3>4
  <2> HIDE DEF S
  <2>3. Nat \subseteq S
    BY <2>1, <2>2, AllNumbers
  <2> QED
    BY <2>3 DEF S
<1> DEFINE g == CHOOSE g : FlattenEq(g, s, n)
<1>3. FlattenEq(g, s, n)
  <2>1. \E h : FlattenEq(h, s, n)
    BY <1>2
  <2> QED
    BY <2>1
<1>4. n # 0 => FlattenSeq(s) = g[n]
  BY <1>1 DEF FlattenSeq, FlattenEq
<1>5. n = 0 => FlattenSeq(s) = <<>>
  BY <1>1 DEF FlattenSeq
<1> HIDE DEF g
<1>6. \A i \in 1..n : g[i] \in Seq(X)
  <2> DEFINE S == {m \in Nat : m + 1 <= n => g[m + 1] \in Seq(X)}
  <2>1. 0 \in S
    BY <1>3 DEF FlattenEq
  <2>2. ASSUME NEW m \in Nat, m \in S PROVE m + 1 \in S
    <3> SUFFICES ASSUME m + 2 <= n PROVE g[m + 2] \in Seq(X)
      BY <2>2
    <3>1. m + 2 \in 1..n /\ m + 2 # 1 /\ (m + 2) - 1 = m + 1
      OBVIOUS
    <3>2. g[m + 2] = g[m + 1] \o s[m + 2]
      BY <1>3, <3>1 DEF FlattenEq
    <3>3. g[m + 1] \in Seq(X) /\ s[m + 2] \in Seq(X)
      BY <2>2, <3>1
    <3> QED
      BY <3>2, <3>3
  <2> HIDE DEF S
  <2>3. Nat \subseteq S
    BY <2>1, <2>2, AllNumbers
  <2> TAKE i \in 1..n
  <2>4. i - 1 \in Nat /\ (i - 1) + 1 = i
    OBVIOUS
  <2>5. i - 1 \in S
    BY <2>3, <2>4
  <2>6. (i - 1) + 1 <= n
    OBVIOUS
  <2>7. g[(i - 1) + 1] \in Seq(X)
    BY <2>5, <2>6 DEF S
  <2> QED
    BY <2>4, <2>7
<1> DEFINE f == [i \in 0..n |-> IF i = 0 THEN <<>> ELSE g[i]]
<1>7. f \in [0..n -> Seq(X)] /\ f[0] = <<>>
  BY <1>6
<1>8. ASSUME NEW i \in 1..n PROVE f[i] = f[i - 1] \o s[i]
  <2>1. CASE i = 1
    <3>1. g[i] = s[i]
      BY <1>3, <2>1 DEF FlattenEq
    <3>2. s[i] \in Seq(X) /\ i - 1 = 0 /\ i # 0
      BY <2>1
    <3>3. f[i] = g[i] /\ f[i - 1] = <<>>
      BY <3>2
    <3>4. <<>> \o s[i] = s[i]
      BY <3>2
    <3> QED
      BY <3>1, <3>3, <3>4
  <2>2. CASE i # 1
    <3>1. g[i] = g[i - 1] \o s[i]
      BY <1>3, <2>2 DEF FlattenEq
    <3>2. f[i] = g[i] /\ f[i - 1] = g[i - 1]
      BY <2>2
    <3> QED
      BY <3>1, <3>2
  <2> QED
    BY <2>1, <2>2
<1>9. FlattenSeq(s) = f[n]
  BY <1>4, <1>5
<1> HIDE DEF f
<1>10. IsFlattened(f, s, n, X)
  BY <1>7, <1>8 DEF IsFlattened
<1> QED
  BY <1>9, <1>10

\* s is how t begins.
Begins(s, t) == Len(s) <= Len(t) /\ \A i \in 1..Len(s) : t[i] = s[i]

\* More sequences make a longer one, that begins in the same way.
LEMMA FlattenBegins ==
    ASSUME NEW X, NEW n \in Nat, NEW m \in Nat, n <= m,
           NEW s \in [1..n -> Seq(X)], NEW t \in [1..m -> Seq(X)], \A i \in 1..n : t[i] = s[i]
    PROVE  /\ FlattenSeq(s) \in Seq(X) /\ FlattenSeq(t) \in Seq(X)
           /\ Begins(FlattenSeq(s), FlattenSeq(t))
<1>1. PICK f : IsFlattened(f, s, n, X) /\ FlattenSeq(s) = f[n]
  BY FlattenedIs
<1>2. PICK g : IsFlattened(g, t, m, X) /\ FlattenSeq(t) = g[m]
  BY FlattenedIs
<1>3. \A i \in 0..n : f[i] \in Seq(X)
  BY <1>1 DEF IsFlattened
<1>4. \A i \in 0..m : g[i] \in Seq(X)
  BY <1>2 DEF IsFlattened
<1>5. f[n] = g[n]
  <2> DEFINE S == {k \in Nat : k <= n => f[k] = g[k]}
  <2>1. 0 \in S
    BY <1>1, <1>2 DEF IsFlattened
  <2>2. ASSUME NEW k \in Nat, k \in S PROVE k + 1 \in S
    <3> SUFFICES ASSUME k + 1 <= n PROVE f[k + 1] = g[k + 1]
      OBVIOUS
    <3>1. k + 1 \in 1..n /\ k + 1 \in 1..m /\ (k + 1) - 1 = k /\ f[k] = g[k]
      BY <2>2
    <3>2. f[k + 1] = f[k] \o s[k + 1]
      BY <1>1, <3>1 DEF IsFlattened
    <3>3. g[k + 1] = g[k] \o t[k + 1]
      BY <1>2, <3>1 DEF IsFlattened
    <3> QED
      BY <3>1, <3>2, <3>3
  <2> HIDE DEF S
  <2>3. n \in S
    BY <2>1, <2>2, AllNumbers
  <2> QED
    BY <2>3 DEF S
<1>6. Begins(g[n], g[m])
  <2> DEFINE S == {k \in Nat : n + k <= m => Begins(g[n], g[n + k])}
  <2>1. 0 \in S
    BY <1>4 DEF Begins
  <2>2. ASSUME NEW k \in Nat, k \in S PROVE k + 1 \in S
    <3> SUFFICES ASSUME n + (k + 1) <= m PROVE Begins(g[n], g[n + (k + 1)])
      OBVIOUS
    <3> DEFINE a == g[n]
               b == g[n + k]
               c == t[n + (k + 1)]
    <3>1. n + (k + 1) \in 1..m /\ n + k \in 0..m /\ n \in 0..m /\ (n + (k + 1)) - 1 = n + k
      OBVIOUS
    <3>2. Begins(a, b) /\ a \in Seq(X) /\ b \in Seq(X) /\ c \in Seq(X)
      BY <1>4, <2>2, <3>1
    <3>3. g[n + (k + 1)] = b \o c
      BY <1>2, <3>1 DEF IsFlattened
    <3> HIDE DEF a, b, c
    <3>4. Begins(a, b \o c)
      <4>1. /\ Len(a) \in Nat /\ Len(b) \in Nat /\ Len(c) \in Nat
            /\ Len(a) <= Len(b) /\ \A i \in 1..Len(a) : b[i] = a[i]
        BY <3>2 DEF Begins
      <4>2. /\ Len(b \o c) = Len(b) + Len(c)
            /\ \A i \in 1..Len(b) : (b \o c)[i] = b[i]
        BY <3>2
      <4>3. \A i \in 1..Len(a) : i \in 1..Len(b)
        BY <4>1
      <4>4. Len(a) <= Len(b \o c)
        BY <4>1, <4>2
      <4>5. \A i \in 1..Len(a) : (b \o c)[i] = a[i]
        BY <4>1, <4>2, <4>3
      <4> QED
        BY <4>4, <4>5 DEF Begins
    <3> QED
      BY <3>3, <3>4 DEF a
  <2> HIDE DEF S
  <2>3. Nat \subseteq S
    BY <2>1, <2>2, AllNumbers
  <2>4. m - n \in Nat /\ n + (m - n) = m
    OBVIOUS
  <2>5. m - n \in S /\ n + (m - n) <= m
    BY <2>3, <2>4
  <2>6. Begins(g[n], g[n + (m - n)])
    BY <2>5 DEF S
  <2> QED
    BY <2>4, <2>6
<1>7. f[n] \in Seq(X) /\ g[m] \in Seq(X)
  BY <1>3, <1>4
<1> QED
  BY <1>1, <1>2, <1>5, <1>6, <1>7

Line == Int \X Nat

ViewTypeOK ==
    /\ lines \in Seq(Line) /\ promptStarts \subseteq Nat
    /\ visible \in Nat /\ top \in Nat /\ shown \in Int
    /\ offset \in Nat /\ anchor \in Nat \cup {NoLine}
    /\ height \in Nat /\ stream \in Nat /\ pressed \in Nat
    /\ selection \subseteq [from : Int, to : Int, columns : BOOLEAN]

CacheIsList == \E k \in 0..listed : DOMAIN cache = 1..k

\* The text of messages that wrapped to so many lines each.
TextOf(counts) == Cite \o FlattenSeq([i \in DOMAIN counts |-> LinesOf(i, counts[i])])

IsTextOf(text, drawing) ==
    /\ Begins(text, drawing)
    /\ \A j \in 1..Len(drawing) : j > Len(text) => drawing[j][1] < 0

LinesAreOfCache == cachedWidth # Tiny => IsTextOf(TextOf(cache), lines)

FrozenAtAnchor == anchor # NoLine => offset = AtLeast(Total - anchor, 0)

OneSelection == \A s, t \in selection : s = t

ViewInv == ViewTypeOK /\ CacheIsList /\ LinesAreOfCache /\ FrozenAtAnchor /\ OneSelection

-----------------------------------------------------------------------------

LEMMA LinesOfIs == ASSUME NEW m \in Int, NEW n \in Nat PROVE LinesOf(m, n) \in Seq(Line)
<1>1. \A j \in 1..(n + 1) : <<m, j>> \in Line
  BY DEF Line
<1> QED
  BY <1>1 DEF LinesOf

LEMMA CiteIs == Cite \in Seq(Line)
BY LinesOfIs DEF Cite

\* The text of more messages begins with that of fewer.
LEMMA TextBegins ==
    ASSUME NEW n \in Nat, NEW m \in Nat, n <= m,
           NEW c, DOMAIN c = 1..n, NEW d, DOMAIN d = 1..m,
           \A i \in 1..n : c[i] \in Nat /\ d[i] = c[i], \A i \in 1..m : d[i] \in Nat
    PROVE  TextOf(c) \in Seq(Line) /\ TextOf(d) \in Seq(Line) /\ Begins(TextOf(c), TextOf(d))
<1> DEFINE s == [i \in 1..n |-> LinesOf(i, c[i])]
           t == [i \in 1..m |-> LinesOf(i, d[i])]
           a == FlattenSeq(s)
           b == FlattenSeq(t)
<1>1. TextOf(c) = Cite \o a /\ TextOf(d) = Cite \o b
  BY DEF TextOf
<1>2. s \in [1..n -> Seq(Line)] /\ t \in [1..m -> Seq(Line)]
  <2>1. \A i \in 1..n : LinesOf(i, c[i]) \in Seq(Line)
    <3> TAKE i \in 1..n
    <3>1. i \in Int /\ c[i] \in Nat
      OBVIOUS
    <3> QED
      BY <3>1, LinesOfIs
  <2>2. \A i \in 1..m : LinesOf(i, d[i]) \in Seq(Line)
    <3> TAKE i \in 1..m
    <3>1. i \in Int /\ d[i] \in Nat
      OBVIOUS
    <3> QED
      BY <3>1, LinesOfIs
  <2> QED
    BY <2>1, <2>2
<1>3. \A i \in 1..n : t[i] = s[i]
  OBVIOUS
<1> HIDE DEF s, t
<1>4. a \in Seq(Line) /\ b \in Seq(Line) /\ Begins(a, b)
  BY <1>2, <1>3, FlattenBegins
<1> HIDE DEF a, b
<1>5. Cite \o a \in Seq(Line) /\ Cite \o b \in Seq(Line)
  BY <1>4, CiteIs
<1>6. Begins(Cite \o a, Cite \o b)
  BY <1>4, CiteIs DEF Begins
<1> QED
  BY <1>1, <1>5, <1>6

\* A message wraps to a number of lines.
LEMMA WrappedIs == ASSUME NEW kind \in Kinds, NEW q, NEW w PROVE Wrapped(kind, q, w) \in Nat
BY DEF Kinds, Wrapped

LEMMA CountsAre ==
    ASSUME CacheInv, ViewInv
    PROVE  /\ \A i \in DOMAIN cache : cache[i] \in Nat
           /\ DOMAIN Refreshed = 1..listed /\ \A i \in 1..listed : Refreshed[i] \in Nat
           /\ cachedWidth = width => \A i \in DOMAIN cache : i \in 1..listed /\ Refreshed[i] = cache[i]
<1>1. \A i \in DOMAIN cache : cache[i] \in Nat
  <2> TAKE i \in DOMAIN cache
  <2>1. said[i] \in Kinds /\ cache[i] = Wrapped(said[i], quiet, cachedWidth)
    BY DEF CacheInv
  <2> QED
    BY <2>1, WrappedIs
<1>2. DOMAIN Refreshed = 1..listed
  BY DEF Refreshed
<1>3. ASSUME NEW i \in 1..listed PROVE Refreshed[i] \in Nat
  <2>1. said[i] \in Kinds
    BY DEF CacheInv
  <2>2. i \in DOMAIN Kept => Kept[i] \in Nat
    BY <1>1 DEF Kept
  <2> QED
    BY <2>1, <2>2, WrappedIs DEF Refreshed
<1>4. ASSUME cachedWidth = width, NEW i \in DOMAIN cache PROVE i \in 1..listed /\ Refreshed[i] = cache[i]
  <2>1. i \in 1..listed
    BY DEF ViewInv, CacheIsList, CacheInv
  <2> QED
    BY <1>4, <2>1 DEF Refreshed, Kept
<1> QED
  BY <1>1, <1>2, <1>3, <1>4

\* A drawing is the text of the messages, and lines that are of none.
LEMMA DrawingIs ==
    ASSUME CacheInv, ViewInv
    PROVE  /\ Drawing \in Seq(Line) /\ IsTextOf(TextOf(Refreshed), Drawing)
           /\ cachedWidth = width => Begins(TextOf(cache), Drawing)
           /\ Len(Conversation) \in Nat
<1> DEFINE text == TextOf(Refreshed)
           above == text \o Unfinished
           below == StatusLines(above)
<1>1. listed \in Nat
  BY DEF CacheInv
<1>2. text \in Seq(Line)
  BY <1>1, CountsAre, TextBegins
<1>3. Unfinished \in Seq(Line) /\ \A j \in 1..Len(Unfinished) : Unfinished[j][1] < 0
  <2>1. CASE error
    BY <2>1 DEF Unfinished, Line
  <2>2. CASE ~error
    <3>1. Unfinished = [j \in 1..stream |-> <<-2, j>>] /\ stream \in Nat
      BY <2>2 DEF Unfinished, ViewInv, ViewTypeOK
    <3>2. \A j \in 1..stream : <<-2, j>> \in Line /\ <<-2, j>>[1] < 0
      BY DEF Line
    <3> QED
      BY <3>1, <3>2
  <2> QED
    BY <2>1, <2>2
<1>4. below \in Seq(Line) /\ \A j \in 1..Len(below) : below[j][1] < 0
  <2> HIDE DEF above
  <2>1. <<-3, 1>> \in Line /\ <<-3, 2>> \in Line /\ <<-3, 1>>[1] < 0 /\ <<-3, 2>>[1] < 0
    BY DEF Line
  <2> QED
    <3>1. below \in {<<>>, <<<<-3, 2>>>>, <<<<-3, 1>>, <<-3, 2>>>>}
      BY DEF StatusLines
    <3>2. <<<<-3, 2>>>> \in Seq(Line) /\ <<<<-3, 1>>, <<-3, 2>>>> \in Seq(Line) /\ <<>> \in Seq(Line)
      BY <2>1
    <3>3. \A b \in {<<>>, <<<<-3, 2>>>>, <<<<-3, 1>>, <<-3, 2>>>>} : \A j \in 1..Len(b) : b[j][1] < 0
      BY <2>1
    <3> HIDE DEF below
    <3> QED
      BY <3>1, <3>2, <3>3
<1>5. Conversation = text
  BY CountsAre DEF Conversation, TextOf
<1>6. Drawing = above \o below
  BY <1>5 DEF Drawing
<1> HIDE DEF text, below
<1>7. above \o below \in Seq(Line) /\ IsTextOf(text, above \o below)
  <2> DEFINE u == Unfinished
  <2>1. text \in Seq(Line) /\ u \in Seq(Line) /\ below \in Seq(Line)
    BY <1>2, <1>3, <1>4
  <2>2. \A j \in 1..Len(u) : u[j][1] < 0
    BY <1>3
  <2>3. \A j \in 1..Len(below) : below[j][1] < 0
    BY <1>4
  <2> HIDE DEF u
  <2> DEFINE whole == text \o u \o below
  <2>4. whole \in Seq(Line) /\ Len(whole) = Len(text) + Len(u) + Len(below)
    BY <2>1
  <2>5. ASSUME NEW j \in 1..Len(whole)
        PROVE  whole[j] = IF j <= Len(text) THEN text[j]
                          ELSE IF j <= Len(text) + Len(u) THEN u[j - Len(text)] ELSE below[j - Len(text) - Len(u)]
    BY <2>1
  <2> HIDE DEF whole
  <2>6. Begins(text, whole)
    BY <2>1, <2>4, <2>5 DEF Begins
  <2>7. ASSUME NEW j \in 1..Len(whole), j > Len(text) PROVE whole[j][1] < 0
    <3>1. CASE j <= Len(text) + Len(u)
      <4>1. j - Len(text) \in 1..Len(u)
        BY <2>1, <2>7, <3>1
      <4> QED
        BY <2>1, <2>2, <2>5, <2>7, <3>1, <4>1
    <3>2. CASE j > Len(text) + Len(u)
      <4>1. j - Len(text) - Len(u) \in 1..Len(below)
        BY <2>1, <2>4, <2>7, <3>2
      <4>2. whole[j] = below[j - Len(text) - Len(u)]
        BY <2>1, <2>5, <2>7, <3>2
      <4> QED
        BY <2>3, <4>1, <4>2
    <3> QED
      BY <2>1, <3>1, <3>2
  <2> QED
    BY <2>4, <2>6, <2>7 DEF IsTextOf, whole, u
<1>8. ASSUME cachedWidth = width PROVE Begins(TextOf(cache), Drawing)
  <2>1. PICK k \in 0..listed : DOMAIN cache = 1..k
    BY DEF ViewInv, CacheIsList
  <2>2. TextOf(cache) \in Seq(Line) /\ Begins(TextOf(cache), text)
    <3>1. /\ k \in Nat /\ k <= listed /\ DOMAIN Refreshed = 1..listed
          /\ \A i \in 1..k : cache[i] \in Nat /\ Refreshed[i] = cache[i]
          /\ \A i \in 1..listed : Refreshed[i] \in Nat
      BY <1>1, <1>8, <2>1, CountsAre
    <3> QED
      BY <1>1, <2>1, <3>1, TextBegins DEF text
  <2>3. Begins(text, Drawing)
    BY <1>6, <1>7 DEF IsTextOf
  <2> QED
    BY <1>2, <2>2, <2>3 DEF Begins
<1>9. Len(Conversation) \in Nat
  BY <1>2, <1>5
<1> QED
  BY <1>6, <1>7, <1>8, <1>9 DEF text

-----------------------------------------------------------------------------

LEMMA SizesAre ==
    ASSUME ViewInv
    PROVE  /\ Total \in Nat /\ visible \in Nat /\ top \in Nat /\ shown \in Int /\ offset \in Nat
           /\ anchor \in Nat \cup {NoLine} /\ height \in Nat /\ pressed \in Nat
BY DEF ViewInv, ViewTypeOK, Total

\* Steps that leave the drawing, go to the bottom or to the anchor, and drop a selection.
LEMMA ViewStays ==
    ASSUME CacheInv, ViewInv, UNCHANGED frame, height' \in Nat, stream' \in Nat, pressed' \in Nat,
           selection' \in {selection, {}}, listed' \in Nat, listed <= listed',
           \/ UNCHANGED scroll
           \/ offset' = 0 /\ anchor' = NoLine
           \/ offset' = (IF anchor = NoLine THEN 0 ELSE AtLeast(Total - anchor, 0)) /\ anchor' = anchor,
           \/ UNCHANGED caches
           \/ Invalidate
    PROVE  ViewInv'
<1>1. UNCHANGED <<lines, promptStarts, visible, top, shown>> /\ Total' = Total /\ Total \in Nat
  BY SizesAre DEF frame, Total
<1>2. ViewTypeOK'
  BY <1>1, SizesAre DEF ViewInv, ViewTypeOK, scroll, AtLeast, NoLine
<1>3. CacheIsList'
  <2>1. CASE UNCHANGED caches
    <3>1. PICK k \in 0..listed : DOMAIN cache = 1..k
      BY DEF ViewInv, CacheIsList
    <3>2. k \in 0..listed' /\ cache' = cache
      BY <2>1 DEF CacheInv, caches
    <3> QED
      BY <3>1, <3>2 DEF CacheIsList
  <2>2. CASE Invalidate
    <3>1. DOMAIN cache' = 1..0 /\ 0 \in 0..listed'
      BY <2>2 DEF Invalidate
    <3> QED
      BY <3>1 DEF CacheIsList
  <2> QED
    BY <2>1, <2>2
<1>4. LinesAreOfCache'
  <2>1. CASE UNCHANGED caches
    <3>1. UNCHANGED <<cache, cachedWidth>>
      BY <2>1 DEF caches
    <3> QED
      BY <1>1, <3>1 DEF ViewInv, LinesAreOfCache, TextOf, IsTextOf, Begins
  <2>2. CASE Invalidate
    BY <2>2 DEF Invalidate, LinesAreOfCache, Tiny
  <2> QED
    BY <2>1, <2>2
<1>5. FrozenAtAnchor'
  BY <1>1 DEF ViewInv, FrozenAtAnchor, scroll
<1>6. OneSelection'
  BY DEF ViewInv, OneSelection
<1> QED
  BY <1>2, <1>3, <1>4, <1>5, <1>6 DEF ViewInv

\* A selection is clamped to what is drawn.
LEMMA ViewSelects ==
    ASSUME CacheInv, ViewInv, UNCHANGED <<frame, scroll, caches, height, stream, listed>>, pressed' \in Nat,
           \/ selection' \in {selection, {}}
           \/ \E from \in Int, to \in Int, columns \in BOOLEAN : Select(from, to, columns)
    PROVE  ViewInv'
<1>1. listed \in Nat /\ stream \in Nat /\ height \in Nat
  BY DEF CacheInv, ViewInv, ViewTypeOK
<1>2. CASE selection' \in {selection, {}}
  BY <1>1, <1>2, ViewStays
<1>3. ASSUME NEW from \in Int, NEW to \in Int, NEW columns \in BOOLEAN, Select(from, to, columns) PROVE ViewInv'
  <2>1. UNCHANGED <<lines, promptStarts, visible, top, shown, offset, anchor, cache, cachedWidth, height, stream, listed>>
    BY DEF frame, scroll, caches
  <2>2. Clamp(from) \in Int /\ Clamp(to) \in Int
    BY SizesAre DEF Clamp, AtLeast, AtMost
  <2>3. selection' \subseteq [from : Int, to : Int, columns : BOOLEAN] /\ OneSelection'
    BY <1>3, <2>2 DEF Select, OneSelection
  <2>4. ViewTypeOK'
    BY <2>1, <2>3 DEF ViewInv, ViewTypeOK
  <2>5. CacheIsList' /\ FrozenAtAnchor'
    BY <2>1 DEF ViewInv, CacheIsList, FrozenAtAnchor, Total
  <2>6. LinesAreOfCache'
    BY <2>1 DEF ViewInv, LinesAreOfCache, TextOf, IsTextOf, Begins
  <2> QED
    BY <2>3, <2>4, <2>5, <2>6 DEF ViewInv
<1> QED
  BY <1>2, <1>3

\* A drawing of the messages: where it begins, and what it keeps selected.
LEMMA ViewDraws ==
    ASSUME CacheInv, ViewInv, width # Tiny, NEW streams \in BOOLEAN, DrawMessages(streams),
           UNCHANGED <<anchor, height, stream, pressed, listed>>
    PROVE  ViewInv'
<1> DEFINE drawing == Drawing
           room == AtLeast(height, 1)
           up == IF anchor = NoLine THEN AtMost(offset, AtLeast(Total - room, 0)) ELSE AtLeast(Len(drawing) - anchor, 0)
           first == AtLeast(Len(drawing) - room - up, 0)
<1>1. drawing \in Seq(Line) /\ IsTextOf(TextOf(Refreshed), drawing) /\ Len(Conversation) \in Nat
  BY DrawingIs
<1>2. /\ lines' = drawing /\ visible' = room /\ cache' = Refreshed /\ cachedWidth' = width
      /\ promptStarts' = PromptStarts(drawing, streams)
      /\ offset' = up /\ top' = first /\ shown' = AtLeast(Len(drawing) - up, 0) - first
      /\ selection' = {s \in {Moved(s, first - top) : s \in selection} : InWindow(s, first - top, shown')}
  BY DEF DrawMessages
<1> HIDE DEF drawing
<1>3. Len(drawing) \in Nat
  BY <1>1
<1>4. room \in Nat /\ up \in Nat
  BY <1>3, SizesAre DEF AtLeast, AtMost, NoLine
<1> HIDE DEF room, up
<1>5. first \in Nat
  BY <1>3, <1>4 DEF AtLeast
<1> HIDE DEF first
<1>6. shown' \in Int
  BY <1>2, <1>3, <1>4, <1>5 DEF AtLeast
<1>7. promptStarts' \subseteq Nat
  <2>1. \A k \in DOMAIN drawing : k - 1 \in Nat
    BY <1>1
  <2> QED
    BY <1>1, <1>2, <2>1 DEF PromptStarts
<1>8. selection' \subseteq [from : Int, to : Int, columns : BOOLEAN] /\ OneSelection'
  <2>1. first - top \in Int
    BY <1>5, SizesAre
  <2>2. \A s \in selection : s \in [from : Int, to : Int, columns : BOOLEAN]
    BY DEF ViewInv, ViewTypeOK
  <2>3. \A s \in selection : Moved(s, first - top) \in [from : Int, to : Int, columns : BOOLEAN]
    <3> DEFINE delta == first - top
    <3> TAKE s \in selection
    <3>1. s \in [from : Int, to : Int, columns : BOOLEAN] /\ delta \in Int
      BY <2>1, <2>2
    <3> HIDE DEF delta
    <3>2. s.from - delta \in Int /\ s.to - delta \in Int
      BY <3>1
    <3>3. Moved(s, delta) \in [from : Int, to : Int, columns : BOOLEAN]
      BY <3>1, <3>2 DEF Moved
    <3> QED
      BY <3>3 DEF delta
  <2>4. \A t \in selection' : \E s \in selection : t = Moved(s, first - top)
    BY <1>2
  <2> QED
    BY <2>3, <2>4 DEF OneSelection, ViewInv
<1>9. ViewTypeOK'
  BY <1>1, <1>2, <1>4, <1>5, <1>6, <1>7, <1>8 DEF ViewInv, ViewTypeOK
<1>10. CacheIsList'
  <2>1. DOMAIN cache' = 1..listed' /\ listed' \in 0..listed'
    BY <1>2, CountsAre DEF CacheInv
  <2> QED
    BY <2>1 DEF CacheIsList
<1>11. LinesAreOfCache'
  <2>2. TextOf(cache)' = TextOf(Refreshed)
    BY <1>2 DEF TextOf
  <2> QED
    BY <1>1, <1>2, <2>2 DEF LinesAreOfCache, IsTextOf, Begins
<1>12. FrozenAtAnchor'
  BY <1>2 DEF FrozenAtAnchor, Total, up
<1> QED
  BY <1>8, <1>9, <1>10, <1>11, <1>12 DEF ViewInv

\* Without room for messages their drawing stays, and the view keeps to its anchor.
LEMMA ViewNotes ==
    ASSUME CacheInv, ViewInv, NoteHeight, UNCHANGED <<anchor, height, stream, pressed, listed>>
    PROVE  ViewInv'
<1>1. UNCHANGED <<lines, promptStarts, top, shown, cache, cachedWidth, selection>> /\ visible' = 1
  BY DEF NoteHeight, caches
<1>2. offset' = IF anchor = NoLine THEN AtMost(offset, AtLeast(Total - 1, 0)) ELSE AtLeast(Total - anchor, 0)
  BY DEF NoteHeight
<1>3. offset' \in Nat
  BY <1>2, SizesAre DEF AtLeast, AtMost, NoLine
<1>4. ViewTypeOK' /\ OneSelection'
  BY <1>1, <1>3 DEF ViewInv, ViewTypeOK, OneSelection
<1>5. CacheIsList' /\ LinesAreOfCache'
  BY <1>1 DEF ViewInv, CacheIsList, LinesAreOfCache, TextOf, IsTextOf, Begins
<1>6. FrozenAtAnchor'
  BY <1>1, <1>2 DEF FrozenAtAnchor, Total
<1> QED
  BY <1>4, <1>5, <1>6 DEF ViewInv

\* A view that is moved off the bottom is frozen at the line that is its last then.
LEMMA ViewMoves ==
    ASSUME CacheInv, ViewInv, UNCHANGED <<frame, caches, height, stream, listed>>, pressed' \in Nat,
           selection' = {}, offset' \in Nat, anchor' \in Nat \cup {NoLine},
           anchor' # NoLine => offset' = AtLeast(Total - anchor', 0)
    PROVE  ViewInv'
<1>1. UNCHANGED <<lines, promptStarts, visible, top, shown, cache, cachedWidth, height, stream, listed>> /\ Total' = Total
  BY DEF frame, caches, Total
<1>2. ViewTypeOK' /\ OneSelection' /\ FrozenAtAnchor'
  BY <1>1 DEF ViewInv, ViewTypeOK, OneSelection, FrozenAtAnchor
<1>3. CacheIsList' /\ LinesAreOfCache'
  BY <1>1 DEF ViewInv, CacheIsList, LinesAreOfCache, TextOf, IsTextOf, Begins
<1> QED
  BY <1>2, <1>3 DEF ViewInv

LEMMA ScrollStep == ASSUME CacheInv, ViewInv, NEW n \in Steps, Scroll(n) PROVE ViewInv'
<1> DEFINE next == AtLeast(AtMost(offset + n, AtLeast(Total - visible, 0)), 0)
<1>1. UNCHANGED <<frame, caches, height, stream, listed, pressed>> /\ selection' = {}
  BY DEF Scroll, area, pointer, tail
<1>2. pressed' \in Nat
  BY <1>1, SizesAre
<1>3. next \in Nat /\ (next = 0 \/ next <= Total)
  BY ChatAssumption, SizesAre DEF AtLeast, AtMost
<1>4. \/ UNCHANGED scroll
      \/ offset' = next /\ anchor' = IF next = 0 THEN NoLine ELSE AtLeast(Total - next, 0)
  BY DEF Scroll
<1> HIDE DEF next
<1>5. CASE UNCHANGED scroll
  <2>1. listed \in Nat /\ height' \in Nat /\ stream' \in Nat
    BY <1>1 DEF CacheInv, ViewInv, ViewTypeOK
  <2> QED
    BY <1>1, <1>2, <1>5, <2>1, ViewStays
<1>6. CASE offset' = next /\ anchor' = IF next = 0 THEN NoLine ELSE AtLeast(Total - next, 0)
  <2>1. /\ offset' \in Nat /\ anchor' \in Nat \cup {NoLine}
        /\ anchor' # NoLine => offset' = AtLeast(Total - anchor', 0)
    BY <1>3, <1>6, SizesAre DEF AtLeast, NoLine
  <2> QED
    BY <1>1, <1>2, <2>1, ViewMoves
<1> QED
  BY <1>4, <1>5, <1>6

LEMMA JumpStep == ASSUME CacheInv, ViewInv, NEW up \in BOOLEAN, Jump(up) PROVE ViewInv'
<1> DEFINE last == AtLeast(Total - visible, 0)
           first == AtLeast(last - offset, 0)
           targets == {p \in promptStarts : IF up THEN p < first ELSE p > first}
           IsNext(p) == \A q \in targets : IF up THEN q <= p ELSE p <= q
           target == CHOOSE p \in targets : IsNext(p)
           row == AtMost(target, last)
<1>1. UNCHANGED <<frame, caches, height, stream, listed>> /\ selection' = {} /\ pressed' = 0
  BY DEF Jump, area, tail, CancelMouseDrag
<1>2. IF targets = {} THEN UNCHANGED scroll
      ELSE offset' = last - row /\ anchor' = IF offset' = 0 THEN NoLine ELSE row + visible
  BY DEF Jump
<1>3. last \in Nat /\ (last = 0 \/ last = Total - visible)
  BY SizesAre DEF AtLeast
<1>4. first \in Nat
  BY <1>3, SizesAre DEF AtLeast
<1> HIDE DEF last, first
<1>5. targets \in SUBSET Nat
  BY DEF ViewInv, ViewTypeOK
<1>6. CASE targets = {}
  <2>1. listed \in Nat /\ height' \in Nat /\ stream' \in Nat
    BY <1>1 DEF CacheInv, ViewInv, ViewTypeOK
  <2> QED
    BY <1>1, <1>2, <1>6, <2>1, ViewStays
<1>7. CASE targets # {}
  <2>1. \E p \in targets : IsNext(p)
    <3>1. CASE up
      <4>1. \A q \in targets : q < first
        BY <3>1
      <4> DEFINE left == {first - q : q \in targets}
      <4>2. left \in SUBSET Nat /\ left # {}
        <5>1. \A q \in targets : first - q \in Nat
          BY <1>4, <1>5, <4>1
        <5> QED
          BY <1>7, <5>1
      <4>3. PICK m \in left : \A i \in left : m <= i
        BY <4>2, LeastOf
      <4>4. PICK p \in targets : m = first - p
        OBVIOUS
      <4>5. \A q \in targets : q <= p
        <5> TAKE q \in targets
        <5>1. first - p <= first - q
          BY <4>3, <4>4
        <5> QED
          BY <1>4, <1>5, <5>1
      <4> QED
        BY <3>1, <4>5
    <3>2. CASE ~up
      <4>1. PICK p \in targets : \A q \in targets : p <= q
        BY <1>5, <1>7, LeastOf
      <4> QED
        BY <3>2, <4>1
    <3> QED
      BY <3>1, <3>2
  <2>2. target \in targets
    BY <2>1
  <2>3. target \in Nat
    BY <1>5, <2>2
  <2> HIDE DEF target, targets
  <2>4. row \in Nat /\ row <= last
    BY <1>3, <2>3 DEF AtMost
  <2> HIDE DEF row
  <2>5. offset' = last - row /\ anchor' = IF offset' = 0 THEN NoLine ELSE row + visible
    BY <1>2, <1>7
  <2>6. offset' \in Nat /\ anchor' \in Nat \cup {NoLine}
    BY <1>3, <2>4, <2>5, SizesAre
  <2>7. anchor' # NoLine => offset' = AtLeast(Total - anchor', 0)
    BY <1>3, <2>4, <2>5, SizesAre DEF AtLeast, NoLine
  <2> QED
    BY <1>1, <2>6, <2>7, ViewMoves
<1> QED
  BY <1>6, <1>7

LEMMA ViewStep == CacheInv /\ ViewInv /\ [ChatNext]_chatVars => ViewInv'
<1> SUFFICES ASSUME CacheInv, ViewInv, [ChatNext]_chatVars PROVE ViewInv'
  OBVIOUS
<1>1. listed \in Nat /\ Len(said) \in Nat /\ listed <= Len(said) /\ height \in Nat /\ stream \in Nat /\ pressed \in Nat
  BY DEF CacheInv, ViewInv, ViewTypeOK
<1>2. ASSUME UNCHANGED <<frame, scroll, caches, listed, height>>,
             stream' \in {stream, 0, stream + 1}, pressed' \in {pressed, 0}, selection' \in {selection, {}}
      PROVE  ViewInv'
  BY <1>1, <1>2, ViewStays
<1>3. ASSUME NEW messages, Len(messages) \in Nat, listed <= Len(messages), SetMessages(messages),
             UNCHANGED <<frame, caches, height, pressed>>, stream' \in {stream, 0}
      PROVE  ViewInv'
  BY <1>1, <1>3, ViewStays DEF SetMessages
<1>4. ASSUME ResumeFollowing, UNCHANGED <<frame, listed, height>>, UNCHANGED caches \/ Invalidate,
             stream' \in {stream, 0}, pressed' \in {pressed, 0}
      PROVE  ViewInv'
  BY <1>1, <1>4, ViewStays DEF ResumeFollowing
<1>5. ASSUME NEW kind, NEW next, MessageEnd(kind, next) PROVE ViewInv'
  <2>1. said' = Append(said, kind) /\ UNCHANGED <<frame, caches, height, pressed>>
    BY <1>5 DEF MessageEnd, area, pointer
  <2>2. Len(said') = Len(said) + 1
    BY <2>1 DEF CacheInv
  <2>3. CASE disposed
    BY <1>2, <1>5, <2>1, <2>3 DEF MessageEnd
  <2>4. CASE ~disposed
    <3>1. SetMessages(said') /\ stream' = 0
      BY <1>5, <2>4 DEF MessageEnd
    <3>2. Len(said') \in Nat /\ listed <= Len(said')
      BY <1>1, <2>2
    <3> QED
      BY <1>3, <2>1, <3>1, <3>2
  <2> QED
    BY <2>3, <2>4
<1>6. ASSUME Speaks PROVE ViewInv'
  <2>1. ASSUME Ask PROVE ViewInv'
    BY <1>4, <2>1 DEF Ask, area, pointer
  <2>2. ASSUME UserSaid \/ Answers PROVE ViewInv'
    BY <1>5, <2>2 DEF UserSaid, Answers
  <2>3. ASSUME NEW text \in BOOLEAN, Streams(text) PROVE ViewInv'
    BY <1>2, <2>3 DEF Streams, area, pointer
  <2>4. ASSUME TurnEnd PROVE ViewInv'
    BY <1>1, <1>3, <2>4 DEF TurnEnd, area, pointer
  <2>5. ASSUME SpinnerTick PROVE ViewInv'
    BY <1>2, <2>5 DEF SpinnerTick, tail, area, pointer
  <2> QED
    BY <1>6, <2>1, <2>2, <2>3, <2>4, <2>5 DEF Speaks
<1>7. ASSUME Works PROVE ViewInv'
  <2>1. ASSUME CallsTools \/ ToolResult PROVE ViewInv'
    BY <1>5, <2>1 DEF CallsTools, ToolResult
  <2>2. ASSUME ToolStart PROVE ViewInv'
    BY <1>2, <2>2 DEF ToolStart, tail, area, pointer
  <2>3. ASSUME ToolEnd PROVE ViewInv'
    <3>1. stream' \in {stream, 0}
      BY <2>3 DEF ToolEnd, tail
    <3>2. UNCHANGED <<frame, scroll, caches, listed, height, pressed, selection>>
      BY <2>3 DEF ToolEnd, area, pointer
    <3> QED
      BY <1>2, <3>1, <3>2
  <2> QED
    BY <1>7, <2>1, <2>2, <2>3 DEF Works
<1>8. ASSUME Render PROVE ViewInv'
  <2>1. UNCHANGED <<listed, anchor, height, stream>>
    BY <1>8 DEF Render, tail
  <2>2. CASE width = Tiny \/ help
    <3>1. selection' = {} /\ pressed' = 0 /\ UNCHANGED <<frame, caches, offset>>
      BY <1>8, <2>2 DEF Render, CancelMouseDrag
    <3> QED
      BY <1>2, <2>1, <3>1 DEF scroll
  <2>3. CASE ~(width = Tiny \/ help)
    <3>1. UNCHANGED pressed
      BY <1>8, <2>3 DEF Render, pointer
    <3>2. NoteHeight \/ \E streams \in BOOLEAN : DrawMessages(streams)
      BY <1>8, <2>3 DEF Render
    <3> QED
      BY <2>1, <2>3, <3>1, <3>2, ViewNotes, ViewDraws
  <2> QED
    BY <2>2, <2>3
<1>9. ASSUME Mouse PROVE ViewInv'
  <2>1. Anchor \in Int
    <3>1. \A s \in selection : s.from \in Int
      BY DEF ViewInv, ViewTypeOK
    <3> QED
      BY <1>1, <3>1 DEF Anchor
  <2>2. ASSUME PressElsewhere PROVE ViewInv'
    BY <1>2, <2>2 DEF PressElsewhere, CancelMouseDrag, tail, area
  <2>3. ASSUME NEW l \in 0..(visible - 1), NEW b \in BOOLEAN, Press(l, b) PROVE ViewInv'
    <3>1. l \in Int /\ l \in Nat
      BY SizesAre
    <3>2. UNCHANGED <<frame, scroll, caches, height, stream, listed>> /\ pressed' = l /\ Select(l, l, FALSE)
      BY <2>3 DEF Press, tail, area
    <3> QED
      BY <3>1, <3>2, ViewSelects
  <2>4. ASSUME NEW l \in 0..(visible - 1), NEW b \in BOOLEAN, Drag(l, b) PROVE ViewInv'
    <3>1. UNCHANGED <<frame, scroll, caches, height, stream, listed, pressed>> /\ Select(Anchor, l, b)
      BY <2>4 DEF Drag, tail, area, pointer
    <3>2. l \in Int
      OBVIOUS
    <3> QED
      BY <1>1, <2>1, <3>1, <3>2, ViewSelects
  <2>5. ASSUME NEW l \in 0..(visible - 1), NEW b \in BOOLEAN, Release(l, b) PROVE ViewInv'
    <3>1. UNCHANGED <<frame, scroll, caches, height, stream, listed>> /\ pressed' \in {pressed, 0}
      BY <2>5 DEF Release, tail, area
    <3>2. Select(l, l, b) \/ Select(Anchor, l, b) \/ selection' = {}
      BY <2>5 DEF Release
    <3>3. l \in Int /\ pressed' \in Nat
      BY <1>1, <3>1
    <3> QED
      BY <2>1, <3>1, <3>2, <3>3, ViewSelects
  <2> QED
    BY <1>9, <2>2, <2>3, <2>4, <2>5 DEF Mouse
<1>10. ASSUME Reading PROVE ViewInv'
  <2>1. ASSUME ChangeLayout PROVE ViewInv'
    <3>1. /\ UNCHANGED <<frame, scroll, listed, height, stream>> /\ Invalidate
          /\ pressed' = 0 /\ selection' = {}
      BY <2>1 DEF ChangeLayout, CancelMouseDrag, tail
    <3> QED
      BY <1>1, <3>1, ViewStays
  <2>2. ASSUME Resize PROVE ViewInv'
    <3>1. UNCHANGED <<frame, scroll, caches, listed, stream, pressed, selection>>
      BY <2>2 DEF Resize, tail, pointer
    <3>2. height' \in Nat
      BY <1>1, <2>2, ChatAssumption DEF Resize
    <3> QED
      BY <1>1, <3>1, <3>2, ViewStays
  <2> QED
    BY <1>10, <2>1, <2>2, ScrollStep, JumpStep DEF Reading
<1>11. ASSUME Keys PROVE ViewInv'
  <2>1. ASSUME SetQuiet PROVE ViewInv'
    BY <1>4, <2>1 DEF SetQuiet, CancelMouseDrag, tail, area
  <2>2. ASSUME OpenHelp \/ CloseHelp \/ Copy \/ CopyClears \/ CloseChat PROVE ViewInv'
    BY <1>2, <2>2 DEF OpenHelp, CloseHelp, Copy, CopyClears, CloseChat, CancelMouseDrag, tail, area, pointer
  <2>3. ASSUME NEW fails \in BOOLEAN, Copied(fails) \/ Export(fails) PROVE ViewInv'
    BY <1>2, <2>3 DEF Copied, Export, tail, area, pointer
  <2> QED
    BY <1>11, <2>1, <2>2, <2>3 DEF Keys
<1>12. CASE UNCHANGED chatVars
  BY <1>2, <1>12 DEF chatVars, tail, area, pointer
<1> QED
  BY <1>6, <1>7, <1>8, <1>9, <1>10, <1>11, <1>12 DEF ChatNext

\* Only a drawing of the messages changes what there is to read.
LEMMA LinesChange ==
    ASSUME [ChatNext]_chatVars, lines' # lines
    PROVE  width # Tiny /\ \E streams \in BOOLEAN : DrawMessages(streams)
<1>1. ~UNCHANGED frame
  BY DEF frame
<1>2. Render
  <2>1. ~Speaks
    BY <1>1 DEF Speaks, Ask, UserSaid, Answers, MessageEnd, Streams, TurnEnd, SpinnerTick
  <2>2. ~Works
    BY <1>1 DEF Works, CallsTools, ToolResult, MessageEnd, ToolStart, ToolEnd
  <2>3. ~Mouse
    BY <1>1 DEF Mouse, PressElsewhere, Press, Drag, Release
  <2>4. ~Reading
    BY <1>1 DEF Reading, Scroll, Jump, ChangeLayout, Resize
  <2>5. ~Keys
    BY <1>1 DEF Keys, SetQuiet, OpenHelp, CloseHelp, Copy, CopyClears, CloseChat, Copied, Export
  <2>6. ~UNCHANGED chatVars
    BY <1>1 DEF chatVars
  <2> QED
    BY <2>1, <2>2, <2>3, <2>4, <2>5, <2>6 DEF ChatNext
<1> QED
  BY <1>1, <1>2 DEF Render, NoteHeight, frame

\* For any conversation, any widths, heights and steps, and any order of what the agent
\* says, the user does and the host draws: a frozen view keeps its line at the bottom, and
\* a selection its lines, however many lines a drawing adds or takes away (scrollBy,
\* jumpToMessage, setMessages, ensureCachedLines and render).
THEOREM ReadersAreLeftAlone == ChatSpec => WhatIsReadStays
<1> DEFINE Stays ==
      lines' # lines /\ cachedWidth = width =>
         /\ anchor # NoLine /\ anchor <= Total /\ IsText(Total - offset, lines) =>
                IsText(Total' - offset', lines') /\ lines'[Total' - offset'] = lines[Total - offset]
         /\ \A s \in selection, t \in selection' :
                /\ IsText(top + s.from + 1, lines) => lines'[top' + t.from + 1] = lines[top + s.from + 1]
                /\ IsText(top + s.to + 1, lines) => lines'[top' + t.to + 1] = lines[top + s.to + 1]
<1>1. CacheInv /\ ViewInv /\ [ChatNext]_chatVars => Stays
  <2> SUFFICES ASSUME CacheInv, ViewInv, [ChatNext]_chatVars, lines' # lines, cachedWidth = width PROVE Stays
    OBVIOUS
  <2>1. width # Tiny /\ \E streams \in BOOLEAN : DrawMessages(streams)
    BY LinesChange
  <2> DEFINE drawing == Drawing
             text == TextOf(cache)
             room == AtLeast(height, 1)
             up == IF anchor = NoLine THEN AtMost(offset, AtLeast(Total - room, 0)) ELSE AtLeast(Len(drawing) - anchor, 0)
             first == AtLeast(Len(drawing) - room - up, 0)
  <2>2. /\ lines' = drawing /\ offset' = up /\ top' = first
        /\ selection' = {s \in {Moved(s, first - top) : s \in selection} : InWindow(s, first - top, shown')}
    BY <2>1 DEF DrawMessages
  <2>3. drawing \in Seq(Line) /\ Begins(text, drawing) /\ Len(drawing) \in Nat
    BY DrawingIs
  <2>4. lines \in Seq(Line) /\ IsTextOf(text, lines) /\ Total = Len(lines)
    BY <2>1 DEF ViewInv, ViewTypeOK, LinesAreOfCache, Total
  \* What was text is there, in the same place.
  <2>5. ASSUME NEW k, IsText(k, lines) PROVE k \in DOMAIN drawing /\ drawing[k] = lines[k] /\ IsText(k, drawing)
    <3>1. k \in 1..Len(lines) /\ lines[k][1] \in Int /\ ~(lines[k][1] < 0)
      BY <2>4, <2>5 DEF IsText, Line
    <3>2. k <= Len(text)
      BY <2>4, <3>1 DEF IsTextOf
    <3>3. Len(text) \in Nat
      <4>1. PICK n \in 0..listed : DOMAIN cache = 1..n
        BY DEF ViewInv, CacheIsList
      <4>2. n \in Nat
        BY DEF CacheInv
      <4> QED
        BY <4>1, <4>2, CountsAre, TextBegins
    <3>4. k \in 1..Len(text) /\ k \in 1..Len(drawing)
      BY <2>3, <3>1, <3>2, <3>3 DEF Begins
    <3>5. drawing[k] = lines[k]
      BY <2>3, <2>4, <3>4 DEF Begins, IsTextOf
    <3> QED
      BY <2>3, <2>5, <3>4, <3>5 DEF IsText
  <2> HIDE DEF drawing, text
  <2>6. ASSUME anchor # NoLine, anchor <= Total, IsText(Total - offset, lines)
        PROVE  IsText(Total' - offset', lines') /\ lines'[Total' - offset'] = lines[Total - offset]
    <3>1. Total - offset = anchor /\ anchor \in Nat
      BY <2>6, SizesAre DEF ViewInv, FrozenAtAnchor, AtLeast
    <3>2. anchor \in DOMAIN drawing /\ drawing[anchor] = lines[anchor] /\ IsText(anchor, drawing)
      BY <2>5, <2>6, <3>1
    <3>3. anchor <= Len(drawing)
      BY <2>3, <3>2
    <3>4. Total' - offset' = anchor
      BY <2>2, <2>3, <2>6, <3>1, <3>3 DEF Total, AtLeast
    <3> QED
      BY <2>2, <3>1, <3>2, <3>4
  <2>7. first \in Nat /\ top \in Nat
    <3>1. room \in Nat /\ up \in Nat
      BY <2>3, SizesAre DEF AtLeast, AtMost, NoLine
    <3> HIDE DEF room, up
    <3> QED
      BY <2>3, <3>1, SizesAre DEF AtLeast
  <2> HIDE DEF first
  <2>8. ASSUME NEW s \in selection, NEW t \in selection'
        PROVE  /\ IsText(top + s.from + 1, lines) => lines'[top' + t.from + 1] = lines[top + s.from + 1]
               /\ IsText(top + s.to + 1, lines) => lines'[top' + t.to + 1] = lines[top + s.to + 1]
    <3>1. t = Moved(s, first - top)
      BY <2>2 DEF ViewInv, OneSelection
    <3>2. s \in [from : Int, to : Int, columns : BOOLEAN]
      BY DEF ViewInv, ViewTypeOK
    <3>3. t.from = s.from - (first - top) /\ t.to = s.to - (first - top) /\ s.from \in Int /\ s.to \in Int
      BY <3>1, <3>2 DEF Moved
    <3>4. top' + t.from + 1 = top + s.from + 1 /\ top' + t.to + 1 = top + s.to + 1
      BY <2>2, <2>7, <3>3
    <3> QED
      BY <2>2, <2>5, <3>4
  <2> QED
    BY <2>6, <2>8
<1>2. ChatInit => CacheInv /\ ViewInv
  <2> SUFFICES ASSUME ChatInit PROVE ViewInv
    BY CacheInitInv
  <2>1. CacheInv
    BY CacheInitInv
  <2>2. height \in Nat /\ lines = <<>> /\ selection = {}
    BY ChatAssumption DEF ChatInit
  <2>3. ViewTypeOK /\ OneSelection
    <3>1. /\ promptStarts = {} /\ visible = 20 /\ top = 0 /\ shown = 0 /\ offset = 0 /\ anchor = NoLine
          /\ stream = 0 /\ pressed = 0
      BY DEF ChatInit
    <3>2. lines \in Seq(Line)
      BY <2>2
    <3> QED
      BY <2>2, <3>1, <3>2 DEF ViewTypeOK, OneSelection
  <2>4. DOMAIN cache = 1..0 /\ 0 \in 0..listed
    <3>1. cache = <<>> /\ listed = Forked
      BY DEF ChatInit
    <3>2. Forked \in Nat /\ DOMAIN <<>> = 1..0
      BY ChatAssumption
    <3> QED
      BY <3>1, <3>2
  <2>5. CacheIsList
    BY <2>4 DEF CacheIsList
  <2>6. LinesAreOfCache /\ FrozenAtAnchor
    BY DEF ChatInit, LinesAreOfCache, FrozenAtAnchor, Tiny
  <2> QED
    BY <2>3, <2>5, <2>6 DEF ViewInv
<1> QED
  BY <1>1, <1>2, CacheStep, ViewStep, PTL DEF ChatSpec, WhatIsReadStays

=============================================================================

----------------------------- MODULE MCSideChat -----------------------------
(***************************************************************************)
(* Small instances for TLC of the side chat: of its overlay and its turns,   *)
(* and of what one overlay shows.  A behaviour is one of either.  A reader   *)
(* scrolls, selects and changes the size while the agent speaks; a worker    *)
(* has it use tools, asks for help, copies, exports and closes, with a       *)
(* gesture less.                                                             *)
(***************************************************************************)
EXTENDS SideChat, ChatView

VARIABLE part

\* A wheel or Shift+Up/Down scrolls by three lines, a wheel in full screen by one.
ScrollSteps == {-3, 1}

BothInit == part \in {"overlay", "reader", "worker"} /\ Init /\ ChatInit

BothNext ==
    /\ UNCHANGED part
    /\ \/ part = "overlay" /\ Next /\ UNCHANGED chatVars
       \/ part = "reader" /\ (Speaks \/ Render \/ Mouse \/ Reading) /\ UNCHANGED vars
       \/ /\ part = "worker" /\ UNCHANGED vars
          /\ Speaks \/ Works \/ Render \/ Mouse \/ Keys
          /\ gestures' < MaxGestures

BothSpec ==
    /\ BothInit /\ [][BothNext]_<<part, vars, chatVars>>
    /\ Fairness

=============================================================================

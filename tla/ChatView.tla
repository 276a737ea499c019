------------------------------- MODULE ChatView -------------------------------
(***************************************************************************)
(* What the user of a side chat sees, scrolls, selects and copies while     *)
(* the agent behind it speaks: SideChatMessages (side-chat-messages.ts) and *)
(* the event handlers, timers and pointer gestures of SideChatOverlay         *)
(* (side-chat-overlay.ts).  The host draws when it wants to, so everything  *)
(* a gesture is measured against is what the last drawing left.             *)
(*                                                                          *)
(* A line is the pair of the message it comes from and its place in it;     *)
(* columns, colours and texts are left out.  The two widths differ in the   *)
(* lines an answer wraps to.  At most one copy waits for the clipboard.     *)
(*                                                                          *)
(* A definition named ...Mutant is a plausible bug in the definition that   *)
(* follows it; the specification uses none of them.                         *)
(***************************************************************************)
EXTENDS Integers, SequencesExt

CONSTANTS
    Forked,         \* messages the chat was opened with
    Heights,        \* lines the message area may have
    Steps,          \* lines a wheel or a key scrolls by, up when positive
    MaxSaid,        \* bound: messages of the agent
    MaxStream,      \* bound: lines of a message that streams
    MaxGestures     \* bound: what the user does

ASSUME ChatAssumption ==
    /\ Forked \in {0, 1} /\ Heights \subseteq Nat /\ Heights # {} /\ Steps \subseteq Int \ {0}
    /\ MaxSaid \in Nat /\ MaxStream \in Nat /\ MaxGestures \in Nat

VARIABLES
    said,           \* agent.state.messages, by kind
    turn,           \* how far a prompt is; isStreaming but for "idle"
    \* the view
    listed,         \* how many of the messages setMessages gave it
    quiet,
    error,          \* errorContent is not empty
    stream,         \* lines of streamingMessage
    status,         \* toolStatus
    cache,          \* messageCache: how many lines each message wrapped to
    cachedWidth,    \* 0 when the caches are to be built
    offset,         \* scrollOffset
    anchor,         \* frozenAnchor, or NoLine
    selection,      \* none, or one with its ends as lines of the window
    \* the view's last drawing
    lines,          \* all of it, of which a window is visible; its length is totalLines
    promptStarts,
    visible,        \* maxVisibleLines
    top,            \* lastRenderStart
    shown,          \* plainLines.length
    \* the overlay
    spinner,        \* its interval runs
    copying,        \* a copy waits for the clipboard
    copyTimer,      \* copyClearTimer is armed
    width, height,  \* of the message area when it is drawn next
    help,           \* the page of shortcuts is open
    disposed,
    hit,            \* geometry: there is a message area to hit
    dragging,
    pressed,        \* mouseAnchor, the line of the last press; 0 when nothing reads it
    clicked,        \* the next press may be the second of a double click
    double,         \* pendingDoubleClick
    gestures        \* bound: gestures so far

agentVars == <<said, turn>>
tail == <<error, stream>>
scroll == <<offset, anchor>>
frame == <<lines, promptStarts, visible, top, shown>>
caches == <<cache, cachedWidth>>
timers == <<spinner, copying, copyTimer>>
area == <<width, height, help, hit>>
pointer == <<dragging, pressed, clicked, double>>
chatVars == <<agentVars, listed, quiet, tail, status, caches, scroll, selection, frame,
              timers, area, pointer, disposed, gestures>>

NoLine == -1
Tiny == 0       \* too narrow for a frame
Narrow == 1
Wide == 2

AtLeast(a, b) == IF a < b THEN b ELSE a
AtMost(a, b) == IF a > b THEN b ELSE a

\* A prompt is what Ctrl+Up and Ctrl+Down stop at.
IsPrompt(kind) == kind \in {"user", "answer"}

\* renderMessage: how many lines a message wraps to, without the blank one after it.
Wrapped(kind, q, w) ==
    CASE kind = "user" -> 3
      [] kind = "answer" -> IF w = Narrow THEN 2 ELSE 1
      [] kind = "calls" -> IF q THEN 1 ELSE 2
      [] kind = "result" -> IF q THEN 0 ELSE 1
      [] kind \in {"forked", "framing"} -> 0

ChatInit ==
    /\ said = [i \in 1..(Forked + 1) |-> IF i > Forked THEN "framing" ELSE "forked"]
    /\ turn = "idle" /\ listed = Forked /\ quiet = TRUE
    /\ error = FALSE /\ stream = 0 /\ status = ""
    /\ cache = <<>> /\ cachedWidth = 0 /\ offset = 0 /\ anchor = NoLine /\ selection = {}
    /\ lines = <<>> /\ promptStarts = {} /\ visible = 20 /\ top = 0 /\ shown = 0
    /\ spinner = FALSE /\ copying = FALSE /\ copyTimer = FALSE
    /\ width = Wide /\ height \in Heights /\ help = FALSE /\ disposed = FALSE /\ hit = FALSE
    /\ dragging = FALSE /\ pressed = 0 /\ clicked = FALSE /\ double = FALSE
    /\ gestures = 0

-----------------------------------------------------------------------------
(* Steps that several handlers take.                                        *)

Total == Len(lines)

\* setMessages: following, the view goes to the bottom; frozen, to its line.
SetMessages(messages) ==
    /\ listed' = Len(messages) /\ selection' = {}
    /\ offset' = IF anchor = NoLine THEN 0 ELSE AtLeast(Total - anchor, 0)
    /\ UNCHANGED anchor

ResumeFollowing == offset' = 0 /\ anchor' = NoLine /\ selection' = {}

StartSpinner == spinner' = TRUE /\ status' = "working"

\* stopSpinner takes the status with it, if the spinner runs.
StopSpinner == spinner' = FALSE /\ status' = IF spinner THEN "" ELSE status

Invalidate == cache' = <<>> /\ cachedWidth' = 0

CancelMouseDrag ==
    /\ dragging' = FALSE /\ double' = FALSE /\ clicked' = FALSE /\ pressed' = 0 /\ selection' = {}

-----------------------------------------------------------------------------
(* The turn of the agent.                                                   *)

Ask ==
    /\ turn = "idle" /\ ~disposed /\ ~help /\ Len(said) + 2 <= MaxSaid
    /\ turn' = "asked" /\ error' = FALSE /\ stream' = 0
    /\ ResumeFollowing /\ StartSpinner
    /\ UNCHANGED <<said, listed, quiet, caches, frame, copying, copyTimer, area, pointer, disposed, gestures>>

\* A message has ended: the agent keeps it and says so; a disposed overlay does not listen.
MessageEnd(kind, next) ==
    /\ said' = Append(said, kind) /\ turn' = next
    /\ IF disposed THEN UNCHANGED <<listed, selection, scroll, stream>> ELSE SetMessages(said') /\ stream' = 0
    /\ UNCHANGED <<quiet, error, status, caches, frame, timers, area, pointer, disposed, gestures>>

UserSaid == turn = "asked" /\ MessageEnd("user", "waiting")

\* The answer, the last of a turn, or tool calls.
Answers == turn = "waiting" /\ MessageEnd("answer", "ending")
CallsTools == turn = "waiting" /\ Len(said) + 3 <= MaxSaid /\ MessageEnd("calls", "called")

\* The result of a call; the turn goes on unless it was aborted.
ToolResult == turn = "answered" /\ \E next \in {"waiting", "ending"} : MessageEnd("result", next)

\* message_update: the message so far, and it takes the place of an error.
Streams(text) ==
    /\ turn = "waiting" /\ stream < MaxStream /\ ~disposed
    /\ stream' = stream + 1 /\ error' = FALSE
    /\ IF text THEN StopSpinner ELSE UNCHANGED <<spinner, status>>
    /\ UNCHANGED <<agentVars, listed, quiet, caches, scroll, selection, frame, copying, copyTimer, area, pointer,
                   disposed, gestures>>

ToolStart ==
    /\ turn = "called" /\ turn' = "tool"
    /\ IF disposed THEN UNCHANGED <<spinner, status>> ELSE spinner' = FALSE /\ status' = "running"
    /\ UNCHANGED <<said, listed, quiet, tail, caches, scroll, selection, frame, copying, copyTimer, area, pointer,
                   disposed, gestures>>

\* The spinner is started, and stopped again when the call was refused: the lane's status
\* must not be overwritten by its next tick.  A second refusal stops the turn.
ToolEndMutant ==
    /\ turn = "tool" /\ turn' = "answered"
    /\ \/ StartSpinner /\ UNCHANGED tail
       \/ spinner' = FALSE /\ status' = "blocked" /\ UNCHANGED tail
       \/ spinner' = FALSE /\ status' = "stopped" /\ error' = TRUE /\ stream' = 0
    /\ UNCHANGED <<said, listed, quiet, caches, scroll, selection, frame, copying, copyTimer, area, pointer,
                   disposed, gestures>>
ToolEnd ==
    /\ turn = "tool" /\ turn' = "answered"
    /\ \/ disposed /\ UNCHANGED <<spinner, status, tail>>
       \/ ~disposed /\ StartSpinner /\ UNCHANGED tail
       \/ ~disposed /\ spinner' = FALSE /\ status' = "blocked" /\ UNCHANGED tail
       \/ ~disposed /\ spinner' = FALSE /\ status' = "stopped" /\ error' = TRUE /\ stream' = 0
    /\ UNCHANGED <<said, listed, quiet, caches, scroll, selection, frame, copying, copyTimer, area, pointer,
                   disposed, gestures>>

\* The prompt settles, at the end of a turn or with an error; the view of a disposed
\* overlay is given the messages as well.
TurnEnd ==
    /\ turn \in {"asked", "waiting", "ending"} /\ turn' = "idle"
    /\ error' = (error \/ (turn # "ending" /\ ~disposed))
    /\ stream' = 0 /\ spinner' = FALSE /\ status' = ""
    /\ SetMessages(said)
    /\ UNCHANGED <<said, quiet, caches, frame, copying, copyTimer, area, pointer, disposed, gestures>>

SpinnerTick ==
    /\ spinner /\ status' = "working"
    /\ UNCHANGED <<agentVars, listed, quiet, tail, caches, scroll, selection, frame, timers, area, pointer,
                   disposed, gestures>>

-----------------------------------------------------------------------------
(* Drawing.                                                                 *)

LinesOf(m, n) == IF n = 0 THEN <<>> ELSE [j \in 1..(n + 1) |-> <<m, j>>]

\* ensureCachedLines: what was wrapped for this width is kept.
Kept == IF cachedWidth = width THEN cache ELSE <<>>
Refreshed == [i \in 1..listed |-> IF i \in DOMAIN Kept THEN Kept[i] ELSE Wrapped(said[i], quiet, width)]

\* The injected messages are one line of context; the error or the streaming message, and
\* the status under a blank line, come after the messages.
Cite == IF Forked > 0 THEN LinesOf(0, 1) ELSE <<>>
Conversation == Cite \o FlattenSeq([i \in 1..listed |-> LinesOf(i, Refreshed[i])])
Unfinished == IF error THEN <<<<-1, 1>>>> ELSE [j \in 1..stream |-> <<-2, j>>]
StatusLines(above) == IF status = "" THEN <<>> ELSE IF above = <<>> THEN <<<<-3, 2>>>> ELSE <<<<-3, 1>>, <<-3, 2>>>>
Drawing == LET above == Conversation \o Unfinished IN above \o StatusLines(above)

\* Where prompts begin, counted from 0; a message that streams is one until it calls a tool.
PromptStarts(drawing, streams) ==
    {k - 1 : k \in {k \in DOMAIN drawing : drawing[k][2] = 1 /\ drawing[k][1] >= 1 /\ IsPrompt(said[drawing[k][1]])}}
    \cup IF streams /\ stream > 0 THEN {Len(Conversation)} ELSE {}

\* A selection moves with the window and is dropped when it leaves it.
Moved(s, delta) == [s EXCEPT !.from = @ - delta, !.to = @ - delta]
InWindow(s, delta, n) == (delta = 0 \/ (s.from >= 0 /\ s.to >= 0)) /\ s.to < n

\* setMaxVisibleLines and render: a frozen view keeps its line at the bottom of the window.
DrawMessagesMutant(streams) ==
    LET drawing == Drawing
        room == AtLeast(height, 1)
        up == IF anchor = NoLine THEN AtMost(offset, AtLeast(Total - room, 0)) ELSE offset
        first == AtLeast(Len(drawing) - room - up, 0)
    IN  /\ lines' = drawing /\ visible' = room
        /\ cache' = Refreshed /\ cachedWidth' = width
        /\ promptStarts' = PromptStarts(drawing, streams)
        /\ offset' = up /\ top' = first /\ shown' = AtLeast(Len(drawing) - up, 0) - first
        /\ selection' = {s \in {Moved(s, first - top) : s \in selection} : InWindow(s, first - top, shown')}
DrawMessages(streams) ==
    LET drawing == Drawing
        room == AtLeast(height, 1)
        up == IF anchor = NoLine THEN AtMost(offset, AtLeast(Total - room, 0)) ELSE AtLeast(Len(drawing) - anchor, 0)
        first == AtLeast(Len(drawing) - room - up, 0)
    IN  /\ lines' = drawing /\ visible' = room
        /\ cache' = Refreshed /\ cachedWidth' = width
        /\ promptStarts' = PromptStarts(drawing, streams)
        /\ offset' = up /\ top' = first /\ shown' = AtLeast(Len(drawing) - up, 0) - first
        /\ selection' = {s \in {Moved(s, first - top) : s \in selection} : InWindow(s, first - top, shown')}

\* With no room for messages only the height is noted.
NoteHeight ==
    /\ visible' = 1
    /\ offset' = IF anchor = NoLine THEN AtMost(offset, AtLeast(Total - 1, 0)) ELSE AtLeast(Total - anchor, 0)
    /\ UNCHANGED <<lines, promptStarts, top, shown, caches, selection>>

Render ==
    /\ ~disposed
    /\ IF width = Tiny \/ help
       THEN hit' = FALSE /\ CancelMouseDrag /\ UNCHANGED <<frame, caches, offset>>
       ELSE /\ hit' = (height > 0) /\ UNCHANGED pointer
            /\ IF height = 0 THEN NoteHeight ELSE \E streams \in BOOLEAN : DrawMessages(streams)
    /\ UNCHANGED <<agentVars, listed, quiet, tail, status, anchor, timers, width, height, help, disposed, gestures>>

-----------------------------------------------------------------------------
(* The user.                                                                *)

Gesture == ~disposed /\ gestures < MaxGestures /\ gestures' = gestures + 1

\* scrollBy: back at the bottom the view follows again, elsewhere it is frozen.
Scroll(n) ==
    /\ Gesture /\ ~help
    /\ LET next == AtLeast(AtMost(offset + n, AtLeast(Total - visible, 0)), 0)
       IN  IF next = offset THEN UNCHANGED scroll
           ELSE /\ offset' = next
                /\ anchor' = IF next = 0 THEN NoLine ELSE AtLeast(Total - next, 0)
    /\ selection' = {}
    /\ UNCHANGED <<agentVars, listed, quiet, tail, status, caches, frame, timers, area, pointer, disposed>>

\* jumpToMessage: the next prompt above or below the first visible line.
Jump(up) ==
    /\ Gesture /\ ~help /\ CancelMouseDrag
    /\ LET last == AtLeast(Total - visible, 0)
           first == AtLeast(last - offset, 0)
           targets == {p \in promptStarts : IF up THEN p < first ELSE p > first}
           target == CHOOSE p \in targets : \A q \in targets : IF up THEN q <= p ELSE p <= q
           row == AtMost(target, last)
       IN  IF targets = {} THEN UNCHANGED scroll
           ELSE /\ offset' = last - row
                /\ anchor' = IF offset' = 0 THEN NoLine ELSE row + visible
    /\ UNCHANGED <<agentVars, listed, quiet, tail, status, caches, frame, timers, area, disposed>>

\* setSelection clamps to what is drawn; within a line the columns may differ.
Clamp(l) == AtLeast(AtMost(l, AtLeast(shown - 1, 0)), 0)
Select(from, to, columns) ==
    selection' = {[from |-> Clamp(from), to |-> Clamp(to), columns |-> columns /\ Clamp(from) = Clamp(to)]}
HasSelection == \E s \in selection : s.from # s.to \/ s.columns

\* A press off the messages ends any selection.
PressElsewhere ==
    /\ Gesture /\ ~help /\ CancelMouseDrag
    /\ UNCHANGED <<agentVars, listed, quiet, tail, status, caches, scroll, frame, timers, area, disposed>>

\* A quick press near the last click is the second of a double click.
Press(l, quick) ==
    /\ Gesture /\ ~help /\ hit /\ ~dragging
    /\ dragging' = TRUE /\ pressed' = l /\ Select(l, l, FALSE)
    /\ double' = (quick /\ clicked /\ l - pressed \in -1..1) /\ clicked' = FALSE
    /\ UNCHANGED <<agentVars, listed, quiet, tail, status, caches, scroll, frame, timers, area, disposed>>

Anchor == IF selection = {} THEN pressed ELSE (CHOOSE s \in selection : TRUE).from

Drag(l, columns) ==
    /\ Gesture /\ ~help /\ dragging
    /\ Select(Anchor, l, columns)
    /\ UNCHANGED <<agentVars, listed, quiet, tail, status, caches, scroll, frame, timers, area, pointer, disposed>>

Release(l, columns) ==
    /\ Gesture /\ ~help /\ dragging
    /\ dragging' = FALSE /\ double' = FALSE /\ clicked' = (double \/ ~HasSelection)
    /\ IF double THEN Select(l, l, columns)
       ELSE IF HasSelection THEN Select(Anchor, l, columns) ELSE selection' = {}
    /\ pressed' = IF clicked' THEN pressed ELSE 0
    /\ UNCHANGED <<agentVars, listed, quiet, tail, status, caches, scroll, frame, timers, area, disposed>>

\* /btw-quiet, from the main session or from the chat.
SetQuietMutant ==
    /\ Gesture
    /\ quiet' = ~quiet /\ CancelMouseDrag /\ ResumeFollowing
    /\ UNCHANGED <<agentVars, listed, tail, status, caches, frame, timers, area, disposed>>
SetQuiet ==
    /\ Gesture
    /\ quiet' = ~quiet /\ CancelMouseDrag /\ ResumeFollowing /\ Invalidate
    /\ UNCHANGED <<agentVars, listed, tail, status, frame, timers, area, disposed>>

\* Ctrl+Alt and an arrow, in help too.
ChangeLayout ==
    /\ Gesture
    /\ width' \in {Narrow, Wide} \ {width} /\ hit' = FALSE /\ CancelMouseDrag /\ Invalidate
    /\ UNCHANGED <<agentVars, listed, quiet, tail, status, scroll, frame, timers, height, help, disposed>>

\* The terminal changes its size, or the draft its height.
Resize ==
    /\ Gesture
    /\ \/ width' \in {Tiny, Narrow, Wide} \ {width} /\ UNCHANGED height
       \/ height' \in Heights \ {height} /\ UNCHANGED width
    /\ UNCHANGED <<agentVars, listed, quiet, tail, status, caches, scroll, selection, frame, timers, help, hit,
                   pointer, disposed>>

OpenHelp ==
    /\ Gesture /\ ~help /\ help' = TRUE /\ CancelMouseDrag
    /\ UNCHANGED <<agentVars, listed, quiet, tail, status, caches, scroll, frame, timers, width, height, hit, disposed>>

CloseHelp ==
    /\ help /\ ~disposed /\ help' = FALSE
    /\ UNCHANGED <<agentVars, listed, quiet, tail, status, caches, scroll, selection, frame, timers, width, height,
                   hit, pointer, disposed, gestures>>

Copy ==
    /\ ~disposed /\ ~help /\ HasSelection /\ ~copying /\ copying' = TRUE
    /\ UNCHANGED <<agentVars, listed, quiet, tail, status, caches, scroll, selection, frame, spinner, copyTimer,
                   area, pointer, disposed, gestures>>

\* The clipboard answers, a disposed overlay as well.
Copied(fails) ==
    /\ copying /\ copying' = FALSE
    /\ IF fails THEN error' = TRUE /\ stream' = 0 /\ UNCHANGED <<status, copyTimer>>
                ELSE status' = "copied" /\ copyTimer' = TRUE /\ UNCHANGED tail
    /\ UNCHANGED <<agentVars, listed, quiet, caches, scroll, selection, frame, spinner, area, pointer, disposed, gestures>>

\* The feedback goes after a while, if it is still there.
CopyClears ==
    /\ copyTimer /\ copyTimer' = FALSE
    /\ status' = IF status = "copied" THEN "" ELSE status
    /\ UNCHANGED <<agentVars, listed, quiet, tail, caches, scroll, selection, frame, spinner, copying, area, pointer,
                   disposed, gestures>>

Export(fails) ==
    /\ Gesture /\ ~help
    /\ IF fails THEN error' = TRUE /\ stream' = 0 /\ UNCHANGED <<spinner, status>>
                ELSE spinner' = FALSE /\ status' = "exported" /\ UNCHANGED tail
    /\ UNCHANGED <<agentVars, listed, quiet, caches, scroll, selection, frame, copying, copyTimer, area, pointer, disposed>>

CloseChat ==
    /\ Gesture /\ disposed' = TRUE /\ help' = FALSE /\ copyTimer' = FALSE /\ StopSpinner
    /\ UNCHANGED <<agentVars, listed, quiet, tail, caches, scroll, selection, frame, copying, width, height, hit, pointer>>

Speaks ==
    \/ Ask \/ UserSaid \/ Answers \/ \E text \in BOOLEAN : Streams(text)
    \/ TurnEnd \/ SpinnerTick

Works == CallsTools \/ ToolStart \/ ToolEnd \/ ToolResult

Mouse ==
    \/ PressElsewhere
    \/ \E l \in 0..(visible - 1), b \in BOOLEAN : Press(l, b) \/ Drag(l, b) \/ Release(l, b)

Reading ==
    \/ \E n \in Steps : Scroll(n)
    \/ \E up \in BOOLEAN : Jump(up)
    \/ ChangeLayout \/ Resize

Keys ==
    \/ SetQuiet \/ OpenHelp \/ CloseHelp \/ Copy \/ CopyClears \/ CloseChat
    \/ \E fails \in BOOLEAN : Copied(fails) \/ Export(fails)

ChatNext == Speaks \/ Works \/ Render \/ Mouse \/ Reading \/ Keys

ChatSpec == ChatInit /\ [][ChatNext]_chatVars

-----------------------------------------------------------------------------
(* Properties.                                                              *)

\* What the view would reuse for the next frame is what it would wrap anew: no line is
\* drawn for a width, a message or a quiet setting of before.
CacheIsCurrent ==
    cachedWidth = width => \A i \in DOMAIN cache : i \in DOMAIN said /\ cache[i] = Wrapped(said[i], quiet, width)

\* A line of a message, which stays where it is until the messages are wrapped anew.
IsText(k, drawing) == k \in DOMAIN drawing /\ drawing[k][1] >= 0

\* What the user reads or has selected is not moved under them by what the agent says: but
\* for a gesture and a new width, the line at the bottom of a frozen window stays there,
\* and a selection that is kept has its ends in the same lines.
WhatIsReadStays ==
    [][lines' # lines /\ cachedWidth = width =>
         /\ anchor # NoLine /\ anchor <= Total /\ IsText(Total - offset, lines) =>
                IsText(Total' - offset', lines') /\ lines'[Total' - offset'] = lines[Total - offset]
         /\ \A s \in selection, t \in selection' :
                /\ IsText(top + s.from + 1, lines) => lines'[top' + t.from + 1] = lines[top + s.from + 1]
                /\ IsText(top + s.to + 1, lines) => lines'[top' + t.to + 1] = lines[top + s.to + 1]]_chatVars

\* The status line tells the truth: it says "working" only while the spinner runs, which
\* it does during a turn and not after the overlay was disposed; what replaced it is not
\* overwritten by the next tick; a tool or a blocked lane is shown during the turn only, and
\* the feedback of a copy has a timer that clears it.
StatusIsTrue ==
    /\ spinner => ~disposed /\ turn # "idle" /\ status \in {"working", "copied", ""}
    /\ ~disposed => /\ status = "working" => spinner
                    /\ status = "running" => turn = "tool"
                    /\ status \in {"blocked", "stopped"} => turn # "idle"
                    /\ status = "copied" => copyTimer

\* A view that shows the bottom follows what is said (README.md of pi-better-btw, line 91).
BottomIsFollowed == offset = 0 => anchor = NoLine

=============================================================================

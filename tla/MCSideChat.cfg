\* An overlay and its successor, and two session events; or the view of a side chat that
\* begins empty, for one turn with a tool call or two short ones.
SPECIFICATION BothSpec
CONSTANTS
  Chats = {c1, c2}
  NoChat = NoChat
  MaxSessions = 2
  Forked = 0
  Heights = {2}
  Steps <- ScrollSteps
  MaxSaid = 5
  MaxStream = 1
  MaxGestures = 3
INVARIANTS
  OneSideChat
  SessionEndsChat
  ScreenTellsState
  CacheIsCurrent
  StatusIsTrue
PROPERTIES
  RepeatStopsTurn
  WhatIsReadStays
\* The user may leave the chat alone.
CHECK_DEADLOCK FALSE

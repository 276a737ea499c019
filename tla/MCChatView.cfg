\* A side chat that begins empty, for one short turn and one scroll.
SPECIFICATION ChatSpec
CONSTANTS
  Forked = 0
  Heights = {2}
  Steps <- ScrollSteps
  MaxSaid = 4
  MaxStream = 1
  MaxGestures = 1
INVARIANT
  BottomIsFollowed
\* The user may leave the chat alone.
CHECK_DEADLOCK FALSE

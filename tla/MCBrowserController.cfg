\* Two launches, two root pages and one failure, of whatever kind. After its
\* shutdown the controller stops: tool.ts drops it.
SPECIFICATION FairSpec
CONSTANTS
  Modes = {headless, main}
  Temporary = {headless}
  MaxLaunch = 2
  MaxRoots = 2
  MaxFaults = 1
  NoMode = NoMode
  NoDaemon = NoDaemon
  NoLease = NoLease
  NoReply = NoReply
  Absent = Absent
INVARIANTS
  OnePair
PROPERTIES
  LeaseIsStable
  OperationsEnd
CHECK_DEADLOCK FALSE

\* One session file, a crash, under the fairness of the event loop.
SPECIFICATION FairSpec
CONSTANTS
  NoShell = NoShell
  Shells = {p, q}
  Sessions = {A}
  Stubborn = {q}
  Owned = {}
  MaxQueue = 2
  MaxCrashes = 1
PROPERTIES
  DeathIsReported
  ShutdownEnds

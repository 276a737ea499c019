\* A shell whose leader has exited but whose process group has not, at a shutdown.
SPECIFICATION Spec
CONSTANTS
  NoShell = NoShell
  Shells = {p, q}
  Sessions = {A}
  Stubborn = {q}
  Owned = {}
  MaxQueue = 3
  MaxCrashes = 0
PROPERTY SweepStopsTree

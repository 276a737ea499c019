\* Two shells, two session files, a queue of three, a crash: the safety properties.
SPECIFICATION Spec
CONSTANTS
  NoShell = NoShell
  Shells = {p, q}
  Sessions = {A, B}
  Stubborn = {q}
  Owned = {q}
  MaxQueue = 3
  MaxCrashes = 1
INVARIANTS
  NoUntrackedChild
  SessionOwnsItsShells
  MessageMatchesCause
PROPERTIES
  RecordOutlivesLeader
  LifecycleSpec
SYMMETRY SessionSymmetry

\* Two control connections to a browser that does not report new pages, as the
\* daemon never asks it to, and a call that fails: every control call ends, and an
\* acquire or release gives back the lock.
SPECIFICATION FairSpec
CONSTANTS
  Targets = {r, p}
  Users = {}
  Requests = {A, B}
  Controls = {c, d}
  Agents = {}
  Discovery = FALSE
  Probes = {"health"}
  MaxFaults = 1
  NoTarget = NoTarget
  NoRequest = NoRequest
  NoLease = NoLease
  Free = Free
PROPERTIES
  ControlEnds

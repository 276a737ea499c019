\* One page of the user and two others, one control connection, one agent, and
\* at most two CDP calls that fail for no reason of the daemon's. With one control
\* connection the lease cannot change while it waits for health, which then does
\* what status does, or nothing.
SPECIFICATION Spec
CONSTANTS
  Targets = {u, r, p}
  Users = {u}
  Requests = {A}
  Controls = {c}
  Agents = {a}
  Discovery = TRUE
  Probes = {"status"}
  MaxFaults = 2
  NoTarget = NoTarget
  NoRequest = NoRequest
  NoLease = NoLease
  Free = Free
INVARIANTS
  OnlyTheFamily
  SessionsOfLease
  NoStrayRoot
PROPERTIES
  ReleaseClosesTheTree
SYMMETRY TargetSymmetry

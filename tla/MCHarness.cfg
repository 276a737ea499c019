\* A named daemon, two requests that recover at the same time and three tabs; fewer
\* replacements are remembered than there can be recoveries.  Or
\* two commands that start and stop three daemons, with two pids.  Or releases of two
\* packages, one of them new, of which one breaks off.
SPECIFICATION Spec
CONSTANTS
    Tabs = {a, b, c}
    NoTab = NoTab
    TabRequests = {r1, r2}
    Named = TRUE
    MaxSessions = 4
    Capacity = 2
    Callers = {e1, e2}
    Remote = {e2}
    Daemons = {g1, g2, g3}
    Pids = {n1, n2}
    Nobody = Nobody
    Stranger = Stranger
    Packages = {p, q}
    New = {q}
    MaxVersion = 3
    MaxCommit = 3
    MaxNotes = 3
    MaxBreaks = 1
INVARIANTS
    LandsOnItsTab
    OnlyDaemonsAreStopped
    PublishedIsTagged
    RetryIsAccepted
PROPERTY TagsStay
SYMMETRY Symmetry
\* The requests come to an end and the browser may be left alone.
CHECK_DEADLOCK FALSE

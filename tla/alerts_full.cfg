\* Three calls in two processes, which may be restarted once each, about an item
\* that runs out or runs low, on a clock of a little more than a window.  Calls
\* end and the clock stops, so the system stops.
CONSTANTS
    h1 = h1
    h2 = h2
    h3 = h3
    p1 = p1
    p2 = p2
    i1 = i1
    i2 = i2
    NoJob = NoJob
    Handlers = {h1, h2, h3}
    Processes = {p1, p2}
    Items = {i1}
    Low <- MCLow
    Critical <- MCCritical
    Quantities = {0, 2, 5}
    TTL = 2
    NotifyOnEveryChange = TRUE
    MaxTime = 3
    MaxBoots = 1
SYMMETRY Symmetry
SPECIFICATION Spec
CHECK_DEADLOCK FALSE
INVARIANT TypeOK
INVARIANT OncePerWindow
INVARIANT SilenceExplained

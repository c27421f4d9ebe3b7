\* Two events and two workers; Redis in any of its states, one connection or process
\* is lost, on a clock that outlives a message.
CONSTANTS
    m1 = m1
    m2 = m2
    w1 = w1
    w2 = w2
    i1 = i1
    NoMessage = NoMessage
    NoPayload = NoPayload
    Messages = {m1, m2}
    Workers = {w1, w2}
    Items = {i1}
    Quantities = {2}
    Low <- MCLow
    Critical <- MCCritical
    Redis = {"flaky", "sound"}
    MessageTTL = 2
    DoneTTL = 2
    DedupTTL = 1
    Prefetch = 2
    MaxTime = 3
    MaxFaults = 1
SYMMETRY Symmetry
SPECIFICATION Spec
CHECK_DEADLOCK FALSE
INVARIANT TypeOK
INVARIANT AckedShortageHasAlert
INVARIANT OncePerEvent
PROPERTY ImplementsDelivery

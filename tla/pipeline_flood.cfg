\* Two events of one item, one worker that was started by itself, no faults.
CONSTANTS
    m1 = m1
    m2 = m2
    w1 = w1
    w2 = w2
    i1 = i1
    NoMessage = NoMessage
    NoPayload = NoPayload
    Messages = {m1, m2}
    Workers = {w1}
    Items = {i1}
    Quantities = {2, 5}
    Low <- MCLow
    Critical <- MCCritical
    Redis = {"none"}
    MessageTTL = 2
    DoneTTL = 2
    DedupTTL = 1
    Prefetch = 2
    MaxTime = 3
    MaxFaults = 0
SPECIFICATION Spec
CHECK_DEADLOCK FALSE
INVARIANT RepeatsAWindowApart

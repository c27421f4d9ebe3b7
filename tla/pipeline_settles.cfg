\* Two events and one worker, which loses its connection or its process once.
CONSTANTS
    m1 = m1
    m2 = m2
    w1 = w1
    w2 = w2
    i1 = i1
    NoMessage = NoMessage
    NoPayload = NoPayload
    Messages = {m1, m2}
    Workers = {w1}
    Items = {i1}
    Quantities = {2}
    Low <- MCLow
    Critical <- MCCritical
    Redis = {"flaky"}
    MessageTTL = 2
    DoneTTL = 2
    DedupTTL = 1
    Prefetch = 2
    MaxTime = 3
    MaxFaults = 1
SPECIFICATION Spec
CHECK_DEADLOCK FALSE
PROPERTY EveryEventSettles

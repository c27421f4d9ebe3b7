\* Eight small worlds of three or four events, see MCPlans.
CONSTANTS
    a = a
    b1 = b1
    b2 = b2
    w1 = w1
    w2 = w2
    NoData = NoData
    NoRecord = NoRecord
    NoClick = NoClick
    Alerts = {a}
    Buses = {b1, b2}
    Warehouses = {w1, w2}
    Plans <- MCPlans
    MaxEvents = 4
    MaxLate = 1
SPECIFICATION Spec
CHECK_DEADLOCK FALSE
INVARIANT TypeOK
INVARIANT LastClickStands
INVARIANT DisabledMeansPending
PROPERTY ReopenedByStaleClick
PROPERTY ScreenCatchesUp

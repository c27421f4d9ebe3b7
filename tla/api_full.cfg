\* Three requests: a movement, its rollback and a third request between their
\* steps, or two that race and one that follows.
\* Requests end, so the system stops.
CONSTANTS
    r1 = r1
    r2 = r2
    r3 = r3
    i1 = i1
    i2 = i2
    i3 = i3
    i4 = i4
    w1 = w1
    w2 = w2
    NoRequest = NoRequest
    NoTxn = NoTxn
    Requests = {r1, r2, r3}
    Items = {i1, i2, i3, i4}
    Warehouses = {w1, w2}
    WarehouseOf <- MCWarehouseOf
    Reserved <- MCReserved
    Amounts = {1}
    InitialRows = {i1, i2, i3}
    InitialStocks = {2}
    Uses <- MCUses
SYMMETRY Symmetry
SPECIFICATION Spec
CHECK_DEADLOCK FALSE
INVARIANT TypeOK
INVARIANT PendingWritesValid
INVARIANT ReservedKept
INVARIANT IssuesDisjoint
INVARIANT IssuesAccountForStock
INVARIANT RetriedRollbackRefused
INVARIANT AuditMeansWhole
PROPERTY IssueTakesExactly

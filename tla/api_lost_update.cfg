\* An issue and a restock of one item.
CONSTANTS
    r1 = r1
    r2 = r2
    r3 = r3
    i1 = i1
    i2 = i2
    i3 = i3
    i4 = i4
    w1 = w1
    w2 = w2
    NoRequest = NoRequest
    NoTxn = NoTxn
    Requests = {r1, r2}
    Items = {i1}
    Warehouses = {w1, w2}
    WarehouseOf <- MCWarehouseOf1
    Reserved <- MCReserved1
    Amounts = {1}
    InitialRows = {i1}
    InitialStocks = {3}
    Uses <- MCUses1
SYMMETRY Symmetry
SPECIFICATION Spec
CHECK_DEADLOCK FALSE
PROPERTY NoLostUpdate

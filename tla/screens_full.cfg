\* Two dialogs and two events: one dialog confirmed twice, or two dialogs, or one and a
\* change of list, a movement of another user or a failed fetch.
CONSTANTS
    i1 = i1
    i2 = i2
    i3 = i3
    all = all
    found = found
    depot = depot
    NoData = NoData
    NoDialog = NoDialog
    Items = {i1, i2, i3}
    Views = {all, found, depot}
    FirstView = all
    PageOf <- MCPageOf
    WarehouseOf <- MCWarehouseOf
    Existing = {i1, i2}
    InitialStock = 1
    Uses <- MCUses
    Amounts = {1}
    MaxDialogs = 2
    MaxEvents = 2
    Shared = {i1}
    Deltas = {1}
    MaxLate = 1
SPECIFICATION Spec
CHECK_DEADLOCK FALSE
INVARIANT TypeOK
INVARIANT OncePerDialog
INVARIANT OwnChangesShown
PROPERTY ListCatchesUp
PROPERTY PendingEnds

\* Issues, restocks, transfers and creations by three sessions over two items,
\* one of them created on the way.  Requests end, so the system stops.
CONSTANTS
    s1 = s1
    s2 = s2
    s3 = s3
    i1 = i1
    i2 = i2
    Nobody = Nobody
    NoRequest = NoRequest
    NoTxn = NoTxn
    Sessions = {s1, s2, s3}
    Items = {i1, i2}
    Rank <- MCRank
    Reserved <- MCReserved
    Amounts = {1, 2}
    InitialRows = {i1}
    InitialStocks = {3}
    Kinds = {"issue", "restock", "transfer", "create"}
SYMMETRY Symmetry
SPECIFICATION Spec
CHECK_DEADLOCK FALSE
PROPERTY ImplementsLedger

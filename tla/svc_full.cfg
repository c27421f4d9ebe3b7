\* Every operation under the fairness of the event loop: three sessions over two
\* items, so that two wait on each other's rows while a third rolls back.  No
\* symmetry, because EveryRequestEnds is a liveness property.  Requests end, so
\* the system stops.
CONSTANTS
    s1 = s1
    s2 = s2
    s3 = s3
    i1 = i1
    i2 = i2
    Nobody = Nobody
    NoRequest = NoRequest
    NoTxn = NoTxn
    Sessions = {s1, s2, s3}
    Items = {i1, i2}
    Rank <- MCRank
    Reserved <- MCReserved
    Amounts = {1}
    InitialRows = {i1, i2}
    InitialStocks = {2}
    Kinds = {"issue", "restock", "transfer", "rollback"}
SPECIFICATION FairSpec
CHECK_DEADLOCK FALSE
INVARIANT TypeOK
INVARIANT LockedReadIsFresh
INVARIANT EventMeansMovement
PROPERTY EveryRequestEnds
PROPERTY ImplementsLooseLedger

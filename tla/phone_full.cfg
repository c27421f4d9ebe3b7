\* The list of one phone over two items, with every order of changes, events, loads and
\* lost connections up to the bounds.  Changes, loads and calls are bounded, so the system
\* stops.
CONSTANTS
    i1 = i1
    i2 = i2
    NoSheet = NoSheet
    Items = {i1, i2}
    Publications <- MCPublications
    Fractional = {3}
    MaxChanges = 4
    MaxLoads = 2
    MaxCalls = 2
SYMMETRY Symmetry
SPECIFICATION Spec
CHECK_DEADLOCK FALSE
INVARIANT TypeOK
INVARIANT DifferenceExplained

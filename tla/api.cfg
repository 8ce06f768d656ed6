\* Two operators and a client that lists; two writes.
CONSTANTS
    o1 = o1
    o2 = o2
    None = None
    Operators = {o1, o2}
    RawPaths <- MCRawPaths
    Bodies <- MCBodies
    Filters <- MCFilters
    Limits = {None, 0, 3}
    DefaultLimit = 2
    MaxLimit = 2
    MaxPathLength = 6
    Tables <- MCTables
    MaxWrites = 2
SPECIFICATION Spec
SYMMETRY MCSymmetry
INVARIANTS ApiTypeOK VisitedUnlessReserved ScanExplained ListingExact

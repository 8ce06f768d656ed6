\* One operator, one write.
CONSTANTS
    o1 = o1
    o2 = o2
    None = None
    Operators = {o1}
    RawPaths <- MCRawPaths
    Bodies <- MCBodies
    Filters <- MCFilters
    Limits = {None, 0, 3}
    DefaultLimit = 2
    MaxLimit = 2
    MaxPathLength = 6
    Tables <- MCTables
    MaxWrites = 1
SPECIFICATION Spec
INVARIANT AddressedByItsPath

SPECIFICATION Spec
CONSTANTS
    a = a
    twin = twin
    b = b
    c = c
    Object <- Keys
    Val = {1, 2}
    NULL = NULL
    Hash <- HashOf
    Class <- ClassOf
    Narrow = 3
    MaxEnts = 4
    MaxDeleted = 2
INVARIANTS WidthAgrees AbortsOnlySpoilt
PROPERTY ImplementsMap

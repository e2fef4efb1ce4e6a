SPECIFICATION FairSpec
CONSTANTS
    NULL = NULL
    Value = {v, w}
    Iter = {i, j}
    Cell = {c1, c2, c3}
    MaxPop = 3
    Key = {1, 2, 3}
    Val = {v}
    Caller = {s, t}
    Name = {1, 2, 3}
    MaxDegree = 2
    MaxAdded = 1
    MaxLen = 4
    MaxIndex = 6
    MaxStep = 3
    Half = 4
    Beyond = 2
    MaxStride = 3
    MaxGiven = 14
CHECK_DEADLOCK FALSE
INVARIANT
    SearchesAll
    PartsAsMeant
    RangesAsMeant
PROPERTIES
    ImplementsFifo
    ImplementsSortedMap
    WalkEnds

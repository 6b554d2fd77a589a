SPECIFICATION ReplaySpec
CONSTANTS
    Key <- MCKey
    TailKey = 6
    Value = {v1, v2}
    NoValue = NoValue
    NoLeaf = NoLeaf
    None = None
    Capacity = 6
    Depth = 3
    MaxBefore = 2
    MaxTraces = 2
INVARIANTS
    TypeOK
    IndexSound
    FirstWriteGoesThrough
PROPERTY ReplayIsMap
CHECK_DEADLOCK FALSE

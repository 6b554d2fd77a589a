SPECIFICATION NodesSpec
CONSTANTS
    Key <- MCKey
    TailKey = 6
    Value = {v1, v2}
    NoValue = NoValue
    NoLeaf = NoLeaf
    Capacity = 6
    Depth = 3
INVARIANTS
    TypeOK
    IndexMatchesLeaves
    PrevLinksSorted
    RootCommitsToLeaves
    NothingFails
PROPERTIES
    IndicesNotReused
    ImplementsMap

SPECIFICATION StateSpec
CONSTANTS
    r1 = r1
    c1 = c1
    w1 = w1
    w2 = w2
    Key = {1, 2}
    Value <- mcValue
    NoValue = NoValue
    NotCached = NotCached
    MaxAddress = 2
    Start <- mcStart
    MaxBalance = 1
    MaxNonce = 1
    ZeroRoot = r0
    Root = {r0, r1}
    NoCode = c0
    Code = {c0, c1}
    StoredCode = {}
    Slot = {1, 2}
    Word = {w1, w2}
    StorageOf <- mcStorageOf
INVARIANTS StateTypeOK CacheCoherent StorageFresh
PROPERTY ImplementsLedger

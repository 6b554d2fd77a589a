SPECIFICATION FairTimedSpec
CONSTANTS
    k1 = k1
    k2 = k2
    k3 = k3
    k4 = k4
    k5 = k5
    own = own
    h0 = h0
    h1 = h1
    r0 = r0
    r1 = r1
    None = None
    ZeroAddress = ZeroAddress
    Address = {own, k1, k2}
    Key = {k1, k2}
    Deployer = own
    BatchHash = {h0, h1}
    ZeroHash = h0
    Root = {r0, r1}
    ZeroRoot = r0
    BatchId = {1}
    Validity = {4}
    DefaultValidity = 4
    GenesisTime = 4
    MaxTime = 8
    MaxUint = 100
    MaxU64 = 30
    SubmitCooldown = 1
    Spawned = {"rpc"}
    MaxSkew = 1
    MaxDisruptions = 0
    MaxPause = 1
PROPERTY EventuallyAttested

SPECIFICATION Spec
CONSTANTS
    k1 = k1
    k2 = k2
    k3 = k3
    own = own
    h0 = h0
    h1 = h1
    r0 = r0
    r1 = r1
    None = None
    ZeroAddress = ZeroAddress
    Address = {own, k1, k2, k3}
    Deployer = own
    Key = {k1, k2, k3}
    BatchHash = {h0, h1}
    ZeroHash = h0
    Root = {r0, r1}
    ZeroRoot = r0
    BatchId = {1}
    Validity = {1, 3, 11}
    DefaultValidity = 3
    GenesisTime = 3
    MaxTime = 5
    MaxUint = 100
    MaxU64 = 10
    SubmitCooldown = 4
    Spawned = {"monitor", "task"}
    MaxSkew = 1
    MaxDisruptions = 1
SYMMETRY Symmetry
INVARIANTS TypeOK RotationInv AttestedKeyRegistered GatedSignersRegistered
PROPERTIES SubmissionsSpaced ImplementsSigner

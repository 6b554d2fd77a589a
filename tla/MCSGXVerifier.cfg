SPECIFICATION ContractSpec
CONSTANTS
    a1 = a1
    a2 = a2
    z0 = z0
    h1 = h1
    r0 = r0
    r1 = r1
    Address = {a1, a2}
    Deployer = a1
    ZeroAddress = z0
    BatchHash = {h1}
    Root = {r0, r1}
    ZeroRoot = r0
    BatchId = {1}
    Validity = {0, 2}
    DefaultValidity = 2
    GenesisTime = 1
    MaxTime = 3
    MaxUint = 4
INVARIANTS ContractTypeOK LogMatchesStorage CommitsWithinValidity
PROPERTY RegistryMonotone

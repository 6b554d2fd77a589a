SPECIFICATION AttestedSpec
CONSTANTS
    a1 = a1
    a2 = a2
    z0 = z0
    h1 = h1
    r0 = r0
    e1 = e1
    s0 = s0
    s1 = s1
    q1 = q1
    f1 = f1
    p1 = p1
    str = str
    kRoot = kRoot
    kCa = kCa
    kPck = kPck
    kAtt = kAtt
    kBad = kBad
    noQuote = noQuote
    good = good
    oldPlatform = oldPlatform
    otherRoot = otherRoot
    unsignedPck = unsignedPck
    shortChain = shortChain
    otherKey = otherKey
    badHeader = badHeader
    ofA2 = ofA2
    commonName = commonName
    issuerName = issuerName
    zero64 = zero64
    Address = {a1}
    Deployer = a1
    ZeroAddress = z0
    BatchHash = {h1}
    Root = {r0}
    ZeroRoot = r0
    BatchId = {}
    Validity = {1}
    DefaultValidity = 1
    GenesisTime = 1
    MaxTime = 3
    MaxUint = 9
    Caller = {a1, a2}
    DcapOwner = a2
    MrEnclave = {e1}
    MrSigner = {s1}
    ZeroMrSigner = s0
    Fmspc = {f1}
    EmptyString = str
    ZeroReportData = zero64
    RootKey = kRoot
    TcbInfos <- mcTcbInfos
    QeIdentities <- mcQeIdentities
    Quotes = {good, oldPlatform, otherRoot, unsignedPck, shortChain, otherKey, badHeader, ofA2}
    Content <- mcContent
    CPUSVN_LENGTH = 1
    PCK_COMMON_NAME = commonName
    PCK_ISSUER_NAME = issuerName
    NoQuote = noQuote
INVARIANTS AttestedTypeOK VerdictExact RegistrationJustified DistrustTakesEffect

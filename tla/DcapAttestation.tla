-------------------------- MODULE DcapAttestation --------------------------
(***************************************************************************)
(* The contract that verifies SGX quotes                                   *)
(* (verifier/contracts/AutomataDcapV3Attestation.sol): the collateral its  *)
(* owner configures, and the verification of a quote against it.           *)
(*                                                                         *)
(* A key stands for its key pair.  A signature is the key it verifies      *)
(* under; a hash is what was hashed; a bit field is the set of its bits.   *)
(* Names drop the leading underscore the contract gives to some functions. *)
(***************************************************************************)
EXTENDS V3Parser, PEMCertChainLib

CONSTANTS
    Caller,         \* accounts that send transactions
    DcapOwner,      \* the account that deployed the contract; owner has no setter
    MrEnclave,      \* the measurements of enclaves
    MrSigner,       \* and of their signers
    ZeroMrSigner,   \* bytes32(0), the mrsigner of an unset EnclaveId
    Fmspc,          \* platform families: keys of the mapping tcbInfo
    EmptyString,    \* "", the value of an unset string
    ZeroReportData, \* 64 zero bytes
    RootKey,        \* the key whose hash is ROOTCA_PUBKEY_HASH
    TcbInfos,       \* the TCBInfo structs the owner may configure
    QeIdentities,   \* the EnclaveId structs the owner may configure
    Quotes,         \* the quotes that are submitted
    Content         \* quote -> its fields and certificates, as the parsers find them

VARIABLES
    checkLocalEnclaveReport,  \* whether the quoted enclave itself must be trusted
    trustedUserMrEnclave,     \* the trusted measurements
    trustedUserMrSigner,
    tcbInfo,                  \* fmspc -> TCBInfo
    qeIdentity,               \* EnclaveId of the quoting enclave
    serialNumIsRevoked        \* revoked <<crl, serial number>> pairs

dcapVars == <<checkLocalEnclaveReport, trustedUserMrEnclave, trustedUserMrSigner,
              tcbInfo, qeIdentity, serialNumIsRevoked>>

Unconfigured == [pceid |-> EmptyString, fmspc |-> EmptyString, tcbLevels |-> << >>]

ZeroEnclaveId ==
    [miscselect |-> {}, miscselectMask |-> {}, attributes |-> {}, attributesMask |-> {},
     mrsigner |-> ZeroMrSigner, isvprodid |-> 0, tcbLevels |-> << >>]

ASSUME DcapAssumption ==
    /\ Unconfigured \in TcbInfos
    /\ ZeroEnclaveId \in QeIdentities

----------------------------------------------------------------------------
\* The index of the first element a loop over an array stops at.
FirstIndex(S) == CHOOSE i \in S : \A j \in S : i <= j

\* attestationTcbIsValid
attestationTcbIsValid(status) == status \in {"OK", "TCB_SW_HARDENING_NEEDED"}

\* Mutated form of LocalReportTrusted: either of the two measurements suffices.
LocalReportTrustedEither(q) ==
    checkLocalEnclaveReport =>
       \/ Content[q].mrEnclave \in trustedUserMrEnclave
       \/ Content[q].mrSigner \in trustedUserMrSigner

\* Step 2: the local report, when it is to be checked, is of a trusted enclave and signer.
LocalReportTrusted(q) ==
    checkLocalEnclaveReport =>
       /\ Content[q].mrEnclave \in trustedUserMrEnclave
       /\ Content[q].mrSigner \in trustedUserMrSigner

\* verifyQEReportWithIdentity, and the test of the status that follows it (step 3).
QeIdentityVerified(qe) ==
    LET reached == {i \in 1..Len(qeIdentity.tcbLevels) :
                       qeIdentity.tcbLevels[i].isvsvn <= qe.isvSvn}
    IN  /\ qe.miscSelect \cap qeIdentity.miscselectMask = qeIdentity.miscselect
        /\ qe.attributes \cap qeIdentity.attributesMask = qeIdentity.attributes
        /\ qe.mrSigner = qeIdentity.mrsigner
        /\ qe.isvProdId = qeIdentity.isvprodid
        /\ reached # {}
        /\ qeIdentity.tcbLevels[FirstIndex(reached)].tcbStatus
              # "SGX_ENCLAVE_REPORT_ISVSVN_REVOKED"

\* Step 4: three certificates are found and decoded, the first as a PCK certificate.
Decodable ==
    {q \in Quotes : /\ splitCertificateChain(Content[q].certs, 3)
                    /\ \A i \in 1..3 : decodeCert(Content[q].certs[i], i = 1)}

\* The platform a decodable quote comes from.
Pck == [q \in Decodable |-> findPckTcbInfo(Content[q].certs[1].sgx)]

ASSUME QuoteAssumption ==
    \A q \in Quotes :
       /\ Content[q].mrEnclave \in MrEnclave
       /\ Content[q].mrSigner \in MrSigner
       /\ q \in Decodable => Pck[q].fmspc \in Fmspc

\* Step 5: the TCB info of the platform's family is configured, for its PCE.
TcbConfigured(pck) ==
    /\ tcbInfo[pck.fmspc].fmspc = pck.fmspc
    /\ tcbInfo[pck.fmspc].pceid = pck.pceid

isCpuSvnHigherOrGreater(pckCpuSvns, tcbCpuSvns) ==
    /\ Len(pckCpuSvns) = CPUSVN_LENGTH
    /\ Len(tcbCpuSvns) = CPUSVN_LENGTH
    /\ \A i \in 1..CPUSVN_LENGTH : pckCpuSvns[i] >= tcbCpuSvns[i]

\* The platform is at least at a TCB level.
Reaches(pck, level) ==
    /\ pck.pcesvn >= level.pcesvn
    /\ isCpuSvnHigherOrGreater(pck.cpusvns, level.sgxTcbCompSvnArr)

\* Mutated form of checkTcbLevels: the last level reached decides.
checkTcbLevelsLast(pck, tcb) ==
    LET reached == {i \in 1..Len(tcb.tcbLevels) : Reaches(pck, tcb.tcbLevels[i])}
    IN  IF reached = {} THEN "TCB_UNRECOGNIZED" ELSE tcb.tcbLevels[Max(reached)].status

\* checkTcbLevels (step 6): the status of the first level the platform reaches.
checkTcbLevels(pck, tcb) ==
    LET reached == {i \in 1..Len(tcb.tcbLevels) : Reaches(pck, tcb.tcbLevels[i])}
    IN  IF reached = {} THEN "TCB_UNRECOGNIZED" ELSE tcb.tcbLevels[FirstIndex(reached)].status

----------------------------------------------------------------------------
(* verifyCertChain (step 7): the loop over the certificates, one operator per pass.
   Its state is the function's locals; done says that the loop was left by break. *)

WalkStart == [certRevoked |-> FALSE, certNotExpired |-> FALSE, verified |-> FALSE,
              certChainCanBeTrusted |-> FALSE, done |-> FALSE]

IssuerOf(certs, i) == IF i = 3 THEN certs[3] ELSE certs[i + 1]

\* The second certificate is looked up in the root's revocation list, the PCK certificate
\* in its own; the root certificate in none.
Revoked(certs, i) ==
    \/ i = 2 /\ <<"ROOT", certs[2].serialNumber>> \in serialNumIsRevoked
    \/ i = 1 /\ <<"PCK", certs[1].serialNumber>> \in serialNumIsRevoked

NotExpired(cert, now) == now > cert.notBefore /\ now < cert.notAfter

verifyES256Signature(signature, pubKey) == signature = pubKey

\* Mutated form of WalkPass: a wrong signature does not break out of the loop.
WalkPassGoesOn(certs, now, i, w) ==
    LET signed == verifyES256Signature(certs[i].signature, IssuerOf(certs, i).pubKey)
        root   == IssuerOf(certs, i).pubKey = RootKey
    IN  IF w.done THEN w
        ELSE IF Revoked(certs, i)
        THEN [w EXCEPT !.certRevoked = TRUE, !.done = TRUE]
        ELSE IF ~NotExpired(certs[i], now)
        THEN [w EXCEPT !.certNotExpired = FALSE, !.done = TRUE]
        ELSE [w EXCEPT !.certNotExpired = TRUE, !.verified = signed,
                       !.certChainCanBeTrusted = root, !.done = root]

\* Pass i: each condition that breaks comes before what the pass computes after it.
WalkPass(certs, now, i, w) ==
    LET signed == verifyES256Signature(certs[i].signature, IssuerOf(certs, i).pubKey)
        root   == IssuerOf(certs, i).pubKey = RootKey
    IN  IF w.done THEN w
        ELSE IF Revoked(certs, i)
        THEN [w EXCEPT !.certRevoked = TRUE, !.done = TRUE]
        ELSE IF ~NotExpired(certs[i], now)
        THEN [w EXCEPT !.certNotExpired = FALSE, !.done = TRUE]
        ELSE [w EXCEPT !.certNotExpired = TRUE, !.verified = signed,
                       !.certChainCanBeTrusted = signed /\ root, !.done = ~signed \/ root]

verifyCertChain(certs, now) ==
    LET w1 == WalkPass(certs, now, 1, WalkStart)
        w2 == WalkPass(certs, now, 2, w1)
        w3 == WalkPass(certs, now, 3, w2)
    IN  ~w3.certRevoked /\ w3.certNotExpired /\ w3.verified /\ w3.certChainCanBeTrusted

\* enclaveReportSigVerification (step 8): the QE's report binds the attestation key and
\* is signed by the PCK certificate's key, and the attestation key signed the quote.
EnclaveReportSigsVerified(q) ==
    /\ Content[q].qeReport.reportData = <<Content[q].attestationKey, Content[q].qeAuthData>>
    /\ verifyES256Signature(Content[q].qeReportSignature, Content[q].certs[1].pubKey)
    /\ verifyES256Signature(Content[q].signature, Content[q].attestationKey)

\* verify: the eight steps.  The first that fails decides; a quote that does not parse is
\* answered with 64 zero bytes, every other with the report data of the enclave.
QuoteVerified(q, now) ==
    /\ parseInput(Content[q].shape)
    /\ LocalReportTrusted(q)
    /\ QeIdentityVerified(Content[q].qeReport)
    /\ q \in Decodable
    /\ TcbConfigured(Pck[q])
    /\ checkTcbLevels(Pck[q], tcbInfo[Pck[q].fmspc]) # "TCB_REVOKED"
    /\ verifyCertChain(Content[q].certs, now)
    /\ EnclaveReportSigsVerified(q)

verify(q, now) ==
    [valid |-> /\ QuoteVerified(q, now)
               /\ attestationTcbIsValid(checkTcbLevels(Pck[q], tcbInfo[Pck[q].fmspc])),
     reportData |-> IF parseInput(Content[q].shape) THEN Content[q].reportData ELSE ZeroReportData]

----------------------------------------------------------------------------
\* The source defines toggleLocalReportCheck twice with one signature: external onlyOwner, and
\* (line 121) internal, which nothing calls.  This is the first.
toggleLocalReportCheck(sender) ==
    /\ sender = DcapOwner
    /\ checkLocalEnclaveReport' = ~checkLocalEnclaveReport
    /\ UNCHANGED <<trustedUserMrEnclave, trustedUserMrSigner, tcbInfo, qeIdentity,
                   serialNumIsRevoked>>

\* A mapping to bool is the set of its true keys.
SetTrusted(S, x, trusted) == IF trusted THEN S \cup {x} ELSE S \ {x}

\* Mutated form of setMrSigner: it writes the enclaves' mapping, as if copied from setMrEnclave.
setMrSignerCopied(sender, mrSigner, trusted) ==
    /\ sender = DcapOwner
    /\ trustedUserMrEnclave' = SetTrusted(trustedUserMrEnclave, mrSigner, trusted)
    /\ UNCHANGED <<checkLocalEnclaveReport, trustedUserMrSigner, tcbInfo, qeIdentity,
                   serialNumIsRevoked>>

setMrSigner(sender, mrSigner, trusted) ==
    /\ sender = DcapOwner
    /\ trustedUserMrSigner' = SetTrusted(trustedUserMrSigner, mrSigner, trusted)
    /\ UNCHANGED <<checkLocalEnclaveReport, trustedUserMrEnclave, tcbInfo, qeIdentity,
                   serialNumIsRevoked>>

setMrEnclave(sender, mrEnclave, trusted) ==
    /\ sender = DcapOwner
    /\ trustedUserMrEnclave' = SetTrusted(trustedUserMrEnclave, mrEnclave, trusted)
    /\ UNCHANGED <<checkLocalEnclaveReport, trustedUserMrSigner, tcbInfo, qeIdentity,
                   serialNumIsRevoked>>

\* The key and the fmspc inside the struct are separate arguments of the owner's call.
configureTcbInfoJson(sender, fmspc, tcbInfoInput) ==
    /\ sender = DcapOwner
    /\ tcbInfo' = [tcbInfo EXCEPT ![fmspc] = tcbInfoInput]
    /\ UNCHANGED <<checkLocalEnclaveReport, trustedUserMrEnclave, trustedUserMrSigner,
                   qeIdentity, serialNumIsRevoked>>

configureQeIdentityJson(sender, qeIdentityInput) ==
    /\ sender = DcapOwner
    /\ qeIdentity' = qeIdentityInput
    /\ UNCHANGED <<checkLocalEnclaveReport, trustedUserMrEnclave, trustedUserMrSigner,
                   tcbInfo, serialNumIsRevoked>>

\* addRevokedCertSerialNum and removeRevokedCertSerialNum are internal and nothing calls
\* them: serialNumIsRevoked stays empty.
DcapInit ==
    /\ checkLocalEnclaveReport = FALSE
    /\ trustedUserMrEnclave = {}
    /\ trustedUserMrSigner = {}
    /\ tcbInfo = [f \in Fmspc |-> Unconfigured]
    /\ qeIdentity = ZeroEnclaveId
    /\ serialNumIsRevoked = {}

DcapNext ==
    \E s \in Caller :
       \/ toggleLocalReportCheck(s)
       \/ \E m \in MrSigner, t \in BOOLEAN : setMrSigner(s, m, t)
       \/ \E m \in MrEnclave, t \in BOOLEAN : setMrEnclave(s, m, t)
       \/ \E f \in Fmspc, i \in TcbInfos : configureTcbInfoJson(s, f, i)
       \/ \E i \in QeIdentities : configureQeIdentityJson(s, i)

----------------------------------------------------------------------------
\* The collateral is what the owner may have configured.
DcapTypeOK ==
    /\ checkLocalEnclaveReport \in BOOLEAN
    /\ trustedUserMrEnclave \subseteq MrEnclave
    /\ trustedUserMrSigner \subseteq MrSigner
    /\ tcbInfo \in [Fmspc -> TcbInfos]
    /\ qeIdentity \in QeIdentities
    /\ serialNumIsRevoked = {}

----------------------------------------------------------------------------
(* What acceptance should mean, without the order of the steps. *)

\* Every certificate from the first up to one issued under the root key is signed by its
\* issuer, current and not revoked.
ChainTrusted(certs, now) ==
    \E top \in 1..3 :
       /\ IssuerOf(certs, top).pubKey = RootKey
       /\ \A i \in 1..top :
             /\ certs[i].signature = IssuerOf(certs, i).pubKey
             /\ NotExpired(certs[i], now)
             /\ ~Revoked(certs, i)

\* The quote is Intel's word for the enclave: a trusted chain ends in the key that signed
\* the QE's report, which names the key that signed the quote.
Authentic(q, now) ==
    /\ q \in Decodable
    /\ ChainTrusted(Content[q].certs, now)
    /\ Content[q].qeReportSignature = Content[q].certs[1].pubKey
    /\ Content[q].qeReport.reportData = <<Content[q].attestationKey, Content[q].qeAuthData>>
    /\ Content[q].signature = Content[q].attestationKey

\* What the owner's collateral says of a quote, under each of three aspects.
Aspect == {"enclave", "quotingEnclave", "platform"}

\* Some level is reached whose status is good, and no level listed before it is reached.
Admits(aspect, q) ==
    CASE aspect = "enclave" ->
            \/ ~checkLocalEnclaveReport
            \/ Content[q].mrEnclave \in trustedUserMrEnclave /\ Content[q].mrSigner \in trustedUserMrSigner
      [] aspect = "quotingEnclave" ->
            /\ Content[q].qeReport.miscSelect \cap qeIdentity.miscselectMask = qeIdentity.miscselect
            /\ Content[q].qeReport.attributes \cap qeIdentity.attributesMask = qeIdentity.attributes
            /\ Content[q].qeReport.mrSigner = qeIdentity.mrsigner
            /\ Content[q].qeReport.isvProdId = qeIdentity.isvprodid
            /\ \E i \in 1..Len(qeIdentity.tcbLevels) :
                  /\ qeIdentity.tcbLevels[i].isvsvn <= Content[q].qeReport.isvSvn
                  /\ qeIdentity.tcbLevels[i].tcbStatus # "SGX_ENCLAVE_REPORT_ISVSVN_REVOKED"
                  /\ \A j \in 1..(i - 1) :
                        ~(qeIdentity.tcbLevels[j].isvsvn <= Content[q].qeReport.isvSvn)
      [] aspect = "platform" ->
            /\ q \in Decodable
            /\ TcbConfigured(Pck[q])
            /\ LET levels == tcbInfo[Pck[q].fmspc].tcbLevels
               IN  \E i \in 1..Len(levels) :
                      /\ Reaches(Pck[q], levels[i])
                      /\ levels[i].status \in {"OK", "TCB_SW_HARDENING_NEEDED"}
                      /\ \A j \in 1..(i - 1) : ~Reaches(Pck[q], levels[j])
=============================================================================

------------------------ MODULE MCAttestedContracts ------------------------
(***************************************************************************)
(* Both contracts with one prover, an outsider, and quotes that differ     *)
(* from a good one in one respect each.                                    *)
(***************************************************************************)
EXTENDS AttestedContracts, TLC

CONSTANTS a1, a2, z0, h1, r0,          \* accounts, address(0), a batch hash, a state root
          e1, s0, s1, q1, f1, p1, str, \* measurements, a platform family, a PCE, ""
          kRoot, kCa, kPck, kAtt, kBad, \* keys
          noQuote, good, oldPlatform, otherRoot, unsignedPck, shortChain, otherKey,
          badHeader, ofA2,   \* quotes
          commonName, issuerName, zero64

goodShape == [length |-> 1200, authDataSize |-> 764, header |-> TRUE,
              qeAuthSize |-> 32, certType |-> 5, certDataSize |-> 100]

Svn(isPce, value) == [pce |-> isPce, octets |-> DerInteger(value)]

\* A PCK certificate for a platform at SVN value.
PckCert(value, signer) ==
    [serialNumber |-> 1, issuerName |-> issuerName, commonName |-> commonName,
     notBeforeTag |-> UTCTime, notAfterTag |-> UTCTime, notBefore |-> 0, notAfter |-> 3,
     pubKey |-> kPck, signature |-> signer,
     sgx |-> << [oid |-> "ppid", value |-> 0],
                [oid |-> TCB_OID, value |-> <<Svn(FALSE, value), Svn(TRUE, value)>>],
                [oid |-> PCEID_OID, value |-> p1],
                [oid |-> FMSPC_OID, value |-> f1] >>]

Cert(key, signer, notAfter) ==
    [serialNumber |-> 2, issuerName |-> str, commonName |-> str,
     notBeforeTag |-> UTCTime, notAfterTag |-> GeneralizedTime, notBefore |-> 0,
     notAfter |-> notAfter, pubKey |-> key, signature |-> signer, sgx |-> << >>]

Chain(value) ==
    << PckCert(value, kCa), Cert(kCa, kRoot, 9), Cert(kRoot, kRoot, 9) >>

goodContent ==
    [shape |-> goodShape, mrEnclave |-> e1, mrSigner |-> s1, reportData |-> a1,
     qeReport |-> [miscSelect |-> {1, 2}, attributes |-> {1}, mrSigner |-> q1,
                   isvProdId |-> 1, isvSvn |-> 2, reportData |-> <<kAtt, 0>>],
     attestationKey |-> kAtt, qeAuthData |-> 0, qeReportSignature |-> kPck,
     signature |-> kAtt, certs |-> Chain(2)]

WithChain(certs) == [goodContent EXCEPT !.certs = certs]

\* What each quote differs in: the platform's level; the root; the signature of the PCK
\* certificate; a PCK certificate issued under the root key, so that the third is not
\* looked at; a key the QE's report does not name; the header; the prover.
mcContent ==
       good        :> goodContent
    @@ oldPlatform :> WithChain(Chain(1))
    @@ otherRoot   :> WithChain(<<PckCert(2, kCa), Cert(kCa, kBad, 9), Cert(kBad, kBad, 9)>>)
    @@ unsignedPck :> WithChain(<<PckCert(2, kBad), Cert(kCa, kRoot, 9), Cert(kRoot, kRoot, 9)>>)
    @@ shortChain  :> WithChain(<<PckCert(2, kRoot), Cert(kRoot, kBad, 1), Cert(kBad, kBad, 1)>>)
    @@ otherKey    :> [goodContent EXCEPT !.attestationKey = kBad, !.signature = kBad]
    @@ badHeader   :> [goodContent EXCEPT !.shape = [goodShape EXCEPT !.header = FALSE]]
    @@ ofA2        :> [goodContent EXCEPT !.reportData = a2]

Level(value, status) == [pcesvn |-> value, sgxTcbCompSvnArr |-> <<value>>, status |-> status]

TcbOf(levels) == [pceid |-> p1, fmspc |-> f1, tcbLevels |-> levels]

\* The levels from new to old, as Intel lists them, and the other way round.
mcTcbInfos == {Unconfigured,
               TcbOf(<<Level(2, "TCB_SW_HARDENING_NEEDED"), Level(1, "TCB_REVOKED")>>),
               TcbOf(<<Level(1, "OK"), Level(2, "TCB_OUT_OF_DATE")>>)}

IdentityOf(levels) ==
    [miscselect |-> {1}, miscselectMask |-> {1}, attributes |-> {1}, attributesMask |-> {1, 2},
     mrsigner |-> q1, isvprodid |-> 1, tcbLevels |-> levels]

mcQeIdentities == {ZeroEnclaveId,
                   IdentityOf(<<[isvsvn |-> 2, tcbStatus |-> "OK"],
                                [isvsvn |-> 1, tcbStatus |-> "SGX_ENCLAVE_REPORT_ISVSVN_REVOKED"]>>),
                   IdentityOf(<<[isvsvn |-> 2, tcbStatus |-> "SGX_ENCLAVE_REPORT_ISVSVN_REVOKED"],
                                [isvsvn |-> 1, tcbStatus |-> "OK"]>>)}
=============================================================================

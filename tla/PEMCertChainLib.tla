-------------------------- MODULE PEMCertChainLib --------------------------
(***************************************************************************)
(* What the attestation contract reads from the certificates of a quote    *)
(* (verifier/contracts/lib/PEMCertChainLib.sol).  A certificate is the     *)
(* record of the DER elements the library visits; walking the DER tree is  *)
(* left out.  A decoder that reverts and one that returns false are alike: *)
(* the quote is not accepted.                                              *)
(***************************************************************************)
EXTENDS Integers, Sequences, FiniteSetsExt

CONSTANTS
    CPUSVN_LENGTH,    \* the number of CPU SVNs in a certificate and in a TCB level (16)
    PCK_COMMON_NAME,  \* "Intel SGX PCK Certificate"
    PCK_ISSUER_NAME   \* "Intel SGX PCK Platform CA"

ASSUME CertAssumption == CPUSVN_LENGTH \in Nat \ {0}

UTCTime         == 23    \* the DER tags 0x17 and 0x18
GeneralizedTime == 24

\* The object identifiers below the SGX extension that the library looks for.
TCB_OID   == "tcb"
PCEID_OID == "pceid"
FMSPC_OID == "fmspc"

----------------------------------------------------------------------------
\* splitCertificateChain finds a header and a footer for each certificate it is asked for.
splitCertificateChain(blocks, size) == Len(blocks) >= size

\* The value of an SVN: one octet, or the first two octets as a big-endian number.
SvnValue(octets) ==
    IF Len(octets) < 2 THEN octets[1] ELSE octets[1] * 256 + octets[2]

\* The content octets of a two-byte SVN as a DER INTEGER: as few as possible, the first
\* below 128 (external: the encoding of certificates).
DerInteger(svn) ==
    IF svn < 128 THEN <<svn>>
    ELSE IF svn < 256 THEN <<0, svn>>
    ELSE IF svn < 32768 THEN <<svn \div 256, svn % 256>>
    ELSE <<0, svn \div 256, svn % 256>>

\* _findTcb visits CPUSVN_LENGTH + 1 SVNs and stores each that is not the PCE's at the
\* index it has in the sequence; an index beyond the array reverts.
TcbReadable(svns) ==
    /\ Len(svns) >= CPUSVN_LENGTH + 1
    /\ svns[CPUSVN_LENGTH + 1].pce

\* The PCE's SVN is the last one visited, the one TcbReadable asks for.
findTcb(svns) ==
    [pcesvn  |-> SvnValue(svns[CPUSVN_LENGTH + 1].octets),
     cpusvns |-> [i \in 1..CPUSVN_LENGTH |->
                    IF svns[i].pce THEN 0 ELSE SvnValue(svns[i].octets)]]

----------------------------------------------------------------------------
\* The identifiers among the first n entries of the SGX extension.
Visited(entries, n) == {entries[i].oid : i \in 1..n}

\* _findPckTcbInfo visits entries until it has seen all three identifiers.
SgxComplete(entries, n) == {TCB_OID, PCEID_OID, FMSPC_OID} \subseteq Visited(entries, n)

LastVisited(entries) == Min({n \in 1..Len(entries) : SgxComplete(entries, n)})

\* An entry that is repeated overwrites the one before it.
SgxField(entries, oid) ==
    entries[Max({i \in 1..LastVisited(entries) : entries[i].oid = oid})].value

findPckTcbInfo(entries) ==
    LET tcb == findTcb(SgxField(entries, TCB_OID))
    IN  [fmspc   |-> SgxField(entries, FMSPC_OID),
         pceid   |-> SgxField(entries, PCEID_OID),
         pcesvn  |-> tcb.pcesvn,
         cpusvns |-> tcb.cpusvns]

\* What decodeCert additionally asks of the first certificate.
PckDecodes(cert) ==
    /\ cert.issuerName = PCK_ISSUER_NAME
    /\ cert.commonName = PCK_COMMON_NAME
    /\ SgxComplete(cert.sgx, Len(cert.sgx))
    /\ \A i \in 1..LastVisited(cert.sgx) :
          cert.sgx[i].oid = TCB_OID => TcbReadable(cert.sgx[i].value)

\* decodeCert succeeds.  The test of the tags is the code's: of notBefore it refuses
\* GeneralizedTime alone, of notAfter whatever is neither of the two forms.
decodeCert(cert, isPckCert) ==
    /\ ~(cert.notBeforeTag # UTCTime /\ cert.notBeforeTag = GeneralizedTime)
    /\ cert.notAfterTag \in {UTCTime, GeneralizedTime}
    /\ isPckCert => PckDecodes(cert)
=============================================================================

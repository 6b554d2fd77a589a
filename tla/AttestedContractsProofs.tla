---------------------- MODULE AttestedContractsProofs ----------------------
(***************************************************************************)
(* Theorems about the two contracts, for any quotes, certificates,         *)
(* collateral and accounts, and about the dates of certificates.           *)
(***************************************************************************)
EXTENDS AttestedContracts, X509DateUtils, SGXVerifierProofs, WellFoundedInduction

----------------------------------------------------------------------------
(* The loops over arrays. *)

\* The order of the naturals as a relation without an infinite descent.
LEMMA NatOrder ==
  \E R : IsWellFoundedOn(R, Nat) /\ \A i, j \in Nat : j < i => <<j, i>> \in R
<1>1. \A i, j \in Nat : j < i => <<j, i>> \in OpToRel(<, Nat)
  BY Z3 DEF OpToRel
<1> QED
  BY <1>1, NatLessThanWellFounded, Zenon

\* A nonempty set of indices has a least element, the one FirstIndex chooses.
LEMMA FirstIndexLeast ==
  ASSUME NEW S, S \subseteq Nat, S # {}
  PROVE  \E k \in S : FirstIndex(S) = k /\ \A j \in S : k <= j
<1>1. PICK R : IsWellFoundedOn(R, Nat) /\ \A i, j \in Nat : j < i => <<j, i>> \in R
  BY NatOrder
<1>2. PICK i \in S : \A j \in S : ~(<<j, i>> \in R)
  <2>1. IsWellFoundedOn(R, Nat)
    BY <1>1
  <2> QED
    BY <2>1, WFMin, Zenon
<1>3. ASSUME NEW j \in S
      PROVE  i <= j
  <2>1. i \in Nat /\ j \in Nat
    OBVIOUS
  <2>2. j < i => <<j, i>> \in R
    BY <1>1, <2>1
  <2>3. ~(j < i)
    BY <1>2, <2>2
  <2> QED
    BY <2>1, <2>3
<1> QED
  BY <1>3 DEF FirstIndex

\* The loop over n elements stops at one in G when some element of G is in S and no
\* element before it is.
LEMMA FirstReached ==
  ASSUME NEW n \in Nat, NEW S \in SUBSET (1..n), NEW G
  PROVE  (S # {} /\ FirstIndex(S) \in G)
            <=> \E i \in 1..n : i \in S /\ i \in G /\ \A j \in 1..(i - 1) : j \notin S
<1>1. S \subseteq Nat
  OBVIOUS
<1>2. ASSUME S # {}
      PROVE  FirstIndex(S) \in G
                <=> \E i \in 1..n : i \in S /\ i \in G /\ \A j \in 1..(i - 1) : j \notin S
  <2>1. PICK k \in S : FirstIndex(S) = k /\ \A j \in S : k <= j
    BY <1>1, <1>2, FirstIndexLeast
  <2>2. k \in 1..n /\ \A j \in 1..(k - 1) : j \notin S
    BY <2>1
  <2>3. \A i \in 1..n : (i \in S /\ \A j \in 1..(i - 1) : j \notin S) => i = k
    BY <2>1
  <2> QED
    BY <2>1, <2>2, <2>3
<1> QED
  BY <1>2

----------------------------------------------------------------------------
(* The walk over the certificates. *)

\* Pass i does not break: the certificate is good and its issuer is not the root.
Passes(certs, now, i) ==
    /\ ~Revoked(certs, i)
    /\ NotExpired(certs[i], now)
    /\ certs[i].signature = IssuerOf(certs, i).pubKey

\* One pass of the loop that was not left yet ends in one of three ways: in trust, in
\* refusal, or with the next certificate to look at.
LEMMA PassEnds ==
  ASSUME NEW certs, NEW now, NEW i,
         NEW w \in [certRevoked : BOOLEAN, certNotExpired : BOOLEAN, verified : BOOLEAN,
                    certChainCanBeTrusted : BOOLEAN, done : BOOLEAN],
         ~w.done, ~w.certRevoked, ~w.certChainCanBeTrusted
  PROVE  LET v == WalkPass(certs, now, i, w)
             root == IssuerOf(certs, i).pubKey = RootKey
         IN  /\ v \in [certRevoked : BOOLEAN, certNotExpired : BOOLEAN, verified : BOOLEAN,
                       certChainCanBeTrusted : BOOLEAN, done : BOOLEAN]
             /\ v.done <=> ~Passes(certs, now, i) \/ root
             /\ v.certChainCanBeTrusted <=> Passes(certs, now, i) /\ root
             /\ Passes(certs, now, i) => v.certNotExpired /\ v.verified /\ ~v.certRevoked
  BY DEF WalkPass, Passes, verifyES256Signature

\* The walk accepts a chain that is trusted and no other.
LEMMA WalkExact ==
  ASSUME NEW certs, NEW now
  PROVE  verifyCertChain(certs, now) <=> ChainTrusted(certs, now)
<1> DEFINE Locals == [certRevoked : BOOLEAN, certNotExpired : BOOLEAN, verified : BOOLEAN,
                      certChainCanBeTrusted : BOOLEAN, done : BOOLEAN]
           P(i) == Passes(certs, now, i)
           R(i) == IssuerOf(certs, i).pubKey = RootKey
           w1 == WalkPass(certs, now, 1, WalkStart)
           w2 == WalkPass(certs, now, 2, w1)
           w3 == WalkPass(certs, now, 3, w2)
           Trusts(w) == ~w.certRevoked /\ w.certNotExpired /\ w.verified
                           /\ w.certChainCanBeTrusted
<1>1. verifyCertChain(certs, now) <=> Trusts(w3)
  BY DEF verifyCertChain
<1>2. /\ WalkStart \in Locals
      /\ ~WalkStart.done /\ ~WalkStart.certRevoked /\ ~WalkStart.certChainCanBeTrusted
  BY DEF WalkStart
<1>3. /\ w1 \in Locals
      /\ w1.done <=> ~P(1) \/ R(1)
      /\ w1.certChainCanBeTrusted <=> P(1) /\ R(1)
      /\ P(1) => w1.certNotExpired /\ w1.verified /\ ~w1.certRevoked
  BY <1>2, PassEnds
<1>4. w1.done => w2 = w1 /\ w3 = w1
  BY DEF WalkPass
<1>5. ~w1.done => /\ w2 \in Locals
                  /\ w2.done <=> ~P(2) \/ R(2)
                  /\ w2.certChainCanBeTrusted <=> P(2) /\ R(2)
                  /\ P(2) => w2.certNotExpired /\ w2.verified /\ ~w2.certRevoked
  BY <1>3, PassEnds
<1>6. w2.done => w3 = w2
  BY DEF WalkPass
<1>7. ~w1.done /\ ~w2.done => /\ w3.certChainCanBeTrusted <=> P(3) /\ R(3)
                              /\ P(3) => w3.certNotExpired /\ w3.verified /\ ~w3.certRevoked
  BY <1>3, <1>5, PassEnds
<1>8. Trusts(w3) <=> \/ P(1) /\ R(1)
                     \/ P(1) /\ P(2) /\ R(2)
                     \/ P(1) /\ P(2) /\ P(3) /\ R(3)
  <2> HIDE DEF P, R, w1, w2, w3
  <2>1. CASE w1.done
    BY <2>1, <1>3, <1>4
  <2>2. CASE ~w1.done /\ w2.done
    BY <2>2, <1>3, <1>5, <1>6
  <2>3. CASE ~w1.done /\ ~w2.done
    BY <2>3, <1>3, <1>5, <1>7
  <2> QED
    BY <2>1, <2>2, <2>3
<1>9. ChainTrusted(certs, now) <=> \E top \in 1..3 : R(top) /\ \A i \in 1..top : P(i)
  BY DEF ChainTrusted, Passes
<1>10. (\E top \in 1..3 : R(top) /\ \A i \in 1..top : P(i))
          <=> \/ P(1) /\ R(1)
              \/ P(1) /\ P(2) /\ R(2)
              \/ P(1) /\ P(2) /\ P(3) /\ R(3)
  <2> HIDE DEF P, R
  <2>1. 1..3 = {1, 2, 3} /\ 1..1 = {1} /\ 1..2 = {1, 2}
    OBVIOUS
  <2> QED
    BY <2>1
<1> QED
  BY <1>1, <1>8, <1>9, <1>10

----------------------------------------------------------------------------
(* What the collateral says of a quote. *)

\* The quoting enclave is verified when the owner's identity admits it.
LEMMA QuotingEnclaveExact ==
  ASSUME NEW q, Len(qeIdentity.tcbLevels) \in Nat
  PROVE  QeIdentityVerified(Content[q].qeReport) <=> Admits("quotingEnclave", q)
<1> DEFINE qe == Content[q].qeReport
           n == Len(qeIdentity.tcbLevels)
           Reached(i) == qeIdentity.tcbLevels[i].isvsvn <= qe.isvSvn
           Good(i) == qeIdentity.tcbLevels[i].tcbStatus # "SGX_ENCLAVE_REPORT_ISVSVN_REVOKED"
           S == {i \in 1..n : Reached(i)}
           G == {i \in 1..n : Good(i)}
<1>1. S # {} /\ FirstIndex(S) \in G
         <=> \E i \in 1..n : i \in S /\ i \in G /\ \A j \in 1..(i - 1) : j \notin S
  <2>1. n \in Nat /\ S \in SUBSET (1..n)
    OBVIOUS
  <2> HIDE DEF n, S, G
  <2> QED
    BY <2>1, FirstReached
<1>2. S # {} => (FirstIndex(S) \in G <=> Good(FirstIndex(S)))
  <2>1. ASSUME S # {} PROVE FirstIndex(S) \in 1..n
    <3> HIDE DEF Reached
    <3>1. S \subseteq Nat
      OBVIOUS
    <3> QED
      BY <2>1, <3>1, FirstIndexLeast
  <2> QED
    BY <2>1
<1>3. (\E i \in 1..n : i \in S /\ i \in G /\ \A j \in 1..(i - 1) : j \notin S)
         <=> \E i \in 1..n : Reached(i) /\ Good(i) /\ \A j \in 1..(i - 1) : ~Reached(j)
  <2> HIDE DEF Reached, Good, n
  <2>1. \A i \in 1..n : \A j \in 1..(i - 1) : j \in 1..n
    BY n \in Nat DEF n
  <2> QED
    BY <2>1
<1> QED
  BY <1>1, <1>2, <1>3 DEF QeIdentityVerified, Admits

\* The platform passes steps 5 and 6 with a good status when the TCB info admits it.
LEMMA PlatformExact ==
  ASSUME NEW q \in Decodable, Len(tcbInfo[Pck[q].fmspc].tcbLevels) \in Nat
  PROVE  /\ TcbConfigured(Pck[q])
         /\ attestationTcbIsValid(checkTcbLevels(Pck[q], tcbInfo[Pck[q].fmspc]))
         <=> Admits("platform", q)
<1> DEFINE levels == tcbInfo[Pck[q].fmspc].tcbLevels
           n == Len(levels)
           OK(i) == levels[i].status \in {"OK", "TCB_SW_HARDENING_NEEDED"}
           S == {i \in 1..n : Reaches(Pck[q], levels[i])}
           G == {i \in 1..n : OK(i)}
<1>1. S # {} /\ FirstIndex(S) \in G
         <=> \E i \in 1..n : i \in S /\ i \in G /\ \A j \in 1..(i - 1) : j \notin S
  <2>1. n \in Nat /\ S \in SUBSET (1..n)
    OBVIOUS
  <2> HIDE DEF n, S, G
  <2> QED
    BY <2>1, FirstReached
<1>2. S # {} => (FirstIndex(S) \in G <=> OK(FirstIndex(S)))
  <2>1. ASSUME S # {} PROVE FirstIndex(S) \in 1..n
    <3>1. S \subseteq Nat
      OBVIOUS
    <3> QED
      BY <2>1, <3>1, FirstIndexLeast
  <2> QED
    BY <2>1
<1>3. (\E i \in 1..n : i \in S /\ i \in G /\ \A j \in 1..(i - 1) : j \notin S)
         <=> \E i \in 1..n : /\ Reaches(Pck[q], levels[i]) /\ OK(i)
                             /\ \A j \in 1..(i - 1) : ~Reaches(Pck[q], levels[j])
  <2> HIDE DEF OK, n
  <2>1. \A i \in 1..n : \A j \in 1..(i - 1) : j \in 1..n
    BY n \in Nat DEF n
  <2> QED
    BY <2>1
<1>4. attestationTcbIsValid(checkTcbLevels(Pck[q], tcbInfo[Pck[q].fmspc]))
         <=> S # {} /\ OK(FirstIndex(S))
  BY DEF attestationTcbIsValid, checkTcbLevels
<1> QED
  BY <1>1, <1>2, <1>3, <1>4 DEF Admits

\* verify decides exactly what it should, in every state with typed collateral.
LEMMA VerdictOfQuote ==
  ASSUME DcapTypeOK, NEW q \in Quotes, NEW now
  PROVE  verify(q, now).valid <=> /\ parseInput(Content[q].shape)
                                  /\ Authentic(q, now)
                                  /\ \A a \in Aspect : Admits(a, q)
<1>1. QeIdentityVerified(Content[q].qeReport) <=> Admits("quotingEnclave", q)
  BY QuotingEnclaveExact, DcapAssumption DEF DcapTypeOK
<1>2. LocalReportTrusted(q) <=> Admits("enclave", q)
  BY DEF LocalReportTrusted, Admits
<1>3. verifyCertChain(Content[q].certs, now) <=> ChainTrusted(Content[q].certs, now)
  BY WalkExact
<1>4. EnclaveReportSigsVerified(q)
         <=> /\ Content[q].qeReportSignature = Content[q].certs[1].pubKey
             /\ Content[q].qeReport.reportData
                   = <<Content[q].attestationKey, Content[q].qeAuthData>>
             /\ Content[q].signature = Content[q].attestationKey
  BY DEF EnclaveReportSigsVerified, verifyES256Signature
<1>5. Admits("platform", q) => q \in Decodable
  BY DEF Admits
<1>6. q \in Decodable =>
         ( /\ TcbConfigured(Pck[q])
           /\ attestationTcbIsValid(checkTcbLevels(Pck[q], tcbInfo[Pck[q].fmspc]))
           <=> Admits("platform", q) )
  BY PlatformExact, QuoteAssumption, DcapAssumption DEF DcapTypeOK
<1>7. attestationTcbIsValid(checkTcbLevels(Pck[q], tcbInfo[Pck[q].fmspc]))
         => checkTcbLevels(Pck[q], tcbInfo[Pck[q].fmspc]) # "TCB_REVOKED"
  BY DEF attestationTcbIsValid
<1>8. (\A a \in Aspect : Admits(a, q))
         <=> Admits("enclave", q) /\ Admits("quotingEnclave", q) /\ Admits("platform", q)
  BY DEF Aspect
<1>9. verify(q, now).valid
         <=> /\ QuoteVerified(q, now)
             /\ attestationTcbIsValid(checkTcbLevels(Pck[q], tcbInfo[Pck[q].fmspc]))
  BY DEF verify
<1> QED
  BY <1>1, <1>2, <1>3, <1>4, <1>5, <1>6, <1>7, <1>8, <1>9 DEF QuoteVerified, Authentic

----------------------------------------------------------------------------
(* The inductive invariant. *)

\* The history of refusals is the collateral's, and no quote the collateral has refused
\* since some time has registered a prover after it.
RefusalHistory ==
    /\ \A a \in Aspect, q \in Quotes :
          /\ refusedSince[<<a, q>>] = 0 <=> Admits(a, q)
          /\ refusedSince[<<a, q>>] <= timestamp
    /\ \A p \in Address, a \in Aspect :
          registeredBy[p] \in Quotes /\ refusedSince[<<a, registeredBy[p]>>] # 0 =>
             attestedProvers[p] <= refusedSince[<<a, registeredBy[p]>>]

AttestedInv ==
    /\ AttestedTypeOK
    /\ \A p \in Address : attestedProvers[p] <= timestamp
    /\ RegistrationJustified
    /\ RefusalHistory

\* The empty collateral refuses every quote, and no prover is registered.
LEMMA AttestedInitInv == AttestedInit => AttestedInv
<1> SUFFICES ASSUME AttestedInit PROVE AttestedInv
  OBVIOUS
<1> USE DEF AttestedInit
<1>1. ContractTypeOK
  BY ContractTyping
<1>2. DcapTypeOK
  BY DcapAssumption DEF DcapInit, DcapTypeOK
<1>3. timestamp \in Nat \ {0} /\ \A p \in Address : attestedProvers[p] = 0
  BY ContractAssumption DEF ContractInit
<1>4. /\ registeredBy \in [Address -> Quotes \cup {NoQuote}]
      /\ refusedSince \in [Aspect \X Quotes -> Nat]
  BY <1>3
<1>5. \A a \in Aspect, q \in Quotes :
         refusedSince[<<a, q>>] = IF Admits(a, q) THEN 0 ELSE timestamp
  OBVIOUS
<1>6. RefusalHistory
  BY <1>3, <1>4, <1>5 DEF RefusalHistory
<1> QED
  BY <1>1, <1>2, <1>3, <1>4, <1>6 DEF AttestedInv, AttestedTypeOK, RegistrationJustified

\* submitAttestationReport: the quote is authentic now, and the collateral admits it now.
LEMMA SubmitInv ==
  ASSUME AttestedInv, NEW p \in Address, NEW q \in Quotes, SubmitQuote(p, q)
  PROVE  AttestedInv'
<1> DEFINE report == [valid |-> verify(q, timestamp).valid,
                      prover |-> verify(q, timestamp).reportData]
<1>1. /\ submitAttestationReport(p, report)
      /\ registeredBy' = [registeredBy EXCEPT ![p] = q]
      /\ UNCHANGED <<dcapVars, refusedSince>>
  BY DEF SubmitQuote
<1>2. /\ verify(q, timestamp).valid
      /\ verify(q, timestamp).reportData = p
      /\ attestedProvers' = [attestedProvers EXCEPT ![p] = timestamp]
      /\ UNCHANGED <<owner, attestValiditySeconds, batches, timestamp, commitLog>>
  BY <1>1 DEF submitAttestationReport, checkAttestation
<1>3. /\ Content[q].reportData = p
      /\ Authentic(q, timestamp)
      /\ \A a \in Aspect : Admits(a, q)
  <2>1. /\ parseInput(Content[q].shape)
        /\ Authentic(q, timestamp)
        /\ \A a \in Aspect : Admits(a, q)
    BY <1>2, VerdictOfQuote DEF AttestedInv, AttestedTypeOK
  <2> QED
    BY <1>2, <2>1 DEF verify
<1>4. /\ \A a, r : Admits(a, r)' <=> Admits(a, r)
      /\ \A r, now : Authentic(r, now)' <=> Authentic(r, now)
  BY <1>1 DEF dcapVars, Admits, Authentic, ChainTrusted, Revoked, TcbConfigured
<1>5. AttestedTypeOK'
  BY <1>1, <1>2 DEF AttestedInv, AttestedTypeOK, ContractTypeOK, DcapTypeOK, dcapVars
<1>6. \A x \in Address : attestedProvers'[x] <= timestamp'
  BY <1>2 DEF AttestedInv, AttestedTypeOK, ContractTypeOK
<1>7. RegistrationJustified'
  BY <1>1, <1>2, <1>3, <1>4 DEF AttestedInv, AttestedTypeOK, ContractTypeOK,
     RegistrationJustified
<1>8. RefusalHistory'
  <2>1. \A a \in Aspect, r \in Quotes : /\ refusedSince'[<<a, r>>] = 0 <=> Admits(a, r)'
                                        /\ refusedSince'[<<a, r>>] <= timestamp'
    BY <1>1, <1>2, <1>4 DEF AttestedInv, RefusalHistory
  <2>2. ASSUME NEW x \in Address, NEW a \in Aspect, registeredBy'[x] \in Quotes,
               refusedSince'[<<a, registeredBy'[x]>>] # 0
        PROVE  attestedProvers'[x] <= refusedSince'[<<a, registeredBy'[x]>>]
    <3>1. CASE x = p
      <4>1. registeredBy'[x] = q
        BY <1>1, <3>1 DEF AttestedInv, AttestedTypeOK
      <4> QED
        BY <4>1, <2>2, <1>1, <1>3 DEF AttestedInv, RefusalHistory
    <3>2. CASE x # p
      BY <3>2, <2>2, <1>1, <1>2 DEF AttestedInv, AttestedTypeOK, ContractTypeOK,
         RefusalHistory
    <3> QED
      BY <3>1, <3>2
  <2> QED
    BY <2>1, <2>2 DEF RefusalHistory
<1> QED
  BY <1>5, <1>6, <1>7, <1>8 DEF AttestedInv

\* The registry's other calls and the passing of time leave registrations alone.
LEMMA VerifierInv ==
  ASSUME AttestedInv, VerifierStep
  PROVE  AttestedInv'
<1>1. UNCHANGED <<dcapVars, registeredBy, refusedSince>>
  BY DEF VerifierStep
<1>2. ContractNext
  BY DEF VerifierStep, ContractNext
<1>3. ContractTypeOK'
  BY <1>2, ContractTypingStep DEF AttestedInv, AttestedTypeOK
<1>4. attestedProvers' = attestedProvers /\ timestamp <= timestamp'
  <2>1. timestamp \in Nat
    BY DEF AttestedInv, AttestedTypeOK, ContractTypeOK
  <2>2. attestedProvers' = attestedProvers /\ timestamp' \in {timestamp, timestamp + 1}
    BY DEF VerifierStep, changeOwner, changeAttestValiditySeconds, commitBatch, StoreBatch,
       NewBlock
  <2> QED
    BY <2>1, <2>2
<1>5. /\ \A a, r : Admits(a, r)' <=> Admits(a, r)
      /\ \A r, now : Authentic(r, now)' <=> Authentic(r, now)
  BY <1>1 DEF dcapVars, Admits, Authentic, ChainTrusted, Revoked, TcbConfigured
<1>6. AttestedTypeOK'
  BY <1>1, <1>3 DEF AttestedInv, AttestedTypeOK, DcapTypeOK, dcapVars
<1>7. \A x \in Address : attestedProvers'[x] <= timestamp'
  <2>1. /\ timestamp \in Nat /\ timestamp' \in Nat
        /\ \A x \in Address : attestedProvers[x] \in Nat
    BY <1>3 DEF AttestedInv, AttestedTypeOK, ContractTypeOK
  <2> QED
    BY <2>1, <1>4 DEF AttestedInv
<1>8. RegistrationJustified'
  BY <1>1, <1>4, <1>5 DEF AttestedInv, RegistrationJustified
<1>9. RefusalHistory'
  <2>1. ASSUME NEW a \in Aspect, NEW q \in Quotes
        PROVE  refusedSince[<<a, q>>] <= timestamp'
    <3>1. refusedSince[<<a, q>>] \in Nat /\ timestamp \in Nat /\ timestamp' \in Nat
      BY <1>3 DEF AttestedInv, AttestedTypeOK, ContractTypeOK
    <3>2. refusedSince[<<a, q>>] <= timestamp
      BY DEF AttestedInv, RefusalHistory
    <3> QED
      BY <3>1, <3>2, <1>4
  <2> QED
    BY <2>1, <1>1, <1>4, <1>5 DEF AttestedInv, RefusalHistory
<1> QED
  BY <1>6, <1>7, <1>8, <1>9 DEF AttestedInv

\* The owner's calls keep the collateral typed and revoke nothing.
LEMMA CollateralTyping ==
  ASSUME DcapTypeOK, DcapNext
  PROVE  DcapTypeOK' /\ serialNumIsRevoked' = serialNumIsRevoked
<1>1. PICK s \in Caller :
        \/ toggleLocalReportCheck(s)
        \/ \E m \in MrSigner, t \in BOOLEAN : setMrSigner(s, m, t)
        \/ \E m \in MrEnclave, t \in BOOLEAN : setMrEnclave(s, m, t)
        \/ \E f \in Fmspc, i \in TcbInfos : configureTcbInfoJson(s, f, i)
        \/ \E i \in QeIdentities : configureQeIdentityJson(s, i)
  BY DEF DcapNext
<1> USE DEF DcapTypeOK
<1>2. CASE toggleLocalReportCheck(s)
  BY <1>2 DEF toggleLocalReportCheck
<1>3. ASSUME NEW m \in MrSigner, NEW t \in BOOLEAN, setMrSigner(s, m, t)
      PROVE  DcapTypeOK' /\ serialNumIsRevoked' = serialNumIsRevoked
  BY <1>3 DEF setMrSigner, SetTrusted
<1>4. ASSUME NEW m \in MrEnclave, NEW t \in BOOLEAN, setMrEnclave(s, m, t)
      PROVE  DcapTypeOK' /\ serialNumIsRevoked' = serialNumIsRevoked
  BY <1>4 DEF setMrEnclave, SetTrusted
<1>5. ASSUME NEW f \in Fmspc, NEW i \in TcbInfos, configureTcbInfoJson(s, f, i)
      PROVE  DcapTypeOK' /\ serialNumIsRevoked' = serialNumIsRevoked
  BY <1>5 DEF configureTcbInfoJson
<1>6. ASSUME NEW i \in QeIdentities, configureQeIdentityJson(s, i)
      PROVE  DcapTypeOK' /\ serialNumIsRevoked' = serialNumIsRevoked
  BY <1>6 DEF configureQeIdentityJson
<1> QED
  BY <1>1, <1>2, <1>3, <1>4, <1>5, <1>6

\* A quote the new collateral refuses is refused since now or since before: no earlier
\* than any registration it gave.
LEMMA CollateralInv ==
  ASSUME AttestedInv, CollateralStep
  PROVE  AttestedInv'
<1>1. /\ DcapNext
      /\ refusedSince' = [c \in Aspect \X Quotes |->
                            IF Admits(c[1], c[2])' THEN 0
                            ELSE IF refusedSince[c] = 0 THEN timestamp ELSE refusedSince[c]]
      /\ UNCHANGED <<contractVars, registeredBy>>
  BY DEF CollateralStep
<1>2. DcapTypeOK' /\ serialNumIsRevoked' = serialNumIsRevoked
  BY <1>1, CollateralTyping DEF AttestedInv, AttestedTypeOK
<1>3. \A r, now : Authentic(r, now)' <=> Authentic(r, now)
  BY <1>2 DEF Authentic, ChainTrusted, Revoked
<1>4. timestamp \in Nat \ {0} /\ \A x \in Address : attestedProvers[x] \in Nat
  BY ContractAssumption DEF AttestedInv, AttestedTypeOK, ContractTypeOK
<1>5. \A a \in Aspect, q \in Quotes : refusedSince[<<a, q>>] \in Nat
  BY DEF AttestedInv, AttestedTypeOK
<1>6. ASSUME NEW a \in Aspect, NEW q \in Quotes
      PROVE  refusedSince'[<<a, q>>]
                = IF Admits(a, q)' THEN 0
                  ELSE IF refusedSince[<<a, q>>] = 0 THEN timestamp ELSE refusedSince[<<a, q>>]
  BY <1>1, Zenon
<1>7. AttestedTypeOK'
  <2>1. \A c \in Aspect \X Quotes : refusedSince[c] \in Nat
    BY DEF AttestedInv, AttestedTypeOK
  <2>2. refusedSince' \in [Aspect \X Quotes -> Nat]
    BY <2>1, <1>1, <1>4
  <2> QED
    BY <2>2, <1>1, <1>2 DEF AttestedInv, AttestedTypeOK, ContractTypeOK, contractVars
<1>8. RegistrationJustified'
  BY <1>1, <1>3 DEF AttestedInv, RegistrationJustified, contractVars
<1>9. RefusalHistory'
  <2>1. ASSUME NEW a \in Aspect, NEW q \in Quotes
        PROVE  /\ refusedSince'[<<a, q>>] = 0 <=> Admits(a, q)'
               /\ refusedSince'[<<a, q>>] <= timestamp
    <3>1. refusedSince[<<a, q>>] <= timestamp
      BY DEF AttestedInv, RefusalHistory
    <3>2. CASE Admits(a, q)'
      BY <3>2, <1>4, <1>6
    <3>3. CASE ~Admits(a, q)'
      BY <3>1, <3>3, <1>4, <1>5, <1>6
    <3> QED
      BY <3>2, <3>3
  <2>2. ASSUME NEW x \in Address, NEW a \in Aspect, registeredBy[x] \in Quotes,
               refusedSince'[<<a, registeredBy[x]>>] # 0
        PROVE  attestedProvers[x] <= refusedSince'[<<a, registeredBy[x]>>]
    BY <2>2, <1>4, <1>5, <1>6 DEF AttestedInv, RefusalHistory
  <2> QED
    BY <2>1, <2>2, <1>1 DEF RefusalHistory, contractVars
<1>10. \A x \in Address : attestedProvers'[x] <= timestamp'
  BY <1>1 DEF AttestedInv, contractVars
<1> QED
  BY <1>7, <1>8, <1>9, <1>10 DEF AttestedInv

\* Every step keeps the invariant.
LEMMA AttestedStepInv == AttestedInv /\ [AttestedNext]_attestedVars => AttestedInv'
<1> SUFFICES ASSUME AttestedInv, [AttestedNext]_attestedVars PROVE AttestedInv'
  OBVIOUS
<1>1. CASE \E p \in Address, q \in Quotes : SubmitQuote(p, q)
  BY <1>1, SubmitInv
<1>2. CASE VerifierStep
  BY <1>2, VerifierInv
<1>3. CASE CollateralStep
  BY <1>3, CollateralInv
<1>4. CASE UNCHANGED attestedVars
  <2>1. UNCHANGED <<contractVars, dcapVars, registeredBy, refusedSince>>
    BY <1>4 DEF attestedVars
  <2>2. /\ \A a, r : Admits(a, r)' <=> Admits(a, r)
        /\ \A r, now : Authentic(r, now)' <=> Authentic(r, now)
    BY <2>1 DEF dcapVars, Admits, Authentic, ChainTrusted, Revoked, TcbConfigured
  <2>3. AttestedTypeOK'
    BY <2>1 DEF AttestedInv, AttestedTypeOK, ContractTypeOK, DcapTypeOK, contractVars, dcapVars
  <2> QED
    BY <2>1, <2>2, <2>3 DEF AttestedInv, RegistrationJustified, RefusalHistory, contractVars
<1> QED
  BY <1>1, <1>2, <1>3, <1>4 DEF AttestedNext

\* The invariant holds in every reachable state.
LEMMA AttestedInvAlways == AttestedSpec => []AttestedInv
  BY AttestedInitInv, AttestedStepInv, PTL DEF AttestedSpec

----------------------------------------------------------------------------
(* The theorems. *)

\* Both contracts' storage and the history keep their types.
THEOREM AttestedTypeCorrect == AttestedSpec => []AttestedTypeOK
<1>1. AttestedInv => AttestedTypeOK
  BY DEF AttestedInv
<1> QED
  BY <1>1, AttestedInvAlways, PTL

\* For every quote, chain of certificates and collateral, at every moment: verify accepts
\* what is authentic and admitted, and nothing else.
THEOREM VerdictIsExact == AttestedSpec => []VerdictExact
<1>1. AttestedInv => VerdictExact
  BY VerdictOfQuote DEF AttestedInv, AttestedTypeOK, VerdictExact
<1> QED
  BY <1>1, AttestedInvAlways, PTL

\* A registered prover has an authentic quote that names it.
THEOREM RegistrationsAreJustified == AttestedSpec => []RegistrationJustified
<1>1. AttestedInv => RegistrationJustified
  BY DEF AttestedInv
<1> QED
  BY <1>1, AttestedInvAlways, PTL

\* A prover whose quote is refused is out of date one validity period later.
THEOREM DistrustIsEffective == AttestedSpec => []DistrustTakesEffect
<1>1. AttestedInv => DistrustTakesEffect
  <2> SUFFICES ASSUME AttestedInv, NEW p \in Address, NEW a \in Aspect,
                      registeredBy[p] \in Quotes, refusedSince[<<a, registeredBy[p]>>] # 0,
                      Accepted(p)
               PROVE  timestamp < refusedSince[<<a, registeredBy[p]>>] + attestValiditySeconds
    BY DEF DistrustTakesEffect
  <2>1. attestedProvers[p] <= refusedSince[<<a, registeredBy[p]>>]
    BY DEF AttestedInv, RefusalHistory
  <2>2. timestamp < attestedProvers[p] + attestValiditySeconds
    BY DEF Accepted, AttestedInv, AttestedTypeOK, ContractTypeOK
  <2>3. /\ timestamp \in Nat /\ attestedProvers[p] \in Nat /\ attestValiditySeconds \in Nat
        /\ refusedSince[<<a, registeredBy[p]>>] \in Nat
    BY ContractAssumption DEF AttestedInv, AttestedTypeOK, ContractTypeOK
  <2> QED
    BY <2>1, <2>2, <2>3
<1> QED
  BY <1>1, AttestedInvAlways, PTL

\* The registry, seen alone, behaves as the contract with arbitrary verdicts: what is
\* proved of ContractSpec holds of the two contracts together.
THEOREM RegistryUnderAttestation == AttestedSpec => []CommitsWithinValidity /\ []LogMatchesStorage
<1>1. AttestedInit => ContractInit
  BY DEF AttestedInit
<1>2. AttestedInv /\ [AttestedNext]_attestedVars => [ContractNext]_contractVars
  <2> SUFFICES ASSUME AttestedInv, [AttestedNext]_attestedVars PROVE [ContractNext]_contractVars
    OBVIOUS
  <2>1. ASSUME NEW p \in Address, NEW q \in Quotes, SubmitQuote(p, q)
        PROVE  ContractNext
    <3> DEFINE report == [valid |-> verify(q, timestamp).valid,
                          prover |-> verify(q, timestamp).reportData]
    <3>1. submitAttestationReport(p, report)
      BY <2>1 DEF SubmitQuote
    <3>2. submitAttestationReport(p, [valid |-> TRUE, prover |-> p])
      BY <3>1 DEF submitAttestationReport, checkAttestation
    <3> QED
      BY <3>2 DEF ContractNext, Report
  <2>2. CASE VerifierStep
    BY <2>2 DEF VerifierStep, ContractNext
  <2>3. CASE CollateralStep \/ UNCHANGED attestedVars
    BY <2>3 DEF CollateralStep, attestedVars
  <2> QED
    BY <2>1, <2>2, <2>3 DEF AttestedNext
<1>3. AttestedSpec => ContractSpec
  BY <1>1, <1>2, AttestedInvAlways, PTL DEF AttestedSpec, ContractSpec
<1> QED
  BY <1>3, CommitsAreFresh, EventsMatchStorage, PTL

\* Whatever sizes a quote claims, its pieces lie inside it and do not overlap.
THEOREM QuotePiecesDisjoint == \A s \in Shape : PiecesDisjoint(s)
  BY DEF Shape, PiecesDisjoint, Pieces, parseInput, AuthDataInRange, HasBytes, CertOffset,
     SignedLength, AuthStart, MINIMUM_QUOTE_LENGTH
----------------------------------------------------------------------------
\* A security version number below 32768 is read as itself (PEMCertChainLib's _findTcb: one
\* octet, or the first two).  Larger ones have a third octet, which _findTcb drops.
THEOREM SmallSvnsRead ==
    ASSUME NEW svn \in 0..32767
    PROVE  SvnValue(DerInteger(svn)) = svn
<1>1. svn = (svn \div 256) * 256 + (svn % 256)
  OBVIOUS
<1>2. CASE svn < 128
  <2>1. DerInteger(svn) = <<svn>>
    BY <1>2 DEF DerInteger
  <2> QED
    BY <2>1 DEF SvnValue
<1>3. CASE svn >= 128 /\ svn < 256
  <2>1. DerInteger(svn) = <<0, svn>>
    BY <1>3 DEF DerInteger
  <2> QED
    BY <2>1 DEF SvnValue
<1>4. CASE svn >= 256
  <2>1. DerInteger(svn) = <<svn \div 256, svn % 256>>
    BY <1>4 DEF DerInteger
  <2> QED
    BY <1>1, <2>1 DEF SvnValue
<1> QED
  BY <1>2, <1>3, <1>4

----------------------------------------------------------------------------
(* Dates *)

\* The equations of the recursion in Sums, for the first rounds.
Rounds(f, length, n) == f = [i \in 0 .. n |-> IF i = 0 THEN 0 ELSE f[i - 1] + length[i]]

\* There is a function that satisfies them.
LEMMA RoundsExist ==
  ASSUME NEW length, NEW n \in Nat
  PROVE  \E f : Rounds(f, length, n)
<1> DEFINE Bad == {m \in Nat : ~\E f : Rounds(f, length, m)}
<1> SUFFICES ASSUME Bad # {}
             PROVE  FALSE
  OBVIOUS
<1>1. PICK m \in Bad : \A j \in Bad : m <= j
  <2> HIDE DEF Bad
  <2>1. Bad \subseteq Nat
    BY DEF Bad
  <2> QED
    BY <2>1, FirstIndexLeast
<1>2. CASE m = 0
  <2> DEFINE g == [i \in 0 .. 0 |-> 0]
  <2>1. \A i \in 0 .. 0 : g[i] = IF i = 0 THEN 0 ELSE g[i - 1] + length[i]
    OBVIOUS
  <2>2. Rounds(g, length, 0)
    <3>1. g = [i \in 0 .. 0 |-> g[i]]
      OBVIOUS
    <3> HIDE DEF g
    <3> QED
      BY <2>1, <3>1, Zenon DEF Rounds
  <2> QED
    BY <1>1, <1>2, <2>2
<1>3. CASE m # 0
  <2>1. m - 1 \in Nat /\ m - 1 \notin Bad /\ m \in Nat
    BY <1>1, <1>3
  <2>2. PICK f : Rounds(f, length, m - 1)
    BY <2>1
  <2> DEFINE g == [i \in 0 .. m |-> IF i = m THEN f[m - 1] + length[m] ELSE f[i]]
  <2>3. \A i \in 0 .. m : g[i] = IF i = 0 THEN 0 ELSE g[i - 1] + length[i]
    <3>1. \A i \in 0 .. m - 1 : f[i] = IF i = 0 THEN 0 ELSE f[i - 1] + length[i]
      BY <2>2, Zenon DEF Rounds
    <3>2. \A i \in 0 .. m - 1 : g[i] = f[i] /\ (i # 0 => g[i - 1] = f[i - 1])
      BY <2>1
    <3>3. g[m] = f[m - 1] + length[m] /\ g[m - 1] = f[m - 1] /\ m # 0
      BY <1>3, <2>1
    <3> HIDE DEF g
    <3>4. ASSUME NEW i \in 0 .. m - 1
          PROVE  g[i] = IF i = 0 THEN 0 ELSE g[i - 1] + length[i]
      BY <3>1, <3>2, Zenon
    <3>5. \A i \in 0 .. m : i = m \/ i \in 0 .. m - 1
      BY <2>1
    <3>6. g[m] = IF m = 0 THEN 0 ELSE g[m - 1] + length[m]
      BY <3>3, Zenon
    <3> QED
      BY <3>4, <3>5, <3>6, Zenon
  <2>4. Rounds(g, length, m)
    <3>1. g = [i \in 0 .. m |-> g[i]]
      OBVIOUS
    <3> HIDE DEF g
    <3> QED
      BY <2>3, <3>1, Zenon DEF Rounds
  <2> QED
    BY <1>1, <2>4
<1> QED
  BY <1>2, <1>3

\* A loop that adds up starts at nothing and adds one length in each round.
LEMMA SumsDef ==
  ASSUME NEW length, NEW n \in Nat
  PROVE  /\ Sums(length, n)[0] = 0
         /\ \A i \in 1 .. n : Sums(length, n)[i] = Sums(length, n)[i - 1] + length[i]
<1> DEFINE s == CHOOSE f : Rounds(f, length, n)
<1>1. Sums(length, n) = s
  BY Zenon DEF Sums, Rounds
<1>2. Rounds(s, length, n)
  BY RoundsExist, Zenon
<1> HIDE DEF s
<1>3. \A i \in 0 .. n : s[i] = IF i = 0 THEN 0 ELSE s[i - 1] + length[i]
  BY <1>2, Zenon DEF Rounds
<1>4. 0 \in 0 .. n /\ \A i \in 1 .. n : i \in 0 .. n /\ i # 0
  OBVIOUS
<1>5. s[0] = 0 /\ \A i \in 1 .. n : s[i] = s[i - 1] + length[i]
  BY <1>3, <1>4, Zenon
<1> QED
  BY <1>1, <1>5

\* The days before a year and, in it, before a month, as the loops count them.
YearStart(y)     == Sums(yearLengths, MaxYears)[y - 1970]
MonthStart(y, m) == Sums(monthLengths(y), 12)[m - 1]

\* The years follow each other.
LEMMA YearStarts ==
  /\ YearStart(1970) = 0
  /\ \A y \in 1970 .. 2299 : YearStart(y + 1) = YearStart(y) + IF isLeapYear(y) THEN 366 ELSE 365
<1> DEFINE s == Sums(yearLengths, MaxYears)
<1>1. MaxYears \in Nat /\ 330 <= MaxYears
  BY SMT DEF MaxYears, MaxUint16
<1>2. ASSUME NEW y \in 1970 .. 2299
      PROVE  y - 1969 \in 1 .. MaxYears
  <2>1. y \in Int /\ 1 <= y - 1969 /\ y - 1969 <= 330
    OBVIOUS
  <2> QED
    BY <1>1, <2>1
<1>3. s[0] = 0 /\ \A i \in 1 .. MaxYears : s[i] = s[i - 1] + yearLengths[i]
  BY <1>1, SumsDef
<1> HIDE DEF s
<1>4. \A i \in 1 .. MaxYears : yearLengths[i] = IF isLeapYear(1969 + i) THEN 366 ELSE 365
  BY DEF yearLengths
<1>5. ASSUME NEW y \in 1970 .. 2299
      PROVE  s[(y + 1) - 1970] = s[y - 1970] + IF isLeapYear(y) THEN 366 ELSE 365
  <2> DEFINE i == y - 1969
  <2>1. i \in 1 .. MaxYears
    BY <1>2
  <2>2. 1969 + i = y /\ (y + 1) - 1970 = i /\ i - 1 = y - 1970
    OBVIOUS
  <2> HIDE DEF i
  <2>3. yearLengths[i] = IF isLeapYear(y) THEN 366 ELSE 365
    BY <1>4, <2>1, <2>2
  <2>4. s[i] = s[i - 1] + yearLengths[i]
    BY <1>3, <2>1
  <2> QED
    BY <2>2, <2>3, <2>4
<1>6. 1970 - 1970 = 0
  OBVIOUS
<1> QED
  BY <1>3, <1>5, <1>6 DEF YearStart, s

\* So do the months.
LEMMA MonthStarts ==
  ASSUME NEW y
  PROVE  /\ MonthStart(y, 1) = 0
         /\ \A m \in 1 .. 11 : MonthStart(y, m + 1) = MonthStart(y, m) + monthDays(y, m)
<1> DEFINE s == Sums(monthLengths(y), 12)
<1>1. s[0] = 0 /\ \A i \in 1 .. 12 : s[i] = s[i - 1] + monthLengths(y)[i]
  BY SumsDef
<1> HIDE DEF s
<1>2. ASSUME NEW m \in 1 .. 11
      PROVE  s[(m + 1) - 1] = s[m - 1] + monthDays(y, m)
  <2>1. (m + 1) - 1 = m /\ m \in 1 .. 12
    OBVIOUS
  <2> QED
    BY <1>1, <2>1 DEF monthLengths
<1>3. 1 - 1 = 0
  OBVIOUS
<1> QED
  BY <1>1, <1>2, <1>3 DEF MonthStart, s

\* The days of the months.
LEMMA MonthTable ==
  ASSUME NEW y
  PROVE  /\ monthDays(y, 1) = 31
         /\ monthDays(y, 2) = IF isLeapYear(y) THEN 29 ELSE 28
         /\ monthDays(y, 3) = 31 /\ monthDays(y, 4) = 30
         /\ monthDays(y, 5) = 31 /\ monthDays(y, 6) = 30
         /\ monthDays(y, 7) = 31 /\ monthDays(y, 8) = 31
         /\ monthDays(y, 9) = 30 /\ monthDays(y, 10) = 31
         /\ monthDays(y, 11) = 30 /\ monthDays(y, 12) = 31
  BY DEF monthDays

\* The twelve months make a year.
LEMMA DecemberStart ==
  ASSUME NEW y
  PROVE  MonthStart(y, 12) + 31 = IF isLeapYear(y) THEN 366 ELSE 365
<1> DEFINE s(m) == MonthStart(y, m)
<1>1. s(1) = 0 /\ \A m \in 1 .. 11 : s(m + 1) = s(m) + monthDays(y, m)
  BY MonthStarts
<1> HIDE DEF s
<1>2. /\ s(2) = s(1) + monthDays(y, 1)
      /\ s(3) = s(2) + monthDays(y, 2)
      /\ s(4) = s(3) + monthDays(y, 3)
      /\ s(5) = s(4) + monthDays(y, 4)
      /\ s(6) = s(5) + monthDays(y, 5)
      /\ s(7) = s(6) + monthDays(y, 6)
      /\ s(8) = s(7) + monthDays(y, 7)
      /\ s(9) = s(8) + monthDays(y, 8)
      /\ s(10) = s(9) + monthDays(y, 9)
      /\ s(11) = s(10) + monthDays(y, 10)
      /\ s(12) = s(11) + monthDays(y, 11)
  BY <1>1
<1>3. s(12) + 31 = IF isLeapYear(y) THEN 366 ELSE 365
  BY <1>1, <1>2, MonthTable
<1> QED
  BY <1>3 DEF s

\* The numbers of two digits, and the years of the two forms.
TwoDigit         == 0 .. 99
UTCYears         == 1970 .. 2049
GeneralizedYears == 2000 .. 2299

\* Two digits are a number.
LEMMA DigitsRead ==
  ASSUME NEW n \in TwoDigit
  PROVE  Tens(n) * 10 + Units(n) = n
BY SMT DEF Tens, Units, TwoDigit

\* The rule of the leap years, for the years a certificate can name.
LEMMA LeapYears ==
  ASSUME NEW y \in 1970 .. 2299
  PROVE  isLeapYear(y) <=> y % 4 = 0 /\ y \notin {2100, 2200, 2300}
BY SMT DEF isLeapYear

\* The months of the calendar have the lengths of the table.
LEMMA MonthLengths ==
  ASSUME year \in 1970 .. 2299, month \in 1 .. 12
  PROVE  LastDay = monthDays(year, month) /\ LastDay \in 28 .. 31
<1>1. isLeapYear(year) <=> year % 4 = 0 /\ year \notin {2100, 2200, 2300}
  BY LeapYears
<1>2. CASE month = 2
  BY <1>1, <1>2, MonthTable DEF LastDay
<1>3. CASE month \in {4, 6, 9, 11}
  BY <1>3, MonthTable DEF LastDay
<1>4. CASE month \in {1, 3, 5, 7, 8, 10, 12}
  BY <1>4, MonthTable DEF LastDay
<1> QED
  BY <1>2, <1>3, <1>4

\* The inductive invariant: the calendar's count of the days is the one of the loops.
CalendarInv ==
  /\ year \in 1970 .. LastYear
  /\ month \in 1 .. 12
  /\ day \in 1 .. LastDay
  /\ YearStart(year) \in Nat
  /\ MonthStart(year, month) \in Nat
  /\ days = YearStart(year) + MonthStart(year, month) + (day - 1)

\* On the first day of the calendar.
LEMMA CalendarFirst == FirstDate => CalendarInv
<1> SUFFICES ASSUME FirstDate PROVE CalendarInv
  OBVIOUS
<1>1. year = 1970 /\ month = 1 /\ day = 1 /\ days = 0
  BY DEF FirstDate
<1>2. year \in 1970 .. LastYear /\ year \in 1970 .. 2299
  BY <1>1, CalendarAssumption
<1>3. LastDay \in 28 .. 31
  BY <1>1, <1>2, MonthLengths
<1>4. YearStart(year) = 0 /\ MonthStart(year, month) = 0
  BY <1>1, YearStarts, MonthStarts
<1> QED
  BY <1>1, <1>2, <1>3, <1>4 DEF CalendarInv

\* From day to day.
LEMMA CalendarStep ==
  CalendarInv /\ [NextDay \/ NewYear \/ TurnBack]_calendarVars => CalendarInv'
<1> SUFFICES ASSUME CalendarInv, [NextDay \/ NewYear \/ TurnBack]_calendarVars
             PROVE  CalendarInv'
  OBVIOUS
<1>1. /\ year \in 1970 .. LastYear /\ month \in 1 .. 12 /\ day \in 1 .. LastDay
      /\ YearStart(year) \in Nat /\ MonthStart(year, month) \in Nat
      /\ days = YearStart(year) + MonthStart(year, month) + (day - 1)
  BY DEF CalendarInv
<1>2. year \in 1970 .. 2299
  BY <1>1, CalendarAssumption
<1>3. LastDay = monthDays(year, month) /\ LastDay \in 28 .. 31
  BY <1>1, <1>2, MonthLengths
<1>4. /\ YearStart(year)' = YearStart(year')
      /\ MonthStart(year, month)' = MonthStart(year', month')
  BY DEF YearStart, MonthStart
<1>5. ASSUME day < LastDay, day' = day + 1, days' = days + 1, year' = year, month' = month
      PROVE  CalendarInv'
  <2>1. LastDay' = LastDay
    BY <1>5 DEF LastDay
  <2>2. day' \in 1 .. LastDay'
    BY <1>1, <1>3, <1>5, <2>1
  <2>3. days' = YearStart(year) + MonthStart(year, month) + (day' - 1)
    BY <1>1, <1>3, <1>5
  <2> QED
    BY <1>1, <1>4, <1>5, <2>2, <2>3 DEF CalendarInv
<1>6. ASSUME day = LastDay, month < 12, month' = month + 1, day' = 1, days' = days + 1, year' = year
      PROVE  CalendarInv'
  <2>1. month' \in 1 .. 12 /\ month \in 1 .. 11
    BY <1>1, <1>6
  <2>2. LastDay' \in 28 .. 31
    <3>1. year' \in Nat
      BY <1>2, <1>6
    <3>2. CASE month' = 2
      BY <3>1, <3>2 DEF LastDay
    <3>3. CASE month' # 2
      BY <3>3 DEF LastDay
    <3> QED
      BY <3>2, <3>3
  <2>3. MonthStart(year, month + 1) = MonthStart(year, month) + LastDay
    BY <1>3, <2>1, MonthStarts
  <2>4. days' = YearStart(year) + MonthStart(year, month + 1) + (1 - 1)
        /\ MonthStart(year, month + 1) \in Nat
    BY <1>1, <1>3, <1>6, <2>3
  <2>5. day' \in 1 .. LastDay'
    BY <1>6, <2>2
  <2> QED
    BY <1>1, <1>4, <1>6, <2>1, <2>4, <2>5 DEF CalendarInv
<1>7. ASSUME NewYear PROVE CalendarInv'
  <2>1. /\ month = 12 /\ day = LastDay /\ year < LastYear
        /\ year' = year + 1 /\ month' = 1 /\ day' = 1 /\ days' = days + 1
    BY <1>7 DEF NewYear
  <2>2. year' \in 1970 .. LastYear /\ year' \in 1970 .. 2299
    BY <1>1, <2>1, CalendarAssumption
  <2>3. LastDay' \in 28 .. 31
    BY <2>1 DEF LastDay
  <2>4. LastDay = 31
    BY <1>3, <2>1, MonthTable
  <2>5. YearStart(year + 1) = YearStart(year) + IF isLeapYear(year) THEN 366 ELSE 365
    BY <1>2, YearStarts
  <2>6. MonthStart(year, 12) + 31 = IF isLeapYear(year) THEN 366 ELSE 365
    BY DecemberStart
  <2>7. MonthStart(year + 1, 1) = 0
    BY MonthStarts
  <2>8. YearStart(year + 1) \in Nat /\ days' = YearStart(year + 1) + 0 + (1 - 1)
    BY <1>1, <2>1, <2>4, <2>5, <2>6
  <2> QED
    BY <1>4, <2>1, <2>2, <2>3, <2>7, <2>8 DEF CalendarInv
<1>8. ASSUME TurnBack PROVE CalendarInv'
  <2>1. FirstDate'
    BY <1>8 DEF TurnBack, FirstDate
  <2> QED
    BY <2>1, CalendarFirst, PTL
<1>9. ASSUME UNCHANGED calendarVars PROVE CalendarInv'
  <2>1. year' = year /\ month' = month /\ day' = day /\ days' = days
    BY <1>9 DEF calendarVars
  <2>2. LastDay' = LastDay
    BY <2>1 DEF LastDay
  <2> QED
    BY <1>1, <1>4, <2>1, <2>2 DEF CalendarInv
<1> QED
  BY <1>5, <1>6, <1>7, <1>8, <1>9 DEF NextDay

\* What the code makes of a date in UTCTime.
LEMMA UTCTimeRead ==
  ASSUME year \in UTCYears, month \in TwoDigit, day \in TwoDigit,
         NEW hh \in TwoDigit, NEW mm \in TwoDigit, NEW ss \in TwoDigit
  PROVE  toTimestamp(AsUTCTime(hh, mm, ss)) = toUnixTimestamp(year, month, day, hh, mm, ss)
<1> DEFINE x == AsUTCTime(hh, mm, ss)
<1>1. /\ Len(x) = 13
      /\ x[1] = Tens(year) /\ x[2] = Units(year) /\ x[3] = Tens(month) /\ x[4] = Units(month)
      /\ x[5] = Tens(day) /\ x[6] = Units(day) /\ x[7] = Tens(hh) /\ x[8] = Units(hh)
      /\ x[9] = Tens(mm) /\ x[10] = Units(mm) /\ x[11] = Tens(ss) /\ x[12] = Units(ss)
  BY DEF AsUTCTime
<1> HIDE DEF x
<1>2. IsUTCTime(x) /\ Offset(x) = 0
  BY <1>1 DEF IsUTCTime, Offset
<1>3. /\ TwoDigits(x, 3) = month /\ TwoDigits(x, 5) = day /\ TwoDigits(x, 7) = hh
      /\ TwoDigits(x, 9) = mm /\ TwoDigits(x, 11) = ss
  BY <1>1, <1>2, DigitsRead DEF TwoDigits
<1>4. (IF Tens(year) < 5 THEN 2000 ELSE 1900) + (Tens(year) * 10 + Units(year)) = year
  BY SMT DEF Tens, Units, UTCYears
<1>5. Century(x) + TwoDigits(x, 1) = year
  BY <1>1, <1>2, <1>4 DEF Century, TwoDigits
<1> QED
  BY <1>3, <1>5 DEF toTimestamp, x

\* And of one in GeneralizedTime.
LEMMA GeneralizedTimeRead ==
  ASSUME year \in GeneralizedYears, month \in TwoDigit, day \in TwoDigit,
         NEW hh \in TwoDigit, NEW mm \in TwoDigit, NEW ss \in TwoDigit
  PROVE  /\ ~CenturyReverts(AsGeneralizedTime(hh, mm, ss))
         /\ toTimestamp(AsGeneralizedTime(hh, mm, ss)) = toUnixTimestamp(year, month, day, hh, mm, ss)
<1> DEFINE x == AsGeneralizedTime(hh, mm, ss)
<1>1. /\ Len(x) = 15
      /\ x[1] = year \div 1000 /\ x[2] = (year \div 100) % 10
      /\ x[3] = Tens(year) /\ x[4] = Units(year) /\ x[5] = Tens(month) /\ x[6] = Units(month)
      /\ x[7] = Tens(day) /\ x[8] = Units(day) /\ x[9] = Tens(hh) /\ x[10] = Units(hh)
      /\ x[11] = Tens(mm) /\ x[12] = Units(mm) /\ x[13] = Tens(ss) /\ x[14] = Units(ss)
  BY DEF AsGeneralizedTime
<1> HIDE DEF x
<1>2. ~IsUTCTime(x) /\ Offset(x) = 2
  BY <1>1 DEF IsUTCTime, Offset
<1>3. /\ TwoDigits(x, 3) = month /\ TwoDigits(x, 5) = day /\ TwoDigits(x, 7) = hh
      /\ TwoDigits(x, 9) = mm /\ TwoDigits(x, 11) = ss
  BY <1>1, <1>2, DigitsRead DEF TwoDigits
<1>4. ((year \div 1000) * 1000 + ((year \div 100) % 10) * 100) + (Tens(year) * 10 + Units(year)) = year
  BY SMT DEF Tens, Units, GeneralizedYears
<1>5. Century(x) + TwoDigits(x, 1) = year
  BY <1>1, <1>2, <1>4 DEF Century, TwoDigits
<1>6. ~(((year \div 100) % 10) * 100 > 255)
  BY SMT DEF GeneralizedYears
<1>7. ~CenturyReverts(x)
  BY <1>1, <1>6 DEF CenturyReverts, MaxUint8
<1> QED
  BY <1>3, <1>5, <1>7 DEF toTimestamp, x

\* So the dates are read as the days they are.
LEMMA CalendarRead == CalendarInv => DatesExact
<1> SUFFICES ASSUME CalendarInv PROVE DatesExact
  OBVIOUS
<1>1. /\ year \in 1970 .. LastYear /\ month \in 1 .. 12 /\ day \in 1 .. LastDay
      /\ days = YearStart(year) + MonthStart(year, month) + (day - 1)
  BY DEF CalendarInv
<1>2. year \in 1970 .. 2299
  BY <1>1, CalendarAssumption
<1>3. LastDay \in 28 .. 31
  BY <1>1, <1>2, MonthLengths
<1>4. month \in TwoDigit /\ day \in TwoDigit
  BY <1>1, <1>3 DEF TwoDigit
<1>5. ~(year < 1970)
  BY <1>2
<1>6. /\ toUnixTimestamp(year, month, day, 0, 0, 0) = <<days, 0>>
      /\ toUnixTimestamp(year, month, day, 23, 59, 59) = <<days, 24 * 3600 - 1>>
  <2>1. 0 * 3600 + 0 * 60 + 0 = 0 /\ 23 * 3600 + 59 * 60 + 59 = 24 * 3600 - 1
    BY SMT
  <2> QED
    BY <1>1, <1>5, <2>1 DEF toUnixTimestamp, YearStart, MonthStart
<1>7. ASSUME year < 2050
      PROVE  /\ toTimestamp(AsUTCTime(0, 0, 0)) = <<days, 0>>
             /\ toTimestamp(AsUTCTime(23, 59, 59)) = <<days, 24 * 3600 - 1>>
  <2>1. year \in UTCYears
    BY <1>2, <1>7 DEF UTCYears
  <2>2. 0 \in TwoDigit /\ 23 \in TwoDigit /\ 59 \in TwoDigit
    BY DEF TwoDigit
  <2>3. ASSUME NEW hh \in TwoDigit, NEW mm \in TwoDigit, NEW ss \in TwoDigit
        PROVE  toTimestamp(AsUTCTime(hh, mm, ss)) = toUnixTimestamp(year, month, day, hh, mm, ss)
    BY <1>4, <2>1, UTCTimeRead
  <2> QED
    BY <1>6, <2>2, <2>3
<1>8. ASSUME year >= 2000
      PROVE  /\ ~CenturyReverts(AsGeneralizedTime(0, 0, 0))
             /\ ~CenturyReverts(AsGeneralizedTime(23, 59, 59))
             /\ toTimestamp(AsGeneralizedTime(0, 0, 0)) = <<days, 0>>
             /\ toTimestamp(AsGeneralizedTime(23, 59, 59)) = <<days, 24 * 3600 - 1>>
  <2>1. year \in GeneralizedYears
    BY <1>2, <1>8 DEF GeneralizedYears
  <2>2. 0 \in TwoDigit /\ 23 \in TwoDigit /\ 59 \in TwoDigit
    BY DEF TwoDigit
  <2>3. ASSUME NEW hh \in TwoDigit, NEW mm \in TwoDigit, NEW ss \in TwoDigit
        PROVE  /\ ~CenturyReverts(AsGeneralizedTime(hh, mm, ss))
               /\ toTimestamp(AsGeneralizedTime(hh, mm, ss)) = toUnixTimestamp(year, month, day, hh, mm, ss)
    BY <1>4, <2>1, GeneralizedTimeRead
  <2> QED
    BY <1>6, <2>2, <2>3
<1> QED
  BY <1>7, <1>8 DEF DatesExact

\* Every date from 1970 through 2299 in either form is the second that a count of the days
\* gives (toTimestamp and toUnixTimestamp, X509DateUtils.sol): no leap year, month or
\* century is off by one.
THEOREM DatesCorrect == CalendarSpec => []DatesExact
BY CalendarFirst, CalendarStep, CalendarRead, PTL DEF CalendarSpec
=============================================================================

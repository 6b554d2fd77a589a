------------------------- MODULE AttestedContracts -------------------------
(***************************************************************************)
(* SGXVerifier together with the attestation contract it asks for the      *)
(* verdict on a quote.  The two contracts have their own owners; anybody   *)
(* may submit any quote, as often as he likes, at any time.                *)
(***************************************************************************)
EXTENDS SGXVerifier, DcapAttestation

CONSTANT NoQuote   \* no quote was accepted yet

VARIABLES
    registeredBy,  \* history: the quote of a prover's last accepted report
    refusedSince   \* history: <<aspect, quote>> -> the time since when the collateral has
                   \* refused the quote without a break, 0 if it admits it

attestedVars == <<contractVars, dcapVars, registeredBy, refusedSince>>

----------------------------------------------------------------------------
\* submitAttestationReport with the call of verifyAttestation inside: the prover is the
\* last 20 bytes of the report data (bytes64ToAddress).
SubmitQuote(prover, q) ==
    LET verdict == verify(q, timestamp)
    IN  /\ submitAttestationReport(prover, [valid  |-> verdict.valid,
                                            prover |-> verdict.reportData])
        /\ registeredBy' = [registeredBy EXCEPT ![prover] = q]
        /\ UNCHANGED <<dcapVars, refusedSince>>

\* The other calls of SGXVerifier, and time.
VerifierStep ==
    /\ \/ \E s, a \in Address : changeOwner(s, a)
       \/ \E s \in Address, v \in Validity : changeAttestValiditySeconds(s, v)
       \/ \E id \in BatchId, poe \in Poe : commitBatch(id, poe)
       \/ NewBlock
    /\ UNCHANGED <<dcapVars, registeredBy, refusedSince>>

\* A call of the attestation contract's owner.
CollateralStep ==
    /\ DcapNext
    /\ refusedSince' =
          [c \in Aspect \X Quotes |->
             IF Admits(c[1], c[2])' THEN 0
             ELSE IF refusedSince[c] = 0 THEN timestamp ELSE refusedSince[c]]
    /\ UNCHANGED <<contractVars, registeredBy>>

AttestedInit ==
    /\ ContractInit
    /\ DcapInit
    /\ registeredBy = [p \in Address |-> NoQuote]
    /\ refusedSince = [c \in Aspect \X Quotes |->
                         IF Admits(c[1], c[2]) THEN 0 ELSE timestamp]

AttestedNext ==
    \/ \E p \in Address, q \in Quotes : SubmitQuote(p, q)
    \/ VerifierStep
    \/ CollateralStep

AttestedSpec == AttestedInit /\ [][AttestedNext]_attestedVars
----------------------------------------------------------------------------
\* Both contracts' storage and the history have their types.
AttestedTypeOK ==
    /\ ContractTypeOK
    /\ DcapTypeOK
    /\ registeredBy \in [Address -> Quotes \cup {NoQuote}]
    /\ refusedSince \in [Aspect \X Quotes -> Nat]

\* verify decides exactly what it should, at every moment and for every collateral: the
\* walk over the certificates with its breaks and its reused locals accepts a chain that
\* is trusted and no other, and the first fitting levels decide as the owner listed them
\* (verifyCertChain, checkTcbLevels, verifyQEReportWithIdentity).
VerdictExact ==
    \A q \in Quotes :
       verify(q, timestamp).valid <=>
          /\ parseInput(Content[q].shape)
          /\ Authentic(q, timestamp)
          /\ \A a \in Aspect : Admits(a, q)

\* Every registered prover is the one named by a quote that was authentic at the very
\* time the registry holds for it, whatever was submitted or configured since.
RegistrationJustified ==
    \A p \in Address :
       attestedProvers[p] # 0 =>
          /\ registeredBy[p] \in Quotes
          /\ Content[registeredBy[p]].reportData = p
          /\ Authentic(registeredBy[p], attestedProvers[p])

\* Once the collateral refuses a quote, for its enclave, its quoting enclave or its
\* platform, the prover it registered commits for at most one validity period more,
\* however often its reports are submitted again (checkAttestation at each submission).
DistrustTakesEffect ==
    \A p \in Address, a \in Aspect :
       LET q == registeredBy[p]
       IN  q \in Quotes /\ refusedSince[<<a, q>>] # 0 /\ Accepted(p) =>
              timestamp < refusedSince[<<a, q>>] + attestValiditySeconds
=============================================================================

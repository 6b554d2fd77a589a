------------------------- MODULE SGXVerifierProofs -------------------------
(***************************************************************************)
(* Theorems about the contract, for any accounts, batches, roots, validity *)
(* periods and bounds.                                                     *)
(***************************************************************************)
EXTENDS SGXVerifier, TLAPS

\* Types are inductive.
LEMMA ContractTyping == ContractInit => ContractTypeOK
  BY ContractAssumption
     DEF ContractInit, ContractTypeOK, BatchInfo, EmptyBatch, CommitEvent

\* Every call of the contract keeps the types of its storage.
LEMMA ContractTypingStep ==
  ASSUME ContractTypeOK, [ContractNext]_contractVars
  PROVE  ContractTypeOK'
<1> USE ContractAssumption DEF ContractTypeOK
<1>1. ASSUME NEW s \in Address, NEW a \in Address, changeOwner(s, a)
      PROVE  ContractTypeOK'
  BY <1>1 DEF changeOwner
<1>2. ASSUME NEW s \in Address, NEW v \in Validity, changeAttestValiditySeconds(s, v)
      PROVE  ContractTypeOK'
  BY <1>2 DEF changeAttestValiditySeconds
<1>3. ASSUME NEW p \in Address, NEW r \in Report, submitAttestationReport(p, r)
      PROVE  ContractTypeOK'
  BY <1>3 DEF submitAttestationReport
<1>4. ASSUME NEW id \in BatchId, NEW poe \in Poe, commitBatch(id, poe)
      PROVE  ContractTypeOK'
  <2>1. poe.signer \in Address
    BY <1>4 DEF commitBatch, Recoverable, Poe
  <2>2. batches' \in [BatchHash -> BatchInfo]
    BY <1>4 DEF commitBatch, StoreBatch, Poe, BatchInfo
  <2>3. commitLog' \subseteq CommitEvent
    BY <1>4, <2>1 DEF commitBatch, StoreBatch, Poe, CommitEvent
  <2> QED
    BY <1>4, <2>2, <2>3 DEF commitBatch, StoreBatch
<1>5. CASE NewBlock
  BY <1>5 DEF NewBlock
<1>6. CASE UNCHANGED contractVars
  BY <1>6 DEF contractVars
<1> QED
  BY <1>1, <1>2, <1>3, <1>4, <1>5, <1>6 DEF ContractNext

\* The contract's state is well typed in every reachable state.
THEOREM ContractTypeCorrect == ContractSpec => []ContractTypeOK
  BY ContractTyping, ContractTypingStep, PTL DEF ContractSpec

----------------------------------------------------------------------------
\* The events of one batch hash with a non-zero root.
Nonzero(h) == {e \in commitLog : e.batchHash = h /\ e.newStateRoot # ZeroRoot}

\* commitBatch: the one event it adds is the only non-zero event of its hash.
LEMMA LogMatchesStorageStep ==
  ASSUME ContractTypeOK, LogMatchesStorage, [ContractNext]_contractVars
  PROVE  LogMatchesStorage'
<1>1. ASSUME UNCHANGED <<batches, commitLog>>
      PROVE  LogMatchesStorage'
  BY <1>1 DEF LogMatchesStorage
<1>2. ASSUME NEW id \in BatchId, NEW poe \in Poe, commitBatch(id, poe)
      PROVE  LogMatchesStorage'
  <2> DEFINE event == [batchIndex |-> id, batchHash |-> poe.batchHash,
                       prevStateRoot |-> poe.prevStateRoot,
                       newStateRoot |-> poe.newStateRoot,
                       signer |-> poe.signer, at |-> timestamp,
                       validity |-> attestValiditySeconds]
             info == [batchIndex |-> id, newStateRoot |-> poe.newStateRoot,
                      prevStateRoot |-> poe.prevStateRoot]
  <2>1. /\ commitLog' = commitLog \cup {event}
        /\ batches' = [batches EXCEPT ![poe.batchHash] = info]
        /\ batches[poe.batchHash].newStateRoot = ZeroRoot
    BY <1>2 DEF commitBatch, StoreBatch
  <2>2. poe.batchHash \in BatchHash
    BY DEF Poe
  <2> SUFFICES ASSUME NEW h \in BatchHash
               PROVE  IF batches'[h].newStateRoot = ZeroRoot
                      THEN Nonzero(h)' = {}
                      ELSE \E e \in Nonzero(h)' :
                              /\ Nonzero(h)' = {e}
                              /\ batches'[h] = [batchIndex    |-> e.batchIndex,
                                                newStateRoot  |-> e.newStateRoot,
                                                prevStateRoot |-> e.prevStateRoot]
    BY DEF LogMatchesStorage, Nonzero
  <2>3. CASE h # poe.batchHash
    <3>1. batches'[h] = batches[h]
      BY <2>1, <2>3 DEF ContractTypeOK
    <3>2. Nonzero(h)' = Nonzero(h)
      BY <2>1, <2>3 DEF Nonzero
    <3> QED
      BY <3>1, <3>2 DEF LogMatchesStorage, Nonzero
  <2>4. CASE h = poe.batchHash
    <3>1. Nonzero(h) = {}
      BY <2>1, <2>4 DEF LogMatchesStorage, Nonzero
    <3>2. batches'[h] = info
      BY <2>1, <2>2, <2>4 DEF ContractTypeOK
    <3>3. CASE poe.newStateRoot = ZeroRoot
      BY <2>1, <3>1, <3>2, <3>3 DEF Nonzero
    <3>4. CASE poe.newStateRoot # ZeroRoot
      <4>1. Nonzero(h)' = {event}
        BY <2>1, <2>4, <3>1, <3>4 DEF Nonzero
      <4> QED
        BY <3>2, <3>4, <4>1
    <3> QED
      BY <3>3, <3>4
  <2> QED
    BY <2>3, <2>4
<1> QED
  BY <1>1, <1>2 DEF ContractNext, contractVars, changeOwner, changeAttestValiditySeconds,
     submitAttestationReport, NewBlock

\* The events and the storage tell the same story (commitBatch, "batch already commit").
THEOREM EventsMatchStorage == ContractSpec => []LogMatchesStorage
<1>1. ContractInit => LogMatchesStorage
  BY DEF ContractInit, LogMatchesStorage, EmptyBatch
<1> QED
  BY <1>1, ContractTypeCorrect, LogMatchesStorageStep, PTL DEF ContractSpec

----------------------------------------------------------------------------
\* A commit finds its signer registered in time, and later calls only renew a registration.
LEMMA CommitsWithinValidityStep ==
  ASSUME ContractTypeOK, CommitsWithinValidity, [ContractNext]_contractVars
  PROVE  CommitsWithinValidity'
<1> USE ContractAssumption DEF ContractTypeOK
<1>1. ASSUME UNCHANGED <<attestedProvers, timestamp, commitLog>>
      PROVE  CommitsWithinValidity'
  BY <1>1 DEF CommitsWithinValidity
<1>2. ASSUME NEW p \in Address, NEW r \in Report, submitAttestationReport(p, r)
      PROVE  CommitsWithinValidity'
  <2>1. /\ attestedProvers' = [attestedProvers EXCEPT ![p] = timestamp]
        /\ UNCHANGED <<timestamp, commitLog>>
    BY <1>2 DEF submitAttestationReport
  <2>2. \A a \in Address : /\ attestedProvers'[a] <= timestamp
                           /\ attestedProvers[a] <= attestedProvers'[a]
                           /\ attestedProvers'[a] \in Nat
    BY <2>1 DEF CommitsWithinValidity
  <2>3. ASSUME NEW e \in commitLog
        PROVE  /\ e.at <= timestamp
               /\ attestedProvers'[e.signer] # 0
               /\ attestedProvers'[e.signer] + e.validity > e.at
    <3>1. e.signer \in Address /\ e.at \in Nat /\ e.validity \in Nat
      BY DEF CommitEvent
    <3>2. attestedProvers[e.signer] + e.validity > e.at
      BY DEF CommitsWithinValidity
    <3>3. attestedProvers'[e.signer] + e.validity > e.at
      BY <2>2, <3>1, <3>2
    <3>4. attestedProvers'[e.signer] # 0 /\ e.at <= timestamp
      BY <2>2, <3>1 DEF CommitsWithinValidity
    <3> QED
      BY <3>3, <3>4
  <2> QED
    BY <2>1, <2>2, <2>3 DEF CommitsWithinValidity
<1>3. ASSUME NEW id \in BatchId, NEW poe \in Poe, commitBatch(id, poe)
      PROVE  CommitsWithinValidity'
  <2>1. /\ UNCHANGED <<attestedProvers, timestamp>>
        /\ \A e \in commitLog' : e \in commitLog
                                 \/ /\ e.signer = poe.signer
                                    /\ e.at = timestamp
                                    /\ e.validity = attestValiditySeconds
        /\ attestedProvers[poe.signer] # 0
        /\ attestedProvers[poe.signer] + attestValiditySeconds > timestamp
    BY <1>3 DEF commitBatch, StoreBatch, Accepted
  <2> QED
    BY <2>1 DEF CommitsWithinValidity
<1>4. CASE NewBlock
  <2>1. /\ UNCHANGED <<attestedProvers, commitLog>>
        /\ timestamp' = timestamp + 1
    BY <1>4 DEF NewBlock
  <2>2. \A a \in Address : attestedProvers[a] <= timestamp + 1
    BY DEF CommitsWithinValidity
  <2>3. \A e \in commitLog : e.at <= timestamp + 1
    BY DEF CommitsWithinValidity, CommitEvent
  <2> QED
    BY <2>1, <2>2, <2>3 DEF CommitsWithinValidity
<1> QED
  BY <1>1, <1>2, <1>3, <1>4 DEF ContractNext, contractVars, changeOwner,
     changeAttestValiditySeconds

\* Every committed batch was signed by a prover whose report was young enough for the period
\* in force when it was committed (the requires of commitBatch).
THEOREM CommitsAreFresh == ContractSpec => []CommitsWithinValidity
<1>1. ContractInit => CommitsWithinValidity
  BY ContractAssumption DEF ContractInit, CommitsWithinValidity
<1> QED
  BY <1>1, ContractTypeCorrect, CommitsWithinValidityStep, PTL DEF ContractSpec

----------------------------------------------------------------------------
\* Registrations only move forward, and a committed batch is final.
THEOREM RegistryIsMonotone == ContractSpec => RegistryMonotone
<1>1. ASSUME ContractTypeOK, CommitsWithinValidity, [ContractNext]_contractVars
      PROVE  /\ \A a \in Address : attestedProvers[a] <= attestedProvers'[a]
             /\ \A h \in BatchHash :
                   batches[h].newStateRoot # ZeroRoot => batches'[h] = batches[h]
  <2>1. ASSUME NEW p \in Address, NEW r \in Report, submitAttestationReport(p, r)
        PROVE  \A a \in Address : attestedProvers[a] <= attestedProvers'[a]
    BY <1>1, <2>1 DEF submitAttestationReport, CommitsWithinValidity, ContractTypeOK
  <2>2. ASSUME NEW id \in BatchId, NEW poe \in Poe, commitBatch(id, poe)
        PROVE  \A h \in BatchHash :
                  batches[h].newStateRoot # ZeroRoot => batches'[h] = batches[h]
    BY <1>1, <2>2 DEF commitBatch, StoreBatch, ContractTypeOK
  <2>3. CASE UNCHANGED <<attestedProvers, batches>>
    BY <1>1, <2>3 DEF ContractTypeOK
  <2>4. ASSUME NEW p \in Address, NEW r \in Report, submitAttestationReport(p, r)
        PROVE  UNCHANGED batches
    BY <2>4 DEF submitAttestationReport
  <2>5. ASSUME NEW id \in BatchId, NEW poe \in Poe, commitBatch(id, poe)
        PROVE  UNCHANGED attestedProvers
    BY <2>5 DEF commitBatch, StoreBatch
  <2>6. \A a \in Address : attestedProvers[a] <= attestedProvers[a]
    BY <1>1 DEF ContractTypeOK
  <2> QED
    BY <1>1, <2>1, <2>2, <2>3, <2>4, <2>5, <2>6 DEF ContractNext, contractVars, changeOwner,
       changeAttestValiditySeconds, NewBlock
<1> QED
  BY <1>1, ContractTypeCorrect, CommitsAreFresh, PTL DEF ContractSpec, RegistryMonotone
=============================================================================

---------------------------- MODULE SGXVerifier ----------------------------
(***************************************************************************)
(* The on-chain registry of attested provers and committed batches         *)
(* (verifier/contracts/SGXVerifier.sol).  Every external function that     *)
(* writes storage is an action; a failing require reverts the transaction, *)
(* so a call whose guard is false simply is not a step.                    *)
(*                                                                         *)
(* Callers are arbitrary: submitAttestationReport and commitBatch check no *)
(* sender, so any account may repeat a report or a PoE it has seen.        *)
(***************************************************************************)
EXTENDS Integers, FiniteSets

CONSTANTS
    Address,      \* accounts: owners and prover keys (an address stands for its key pair)
    Deployer,     \* the account that deploys the contract
    ZeroAddress,  \* address(0), what ecrecover returns for a signature it cannot recover
    BatchHash,    \* keys of the mapping batches
    Root,         \* state roots, bytes32(0) included
    ZeroRoot,     \* bytes32(0), the value of an unset newStateRoot
    BatchId,      \* the uint256 batch ids callers pass to commitBatch
    Validity,     \* the values attestValiditySeconds takes
    DefaultValidity, \* the value the contract is deployed with (3600)
    GenesisTime,  \* block.timestamp when the contract is deployed
    MaxTime,      \* bound on block.timestamp
    MaxUint       \* 2^256 - 1: Solidity 0.8 reverts an addition above it

ASSUME ContractAssumption ==
    /\ Deployer \in Address
    /\ ZeroAddress \notin Address
    /\ ZeroRoot \in Root
    /\ Validity \subseteq Nat
    /\ DefaultValidity \in Validity
    /\ GenesisTime \in Nat \ {0}
    /\ MaxTime \in Nat
    /\ MaxUint \in Nat

VARIABLES
    owner,                  \* the account onlyOwner admits
    attestedProvers,        \* prover -> block.timestamp of its last accepted report, 0 if none
    attestValiditySeconds,
    batches,                \* batchHash -> BatchInfo
    timestamp,              \* block.timestamp of the next block
    commitLog               \* the CommitBatch events, each with the signer of its PoE and, as
                            \* history, its time and the validity period in force then

contractVars ==
    <<owner, attestedProvers, attestValiditySeconds, batches, timestamp, commitLog>>

----------------------------------------------------------------------------
\* BatchInfo; withdrawalRoot is stored like prevStateRoot and left out.
BatchInfo == [batchIndex : BatchId \cup {0}, newStateRoot : Root, prevStateRoot : Root]

EmptyBatch == [batchIndex |-> 0, newStateRoot |-> ZeroRoot, prevStateRoot |-> ZeroRoot]

\* A quote as the DCAP verifier sees it: its verdict, and the address in the last
\* 20 bytes of its 64-byte report data.
Report == [valid : BOOLEAN, prover : Address]

\* A decoded PoE: sigOk says that the signature has 65 bytes and v is 27 or 28 after
\* normalisation; signer is what ecrecover returns for the hash of the other fields.
Poe == [batchHash : BatchHash, prevStateRoot : Root, newStateRoot : Root,
        signer : Address \cup {ZeroAddress}, sigOk : BOOLEAN]

CommitEvent == [batchIndex : BatchId, batchHash : BatchHash, prevStateRoot : Root,
                newStateRoot : Root, signer : Address, at : Nat, validity : Validity]

\* splitSignature and the two requires that follow it in commitBatch and recoverPoe.
Recoverable(poe) == poe.sigOk /\ poe.signer # ZeroAddress

\* checkAttestation: the quote verifies and names the prover.
checkAttestation(prover, report) == report.valid /\ report.prover = prover

\* What commitBatch stores and emits once its requires hold.
StoreBatch(batchId, poe) ==
    /\ batches' = [batches EXCEPT ![poe.batchHash] =
                     [batchIndex    |-> batchId,
                      newStateRoot  |-> poe.newStateRoot,
                      prevStateRoot |-> poe.prevStateRoot]]
    /\ commitLog' = commitLog \cup
                     {[batchIndex    |-> batchId,
                       batchHash     |-> poe.batchHash,
                       prevStateRoot |-> poe.prevStateRoot,
                       newStateRoot  |-> poe.newStateRoot,
                       signer        |-> poe.signer,
                       at            |-> timestamp,
                       validity      |-> attestValiditySeconds]}
    /\ UNCHANGED <<owner, attestedProvers, attestValiditySeconds, timestamp>>

----------------------------------------------------------------------------
(* Mutated forms of definitions below, one plausible bug each; no specification uses
   them: the properties are tested against them. *)

\* Accepted without the expiry check.
AcceptedForever(signer) == attestedProvers[signer] # 0

\* changeAttestValiditySeconds takes off a second of grace, unchecked.
changeAttestValiditySecondsGrace(sender, val) ==
    /\ sender = owner
    /\ attestValiditySeconds' = val - 1
    /\ UNCHANGED <<owner, attestedProvers, batches, timestamp, commitLog>>

\* commitBatch without "batch already commit".
commitBatchAgain(batchId, poe) ==
    /\ Recoverable(poe)
    /\ attestedProvers[poe.signer] # 0
    /\ StoreBatch(batchId, poe)

----------------------------------------------------------------------------
\* The three requires of commitBatch on the signer; the addition is checked.
Accepted(signer) ==
    /\ attestedProvers[signer] # 0
    /\ attestedProvers[signer] + attestValiditySeconds <= MaxUint
    /\ attestedProvers[signer] + attestValiditySeconds > timestamp

changeOwner(sender, newOwner) ==
    /\ sender = owner
    /\ owner' = newOwner
    /\ UNCHANGED <<attestedProvers, attestValiditySeconds, batches, timestamp, commitLog>>

changeAttestValiditySeconds(sender, val) ==
    /\ sender = owner
    /\ attestValiditySeconds' = val
    /\ UNCHANGED <<owner, attestedProvers, batches, timestamp, commitLog>>

submitAttestationReport(prover, report) ==
    /\ checkAttestation(prover, report)
    /\ attestedProvers' = [attestedProvers EXCEPT ![prover] = timestamp]
    /\ UNCHANGED <<owner, attestValiditySeconds, batches, timestamp, commitLog>>

commitBatch(batchId, poe) ==
    /\ Recoverable(poe)
    /\ Accepted(poe.signer)
    /\ batches[poe.batchHash].newStateRoot = ZeroRoot
    /\ StoreBatch(batchId, poe)

\* Blocks are produced: block.timestamp grows (external; MaxTime bounds it).
NewBlock ==
    /\ timestamp < MaxTime
    /\ timestamp' = timestamp + 1
    /\ UNCHANGED <<owner, attestedProvers, attestValiditySeconds, batches, commitLog>>

----------------------------------------------------------------------------
ContractInit ==
    /\ owner = Deployer
    /\ attestedProvers = [a \in Address |-> 0]
    /\ attestValiditySeconds = DefaultValidity
    /\ batches = [h \in BatchHash |-> EmptyBatch]
    /\ timestamp = GenesisTime
    /\ commitLog = {}

ContractNext ==
    \/ \E s, a \in Address : changeOwner(s, a)
    \/ \E s \in Address, v \in Validity : changeAttestValiditySeconds(s, v)
    \/ \E p \in Address, r \in Report : submitAttestationReport(p, r)
    \/ \E id \in BatchId, poe \in Poe : commitBatch(id, poe)
    \/ NewBlock

ContractSpec == ContractInit /\ [][ContractNext]_contractVars
----------------------------------------------------------------------------
\* Every variable keeps its declared Solidity type; block times are at least GenesisTime.
ContractTypeOK ==
    /\ owner \in Address
    /\ attestedProvers \in [Address -> Nat]
    /\ attestValiditySeconds \in Validity
    /\ batches \in [BatchHash -> BatchInfo]
    /\ timestamp \in Nat
    /\ timestamp >= GenesisTime
    /\ commitLog \subseteq CommitEvent

\* The events and the storage tell the same story: a batch whose stored newStateRoot is
\* set has exactly one CommitBatch event with a non-zero root, and that event carries the
\* stored values, whatever later commits of the same batchHash are attempted; a batch
\* whose newStateRoot is unset has none (commitBatch's "batch already commit" guard).
LogMatchesStorage ==
    \A h \in BatchHash :
        LET nonzero == {e \in commitLog : e.batchHash = h /\ e.newStateRoot # ZeroRoot}
        IN  IF batches[h].newStateRoot = ZeroRoot
            THEN nonzero = {}
            ELSE \E e \in nonzero :
                    /\ nonzero = {e}
                    /\ batches[h] = [batchIndex    |-> e.batchIndex,
                                     newStateRoot  |-> e.newStateRoot,
                                     prevStateRoot |-> e.prevStateRoot]

\* Whoever signed a committed batch had an accepted report no older than the validity
\* period that was in force at the commit: registration times never move back and are never
\* in the future, so the bound still holds however often reports are repeated and the
\* period is changed afterwards.
CommitsWithinValidity ==
    /\ \A a \in Address : attestedProvers[a] <= timestamp
    /\ \A e \in commitLog :
          /\ e.at <= timestamp
          /\ attestedProvers[e.signer] # 0
          /\ attestedProvers[e.signer] + e.validity > e.at

\* A step never makes a registered prover unregistered nor its registration older, and
\* never changes a batch whose new state root is set: the relayer and the bridge may
\* rely on what they read.
RegistryMonotone ==
    [][ /\ \A a \in Address : attestedProvers[a] <= attestedProvers'[a]
        /\ \A h \in BatchHash :
              batches[h].newStateRoot # ZeroRoot => batches'[h] = batches[h] ]_contractVars
=============================================================================

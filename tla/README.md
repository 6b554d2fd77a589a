# A TLA+ development of linea-sgx-prover

The program proves blocks of the Linea rollup inside an SGX enclave. It takes the
blocks of a batch, executes them again, signs the batch with a key that only the
enclave holds, and an Ethereum contract accepts the signature as long as the key is
registered through a recent DCAP attestation report. Next to that runs a second,
newer path: execution over Linea's sparse Merkle state trie, fed with the traces of a
Shomei state manager.

This directory holds TLA+ modules that model the parts of the program whose
correctness is about *order* (what happens between two reads, two writes or two
transactions), the configurations with which TLC checks them, and proofs that TLAPS
checks for every value of the constants. Paths below are relative to the
repository's root.

## 1. The system

| part | files | state | operations |
|---|---|---|---|
| SGXVerifier contract | `verifier/contracts/SGXVerifier.sol` | owner, attested provers with the time of their report, validity period, committed batches | submitAttestationReport, commitBatch, changeOwner, changeAttestValiditySeconds |
| DCAP attestation contract | `verifier/contracts/AutomataDcapV3Attestation.sol` | trusted enclaves and signers, TCB info, QE identity, revoked serial numbers, the local-report switch | owner's setters, `_verify` in eight steps |
| quote and certificate parsing, signatures | `verifier/contracts/lib`, `verifier/contracts/utils` | none | pure functions |
| Prover | `src/common/linea/src/prover.rs` | active key, attested flag; the monitor's staged key, cooldown and last submission | monitor_attested, wait_attested, get_prvkey |
| Verifier client | `src/common/linea/src/verifier.rs` | none (an RPC client and a transaction sender) | prover_status, attest_validity_seconds, generate_prover_report, submit_attestation_report, commit_batch |
| App | `src/apps/prover/src/apps.rs` | the `Alive` flag, the threads | run, terminate, execute_task, generate_poe, submit_poe, Api::prove, Api::test |
| batch task subscriber | `src/common/linea/src/batch_task.rs` | none of its own | the handler of DataSubmitted logs |
| block executor, engine | `src/common/linea/src/block_executor.rs`, `engine.rs` | block-hash cache | generate_pob, execute, execute_v2, retry |
| zk state | `src/common/linea/src/zktrie_state.rs`, `cache.rs`, `trie.rs` | cached and dirty accounts and slots over a trie | with_key, flush, revert, balance, nonce and state access |
| ZkTrie | `src/common/zktrie/src/trie.rs`, `node.rs` | root; leaves, free index, flattened index in the Database | empty, put, remove, read |
| sparse Merkle trie | `src/common/zktrie/src/sparse_merkle_trie.rs` | root hash; nodes in the Database | put, remove, get_node, set_next_free_node |
| MemStore, traces | `src/common/zktrie/src/storage.rs`, `trace.rs` | nodes, index by root, staging, codes | from_traces, add_proof, get_nearest_keys, update_node, update_index |
| MiMC, Shomei client, launchers | `src/common/mimc`, `src/common/shomei`, `bin` | none | hashing, RPC calls, start-up |

How they interact. The Prover's monitor thread and the batch-task thread share the key
(a mutex), the flag (an atomic) and `Alive`. Both reach the contract only through RPCs
and transactions that are mined some time later, fail, or are mined after the sender
gave up. JSON-RPC workers use the key without looking at the flag. The contract trusts
the DCAP contract's verdict on a quote, and anybody may call it. A block executor works
on a state database; the new one is ZkTrieState, which caches accounts over a ZkTrie,
which stores leaves through the sparse Merkle trie in a Database, which for a block
proof is the MemStore filled from the block's traces.

What is hard:

* **interleaving**: the monitor reads the chain twice and the clock twice per
  iteration, and writes the key and the flag in two steps, while blocks are mined, the
  contract's owner changes the period, third parties repeat reports, and a worker
  looks at the flag long before it takes the key;
* **failure and delay**: an RPC error, a reverted registration that counts as success,
  a transaction mined after "tx aborted";
* **time**: the flag is not refreshed while a key is staged, so the rotation has to
  finish before the old key expires;
* **shutdown**: threads in sleeps, waits and behind a mutex;
* **multi-step writes**: one put in the trie writes three leaves, an index and a
  counter, each through a new root.

`PROJECT.json` lists these hazards line by line, each with the properties that would
catch it, or with the reason why none does yet.

## 2. Modules

| module | models | interacts through |
|---|---|---|
| `SGXVerifier` | the contract | its operators are called by `KeyRotation` |
| `KeyRotation` | Prover, the Verifier client's calls, the task and JSON-RPC threads, composed with `SGXVerifier` (EXTENDS) | |
| `TimedRotation` | `KeyRotation` with time and fairness | |
| `AttestedSigner` | abstract: what the Prover promises a task | refined by `KeyRotation` |
| `BatchProver` | generate_poe: the workers, their results, the signing | takes its tasks from `BatchTask` |
| `BatchTask` | the subscriber's log handler, Api::prove's task (EXTENDS `BatchProver`) | |
| `TrieLeaves` | leaf openings, head and tail, the rewriting of a leaf's links and value | operators, used by `ZkTrie`, `TrieHandlers` |
| `ZkTrie` | the trie at the level of its leaves and index | |
| `SparseMerkle` | the Merkle tree of nodes: add_leaf, remove_leaf, get_node, leaf paths | operators, used by `TrieHandlers` |
| `TrieHandlers` | put and remove as the reads and writes of nodes they make | operators, used by `TrieNodes`, `TraceReplay` |
| `TrieNodes` | `ZkTrie` composed with the nodes of `TrieHandlers` (EXTENDS both) | |
| `Traces` | the state manager that records a block, and what MemStore's index makes of the records | a specification of its own, part of `TraceReplay` (EXTENDS) |
| `TraceReplay` | MemStore filled from traces and proofs, and an execution over it | its trie is that of `TrieHandlers` (EXTENDS) |
| `KeyValueMap` | abstract: a map with reads | refined by `ZkTrie`, used by `ZkState`, `TraceReplay` |
| `ZkStateAccount` | accounts and what is asked of them | used by the next two |
| `ZkState` | ZkTrieState: cached accounts and storage words, flush | its trie is `KeyValueMap` (EXTENDS) |
| `AccountLedger` | abstract: accounts without caches | refined by `ZkState` |
| `V3Parser` | the cuts of a quote into its pieces | used by `DcapAttestation` |
| `PEMCertChainLib` | what is read from a quote's certificates | used by `DcapAttestation` |
| `DcapAttestation` | the attestation contract: collateral and verification | |
| `AttestedContracts` | both contracts composed (EXTENDS `SGXVerifier`, `DcapAttestation`) | |
| `X509DateUtils` | the dates of a certificate, against a calendar | |
| `MC...` | the instances for TLC | |
| `...Proofs` | theorems and proofs | |

Before some definitions stand mutated forms of them. They are not part of any
specification; each is a plausible bug, and the property it is paired with
(`PROJECT.json`, "mutants") is violated when it takes its definition's place.

### SGXVerifier

State: `owner`, `attestedProvers`, `attestValiditySeconds`, `batches` are the contract's
storage; `timestamp` is the time of the next block; `commitLog` is the set of CommitBatch
events with, as history, the signer, the time and the validity period in force. One action per function that writes
storage, with its requires as guards; a call that reverts is no step. Callers are
arbitrary. A report is abstracted to the DCAP verdict and the address in its report data, a
PoE to the recovered signer and whether its signature has a legal form. The checked
addition of Solidity 0.8 is kept (`MaxUint`). What `commitBatch` really promises is in
`LogMatchesStorage`: the guard is "new state root is still zero", so a PoE with a zero root may be
committed any number of times, before the batch is closed by a non-zero one.

### KeyRotation

`mpc` is the place of `monitor_attested`: one action per RPC, clock read, store and
transaction. The two writes of `update_prvkey` are two actions (`M_Install`, `M_Publish`)
because `wait_attested` reads the flag without the mutex; `get_prvkey` takes the mutex
(`KeyLocked`). `M_Receipt` does not look at the receipt's status, as in `send_tx`; a
submission that failed may still be mined (`M_SubmitErr` leaves the pending transaction). A period of more than 64 bits (`MaxU64`) panics
where it is read and ends the monitor (`M_Panic`); the flag and the key stay as they are. The
task thread waits, proves, and signs with the key it finds then; a JSON-RPC worker
skips the wait. The environment mines or reverts registrations, lets anyone repeat a
quote it has seen (`Replay`) and send a PoE it has seen (`Commit`), and lets the owner change the
period. The enclave's clock and the block time are two counters, at most `MaxSkew` apart.

`App::run` at this commit has the monitor's and the subscriber's threads commented out
(`apps.rs:55-65`, `78-102`). The constant `Spawned` says which threads exist: the runs of
the rotation take the threads the code is written for, as the README's operating instructions
describe it; the run `app_wiring` takes exactly what `App::run` spawns.

### TimedRotation

Time passes only while the monitor sleeps or awaits a receipt, at most `MaxPause` units in each
wait; RPCs are instantaneous against the sleeps (1 to 60 s). Both clocks move
together and the validity period is constant, since no bound relates a changing period to
the expiry of a key.

### BatchProver, BatchTask

One call of `generate_poe` after the other; the calls share nothing but the key, which
`KeyRotation` models. `stage[b]` is the place of block b's worker: in the queue of `parallel`, between
the RPCs of `fetch_prestate`, before the dry run of `generate_pob`, before `execute`, done, or lost to a
panic. `tries` counts the failed attempts of `retry`, `pob` is what the attempt has
collected, `results` is `batch_result`, `signed` the PoE that the call returned, with its
reports. A chain is a sequence of blocks with their roots; the L2 node may change to another one
(`Reorg`) between any two RPCs. Execution is the constant `Exec`, which gives the root for a
content on a root; BLOCKHASH answers, which come from RPCs that may fail unnoticed
(`block_executor.rs:80`), are right or wrong. Nothing is assumed of `Exec`: it may lead from two roots to one, as a
block does that overwrites what two parents differ in. `fetch_prestate` compares no parent hash, so a block of one chain
may then be executed on the parent of another, reach the root in its header, and be signed: the run `batch` goes
there. What is promised all the same is `ReportOfServedChains`: both roots of a signed report, and the block, are of chains that
the L2 node served during the call (the history variable `served`), and the block leads from the one root to the other. That reports
are of one chain, and fit together, holds when one chain was served (`BatchOfOneChain`). `parallel` is a library, modelled by its use and by the comment at `apps.rs:247`: at most
`Threads` items at a time, items left over after a shutdown or a panic. `Poe::batch` is a library
too: it may refuse (`Refuse`) or not, so nothing here relies on what it checks. The genesis block,
whose parent's number underflows, never gets past `fetch_prestate`.

The handler of `BatchTaskSubscriber` is a fold over the logs of one call (`HandleLog`, `TaskOf`).
`App::run` has the subscriber commented out at this commit (`apps.rs:78-102`); Api::prove is the other
source of tasks. When several logs come in one call, only the last is proved: `TaskIsLogged`
says that its hash and range at least stay together. The earlier ones are dropped.

### ZkTrie

`leaves` is the sub trie as an array of leaf openings, `index` the Database's flattened index
(`update_index`, `remove_index`, `get_nearest_keys`), `nextFree` the counter in the top
node. `put` is `Insert` or `Update`, `remove` is `Remove` or `RemoveAbsent`. The
root hash stands for `<<leaves, nextFree>>` here. `ImplementsMap` says that each call is a step of
`KeyValueMap` for the key it is called with. The Database is
the trait as `trie.rs` uses it: a store whose `get_nearest_keys` reflects the index writes. The only
implementation in the repository, MemStore, answers from traces instead: `TraceReplay` is about it. `LeafOpening::parse` is modelled as written: it
fills `next_leaf` from the word of `prev_leaf`.

### SparseMerkle, TrieHandlers, TrieNodes

`SparseMerkle` has the functions of `sparse_merkle_trie.rs` on trees of nodes that a Database keeps under their hashes.
MiMC is taken to be injective, so a node stands for its hash; a lookup of a node that was not stored, a path that
does not end at its leaf and a leaf that is not there are errors (`Failed`), as in the code. The depth is a
constant (40 in the code). The functions of the code recur with the level; here each is a function from the number of levels that are left
to what it does at every node (`add_leaf`, `remove_leaf`, `find_leaf`), with one level of the code in
`AddAt`, `RemoveAt` and `FindAt`, so that they can be proved about.

`TrieHandlers` has the reads and writes of nodes that put and remove make, in their order: an
insertion reads and writes the left leaf, writes the new one, reads the right one under the root that these
writes have made, writes it, and sets the next free index. `TrieNodes` joins each with the action of `ZkTrie` for
the same call. `RootCommitsToLeaves` compares the root with
the tree built over the leaves from nothing; `NothingFails` says that no operation
runs into an error half-way, when the index and some leaves have been changed already. The Database keeps
old nodes for ever; the model forgets those that the current root does not lead to, which can only make lookups fail
that succeed in the code. An index of 2^40 or more, which `get_leaf_path` would write over the entry of the sub trie, is excluded by
`HandlersAssumption`: shifted to the right by the depth, the highest index is 0.

### Traces, TraceReplay

The state manager is no part of the repository. `Traces` has its records as `trace.rs` reads them, checked
against the blocks in `zktrie/testdata`: a put writes the left neighbour, then the leaf, then the right neighbour, and each proof in
the record is about the trie as the writes before it have left it. Its state is `held` and `free`, the leaves and the next
free index, and `traces`; the first `MaxBefore` changes come before the block and are not recorded (`Before`, `Log`). Of a record the
program uses the old root (`old_top`) and the key's range (`key_range`) here, and the nodes of its proofs
(`build_nodes`) in `TraceReplay`. The hash of a sub trie stands for its leaves, which is sound as far as MiMC is
injective, as everywhere in these modules. `level_map` and `Lookup` are what MemStore's index answers. This
much needs no tree of nodes, so it is a specification that can be proved about (`ManagerSpec`).

`TraceReplay` is `generate_poe_v2`: the state manager's steps (`Manage`), `Fill`, which makes MemStore of the traces and of the
proofs fetched for the accounts that were there at the block before, and then an execution that reads, puts and removes any
key in any order. Real executions are among these; that the execution is arbitrary makes `ReplayIsMap` stronger. `ReplayIsMap` is
tied to the key of each call: a read answers with that key's value, a put or a removal changes that key's, and what fails
changes nothing. The traces are
those of one trie; the traces of storage tries go into the same maps under roots of their own.

What the model keeps because it decides what works:

* A put of a new key needs an index up to `Capacity` (`Full`), as in `ZkTrie`.
* `update_index` and `remove_index` write `staging`, which nothing reads: a lookup after a write
  depends on an entry for the new root. A second change with the same root and key replaces the first
  trace's entry (`level_map`).
* `trace_nodes` files the top node under a hash made with the *hashed* free index, while a root has the plain
  number; so a trie can only be changed at a root that came with a proof (`FirstWriteGoesThrough` needs
  `Included # {}`).
* `add_proof` takes the sibling of a leaf for a Leaf, so that a proof beside an empty leaf is refused
  (`ProofAccepted`); its entry has the neighbours 0 and 0, so `IndexSound` speaks of neighbours only where
  a trace gave the entry.
* After a change, the root differs from the one the state manager recorded, because `LeafOpening::parse` loses the next link
  (`node.rs:404`, finding `trie_links`). A block with more than one change, or with a lookup after one, therefore stops in
  `unreachable!()`. It stops; it does not answer from an entry of another root, which is what `ReplayIsMap` says.
* The final root is logged and compared with nothing (`block_executor.rs:220`).

### ZkState, AccountLedger

`ZkState` is `ZkTrieState`: `cache` and `dirty` are the `TrieCache` of the accounts, `storages` the one of each
account's storage, `map` the account trie, used through the operations of `KeyValueMap`, which `ZkTrie` is shown
to implement. `WithAcc` is `with_key`; each function of the `StateDB` trait is an action that calls it.
`flush` is `FlushBegin` and one `FlushStep` for each update, in the descending order of
`Trie::update`, because a flush is the one operation that changes the trie in several steps; `&mut self`
keeps everything else out while it runs. The default account is encoded as nothing, so a flush
removes its leaf.

Functions that are `unreachable!()` at this commit (`set_state`, `set_code`, `fork`, `revert`, ...), checked arithmetic
that leaves its bounds, and a read of storage under the zero root (a trie no trace has) end
the program: they are no step. Since `set_state` is among them, a storage root never changes
during a block; that `with_storage` would drop words of another root is in the model (`Opened`) and
in the invariant. `is_exist` is kept as written: true of the default account and of no other. The functions of
`TrieCache` that nothing calls (`get_cloned`, `try_with_key`, `mark_dirty`) are left out.

`AccountLedger` has no caches and no flush: an account changes when it is told to, a question is answered
from the account as it is. `ImplementsLedger` says that the caller cannot tell the difference: every call is the ledger's call of the
same kind with the same address, and a flush is none. `StorageFresh` has little depth at this commit, since no storage root can
change; it is what `get_state` rests on in the proof of `ImplementsLedger`.

### V3Parser, PEMCertChainLib, DcapAttestation, AttestedContracts

`DcapAttestation` keeps the order of control of `_verify` (eight steps, the first that fails decides) and
abstracts the cryptography: a key stands for its key pair, a signature is the key it verifies under, a hash is
what was hashed, a bit field is the set of its bits. A decoder that reverts and one that returns false are
alike, since neither registers anybody. Quotes are model values; `Content[q]` holds what the parsers find in
them: `shape` for `parseInput` (`V3Parser`), the reports, and the certificates as records of the DER elements the
library visits (`PEMCertChainLib`). The walk up the chain is three passes of one operator over the
function's locals (`WalkPass`), so that flags that are left over from a pass and breaks that are missing make a
difference; `ChainTrusted`, `Authentic` and `Admits` say without any order what acceptance should mean. Where the code walks
or searches (the chain, the first level reached), `VerdictExact` compares two statements that have nothing in
common; its other conjuncts are single tests, the same on both sides, and what it adds about them is that each is
made and none decides too early.

The owner's functions are the actions of `DcapNext`. `owner` has no setter in this contract. `toggleLocalReportCheck`
stands twice in the source with one signature (lines 62 and 121): the first is external with onlyOwner, the second internal without a
caller. The model has the first.
`serialNumIsRevoked` is read by the walk and never written: the functions that would are internal and have no
caller, so that the revocation branch cannot be taken at this commit (it is in the model and in the proofs
nevertheless, which hold for any content of it). An fmspc that was never configured
reads as a struct of empty strings, which is why `TcbConfigured` compares the fmspc inside the struct again.

`AttestedContracts` puts the verdict into `submitAttestationReport`. Two history variables are added:
`registeredBy`, the quote of each prover's last accepted report, and `refusedSince`, for each quote and each aspect
(enclave, quoting enclave, platform) the time since when the collateral refuses it without a break.

Details of the decoders that the model keeps because they decide what is accepted: `decodeCert` refuses
GeneralizedTime for notBefore alone (`PEMCertChainLib.sol:122`, where the test reads "not UTCTime and GeneralizedTime");
a repeated entry of the SGX extension overwrites the one before; `_findTcb` reads the first two octets of a
number, whatever its length. The comments there (lines 331 and 334) say that a number has at most two bytes (pcesvn four);
a DER INTEGER from 32768 on has a third octet, a leading zero, and 32768 is read as 128. `SmallSvnsRead` proves that
below that number nothing goes wrong, and Intel's numbers are far smaller.

The comment on `_verify` (line 140) says that an invalid quote is answered with INVALID_EXIT_CODE. The code answers with the report
data of the enclave, or with 64 zero bytes when the quote does not parse. SGXVerifier looks at the
flag first, so nothing follows from it there.

### X509DateUtils

A pure function over its whole range: the module walks a reference calendar day by day and compares
`toTimestamp` of the day's two written forms, at its first and at its last second, with the second the calendar is at. The
hundreds of a four-digit year are computed in uint8, so that a year whose second digit is 3 or more reverts: the years 1970 to
1999 can be written in UTCTime only, which is also what certificates do (`CenturyReverts`).

## 3. Runs

| run | question | bounds |
|---|---|---|
| `contract` | does the contract keep its books under arbitrary calls? | 2 accounts, 1 batch hash, roots {zero, other}, periods {0, 2}, block times 1..3, and 4 for 2^256-1, so that a report expires and the checked sum overflows |
| `rotation` | safety of the rotation, all interleavings; refinement of AttestedSigner | 3 keys (two rotations), periods {1, 3, 11} with 10 for 2^64-1, cooldown 4, which each period cuts to 1 or 0, clocks 3..5 with skew 1, one disruption |
| `rotation_in_time` | does the next key arrive before the old one expires? | 5 keys, period 16, waits of one unit, cooldown 2, one disruption, time to 38: three rotations; the numbers satisfy `RotationFits`, which TLC evaluates (`MCRotationInTime`) |
| `rotation_liveness` | does the prover get attested, are waiting tasks released, do threads end? | 3 keys, period 8, one disruption, time to 12, no batches |
| `app_wiring` | the same liveness for the threads `App::run` starts | violated: see the findings |
| `batch` | what does generate_poe sign under reorganisations, failed RPCs, panics and shutdown; does it return? | chain of 3 blocks, 3 chains over one genesis, 2 threads, 3 attempts, 2 reorganisations, logs: none, one, two of one or two transactions |
| `trie` | the trie's index, links, map semantics, root and nodes | 3 keys, 2 values, depth 3 with 7 leaf indices: five insertions beside head and tail |
| `trie_links` | the chain of next links | violated: see the findings |
| `replay` | is an execution over recorded traces ever answered from the wrong root? | 2 keys, 2 values, depth 3, two changes before the block, up to two traces in it, executions of any length |
| `zk_state` | is any read stale, any write lost? | 2 addresses, one with a leaf and one without; balances and nonces of one bit, so that accounts become empty and arithmetic leaves its bounds; a storage trie of two slots with different words; code that the Database lacks |
| `attested_contracts` | does the verdict mean what it should, and what does distrust change? | one prover, one outsider, 8 quotes: a good one and seven that differ from it in one respect each; 3 TCB infos (unset, new to old, old to new), 3 QE identities, no batches (they play no part in it), period 1, times 1..3 with a certificate that expires at 3 |
| `dates` | is every day read as the second it is? | 1970 to 2101: leap years, the pivot of two-digit years, and 2100, which is no leap year |

Why the bounds are enough. A rotation involves the active key, the staged key and at most one new
key, so three keys cover the interactions of two consecutive rotations; an account of the
contract interacts with another only through its own entry. The period 1 makes `validity / 2`
zero and lets a key expire, the period 3 makes it round, the period 11 cannot be read. In the trie an insertion touches the new key and its two
neighbours; three keys make every combination of head, tail and inner neighbours
occur, and five insertions go through removal and re-insertion. The safety properties of
these runs are then proved without the bounds (section 4).

In `replay` two traces are the least with which an entry can be made at one root and used at another, or be replaced by a later
one with the same root and key; the changes before the block make it start from any trie of two keys, including one where
a key was removed, so that an index is free in the middle.

Two reorganisations let a chain come back to where it was (and to a third one) between the two RPCs of a
block; one chain has a block that overwrites what the chains' roots differ in, so that the comparison of
roots lets its execution on another chain's root pass, while the other blocks keep what was there before them, so
that it must not let them pass; three blocks for two threads make one wait in the queue.

The state database treats addresses alike but for the order of the flush, so two of them show one account that is
written while another still waits; every answer is about one account. Its properties are
proved for any number of addresses, slots and words.

The walk over certificates and the search for levels decide by themselves, step by step, so that quotes which
differ from a good one in one respect each show every branch; the sequences of calls matter only for the
registry's time, for which one period and one expiry suffice. `VerdictExact` and the
registry's properties are proved for all quotes and all collateral.

Bounds are named constants used in guards: `LastYear`, `MaxReorgs`, `MaxTime`, `MaxSkew`, `MaxDisruptions`, `MaxPause`,
`MaxBefore`, `MaxTraces`,
`Capacity`, and the finite set `Key` of keys that can be drawn (`OutOfKeys` marks the states where the
monitor stands still only because of it).

Fairness (TimedRotation). Threads run: weak fairness of the monitor's steps and of each
worker's steps except the arrival of a request. A transaction that was sent is mined: weak
fairness of `Mined`; that is what the transaction sender's resending is for. Sleeps take time:
strong fairness of `Pause`, because the monitor's own step disables it. Nothing is assumed of third
parties, the owner, or the shutdown. BatchProver: weak fairness of each block's worker (threads run, and an RPC
answers or fails) and of the end of a call once `parallel` has returned.

`batch` and `replay` are checked without TLC's deadlock check: after a shutdown, with no call running, the system
stops; an execution over traces stops at the first root or key the store does not know.

### Findings

* `app_wiring`: the README says to wait for "prover[..] is attested" to appear, but
  `App::run` does not start the thread that would print it; the prover is never attested, and
  every PoE that Api::prove returns is signed with the unregistered key of `Prover::new`.
* `trie_links`: `LeafOpening::parse` (`node.rs:404`) reads `next_leaf` from the first word. Every
  leaf that put or remove rewrites therefore gets its own prev index as next link, unless
  the next link is what the operation sets. The head, the tail and a first key hide it: it shows
  after two insertions. The roots such a trie computes are not those of the state manager.

## 4. Proofs

All theorems are of the specifications above, with the constants arbitrary up to the named
assumptions (`ContractAssumption`, `RotationAssumption`, `BatchAssumption`,
`TrieAssumption`, `TracesAssumption`, `DepthAssumption`, `HandlersAssumption`, `AccountAssumption`, `StateAssumption`, `DcapAssumption`, `QuoteAssumption`, `CertAssumption`).

* **SGXVerifierProofs**. `ContractTypeOK` is inductive. `LogMatchesStorage` is inductive with it: the
  one interesting step is commitBatch, which finds no non-zero event of its hash because
  storage holds a zero root. `CommitsWithinValidity`, which compares the signer's report with the period that was
  in force at the commit, is inductive with it because
  registrations only grow and block time does not fall. `RegistryMonotone` follows from
  `attestedProvers[a] <= timestamp`.
* **KeyRotationProofs**. The inductive invariant is `Inv == TypeOK /\ RotationInv`. `AttestedKeyRegistered`
  alone is not inductive: the flag is set from what was read several steps ago, so the invariant
  must say, at every place of the monitor, that the key it asked about is the one it will act on, that a
  non-zero time it read means that key is registered, and that a key about to be installed is registered; and
  that a task past `wait_attested` finds a registered key, which every later rotation
  keeps. `RotationAssumption` contains the one fact about numbers it needs: Unix time is larger than
  any validity period that fits into 64 bits, which is why a registration time of zero is in the past although the code
  does not test for it. A period between Unix time and 2^64 would make the monitor take an unregistered
  key for attested; it would be more than fifty years, and the assumption excludes it. A step of the composition is a step of the contract
  (`RotationUsesContract`), so the contract's theorems carry over. `SubmissionsSpaced` uses
  a separate invariant on the cooldown test; `CommitsFromQuotedKeys` one on where
  quotes and signatures come from: whoever signed a batch that the contract took, a worker that did not wait
  for the flag included, its key was quoted by the enclave. The runs of the rotation leave that worker out, since with it the instances no longer
  finish; the theorems hold with it. `SignerImplemented` maps every action to a step of AttestedSigner or a
  stutter.

  `RotationIsPunctual` proves `AttestedMeansAccepted` of `TimedSpec`. Its hypothesis `RotationFits` is a fact about the
  numbers alone: the cooldown and one wait fit into half a period, and half a period, three waits and what the
  failures cost are less than a period; a failure costs `Retry`, two waits and a cooldown. With the numbers of the
  code (a period of 3600 s, a cooldown of 180 s, waits of 60 s) there is room for five failures. They are counted over the
  whole behaviour, so the theorem is about a stretch with a bounded number of failures, not about failures
  that go on at a low rate. The invariant (`TimingInv`) says at every place of the monitor how old the report of the active
  key can be, in half periods, waits and the failures so far (`Spent`), and as long as a key is staged, that its cooldown ends in
  time or that it was registered later than the active key by the corresponding amount. It needs the untimed
  invariants, because the key that the clock reads are about must be the one that is installed.
* **BatchProverProofs**. What is signed depends on what each worker held several steps ago, so `Inv` says
  it for every stage: a collected block is a block of some chain; a filed result is an execution of
  it; and every chain they are taken from was served since the call began (`ServedNow`, `Collected`, `Executed`).
  `IdleClean` (nothing is held between calls) makes the last part true when a call begins.
  `ReportOfServedChains` then follows where the call compares roots: the executed block reached the root in the header of
  a block that was served (`ExecutedOn`). `BatchOfOneChain` is the case of a single chain in `served`. In these the tasks are an arbitrary set.
  `SignedTasksAreLogged` adds where they come from: if they are what the handler and Api::prove make (`FedTasks`, which the run
  `batch` uses), the batch and the range of whatever is signed come from one log. The handler is a recursive function over the logs of a
  call, and nothing is known of such a function before its equation has a solution; both that and what its last
  value holds are shown by taking the least number for which they fail (`HandlerStates`, `TaskOfLast`).
* **ZkTrieProofs**. The invariant adds to the checked properties that all leaves lie below `nextFree`, that
  head and tail are in place and that distinct keys have distinct indices. The insertion and
  removal are first reduced to what they do to each leaf (`InsertPointwise`, `RemovePointwise`).
  The map refinement goes through `committed = Flat`: the leaves hold what the index says. `MapCalls` ties it to the
  key of each call.

  For the trie on its Merkle tree (`NodesSpec`) the invariant is `NodesInv`: `TrieInv`, and the tree holds the leaves
  (`TreeHoldsLeaves`): its root is that of the leaves and the next free index, and for every index, used or
  not, the nodes from the root to it are in the Database. The root alone (`RootCommitsToLeaves`) is not inductive,
  since an operation fails where a node is missing; that nothing is missing (`NothingFails`) is not, either,
  since which nodes are needed depends on the root. `HeldInserted`, `HeldRemoved` and `HeldUpdated` say that the
  writes of the handlers, one after the other, make the leaves that `ZkTrie` writes in one step;
  `KeptHolds` that no node that is needed is lost when those the root does not lead to are forgotten.
  `NodesInvariant` also shows that `NodesSpec` implements `Spec`, so the theorems about the leaves hold there.
* **SparseMerkleProofs**. What put, remove and get_node do, for any depth: they succeed exactly where the path is stored, and
  give the tree of the leaves with one leaf more, less or rewritten (`PutOnPath`, `RemoveOnTree`, `GetOnTree`).
  Each recursion over the levels is first shown to have a solution, because the least number of levels without one has
  one: that of one level less, continued. Then the levels are gone through from the leaf upwards (`LevelByLevel`). The
  two facts about numbers are that the bits of an index lead from height to height
  (`PathBranch`, `PathFromRoot`), and that a leaf written at one index changes the tree of a height only over that
  index shifted by the height (`OverOff`), so the siblings stay what they were. `Holds` says that a tree is complete for some leaves;
  `PutNewHolds`, `PutOverHolds` and `RemoveOldHolds` show that the handlers keep it, for any leaves, if the
  neighbours they are given are leaves of the tree and differ from the leaf they write.
* **ZkStateProofs**. The inductive invariant is the conjunction of the three checked ones: an account is marked, waits for
  the running flush, or equals its leaf. `WithAccEffect` states what `with_key` does to the account that
  everybody sees (`Current`); the operations are then corollaries. In a flush the largest waiting address is
  one of those that wait, which for an unbounded address space comes from the well-foundedness of the naturals
  (`MaxAddressed`). `LedgerImplemented` maps the ledger's account to `Current`: changes map to
  changes, questions to questions, each for the address of the call (`LedgerCalls`), and the two steps of a flush to stutters.
* **AttestedContractsProofs**. `VerdictIsExact` compares the code's procedure with the declarative
  meaning. `WalkExact` goes through the three passes: after each the locals say that the walk is still going
  (every certificate so far is good and none was issued under the root), has succeeded, or has failed. For
  the levels, `FirstReached` shows that the first index of a non-empty set of indices exists, from the
  well-foundedness of the natural numbers, and that a condition holds there if and only if it holds at some index
  reached with none before. The inductive invariant `AttestedInv` is the types, `RegistrationJustified`, and that the history of refusals
  agrees with the collateral: 0 exactly when the aspect is admitted. A registration after a refusal therefore contradicts the verdict,
  and `DistrustTakesEffect` remains, whose deadline moves only with the validity period.
  `RegistryUnderAttestation` shows that each step is a step of SGXVerifier or leaves it alone. `QuotePiecesDisjoint`
  is arithmetic over the sizes a quote claims, `SmallSvnsRead` division with remainder.

  `DatesCorrect` is of the calendar up to 2299, the last year whose century the code can compute. The loops over years
  and months are a function that recurs over the rounds (`Sums`, `SumsDef`). The invariant `CalendarInv` is that the
  calendar's count equals what the loops have for the year and the month, and the days since. A new month adds the length of
  the month before (`MonthLengths` compares the table with the calendar's rule), and a new year adds what the
  twelve months come to (`DecemberStart`). The digits are read back by `UTCTimeRead` and `GeneralizedTimeRead`.

* **TracesProofs**. `IndexIsSound` is of `ManagerSpec`, for any number of keys, changes and traces. The invariant says that
  the manager's trie is well linked (one leaf for a key, no leaf at `free` or above, and each link names the
  nearest leaf, `Relinked`, `Inserted`, `Deleted`), and that every record is sound about the trie it was made on, which does
  not change afterwards (`LogKeeps`). A lookup takes the last record with its root and key, or the proof of the trie
  before the first record; `LookupTrue` follows, since the records before the last one do not matter. In `TraceReplay` the
  state manager takes the steps of `ManagerNext`, and every other step leaves its variables alone.

  `ReplayIsMapCorrect` is of `ReplaySpec`, for any depth. MemStore lacks nodes, so nothing is said of which nodes it has: the invariant
  (`ReplayInv`) is that the root is over some leaves (`Leaves`), one for each key and all below the next free index, with the index still
  what `Lookup` made it. Their links may be out of date. The argument has three parts. A root determines its leaves (`HeldAtRoot`), so an
  entry found under a root is true of the leaves there even if it was filed for a root reached in another way (`RangeTrue`).
  An operation that does not fail has rewritten the leaves it was to rewrite, whatever else is missing (`PutNewMade`,
  `PutOverMade`, `RemoveOldMade`). And such a put or removal changes the value of its key and, of other leaves, nothing but
  links, even with the neighbours 0 and 0 of a proof's entry (`NewPut`, `OverPut`, `OldRemoved`). `ReplayCalls` says so of each
  call and its key, `ReplayEnds` that a call that fails changes nothing.

  `FirstChangeGoesThrough` adds what the store does have. `BuiltPath` shows that `build_nodes`, which joins a leaf with its
  siblings from below, makes the nodes on the leaf's path in the tree of the record. The invariant keeps how the proofs of a
  record were made (`Formed`): of an insertion the left leaf's in the trie before, the new leaf's with the left one relinked,
  the right leaf's with the new one added. It also says that records up to the first change are about the trie at the block before (`AtStart`), and that every change
  keeps the nodes the store was filled with (`Filled`). The entry for such a record names the neighbours in
  the record's proofs, because the nearest leaves are unique (`NearestSame`, `RangeExact`). So each of the three leaves an operation rewrites has
  its path in the store when its turn comes (`PutNewGoes`, `PutOverGoes`, `RemoveOldGoes`). The third path
  of an insertion needs one thing more: the new leaf may carry another value than the recorded one, and then the nodes the
  two paths share come from writing that leaf (`OthersStored`).

Only model-checked: liveness (`EventuallyAttested`, `TaskReleased`, `ShutdownCompletes`, `CallReturns`), which is
outside what TLAPS proves. Also outside the prover's reach is anything in a module with RECURSIVE operators. The library's induction
theorems take an operator as parameter, which the provers cannot instantiate; a recursive function over `0..n` can still be
reasoned about through the least number at which a claim fails.

## 5. Not modelled, and the plan

Done: the contract, the rotation, the prover's batches, the trie's leaves and nodes, the replay of traces, the state database, attestation,
dates and version numbers. To come, in this order:

1. Block executor: which block hashes the dry run collects (a failed RPC leaves none) and the window
   of 256; the batch model has it as "right or wrong".
2. The remaining pure functions: BytesUtils comparisons, DER lengths.
3. `submit_poe` of a batch without blocks (`apps.rs:128`).

Not modelled because nothing of it is decided here: MiMC, the RSA and SHA-1 libraries and signature formats (arithmetic of
cryptography, no state), the Shomei client and the RPC libraries (I/O), the EVM (a library), the
launchers and scripts.

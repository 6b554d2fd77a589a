---------------------------- MODULE KeyRotation ----------------------------
(***************************************************************************)
(* The enclave's signing key and the threads that share it                 *)
(* (linea/src/prover.rs, verifier.rs, apps/prover/src/apps.rs), composed   *)
(* with the contract of SGXVerifier:                                       *)
(*                                                                         *)
(*   - Prover::monitor_attested registers a fresh key on chain, keeps it   *)
(*     in staging_key until the chain reports it, and installs it; one     *)
(*     action per RPC, clock read and store;                               *)
(*   - the batch-task thread waits for the attested flag, proves, signs    *)
(*     with the key it finds then, and sends the PoE;                      *)
(*   - a JSON-RPC worker (Api::prove) proves and signs without waiting;    *)
(*   - the chain mines, reverts or delays what was sent.                   *)
(*                                                                         *)
(* The chain's clock and the enclave host's clock are two clocks.  RPC     *)
(* errors, aborted or reverted transactions and reports repeated by third  *)
(* parties are disruptions, at most MaxDisruptions of them.                *)
(***************************************************************************)
EXTENDS SGXVerifier

CONSTANTS
    Key,             \* the keys secp256k1_gen_keypair draws, named by their address
    None,            \* Option::None
    ZeroHash,        \* SH256::default(), the data_hash Api::prove uses
    SubmitCooldown,  \* the initial submit_cooldown (180 s)
    Spawned,         \* the threads App::run starts
    MaxU64,          \* the largest u64; verifier.rs reads the contract's uint256 as u64
    MaxSkew,         \* bound on the distance of the two clocks
    MaxDisruptions   \* bound on the disruptions of one behaviour

ASSUME RotationAssumption ==
    /\ Key \subseteq Address
    /\ None \notin Address
    /\ ZeroHash \in BatchHash
    /\ SubmitCooldown \in Nat
    /\ MaxSkew \in Nat
    /\ MaxDisruptions \in Nat
    /\ MaxU64 \in Nat
    \* Unix time is larger than any validity period that monitor_attested can read: it does
    \* not test attested_time for zero, so this is what keeps 0 + validity in the past.
    /\ \A v \in Validity : v <= GenesisTime \/ v > MaxU64

Worker == {"task", "rpc"}

VARIABLES
    alive,          \* base::trace::Alive, shared by every thread
    clock,          \* base::time::now() of the enclave host
    prvkey,         \* Prover.prvkey
    attested,       \* Prover.attested
    staging,        \* staging_key
    lastSubmit,     \* last_submit, 0 for None
    cooldown,       \* submit_cooldown
    mpc,            \* where monitor_attested is
    mkey,           \* the key this iteration asks about
    attestedTime,   \* attested_time
    validity,       \* attested_validity_secs
    mnow,           \* now
    newKey,         \* new_prover_prvkey
    used,           \* every key generated so far
    quotes,         \* keys with a quote that has left the enclave
    attestTxs,      \* keys whose submitAttestationReport transaction is pending
    receipts,       \* keys whose transaction is mined (receipt status 0 or 1)
    wpc,            \* where each worker is
    wkey,           \* the key in the PoE of each worker
    poes,           \* the PoEs that have left the enclave
    signed,         \* history: [by: Worker, key: Key] of every PoE signed
    disruptions     \* how many disruptions have happened

locals      == <<mkey, attestedTime, validity, mnow>>
monitorVars == <<staging, lastSubmit, cooldown, mpc, locals, newKey>>
keyVars     == <<prvkey, attested>>
txVars      == <<used, quotes, attestTxs, receipts>>
workerVars  == <<wpc, wkey, poes, signed>>
proverVars  == <<alive, clock, keyVars, monitorVars, txVars, workerVars, disruptions>>
vars        == <<contractVars, proverVars>>

\* The mutex of Prover.prvkey is held by update_prvkey from its first write to its end.
KeyLocked == mpc = "publish"

\* The locals of an iteration, once nothing reads them.
DropLocals ==
    /\ mkey' = None
    /\ attestedTime' = 0
    /\ validity' = 0
    /\ mnow' = 0

Disrupt == disruptions < MaxDisruptions /\ disruptions' = disruptions + 1

\* is_attesed: the registration, as far as it was read, covers now.
IsAttested == attestedTime + validity > mnow

----------------------------------------------------------------------------
(* Mutated forms of definitions below, one plausible bug each; no specification uses
   them: the properties are tested against them. *)

\* Rotation starts only when the registration has expired.
NeedAttestationLate == attestedTime + validity < mnow

\* The loop condition forgets the Alive flag.
M_LoopForever ==
    /\ mpc = "loop"
    /\ mpc' = "status"
    /\ mkey' = IF staging = None THEN prvkey ELSE staging
    /\ UNCHANGED <<contractVars, alive, clock, keyVars, staging, lastSubmit, cooldown,
                   attestedTime, validity, mnow, newKey, txVars, workerVars, disruptions>>

\* The cooldown is reduced by the period instead of halving it.
M_ValidityUnderflow ==
    /\ mpc = "validity"
    /\ attestValiditySeconds <= MaxU64
    /\ validity' = attestValiditySeconds
    /\ cooldown' = attestValiditySeconds \div 2 - cooldown
    /\ mpc' = "clock"
    /\ UNCHANGED <<contractVars, alive, clock, keyVars, staging, lastSubmit,
                   mkey, attestedTime, mnow, newKey, txVars, workerVars, disruptions>>

\* The flag follows the answer about the staged key, too.
M_StoreAnyKey ==
    /\ mpc = "store"
    /\ attested' = IsAttested
    /\ mpc' = IF attestedTime + validity \div 2 < mnow THEN "cooldown"
              ELSE IF staging # None THEN "install" ELSE "loop"
    /\ DropLocals
    /\ UNCHANGED <<contractVars, alive, clock, prvkey, staging, lastSubmit, cooldown,
                   newKey, txVars, workerVars, disruptions>>

\* A staged key is installed without waiting for the chain to report it.
M_StoreInstallsEarly ==
    /\ mpc = "store"
    /\ attested' = IF staging = None THEN IsAttested ELSE attested
    /\ mpc' = IF staging # None THEN "install"
              ELSE IF attestedTime + validity \div 2 < mnow THEN "cooldown" ELSE "loop"
    /\ DropLocals
    /\ UNCHANGED <<contractVars, alive, clock, prvkey, staging, lastSubmit, cooldown,
                   newKey, txVars, workerVars, disruptions>>

\* A new key is submitted in every iteration.
M_NoCooldown ==
    /\ mpc = "cooldown"
    /\ \E k \in Key \ used :
          /\ newKey' = k
          /\ used' = used \cup {k}
          /\ mpc' = "report"
    /\ UNCHANGED <<contractVars, alive, clock, keyVars, staging, lastSubmit, cooldown, locals,
                   quotes, attestTxs, receipts, workerVars, disruptions>>

\* The submitted key is not kept.
M_ReceiptForgets ==
    /\ mpc = "await"
    /\ newKey \in receipts
    /\ lastSubmit' = clock
    /\ newKey' = None
    /\ mpc' = "loop"
    /\ UNCHANGED <<contractVars, alive, clock, keyVars, staging, cooldown, locals,
                   txVars, workerVars, disruptions>>

\* wait_attested returns after its first sleep.
W_AttestedOrNot(w) ==
    /\ wpc[w] = "wait"
    /\ wpc' = [wpc EXCEPT ![w] = "prove"]
    /\ UNCHANGED <<contractVars, alive, clock, keyVars, monitorVars, txVars, wkey, poes,
                   signed, disruptions>>

\* wait_attested ignores the shutdown.
W_CancelProveOnly(w) ==
    /\ wpc[w] = "prove"
    /\ wpc' = [wpc EXCEPT ![w] = "idle"]
    /\ UNCHANGED <<contractVars, alive, clock, keyVars, monitorVars, txVars, wkey, poes,
                   signed, disruptions>>

----------------------------------------------------------------------------
\* monitor_attested, one iteration

\* while alive: clone the active key; the iteration asks about staging_key if there is one.
M_Loop ==
    /\ mpc = "loop"
    /\ IF alive
       THEN /\ mpc' = "status"
            /\ mkey' = IF staging = None THEN prvkey ELSE staging
       ELSE /\ mpc' = "done"
            /\ UNCHANGED mkey
    /\ UNCHANGED <<contractVars, alive, clock, keyVars, staging, lastSubmit, cooldown,
                   attestedTime, validity, mnow, newKey, txVars, workerVars, disruptions>>

\* verifier.prover_status answers.
M_Status ==
    /\ mpc = "status"
    /\ attestedTime' = attestedProvers[mkey]
    /\ mpc' = "validity"
    /\ UNCHANGED <<contractVars, alive, clock, keyVars, staging, lastSubmit, cooldown,
                   mkey, validity, mnow, newKey, txVars, workerVars, disruptions>>

\* verifier.attest_validity_seconds answers; a period below the cooldown halves into it.
M_Validity ==
    /\ mpc = "validity"
    /\ attestValiditySeconds <= MaxU64
    /\ validity' = attestValiditySeconds
    /\ cooldown' = IF attestValiditySeconds < cooldown
                   THEN attestValiditySeconds \div 2 ELSE cooldown
    /\ mpc' = "clock"
    /\ UNCHANGED <<contractVars, alive, clock, keyVars, staging, lastSubmit,
                   mkey, attestedTime, mnow, newKey, txVars, workerVars, disruptions>>

\* A period of more than 64 bits panics in as_u64: the monitor's thread is gone, and the
\* flag and the active key stay as they are.
M_Panic ==
    /\ mpc = "validity"
    /\ attestValiditySeconds > MaxU64
    /\ mpc' = "done"
    /\ DropLocals
    /\ UNCHANGED <<contractVars, alive, clock, keyVars, staging, lastSubmit, cooldown,
                   newKey, txVars, workerVars, disruptions>>

\* Either RPC fails: log, sleep a second, start over.
M_RpcErr ==
    /\ mpc \in {"status", "validity"}
    /\ Disrupt
    /\ mpc' = "loop"
    /\ DropLocals
    /\ UNCHANGED <<contractVars, alive, clock, keyVars, staging, lastSubmit, cooldown,
                   newKey, txVars, workerVars>>

M_Clock ==
    /\ mpc = "clock"
    /\ mnow' = clock
    /\ mpc' = "store"
    /\ UNCHANGED <<contractVars, alive, clock, keyVars, staging, lastSubmit, cooldown,
                   mkey, attestedTime, validity, newKey, txVars, workerVars, disruptions>>

\* need_attestation: half of the period has passed.
NeedAttestation == attestedTime + validity \div 2 < mnow

\* The flag follows the answer only while no key is staged.
M_Store ==
    /\ mpc = "store"
    /\ attested' = IF staging = None THEN IsAttested ELSE attested
    /\ mpc' = IF NeedAttestation THEN "cooldown"
              ELSE IF staging # None THEN "install" ELSE "loop"
    /\ DropLocals
    /\ UNCHANGED <<contractVars, alive, clock, prvkey, staging, lastSubmit, cooldown,
                   newKey, txVars, workerVars, disruptions>>

\* update_prvkey, first write: staging_key.take() becomes the active key.
M_Install ==
    /\ mpc = "install"
    /\ prvkey' = staging
    /\ staging' = None
    /\ mpc' = "publish"
    /\ UNCHANGED <<contractVars, alive, clock, attested, lastSubmit, cooldown, locals, newKey, txVars, workerVars, disruptions>>

\* update_prvkey, second write: the flag, still under the mutex.
M_Publish ==
    /\ mpc = "publish"
    /\ attested' = TRUE
    /\ mpc' = "loop"
    /\ UNCHANGED <<contractVars, alive, clock, prvkey, staging, lastSubmit, cooldown, locals, newKey, txVars, workerVars, disruptions>>

\* The second clock read: draw a fresh key unless a submission is still cooling down.
M_Cooldown ==
    /\ mpc = "cooldown"
    /\ IF lastSubmit = 0 \/ clock > lastSubmit + cooldown
       THEN \E k \in Key \ used :
               /\ newKey' = k
               /\ used' = used \cup {k}
               /\ mpc' = "report"
       ELSE /\ mpc' = "loop"
            /\ UNCHANGED <<newKey, used>>
    /\ UNCHANGED <<contractVars, alive, clock, keyVars, staging, lastSubmit, cooldown, locals, quotes, attestTxs, receipts, workerVars,
                   disruptions>>

\* generate_prover_report returns the quote; verify_report_on_chain has seen it, and its
\* boolean answer is ignored.
M_Report ==
    /\ mpc = "report"
    /\ quotes' = quotes \cup {newKey}
    /\ mpc' = "submit"
    /\ UNCHANGED <<contractVars, alive, clock, keyVars, staging, lastSubmit, cooldown, locals, newKey, used, attestTxs, receipts,
                   workerVars, disruptions>>

\* It fails, before the quote exists or in verify_report_on_chain: the key is dropped.
M_ReportErr ==
    /\ mpc = "report"
    /\ Disrupt
    /\ quotes' \in {quotes, quotes \cup {newKey}}
    /\ newKey' = None
    /\ mpc' = "loop"
    /\ UNCHANGED <<contractVars, alive, clock, keyVars, staging, lastSubmit, cooldown, locals, used, attestTxs, receipts, workerVars>>

\* send_tx hands the transaction to the sender.
M_Submit ==
    /\ mpc = "submit"
    /\ attestTxs' = attestTxs \cup {newKey}
    /\ mpc' = "await"
    /\ UNCHANGED <<contractVars, alive, clock, keyVars, staging, lastSubmit, cooldown, locals, newKey, used, quotes, receipts, workerVars,
                   disruptions>>

\* send_tx returns an error: the sender refuses, or wait_finished gives up ("tx aborted"),
\* which it also does at shutdown.  The key is dropped; a transaction already sent stays.
M_SubmitErr ==
    /\ \/ mpc = "submit" /\ Disrupt
       \/ mpc = "await"  /\ Disrupt
       \/ mpc = "await"  /\ ~alive /\ UNCHANGED disruptions
    /\ newKey' = None
    /\ mpc' = "loop"
    /\ UNCHANGED <<contractVars, alive, clock, keyVars, staging, lastSubmit, cooldown, locals, txVars, workerVars>>

\* A receipt arrives, whatever its status: the key is staged.
M_Receipt ==
    /\ mpc = "await"
    /\ newKey \in receipts
    /\ lastSubmit' = clock
    /\ staging' = newKey
    /\ newKey' = None
    /\ mpc' = "loop"
    /\ UNCHANGED <<contractVars, alive, clock, keyVars, cooldown, locals, txVars, workerVars, disruptions>>

MonitorStep ==
    \/ M_Loop \/ M_Status \/ M_Validity \/ M_Clock \/ M_Store \/ M_Install \/ M_Publish
    \/ M_Cooldown \/ M_Report \/ M_Submit \/ M_Receipt
    \/ M_SubmitErr \/ M_RpcErr \/ M_ReportErr \/ M_Panic

----------------------------------------------------------------------------
\* The workers that sign

\* The PoE of a batch, signed by key; the state root of a block header is never zero.
SignedPoe(key, hash, root) ==
    [batchHash |-> hash, prevStateRoot |-> ZeroRoot, newStateRoot |-> root,
     signer |-> key, sigOk |-> TRUE]

\* A DataSubmitted log, or a JSON-RPC request, reaches a worker that the app started.
W_Start(w) ==
    /\ alive
    /\ wpc[w] = "idle"
    /\ wpc' = [wpc EXCEPT ![w] = IF w = "task" THEN "wait" ELSE "prove"]
    /\ UNCHANGED <<contractVars, alive, clock, keyVars, monitorVars, txVars, wkey, poes,
                   signed, disruptions>>

\* wait_attested sees the flag.
W_Attested(w) ==
    /\ wpc[w] = "wait"
    /\ attested
    /\ wpc' = [wpc EXCEPT ![w] = "prove"]
    /\ UNCHANGED <<contractVars, alive, clock, keyVars, monitorVars, txVars, wkey, poes,
                   signed, disruptions>>

\* The task ends early: wait_attested at shutdown, or an error of generate_poe, which is
\* also where a shutdown leaves the parallel workers.
W_Cancel(w) ==
    /\ \/ wpc[w] = "wait" /\ ~alive
       \/ wpc[w] = "prove"
    /\ wpc' = [wpc EXCEPT ![w] = "idle"]
    /\ UNCHANGED <<contractVars, alive, clock, keyVars, monitorVars, txVars, wkey, poes,
                   signed, disruptions>>

\* generate_poe succeeds: the batch is signed with the key that is active now.
W_Sign(w) ==
    /\ wpc[w] = "prove"
    /\ ~KeyLocked
    /\ wkey' = [wkey EXCEPT ![w] = prvkey]
    /\ signed' = signed \cup {[by |-> w, key |-> prvkey]}
    /\ wpc' = [wpc EXCEPT ![w] = "submit"]
    /\ UNCHANGED <<contractVars, alive, clock, keyVars, monitorVars, txVars, poes, disruptions>>

\* submit_poe sends commitBatch and waits for a receipt it does not inspect; Api::prove
\* returns the PoE to its caller.  Either way the PoE is out.
W_Submit(w) ==
    /\ wpc[w] = "submit"
    /\ \E root \in Root \ {ZeroRoot}, hash \in BatchHash :
          /\ (w = "rpc") = (hash = ZeroHash)
          /\ poes' = poes \cup {SignedPoe(wkey[w], hash, root)}
    /\ wkey' = [wkey EXCEPT ![w] = None]
    /\ wpc' = [wpc EXCEPT ![w] = "idle"]
    /\ UNCHANGED <<contractVars, alive, clock, keyVars, monitorVars, txVars, signed, disruptions>>

W_Stop(w) ==
    /\ ~alive
    /\ wpc[w] = "idle"
    /\ wpc' = [wpc EXCEPT ![w] = "done"]
    /\ UNCHANGED <<contractVars, alive, clock, keyVars, monitorVars, txVars, wkey, poes,
                   signed, disruptions>>

WorkerStep(w) ==
    W_Start(w) \/ W_Attested(w) \/ W_Cancel(w) \/ W_Sign(w) \/ W_Submit(w) \/ W_Stop(w)

----------------------------------------------------------------------------
\* The chain and the clocks

QuoteOf(k) == [valid |-> k \in quotes, prover |-> k]

\* The pending registration of k is mined: it succeeds, or it reverts and nobody looks.
MineAttest(k) ==
    /\ k \in attestTxs
    /\ attestTxs' = attestTxs \ {k}
    /\ receipts' = receipts \cup {k}
    /\ \/ submitAttestationReport(k, QuoteOf(k)) /\ UNCHANGED disruptions
       \/ Disrupt /\ UNCHANGED contractVars
    /\ UNCHANGED <<alive, clock, keyVars, monitorVars, used, quotes, workerVars>>

\* Anyone who has seen a quote may submit it again: nothing in it is tied to a time.
Replay(k) ==
    /\ k \in quotes
    /\ Disrupt
    /\ submitAttestationReport(k, QuoteOf(k))
    /\ UNCHANGED <<alive, clock, keyVars, monitorVars, txVars, workerVars>>

\* Anyone may send a PoE it has seen to commitBatch.
Commit(id, poe) ==
    /\ poe \in poes
    /\ commitBatch(id, poe)
    /\ UNCHANGED proverVars

\* The contract's owner changes the validity period.
OwnerSetsValidity(v) ==
    /\ v # attestValiditySeconds
    /\ changeAttestValiditySeconds(owner, v)
    /\ UNCHANGED proverVars

ChainTick ==
    /\ timestamp < clock + MaxSkew
    /\ NewBlock
    /\ UNCHANGED proverVars

ClockTick ==
    /\ clock < MaxTime
    /\ clock < timestamp + MaxSkew
    /\ clock' = clock + 1
    /\ UNCHANGED <<contractVars, alive, keyVars, monitorVars, txVars, workerVars, disruptions>>

\* App::terminate.
Shutdown ==
    /\ alive
    /\ alive' = FALSE
    /\ UNCHANGED <<contractVars, clock, keyVars, monitorVars, txVars, workerVars, disruptions>>

\* The bound on fresh keys is reached: the monitor cannot draw another.
OutOfKeys == mpc = "cooldown" /\ used = Key

\* Every thread has ended, or is stopped by that bound: nothing happens.
Ended ==
    /\ mpc = "done" \/ OutOfKeys
    /\ \A w \in Worker : wpc[w] = "done"
    /\ UNCHANGED vars

----------------------------------------------------------------------------
Init ==
    /\ ContractInit
    /\ alive = TRUE
    /\ clock = GenesisTime
    /\ prvkey \in Key
    /\ attested = FALSE
    /\ staging = None
    /\ lastSubmit = 0
    /\ cooldown = SubmitCooldown
    /\ mpc = IF "monitor" \in Spawned THEN "loop" ELSE "done"
    /\ mkey = None
    /\ attestedTime = 0
    /\ validity = 0
    /\ mnow = 0
    /\ newKey = None
    /\ used = {prvkey}
    /\ quotes = {}
    /\ attestTxs = {}
    /\ receipts = {}
    /\ wpc = [w \in Worker |-> IF w \in Spawned THEN "idle" ELSE "done"]
    /\ wkey = [w \in Worker |-> None]
    /\ poes = {}
    /\ signed = {}
    /\ disruptions = 0

EnvironmentStep ==
    \/ \E k \in Key : MineAttest(k)
    \/ \E k \in Key : Replay(k)
    \/ \E id \in BatchId, poe \in poes : Commit(id, poe)
    \/ \E v \in Validity : OwnerSetsValidity(v)
    \/ ChainTick
    \/ ClockTick
    \/ Shutdown

Next ==
    \/ MonitorStep
    \/ \E w \in Worker : WorkerStep(w)
    \/ EnvironmentStep
    \/ Ended

Spec == Init /\ [][Next]_vars
----------------------------------------------------------------------------
Registered(k) == attestedProvers[k] # 0

MonitorPc == {"loop", "status", "validity", "clock", "store", "install", "publish",
              "cooldown", "report", "submit", "await", "done"}
WorkerPc  == {"idle", "wait", "prove", "submit", "done"}

\* Every variable has its type.
ProverTypeOK ==
    /\ alive \in BOOLEAN
    /\ clock \in Nat /\ clock >= GenesisTime
    /\ prvkey \in Key
    /\ attested \in BOOLEAN
    /\ staging \in Key \cup {None}
    /\ lastSubmit \in Nat
    /\ cooldown \in Nat
    /\ mpc \in MonitorPc
    /\ mkey \in Key \cup {None}
    /\ attestedTime \in Nat
    /\ validity \in Nat
    /\ mnow \in Nat
    /\ newKey \in Key \cup {None}
    /\ used \subseteq Key /\ quotes \subseteq Key
    /\ attestTxs \subseteq Key /\ receipts \subseteq Key
    /\ wpc \in [Worker -> WorkerPc]
    /\ wkey \in [Worker -> Key \cup {None}]
    /\ poes \subseteq Poe
    /\ signed \subseteq [by : Worker, key : Key]
    /\ disruptions \in Nat

TypeOK == ContractTypeOK /\ ProverTypeOK

\* The flag a worker waits for never vouches for a key the contract does not know, in
\* any interleaving of the monitor's two reads, its stores and update_prvkey with mined,
\* reverted, late and repeated registrations.
AttestedKeyRegistered == attested => Registered(prvkey)

\* What the batch-task thread signs, it signs with a key the contract knows, although
\* wait_attested looked at the flag long before get_prvkey fetched the key, and the key
\* may have been rotated or have expired in between.
GatedSignersRegistered ==
    \A s \in signed : s.by = "task" => Registered(s.key)

\* A batch is committed only under a key this enclave drew and had a quote for, whoever
\* sent the PoE and however often.
CommitsFromQuotedKeys ==
    \A e \in commitLog :
        /\ e.signer \in quotes
        /\ \E s \in signed : s.key = e.signer

\* What monitor_attested knows at each of its steps, and what the workers may rely on
\* (the inductive invariant behind the two properties above): the key an iteration asks
\* about is the staged one if there is one, what it read from the chain is still true when
\* it acts on it, only a registered key is installed, and a task that has passed
\* wait_attested still finds a registered key after any number of rotations.
RotationInv ==
    /\ mpc \in {"status", "validity", "clock", "store"} =>
          mkey = IF staging = None THEN prvkey ELSE staging
    /\ mpc \in {"validity", "clock", "store"} /\ attestedTime # 0 => Registered(mkey)
    /\ mpc \in {"clock", "store"} => validity \in Validity /\ validity <= MaxU64
    /\ mpc = "store" => mnow >= GenesisTime
    /\ mpc = "install" => staging # None /\ Registered(staging)
    /\ mpc = "publish" => Registered(prvkey)
    /\ mpc \in {"report", "submit", "await"} => newKey \in Key
    /\ \A w \in Worker : wpc[w] = "submit" => wkey[w] \in Key
    /\ wpc["task"] = "prove" => Registered(prvkey)
    /\ AttestedKeyRegistered
    /\ GatedSignersRegistered

\* Two submissions that reached the chain are more than the cooldown apart on the
\* enclave's clock, although the cooldown may shrink and the clock is read at other
\* points than where last_submit is set.
SubmissionsSpaced ==
    [][ lastSubmit' # lastSubmit /\ lastSubmit # 0 => lastSubmit' > lastSubmit + cooldown' ]_vars

\* The refinement mapping to AttestedSigner.
gatedKeys == {s.key : s \in {t \in signed : t.by = "task"}}

Signer == INSTANCE AttestedSigner WITH
    active       <- prvkey,
    open         <- attested,
    registered   <- {k \in Key : Registered(k)},
    gatedSigners <- gatedKeys

\* Prover, the contract and the batch-task thread together keep AttestedSigner's promise:
\* rotation, failures and shutdown included, every step is one of its steps or invisible.
ImplementsSigner == Signer!SignerSpec

=============================================================================

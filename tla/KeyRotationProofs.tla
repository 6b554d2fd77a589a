------------------------- MODULE KeyRotationProofs -------------------------
(***************************************************************************)
(* Theorems about KeyRotation, for any keys, validity periods, threads,    *)
(* clocks and disruptions.                                                 *)
(***************************************************************************)
EXTENDS TimedRotation, SGXVerifierProofs

\* Half of a validity period, as monitor_attested computes it.
LEMMA HalfOf ==
  ASSUME NEW v \in Nat
  PROVE  v \div 2 \in Nat /\ v \div 2 <= v
  OBVIOUS

----------------------------------------------------------------------------
\* Every step of the composition is a call the contract allows, or leaves it alone.
LEMMA RotationIsContractStep ==
  ASSUME TypeOK, [Next]_vars
  PROVE  [ContractNext]_contractVars
<1> USE RotationAssumption
<1>1. ASSUME NEW k \in Key, submitAttestationReport(k, QuoteOf(k))
      PROVE  ContractNext
  <2>1. QuoteOf(k) \in Report /\ k \in Address
    BY DEF QuoteOf, Report
  <2> QED
    BY <1>1, <2>1 DEF ContractNext
<1>2. ASSUME NEW k \in Key, MineAttest(k)
      PROVE  [ContractNext]_contractVars
  BY <1>1, <1>2 DEF MineAttest
<1>3. ASSUME NEW k \in Key, Replay(k)
      PROVE  ContractNext
  BY <1>1, <1>3 DEF Replay
<1>4. ASSUME NEW id \in BatchId, NEW poe \in poes, Commit(id, poe)
      PROVE  ContractNext
  BY <1>4 DEF Commit, ContractNext, TypeOK, ProverTypeOK
<1>5. ASSUME NEW v \in Validity, OwnerSetsValidity(v)
      PROVE  ContractNext
  BY <1>5 DEF OwnerSetsValidity, ContractNext, TypeOK, ContractTypeOK
<1>6. CASE ChainTick
  BY <1>6 DEF ChainTick, ContractNext
<1>7. CASE ClockTick \/ Shutdown
  BY <1>7 DEF ClockTick, Shutdown
<1>8. CASE MonitorStep
  BY <1>8 DEF MonitorStep, M_Loop, M_Status, M_Validity, M_Clock, M_Store, M_Install, M_Publish,
     M_Cooldown, M_Report, M_Submit, M_Receipt, M_SubmitErr, M_RpcErr, M_ReportErr, M_Panic
<1>9. ASSUME NEW w \in Worker, WorkerStep(w)
      PROVE  UNCHANGED contractVars
  BY <1>9 DEF WorkerStep, W_Start, W_Attested, W_Cancel, W_Sign, W_Submit, W_Stop
<1>10. CASE Ended \/ UNCHANGED vars
  BY <1>10 DEF Ended, vars
<1> QED
  BY <1>2, <1>3, <1>4, <1>5, <1>6, <1>7, <1>8, <1>9, <1>10 DEF Next, EnvironmentStep

\* A registration is never taken back.
LEMMA RegistrationStays ==
  ASSUME ContractTypeOK, [ContractNext]_contractVars, NEW a \in Address, Registered(a)
  PROVE  Registered(a)'
<1>1. ASSUME NEW p \in Address, NEW r \in Report, submitAttestationReport(p, r)
      PROVE  Registered(a)'
  BY <1>1, ContractAssumption DEF submitAttestationReport, ContractTypeOK, Registered
<1>2. CASE UNCHANGED attestedProvers
  BY <1>2 DEF Registered
<1> QED
  BY <1>1, <1>2 DEF ContractNext, contractVars, changeOwner, changeAttestValiditySeconds,
     commitBatch, StoreBatch, NewBlock
----------------------------------------------------------------------------
Inv == TypeOK /\ RotationInv

\* The prover starts with an unregistered key that it does not call attested.
LEMMA InitInv == Init => Inv
<1> SUFFICES ASSUME Init
             PROVE  Inv
  OBVIOUS
<1>1. ContractTypeOK
  BY ContractTyping DEF Init
<1>2. mpc \in {"loop", "done"}
  BY DEF Init
<1>3. /\ wpc \in [Worker -> {"idle", "done"}]
      /\ wkey \in [Worker -> Key \cup {None}]
  BY DEF Init
<1>4. ProverTypeOK
  <2>1. wpc \in [Worker -> WorkerPc] /\ mpc \in MonitorPc
    BY <1>2, <1>3 DEF MonitorPc, WorkerPc
  <2>2. clock \in Nat /\ clock >= GenesisTime /\ cooldown \in Nat
    BY RotationAssumption, ContractAssumption DEF Init
  <2> QED
    BY <1>3, <2>1, <2>2 DEF Init, ProverTypeOK
<1>5. \A w \in Worker : wpc[w] \in {"idle", "done"}
  BY <1>3
<1>6. wpc["task"] \in {"idle", "done"}
  BY <1>3 DEF Worker
<1>7. attested = FALSE /\ signed = {}
  BY DEF Init
<1>8. RotationInv
  BY <1>2, <1>5, <1>6, <1>7 DEF RotationInv, AttestedKeyRegistered, GatedSignersRegistered
<1> QED
  BY <1>1, <1>4, <1>8 DEF Inv, TypeOK

\* What the monitor does to the invariant, action by action; the contract stands still.
LEMMA MonitorInv ==
  ASSUME Inv, MonitorStep
  PROVE  ProverTypeOK' /\ RotationInv'
<1> USE RotationAssumption, ContractAssumption
    DEF Inv, TypeOK, ProverTypeOK, RotationInv, AttestedKeyRegistered, GatedSignersRegistered,
        Registered, MonitorPc, contractVars, keyVars, locals, txVars, workerVars
<1>1. CASE M_Loop
  BY <1>1 DEF M_Loop
<1>2. CASE M_Status
  BY <1>2 DEF M_Status, ContractTypeOK
<1>3. CASE M_Validity
  BY <1>3, HalfOf DEF M_Validity, ContractTypeOK
<1>4. CASE M_Clock
  BY <1>4 DEF M_Clock
<1>5. CASE M_Store
  <2>1. validity \in Nat /\ validity <= GenesisTime /\ mnow >= GenesisTime
    BY <1>5 DEF M_Store
  <2>2. IsAttested => attestedTime # 0
    BY <2>1 DEF IsAttested
  <2>3. ~NeedAttestation => attestedTime # 0
    BY <2>1, HalfOf DEF NeedAttestation
  <2>4. attested' \in BOOLEAN /\ (attested' => Registered(prvkey))
    <3>1. CASE staging = None
      BY <1>5, <2>2, <3>1 DEF M_Store, IsAttested
    <3>2. CASE staging # None
      BY <1>5, <3>2 DEF M_Store
    <3> QED
      BY <3>1, <3>2
  <2>5. mpc' \in {"cooldown", "install", "loop"}
    BY <1>5 DEF M_Store
  <2>6. mpc' = "install" => staging # None /\ Registered(staging)
    BY <1>5, <2>3 DEF M_Store
  <2>7. ProverTypeOK'
    BY <1>5, <2>4, <2>5 DEF M_Store, DropLocals
  <2>8. RotationInv'
    BY <1>5, <2>4, <2>5, <2>6 DEF M_Store, DropLocals
  <2> QED
    BY <2>7, <2>8
<1>6. CASE M_Install
  BY <1>6 DEF M_Install
<1>7. CASE M_Publish
  BY <1>7 DEF M_Publish
<1>8. CASE M_Cooldown
  BY <1>8 DEF M_Cooldown
<1>9. CASE M_Report
  BY <1>9 DEF M_Report
<1>10. CASE M_Submit
  BY <1>10 DEF M_Submit
<1>11. CASE M_Receipt
  BY <1>11 DEF M_Receipt
<1>12. CASE M_SubmitErr
  BY <1>12 DEF M_SubmitErr, Disrupt
<1>13. CASE M_RpcErr
  BY <1>13 DEF M_RpcErr, Disrupt, DropLocals
<1>14. CASE M_ReportErr
  BY <1>14 DEF M_ReportErr, Disrupt
<1>15. CASE M_Panic
  BY <1>15 DEF M_Panic, DropLocals
<1> QED
  BY <1>1, <1>2, <1>3, <1>4, <1>5, <1>6, <1>7, <1>8, <1>9, <1>10, <1>11, <1>12, <1>13, <1>14, <1>15
     DEF MonitorStep
\* The workers: what one signs it signs with the key it finds, and a task finds a
\* registered one.
LEMMA WorkerInv ==
  ASSUME Inv, NEW w \in Worker, WorkerStep(w)
  PROVE  ProverTypeOK' /\ RotationInv'
<1> USE RotationAssumption, ContractAssumption
    DEF Inv, TypeOK, ProverTypeOK, RotationInv, AttestedKeyRegistered, GatedSignersRegistered,
        Registered, WorkerPc, contractVars, keyVars, monitorVars, locals, txVars
<1>1. CASE W_Start(w)
  BY <1>1 DEF W_Start, Worker
<1>2. CASE W_Attested(w)
  BY <1>2 DEF W_Attested
<1>3. CASE W_Cancel(w)
  BY <1>3 DEF W_Cancel
<1>4. CASE W_Sign(w)
  BY <1>4 DEF W_Sign
<1>5. CASE W_Submit(w)
  <2>1. PICK root \in Root, hash \in BatchHash :
           poes' = poes \cup {SignedPoe(wkey[w], hash, root)}
    BY <1>5 DEF W_Submit
  <2>2. SignedPoe(wkey[w], hash, root) \in Poe
    BY <1>5 DEF W_Submit, SignedPoe, Poe
  <2>3. poes' \subseteq Poe
    BY <2>1, <2>2
  <2> QED
    BY <1>5, <2>3 DEF W_Submit
<1>6. CASE W_Stop(w)
  BY <1>6 DEF W_Stop
<1> QED
  BY <1>1, <1>2, <1>3, <1>4, <1>5, <1>6 DEF WorkerStep

\* The chain, the clocks, the owner and the shutdown touch neither the monitor nor the
\* workers, and take no registration back.
LEMMA EnvironmentInv ==
  ASSUME Inv, EnvironmentStep \/ Ended \/ UNCHANGED vars, [Next]_vars
  PROVE  ProverTypeOK' /\ RotationInv'
<1> DEFINE core == <<keyVars, monitorVars, workerVars, used, quotes>>
<1>1. \A a \in Address : Registered(a) => Registered(a)'
  BY RotationIsContractStep, RegistrationStays DEF Inv, TypeOK
<1>2. UNCHANGED core
  BY DEF EnvironmentStep, Ended, vars, proverVars, txVars, MineAttest, Replay, Commit,
     OwnerSetsValidity, ChainTick, ClockTick, Shutdown
<1>3. ProverTypeOK'
  <2> USE DEF Inv, TypeOK, ProverTypeOK, keyVars, monitorVars, workerVars, locals
  <2>1. ASSUME NEW k \in Key, MineAttest(k)
        PROVE  ProverTypeOK'
    BY <1>2, <2>1 DEF MineAttest, Disrupt
  <2>2. ASSUME NEW k \in Key, Replay(k)
        PROVE  ProverTypeOK'
    BY <1>2, <2>2 DEF Replay, Disrupt, txVars
  <2>3. ASSUME NEW id \in BatchId, NEW poe \in poes, Commit(id, poe)
        PROVE  ProverTypeOK'
    BY <2>3 DEF Commit, proverVars, txVars
  <2>4. ASSUME NEW v \in Validity, OwnerSetsValidity(v)
        PROVE  ProverTypeOK'
    BY <2>4 DEF OwnerSetsValidity, proverVars, txVars
  <2>5. CASE ChainTick
    BY <2>5 DEF ChainTick, proverVars, txVars
  <2>6. CASE ClockTick
    BY <2>6, ContractAssumption DEF ClockTick, txVars
  <2>7. CASE Shutdown
    BY <2>7 DEF Shutdown, txVars
  <2>8. CASE Ended \/ UNCHANGED vars
    BY <2>8 DEF Ended, vars, proverVars, txVars
  <2> QED
    BY <2>1, <2>2, <2>3, <2>4, <2>5, <2>6, <2>7, <2>8 DEF EnvironmentStep
<1>4. RotationInv'
  <2> USE RotationAssumption
      DEF Inv, TypeOK, ProverTypeOK, keyVars, monitorVars, workerVars, locals
  <2>1. \A s \in signed : s.key \in Address
    OBVIOUS
  <2>2. mpc = "install" => staging \in Address
    BY DEF RotationInv
  <2>3. mpc \in {"validity", "clock", "store"} => mkey \in Address
    BY DEF RotationInv
  <2> QED
    BY <1>1, <1>2, <2>1, <2>2, <2>3
       DEF RotationInv, AttestedKeyRegistered, GatedSignersRegistered
<1> QED
  BY <1>3, <1>4

\* No step of the monitor, a worker, the contract or the clocks breaks Inv.
LEMMA InvStep ==
  ASSUME Inv, [Next]_vars
  PROVE  Inv'
<1>1. ContractTypeOK'
  BY RotationIsContractStep, ContractTypingStep DEF Inv, TypeOK
<1>2. ProverTypeOK' /\ RotationInv'
  BY MonitorInv, WorkerInv, EnvironmentInv DEF Next
<1> QED
  BY <1>1, <1>2 DEF Inv, TypeOK

\* At every place of monitor_attested, what it read about a key is about the key it acts on,
\* and what it read stays true while it acts (prover.rs, monitor_attested, update_prvkey).
THEOREM InvCorrect == Spec => []Inv
  BY InitInv, InvStep, PTL DEF Spec

\* Every variable of the composition has its type in every reachable state.
THEOREM TypeCorrect == Spec => []TypeOK
  BY InvCorrect, PTL DEF Inv

\* What monitor_attested and the workers rely on holds at each of their steps.
THEOREM RotationCorrect == Spec => []RotationInv
  BY InvCorrect, PTL DEF Inv

\* An attested flag always stands for a key the contract knows.
THEOREM AttestedIsRegistered == Spec => []AttestedKeyRegistered
<1>1. Inv => AttestedKeyRegistered
  BY DEF Inv, RotationInv
<1> QED
  BY <1>1, InvCorrect, PTL

\* The batch-task thread signs with registered keys only.
THEOREM TasksSignRegistered == Spec => []GatedSignersRegistered
<1>1. Inv => GatedSignersRegistered
  BY DEF Inv, RotationInv
<1> QED
  BY <1>1, InvCorrect, PTL

\* The composition is a behaviour of the contract, so what is proved of the contract
\* alone holds of the contract with the prover attached.
THEOREM RotationUsesContract == Spec => ContractSpec
<1>1. Init => ContractInit
  BY DEF Init
<1>2. Inv /\ [Next]_vars => [ContractNext]_contractVars
  BY RotationIsContractStep DEF Inv
<1> QED
  BY <1>1, <1>2, InvCorrect, PTL DEF Spec, ContractSpec
----------------------------------------------------------------------------
(* Pace: between the cooldown test and the next submission nothing shortens the wait. *)

PaceInv ==
    mpc \in {"report", "submit", "await"} => lastSubmit = 0 \/ clock > lastSubmit + cooldown

\* No submission is made before the cooldown after the last one is over.
LEMMA PaceStep ==
  ASSUME Inv, PaceInv, [Next]_vars
  PROVE  /\ PaceInv'
         /\ lastSubmit' # lastSubmit /\ lastSubmit # 0 => lastSubmit' > lastSubmit + cooldown'
<1> USE DEF Inv, TypeOK, ProverTypeOK, PaceInv
<1>1. CASE MonitorStep
  <2>1. CASE M_Cooldown
    BY <2>1 DEF M_Cooldown
  <2>2. CASE M_Receipt
    BY <2>2 DEF M_Receipt
  <2>3. CASE M_Report \/ M_Submit
    BY <2>3 DEF M_Report, M_Submit
  <2>4. CASE M_Loop \/ M_Status \/ M_Validity \/ M_Clock
    BY <2>4 DEF M_Loop, M_Status, M_Validity, M_Clock
  <2>5. CASE M_Store \/ M_Install \/ M_Publish
    BY <2>5 DEF M_Store, M_Install, M_Publish
  <2>6. CASE M_SubmitErr \/ M_RpcErr \/ M_ReportErr \/ M_Panic
    BY <2>6 DEF M_SubmitErr, M_RpcErr, M_ReportErr, M_Panic
  <2> QED
    BY <1>1, <2>1, <2>2, <2>3, <2>4, <2>5, <2>6 DEF MonitorStep
<1>2. ASSUME UNCHANGED monitorVars, clock' >= clock, clock' \in Nat
      PROVE  /\ PaceInv'
             /\ lastSubmit' = lastSubmit
  BY <1>2 DEF monitorVars
<1>3. ASSUME NEW w \in Worker, WorkerStep(w)
      PROVE  UNCHANGED <<monitorVars, clock>>
  BY <1>3 DEF WorkerStep, W_Start, W_Attested, W_Cancel, W_Sign, W_Submit, W_Stop
<1>4. CASE EnvironmentStep
  <2>1. UNCHANGED monitorVars /\ (UNCHANGED clock \/ clock' = clock + 1)
    BY <1>4 DEF EnvironmentStep, proverVars, MineAttest, Replay, Commit,
       OwnerSetsValidity, ChainTick, ClockTick, Shutdown
  <2> QED
    BY <1>2, <2>1
<1>5. CASE Ended \/ UNCHANGED vars
  BY <1>2, <1>5 DEF Ended, vars, proverVars
<1> QED
  BY <1>1, <1>2, <1>3, <1>4, <1>5 DEF Next

\* Two submissions are more than a cooldown apart.
THEOREM SubmissionsAreSpaced == Spec => SubmissionsSpaced
<1>1. Init => PaceInv
  BY DEF Init, PaceInv
<1> QED
  BY <1>1, PaceStep, InvCorrect, PTL DEF Spec, SubmissionsSpaced

----------------------------------------------------------------------------
(* Provenance: registrations come from quotes, PoEs from signatures. *)

QuoteInv ==
    /\ \A a \in Address : Registered(a) => a \in quotes
    /\ \A w \in Worker : wpc[w] = "submit" => \E s \in signed : s.key = wkey[w]
    /\ \A p \in poes : \E s \in signed : s.key = p.signer
    /\ CommitsFromQuotedKeys

\* A key is registered only by a quote it was drawn for, and only registered keys' PoEs commit.
LEMMA QuoteStep ==
  ASSUME Inv, QuoteInv, [Next]_vars
  PROVE  QuoteInv'
<1> USE DEF Inv, TypeOK, QuoteInv, CommitsFromQuotedKeys
<1>1. ASSUME UNCHANGED <<attestedProvers, commitLog, workerVars>>, quotes \subseteq quotes'
      PROVE  QuoteInv'
  BY <1>1 DEF Registered, workerVars
<1>2. CASE MonitorStep
  <2>1. UNCHANGED <<contractVars, workerVars>> /\ quotes \subseteq quotes'
    BY <1>2 DEF MonitorStep, txVars, M_Loop, M_Status, M_Validity, M_Clock, M_Store, M_Install,
       M_Publish, M_Cooldown, M_Report, M_Submit, M_Receipt, M_SubmitErr, M_RpcErr, M_ReportErr, M_Panic
  <2> QED
    BY <1>1, <2>1 DEF contractVars
<1>3. ASSUME NEW w \in Worker, WorkerStep(w)
      PROVE  QuoteInv'
  <2>1. UNCHANGED <<attestedProvers, commitLog, quotes>> /\ signed \subseteq signed'
    BY <1>3 DEF WorkerStep, W_Start, W_Attested, W_Cancel, W_Sign, W_Submit, W_Stop,
       contractVars, txVars
  <2>2. CASE W_Sign(w)
    <3>1. ASSUME NEW u \in Worker, wpc'[u] = "submit"
          PROVE  \E s \in signed' : s.key = wkey'[u]
      <4>1. CASE u = w
        <5>1. wkey'[u] = prvkey /\ [by |-> w, key |-> prvkey] \in signed'
          BY <2>2, <4>1 DEF W_Sign, ProverTypeOK
        <5> QED
          BY <5>1
      <4>2. CASE u # w
        <5>1. wkey'[u] = wkey[u] /\ wpc[u] = "submit"
          BY <2>2, <3>1, <4>2 DEF W_Sign, ProverTypeOK
        <5> QED
          BY <2>1, <5>1
      <4> QED
        BY <4>1, <4>2
    <3>2. UNCHANGED poes
      BY <2>2 DEF W_Sign
    <3> QED
      BY <2>1, <3>1, <3>2 DEF Registered
  <2>3. CASE W_Submit(w)
    <3>1. PICK root \in Root, hash \in BatchHash :
             poes' = poes \cup {SignedPoe(wkey[w], hash, root)}
      BY <2>3 DEF W_Submit
    <3>2. \A p \in poes' : \E s \in signed : s.key = p.signer
      BY <2>3, <3>1 DEF W_Submit, SignedPoe
    <3>3. /\ UNCHANGED signed
          /\ \A u \in Worker : wpc'[u] = "submit" => u # w /\ wpc[u] = "submit"
          /\ \A u \in Worker : u # w => wkey'[u] = wkey[u]
      BY <2>3 DEF W_Submit, ProverTypeOK
    <3> QED
      BY <2>1, <3>2, <3>3 DEF Registered
  <2>4. CASE W_Start(w) \/ W_Attested(w) \/ W_Cancel(w) \/ W_Stop(w)
    <3>1. /\ UNCHANGED <<wkey, poes, signed>>
          /\ \A u \in Worker : wpc'[u] = "submit" => wpc[u] = "submit"
      BY <2>4 DEF W_Start, W_Attested, W_Cancel, W_Stop, ProverTypeOK
    <3> QED
      BY <2>1, <3>1 DEF Registered
  <2> QED
    BY <1>3, <2>2, <2>3, <2>4 DEF WorkerStep
<1>4. ASSUME NEW k \in Key, MineAttest(k) \/ Replay(k)
      PROVE  QuoteInv'
  <2>1. UNCHANGED <<commitLog, workerVars, quotes>>
    BY <1>4 DEF MineAttest, Replay, submitAttestationReport, contractVars, txVars
  <2>2. \/ UNCHANGED attestedProvers
        \/ k \in quotes /\ attestedProvers' = [attestedProvers EXCEPT ![k] = timestamp]
    BY <1>4 DEF MineAttest, Replay, submitAttestationReport, checkAttestation, QuoteOf,
       contractVars
  <2>3. \A a \in Address : Registered(a)' => a \in quotes
    BY <2>2 DEF Registered, ContractTypeOK
  <2> QED
    BY <2>1, <2>3 DEF workerVars
<1>5. ASSUME NEW id \in BatchId, NEW poe \in poes, Commit(id, poe)
      PROVE  QuoteInv'
  <2>1. UNCHANGED <<attestedProvers, workerVars, quotes>>
    BY <1>5 DEF Commit, commitBatch, StoreBatch, proverVars, txVars
  <2>2. \A e \in commitLog' : e \in commitLog \/ e.signer = poe.signer
    BY <1>5 DEF Commit, commitBatch, StoreBatch
  <2>3. poe.signer \in Address /\ Registered(poe.signer)
    BY <1>5 DEF Commit, commitBatch, Recoverable, Accepted, Registered, ProverTypeOK, Poe
  <2> QED
    BY <2>1, <2>2, <2>3 DEF Registered, workerVars
<1>6. CASE ChainTick \/ ClockTick \/ Shutdown \/ \E v \in Validity : OwnerSetsValidity(v)
  <2>1. UNCHANGED <<attestedProvers, commitLog, workerVars, quotes>>
    BY <1>6 DEF ChainTick, NewBlock, ClockTick, Shutdown, OwnerSetsValidity,
       changeAttestValiditySeconds, proverVars, txVars, contractVars
  <2> QED
    BY <1>1, <2>1
<1>7. CASE Ended \/ UNCHANGED vars
  BY <1>1, <1>7 DEF Ended, vars, proverVars, contractVars, txVars
<1> QED
  BY <1>2, <1>3, <1>4, <1>5, <1>6, <1>7 DEF Next, EnvironmentStep

\* Committed batches carry signatures of keys this enclave had quoted.
THEOREM CommitsAreQuoted == Spec => []CommitsFromQuotedKeys
<1>1. Init => QuoteInv
  BY DEF Init, ContractInit, QuoteInv, CommitsFromQuotedKeys, Registered
<1>2. QuoteInv => CommitsFromQuotedKeys
  BY DEF QuoteInv
<1> QED
  BY <1>1, <1>2, QuoteStep, InvCorrect, PTL DEF Spec

----------------------------------------------------------------------------
(* Refinement. *)

\* Initially no key is registered and nothing is signed, as AttestedSigner wants.
LEMMA SignerInitRefined == Init => Signer!SignerInit
<1> SUFFICES ASSUME Init
             PROVE  Signer!SignerInit
  OBVIOUS
<1>1. \A k \in Key : ~Registered(k)
  BY RotationAssumption DEF Init, ContractInit, Registered
<1>2. gatedKeys = {}
  BY DEF Init, gatedKeys
<1> QED
  BY <1>1, <1>2 DEF Init, Signer!SignerInit

\* Every step of the rotation is a step of AttestedSigner or leaves its variables alone.
LEMMA SignerStepRefined ==
  ASSUME Inv, Inv', [Next]_vars
  PROVE  [Signer!SignerNext]_(Signer!signerVars)
<1> DEFINE registered == {k \in Key : Registered(k)}
<1> USE DEF Inv, TypeOK
<1>1. ASSUME UNCHANGED <<keyVars, signed, attestedProvers>>
      PROVE  UNCHANGED Signer!signerVars
  BY <1>1 DEF Signer!signerVars, keyVars, gatedKeys, Registered
<1>2. CASE MonitorStep
  <2>1. CASE M_Store
    <3>1. UNCHANGED <<prvkey, registered, gatedKeys>>
      BY <2>1 DEF M_Store, contractVars, workerVars, Registered, gatedKeys
    <3>2. CASE UNCHANGED attested
      BY <3>1, <3>2 DEF Signer!signerVars
    <3>3. CASE attested' = FALSE
      BY <3>1, <3>3 DEF Signer!SignerNext, Signer!Close
    <3>4. CASE attested' = TRUE
      <4>1. prvkey \in registered
        BY <3>1, <3>4 DEF RotationInv, AttestedKeyRegistered, ProverTypeOK
      <4> QED
        BY <3>1, <3>4, <4>1 DEF Signer!SignerNext, Signer!Open
    <3> QED
      BY <3>2, <3>3, <3>4 DEF ProverTypeOK
  <2>2. CASE M_Install
    <3>1. /\ staging \in registered
          /\ prvkey' = staging
          /\ UNCHANGED <<attested, registered, gatedKeys>>
      BY <2>2 DEF M_Install, contractVars, workerVars, Registered, gatedKeys, RotationInv,
         ProverTypeOK
    <3>2. Signer!Activate(staging)
      BY <3>1 DEF Signer!Activate
    <3> QED
      BY <3>1, <3>2 DEF Signer!SignerNext
  <2>3. CASE M_Publish
    <3>1. /\ prvkey \in registered
          /\ attested' = TRUE
          /\ UNCHANGED <<prvkey, registered, gatedKeys>>
      BY <2>3 DEF M_Publish, contractVars, workerVars, Registered, gatedKeys, RotationInv,
         ProverTypeOK
    <3> QED
      BY <3>1 DEF Signer!SignerNext, Signer!Open
  <2>4. CASE M_Loop \/ M_Status \/ M_Validity \/ M_Clock \/ M_Cooldown \/ M_Report \/ M_Submit
             \/ M_Receipt \/ M_SubmitErr \/ M_RpcErr \/ M_ReportErr \/ M_Panic
    <3>1. UNCHANGED <<keyVars, signed, attestedProvers>>
      BY <2>4 DEF M_Loop, M_Status, M_Validity, M_Clock, M_Cooldown, M_Report, M_Submit,
         M_Receipt, M_SubmitErr, M_RpcErr, M_ReportErr, M_Panic, contractVars, workerVars
    <3> QED
      BY <1>1, <3>1
  <2> QED
    BY <1>2, <2>1, <2>2, <2>3, <2>4 DEF MonitorStep
<1>3. ASSUME NEW w \in Worker, WorkerStep(w)
      PROVE  [Signer!SignerNext]_(Signer!signerVars)
  <2>1. CASE W_Sign(w)
    <3>1. /\ UNCHANGED <<keyVars, registered>>
          /\ signed' = signed \cup {[by |-> w, key |-> prvkey]}
      BY <2>1 DEF W_Sign, contractVars, Registered
    <3>2. CASE w = "task"
      <4>1. prvkey \in registered
        BY <2>1, <3>2 DEF W_Sign, RotationInv, ProverTypeOK
      <4>2. gatedKeys' = gatedKeys \cup {prvkey}
        <5> DEFINE new == [by |-> w, key |-> prvkey]
        <5>1. {t \in signed' : t.by = "task"} = {t \in signed : t.by = "task"} \cup {new}
          BY <3>1, <3>2
        <5>2. new.key = prvkey
          OBVIOUS
        <5> HIDE DEF new
        <5> QED
          BY <5>1, <5>2 DEF gatedKeys
      <4> QED
        BY <3>1, <4>1, <4>2 DEF Signer!SignerNext, Signer!SignGated, keyVars
    <3>3. CASE w # "task"
      <4>1. {t \in signed' : t.by = "task"} = {t \in signed : t.by = "task"}
        BY <3>1, <3>3
      <4>2. UNCHANGED gatedKeys
        BY <4>1 DEF gatedKeys
      <4> QED
        BY <3>1, <4>2 DEF Signer!signerVars, keyVars
    <3> QED
      BY <3>2, <3>3
  <2>2. CASE ~W_Sign(w)
    BY <1>1, <1>3, <2>2 DEF WorkerStep, W_Start, W_Attested, W_Cancel, W_Submit, W_Stop,
       contractVars
  <2> QED
    BY <2>1, <2>2
<1>4. ASSUME NEW k \in Key, MineAttest(k) \/ Replay(k)
      PROVE  [Signer!SignerNext]_(Signer!signerVars)
  <2>1. /\ UNCHANGED <<keyVars, signed>>
        /\ \/ UNCHANGED attestedProvers
           \/ attestedProvers' = [attestedProvers EXCEPT ![k] = timestamp]
    BY <1>4 DEF MineAttest, Replay, submitAttestationReport, workerVars, contractVars
  <2>2. CASE UNCHANGED attestedProvers
    BY <1>1, <2>1, <2>2
  <2>3. CASE attestedProvers' = [attestedProvers EXCEPT ![k] = timestamp]
    <3>1. registered' = registered \cup {k}
      BY <2>3, RotationAssumption, ContractAssumption DEF Registered, ContractTypeOK
    <3>2. UNCHANGED gatedKeys
      BY <2>1 DEF gatedKeys
    <3>3. Signer!Register(k)
      BY <2>1, <3>1, <3>2 DEF Signer!Register, keyVars
    <3> QED
      BY <3>3 DEF Signer!SignerNext
  <2> QED
    BY <2>1, <2>2, <2>3
<1>5. CASE EnvironmentStep /\ ~(\E k \in Key : MineAttest(k) \/ Replay(k))
  <2>1. UNCHANGED <<keyVars, signed, attestedProvers>>
    BY <1>5 DEF EnvironmentStep, Commit, commitBatch, StoreBatch, OwnerSetsValidity,
       changeAttestValiditySeconds, ChainTick, NewBlock, ClockTick, Shutdown, proverVars,
       workerVars, contractVars
  <2> QED
    BY <1>1, <2>1
<1>6. CASE Ended \/ UNCHANGED vars
  BY <1>1, <1>6 DEF Ended, vars, proverVars, workerVars, contractVars
<1> QED
  BY <1>2, <1>3, <1>4, <1>5, <1>6 DEF Next

\* The prover, the contract and the task thread together implement AttestedSigner.
THEOREM SignerImplemented == Spec => ImplementsSigner
  BY SignerInitRefined, SignerStepRefined, InvCorrect, PTL
     DEF Spec, ImplementsSigner, Signer!SignerSpec
----------------------------------------------------------------------------
(* Time: how late a rotation can be at each step of monitor_attested. *)

\* The time failures have cost so far.
Spent == disruptions * Retry

\* The rotation of the active key is at most x units and the failures' cost past the time it is due.
Within(x) == Registered(prvkey) => clock <= attestedProvers[prvkey] + Half + Spent + x

Younger(k, x) == Registered(k) => clock <= attestedProvers[k] + x

\* The cooldown after the last submission ends before the rotation is late.
Rested ==
    Registered(prvkey) => lastSubmit + SubmitCooldown <= attestedProvers[prvkey] + Half + Spent

\* The key an iteration asks about.
Candidate == IF staging = None THEN prvkey ELSE staging

Reading    == mpc \in {"validity", "clock", "store"}
Submitting == mpc \in {"report", "submit", "await"}

\* What holds wherever the monitor is.
SteadyInv ==
    /\ timestamp = clock /\ clock <= MaxTime
    /\ attestValiditySeconds = DefaultValidity
    /\ disruptions <= MaxDisruptions
    /\ cooldown <= SubmitCooldown
    /\ paused \in 0 .. MaxPause
    /\ paused # 0 => mpc \in {"loop", "await", "done"}
    /\ mpc = "done" /\ alive => ~attested
    /\ \A a \in Address : attestedProvers[a] <= clock
    /\ quotes \cup attestTxs \cup receipts \subseteq used
    /\ Submitting => newKey \in used

\* What the monitor has read is of this moment, except that a registration may have come
\* since; a new key is registered after it was submitted.
ReadInv ==
    /\ lastSubmit <= clock
    /\ Registered(Candidate) => lastSubmit <= attestedProvers[Candidate] + MaxPause
    /\ Reading => /\ attestedTime <= attestedProvers[mkey]
                  /\ attestedTime # 0 => lastSubmit <= attestedTime + MaxPause
    /\ mpc \in {"clock", "store"} => validity = DefaultValidity
    /\ mpc = "store" => mnow = clock
    /\ Submitting => Younger(newKey, paused)
    /\ mpc = "publish" => staging = None

\* No key is staged: the active key is not due, or a submission is on its way.
UnstagedInv ==
    /\ mpc = "loop" => Within(paused)
    /\ mpc \in {"status", "validity", "clock", "store", "cooldown"} => Within(MaxPause)
    /\ Reading /\ attestedTime = 0 => Younger(prvkey, 0)
    /\ mpc = "cooldown" => Younger(prvkey, 0) \/ lastSubmit + SubmitCooldown < clock
    /\ mpc = "publish" => Younger(prvkey, 2 * MaxPause + Spent)

\* A key is staged: registered lately, or the cooldown after its failure ends in time.
StagedInv ==
    LET waited == IF mpc = "loop" THEN paused ELSE MaxPause
    IN  /\ mpc \in {"loop", "status"} =>
              IF Registered(staging)
              THEN Within(2 * MaxPause + waited) /\ Younger(staging, MaxPause + Spent + waited)
              ELSE Within(waited) /\ Rested
        /\ Reading =>
              IF attestedTime = 0
              THEN Within(MaxPause) /\ Rested /\ Younger(staging, 0)
              ELSE Within(3 * MaxPause) /\ clock <= attestedTime + 2 * MaxPause + Spent
        /\ mpc = "cooldown" => Within(MaxPause) /\ Rested /\ Younger(staging, 0)
        /\ mpc = "install" => Within(3 * MaxPause) /\ Younger(staging, 2 * MaxPause + Spent)
        /\ Submitting => Rested /\ Younger(staging, paused)

\* A new key is on its way to the chain; when its transaction has reverted, the failure is
\* already counted.
SubmitInv ==
    /\ mpc \in {"report", "submit"} => newKey \notin attestTxs \cup receipts
    /\ Submitting => Within(MaxPause + paused)
    /\ mpc = "await" /\ newKey \in receipts /\ ~Registered(newKey) /\ Registered(prvkey) =>
          clock + Retry <= attestedProvers[prvkey] + Half + Spent + MaxPause + paused

PunctualInv == (IF staging = None THEN UnstagedInv ELSE StagedInv) /\ SubmitInv

TimingInv == SteadyInv /\ ReadInv /\ (alive => PunctualInv)

TimedInv == Inv /\ QuoteInv /\ TimingInv

\* The numbers involved are natural numbers.
LEMMA TimesAreNumbers ==
  ASSUME Inv, RotationFits
  PROVE  /\ Half \in Nat /\ Retry \in Nat /\ Spent \in Nat
         /\ MaxPause \in Nat /\ SubmitCooldown \in Nat /\ DefaultValidity \in Nat
         /\ Half < DefaultValidity
         /\ DefaultValidity <= GenesisTime
<1> USE RotationAssumption, ContractAssumption, PauseAssumption DEF Retry, Half
<1>1. DefaultValidity \in Nat /\ MaxPause \in Nat /\ SubmitCooldown \in Nat /\ MaxDisruptions \in Nat
  OBVIOUS
<1>2. Half \in Nat /\ 2 * Half <= DefaultValidity /\ DefaultValidity <= 2 * Half + 1
  BY <1>1
<1>3. Retry \in Nat
  BY <1>1
<1>4. MaxDisruptions * Retry \in Nat
  BY <1>1, <1>3
<1>5. Spent \in Nat
  BY <1>3 DEF Spent, Inv, TypeOK, ProverTypeOK
<1>6. DefaultValidity <= GenesisTime
  BY DEF RotationFits
<1>7. Half + 3 * MaxPause + MaxDisruptions * Retry < DefaultValidity
  BY DEF RotationFits
<1> HIDE DEF Retry, Half
<1> QED
  BY <1>1, <1>2, <1>3, <1>4, <1>5, <1>6, <1>7

\* What failures have cost leaves room for the waits.
LEMMA SpentBounded ==
  ASSUME TimedInv, RotationFits
  PROVE  /\ 2 * MaxPause + Spent <= Half
         /\ MaxPause + SubmitCooldown <= Half
         /\ Half + 3 * MaxPause + Spent < DefaultValidity
<1>1. /\ Half \in Nat /\ Retry \in Nat /\ Spent \in Nat /\ MaxPause \in Nat
      /\ SubmitCooldown \in Nat /\ DefaultValidity \in Nat
  BY TimesAreNumbers DEF TimedInv
<1>2. disruptions \in Nat /\ MaxDisruptions \in Nat /\ disruptions <= MaxDisruptions
  BY RotationAssumption DEF TimedInv, TimingInv, SteadyInv, Inv, TypeOK, ProverTypeOK
<1>3. \A d, m, r \in Nat : d <= m => d * r <= m * r /\ m * r \in Nat
  OBVIOUS
<1>4. Spent <= MaxDisruptions * Retry /\ MaxDisruptions * Retry \in Nat
  BY <1>1, <1>2, <1>3 DEF Spent
<1>5. 2 * Half <= DefaultValidity /\ DefaultValidity <= 2 * Half + 1
  BY <1>1 DEF Half
<1>6. Half + 3 * MaxPause + MaxDisruptions * Retry < DefaultValidity
  BY DEF RotationFits
<1> QED
  BY <1>1, <1>4, <1>5, <1>6 DEF RotationFits

\* A disruption costs a Retry.
LEMMA SpentByDisruption ==
  ASSUME Inv, Disrupt
  PROVE  Spent' = Spent + Retry
<1>1. Retry \in Nat
  BY RotationAssumption, PauseAssumption DEF Retry
<1>2. disruptions \in Nat /\ disruptions' = disruptions + 1
  BY DEF Disrupt, Inv, TypeOK, ProverTypeOK
<1>3. \A d, r \in Nat : (d + 1) * r = d * r + r
  OBVIOUS
<1> QED
  BY <1>1, <1>2, <1>3 DEF Spent, Retry

\* The monitor's steps take no time.
LEMMA MonitorSteady ==
  ASSUME TimedInv, RotationFits, TimedMonitor
  PROVE  SteadyInv'
<1> USE RotationAssumption, ContractAssumption, PauseAssumption
    DEF TimedInv, TimingInv, SteadyInv, Submitting, Inv, TypeOK, ProverTypeOK, TimedMonitor,
        contractVars, keyVars, locals, txVars, workerVars
<1>1. CASE M_Loop
  BY <1>1 DEF M_Loop
<1>2. CASE M_Status \/ M_Clock
  BY <1>2 DEF M_Status, M_Clock
<1>3. CASE M_Store
  BY <1>3 DEF M_Store, DropLocals
<1>4. CASE M_Install
  BY <1>4 DEF M_Install
<1>5. CASE M_Validity
  BY <1>5, HalfOf DEF M_Validity
<1>6. CASE M_Publish \/ M_Receipt
  BY <1>6 DEF M_Publish, M_Receipt
<1>7. CASE M_Cooldown
  BY <1>7 DEF M_Cooldown
<1>8. CASE M_Report
  BY <1>8 DEF M_Report
<1>9. CASE M_Submit
  BY <1>9 DEF M_Submit
<1>10. CASE M_SubmitErr
  BY <1>10 DEF M_SubmitErr, Disrupt
<1>11. CASE M_RpcErr \/ M_ReportErr
  BY <1>11 DEF M_RpcErr, M_ReportErr, Disrupt, DropLocals
<1>12. ~M_Panic
  <2>1. DefaultValidity \in Nat /\ MaxU64 \in Nat /\ DefaultValidity <= MaxU64
    BY DEF RotationFits
  <2> QED
    BY <2>1 DEF M_Panic
<1> QED
  BY <1>1, <1>2, <1>3, <1>4, <1>5, <1>6, <1>7, <1>8, <1>9, <1>10, <1>11, <1>12 DEF MonitorStep

\* An iteration reads the state of this moment.
LEMMA MonitorReads ==
  ASSUME TimedInv, RotationFits, TimedMonitor
  PROVE  ReadInv'
<1>1. \A k \in Key \ used : ~Registered(k)
  BY RotationAssumption DEF QuoteInv, TimedInv, TimingInv, SteadyInv
<1> USE RotationAssumption, ContractAssumption, PauseAssumption
    DEF TimedInv, TimingInv, SteadyInv, ReadInv, Reading, Candidate, Registered, Submitting,
        Younger, Inv, TypeOK,
        ProverTypeOK, ContractTypeOK, RotationInv, contractVars, keyVars, locals
<1>2. UNCHANGED <<contractVars, clock>>
  BY DEF TimedMonitor, MonitorStep, M_Loop, M_Status, M_Validity, M_Clock, M_Store, M_Install,
     M_Publish, M_Cooldown, M_Report, M_Submit, M_Receipt, M_SubmitErr, M_RpcErr, M_ReportErr, M_Panic
<1>3. CASE M_Loop
  BY <1>2, <1>3 DEF M_Loop
<1>4. CASE M_Status
  BY <1>2, <1>4 DEF M_Status
<1>5. CASE M_Validity
  BY <1>2, <1>5 DEF M_Validity
<1>6. CASE M_Clock
  BY <1>2, <1>6 DEF M_Clock
<1>7. CASE M_Store
  BY <1>2, <1>7 DEF M_Store
<1>8. CASE M_Install
  BY <1>2, <1>8 DEF M_Install
<1>9. CASE M_Receipt
  BY <1>2, <1>9 DEF M_Receipt
<1>10. CASE M_Cooldown
  <2>1. CASE mpc' = "loop"
    BY <1>2, <1>10, <2>1 DEF M_Cooldown
  <2>2. CASE mpc' # "loop"
    <3>1. newKey' \in Key /\ ~Registered(newKey') /\ mpc' = "report" /\ UNCHANGED <<lastSubmit, staging>>
      BY <1>1, <1>10, <2>2 DEF M_Cooldown
    <3> QED
      BY <1>2, <1>10, <3>1 DEF M_Cooldown
  <2> QED
    BY <2>1, <2>2
<1>11. CASE M_Report
  BY <1>2, <1>11 DEF M_Report, TimedMonitor
<1>12. CASE M_Submit
  BY <1>2, <1>12 DEF M_Submit, TimedMonitor
<1>13. CASE M_Publish
  BY <1>2, <1>13 DEF M_Publish
<1>14. CASE M_SubmitErr
  BY <1>2, <1>14 DEF M_SubmitErr
<1>15. CASE M_RpcErr
  BY <1>2, <1>15 DEF M_RpcErr
<1>16. CASE M_ReportErr
  BY <1>2, <1>16 DEF M_ReportErr
<1>17. CASE M_Panic
  BY <1>2, <1>17 DEF M_Panic
<1> QED
  BY <1>3, <1>4, <1>5, <1>6, <1>7, <1>8, <1>9, <1>10, <1>11, <1>12, <1>13, <1>14, <1>15, <1>16, <1>17
     DEF TimedMonitor, MonitorStep

\* The rotation keeps its pace in the steps that read; none of them takes time.
LEMMA ReadingPunctual ==
  ASSUME TimedInv, RotationFits, TimedMonitor, alive', M_Loop \/ M_Status \/ M_Validity \/ M_Clock
  PROVE  PunctualInv'
<1> USE RotationAssumption, ContractAssumption, PauseAssumption
    DEF TimedInv, TimingInv, SteadyInv, ReadInv, PunctualInv, UnstagedInv, StagedInv, SubmitInv,
        Reading, Submitting, Candidate, Registered, Within, Younger, Rested, Inv, TypeOK,
        ProverTypeOK, ContractTypeOK, RotationInv, contractVars, keyVars, locals, TimedMonitor
<1>1. Half \in Nat /\ Retry \in Nat /\ Spent \in Nat
  BY TimesAreNumbers
<1>2. UNCHANGED Spent
  BY DEF Spent, M_Loop, M_Status, M_Validity, M_Clock
<1>3. CASE M_Loop
  BY <1>1, <1>2, <1>3 DEF M_Loop
<1>4. CASE M_Status
  BY <1>1, <1>2, <1>4 DEF M_Status
<1>5. CASE M_Validity
  BY <1>1, <1>2, <1>5 DEF M_Validity
<1>6. CASE M_Clock
  BY <1>1, <1>2, <1>6 DEF M_Clock
<1> QED
  BY <1>3, <1>4, <1>5, <1>6

\* It keeps its pace when the monitor decides: an active key that is not due is left alone,
\* a staged key that the chain reports is installed at once.
LEMMA StorePunctual ==
  ASSUME TimedInv, RotationFits, TimedMonitor, alive', M_Store
  PROVE  PunctualInv'
<1> USE RotationAssumption, ContractAssumption, PauseAssumption
    DEF TimedInv, TimingInv, SteadyInv, ReadInv, PunctualInv, UnstagedInv, StagedInv, SubmitInv,
        Reading, Submitting, Candidate, Registered, Within, Younger, Rested, Inv, TypeOK,
        ProverTypeOK, ContractTypeOK, RotationInv, contractVars, keyVars, locals, TimedMonitor
<1>1. Half \in Nat /\ Retry \in Nat /\ Spent \in Nat /\ Spent' = Spent
  BY TimesAreNumbers DEF Spent, M_Store
<1>2. /\ validity \div 2 = Half /\ mnow = clock
      /\ mkey = Candidate
      /\ attestedTime = 0 => NeedAttestation
  <2>1. validity = DefaultValidity /\ mnow = clock /\ mkey = Candidate
    BY DEF M_Store
  <2>2. Half < clock
    BY TimesAreNumbers
  <2> QED
    BY <2>1, <2>2 DEF NeedAttestation, Half
<1>3. CASE ~NeedAttestation
  BY <1>1, <1>2, <1>3 DEF M_Store, NeedAttestation
<1>4. CASE NeedAttestation /\ staging = None
  BY <1>1, <1>2, <1>4, SpentBounded DEF M_Store, NeedAttestation
<1>5. CASE NeedAttestation /\ staging # None
  BY <1>1, <1>2, <1>5, SpentBounded DEF M_Store, NeedAttestation
<1> QED
  BY <1>3, <1>4, <1>5

\* It keeps its pace when a key is installed, drawn or submitted.
LEMMA RotatePunctual ==
  ASSUME TimedInv, RotationFits, TimedMonitor, alive',
         M_Install \/ M_Publish \/ M_Cooldown \/ M_Report \/ M_Submit \/ M_Receipt
  PROVE  PunctualInv'
<1> USE RotationAssumption, ContractAssumption, PauseAssumption
    DEF TimedInv, TimingInv, SteadyInv, ReadInv, PunctualInv, UnstagedInv, StagedInv, SubmitInv,
        Reading, Submitting, Candidate, Registered, Within, Younger, Rested, Inv, TypeOK,
        ProverTypeOK, ContractTypeOK, RotationInv, contractVars, keyVars, locals, TimedMonitor
<1>1. Half \in Nat /\ Retry \in Nat /\ Spent \in Nat /\ Spent' = Spent
  BY TimesAreNumbers
     DEF Spent, M_Install, M_Publish, M_Cooldown, M_Report, M_Submit, M_Receipt
<1>2. CASE M_Install
  BY <1>1, <1>2 DEF M_Install
<1>3. CASE M_Publish
  BY <1>1, <1>3, SpentBounded DEF M_Publish
<1>4. CASE M_Cooldown
  <2>1. CASE mpc' = "loop"
    BY <1>1, <1>4, <2>1 DEF M_Cooldown
  <2>2. CASE mpc' = "report"
    BY <1>1, <1>4, <2>2 DEF M_Cooldown
  <2> QED
    BY <1>4, <2>1, <2>2 DEF M_Cooldown
<1>5. CASE M_Report
  BY <1>1, <1>5 DEF M_Report
<1>6. CASE M_Submit
  BY <1>1, <1>6 DEF M_Submit
<1>7. CASE M_Receipt
  BY <1>1, <1>7 DEF M_Receipt, Retry
<1> QED
  BY <1>2, <1>3, <1>4, <1>5, <1>6, <1>7

\* A failure costs a Retry at most.
LEMMA FailurePunctual ==
  ASSUME TimedInv, RotationFits, TimedMonitor, alive', M_RpcErr \/ M_ReportErr \/ M_SubmitErr
  PROVE  PunctualInv'
<1> USE RotationAssumption, ContractAssumption, PauseAssumption
    DEF TimedInv, TimingInv, SteadyInv, ReadInv, PunctualInv, UnstagedInv, StagedInv, SubmitInv,
        Reading, Submitting, Candidate, Registered, Within, Younger, Rested, Inv, TypeOK,
        ProverTypeOK, ContractTypeOK, RotationInv, contractVars, keyVars, locals, TimedMonitor
<1>1. /\ Half \in Nat /\ Retry \in Nat /\ Spent \in Nat
      /\ Retry >= 2 * MaxPause
  BY TimesAreNumbers DEF Retry
<1>2. Disrupt
  BY DEF M_RpcErr, M_ReportErr, M_SubmitErr
<1>3. Spent' = Spent + Retry
  BY <1>2, SpentByDisruption
<1>4. CASE M_RpcErr
  BY <1>1, <1>3, <1>4 DEF M_RpcErr
<1>5. CASE M_ReportErr
  BY <1>1, <1>3, <1>5 DEF M_ReportErr
<1>6. CASE M_SubmitErr
  BY <1>1, <1>3, <1>6 DEF M_SubmitErr
<1> QED
  BY <1>4, <1>5, <1>6

\* A step of the monitor keeps the rotation's pace.
LEMMA MonitorTiming ==
  ASSUME TimedInv, RotationFits, TimedMonitor
  PROVE  TimingInv'
<1>1. ~M_Panic
  <2>1. DefaultValidity \in Nat /\ MaxU64 \in Nat /\ DefaultValidity <= MaxU64
    BY RotationAssumption, TimesAreNumbers DEF RotationFits, TimedInv
  <2> QED
    BY <2>1 DEF M_Panic, TimedInv, TimingInv, SteadyInv
<1>2. ASSUME alive'
      PROVE  PunctualInv'
  BY <1>1, <1>2, ReadingPunctual, StorePunctual, RotatePunctual, FailurePunctual
     DEF TimedMonitor, MonitorStep
<1> QED
  BY <1>2, MonitorSteady, MonitorReads DEF TimingInv

\* A registration that is mined, repeated or reverted keeps it: a registered key is younger
\* than any that was there, and a failure is counted when it happens.
LEMMA RegistrationTiming ==
  ASSUME TimedInv, RotationFits, NEW k \in Key, MineAttest(k) \/ Replay(k), UNCHANGED paused
  PROVE  TimingInv'
<1>1. /\ Half \in Nat /\ Retry \in Nat /\ Spent \in Nat /\ MaxPause \in Nat
      /\ SubmitCooldown \in Nat /\ SubmitCooldown <= Half /\ Retry <= Half + MaxPause
  BY TimesAreNumbers, SpentBounded DEF TimedInv, Retry
<1>2. /\ clock \in Nat /\ clock # 0 /\ paused \in Nat /\ lastSubmit \in Nat /\ attestedTime \in Nat
      /\ timestamp = clock
      /\ prvkey \in Address /\ staging \in Address \cup {None} /\ None \notin Address
      /\ Candidate \in Address
      /\ Reading => mkey = Candidate
      /\ Submitting => newKey \in Address
      /\ k \in Address
      /\ quotes \cup attestTxs \cup receipts \subseteq used
  BY RotationAssumption, ContractAssumption, PauseAssumption
     DEF TimedInv, TimingInv, SteadyInv, Inv, TypeOK, ProverTypeOK, ContractTypeOK, RotationInv,
         Reading, Submitting, Candidate
<1>3. \A a \in Address : attestedProvers[a] \in Nat /\ attestedProvers[a] <= clock
  BY DEF TimedInv, TimingInv, SteadyInv, Inv, TypeOK, ContractTypeOK
<1>4. /\ UNCHANGED <<alive, clock, keyVars, monitorVars, paused, used, quotes, timestamp, attestValiditySeconds>>
      /\ attestTxs' \subseteq attestTxs
      /\ receipts' \subseteq receipts \cup {k}
      /\ k \in quotes \cup attestTxs
      /\ receipts' # receipts => k \in attestTxs
  BY DEF MineAttest, Replay, submitAttestationReport, contractVars, txVars
<1>5. \/ attestedProvers' = [attestedProvers EXCEPT ![k] = clock] /\ (UNCHANGED disruptions \/ Disrupt)
      \/ UNCHANGED attestedProvers /\ Disrupt
  BY <1>2 DEF MineAttest, Replay, submitAttestationReport, contractVars
<1>6. /\ Spent' \in Nat /\ Spent <= Spent'
      /\ UNCHANGED attestedProvers \/ attestedProvers'[k] = clock
      /\ attestedProvers'[k] = 0 => Spent' = Spent + Retry
      /\ \A a \in Address : attestedProvers'[a] = attestedProvers[a] \/ attestedProvers'[a] = clock
  <2>1. attestedProvers \in [Address -> Nat]
    BY DEF TimedInv, Inv, TypeOK, ContractTypeOK
  <2>2. UNCHANGED disruptions => UNCHANGED Spent
    BY DEF Spent, Retry
  <2>3. Disrupt => Spent' = Spent + Retry
    BY SpentByDisruption DEF TimedInv
  <2>4. Spent' = Spent \/ Spent' = Spent + Retry
    BY <1>5, <2>2, <2>3
  <2>5. Spent' \in Nat /\ Spent <= Spent'
    BY <1>1, <2>4
  <2> QED
    BY <1>2, <1>5, <2>1, <2>2, <2>3, <2>5
<1>7. clock \in Nat /\ paused \in Nat /\ attestedTime \in Nat /\ Spent' \in Nat /\ Spent <= Spent'
  BY <1>2, <1>6
<1>8. /\ attestedProvers[prvkey] \in Nat /\ attestedProvers[prvkey] <= clock
      /\ attestedProvers'[prvkey] = attestedProvers[prvkey] \/ attestedProvers'[prvkey] = clock
  BY <1>2, <1>3, <1>6
<1>9. SteadyInv'
  <2>1. SteadyInv
    BY DEF TimedInv, TimingInv
  <2>2. disruptions' <= MaxDisruptions
    BY <1>5, <2>1, RotationAssumption DEF Disrupt, SteadyInv, TimedInv, Inv, TypeOK, ProverTypeOK
  <2>3. \A a \in Address : attestedProvers'[a] <= clock
    BY <1>2, <1>3, <1>6
  <2> QED
    BY <1>4, <2>1, <2>2, <2>3 DEF SteadyInv, Submitting, keyVars, monitorVars
<1>10. ReadInv'
  <2>1. ReadInv
    BY DEF TimedInv, TimingInv
  <2> QED
    BY <1>1, <1>2, <1>3, <1>4, <1>6, <2>1
       DEF ReadInv, Reading, Submitting, Candidate, Registered, Younger, keyVars, monitorVars, locals
<1>11. ASSUME alive
      PROVE  PunctualInv'
  <2>1. PunctualInv /\ ReadInv
    BY <1>11 DEF TimedInv, TimingInv
  <2>2. \A x \in Nat : Within(x) => (Registered(prvkey)' => clock <= attestedProvers'[prvkey] + Half + Spent' + x)
    BY <1>1, <1>2, <1>7, <1>8, <1>4 DEF Within, Registered, keyVars
  <2>3. Rested => Rested'
    BY <1>1, <1>2, <1>7, <1>8, <1>4, <2>1 DEF Rested, Registered, ReadInv, keyVars, monitorVars
  <2>4. \A x \in Nat, a \in Address : Younger(a, x) => (attestedProvers'[a] # 0 => clock <= attestedProvers'[a] + x)
    BY <1>2, <1>3, <1>6 DEF Younger, Registered
  <2>5. UNCHANGED <<mpc, staging, attestedTime, clock, paused, prvkey, lastSubmit>>
    BY <1>4 DEF keyVars, monitorVars, locals
  <2>6. ASSUME staging = None
        PROVE  UnstagedInv'
    <3>1. UnstagedInv
      BY <2>1, <2>6 DEF PunctualInv
    <3>2. /\ mpc = "loop" => Within(paused)'
          /\ mpc \in {"status", "validity", "clock", "store", "cooldown"} => Within(MaxPause)'
      BY <1>1, <1>7, <2>2, <2>5, <3>1 DEF UnstagedInv, Within, Registered
    <3>3. Younger(prvkey, 0) => Younger(prvkey, 0)'
      BY <1>2, <2>4, <2>5 DEF Younger, Registered
    <3>4. Younger(prvkey, 2 * MaxPause + Spent) => Younger(prvkey, 2 * MaxPause + Spent)'
      BY <1>1, <1>7, <1>8, <2>5 DEF Younger, Registered
    <3> QED
      BY <2>5, <3>1, <3>2, <3>3, <3>4 DEF UnstagedInv, Reading
  <2>7. ASSUME staging # None
        PROVE  StagedInv'
    <3>1. staging \in Address /\ StagedInv
      BY <1>2, <2>1, <2>7 DEF PunctualInv
    <3>2. \A x \in Nat : Younger(staging, x) => Younger(staging, x)'
      BY <1>2, <2>4, <2>5, <3>1 DEF Younger, Registered
    <3>3. ASSUME mpc \in {"loop", "status"}
          PROVE  StagedInv'
      <4>1. PICK waited \in Nat : waited = IF mpc = "loop" THEN paused ELSE MaxPause
        BY <1>1, <1>7
      <4>2. IF Registered(staging)
            THEN Within(2 * MaxPause + waited) /\ Younger(staging, MaxPause + Spent + waited)
            ELSE Within(waited) /\ Rested
        BY <3>1, <3>3, <4>1 DEF StagedInv
      <4>3. CASE Registered(staging)
        <5>1. Within(2 * MaxPause + waited)' /\ Registered(staging)'
          BY <1>1, <1>2, <1>3, <1>6, <2>2, <2>5, <3>1, <4>2, <4>3 DEF Within, Registered
        <5>2. Younger(staging, MaxPause + Spent + waited)'
          BY <1>1, <1>2, <1>7, <1>3, <1>6, <2>5, <3>1, <4>2, <4>3 DEF Younger, Registered
        <5> QED
          BY <2>5, <3>3, <4>1, <5>1, <5>2 DEF StagedInv, Reading, Submitting
      <4>4. CASE ~Registered(staging)
        <5>1. Registered(staging)' => attestedProvers'[staging'] = clock'
          BY <1>6, <2>5, <3>1, <4>4 DEF Registered
        <5>2. Within(waited)' /\ Rested'
          BY <1>1, <2>2, <2>3, <2>5, <4>2, <4>4 DEF Within, Registered
        <5>3. Within(2 * MaxPause + waited)'
          BY <1>1, <1>7, <1>8, <2>5, <5>2 DEF Within, Registered
        <5>4. Registered(staging)' => Younger(staging, MaxPause + Spent + waited)'
          BY <1>1, <1>7, <2>5, <5>1 DEF Younger
        <5> QED
          BY <2>5, <3>3, <4>1, <5>2, <5>3, <5>4 DEF StagedInv, Reading, Submitting
      <4> QED
        BY <4>3, <4>4
    <3>4. ASSUME mpc \notin {"loop", "status"}
          PROVE  StagedInv'
      <4>1. Within(MaxPause) => Within(MaxPause)'
        BY <1>1, <2>2, <2>5 DEF Within, Registered
      <4>2. Within(3 * MaxPause) => Within(3 * MaxPause)'
        BY <1>1, <2>2, <2>5 DEF Within, Registered
      <4>3. Younger(staging, paused) => Younger(staging, paused)'
        BY <1>7, <2>5, <3>2 DEF Younger, Registered
      <4>4. Younger(staging, 0) => Younger(staging, 0)'
        BY <3>2
      <4>5. Younger(staging, 2 * MaxPause + Spent) => Younger(staging, 2 * MaxPause + Spent)'
        BY <1>1, <1>2, <1>7, <1>3, <1>6, <2>5, <3>1 DEF Younger, Registered
      <4>6. clock <= attestedTime + 2 * MaxPause + Spent
            => clock' <= attestedTime' + 2 * MaxPause + Spent'
        <5>1. \A c, a, m, s, t \in Nat : s <= t /\ c <= a + 2 * m + s => c <= a + 2 * m + t
          OBVIOUS
        <5> QED
          BY <1>1, <1>7, <2>5, <5>1
      <4> QED
        BY <2>3, <2>5, <3>1, <3>4, <4>1, <4>2, <4>3, <4>4, <4>5, <4>6
           DEF StagedInv, Reading, Submitting
    <3> QED
      BY <3>3, <3>4
  <2>8. SubmitInv'
    <3>1. SubmitInv /\ UNCHANGED <<mpc, newKey, clock, paused, prvkey>>
      BY <1>4, <2>1 DEF PunctualInv, keyVars, monitorVars
    <3>2. mpc \in {"report", "submit"} => newKey \notin attestTxs' \cup receipts'
      BY <1>4, <3>1 DEF SubmitInv
    <3>3. MaxPause + paused \in Nat /\ (Submitting => Within(MaxPause + paused)')
      BY <1>1, <1>7, <2>2, <3>1 DEF SubmitInv, Within, Registered
    <3>4. ASSUME mpc = "await", newKey \in receipts', ~Registered(newKey)', Registered(prvkey)'
          PROVE  clock + Retry <= attestedProvers'[prvkey] + Half + Spent' + MaxPause + paused
      <4>1. newKey \in Address
        BY <1>2, <3>4 DEF Submitting
      <4>2. CASE attestedProvers'[prvkey] = clock
        <5>1. \A c, r, h, s, m, p \in Nat : r <= h + m => c + r <= c + h + s + m + p
          OBVIOUS
        <5> QED
          BY <1>1, <1>7, <4>2, <5>1
      <4>3. CASE attestedProvers'[prvkey] = attestedProvers[prvkey] /\ newKey \in receipts
        <5>1. ~Registered(newKey) /\ Registered(prvkey)
          BY <1>2, <1>6, <3>1, <3>4, <4>1, <4>3 DEF Registered
        <5>2. clock + Retry <= attestedProvers[prvkey] + Half + Spent + MaxPause + paused
          BY <3>1, <3>4, <4>3, <5>1 DEF SubmitInv
        <5> QED
          BY <1>1, <1>7, <1>8, <4>3, <5>2
      <4>4. CASE attestedProvers'[prvkey] = attestedProvers[prvkey] /\ newKey \notin receipts
        <5>1. newKey = k /\ Spent' = Spent + Retry
          BY <1>4, <1>6, <3>1, <3>4, <4>4 DEF Registered
        <5>2. clock <= attestedProvers[prvkey] + Half + Spent + (MaxPause + paused)
          BY <3>1, <3>4, <4>4 DEF SubmitInv, Submitting, Within, Registered
        <5> QED
          BY <1>1, <1>7, <1>8, <4>4, <5>1, <5>2
      <4> QED
        BY <1>2, <1>6, <4>2, <4>3, <4>4
    <3> QED
      BY <3>1, <3>2, <3>3, <3>4 DEF SubmitInv, Submitting
  <2> QED
    BY <1>4, <2>6, <2>7, <2>8 DEF PunctualInv, monitorVars
<1> QED
  BY <1>4, <1>9, <1>10, <1>11 DEF TimingInv

\* A unit of time while the monitor waits is what the wait was given.
LEMMA PauseTiming ==
  ASSUME TimedInv, RotationFits, Pause
  PROVE  TimingInv'
<1>1. /\ Half \in Nat /\ Retry \in Nat /\ Spent \in Nat /\ MaxPause \in Nat
      /\ SubmitCooldown \in Nat
  BY TimesAreNumbers DEF TimedInv
<1>2. /\ clock \in Nat /\ paused \in Nat /\ lastSubmit \in Nat /\ MaxTime \in Nat
      /\ timestamp = clock
      /\ prvkey \in Address /\ staging \in Address \cup {None} /\ None \notin Address
      /\ Candidate \in Address
      /\ Submitting => newKey \in Address
  BY RotationAssumption, ContractAssumption, PauseAssumption
     DEF TimedInv, TimingInv, SteadyInv, Inv, TypeOK, ProverTypeOK, ContractTypeOK, RotationInv,
         Submitting, Candidate
<1>3. \A a \in Address : attestedProvers[a] \in Nat /\ attestedProvers[a] <= clock
  BY DEF TimedInv, TimingInv, SteadyInv, Inv, TypeOK, ContractTypeOK
<1>4. /\ UNCHANGED <<alive, keyVars, monitorVars, txVars, disruptions, attestedProvers, attestValiditySeconds>>
      /\ clock' = clock + 1 /\ timestamp' = clock + 1 /\ clock < MaxTime
      /\ mpc \in {"loop", "await", "done"}
      /\ IF mpc = "done" THEN paused' = paused ELSE paused' = paused + 1 /\ paused < MaxPause
  BY <1>2 DEF Pause, NewBlock
<1>5. UNCHANGED Spent
  BY <1>4 DEF Spent, Retry
<1>6. SteadyInv'
  <2>1. SteadyInv
    BY DEF TimedInv, TimingInv
  <2>2. paused' \in 0 .. MaxPause
    BY <1>1, <1>4, <2>1 DEF SteadyInv
  <2>3. \A a \in Address : attestedProvers'[a] <= clock'
    BY <1>2, <1>3, <1>4
  <2>4. clock' <= MaxTime
    BY <1>2, <1>4
  <2> QED
    BY <1>4, <2>1, <2>2, <2>3, <2>4 DEF SteadyInv, Submitting, keyVars, monitorVars, txVars
<1>7. ReadInv'
  <2>1. ReadInv
    BY DEF TimedInv, TimingInv
  <2>2. UNCHANGED <<mpc, staging, prvkey, lastSubmit, newKey>> /\ lastSubmit' <= clock'
    BY <1>2, <1>4, <2>1 DEF ReadInv, keyVars, monitorVars
  <2>3. Submitting => Younger(newKey, paused)'
    BY <1>2, <1>3, <1>4, <2>1, <2>2 DEF ReadInv, Submitting, Younger, Registered
  <2> QED
    BY <1>2, <1>4, <2>1, <2>2, <2>3 DEF ReadInv, Reading, Submitting, Candidate, Registered
<1>8. ASSUME alive
      PROVE  PunctualInv'
  <2>1. PunctualInv
    BY <1>8 DEF TimedInv, TimingInv
  <2>2. UNCHANGED <<mpc, staging, attestedTime, prvkey, lastSubmit, newKey, attestTxs, receipts>>
    BY <1>4 DEF keyVars, monitorVars, locals, txVars
  <2>3. attestedProvers[prvkey] \in Nat /\ (staging # None => attestedProvers[staging] \in Nat)
    BY <1>2, <1>3
  <2>4. mpc # "done" => paused' = paused + 1
    BY <1>4
  <2>5. ASSUME staging = None
        PROVE  UnstagedInv'
    BY <1>1, <1>2, <1>4, <1>5, <2>1, <2>2, <2>3, <2>4, <2>5
       DEF PunctualInv, UnstagedInv, Reading, Within, Registered
  <2>6. ASSUME staging # None
        PROVE  StagedInv'
    <3>1. StagedInv
      BY <2>1, <2>6 DEF PunctualInv
    <3>2. CASE mpc = "loop"
      BY <1>1, <1>2, <1>4, <1>5, <2>2, <2>3, <2>4, <2>6, <3>1, <3>2
         DEF StagedInv, Reading, Submitting, Within, Younger, Rested, Registered
    <3>3. CASE mpc = "await"
      BY <1>1, <1>2, <1>4, <1>5, <2>2, <2>3, <2>4, <2>6, <3>1, <3>3
         DEF StagedInv, Reading, Submitting, Younger, Rested, Registered
    <3>4. CASE mpc = "done"
      BY <2>2, <3>4 DEF StagedInv, Reading, Submitting
    <3> QED
      BY <1>4, <3>2, <3>3, <3>4
  <2>7. SubmitInv'
    <3>1. SubmitInv
      BY <2>1 DEF PunctualInv
    <3>2. CASE mpc = "await"
      <4>1. Within(MaxPause + paused)'
        BY <1>1, <1>2, <1>4, <1>5, <2>2, <2>3, <2>4, <3>1, <3>2 DEF SubmitInv, Submitting, Within, Registered
      <4>2. newKey \in receipts /\ ~Registered(newKey) /\ Registered(prvkey) =>
              clock' + Retry <= attestedProvers[prvkey] + Half + Spent + MaxPause + paused'
        BY <1>1, <1>2, <1>4, <2>3, <2>4, <3>1, <3>2 DEF SubmitInv
      <4> QED
        BY <1>4, <1>5, <2>2, <3>2, <4>1, <4>2 DEF SubmitInv, Submitting, Registered
    <3>3. CASE mpc # "await"
      BY <1>4, <2>2, <3>3 DEF SubmitInv, Submitting
    <3> QED
      BY <3>2, <3>3
  <2> QED
    BY <2>2, <2>5, <2>6, <2>7 DEF PunctualInv
<1> QED
  BY <1>4, <1>6, <1>7, <1>8 DEF TimingInv

\* The steps that touch neither the monitor, the registrations nor the clock.
LEMMA RestTiming ==
  ASSUME TimedInv, alive' => alive,
         UNCHANGED <<clock, timestamp, attestedProvers, attestValiditySeconds, keyVars, monitorVars,
                     txVars, disruptions, paused>>
  PROVE  TimingInv'
<1>1. UNCHANGED <<clock, timestamp, attestedProvers, attestValiditySeconds, prvkey, attested, staging,
                  lastSubmit, cooldown, mpc, mkey, attestedTime, validity, mnow, newKey, used, quotes,
                  attestTxs, receipts, disruptions, paused>>
  BY DEF keyVars, monitorVars, locals, txVars
<1>2. TimingInv /\ UNCHANGED <<Spent, Candidate, Reading, Submitting>>
  BY <1>1 DEF TimedInv, Spent, Retry, Candidate, Reading, Submitting
<1>3. SteadyInv'
  BY <1>1, <1>2 DEF TimingInv, SteadyInv
<1>4. ReadInv'
  BY <1>1, <1>2 DEF TimingInv, ReadInv, Registered, Younger
<1>5. ASSUME alive'
      PROVE  PunctualInv'
  BY <1>1, <1>2, <1>5 DEF TimingInv, PunctualInv, UnstagedInv, StagedInv, SubmitInv, Registered,
     Within, Younger, Rested
<1> QED
  BY <1>3, <1>4, <1>5 DEF TimingInv

\* At the start nothing is registered and no key is staged.
LEMMA TimingInit ==
  ASSUME TimedInit, RotationFits
  PROVE  TimedInv
<1>1. Inv
  BY InitInv DEF TimedInit
<1>2. QuoteInv
  BY DEF TimedInit, Init, ContractInit, QuoteInv, CommitsFromQuotedKeys, Registered
<1>3. /\ mpc \in {"loop", "done"} /\ staging = None /\ attested = FALSE /\ paused = 0
      /\ prvkey \in Address /\ ~Registered(prvkey) /\ lastSubmit = 0 /\ clock \in Nat
  BY RotationAssumption, ContractAssumption DEF TimedInit, Init, ContractInit, Registered
<1>4. SteadyInv
  BY RotationAssumption, ContractAssumption, PauseAssumption
     DEF TimedInit, Init, ContractInit, SteadyInv, RotationFits, Submitting
<1>5. ReadInv
  BY <1>3 DEF ReadInv, Candidate, Reading, Submitting
<1>6. PunctualInv
  BY <1>3 DEF PunctualInv, UnstagedInv, SubmitInv, Reading, Submitting, Within
<1> QED
  BY <1>1, <1>2, <1>4, <1>5, <1>6 DEF TimedInv, TimingInv

\* Every step of the timed composition that is not a unit of time is one of KeyRotation's.
LEMMA TimedStepIsStep ==
  ASSUME [TimedNext]_timedVars, ~Pause
  PROVE  [Next]_vars
  BY DEF TimedNext, TimedMonitor, TimedWorker, Mined, Bystanders, timedVars, Next, EnvironmentStep

\* A unit of time moves both clocks and nothing else.
LEMMA PauseInv ==
  ASSUME Inv, QuoteInv, Pause
  PROVE  Inv' /\ QuoteInv'
<1>1. /\ UNCHANGED <<owner, attestedProvers, attestValiditySeconds, batches, commitLog>>
      /\ UNCHANGED <<alive, keyVars, monitorVars, txVars, workerVars, disruptions>>
      /\ timestamp' = timestamp + 1 /\ clock' = clock + 1
  BY DEF Pause, NewBlock
<1>2. ContractTypeOK'
  BY <1>1, ContractAssumption DEF Inv, TypeOK, ContractTypeOK
<1>3. ProverTypeOK'
  BY <1>1, ContractAssumption DEF Inv, TypeOK, ProverTypeOK, keyVars, monitorVars, locals, txVars, workerVars
<1>4. RotationInv'
  BY <1>1 DEF Inv, RotationInv, AttestedKeyRegistered, GatedSignersRegistered, Registered, keyVars,
     monitorVars, locals, workerVars
<1>5. QuoteInv'
  BY <1>1 DEF QuoteInv, CommitsFromQuotedKeys, Registered, txVars, workerVars
<1> QED
  BY <1>2, <1>3, <1>4, <1>5 DEF Inv, TypeOK

\* No step of the timed composition makes a rotation late.
LEMMA TimedStep ==
  ASSUME TimedInv, RotationFits, [TimedNext]_timedVars
  PROVE  TimedInv'
<1>1. Inv' /\ QuoteInv'
  BY TimedStepIsStep, InvStep, QuoteStep, PauseInv DEF TimedInv
<1> SUFFICES TimingInv'
  BY <1>1 DEF TimedInv
<1>2. CASE TimedMonitor
  BY <1>2, MonitorTiming
<1>3. ASSUME NEW w \in Worker, TimedWorker(w)
      PROVE  TimingInv'
  <2>1. UNCHANGED <<contractVars, alive, clock, keyVars, monitorVars, txVars, disruptions, paused>>
    BY <1>3 DEF TimedWorker, WorkerStep, W_Start, W_Attested, W_Cancel, W_Sign, W_Submit, W_Stop
  <2> QED
    BY <2>1, RestTiming DEF contractVars
<1>4. CASE Mined
  BY <1>4, RegistrationTiming DEF Mined
<1>5. CASE Bystanders
  <2>1. CASE \E k \in Key : Replay(k)
    BY <1>5, <2>1, RegistrationTiming DEF Bystanders
  <2>2. CASE \E id \in BatchId, poe \in poes : Commit(id, poe)
    <3>1. UNCHANGED <<proverVars, attestedProvers, attestValiditySeconds, timestamp, paused>>
      BY <1>5, <2>2 DEF Bystanders, Commit, commitBatch, StoreBatch
    <3> QED
      BY <3>1, RestTiming DEF proverVars
  <2>3. CASE Shutdown \/ Ended
    <3>1. /\ UNCHANGED <<contractVars, clock, keyVars, monitorVars, txVars, disruptions, paused>>
          /\ alive' => alive
      BY <1>5, <2>3 DEF Bystanders, Shutdown, Ended, vars, proverVars
    <3> QED
      BY <3>1, RestTiming DEF contractVars
  <2> QED
    BY <1>5, <2>1, <2>2, <2>3 DEF Bystanders
<1>6. CASE Pause
  BY <1>6, PauseTiming
<1>7. CASE UNCHANGED timedVars
  BY <1>7, RestTiming DEF timedVars, vars, contractVars, proverVars
<1> QED
  BY <1>2, <1>3, <1>4, <1>5, <1>6, <1>7 DEF TimedNext

\* Wherever the monitor is, the active key's registration has time left.
LEMMA PunctualMeansAccepted ==
  ASSUME TimedInv, RotationFits
  PROVE  AttestedMeansAccepted
<1> SUFFICES ASSUME alive, attested
             PROVE  Accepted(prvkey)
  BY DEF AttestedMeansAccepted
<1>1. /\ Half \in Nat /\ Spent \in Nat /\ MaxPause \in Nat /\ DefaultValidity \in Nat
      /\ Half + 3 * MaxPause + Spent < DefaultValidity
  BY TimesAreNumbers, SpentBounded DEF TimedInv
<1>2. /\ clock \in Nat /\ paused \in 0 .. MaxPause /\ timestamp = clock /\ clock <= MaxTime
      /\ attestValiditySeconds = DefaultValidity
      /\ mpc \in MonitorPc \ {"done"}
      /\ mpc = "install" => staging # None
      /\ mpc = "publish" => staging = None
      /\ PunctualInv
  BY DEF TimedInv, TimingInv, SteadyInv, ReadInv, Inv, TypeOK, ProverTypeOK, RotationInv
<1>3. /\ prvkey \in Address /\ attestedProvers[prvkey] \in Nat /\ attestedProvers[prvkey] # 0
      /\ attestedProvers[prvkey] <= clock
  BY RotationAssumption DEF TimedInv, TimingInv, SteadyInv, Inv, TypeOK, ProverTypeOK,
     ContractTypeOK, RotationInv, AttestedKeyRegistered, Registered
<1>4. attestedProvers[prvkey] + DefaultValidity <= MaxUint
  BY <1>1, <1>2, <1>3, ContractAssumption DEF RotationFits
<1>5. \E x \in 0 .. 3 * MaxPause : Within(x)
  <2>1. /\ \A x \in {paused, MaxPause, 3 * MaxPause, MaxPause + paused, 2 * MaxPause + paused} :
              x \in 0 .. 3 * MaxPause
        /\ 2 * MaxPause + MaxPause = 3 * MaxPause
    BY <1>1, <1>2
  <2>2. CASE Submitting
    BY <1>2, <2>1, <2>2 DEF PunctualInv, SubmitInv
  <2>3. CASE staging = None /\ ~Submitting
    <3>1. CASE mpc = "publish"
      <4>1. Within(3 * MaxPause)
        BY <1>1, <1>2, <1>3, <2>3, <3>1 DEF PunctualInv, UnstagedInv, Younger, Within, Registered
      <4> QED
        BY <2>1, <4>1
    <3>2. CASE mpc # "publish"
      BY <1>2, <2>1, <2>3, <3>2 DEF PunctualInv, UnstagedInv, Submitting, MonitorPc
    <3> QED
      BY <3>1, <3>2
  <2>4. CASE staging # None /\ ~Submitting
    <3>1. StagedInv
      BY <1>2, <2>4 DEF PunctualInv
    <3>2. CASE mpc = "loop"
      BY <2>1, <3>1, <3>2 DEF StagedInv
    <3>3. CASE mpc = "status"
      BY <2>1, <3>1, <3>3 DEF StagedInv
    <3>4. CASE mpc \in {"validity", "clock", "store", "cooldown", "install"}
      BY <2>1, <3>1, <3>4 DEF StagedInv, Reading
    <3> QED
      BY <1>2, <2>4, <3>2, <3>3, <3>4 DEF Submitting, MonitorPc
  <2> QED
    BY <2>2, <2>3, <2>4
<1>6. attestedProvers[prvkey] + DefaultValidity > clock
  BY <1>1, <1>2, <1>3, <1>5 DEF Within, Registered
<1> QED
  BY <1>2, <1>3, <1>4, <1>6 DEF Accepted

\* While the app runs, an attested flag means that commitBatch accepts the active key right
\* now, whenever the period leaves room for a rotation and for every failure in it
\* (prover.rs, monitor_attested; SGXVerifier.sol, commitBatch).
THEOREM RotationIsPunctual ==
  ASSUME RotationFits
  PROVE  TimedSpec => []AttestedMeansAccepted
<1>1. TimedInit => TimedInv
  BY TimingInit
<1>2. TimedInv /\ [TimedNext]_timedVars => TimedInv'
  BY TimedStep
<1>3. TimedInv => AttestedMeansAccepted
  BY PunctualMeansAccepted
<1> QED
  BY <1>1, <1>2, <1>3, PTL DEF TimedSpec
=============================================================================

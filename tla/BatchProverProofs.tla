------------------------- MODULE BatchProverProofs -------------------------
(***************************************************************************)
(* What generate_poe signs, proved for every chain length, every number of *)
(* threads, attempts and reorganisations, and every set of tasks.          *)
(*                                                                         *)
(* Inv says of every worker what it holds: the block and the parent's root *)
(* come from chains served during the call; as long as no reorganisation   *)
(* came between, from the one the L2 node serves; and a filed result is an *)
(* execution of such a block on such a root.                               *)
(***************************************************************************)
EXTENDS BatchTask, FiniteSetTheorems, WellFoundedInduction, TLAPS

HasBlock(b)  == stage[b] \in {"parent", "dryrun", "execute"}
HasParent(b) == stage[b] \in {"dryrun", "execute"}
HasResult(b) == results[b] \notin {Failed, Missing}

\* Between two calls nothing is held.
IdleClean == call = "idle" => \A b \in Height : stage[b] = "none" /\ results[b] = Missing

\* The chain that is served now is among those served during the call.
ServedNow == IF call = "idle" THEN served = {} ELSE l2 \in served

\* A worker's block is one the node served during the call; past "parent" it has a parent's
\* root that the node served, of the same chain or of another.
Collected ==
    \A b \in Height :
        /\ HasBlock(b) => \E own \in served : pob[b].blk = own[b]
        /\ HasParent(b) => b # 0 /\ \E parent \in served : pob[b].prev = parent[b - 1].root

\* A result is an execution of a block on a root that the node served during the call.
ExecutedOn(b, parent, own, right) ==
    /\ results[b].prev = parent[b - 1].root
    /\ results[b].new = own[b].root
    /\ results[b].local = Exec(parent[b - 1].root, own[b].txs, right)

Executed ==
    \A b \in Height : HasResult(b) =>
        /\ b # 0
        /\ \E parent, own \in served, right \in BOOLEAN : ExecutedOn(b, parent, own, right)

\* Without a reorganisation, everything comes from the chain that is served.
FromThisChain ==
    served = {l2} => \A b \in Height :
        /\ HasBlock(b) => pob[b].blk = l2[b]
        /\ HasParent(b) => pob[b].prev = l2[b - 1].root
        /\ HasResult(b) => results[b].prev = l2[b - 1].root /\ results[b].new = l2[b].root

Inv == TypeOK /\ IdleClean /\ ServedNow /\ Collected /\ Executed /\ FromThisChain

Signed == SignedExecuted /\ ReportOfServedChains /\ BatchOfOneChain

----------------------------------------------------------------------------
\* Inv holds initially.
LEMMA InitInv == Init => Inv
  <1> SUFFICES ASSUME Init PROVE Inv
    OBVIOUS
  <1> USE BatchAssumption DEF Init
  <1>1. TypeOK
    BY DEF TypeOK, EmptyTask, Task, NoPob, Stage
  <1>2. IdleClean /\ ServedNow /\ Collected /\ Executed /\ FromThisChain
    BY DEF IdleClean, ServedNow, Collected, Executed, FromThisChain, HasBlock, HasParent, HasResult
  <1> QED
    BY <1>1, <1>2 DEF Inv

\* A call begins with nothing in hand and with the chain that is served.
LEMMA BeginStep ==
    ASSUME Inv, NEW t \in Tasks, Begin(t)
    PROVE  Inv' /\ Signed'
  <1> USE BatchAssumption DEF Inv, Begin, chainVars
  <1>1. TypeOK'
    BY DEF TypeOK, Stage
  <1>2. \A b \in Height : ~HasBlock(b)' /\ ~HasParent(b)' /\ ~HasResult(b)'
    BY DEF HasBlock, HasParent, HasResult, IdleClean
  <1>3. (IdleClean /\ ServedNow /\ Collected /\ Executed /\ FromThisChain)'
    BY <1>2 DEF IdleClean, ServedNow, Collected, Executed, FromThisChain
  <1>4. Signed'
    BY DEF Signed, SignedExecuted, ReportOfServedChains, BatchOfOneChain
  <1> QED
    BY <1>1, <1>3, <1>4

\* A worker's step changes what is held for its own block, to what Inv says of it.
LEMMA WorkerInv ==
    ASSUME Inv, NEW b \in Height, WorkerStep(b)
    PROVE  Inv'
  <1> USE BatchAssumption DEF Inv
  <1>0. call = "proving" /\ call' = call /\ signed' = signed /\ task' = task
        /\ l2' = l2 /\ served' = served /\ alive' = alive /\ reorgs' = reorgs
    BY DEF WorkerStep, Take, FetchBlock, FetchParent, FetchErr, DryRun, Execute, HandleErr,
           Panic, chainVars, IdleClean, TypeOK
  <1>1. IdleClean' /\ ServedNow'
    BY <1>0 DEF IdleClean, ServedNow
  <1>s. l2 \in served
    BY <1>0 DEF ServedNow
  <1>2. CASE Take(b)
    <2>1. TypeOK'
      BY <1>0, <1>2 DEF Take, TypeOK, Stage
    <2>2. (Collected /\ Executed /\ FromThisChain)'
      BY <1>2, <1>0 DEF Take, TypeOK, Collected, Executed, ExecutedOn, FromThisChain, HasBlock, HasParent, HasResult
    <2> QED BY <1>1, <2>1, <2>2
  <1>3. CASE FetchBlock(b)
    <2>0. l2[b] \in Block
      BY DEF TypeOK
    <2>1. TypeOK'
      BY <1>0, <1>3, <2>0 DEF FetchBlock, TypeOK, Stage
    <2>2. (Collected /\ Executed /\ FromThisChain)'
      BY <1>3, <1>0, <1>s DEF FetchBlock, TypeOK, Collected, Executed, ExecutedOn, FromThisChain, HasBlock, HasParent, HasResult
    <2> QED BY <1>1, <2>1, <2>2
  <1>4. CASE FetchParent(b)
    <2>0. b - 1 \in Height /\ l2[b - 1] \in Block
      <3>1. b - 1 \in Height
        BY <1>4 DEF FetchParent, Height
      <3>2. l2 \in [Height -> Block]
        BY DEF TypeOK
      <3> QED
        BY <3>1, <3>2
    <2>1. TypeOK'
      BY <1>0, <1>4, <2>0 DEF FetchParent, TypeOK, Stage, Block
    <2>2. (Collected /\ Executed /\ FromThisChain)'
      BY <1>4, <1>0, <1>s, <2>0 DEF FetchParent, TypeOK, Collected, Executed, ExecutedOn, FromThisChain, HasBlock, HasParent, HasResult, Block
    <2> QED BY <1>1, <2>1, <2>2
  <1>5. CASE FetchErr(b)
    <2>0. /\ pob' = [pob EXCEPT ![b] = NoPob]
          /\ tries[b] \in 0 .. Retries - 1
          /\ \A x \in Height : x # b => stage'[x] = stage[x] /\ results'[x] = results[x]
                                        /\ pob'[x] = pob[x]
          /\ stage'[b] \in {"fetch", "done"}
          /\ results'[b] \in {results[b], Failed}
      BY <1>5 DEF FetchErr, TypeOK
    <2>1. stage' \in [Height -> Stage] /\ results' \in [Height -> {Failed, Missing} \cup Report]
      BY <1>5 DEF FetchErr, TypeOK, Stage
    <2>2. tries' \in [Height -> 0 .. Retries - 1]
      BY <1>5, <2>0 DEF FetchErr, TypeOK
    <2>3. TypeOK'
      BY <1>0, <2>0, <2>1, <2>2 DEF TypeOK, NoPob
    <2>4. \A x \in Height :
             /\ HasBlock(x)' => HasBlock(x) /\ pob'[x] = pob[x]
             /\ HasParent(x)' => HasParent(x) /\ pob'[x] = pob[x]
             /\ HasResult(x)' => HasResult(x) /\ results'[x] = results[x]
      BY <2>0 DEF HasBlock, HasParent, HasResult
    <2>5. (Collected /\ Executed /\ FromThisChain)'
      BY <1>0, <2>4 DEF Collected, Executed, ExecutedOn, FromThisChain
    <2> QED BY <1>1, <2>3, <2>5
  <1>6. CASE DryRun(b)
    <2>1. TypeOK'
      BY <1>0, <1>6 DEF DryRun, TypeOK, Stage
    <2>2. (Collected /\ Executed /\ FromThisChain)'
      BY <1>6, <1>0 DEF DryRun, TypeOK, Collected, Executed, ExecutedOn, FromThisChain, HasBlock, HasParent, HasResult
    <2> QED BY <1>1, <2>1, <2>2
  <1>7. CASE Execute(b)
    <2> DEFINE report == [prev |-> pob[b].prev, new |-> pob[b].blk.root,
                          local |-> Exec(pob[b].prev, pob[b].blk.txs, pob[b].hashes)]
    <2>0. /\ stage[b] = "execute"
          /\ results' = [results EXCEPT ![b] = report]
          /\ stage' = [stage EXCEPT ![b] = "done"]
          /\ pob' = [pob EXCEPT ![b] = NoPob]
          /\ tries' = tries
      BY <1>7 DEF Execute
    <2>1. PICK own \in served : pob[b].blk = own[b]
      BY <2>0 DEF Collected, HasBlock
    <2>p. b # 0 /\ \E parent \in served : pob[b].prev = parent[b - 1].root
      BY <2>0 DEF Collected, HasParent
    <2>q. PICK parent \in served : pob[b].prev = parent[b - 1].root
      BY <2>p
    <2>r. parent \in [Height -> Block] /\ own \in [Height -> Block] /\ pob[b].hashes \in BOOLEAN
      BY DEF TypeOK
    <2>s. b - 1 \in Height
      BY <2>p DEF Height
    <2>h. PICK hashes \in BOOLEAN : hashes = pob[b].hashes
      BY <2>r
    <2>2. own[b] \in Block /\ pob[b].prev \in Root
      BY <2>q, <2>r, <2>s DEF Block
    <2>3. report \in Report
      BY <2>1, <2>2, <2>r DEF Block, Report
    <2>4. TypeOK'
      BY <1>0, <2>0, <2>3 DEF TypeOK, Stage, NoPob
    <2>5. /\ report.prev = parent[b - 1].root
          /\ report.new = own[b].root
          /\ report.local = Exec(parent[b - 1].root, own[b].txs, hashes)
      BY <2>1, <2>q, <2>h
    <2>6. served = {l2} => report.prev = l2[b - 1].root /\ report.new = l2[b].root
      BY <2>0 DEF FromThisChain, HasBlock, HasParent
    <2>7. \A x \in Height : results'[x] = IF x = b THEN report ELSE results[x]
      BY <2>0 DEF TypeOK
    <2>8. Executed'
      <3>1. SUFFICES ASSUME NEW x \in Height, HasResult(x)'
            PROVE  x # 0 /\ \E p, o \in served, right \in BOOLEAN : ExecutedOn(x, p, o, right)'
        BY <1>0 DEF Executed
      <3>2. CASE x = b
        <4>1. ExecutedOn(x, parent, own, hashes)'
          BY <3>2, <2>7, <2>5 DEF ExecutedOn
        <4> QED
          BY <4>1, <3>2, <2>p
      <3>3. CASE x # b
        <4>1. results'[x] = results[x] /\ HasResult(x)
          BY <3>1, <3>3, <2>7 DEF HasResult
        <4>2. x # 0 /\ \E p, o \in served, right \in BOOLEAN : ExecutedOn(x, p, o, right)
          BY <4>1 DEF Executed
        <4> QED
          BY <4>1, <4>2 DEF ExecutedOn
      <3> QED BY <3>2, <3>3
    <2>9. \A x \in Height : /\ HasBlock(x)' => x # b /\ HasBlock(x) /\ pob'[x] = pob[x]
                            /\ HasParent(x)' => x # b /\ HasParent(x) /\ pob'[x] = pob[x]
      BY <2>0 DEF HasBlock, HasParent, TypeOK
    <2>10. Collected'
      BY <1>0, <2>9 DEF Collected
    <2>11. FromThisChain'
      <3>1. SUFFICES ASSUME served = {l2}, NEW x \in Height
            PROVE  /\ HasBlock(x)' => pob'[x].blk = l2[x]
                   /\ HasParent(x)' => pob'[x].prev = l2[x - 1].root
                   /\ HasResult(x)' => results'[x].prev = l2[x - 1].root
                                       /\ results'[x].new = l2[x].root
        BY <1>0 DEF FromThisChain
      <3>2. HasResult(x)' => results'[x].prev = l2[x - 1].root /\ results'[x].new = l2[x].root
        <4>1. CASE x = b
          BY <4>1, <2>6, <2>7, <3>1
        <4>2. CASE x # b
          BY <4>2, <2>7, <3>1 DEF FromThisChain, HasResult
        <4> QED BY <4>1, <4>2
      <3> QED BY <3>1, <3>2, <2>9 DEF FromThisChain
    <2> QED BY <1>1, <2>4, <2>8, <2>10, <2>11
  <1>8. CASE HandleErr(b)
    <2>1. TypeOK'
      BY <1>0, <1>8 DEF HandleErr, TypeOK, Stage, NoPob
    <2>2. (Collected /\ Executed /\ FromThisChain)'
      BY <1>8, <1>0 DEF HandleErr, TypeOK, Collected, Executed, ExecutedOn, FromThisChain, HasBlock, HasParent, HasResult
    <2> QED BY <1>1, <2>1, <2>2
  <1>9. CASE Panic(b)
    <2>1. TypeOK'
      BY <1>0, <1>9 DEF Panic, TypeOK, Stage, NoPob
    <2>2. (Collected /\ Executed /\ FromThisChain)'
      BY <1>9, <1>0 DEF Panic, TypeOK, Collected, Executed, ExecutedOn, FromThisChain, HasBlock, HasParent, HasResult
    <2> QED BY <1>1, <2>1, <2>2
  <1> QED
    BY <1>2, <1>3, <1>4, <1>5, <1>6, <1>7, <1>8, <1>9 DEF WorkerStep

\* The end of a call leaves nothing behind.
LEMMA ReturnInv ==
    ASSUME Inv, Return, \A s \in signed' : s.task \in Task /\ s.served \subseteq Chain
    PROVE  Inv'
  <1> USE BatchAssumption DEF Inv, Return, chainVars
  <1>1. TypeOK'
    BY DEF TypeOK, Stage, NoPob, EmptyTask, Task
  <1>2. \A b \in Height : /\ ~HasBlock(b)' /\ ~HasParent(b)' /\ ~HasResult(b)'
                          /\ stage'[b] = "none" /\ results'[b] = Missing
    BY DEF HasBlock, HasParent, HasResult
  <1>3. (IdleClean /\ ServedNow /\ Collected /\ Executed /\ FromThisChain)'
    BY <1>2 DEF IdleClean, ServedNow, Collected, Executed, FromThisChain
  <1> QED
    BY <1>1, <1>3

\* What Sign signs is complete, executed here, and of one chain as far as it should be.
LEMMA SignSigned ==
    ASSUME Inv, Sign
    PROVE  Signed'
  <1> USE BatchAssumption DEF Inv
  <1> DEFINE batch == [task |-> task, served |-> served,
                       reports |-> [b \in Finished |-> results[b]]]
  <1>1. signed' = {batch}
    BY DEF Sign
  <1>2. Finished = task.blocks /\ task.blocks \subseteq Height
    <2>1. task.blocks \subseteq Height /\ Finished \subseteq task.blocks
      BY DEF TypeOK, Task, Finished
    <2>2. IsFiniteSet(task.blocks)
      <3>1. 0 \in Int /\ Last \in Int
        OBVIOUS
      <3>2. IsFiniteSet(Height)
        BY <3>1, FS_Interval DEF Height
      <3> QED
        BY <3>2, <2>1, FS_Subset
    <2>3. Cardinality(Finished) = Cardinality(task.blocks)
      BY DEF Sign, Complete
    <2> QED
      BY <2>1, <2>2, <2>3, FS_Subset
  <1>3. \A b \in task.blocks : HasResult(b) /\ results[b].new = results[b].local
    BY <1>2 DEF Sign, Finished, HasResult, Matches
  <1>4. \A b \in task.blocks : batch.reports[b] = results[b]
    BY <1>2
  <1>5. \A b \in task.blocks :
          /\ b # 0
          /\ \E parent, own \in served, right \in BOOLEAN :
                /\ results[b].prev = parent[b - 1].root
                /\ results[b].new = own[b].root
                /\ Exec(parent[b - 1].root, own[b].txs, right) = own[b].root
    BY <1>2, <1>3 DEF Executed, ExecutedOn
  <1>6. SignedExecuted'
    <2>1. \A b \in task.blocks : \E c \in Chain, right \in BOOLEAN :
              /\ batch.reports[b].new = c[b].root
              /\ batch.reports[b].new = Exec(batch.reports[b].prev, c[b].txs, right)
      <3>1. served \subseteq Chain
        BY DEF TypeOK
      <3> QED
        BY <3>1, <1>4, <1>5
    <2>2. DOMAIN batch.reports = task.blocks
      BY <1>2
    <2> QED
      BY <1>1, <2>1, <2>2 DEF SignedExecuted
  <1>7. ReportOfServedChains'
    BY <1>1, <1>4, <1>5 DEF ReportOfServedChains
  <1>8. BatchOfOneChain'
    <2>1. served = {l2} => \A b \in task.blocks : results[b].prev = l2[b - 1].root
                                          /\ results[b].new = l2[b].root
      BY <1>2, <1>3 DEF FromThisChain
    <2>2. \A c \in Chain : served = {c} => c = l2
      BY DEF ServedNow, Sign
    <2> QED
      BY <1>1, <1>4, <2>1, <2>2 DEF BatchOfOneChain
  <1> QED
    BY <1>6, <1>7, <1>8 DEF Signed

\* Every step keeps Inv, and what is signed is right.
LEMMA NextInv == Inv /\ Signed /\ [Next]_vars => Inv' /\ Signed'
  <1> SUFFICES ASSUME Inv, Signed, [Next]_vars PROVE Inv' /\ Signed'
    OBVIOUS
  <1> USE BatchAssumption
  <1>0. ASSUME signed' = signed PROVE Signed'
    BY <1>0 DEF Signed, SignedExecuted, ReportOfServedChains, BatchOfOneChain
  <1>1. CASE \E t \in Tasks : Begin(t)
    BY <1>1, BeginStep
  <1>2. CASE \E b \in Height : WorkerStep(b)
    <2>1. signed' = signed
      BY <1>2 DEF WorkerStep, Take, FetchBlock, FetchParent, FetchErr, DryRun, Execute,
                  HandleErr, Panic
    <2> QED
      BY <1>2, <2>1, <1>0, WorkerInv
  <1>3. CASE Refuse
    BY <1>3, <1>0, ReturnInv DEF Refuse, Inv, TypeOK
  <1>4. CASE Sign
    <2>1. \A s \in signed' : s.task \in Task /\ s.served \subseteq Chain
      BY <1>4 DEF Sign, Inv, TypeOK
    <2>2. Inv'
      BY <1>4, <2>1, ReturnInv DEF Sign
    <2> QED
      BY <1>4, <2>2, SignSigned
  <1>5. CASE Reorg
    <2>0. l2' \in Chain \ {l2} /\ reorgs' \in 0 .. MaxReorgs
      BY <1>5 DEF Reorg, Inv, TypeOK
    <2>1. TypeOK'
      BY <1>5, <2>0 DEF Reorg, Inv, TypeOK
    <2>2. IdleClean' /\ ServedNow'
      BY <1>5 DEF Reorg, Inv, IdleClean, ServedNow
    <2>3. \A b \in Height : /\ HasBlock(b)' = HasBlock(b) /\ HasParent(b)' = HasParent(b)
                            /\ HasResult(b)' = HasResult(b)
                            /\ pob'[b] = pob[b] /\ results'[b] = results[b]
      BY <1>5 DEF Reorg, HasBlock, HasParent, HasResult
    <2>4. CASE call = "idle"
      <3>1. \A b \in Height : ~HasBlock(b) /\ ~HasParent(b) /\ ~HasResult(b)
        BY <2>4 DEF Inv, IdleClean, HasBlock, HasParent, HasResult
      <3>2. (Collected /\ Executed /\ FromThisChain)'
        BY <2>3, <3>1 DEF Collected, Executed, ExecutedOn, FromThisChain
      <3> QED
        BY <1>5, <2>1, <2>2, <3>2, <1>0 DEF Reorg, Inv
    <2>5. CASE call # "idle"
      <3>1. served' = served \cup {l2'} /\ l2 \in served /\ l2' # l2
        BY <1>5, <2>0, <2>5 DEF Reorg, Inv, ServedNow
      <3>2. served' # {l2'}
        BY <3>1
      <3>3. FromThisChain'
        BY <3>2 DEF FromThisChain
      <3>4. Collected'
        BY <2>3, <3>1 DEF Inv, Collected
      <3>5. Executed'
        <4>1. SUFFICES ASSUME NEW b \in Height, HasResult(b)
              PROVE  b # 0 /\ \E p, o \in served', right \in BOOLEAN : ExecutedOn(b, p, o, right)'
          BY <2>3 DEF Executed
        <4>2. b # 0 /\ \E p, o \in served, right \in BOOLEAN : ExecutedOn(b, p, o, right)
          BY <4>1 DEF Inv, Executed
        <4> QED
          BY <2>3, <3>1, <4>2 DEF ExecutedOn
      <3> QED
        BY <1>5, <2>1, <2>2, <3>3, <3>4, <3>5, <1>0 DEF Reorg, Inv
    <2> QED
      BY <2>4, <2>5
  <1>6. CASE Shutdown
    <2>0. (TypeOK /\ IdleClean /\ ServedNow /\ Collected /\ FromThisChain)'
      BY <1>6 DEF Shutdown, chainVars, Inv, TypeOK, IdleClean, ServedNow, Collected,
                  FromThisChain, HasBlock, HasParent, HasResult
    <2>1. Inv'
      BY <1>6, <2>0 DEF Shutdown, chainVars, Inv, Executed, ExecutedOn, HasResult
    <2> QED
      BY <1>6, <2>1, <1>0 DEF Shutdown
  <1>7. CASE UNCHANGED vars
    <2>1. Inv'
      BY <1>7 DEF vars, chainVars, Inv, TypeOK, IdleClean, ServedNow, Collected, Executed,
                  ExecutedOn, FromThisChain, HasBlock, HasParent, HasResult
    <2> QED
      BY <1>7, <2>1, <1>0 DEF vars
  <1> QED
    BY <1>1, <1>2, <1>3, <1>4, <1>5, <1>6, <1>7 DEF Next

\* In every behaviour, at every time: Inv and what is signed.
LEMMA InvAlways == Spec => [](Inv /\ Signed)
  <1>1. Init => Signed
    BY DEF Init, Signed, SignedExecuted, ReportOfServedChains, BatchOfOneChain
  <1> QED
    BY <1>1, InitInv, NextInv, PTL DEF Spec

\* The variables of the batch prover keep their types; retry() makes at most its attempts.
THEOREM TypeCorrect == Spec => []TypeOK
  BY InvAlways, PTL DEF Inv

\* Whatever fails, panics or is shut down, a signed batch has a report for every block, and
\* every report was executed here (the comparisons of generate_poe, apps.rs).
THEOREM SignedExecutedCorrect == Spec => []SignedExecuted
  BY InvAlways, PTL DEF Signed

\* A report joins roots that the node served during the call; where they are of two chains,
\* because the two RPCs fell on either side of a reorganisation, the block really leads from
\* the one to the other (generate_poe's comparison of roots, apps.rs).  Nothing is assumed of
\* Exec: two parents may well lead to the same root.
THEOREM ReportOfServedChainsCorrect == Spec => []ReportOfServedChains
  BY InvAlways, PTL DEF Signed

\* Without a reorganisation during the call, the reports of a batch follow one chain.
THEOREM BatchOfOneChainCorrect == Spec => []BatchOfOneChain
  BY InvAlways, PTL DEF Signed

----------------------------------------------------------------------------
(* Where the tasks come from. *)

\* A nonempty set of naturals has a least element.
LEMMA LeastNatural ==
  ASSUME NEW S, S \subseteq Nat, S # {}
  PROVE  \E k \in S : \A j \in S : k <= j
  <1>1. \E R : IsWellFoundedOn(R, Nat) /\ \A i, j \in Nat : j < i => <<j, i>> \in R
    <2>1. \A i, j \in Nat : j < i => <<j, i>> \in OpToRel(<, Nat)
      BY Z3 DEF OpToRel
    <2> QED
      BY <2>1, NatLessThanWellFounded, Zenon
  <1>2. PICK R : IsWellFoundedOn(R, Nat) /\ \A i, j \in Nat : j < i => <<j, i>> \in R
    BY <1>1
  <1>3. PICK k \in S : \A j \in S : ~(<<j, k>> \in R)
    <2>1. IsWellFoundedOn(R, Nat)
      BY <1>2
    <2> QED
      BY <2>1, WFMin, Zenon
  <1>4. ASSUME NEW j \in S
        PROVE  k <= j
    <2>1. j \in Nat /\ k \in Nat /\ ~(j < k)
      BY <1>2, <1>3
    <2> QED
      BY <2>1
  <1> QED
    BY <1>4

HandlerState == [task : Task, tmp_tx : TxHash \cup {None}]

\* f holds the states of the handler before the first of n logs, after the first, and so on.
HandlesLogs(f, logs, n) ==
    f = [i \in 0 .. n |-> IF i = 0 THEN [task |-> EmptyTask, tmp_tx |-> None]
                                   ELSE HandleLog(f[i - 1], logs[i])]

\* One log leads from a state to a state: the task is then that log's.
LEMMA HandleLogEffect ==
  ASSUME NEW state \in HandlerState, NEW log \in Log
  PROVE  /\ HandleLog(state, log) \in HandlerState
         /\ HandleLog(state, log).task = [data_hash |-> log.hash, blocks |-> log.start .. log.end]
  <1> DEFINE logged == [data_hash |-> log.hash, blocks |-> log.start .. log.end]
  <1>1. logged \in Task /\ log.tx \in TxHash /\ state.tmp_tx \in TxHash \cup {None}
    BY BatchAssumption DEF Log, Task, Height, HandlerState
  <1>2. [state.task EXCEPT !.data_hash = log.hash, !.blocks = log.start .. log.end] = logged
    <2>1. state.task \in Task
      BY DEF HandlerState
    <2>2. PICK h \in DataHash, b \in SUBSET Height : state.task = [data_hash |-> h, blocks |-> b]
      BY <2>1 DEF Task
    <2>3. [[data_hash |-> h, blocks |-> b] EXCEPT !.data_hash = log.hash] = [data_hash |-> log.hash, blocks |-> b]
      OBVIOUS
    <2>4. [[data_hash |-> log.hash, blocks |-> b] EXCEPT !.blocks = log.start .. log.end] = logged
      OBVIOUS
    <2> QED
      BY <2>2, <2>3, <2>4, Zenon
  <1> HIDE DEF logged
  <1>3. \E tx \in TxHash \cup {None} : HandleLog(state, log) = [task |-> logged, tmp_tx |-> tx]
    <2>1. HandleLog(state, log) = IF log.tx # (IF state.tmp_tx = None THEN log.tx ELSE state.tmp_tx)
                                  THEN [task |-> logged, tmp_tx |-> log.tx]
                                  ELSE [task |-> logged,
                                        tmp_tx |-> IF state.tmp_tx = None THEN log.tx ELSE state.tmp_tx]
      BY <1>2 DEF HandleLog, logged
    <2> QED
      BY <1>1, <2>1
  <1> QED
    BY <1>1, <1>3 DEF HandlerState, logged

\* The loop has a state after any number of logs: a shortest list without one would have one,
\* from the state before its last log.
LEMMA HandlesAnyLogs ==
  ASSUME NEW logs, NEW n \in Nat
  PROVE  \E f : HandlesLogs(f, logs, n)
  <1> DEFINE Bad == {m \in Nat : ~\E f : HandlesLogs(f, logs, m)}
  <1> SUFFICES ASSUME Bad # {}
               PROVE  FALSE
    OBVIOUS
  <1>1. PICK m \in Bad : \A j \in Bad : m <= j
    <2> HIDE DEF Bad
    <2>1. Bad \subseteq Nat
      BY DEF Bad
    <2> QED
      BY <2>1, LeastNatural
  <1>2. CASE m = 0
    <2>1. HandlesLogs([i \in 0 .. 0 |-> [task |-> EmptyTask, tmp_tx |-> None]], logs, 0)
      BY DEF HandlesLogs
    <2> QED
      BY <1>1, <1>2, <2>1
  <1>3. CASE m # 0
    <2>1. m - 1 \in Nat /\ m - 1 \notin Bad /\ m \in Nat
      BY <1>1, <1>3
    <2>2. PICK f : HandlesLogs(f, logs, m - 1)
      BY <2>1
    <2> DEFINE g == [i \in 0 .. m |-> IF i = m THEN HandleLog(f[m - 1], logs[m]) ELSE f[i]]
    <2>3. \A i \in 0 .. m : g[i] = IF i = 0 THEN [task |-> EmptyTask, tmp_tx |-> None]
                                            ELSE HandleLog(g[i - 1], logs[i])
      <3>1. \A i \in 0 .. m - 1 : f[i] = IF i = 0 THEN [task |-> EmptyTask, tmp_tx |-> None]
                                                  ELSE HandleLog(f[i - 1], logs[i])
        BY <2>2, Zenon DEF HandlesLogs
      <3>2. \A i \in 0 .. m - 1 : g[i] = f[i] /\ (i # 0 => g[i - 1] = f[i - 1])
        BY <2>1
      <3>3. g[m] = HandleLog(f[m - 1], logs[m]) /\ g[m - 1] = f[m - 1] /\ m # 0
        BY <1>3, <2>1
      <3> HIDE DEF g
      <3>4. ASSUME NEW i \in 0 .. m - 1
            PROVE  g[i] = IF i = 0 THEN [task |-> EmptyTask, tmp_tx |-> None]
                                   ELSE HandleLog(g[i - 1], logs[i])
        BY <3>1, <3>2
      <3>5. \A i \in 0 .. m : i = m \/ i \in 0 .. m - 1
        BY <2>1
      <3> QED
        BY <3>3, <3>4, <3>5
    <2>4. HandlesLogs(g, logs, m)
      <3>1. g = [i \in 0 .. m |-> g[i]]
        OBVIOUS
      <3> HIDE DEF g
      <3> QED
        BY <2>3, <3>1, Zenon DEF HandlesLogs
    <2> QED
      BY <1>1, <2>4
  <1> QED
    BY <1>2, <1>3

\* Every state of the loop is a state of the handler.
LEMMA HandlerStates ==
  ASSUME NEW logs \in Seq(Log), NEW f, HandlesLogs(f, logs, Len(logs))
  PROVE  \A i \in 0 .. Len(logs) : f[i] \in HandlerState
  <1> DEFINE n == Len(logs)
  <1> DEFINE Bad == {i \in 0 .. n : f[i] \notin HandlerState}
  <1> SUFFICES ASSUME Bad # {}
               PROVE  FALSE
    OBVIOUS
  <1>1. n \in Nat /\ \A i \in 1 .. n : logs[i] \in Log
    OBVIOUS
  <1>2. \A i \in 0 .. n : f[i] = IF i = 0 THEN [task |-> EmptyTask, tmp_tx |-> None]
                                          ELSE HandleLog(f[i - 1], logs[i])
    BY Zenon DEF HandlesLogs
  <1> HIDE DEF n
  <1>3. PICK i \in Bad : \A j \in Bad : i <= j
    <2> HIDE DEF Bad
    <2>1. Bad \subseteq Nat
      BY <1>1 DEF Bad
    <2> QED
      BY <2>1, LeastNatural
  <1>4. CASE i = 0
    BY <1>1, <1>2, <1>3, <1>4, BatchAssumption DEF HandlerState, EmptyTask, Task
  <1>5. CASE i # 0
    <2>1. i \in 1 .. n /\ i - 1 \in 0 .. n /\ f[i - 1] \in HandlerState
      BY <1>1, <1>3, <1>5
    <2>2. f[i] = HandleLog(f[i - 1], logs[i])
      BY <1>2, <1>3, <1>5
    <2> QED
      BY <1>1, <1>3, <2>1, <2>2, HandleLogEffect
  <1> QED
    BY <1>4, <1>5

\* The task of a call is that of its last log; without a log it is empty.
LEMMA TaskOfLast ==
  ASSUME NEW logs \in Seq(Log)
  PROVE  IF logs = <<>> THEN TaskOf(logs) = EmptyTask
         ELSE TaskOf(logs) = [data_hash |-> logs[Len(logs)].hash,
                              blocks    |-> logs[Len(logs)].start .. logs[Len(logs)].end]
  <1> DEFINE n == Len(logs)
  <1> DEFINE s == CHOOSE f : HandlesLogs(f, logs, n)
  <1>1. n \in Nat /\ (n = 0 <=> logs = <<>>) /\ (n # 0 => logs[n] \in Log)
    OBVIOUS
  <1>2. TaskOf(logs) = s[n].task
    BY DEF TaskOf, HandlesLogs
  <1>3. HandlesLogs(s, logs, n)
    BY <1>1, HandlesAnyLogs, Zenon
  <1> HIDE DEF s
  <1>4. \A i \in 0 .. n : s[i] \in HandlerState
    BY <1>3, HandlerStates
  <1>5. \A i \in 0 .. n : s[i] = IF i = 0 THEN [task |-> EmptyTask, tmp_tx |-> None]
                                          ELSE HandleLog(s[i - 1], logs[i])
    BY <1>3, Zenon DEF HandlesLogs
  <1>6. CASE n = 0
    BY <1>1, <1>2, <1>5, <1>6
  <1>7. CASE n # 0
    <2> HIDE DEF n
    <2>1. s[n] = HandleLog(s[n - 1], logs[n]) /\ s[n - 1] \in HandlerState
      BY <1>1, <1>4, <1>5, <1>7
    <2> USE DEF n
    <2> QED
      BY <1>1, <1>2, <1>7, <2>1, HandleLogEffect
  <1> QED
    BY <1>6, <1>7

\* What a call may be about is a task of the handler's or without a data hash.
Logged(t) ==
    t.data_hash # ZeroHash =>
        \E logs \in LogGroup \ {<<>>} : LET log == logs[Len(logs)]
            IN  t = [data_hash |-> log.hash, blocks |-> log.start .. log.end]

LEMMA FedTasksLogged ==
  ASSUME NEW t \in FedTasks
  PROVE  Logged(t)
  <1>1. CASE \E logs \in LogGroup : t = TaskOf(logs)
    <2>1. PICK logs \in LogGroup : t = TaskOf(logs)
      BY <1>1
    <2>2. logs \in Seq(Log)
      BY LogAssumption
    <2> QED
      BY <2>1, <2>2, TaskOfLast DEF Logged, EmptyTask
  <1>2. CASE \E start, end \in Height : t = RpcTask(start, end)
    BY <1>2 DEF Logged, RpcTask
  <1> QED
    BY <1>1, <1>2 DEF FedTasks

\* What is signed under a data hash is the batch of one log of the subscriber's, the last
\* of a call of its handler (batch_task.rs), whatever happens between the log and the
\* signature.
THEOREM SignedTasksAreLogged ==
  ASSUME Tasks = FedTasks
  PROVE  Spec => []TaskIsLogged
  <1> DEFINE TaskInv == Logged(task) /\ \A s \in signed : Logged(s.task)
  <1>1. Init => TaskInv
    BY DEF Init, EmptyTask, Logged
  <1>2. TaskInv /\ [Next]_vars => TaskInv'
    <2> SUFFICES ASSUME TaskInv, [Next]_vars
                 PROVE  TaskInv'
      OBVIOUS
    <2>1. ASSUME NEW t \in Tasks, Begin(t)
          PROVE  TaskInv'
      BY <2>1, FedTasksLogged DEF Begin
    <2>2. CASE Refuse
      BY <2>2 DEF Refuse, Return, EmptyTask, Logged
    <2>3. CASE Sign
      <3>1. task' = EmptyTask /\ \A s \in signed' : s.task = task
        BY <2>3 DEF Sign, Return
      <3> QED
        BY <3>1 DEF EmptyTask, Logged
    <2>4. CASE UNCHANGED <<task, signed>>
      BY <2>4 DEF Logged
    <2> QED
      BY <2>1, <2>2, <2>3, <2>4
         DEF Next, WorkerStep, Take, FetchBlock, FetchParent, FetchErr, DryRun, Execute,
             HandleErr, Panic, Reorg, Shutdown, vars
  <1>3. TaskInv => TaskIsLogged
    BY DEF TaskIsLogged, Logged
  <1> QED
    BY <1>1, <1>2, <1>3, PTL DEF Spec
=============================================================================

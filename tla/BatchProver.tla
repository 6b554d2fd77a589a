---------------------------- MODULE BatchProver ----------------------------
(***************************************************************************)
(* The calls of BuildContext::generate_poe (apps/prover/src/apps.rs), one  *)
(* after the other.                                                        *)
(*                                                                         *)
(* Workers of parallel() take the blocks of the task, collect a block's    *)
(* data from the L2 node in several RPCs (block_executor.rs, retried),     *)
(* execute the block, and file the result by block number.  The call then  *)
(* puts the results together and signs.  The L2 node may reorganise its    *)
(* chain between any two RPCs; RPCs fail, workers panic, the app is shut   *)
(* down.                                                                   *)
(***************************************************************************)
EXTENDS Integers, FiniteSets

CONSTANTS
    Last,          \* the highest block of the L2 chain
    Root,          \* state roots
    Txs,           \* block contents
    Exec(_, _, _), \* the root after executing a content on a root; the third argument
                   \* says whether BLOCKHASH answered what the chain holds
    Chain,         \* the chains the L2 node may serve
    DataHash,      \* data hashes of batches
    ZeroHash,      \* SH256::default()
    Tasks,         \* the tasks calls may get
    None,          \* Option::None
    Failed,        \* the result of a block whose handle() returned an error
    Missing,       \* the result of a block that has none
    Threads,       \* the threads parallel() runs (8)
    Retries,       \* attempts of retry() (3)
    MaxReorgs      \* bound on the reorganisations of one behaviour

Height == 0 .. Last
Block  == [txs : Txs, root : Root]
Task   == [data_hash : DataHash, blocks : SUBSET Height]

\* What handle() returns for a block: the report of its PoE, and the root computed here.
Report == [prev : Root, new : Root, local : {Exec(r, t, h) : r \in Root, t \in Txs, h \in BOOLEAN}]

ASSUME BatchAssumption ==
    /\ Last \in Nat \ {0}
    /\ Threads \in Nat \ {0}
    /\ Retries \in Nat \ {0}
    /\ MaxReorgs \in Nat
    /\ ZeroHash \in DataHash
    /\ None \notin Root \cup Block
    /\ Failed \notin Report
    /\ Missing \notin Report \cup {Failed}
    /\ Chain \subseteq [Height -> Block]
    /\ Tasks \subseteq Task

VARIABLES
    alive,     \* base::trace::Alive
    l2,        \* the chain the L2 node serves
    reorgs,    \* how often it was reorganised
    call,      \* whether a generate_poe is running
    task,      \* its task
    served,    \* history: the chains that the L2 node has served since it began
    stage,     \* where the worker of each block is
    tries,     \* failed attempts of its retry()
    pob,       \* what it has collected: the block, the parent's root, the BLOCKHASH answers
    results,   \* batch_result
    signed     \* what the last call returned: the signed batch, if any, with its reports

chainVars == <<l2, reorgs>>
vars == <<alive, chainVars, call, task, served, stage, tries, pob, results, signed>>

EmptyTask == [data_hash |-> ZeroHash, blocks |-> {}]
NoPob     == [blk |-> None, prev |-> None, hashes |-> TRUE]

InProgress == {b \in Height : stage[b] \in {"fetch", "parent", "dryrun", "execute"}}

----------------------------------------------------------------------------
(* Mutated forms of definitions below, one plausible bug each; no specification uses
   them: the properties are tested against them. *)

\* The state roots are not compared.
MatchesAlways(result) == TRUE

\* The number of results is not compared with the number of blocks.
CompleteAlways == TRUE

\* The results are kept for the next call.
ReturnKeepsResults ==
    /\ call' = "idle"
    /\ task' = EmptyTask
    /\ served' = {}
    /\ stage' = [b \in Height |-> "none"]
    /\ tries' = [b \in Height |-> 0]
    /\ pob' = [b \in Height |-> NoPob]
    /\ UNCHANGED <<alive, chainVars, results>>

\* One attempt too many.
FetchErrOnceMore(b) ==
    /\ stage[b] \in {"fetch", "parent"}
    /\ pob' = [pob EXCEPT ![b] = NoPob]
    /\ \/ /\ tries[b] < Retries
          /\ tries' = [tries EXCEPT ![b] = @ + 1]
          /\ stage' = [stage EXCEPT ![b] = "fetch"]
          /\ UNCHANGED results
       \/ /\ tries[b] = Retries
          /\ tries' = [tries EXCEPT ![b] = 0]
          /\ stage' = [stage EXCEPT ![b] = "done"]
          /\ results' = [results EXCEPT ![b] = Failed]
    /\ UNCHANGED <<alive, chainVars, call, task, served, signed>>

\* Blocks left in the queue by a shutdown are waited for.
WorkersEndedAll == \A b \in task.blocks : stage[b] \in {"done", "lost"}

\* The execution starts from the state that the local node has now.
ExecuteLatest(b) ==
    /\ stage[b] = "execute"
    /\ results' = [results EXCEPT ![b] =
          [prev |-> l2[b - 1].root, new |-> pob[b].blk.root,
           local |-> Exec(pob[b].prev, pob[b].blk.txs, pob[b].hashes)]]
    /\ stage' = [stage EXCEPT ![b] = "done"]
    /\ pob' = [pob EXCEPT ![b] = NoPob]
    /\ UNCHANGED <<alive, chainVars, call, task, served, tries, signed>>

----------------------------------------------------------------------------
\* generate_poe and its workers

\* A call begins, for Api::prove or for execute_task.
Begin(t) ==
    /\ alive
    /\ call = "idle"
    /\ call' = "proving"
    /\ task' = t
    /\ served' = {l2}
    /\ stage' = [b \in Height |-> IF b \in t.blocks THEN "queued" ELSE "none"]
    /\ signed' = {}
    /\ UNCHANGED <<alive, chainVars, tries, pob, results>>

\* A thread of parallel() takes a block.
Take(b) ==
    /\ alive
    /\ stage[b] = "queued"
    /\ Cardinality(InProgress) < Threads
    /\ stage' = [stage EXCEPT ![b] = "fetch"]
    /\ UNCHANGED <<alive, chainVars, call, task, served, tries, pob, results, signed>>

\* fetch_prestate up to get_block: the traces, whose data is left out, and the block.
FetchBlock(b) ==
    /\ stage[b] = "fetch"
    /\ pob' = [pob EXCEPT ![b] = [blk |-> l2[b], prev |-> None, hashes |-> TRUE]]
    /\ stage' = [stage EXCEPT ![b] = "parent"]
    /\ UNCHANGED <<alive, chainVars, call, task, served, tries, results, signed>>

\* The rest of fetch_prestate: states of the parent, and the root in its header.  Block 0
\* has no parent: number - 1 underflows.
FetchParent(b) ==
    /\ stage[b] = "parent"
    /\ b # 0
    /\ pob' = [pob EXCEPT ![b] = [blk |-> @.blk, prev |-> l2[b - 1].root, hashes |-> TRUE]]
    /\ stage' = [stage EXCEPT ![b] = "dryrun"]
    /\ tries' = [tries EXCEPT ![b] = 0]
    /\ UNCHANGED <<alive, chainVars, call, task, served, results, signed>>

\* An RPC fails: the attempt is dropped, and retry starts fetch_prestate over or gives up.
FetchErr(b) ==
    /\ stage[b] \in {"fetch", "parent"}
    /\ pob' = [pob EXCEPT ![b] = NoPob]
    /\ \/ /\ tries[b] + 1 < Retries
          /\ tries' = [tries EXCEPT ![b] = @ + 1]
          /\ stage' = [stage EXCEPT ![b] = "fetch"]
          /\ UNCHANGED results
       \/ /\ tries[b] + 1 = Retries
          /\ tries' = [tries EXCEPT ![b] = 0]
          /\ stage' = [stage EXCEPT ![b] = "done"]
          /\ results' = [results EXCEPT ![b] = Failed]
    /\ UNCHANGED <<alive, chainVars, call, task, served, signed>>

\* generate_pob executes the block once to collect nodes and block hashes; a hash that
\* cannot be fetched, or comes from another chain, is the wrong answer.
DryRun(b) ==
    /\ stage[b] = "dryrun"
    /\ \E right \in BOOLEAN : pob' = [pob EXCEPT ![b].hashes = right]
    /\ stage' = [stage EXCEPT ![b] = "execute"]
    /\ UNCHANGED <<alive, chainVars, call, task, served, tries, results, signed>>

\* BlockExecutor::execute succeeds: single_block's PoE carries the roots of the L2 node,
\* the block carries the root computed here.
Execute(b) ==
    /\ stage[b] = "execute"
    /\ results' = [results EXCEPT ![b] =
          [prev |-> pob[b].prev, new |-> pob[b].blk.root,
           local |-> Exec(pob[b].prev, pob[b].blk.txs, pob[b].hashes)]]
    /\ stage' = [stage EXCEPT ![b] = "done"]
    /\ pob' = [pob EXCEPT ![b] = NoPob]
    /\ UNCHANGED <<alive, chainVars, call, task, served, tries, signed>>

\* The dry run or the execution returns an error.
HandleErr(b) ==
    /\ stage[b] \in {"dryrun", "execute"}
    /\ results' = [results EXCEPT ![b] = Failed]
    /\ stage' = [stage EXCEPT ![b] = "done"]
    /\ pob' = [pob EXCEPT ![b] = NoPob]
    /\ UNCHANGED <<alive, chainVars, call, task, served, tries, signed>>

\* An unwrap fails or a subtraction underflows: the block has no result.
Panic(b) ==
    /\ stage[b] \in {"dryrun", "execute"} \/ (stage[b] = "parent" /\ b = 0)
    /\ stage' = [stage EXCEPT ![b] = "lost"]
    /\ pob' = [pob EXCEPT ![b] = NoPob]
    /\ UNCHANGED <<alive, chainVars, call, task, served, tries, results, signed>>

\* parallel() returns: no worker runs, and blocks are left in the queue only if the app is
\* shut down or a worker panicked.
WorkersEnded ==
    /\ InProgress = {}
    /\ (\E b \in task.blocks : stage[b] = "queued")
          => ~alive \/ \E b \in task.blocks : stage[b] = "lost"

Finished        == {b \in task.blocks : results[b] # Missing}
Complete        == Cardinality(Finished) = Cardinality(task.blocks)
Matches(result) == result.new = result.local

\* The call returns: what it held is dropped.
Return ==
    /\ call' = "idle"
    /\ task' = EmptyTask
    /\ served' = {}
    /\ stage' = [b \in Height |-> "none"]
    /\ tries' = [b \in Height |-> 0]
    /\ pob' = [b \in Height |-> NoPob]
    /\ results' = [b \in Height |-> Missing]
    /\ UNCHANGED <<alive, chainVars>>

\* A result is missing, is an error, or does not match; or Poe::batch refuses.
Refuse ==
    /\ call = "proving"
    /\ WorkersEnded
    /\ UNCHANGED signed
    /\ Return

\* All blocks are there and match: the batch is signed.
Sign ==
    /\ call = "proving"
    /\ WorkersEnded
    /\ Complete
    /\ \A b \in Finished : results[b] # Failed /\ Matches(results[b])
    /\ signed' = {[task |-> task, served |-> served, reports |-> [b \in Finished |-> results[b]]]}
    /\ Return

----------------------------------------------------------------------------
\* The environment

\* The L2 node moves to another chain.
Reorg ==
    /\ reorgs < MaxReorgs
    /\ \E c \in Chain \ {l2} : l2' = c
    /\ reorgs' = reorgs + 1
    /\ served' = IF call = "idle" THEN {} ELSE served \cup {l2'}
    /\ UNCHANGED <<alive, call, task, stage, tries, pob, results, signed>>

Shutdown ==
    /\ alive
    /\ alive' = FALSE
    /\ UNCHANGED <<chainVars, call, task, served, stage, tries, pob, results, signed>>

Init ==
    /\ alive = TRUE
    /\ l2 \in Chain
    /\ reorgs = 0
    /\ call = "idle"
    /\ task = EmptyTask
    /\ served = {}
    /\ stage = [b \in Height |-> "none"]
    /\ tries = [b \in Height |-> 0]
    /\ pob = [b \in Height |-> NoPob]
    /\ results = [b \in Height |-> Missing]
    /\ signed = {}

WorkerStep(b) ==
    \/ Take(b) \/ FetchBlock(b) \/ FetchParent(b) \/ FetchErr(b)
    \/ DryRun(b) \/ Execute(b) \/ HandleErr(b) \/ Panic(b)

Next ==
    \/ \E t \in Tasks : Begin(t)
    \/ \E b \in Height : WorkerStep(b)
    \/ Refuse
    \/ Sign
    \/ Reorg
    \/ Shutdown

Spec == Init /\ [][Next]_vars

\* Threads run and the call goes on once they have ended.
FairSpec ==
    /\ Spec
    /\ \A b \in Height : WF_vars(WorkerStep(b))
    /\ WF_vars(Refuse \/ Sign)

----------------------------------------------------------------------------
\* What generate_poe promises

Stage == {"none", "queued", "fetch", "parent", "dryrun", "execute", "done", "lost"}

\* The variables have their types; retry() stays within its attempts.
TypeOK ==
    /\ alive \in BOOLEAN
    /\ l2 \in Chain
    /\ reorgs \in 0 .. MaxReorgs
    /\ call \in {"idle", "proving"}
    /\ task \in Task
    /\ served \subseteq Chain
    /\ stage \in [Height -> Stage]
    /\ tries \in [Height -> 0 .. Retries - 1]
    /\ pob \in [Height -> [blk : Block \cup {None}, prev : Root \cup {None}, hashes : BOOLEAN]]
    /\ results \in [Height -> {Failed, Missing} \cup Report]
    /\ \A s \in signed : s.task \in Task /\ s.served \subseteq Chain

\* A signed batch has one report for every block of its task, whatever panicked, failed or
\* was cut short, and each report is a transition that was executed here: the block of
\* some chain of the L2 node, run on the report's previous root, leads to its new root.
SignedExecuted ==
    \A s \in signed :
        /\ DOMAIN s.reports = s.task.blocks
        /\ \A b \in s.task.blocks : \E c \in Chain, right \in BOOLEAN :
              /\ s.reports[b].new = c[b].root
              /\ s.reports[b].new = Exec(s.reports[b].prev, c[b].txs, right)

\* The roots of a signed report are those of a parent and of a block that the L2 node served
\* during this very call; nothing of an earlier call gets into it, however often the chain
\* changed.  They come from two RPCs, and no parent hash is compared, so a reorganisation in
\* between may leave the parent on another chain than the block: such a report is signed
\* only if the block, run on that parent, ends in the root it has on its own chain, as it
\* may when it overwrites what the parents differ in.  The genesis block is never signed.
ReportOfServedChains ==
    \A s \in signed : \A b \in s.task.blocks :
        /\ b # 0
        /\ \E parent, own \in s.served, right \in BOOLEAN :
              /\ s.reports[b].prev = parent[b - 1].root
              /\ s.reports[b].new = own[b].root
              /\ Exec(parent[b - 1].root, own[b].txs, right) = own[b].root

\* Without a reorganisation during the call, all reports of a batch belong to the chain that
\* was served, so each starts where the one before it ended; no attempt, no earlier call
\* and no other worker leaves anything behind that could break it.
BatchOfOneChain ==
    \A s \in signed, c \in Chain : s.served = {c} =>
        \A b \in s.task.blocks :
            s.reports[b].prev = c[b - 1].root /\ s.reports[b].new = c[b].root

\* A call returns, whatever fails or panics and also when the app is shut down during it.
CallReturns == (call = "proving") ~> (call = "idle")

=============================================================================

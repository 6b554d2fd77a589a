----------------------------- MODULE BatchTask -----------------------------
(***************************************************************************)
(* Where the tasks of generate_poe come from: the log handler of           *)
(* BatchTaskSubscriber (src/common/linea/src/batch_task.rs), which is      *)
(* called with the DataSubmitted logs of a range of L1 blocks, and the     *)
(* JSON-RPC method prove.  The calls of generate_poe are those of          *)
(* BatchProver, with Tasks given as FedTasks.                              *)
(***************************************************************************)
EXTENDS BatchProver, Sequences

CONSTANTS
    TxHash,   \* transactions of the rollup contract
    LogGroup  \* the lists of logs the handler may be called with

Log == [tx : TxHash, hash : DataHash, start : Height, end : Height]

ASSUME LogAssumption ==
    /\ None \notin TxHash
    /\ LogGroup \subseteq Seq(Log)

(* A mutated form of HandleLog: the handler keeps the first data hash of a transaction. *)
HandleLogKeepsHash(state, log) ==
    LET current_tx == IF state.tmp_tx = None THEN log.tx ELSE state.tmp_tx
    IN  [task   |-> [data_hash |-> IF log.tx = current_tx /\ state.tmp_tx # None
                                   THEN state.task.data_hash ELSE log.hash,
                     blocks    |-> log.start .. log.end],
         tmp_tx |-> log.tx]

\* One iteration of its loop: the first log of a transaction starts a task, the next ones
\* overwrite it.
HandleLog(state, log) ==
    LET current_tx == IF state.tmp_tx = None THEN log.tx ELSE state.tmp_tx
        blocks     == log.start .. log.end
    IN  IF log.tx # current_tx
        THEN [task |-> [data_hash |-> log.hash, blocks |-> blocks], tmp_tx |-> log.tx]
        ELSE [task |-> [state.task EXCEPT !.data_hash = log.hash, !.blocks = blocks],
              tmp_tx |-> current_tx]

\* The task of the logs of one call.
TaskOf(logs) ==
    LET state[i \in 0 .. Len(logs)] ==
            IF i = 0 THEN [task |-> EmptyTask, tmp_tx |-> None]
                     ELSE HandleLog(state[i - 1], logs[i])
    IN  state[Len(logs)].task

\* Api::prove: any range that is not empty, without a data hash.
RpcTask(start, end) == [data_hash |-> ZeroHash, blocks |-> start .. end]

FedTasks ==
    {TaskOf(logs) : logs \in LogGroup}
    \cup {RpcTask(r[1], r[2]) : r \in {p \in Height \X Height : p[1] <= p[2]}}

\* A batch signed with a data hash is the batch of one log, the last one of the handler's
\* call: its hash and its block range come from the same log, however the logs of the
\* range are spread over transactions.
TaskIsLogged ==
    \A s \in signed : s.task.data_hash # ZeroHash =>
        \E logs \in LogGroup \ {<<>>} : LET log == logs[Len(logs)]
            IN  s.task = [data_hash |-> log.hash, blocks |-> log.start .. log.end]

=============================================================================

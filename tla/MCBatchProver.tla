--------------------------- MODULE MCBatchProver ---------------------------
(* Three chains over a common genesis.  On the first, block 2 builds on what block 1 did; on
   the second, block 1 is another one and block 2 overwrites all that blocks 1 differ in,
   so that it leads to the same root from either; on the third, block 2 changes nothing.  A
   root is the list of executions that led to it. *)
EXTENDS BatchTask

MCTxs == {"empty", "pay", "hash", "overwrite"}  \* "hash" uses BLOCKHASH

MCExec(root, txs, right) ==
    CASE txs = "empty"     -> root
      [] txs = "pay"       -> Append(root, <<txs, TRUE>>)
      [] txs = "hash"      -> Append(root, <<txs, right>>)
      [] txs = "overwrite" -> <<<<txs, TRUE>>>>

Grow(t1, t2) ==
    LET r1 == MCExec(<<>>, t1, TRUE)
    IN  [b \in 0 .. 2 |-> CASE b = 0 -> [txs |-> "empty", root |-> <<>>]
                            [] b = 1 -> [txs |-> t1, root |-> r1]
                            [] b = 2 -> [txs |-> t2, root |-> MCExec(r1, t2, TRUE)]]

MCChain == {Grow("pay", "pay"), Grow("hash", "overwrite"), Grow("pay", "empty")}
MCRoot  == {c[b].root : c \in MCChain, b \in 0 .. 2}

LogOf(tx, hash, start, end) == [tx |-> tx, hash |-> hash, start |-> start, end |-> end]

\* No log; one; two of one transaction; two of two transactions.
MCLogGroup ==
    {<<>>,
     <<LogOf("t1", "d1", 1, 2)>>,
     <<LogOf("t1", "d1", 1, 1), LogOf("t1", "d2", 2, 2)>>,
     <<LogOf("t1", "d1", 1, 2), LogOf("t2", "d2", 1, 1)>>}
=============================================================================

---------------------------- MODULE TraceReplay ----------------------------
(***************************************************************************)
(* A block executed over the traces a state manager has recorded for it:   *)
(* BuildContext::generate_poe_v2 (apps/prover/src/apps.rs) fills a         *)
(* MemStore (common/zktrie/src/storage.rs) with the traces and with proofs *)
(* of the accounts at the block before, and the execution reads and writes *)
(* a ZkTrie over it, in any order.                                         *)
(*                                                                         *)
(* MemStore keeps the nodes under their hashes and what get_nearest_keys   *)
(* answers under a root and a key; update_index and remove_index write a   *)
(* map (staging) that nothing reads, so they are no part of it.            *)
(***************************************************************************)
EXTENDS Traces, TrieHandlers

VARIABLES
    phase,      \* recording the block, replaying it, ended with an error
    store,      \* MemStore
    root,       \* the root of the executed trie
    answer      \* the result of the last read

replayVars  == <<store, root, answer>>
vars        == <<phase, managerVars, replayVars>>

NoStore == [nodes |-> {}, index |-> <<>>]

----------------------------------------------------------------------------
(* The nodes of a record *)

SubRoot(leaves) == Over(leaves)[Depth][0]

\* The node of a root.
top_node(top) == TopNode(top.free, SubRoot(top.leaves))

Sibling(n) == IF n % 2 = 0 THEN n + 1 ELSE n - 1

\* The node beside the path to i, at a height.
Beside(leaves, h, i) == Over(leaves)[h][Sibling(Halves(i)[h])]

ProofLeaf(proof) ==
    IF proof.leaf = NoLeaf THEN EmptyLeaf ELSE Leaf([j \in {0} |-> ValueType], proof.leaf)

\* The branch at a height over the node below it and the sibling of that.
Joined(proof, h, below) ==
    LET sibling == Beside(proof.under, h - 1, proof.leaf_index)
    IN  IF get_leaf_path(proof.leaf_index)[Depth + 1 - h] = 0
        THEN Branch(below, sibling) ELSE Branch(sibling, below)

\* TraceProof::build_nodes: the nodes from the leaf up to the root of the sub trie.
build_nodes(proof) ==
    LET up[h \in 0..Depth] == IF h = 0 THEN ProofLeaf(proof) ELSE Joined(proof, h, up[h - 1])
    IN  {up[h] : h \in 0..Depth}

\* Trace::nodes
trace_proof_nodes(t) ==
    CASE t.type = "Update" -> build_nodes(t.own)
      [] t.type \in {"Insertion", "Deletion"} ->
            build_nodes(t.left) \cup build_nodes(t.own) \cup build_nodes(t.right)
      [] OTHER -> {}

----------------------------------------------------------------------------
(* MemStore *)

\* trace_nodes: the top node goes under the hash of a branch whose left child is the hash
\* of a NextFree node, where a root has the plain number.
trace_nodes ==
    UNION {{Branch([kind |-> "nextfree", value |-> old_next_free(traces[i])],
                   SubRoot(traces[i].sub)),
            [kind |-> "nextfree", value |-> old_next_free(traces[i])]}
           \cup trace_proof_nodes(traces[i]) : i \in DOMAIN traces}

StartRoot == top_node(Start)

\* Mutated form of proof_nodes: the root is not stored.
proof_nodesNoRoot(k) ==
    LET i == StartIndex(k)
    IN  {Beside(Start.leaves, h, i) : h \in 0..(Depth - 1)}
        \cup {Over(Start.leaves)[h][Halves(i)[h]] : h \in 1..Depth}

\* What add_proof stores: siblings, branches and the root, but not the leaf itself.
proof_nodes(k) ==
    LET i == StartIndex(k)
    IN  {Beside(Start.leaves, h, i) : h \in 0..(Depth - 1)}
        \cup {Over(Start.leaves)[h][Halves(i)[h]] : h \in 1..Depth}
        \cup {StartRoot}

\* add_proof rebuilds the root from the siblings; the leaf beside the path is always taken
\* for a Leaf, whose hash is never that of an empty one.
ProofAccepted(k) == Sibling(StartIndex(k)) \in DOMAIN Start.leaves

Found(entries) == IF entries = {} THEN Failed ELSE store.index[CHOOSE e \in entries : TRUE]

\* Mutated form of get_nearest_keys: the root is not looked at.
get_nearest_keysAnyRoot(k) == Found({e \in DOMAIN store.index : e[2] = k})

\* An unknown root or key is unreachable!().
get_nearest_keys(k) ==
    Found({e \in DOMAIN store.index : top_node(e[1]) = root /\ e[2] = k})

db == Tree(root, store.nodes)

----------------------------------------------------------------------------
(* generate_poe_v2 and execute_v2 *)

\* The state manager changes its trie and records the block.
Manage ==
    /\ phase = "block"
    /\ ManagerNext
    /\ UNCHANGED <<phase, replayVars>>

\* The store is filled with the traces, and with proofs for those of their accounts that
\* were there at the block before; the trie is opened at the root of the first trace.
Fill ==
    /\ phase = "block"
    /\ traces # <<>>
    /\ store' = [nodes |-> EmptyNodes \cup trace_nodes
                              \cup UNION {proof_nodes(k) : k \in Included},
                 index |-> Lookup]
    /\ phase' = IF \A k \in Included : ProofAccepted(k) THEN "replay" ELSE "ended"
    /\ root' = StartRoot
    /\ UNCHANGED <<managerVars, answer>>

\* An unknown root or key is unreachable!(), and execute_v2 unwraps the error of a change.
Read(k) ==
    /\ phase = "replay"
    /\ IF get_nearest_keys(k) = Failed
       THEN phase' = "ended" /\ UNCHANGED answer
       ELSE /\ answer' = IF get_nearest_keys(k).center = NoLeaf THEN NoValue
                         ELSE get_nearest_keys(k).center.leaf_value
            /\ UNCHANGED phase
    /\ UNCHANGED <<managerVars, store, root>>

Becomes(t) ==
    /\ phase = "replay"
    /\ IF t = Failed
       THEN phase' = "ended" /\ UNCHANGED <<store, root>>
       ELSE store' = [store EXCEPT !.nodes = t.nodes] /\ root' = t.root /\ UNCHANGED phase
    /\ UNCHANGED <<managerVars, answer>>

PutResult(k, v) ==
    LET range == get_nearest_keys(k)
    IN  IF range = Failed THEN Failed ELSE trie_put(db, k, v, range)

RemoveResult(k) ==
    LET range == get_nearest_keys(k)
    IN  IF range = Failed THEN Failed ELSE trie_remove(db, range)

\* No index is left for a key that is not there; get_leaf_path has no path for one.
Full(k) ==
    LET range == get_nearest_keys(k)
    IN  range # Failed /\ range.center = NoLeaf /\ next_free_node(db) > Capacity

Init ==
    /\ ManagerInit
    /\ phase = "block"
    /\ store = NoStore
    /\ root = EmptyTop
    /\ answer = NoValue

ReplayNext ==
    \/ Manage
    \/ Fill
    \/ \E k \in Key :
          \/ Read(k)
          \/ Becomes(RemoveResult(k))
          \/ ~Full(k) /\ \E v \in Value : Becomes(PutResult(k, v))

ReplaySpec == Init /\ [][ReplayNext]_vars
----------------------------------------------------------------------------
(* What a root stands for. *)

\* The leaf at an index, with every node at hand.
LeafAt(rt, i) ==
    LET at[lvl \in 0..(Depth + 1)] ==
            IF lvl = 0 THEN rt ELSE Child(at[lvl - 1], get_leaf_path(i)[lvl - 1])
    IN  at[Depth + 1]

HeldAt(rt) == [i \in {j \in Index : LeafAt(rt, j).kind = "leaf"} |-> LeafAt(rt, i).value]

ValueOf(leaves, k) ==
    IF Has(leaves, k) THEN leaves[CHOOSE i \in DOMAIN leaves : leaves[i].hkey = k].hval
    ELSE NoValue

Contents(rt) == LET leaves == HeldAt(rt) IN [k \in Key |-> ValueOf(leaves, k)]

\* The variables have their types.
TypeOK ==
    /\ ManagerTypeOK
    /\ phase \in {"block", "replay", "ended"}
    /\ answer \in Value \cup {NoValue}
    /\ phase = "replay" =>
          /\ next_free_node(db) \in 2 .. (Capacity + 1)
          /\ DOMAIN HeldAt(root) \subseteq 0 .. (next_free_node(db) - 1)

Map == INSTANCE KeyValueMap WITH map <- Contents(root), answer <- answer

\* However the execution departs from the recorded order, each read answers what the root
\* it stands on commits to, and a put or a removal changes what the root commits to for
\* that key and no other; or the program stops.  Nothing is answered from a stale entry,
\* although lookups are filed before the execution and its writes never reach them.
ReplayIsMap ==
    [][phase = "replay" =>
          IF phase' = "ended" THEN UNCHANGED <<root, answer>>
          ELSE \A k \in Key :
                  /\ Read(k) => Map!MapRead(k)
                  /\ Becomes(RemoveResult(k)) => Map!MapRemove(k)
                  /\ \A v \in Value : ~Full(k) /\ Becomes(PutResult(k, v)) => Map!MapPut(k, v)]_vars

\* The first change of the block finds everything it needs, though the traces alone do not
\* have the root's node under its hash: a proof of any account brings it.
FirstWriteGoesThrough ==
    phase = "replay" /\ root = StartRoot /\ Included # {} =>
        \A i \in DOMAIN traces :
            (\A j \in 1 .. (i - 1) : traces[j].type \in {"Read", "ReadZero"}) =>
                CASE traces[i].type \in {"Insertion", "Update"} ->
                        \A v \in Value : PutResult(traces[i].key, v) # Failed
                  [] traces[i].type = "Deletion" -> RemoveResult(traces[i].key) # Failed
                  [] OTHER -> get_nearest_keys(traces[i].key) # Failed
=============================================================================

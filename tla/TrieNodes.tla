----------------------------- MODULE TrieNodes -----------------------------
(***************************************************************************)
(* ZkTrie with the nodes it is made of: every operation of trie.rs with    *)
(* what it reads and writes in the Merkle tree (TrieHandlers), next to     *)
(* what it does to the leaves taken as an array (ZkTrie).                  *)
(***************************************************************************)
EXTENDS ZkTrie, TrieHandlers

VARIABLES
    root,    \* state.root_hash
    stored   \* the nodes of the tree under root that the Database has

nodeVars == <<leaves, nextFree, index, answer, root, stored>>

tree == Tree(root, stored \cup EmptyNodes)

\* The nodes of a set and the children of its branches.
WithChildren(above) ==
    above \cup UNION {{n.left, n.right} : n \in {b \in above : b.kind = "branch"}}

\* The nodes that the root leads to.
NodesOf(t) ==
    LET reach[lvl \in 0..(Depth + 1)] ==
            IF lvl = 0 THEN {t.root} ELSE WithChildren(reach[lvl - 1])
    IN  reach[Depth + 1]

\* What a handler leaves behind when it returns without an error.  The Database keeps all
\* nodes; those the root does not lead to are forgotten here.
Becomes(t) ==
    /\ t # Failed
    /\ root' = t.root
    /\ stored' = t.nodes \cap NodesOf(t)

\* What get_nearest_keys answers for each key.
Ranges(k) ==
    LET neighbours == {p \in HKey \X HKey : Nearest(k, p[1], p[2])}
    IN  {KeyRange(IndexOf(p[1]), index[k], IndexOf(p[2])) : p \in neighbours}

NodesInit == Init /\ root = set_head_and_tail.root
                  /\ stored = set_head_and_tail.nodes \cap NodesOf(set_head_and_tail)

NodesNext ==
    \E k \in Key :
        \/ \E v \in Value :
              /\ Insert(k, v) \/ Update(k, v)
              /\ \E range \in Ranges(k) : Becomes(trie_put(tree, k, v, range))
        \/ /\ Remove(k) \/ RemoveAbsent(k)
           /\ \E range \in Ranges(k) : Becomes(trie_remove(tree, range))
        \/ Read(k) /\ UNCHANGED <<root, stored>>

NodesSpec == NodesInit /\ [][NodesNext]_nodeVars
----------------------------------------------------------------------------
\* The leaves without the empty ones.
Held(array) == [i \in {j \in Index : array[j] # NoLeaf} |-> array[i]]

\* The root hash is that of the leaves and the next free index, each at its place and
\* nothing else: two histories that lead to the same leaves lead to the same root.
RootCommitsToLeaves == root = TopNode(nextFree, Over(Held(leaves))[Depth][0])

\* No operation fails, whatever was put and removed before: every node it asks the Database
\* for is there, every leaf it wants to read is one, and every path it writes ends at a leaf.
NothingFails ==
    \A k \in Key : \A range \in Ranges(k) :
        /\ index[k] # NoLeaf \/ nextFree <= Capacity =>
              \A v \in Value : trie_put(tree, k, v, range) # Failed
        /\ trie_remove(tree, range) # Failed
=============================================================================

---------------------------- MODULE SparseMerkle ----------------------------
(***************************************************************************)
(* The Merkle tree under the state trie (common/zktrie/src/                *)
(* sparse_merkle_trie.rs, node.rs, utils.rs): nodes in a Database under    *)
(* their hashes, a top node that holds the next free index beside the root *)
(* of the leaves.  The hash is taken to be injective, so that a node's     *)
(* hash is the node.  An operation takes and returns the tree, a root and  *)
(* the nodes the Database has, or Failed.                                  *)
(***************************************************************************)
EXTENDS Integers

CONSTANT Depth   \* ZK_TRIE_DEPTH (40)

ASSUME DepthAssumption == Depth \in Nat \ {0}

ValueType == 22  \* LeafType::Value

EmptyLeaf       == [kind |-> "empty"]
Leaf(path, val) == [kind |-> "leaf", path |-> path, value |-> val]
Branch(l, r)    == [kind |-> "branch", left |-> l, right |-> r]
TopNode(n, sub) == Branch([kind |-> "number", value |-> n], sub)

Failed     == [kind |-> "failed"]
Tree(n, s) == [kind |-> "tree", root |-> n, nodes |-> s]

\* init_world_state: the empty subtrees of every height under the top.
Empty[height \in 0..Depth] ==
    IF height = 0 THEN EmptyLeaf ELSE Branch(Empty[height - 1], Empty[height - 1])

EmptyTop  == TopNode(0, Empty[Depth])
EmptyNodes == {Empty[h] : h \in 0..Depth} \cup {EmptyTop}
EmptyTree == Tree(EmptyTop, EmptyNodes)

\* An index shifted to the right once, twice, ... (value >> 1).
Halves(idx) ==
    LET half[j \in 0..Depth] == IF j = 0 THEN idx ELSE half[j - 1] \div 2
    IN  half

\* Mutated form of get_leaf_path: the bits from the lowest on.
get_leaf_pathReversed(idx) ==
    [i \in 0..(Depth + 1) |->
        CASE i = 0         -> 1
          [] i = Depth + 1 -> ValueType
          [] OTHER         -> Halves(idx)[i - 1] % 2]

\* get_leaf_path: into the sub trie, the bits of the index from the highest on, and the
\* type of the leaf.  The loop over the bits stops where nothing but zeros is left.
get_leaf_path(idx) ==
    [i \in 0..(Depth + 1) |->
        CASE i = 0         -> 1
          [] i = Depth + 1 -> ValueType
          [] OTHER         -> Halves(idx)[Depth - i] % 2]

Rest(path, lvl) == [i \in 0..(Depth + 1 - lvl) |-> path[lvl + i]]

Child(branch, bit) == IF bit = 0 THEN branch.left ELSE branch.right

Replace(branch, bit, n) == IF bit = 0 THEN Branch(n, branch.right) ELSE Branch(branch.left, n)

db_add(nodes, n) == Tree(n, nodes \cup {n})

\* The operations go down from a node, along path, and come back with the node that takes
\* its place.  Each is a function of the number of levels that are left, of Depth + 2, and
\* of a node that the Database has; below is the same function one level further down.

OutOfLevels(nodes) == [n \in nodes |-> Failed]

Under(below, nodes, n) == IF n \in nodes THEN below[n] ELSE Failed

\* The branch n is stored with another child on the path.
AddBranch(child, n, bit) ==
    IF child = Failed THEN Failed ELSE db_add(child.nodes, Replace(n, bit, child.root))

AddAt(below, nodes, lvl, path, val) ==
    [n \in nodes |->
        IF n.kind = "branch"
        THEN AddBranch(Under(below, nodes, Child(n, path[lvl])), n, path[lvl])
        ELSE IF n.kind = "leaf" /\ \E i \in DOMAIN n.path : n.path[i] # path[lvl + i] THEN Failed
        ELSE db_add(nodes, Leaf(Rest(path, lvl), val))]

add_leaf(nodes, path, val) ==
    LET add[left \in 0..(Depth + 2)] ==
            IF left = 0 THEN OutOfLevels(nodes)
            ELSE AddAt(add[left - 1], nodes, Depth + 2 - left, path, val)
    IN  add

\* Mutated form of RemoveAt: the branches on the way are hashed and not stored.
RemoveAtForgets(below, nodes, lvl, path) ==
    [n \in nodes |->
        IF n.kind # "branch" THEN Tree(EmptyLeaf, nodes)
        ELSE LET child == Under(below, nodes, Child(n, path[lvl]))
             IN  IF child = Failed THEN Failed ELSE Tree(Replace(n, path[lvl], child.root), nodes)]

\* Whatever is at the end becomes an empty leaf, which is not stored.
RemoveAt(below, nodes, lvl, path) ==
    [n \in nodes |->
        IF n.kind = "branch"
        THEN AddBranch(Under(below, nodes, Child(n, path[lvl])), n, path[lvl])
        ELSE Tree(EmptyLeaf, nodes)]

remove_leaf(nodes, path) ==
    LET rem[left \in 0..(Depth + 2)] ==
            IF left = 0 THEN OutOfLevels(nodes)
            ELSE RemoveAt(rem[left - 1], nodes, Depth + 2 - left, path)
    IN  rem

\* The leaf at the end of path, or Failed where there is none.
FindAt(below, nodes, lvl, path) ==
    [n \in nodes |->
        IF n.kind = "branch" THEN Under(below, nodes, Child(n, path[lvl]))
        ELSE IF n.kind = "leaf" /\ n.path = Rest(path, lvl) THEN n ELSE Failed]

find_leaf(nodes, path) ==
    LET find[left \in 0..(Depth + 2)] ==
            IF left = 0 THEN OutOfLevels(nodes)
            ELSE FindAt(find[left - 1], nodes, Depth + 2 - left, path)
    IN  find

HasRoot(t) == t # Failed /\ t.root \in t.nodes

put(t, path, val) ==
    IF HasRoot(t) THEN add_leaf(t.nodes, path, val)[Depth + 2][t.root] ELSE Failed

remove(t, path) ==
    IF HasRoot(t) THEN remove_leaf(t.nodes, path)[Depth + 2][t.root] ELSE Failed

get_node(t, path) ==
    IF HasRoot(t) THEN find_leaf(t.nodes, path)[Depth + 2][t.root] ELSE Failed

next_free_node(t) == t.root.left.value

set_next_free_node(t, free) ==
    IF t = Failed THEN Failed ELSE db_add(t.nodes, TopNode(free, t.root.right))

----------------------------------------------------------------------------
\* What a root should be: [h][i] is the tree of height h over the values at the 2^h
\* indices whose upper bits are i.
Over(value) ==
    LET over[h \in 0..Depth] ==
            IF h = 0
            THEN [i \in Nat |-> IF i \in DOMAIN value
                                THEN Leaf([j \in {0} |-> ValueType], value[i]) ELSE EmptyLeaf]
            ELSE [i \in Nat |-> Branch(over[h - 1][2 * i], over[h - 1][2 * i + 1])]
    IN  over
=============================================================================

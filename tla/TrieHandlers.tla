---------------------------- MODULE TrieHandlers ----------------------------
(***************************************************************************)
(* put and remove of common/zktrie/src/trie.rs as the reads and writes     *)
(* they make in the Merkle tree, one after the other.  The Database's      *)
(* get_nearest_keys gives the KeyRange.                                    *)
(***************************************************************************)
EXTENDS TrieLeaves, SparseMerkle

ASSUME HandlersAssumption == Halves(Capacity)[Depth] = 0

parse_node(t, i) == IF t = Failed THEN Failed ELSE get_node(t, get_leaf_path(i))

\* The leaf n was read at index i and is written back as leaf.
WriteBack(t, n, i, leaf) == IF n = Failed THEN Failed ELSE put(t, get_leaf_path(i), leaf)

SetNext(t, i, next) ==
    LET n == parse_node(t, i) IN WriteBack(t, n, i, NewNextLeaf(n.value, next))

SetPrev(t, i, prev) ==
    LET n == parse_node(t, i) IN WriteBack(t, n, i, NewPrevLeaf(n.value, prev))

increment(t) == IF t = Failed THEN Failed ELSE set_next_free_node(t, next_free_node(t) + 1)

\* put of a key that is not there: the left neighbour, the new leaf, the right neighbour.
PutNew(t, k, v, range) ==
    LET free    == next_free_node(t)
        opening == [hkey |-> k, hval |-> v,
                    prev_leaf |-> range.left_index, next_leaf |-> range.right_index]
        linked  == SetNext(t, range.left_index, free)
        added   == put(linked, get_leaf_path(free), opening)
    IN  increment(SetPrev(added, range.right_index, free))

PutOver(t, v, range) ==
    LET i == range.center.leaf_index
        n == parse_node(t, i)
    IN  WriteBack(t, n, i, NewHval(n.value, v))

\* sub_root_hash comes first: the root's node has to be in the Database.
trie_put(t, k, v, range) ==
    IF t.root \notin t.nodes THEN Failed
    ELSE IF range.center = NoLeaf THEN PutNew(t, k, v, range)
    ELSE PutOver(t, v, range)

\* The leaf to remove is read, too, and nothing but its existence is used.
RemoveOld(t, range) ==
    LET i       == range.center.leaf_index
        linked  == SetNext(t, range.left_index, range.right_index)
        removed == IF parse_node(linked, i) = Failed THEN Failed
                   ELSE remove(linked, get_leaf_path(i))
    IN  SetPrev(removed, range.right_index, range.left_index)

trie_remove(t, range) == IF range.center = NoLeaf THEN t ELSE RemoveOld(t, range)

\* The tree of init_world_state with the first two leaves.
set_head_and_tail ==
    LET t == increment(put(EmptyTree, get_leaf_path(0), HeadLeaf))
    IN  increment(put(t, get_leaf_path(next_free_node(t)), TailLeaf))
=============================================================================

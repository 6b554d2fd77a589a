----------------------------- MODULE TrieLeaves -----------------------------
(***************************************************************************)
(* The leaves of the state trie and the answers of its flattened index     *)
(* (common/zktrie/src/node.rs, storage.rs).                                *)
(***************************************************************************)
EXTENDS Integers

CONSTANTS
    Key,        \* the hashed keys (trie_hash) in use
    TailKey,    \* hkey of the tail leaf, above every hashed key
    Value,      \* leaf values; trie_hash of a value stands for the value
    NoValue,    \* SH256::default(), the hval of head and tail; also None
    NoLeaf,     \* an empty leaf of the trie; also None of KeyRange.center
    Capacity    \* bound on leaf indices (2^40 - 1 in the code)

HeadKey == 0
HKey    == Key \cup {HeadKey, TailKey}

ASSUME TrieAssumption ==
    /\ TailKey \in Nat \ {0}
    /\ Key \subseteq 1 .. (TailKey - 1)
    /\ NoValue \notin Value
    /\ Capacity \in Nat \ {0}
    /\ NoLeaf \notin [hkey : HKey, hval : Value \cup {NoValue},
                      prev_leaf : 0 .. Capacity, next_leaf : 0 .. Capacity]
    /\ NoLeaf \notin [leaf_index : 0 .. Capacity, leaf_value : Value \cup {NoValue}]

Index         == 0 .. Capacity
LeafOpening   == [hkey : HKey, hval : Value \cup {NoValue},
                  prev_leaf : Index, next_leaf : Index]
FlattenedLeaf == [leaf_index : Index, leaf_value : Value \cup {NoValue}]

HeadLeaf == [hkey |-> HeadKey, hval |-> NoValue, prev_leaf |-> 0, next_leaf |-> 1]
TailLeaf == [hkey |-> TailKey, hval |-> NoValue, prev_leaf |-> 0, next_leaf |-> 1]

\* An answer of get_nearest_keys; the center is there when the key is.
KeyRange(l, c, r) == [left_index |-> l, center |-> c, right_index |-> r]

\* LeafOpening::parse of a stored leaf: both links are read from the first word.
ParseLeaf(leaf) == [leaf EXCEPT !.next_leaf = leaf.prev_leaf]

NewHval(leaf, v)     == [ParseLeaf(leaf) EXCEPT !.hval = v]
NewNextLeaf(leaf, i) == [ParseLeaf(leaf) EXCEPT !.next_leaf = i]
NewPrevLeaf(leaf, i) == [ParseLeaf(leaf) EXCEPT !.prev_leaf = i]
=============================================================================

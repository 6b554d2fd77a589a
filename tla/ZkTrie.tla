------------------------------- MODULE ZkTrie -------------------------------
(***************************************************************************)
(* The state trie of Linea (common/zktrie/src/trie.rs, node.rs), generic   *)
(* in its Database: leaves are numbered in the order of their insertion    *)
(* and linked to their neighbours in the order of the hashed keys, between *)
(* a head and a tail.                                                      *)
(*                                                                         *)
(* The root hash stands for <<leaves, nextFree>>; TrieNodes adds the       *)
(* Merkle tree.  The Database keeps every node, and its get_nearest_keys   *)
(* answers from the flattened index that put and remove maintain through   *)
(* update_index and remove_index.                                          *)
(***************************************************************************)
EXTENDS TrieLeaves

VARIABLES
    leaves,     \* the sub trie: the leaf opening at every index
    nextFree,   \* next_free_node
    index,      \* the Database's flattened index: hkey to leaf index and value
    answer      \* the result of the last read

vars == <<leaves, nextFree, index, answer>>

Live       == {k \in HKey : index[k] # NoLeaf}
IndexOf(k) == index[k].leaf_index

\* get_nearest_keys(k): l and r are the keys in the trie next to k.
Nearest(k, l, r) ==
    /\ l \in Live /\ r \in Live
    /\ l < k /\ k < r
    /\ \A j \in Live : j <= l \/ j = k \/ j >= r

----------------------------------------------------------------------------
(* Mutated forms of definitions below, one plausible bug each; no specification uses
   them: the properties are tested against them. *)

\* The index is incremented with the leaf and once more at the end.
InsertTwice(k, v) ==
    /\ index[k] = NoLeaf
    /\ nextFree <= Capacity
    /\ \E l, r \in HKey :
          /\ Nearest(k, l, r)
          /\ leaves' = [leaves EXCEPT
                ![IndexOf(l)] = NewNextLeaf(@, nextFree),
                ![nextFree]   = [hkey |-> k, hval |-> v,
                                 prev_leaf |-> IndexOf(l), next_leaf |-> IndexOf(r)],
                ![IndexOf(r)] = NewPrevLeaf(@, nextFree)]
    /\ index' = [index EXCEPT ![k] = [leaf_index |-> nextFree, leaf_value |-> v]]
    /\ nextFree' = nextFree + 2
    /\ UNCHANGED answer

\* The flattened index is updated, the leaf is not.
UpdateIndexOnly(k, v) ==
    /\ index[k] # NoLeaf
    /\ index' = [index EXCEPT ![k].leaf_value = v]
    /\ UNCHANGED <<leaves, nextFree, answer>>

\* remove forgets remove_index.
RemoveKeepsIndex(k) ==
    /\ index[k] # NoLeaf
    /\ \E l, r \in HKey :
          /\ Nearest(k, l, r)
          /\ leaves' = [leaves EXCEPT
                ![IndexOf(l)] = NewNextLeaf(@, IndexOf(r)),
                ![IndexOf(k)] = NoLeaf,
                ![IndexOf(r)] = NewPrevLeaf(@, IndexOf(l))]
    /\ UNCHANGED <<nextFree, index, answer>>

\* remove leaves the right neighbour alone.
RemoveLeftOnly(k) ==
    /\ index[k] # NoLeaf
    /\ \E l, r \in HKey :
          /\ Nearest(k, l, r)
          /\ leaves' = [leaves EXCEPT
                ![IndexOf(l)] = NewNextLeaf(@, IndexOf(r)),
                ![IndexOf(k)] = NoLeaf]
    /\ index' = [index EXCEPT ![k] = NoLeaf]
    /\ UNCHANGED <<nextFree, answer>>

\* Removing the youngest leaf gives its index back.
RemoveFreesIndex(k) ==
    /\ index[k] # NoLeaf
    /\ \E l, r \in HKey :
          /\ Nearest(k, l, r)
          /\ leaves' = [leaves EXCEPT
                ![IndexOf(l)] = NewNextLeaf(@, IndexOf(r)),
                ![IndexOf(k)] = NoLeaf,
                ![IndexOf(r)] = NewPrevLeaf(@, IndexOf(l))]
    /\ index' = [index EXCEPT ![k] = NoLeaf]
    /\ nextFree' = IF IndexOf(k) = nextFree - 1 THEN nextFree - 1 ELSE nextFree
    /\ UNCHANGED answer

----------------------------------------------------------------------------
\* ZkTrie::empty: head and tail take the first two indices.
Init ==
    /\ leaves = [i \in Index |-> CASE i = 0 -> HeadLeaf [] i = 1 -> TailLeaf [] OTHER -> NoLeaf]
    /\ nextFree = 2
    /\ index = [k \in HKey |->
                  CASE k = HeadKey -> [leaf_index |-> 0, leaf_value |-> NoValue]
                    [] k = TailKey -> [leaf_index |-> 1, leaf_value |-> NoValue]
                    [] OTHER       -> NoLeaf]
    /\ answer = NoValue

\* put of a key that is not there: the left neighbour, the new leaf and the right
\* neighbour are written, in this order, and the next index is used up.
Insert(k, v) ==
    /\ index[k] = NoLeaf
    /\ nextFree <= Capacity
    /\ \E l, r \in HKey :
          /\ Nearest(k, l, r)
          /\ leaves' = [leaves EXCEPT
                ![IndexOf(l)] = NewNextLeaf(@, nextFree),
                ![nextFree]   = [hkey |-> k, hval |-> v,
                                 prev_leaf |-> IndexOf(l), next_leaf |-> IndexOf(r)],
                ![IndexOf(r)] = NewPrevLeaf(@, nextFree)]
    /\ index' = [index EXCEPT ![k] = [leaf_index |-> nextFree, leaf_value |-> v]]
    /\ nextFree' = nextFree + 1
    /\ UNCHANGED answer

\* put of a key that is there.
Update(k, v) ==
    /\ index[k] # NoLeaf
    /\ index' = [index EXCEPT ![k].leaf_value = v]
    /\ leaves' = [leaves EXCEPT ![IndexOf(k)] = NewHval(@, v)]
    /\ UNCHANGED <<nextFree, answer>>

\* remove of a key that is there; its index is not used again.
Remove(k) ==
    /\ index[k] # NoLeaf
    /\ \E l, r \in HKey :
          /\ Nearest(k, l, r)
          /\ leaves' = [leaves EXCEPT
                ![IndexOf(l)] = NewNextLeaf(@, IndexOf(r)),
                ![IndexOf(k)] = NoLeaf,
                ![IndexOf(r)] = NewPrevLeaf(@, IndexOf(l))]
    /\ index' = [index EXCEPT ![k] = NoLeaf]
    /\ UNCHANGED <<nextFree, answer>>

\* remove of a key that is not there does nothing.
RemoveAbsent(k) ==
    /\ index[k] = NoLeaf
    /\ UNCHANGED vars

\* read answers from the index alone.
Read(k) ==
    /\ answer' = IF index[k] = NoLeaf THEN NoValue ELSE index[k].leaf_value
    /\ UNCHANGED <<leaves, nextFree, index>>

Next ==
    \E k \in Key :
        \/ \E v \in Value : Insert(k, v) \/ Update(k, v)
        \/ Remove(k)
        \/ RemoveAbsent(k)
        \/ Read(k)

Spec == Init /\ [][Next]_vars
----------------------------------------------------------------------------
\* Every variable has its type.
TypeOK ==
    /\ leaves \in [Index -> LeafOpening \cup {NoLeaf}]
    /\ nextFree \in 2 .. (Capacity + 1)
    /\ index \in [HKey -> FlattenedLeaf \cup {NoLeaf}]
    /\ answer \in Value \cup {NoValue}

\* The flattened index, from which put, remove and read find a key, and the leaves, which
\* the root hash commits to, hold the same keys and values after any sequence of puts and
\* removals: nothing is orphaned, doubled or stale.
IndexMatchesLeaves ==
    /\ \A k \in Live : LET leaf == leaves[IndexOf(k)] IN
          /\ leaf # NoLeaf
          /\ leaf.hkey = k
          /\ leaf.hval = index[k].leaf_value
    /\ \A i \in Index : leaves[i] # NoLeaf =>
          /\ index[leaves[i].hkey] # NoLeaf
          /\ IndexOf(leaves[i].hkey) = i

\* The prev links chain the leaves in the order of the keys, down from the tail to the
\* head, although every operation writes three leaves one after the other.
PrevLinksSorted ==
    \A r \in Live \ {HeadKey} : \E l \in Live :
        /\ l < r
        /\ \A j \in Live : j <= l \/ j >= r
        /\ leaves[IndexOf(r)].prev_leaf = IndexOf(l)

\* The next links chain them upwards ("UPDATE HKey- with hash(k) for next",
\* "UPDATE HKey- with HKey+ for next").
NextLinksSorted ==
    \A l \in Live \ {TailKey} : \E r \in Live :
        /\ l < r
        /\ \A j \in Live : j <= l \/ j >= r
        /\ leaves[IndexOf(l)].next_leaf = IndexOf(r)

\* An index once used and freed stays empty: the next free index stays above it, so no
\* proof about a removed leaf can ever name another.
IndicesNotReused ==
    [][ \A i \in Index : i < nextFree =>
           /\ i < nextFree'
           /\ leaves[i] = NoLeaf => leaves'[i] = NoLeaf ]_vars

\* What the leaves, and so the root hash, say about every key.
committed ==
    [k \in Key |-> IF \E i \in Index : leaves[i] # NoLeaf /\ leaves[i].hkey = k
                   THEN leaves[CHOOSE i \in Index : leaves[i] # NoLeaf /\ leaves[i].hkey = k].hval
                   ELSE NoValue]

Map == INSTANCE KeyValueMap WITH map <- committed, answer <- answer

\* Reads, which only look at the index, answer what the leaves under the root hash hold for
\* the key that is asked for; a put or a removal of a key changes them for that key alone.
ImplementsMap ==
    /\ Map!MapSpec
    /\ [][ \A k \in Key :
              /\ Read(k) => Map!MapRead(k)
              /\ Remove(k) => Map!MapRemove(k)
              /\ \A v \in Value : Insert(k, v) \/ Update(k, v) => Map!MapPut(k, v) ]_vars
=============================================================================

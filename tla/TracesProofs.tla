---------------------------- MODULE TracesProofs ----------------------------
(***************************************************************************)
(* Proofs about Traces and TraceReplay, for every set of hashed keys, any  *)
(* capacity and depth and any length of the history and of the block.      *)
(*                                                                         *)
(* A record is written once and never looked at again by the state         *)
(* manager, so what has to be kept is that its trie is well linked when it *)
(* writes one: an update's and a deletion's neighbours are the links of    *)
(* the leaf.                                                               *)
(***************************************************************************)
EXTENDS TraceReplay, SparseMerkleProofs, TLAPS

\* l and r are leaves and the nearest to k.
Neighbours(leaves, k, l, r) ==
    /\ l \in DOMAIN leaves
    /\ r \in DOMAIN leaves
    /\ Between(leaves, k, l, r)

\* The leaves of a trie below the next free index n: one for each key, each linked to its
\* neighbours.
Trie(leaves, n) ==
    /\ \A i \in DOMAIN leaves : i \in Index /\ i < n /\ leaves[i] \in LeafOpening
    /\ \A i, j \in DOMAIN leaves : leaves[i].hkey = leaves[j].hkey => i = j
    /\ \A i \in DOMAIN leaves : leaves[i].hkey \in Key =>
          Neighbours(leaves, leaves[i].hkey, leaves[i].prev_leaf, leaves[i].next_leaf)

\* What a record says of its key is true of the trie it was made from.
Sound(t) ==
    LET range == key_range(t)
    IN  /\ old_next_free(t) \in 2 .. (Capacity + 1)
        /\ Trie(t.sub, old_next_free(t))
        /\ Answers(t.sub, t.key, range)
        /\ Neighbours(t.sub, t.key, range.left_index, range.right_index)

\* Of the records of one root and key there is a last.
LastOf(m, n) ==
    /\ n \in DOMAIN traces
    /\ EntryOf(n) = EntryOf(m)
    /\ \A j \in DOMAIN traces : EntryOf(j) = EntryOf(m) => j <= n

\* Every record is true.
TracesSound ==
    /\ \E S : traces \in Seq(S)
    /\ \A n \in DOMAIN traces : Sound(traces[n])
    /\ \A m \in DOMAIN traces : \E n \in DOMAIN traces : LastOf(m, n)

\* The inductive invariant.
ManagerInv ==
    /\ free \in 2 .. (Capacity + 1)
    /\ Trie(held, free)
    /\ TracesSound

----------------------------------------------------------------------------
\* Keys are compared as numbers.
LEMMA KeysAreNumbers == HKey \subseteq Nat /\ Key \subseteq HKey /\ HeadKey \notin Key /\ TailKey \notin Key
  BY TrieAssumption DEF HKey, HeadKey

\* The key of a leaf is a number.
LEMMA LeafKey ==
    ASSUME NEW leaf \in LeafOpening
    PROVE  leaf.hkey \in Nat /\ leaf.hkey \in HKey
  BY KeysAreNumbers DEF LeafOpening

\* A leaf with one link rewritten.
NextSet(leaf, i) == [leaf EXCEPT !.next_leaf = i]
PrevSet(leaf, i) == [leaf EXCEPT !.prev_leaf = i]

\* A link that is rewritten leaves the rest of the leaf as it was.
LEMMA Relinked ==
    ASSUME NEW leaf \in LeafOpening, NEW i \in Index
    PROVE  /\ NextSet(leaf, i) \in LeafOpening
           /\ NextSet(leaf, i).hkey = leaf.hkey
           /\ NextSet(leaf, i).prev_leaf = leaf.prev_leaf
           /\ NextSet(leaf, i).next_leaf = i
           /\ PrevSet(leaf, i) \in LeafOpening
           /\ PrevSet(leaf, i).hkey = leaf.hkey
           /\ PrevSet(leaf, i).prev_leaf = i
           /\ PrevSet(leaf, i).next_leaf = leaf.next_leaf
  BY DEF LeafOpening, NextSet, PrevSet

\* An insertion leaves a well linked trie: the new leaf is between its neighbours, and
\* they are the only ones whose links it comes between.
LEMMA Inserted ==
    ASSUME NEW leaves, NEW n \in Index, Trie(leaves, n),
           NEW k \in Key, NEW v \in Value, ~Has(leaves, k),
           NEW l \in DOMAIN leaves, NEW r \in DOMAIN leaves, Between(leaves, k, l, r),
           NEW new, new = [hkey |-> k, hval |-> v, prev_leaf |-> l, next_leaf |-> r]
    PROVE  Trie(LinkPrev(With(LinkNext(leaves, l, n), n, new), r, n), n + 1)
  <1> DEFINE after == LinkPrev(With(LinkNext(leaves, l, n), n, new), r, n)
  <1>0. k \in Nat /\ n \in Nat
    BY KeysAreNumbers, TrieAssumption DEF Index
  <1>1. ASSUME NEW i \in DOMAIN leaves
        PROVE  /\ i \in Nat /\ i \in Index /\ i < n
               /\ leaves[i] \in LeafOpening
               /\ leaves[i].hkey \in Nat
               /\ leaves[i].hkey # k
    <2>1. i \in Index /\ i < n /\ leaves[i] \in LeafOpening
      BY DEF Trie
    <2>2. i \in Nat
      BY <2>1, TrieAssumption DEF Index
    <2>3. leaves[i].hkey \in Nat
      BY <2>1, LeafKey
    <2>4. leaves[i].hkey # k
      BY DEF Has
    <2> QED BY <2>1, <2>2, <2>3, <2>4
  <1>2. l # r /\ n \notin DOMAIN leaves
    BY <1>0, <1>1 DEF Between
  <1>3. /\ DOMAIN after = DOMAIN leaves \cup {n}
        /\ after[n] = new
        /\ after[l] = NextSet(leaves[l], n)
        /\ after[r] = PrevSet(leaves[r], n)
        /\ \A i \in DOMAIN leaves \ {l, r} : after[i] = leaves[i]
    BY <1>2 DEF LinkPrev, LinkNext, With, NextSet, PrevSet
  <1>4. new \in LeafOpening
    BY <1>0, <1>1, KeysAreNumbers DEF LeafOpening
  <1> HIDE DEF after
  <1>5. /\ \A i \in DOMAIN leaves : after[i] \in LeafOpening /\ after[i].hkey = leaves[i].hkey
        /\ \A i \in DOMAIN leaves \ {l} : after[i].next_leaf = leaves[i].next_leaf
        /\ \A i \in DOMAIN leaves \ {r} : after[i].prev_leaf = leaves[i].prev_leaf
        /\ after[l].next_leaf = n /\ after[r].prev_leaf = n
    <2>1. /\ after[l] \in LeafOpening /\ after[l].hkey = leaves[l].hkey
          /\ after[l].next_leaf = n /\ after[l].prev_leaf = leaves[l].prev_leaf
      <3>1. leaves[l] \in LeafOpening
        BY <1>1
      <3>2. LET leaf == NextSet(leaves[l], n) IN
               /\ leaf \in LeafOpening /\ leaf.hkey = leaves[l].hkey
               /\ leaf.next_leaf = n /\ leaf.prev_leaf = leaves[l].prev_leaf
        BY <3>1, Relinked
      <3>3. after[l] = NextSet(leaves[l], n)
        BY <1>3
      <3> QED BY <3>2, <3>3
    <2>2. /\ after[r] \in LeafOpening /\ after[r].hkey = leaves[r].hkey
          /\ after[r].prev_leaf = n /\ after[r].next_leaf = leaves[r].next_leaf
      <3>1. leaves[r] \in LeafOpening
        BY <1>1
      <3>2. LET leaf == PrevSet(leaves[r], n) IN
               /\ leaf \in LeafOpening /\ leaf.hkey = leaves[r].hkey
               /\ leaf.prev_leaf = n /\ leaf.next_leaf = leaves[r].next_leaf
        BY <3>1, Relinked
      <3>3. after[r] = PrevSet(leaves[r], n)
        BY <1>3
      <3> QED BY <3>2, <3>3
    <2>3. ASSUME NEW i \in DOMAIN leaves, i # l, i # r
          PROVE  after[i] = leaves[i] /\ after[i] \in LeafOpening
      BY <1>1, <1>3, <2>3
    <2> QED BY <2>1, <2>2, <2>3
  <1>6. after[n].hkey = k /\ after[n].prev_leaf = l /\ after[n].next_leaf = r
    BY <1>3
  <1>7. \A i \in DOMAIN after : i \in Index /\ i < n + 1 /\ after[i] \in LeafOpening
    BY <1>0, <1>1, <1>3, <1>4, <1>5
  <1>8. \A i, j \in DOMAIN after : after[i].hkey = after[j].hkey => i = j
    BY <1>0, <1>1, <1>3, <1>5, <1>6 DEF Trie
  <1>9. Neighbours(after, after[n].hkey, after[n].prev_leaf, after[n].next_leaf)
    BY <1>0, <1>1, <1>3, <1>5, <1>6 DEF Neighbours, Between
  <1>10. ASSUME NEW i \in DOMAIN leaves, after[i].hkey \in Key
         PROVE  Neighbours(after, after[i].hkey, after[i].prev_leaf, after[i].next_leaf)
    <2> DEFINE p == leaves[i].prev_leaf
               o == leaves[i].next_leaf
    <2>1. /\ p \in DOMAIN leaves /\ o \in DOMAIN leaves
          /\ leaves[p].hkey < leaves[i].hkey /\ leaves[i].hkey < leaves[o].hkey
          /\ \A j \in DOMAIN leaves : \/ leaves[j].hkey <= leaves[p].hkey
                                      \/ leaves[j].hkey = leaves[i].hkey
                                      \/ leaves[j].hkey >= leaves[o].hkey
      BY <1>5, <1>10 DEF Trie, Neighbours, Between
    <2>2. /\ leaves[l].hkey < k /\ k < leaves[r].hkey
          /\ \A j \in DOMAIN leaves : leaves[j].hkey <= leaves[l].hkey \/ leaves[j].hkey >= leaves[r].hkey
      BY <1>0, <1>1 DEF Between
    <2>3. CASE i = l
      <3>1. \A j \in DOMAIN leaves : \/ leaves[j].hkey <= leaves[p].hkey
                                     \/ leaves[j].hkey = leaves[l].hkey
                                     \/ leaves[j].hkey >= k
        BY <1>0, <1>1, <2>1, <2>2, <2>3
      <3>2. /\ after[i].hkey = leaves[l].hkey /\ after[i].prev_leaf = p /\ after[i].next_leaf = n
            /\ after[p].hkey = leaves[p].hkey
        BY <1>2, <1>5, <2>1, <2>3
      <3>3. \A j \in DOMAIN after : \/ after[j].hkey <= leaves[p].hkey
                                    \/ after[j].hkey = leaves[l].hkey
                                    \/ after[j].hkey >= k
        BY <1>0, <1>3, <1>5, <1>6, <3>1
      <3> QED BY <1>3, <1>6, <2>1, <2>2, <2>3, <3>2, <3>3 DEF Neighbours, Between
    <2>4. CASE i = r
      <3>1. \A j \in DOMAIN leaves : \/ leaves[j].hkey <= k
                                     \/ leaves[j].hkey = leaves[r].hkey
                                     \/ leaves[j].hkey >= leaves[o].hkey
        BY <1>0, <1>1, <2>1, <2>2, <2>4
      <3>2. /\ after[i].hkey = leaves[r].hkey /\ after[i].prev_leaf = n /\ after[i].next_leaf = o
            /\ after[o].hkey = leaves[o].hkey
        BY <1>2, <1>5, <2>1, <2>4
      <3>3. \A j \in DOMAIN after : \/ after[j].hkey <= k
                                    \/ after[j].hkey = leaves[r].hkey
                                    \/ after[j].hkey >= leaves[o].hkey
        BY <1>0, <1>3, <1>5, <1>6, <3>1
      <3> QED BY <1>3, <1>6, <2>1, <2>2, <2>4, <3>2, <3>3 DEF Neighbours, Between
    <2>5. CASE i # l /\ i # r
      <3>1. leaves[i].hkey # leaves[l].hkey /\ leaves[i].hkey # leaves[r].hkey
        BY <2>5 DEF Trie
      <3>2. k <= leaves[p].hkey \/ k >= leaves[o].hkey
        BY <1>0, <1>1, <2>1, <2>2, <3>1
      <3> QED BY <1>0, <1>1, <1>3, <1>5, <1>6, <2>1, <2>5, <3>2 DEF Neighbours, Between
    <2> QED BY <2>3, <2>4, <2>5
  <1>11. \A i \in DOMAIN after : after[i].hkey \in Key =>
            Neighbours(after, after[i].hkey, after[i].prev_leaf, after[i].next_leaf)
    BY <1>3, <1>9, <1>10
  <1> QED BY <1>7, <1>8, <1>11 DEF Trie, after

\* A deletion leaves a well linked trie: only the links of the two neighbours named the
\* leaf that is gone.
LEMMA Deleted ==
    ASSUME NEW leaves, NEW n \in Nat, Trie(leaves, n),
           NEW x \in DOMAIN leaves, leaves[x].hkey \in Key,
           NEW l, l = leaves[x].prev_leaf, NEW r, r = leaves[x].next_leaf
    PROVE  Trie(LinkPrev(Without(LinkNext(leaves, l, r), x), r, l), n)
  <1> DEFINE after == LinkPrev(Without(LinkNext(leaves, l, r), x), r, l)
  <1>1. ASSUME NEW i \in DOMAIN leaves
        PROVE  /\ i \in Index /\ i < n
               /\ leaves[i] \in LeafOpening
               /\ leaves[i].hkey \in Nat
    <2>1. i \in Index /\ i < n /\ leaves[i] \in LeafOpening
      BY DEF Trie
    <2>2. leaves[i].hkey \in Nat
      BY <2>1, LeafKey
    <2> QED BY <2>1, <2>2
  <1>2. /\ l \in DOMAIN leaves /\ r \in DOMAIN leaves
        /\ leaves[l].hkey < leaves[x].hkey /\ leaves[x].hkey < leaves[r].hkey
        /\ \A j \in DOMAIN leaves : \/ leaves[j].hkey <= leaves[l].hkey
                                    \/ leaves[j].hkey = leaves[x].hkey
                                    \/ leaves[j].hkey >= leaves[r].hkey
    BY DEF Trie, Neighbours, Between
  <1>3. l # r /\ l # x /\ r # x
    BY <1>1, <1>2
  <1>4. /\ DOMAIN after = DOMAIN leaves \ {x}
        /\ after[l] = NextSet(leaves[l], r)
        /\ after[r] = PrevSet(leaves[r], l)
        /\ \A i \in DOMAIN leaves \ {l, r, x} : after[i] = leaves[i]
    BY <1>2, <1>3 DEF LinkPrev, LinkNext, Without, NextSet, PrevSet
  <1> HIDE DEF after
  <1>5. /\ \A i \in DOMAIN after : after[i] \in LeafOpening /\ after[i].hkey = leaves[i].hkey
        /\ \A i \in DOMAIN after \ {l} : after[i].next_leaf = leaves[i].next_leaf
        /\ \A i \in DOMAIN after \ {r} : after[i].prev_leaf = leaves[i].prev_leaf
        /\ after[l].next_leaf = r /\ after[r].prev_leaf = l
    <2>1. /\ after[l] \in LeafOpening /\ after[l].hkey = leaves[l].hkey
          /\ after[l].next_leaf = r /\ after[l].prev_leaf = leaves[l].prev_leaf
      <3>1. leaves[l] \in LeafOpening /\ r \in Index
        BY <1>1, <1>2
      <3>2. LET leaf == NextSet(leaves[l], r) IN
               /\ leaf \in LeafOpening /\ leaf.hkey = leaves[l].hkey
               /\ leaf.next_leaf = r /\ leaf.prev_leaf = leaves[l].prev_leaf
        BY <3>1, Relinked
      <3>3. after[l] = NextSet(leaves[l], r)
        BY <1>4
      <3> QED BY <3>2, <3>3
    <2>2. /\ after[r] \in LeafOpening /\ after[r].hkey = leaves[r].hkey
          /\ after[r].prev_leaf = l /\ after[r].next_leaf = leaves[r].next_leaf
      <3>1. leaves[r] \in LeafOpening /\ l \in Index
        BY <1>1, <1>2
      <3>2. LET leaf == PrevSet(leaves[r], l) IN
               /\ leaf \in LeafOpening /\ leaf.hkey = leaves[r].hkey
               /\ leaf.prev_leaf = l /\ leaf.next_leaf = leaves[r].next_leaf
        BY <3>1, Relinked
      <3>3. after[r] = PrevSet(leaves[r], l)
        BY <1>4
      <3> QED BY <3>2, <3>3
    <2>3. ASSUME NEW i \in DOMAIN after, i # l, i # r
          PROVE  after[i] = leaves[i] /\ after[i] \in LeafOpening
      BY <1>1, <1>4, <2>3
    <2> QED BY <2>1, <2>2, <2>3
  <1>6. \A i \in DOMAIN after : i \in Index /\ i < n /\ after[i] \in LeafOpening
    BY <1>1, <1>4, <1>5
  <1>7. \A i, j \in DOMAIN leaves : leaves[i].hkey = leaves[j].hkey => i = j
    BY DEF Trie
  <1>8. \A i, j \in DOMAIN after : after[i].hkey = after[j].hkey => i = j
    BY <1>4, <1>5, <1>7
  <1>9. ASSUME NEW i \in DOMAIN after, after[i].hkey \in Key
        PROVE  Neighbours(after, after[i].hkey, after[i].prev_leaf, after[i].next_leaf)
    <2> DEFINE p == leaves[i].prev_leaf
               o == leaves[i].next_leaf
    <2>0. i \in DOMAIN leaves /\ i # x /\ leaves[i].hkey # leaves[x].hkey
      BY <1>4, <1>7
    <2>1. /\ p \in DOMAIN leaves /\ o \in DOMAIN leaves
          /\ leaves[p].hkey < leaves[i].hkey /\ leaves[i].hkey < leaves[o].hkey
          /\ \A j \in DOMAIN leaves : \/ leaves[j].hkey <= leaves[p].hkey
                                      \/ leaves[j].hkey = leaves[i].hkey
                                      \/ leaves[j].hkey >= leaves[o].hkey
      BY <1>5, <1>9, <2>0 DEF Trie, Neighbours, Between
    <2>2. \A j \in DOMAIN after : /\ j \in DOMAIN leaves
                                  /\ leaves[j].hkey \in Nat
                                  /\ leaves[j].hkey # leaves[x].hkey
                                  /\ after[j].hkey = leaves[j].hkey
      BY <1>1, <1>4, <1>5, <1>7
    <2>3. CASE i = l
      <3>1. p # x /\ p \in DOMAIN after /\ after[p].hkey = leaves[p].hkey
        BY <1>1, <1>2, <1>4, <2>1, <2>2, <2>3
      <3>2. after[i].hkey = leaves[l].hkey /\ after[i].prev_leaf = p /\ after[i].next_leaf = r
        BY <1>3, <1>5, <2>3
      <3>3. r \in DOMAIN after /\ after[r].hkey = leaves[r].hkey
        BY <1>2, <1>3, <1>4, <1>5
      <3>4. \A j \in DOMAIN after : \/ after[j].hkey <= leaves[p].hkey
                                    \/ after[j].hkey = leaves[l].hkey
                                    \/ after[j].hkey >= leaves[r].hkey
        BY <1>1, <1>2, <2>1, <2>2, <2>3
      <3>5. leaves[l].hkey < leaves[r].hkey
        BY <1>1, <1>2
      <3> QED BY <2>1, <2>3, <3>1, <3>2, <3>3, <3>4, <3>5 DEF Neighbours, Between
    <2>4. CASE i = r
      <3>1. o # x /\ o \in DOMAIN after /\ after[o].hkey = leaves[o].hkey
        BY <1>1, <1>2, <1>4, <2>1, <2>2, <2>4
      <3>2. after[i].hkey = leaves[r].hkey /\ after[i].prev_leaf = l /\ after[i].next_leaf = o
        BY <1>3, <1>5, <2>4
      <3>3. l \in DOMAIN after /\ after[l].hkey = leaves[l].hkey
        BY <1>2, <1>3, <1>4, <1>5
      <3>4. \A j \in DOMAIN after : \/ after[j].hkey <= leaves[l].hkey
                                    \/ after[j].hkey = leaves[r].hkey
                                    \/ after[j].hkey >= leaves[o].hkey
        BY <1>1, <1>2, <2>1, <2>2, <2>4
      <3>5. leaves[l].hkey < leaves[r].hkey
        BY <1>1, <1>2
      <3> QED BY <2>1, <2>4, <3>1, <3>2, <3>3, <3>4, <3>5 DEF Neighbours, Between
    <2>5. CASE i # l /\ i # r
      <3>1. leaves[i].hkey # leaves[l].hkey /\ leaves[i].hkey # leaves[r].hkey
        BY <1>2, <1>7, <2>0, <2>5
      <3>2. p # x /\ o # x
        BY <1>1, <1>2, <2>0, <2>1, <3>1
      <3>3. /\ p \in DOMAIN after /\ after[p].hkey = leaves[p].hkey
            /\ o \in DOMAIN after /\ after[o].hkey = leaves[o].hkey
            /\ after[i].prev_leaf = p /\ after[i].next_leaf = o
            /\ after[i].hkey = leaves[i].hkey
        BY <1>4, <1>5, <2>1, <2>5, <3>2
      <3>4. \A j \in DOMAIN after : \/ after[j].hkey <= leaves[p].hkey
                                    \/ after[j].hkey = leaves[i].hkey
                                    \/ after[j].hkey >= leaves[o].hkey
        BY <2>1, <2>2
      <3> QED BY <2>1, <3>3, <3>4 DEF Neighbours, Between
    <2> QED BY <2>3, <2>4, <2>5
  <1> QED BY <1>6, <1>8, <1>9 DEF Trie, after

\* An update touches no key and no link.
LEMMA Updated ==
    ASSUME NEW leaves, NEW n \in Nat, Trie(leaves, n), NEW x \in DOMAIN leaves, NEW v \in Value
    PROVE  Trie([leaves EXCEPT ![x].hval = v], n)
  <1> DEFINE after == [leaves EXCEPT ![x].hval = v]
             leaf  == [leaves[x] EXCEPT !.hval = v]
  <1>1. leaves[x] \in LeafOpening
    BY DEF Trie
  <1>2. /\ leaf \in LeafOpening
        /\ leaf.hkey = leaves[x].hkey
        /\ leaf.prev_leaf = leaves[x].prev_leaf
        /\ leaf.next_leaf = leaves[x].next_leaf
    BY <1>1 DEF LeafOpening
  <1>3. /\ DOMAIN after = DOMAIN leaves
        /\ after[x] = leaf
        /\ \A i \in DOMAIN leaves \ {x} : after[i] = leaves[i]
    OBVIOUS
  <1> HIDE DEF after, leaf
  <1>4. \A i \in DOMAIN leaves : /\ after[i].hkey = leaves[i].hkey
                                 /\ after[i].prev_leaf = leaves[i].prev_leaf
                                 /\ after[i].next_leaf = leaves[i].next_leaf
    BY <1>2, <1>3
  <1>5. \A i \in DOMAIN after : i \in Index /\ i < n /\ after[i] \in LeafOpening
    BY <1>2, <1>3 DEF Trie
  <1>6. \A i, j \in DOMAIN after : after[i].hkey = after[j].hkey => i = j
    BY <1>3, <1>4 DEF Trie
  <1>7. ASSUME NEW i \in DOMAIN after, after[i].hkey \in Key
        PROVE  Neighbours(after, after[i].hkey, after[i].prev_leaf, after[i].next_leaf)
    <2>1. Neighbours(leaves, leaves[i].hkey, leaves[i].prev_leaf, leaves[i].next_leaf)
      BY <1>3, <1>4, <1>7 DEF Trie
    <2> QED BY <1>3, <1>4, <2>1 DEF Neighbours, Between
  <1> QED BY <1>5, <1>6, <1>7 DEF Trie, after

----------------------------------------------------------------------------
\* The record of a key that is there: its links are its neighbours.
LEMMA SoundPresent ==
    ASSUME NEW t, NEW k \in Key, NEW i \in DOMAIN held,
           free \in 2 .. (Capacity + 1), Trie(held, free), held[i].hkey = k,
           t.type \in {"Read", "Update", "Deletion"},
           t.key = k, t.value = held[i].hval, t.next_free = free, t.sub = held,
           t.own.leaf_index = i, t.own.leaf = held[i]
    PROVE  Sound(t)
  <1> DEFINE center == [leaf_index |-> i, leaf_value |-> held[i].hval]
  <1>1. key_range(t) = [left_index |-> held[i].prev_leaf, center |-> center,
                        right_index |-> held[i].next_leaf]
    BY DEF key_range, KeyRange
  <1>2. old_next_free(t) = free
    BY DEF old_next_free
  <1>3. center # NoLeaf
    <2>1. i \in Index /\ held[i].hval \in Value \cup {NoValue}
      BY DEF Trie, LeafOpening
    <2> QED BY <2>1, TrieAssumption DEF Index
  <1>4. Answers(t.sub, t.key, key_range(t))
    BY <1>1, <1>3 DEF Answers
  <1>5. Neighbours(t.sub, t.key, held[i].prev_leaf, held[i].next_leaf)
    BY DEF Trie
  <1> QED BY <1>1, <1>2, <1>4, <1>5 DEF Sound

\* The record of a key that is not there.
LEMMA SoundAbsent ==
    ASSUME NEW t, NEW k \in Key, NEW l \in DOMAIN held, NEW r \in DOMAIN held,
           free \in 2 .. (Capacity + 1), Trie(held, free), ~Has(held, k), Between(held, k, l, r),
           t.type \in {"ReadZero", "Insertion"},
           t.key = k, t.sub = held, old_next_free(t) = free,
           t.left.leaf_index = l, t.right.leaf_index = r
    PROVE  Sound(t)
  <1>1. key_range(t) = [left_index |-> l, center |-> NoLeaf, right_index |-> r]
    BY DEF key_range, KeyRange
  <1>2. Answers(t.sub, t.key, key_range(t))
    BY <1>1 DEF Answers
  <1>3. Neighbours(t.sub, t.key, l, r)
    BY DEF Neighbours
  <1> QED BY <1>1, <1>2, <1>3 DEF Sound

\* A change before the block leaves no record.
LEMMA BeforeKeeps == TracesSound /\ Before => TracesSound'
  <1> SUFFICES ASSUME TracesSound, Before PROVE TracesSound'
    OBVIOUS
  <1>1. traces' = <<>>
    BY DEF Before
  <1>2. traces' \in Seq({}) /\ DOMAIN traces' = {}
    BY <1>1
  <1> QED BY <1>2 DEF TracesSound

\* A sound record after sound ones; it is the last of its root and key.
LEMMA LogKeeps ==
    ASSUME NEW t, TracesSound, Sound(t), Log(t)
    PROVE  TracesSound'
  <1>1. PICK S : traces \in Seq(S)
    BY DEF TracesSound
  <1>a. PICK N \in Nat : N = Len(traces)
    BY <1>1
  <1> DEFINE T == S \cup {t}
  <1>2. traces \in Seq(T)
    BY <1>1
  <1>3. /\ DOMAIN traces = 1 .. N
        /\ traces' = Append(traces, t)
    BY <1>1, <1>a DEF Log
  <1>4. /\ traces' \in Seq(T)
        /\ DOMAIN traces' = 1 .. (N + 1)
        /\ \A n \in 1 .. N : traces'[n] = traces[n]
        /\ traces'[N + 1] = t
    BY <1>2, <1>3, <1>a
  <1> HIDE DEF T
  <1>5. ASSUME NEW n \in DOMAIN traces' PROVE Sound(traces'[n])
    BY <1>3, <1>4 DEF TracesSound
  <1>6. \A n \in 1 .. N : EntryOf(n)' = EntryOf(n)
    BY <1>4 DEF EntryOf
  <1>7. ASSUME NEW m \in DOMAIN traces' PROVE \E n \in DOMAIN traces' : LastOf(m, n)'
    <2>1. CASE EntryOf(N + 1)' = EntryOf(m)'
      <3>1. N + 1 \in DOMAIN traces' /\ \A j \in DOMAIN traces' : j <= N + 1
        BY <1>3, <1>4
      <3>2. LastOf(m, N + 1)'
        BY <2>1, <3>1 DEF LastOf
      <3> QED BY <3>1, <3>2
    <2>2. CASE EntryOf(N + 1)' # EntryOf(m)'
      <3>0. m # N + 1
        BY <2>2, Zenon
      <3>1. m \in 1 .. N
        BY <1>3, <1>4, <3>0
      <3>2. PICK n \in DOMAIN traces : LastOf(m, n)
        BY <1>3, <3>1 DEF TracesSound
      <3>3. n \in 1 .. N /\ EntryOf(n)' = EntryOf(m)'
        BY <1>3, <1>6, <3>1, <3>2 DEF LastOf
      <3>4. ASSUME NEW j \in DOMAIN traces', EntryOf(j)' = EntryOf(m)' PROVE j <= n
        <4>0. j # N + 1
          BY <2>2, <3>4, Zenon
        <4>1. j \in 1 .. N
          BY <1>3, <1>4, <4>0
        <4> QED BY <1>3, <1>6, <3>1, <3>2, <3>4, <4>1 DEF LastOf
      <3>5. n \in DOMAIN traces'
        BY <1>3, <1>4, <3>3
      <3> QED BY <3>3, <3>4, <3>5 DEF LastOf
    <2> QED BY <2>1, <2>2
  <1> QED BY <1>4, <1>5, <1>7 DEF TracesSound

----------------------------------------------------------------------------
\* The trie before the first change.
LEMMA ManagerInitInv == ManagerInit => ManagerInv
  <1> SUFFICES ASSUME ManagerInit PROVE ManagerInv
    OBVIOUS
  <1>1. /\ DOMAIN held = {0, 1} /\ held[0] = HeadLeaf /\ held[1] = TailLeaf
        /\ free = 2 /\ traces = <<>>
    BY DEF ManagerInit
  <1>2. free \in 2 .. (Capacity + 1) /\ 0 \in Index /\ 1 \in Index
    BY <1>1, TrieAssumption DEF Index
  <1>3. HeadLeaf \in LeafOpening /\ TailLeaf \in LeafOpening
    BY <1>2 DEF HeadLeaf, TailLeaf, LeafOpening, HKey
  <1>4. HeadLeaf.hkey = HeadKey /\ TailLeaf.hkey = TailKey /\ HeadKey # TailKey
    BY TrieAssumption DEF HeadLeaf, TailLeaf, HeadKey
  <1>5. \A i \in DOMAIN held : held[i].hkey \notin Key
    BY <1>1, <1>4, KeysAreNumbers
  <1>6. \A i \in DOMAIN held : i \in Index /\ i < free /\ held[i] \in LeafOpening
    BY <1>1, <1>2, <1>3
  <1>7. Trie(held, free)
    BY <1>1, <1>4, <1>5, <1>6 DEF Trie
  <1>8. traces \in Seq({}) /\ DOMAIN traces = {}
    BY <1>1
  <1> QED BY <1>2, <1>7, <1>8 DEF ManagerInv, TracesSound

\* Every record is true when it is made, and the trie stays linked.
LEMMA ManagerStep == ManagerInv /\ [ManagerNext]_managerVars => ManagerInv'
  <1> SUFFICES ASSUME ManagerInv, [ManagerNext]_managerVars PROVE ManagerInv'
    OBVIOUS
  <1>0. /\ free \in 2 .. (Capacity + 1) /\ free \in Nat
        /\ Trie(held, free) /\ TracesSound
    BY TrieAssumption DEF ManagerInv
  <1>1. ASSUME NEW k \in Key, RecordRead(k) PROVE ManagerInv'
    <2>1. PICK i \in DOMAIN held :
             /\ held[i].hkey = k
             /\ Log(Trace("Read", k, held[i].hval, free, None, Proof(held, i), None))
      BY <1>1 DEF RecordRead
    <2> DEFINE t == Trace("Read", k, held[i].hval, free, None, Proof(held, i), None)
    <2>2. /\ t.type = "Read" /\ t.key = k /\ t.value = held[i].hval /\ t.next_free = free
          /\ t.sub = held /\ t.own.leaf_index = i /\ t.own.leaf = held[i]
      BY DEF Trace, Proof
    <2>3. Log(t)
      BY <2>1
    <2> HIDE DEF t
    <2>4. Sound(t)
      BY <1>0, <2>1, <2>2, SoundPresent
    <2>5. TracesSound'
      BY <1>0, <2>3, <2>4, LogKeeps
    <2> QED BY <1>0, <1>1, <2>5 DEF ManagerInv, RecordRead
  <1>2. ASSUME NEW k \in Key, RecordReadZero(k) PROVE ManagerInv'
    <2>1. PICK l \in DOMAIN held, r \in DOMAIN held :
             /\ Between(held, k, l, r)
             /\ Log(Trace("ReadZero", k, NoValue, free, Proof(held, l), None, Proof(held, r)))
      BY <1>2 DEF RecordReadZero
    <2> DEFINE t == Trace("ReadZero", k, NoValue, free, Proof(held, l), None, Proof(held, r))
    <2>2. /\ t.type = "ReadZero" /\ t.key = k /\ t.sub = held /\ old_next_free(t) = free
          /\ t.left.leaf_index = l /\ t.right.leaf_index = r
      BY DEF Trace, Proof, old_next_free
    <2>3. Log(t) /\ ~Has(held, k)
      BY <1>2, <2>1 DEF RecordReadZero
    <2> HIDE DEF t
    <2>4. Sound(t)
      BY <1>0, <2>1, <2>2, <2>3, SoundAbsent
    <2>5. TracesSound'
      BY <1>0, <2>3, <2>4, LogKeeps
    <2> QED BY <1>0, <1>2, <2>5 DEF ManagerInv, RecordReadZero
  <1>3. ASSUME NEW k \in Key, NEW v \in Value, RecordInsertion(k, v) PROVE ManagerInv'
    <2> DEFINE New(l, r)    == [hkey |-> k, hval |-> v, prev_leaf |-> l, next_leaf |-> r]
               Linked(l)    == LinkNext(held, l, free)
               Added(l, r)  == With(Linked(l), free, New(l, r))
               Entry(l, r)  == Trace("Insertion", k, NoValue, free + 1, Proof(held, l),
                                     Proof(Linked(l), free), Proof(Added(l, r), r))
    <2>1. PICK l \in DOMAIN held, r \in DOMAIN held :
             /\ Between(held, k, l, r)
             /\ held' = LinkPrev(Added(l, r), r, free)
             /\ Before \/ Log(Entry(l, r))
      BY <1>3 DEF RecordInsertion
    <2> DEFINE t == Entry(l, r)
    <2>2. /\ ~Has(held, k) /\ free \in Index /\ free' = free + 1
          /\ free' \in 2 .. (Capacity + 1)
      BY <1>0, <1>3, TrieAssumption DEF RecordInsertion, Index
    <2>3. Trie(held', free')
      <3>1. New(l, r) = [hkey |-> k, hval |-> v, prev_leaf |-> l, next_leaf |-> r]
        OBVIOUS
      <3> HIDE DEF New
      <3>2. Trie(LinkPrev(With(LinkNext(held, l, free), free, New(l, r)), r, free), free + 1)
        BY <1>0, <2>1, <2>2, <3>1, Inserted
      <3> QED BY <2>1, <2>2, <3>2
    <2>4. /\ t.type = "Insertion" /\ t.key = k /\ t.sub = held /\ old_next_free(t) = free
          /\ t.left.leaf_index = l /\ t.right.leaf_index = r
      BY <1>0 DEF Trace, Proof, old_next_free
    <2>5. Before \/ Log(t)
      BY <2>1
    <2> HIDE DEF t
    <2>6. Sound(t)
      BY <1>0, <2>1, <2>2, <2>4, SoundAbsent
    <2>7. TracesSound'
      BY <1>0, <2>5, <2>6, LogKeeps, BeforeKeeps
    <2> QED BY <2>2, <2>3, <2>7 DEF ManagerInv
  <1>4. ASSUME NEW k \in Key, NEW v \in Value, RecordUpdate(k, v) PROVE ManagerInv'
    <2> DEFINE Entry(i) == Trace("Update", k, held[i].hval, free, None, Proof(held, i), None)
    <2>1. PICK i \in DOMAIN held :
             /\ held[i].hkey = k
             /\ held' = [held EXCEPT ![i].hval = v]
             /\ Before \/ Log(Entry(i))
      BY <1>4 DEF RecordUpdate
    <2> DEFINE t == Entry(i)
    <2>2. free' = free
      BY <1>4 DEF RecordUpdate
    <2>3. Trie(held', free')
      BY <1>0, <2>1, <2>2, Updated
    <2>4. /\ t.type = "Update" /\ t.key = k /\ t.value = held[i].hval /\ t.next_free = free
          /\ t.sub = held /\ t.own.leaf_index = i /\ t.own.leaf = held[i]
      BY DEF Trace, Proof
    <2>5. Before \/ Log(t)
      BY <2>1
    <2> HIDE DEF t
    <2>6. Sound(t)
      BY <1>0, <2>1, <2>4, SoundPresent
    <2>7. TracesSound'
      BY <1>0, <2>5, <2>6, LogKeeps, BeforeKeeps
    <2> QED BY <1>0, <2>2, <2>3, <2>7 DEF ManagerInv
  <1>5. ASSUME NEW k \in Key, RecordDeletion(k) PROVE ManagerInv'
    <2> DEFINE L(i)       == held[i].prev_leaf
               R(i)       == held[i].next_leaf
               Linked(i)  == LinkNext(held, L(i), R(i))
               Removed(i) == Without(Linked(i), i)
               Entry(i)   == Trace("Deletion", k, held[i].hval, free, Proof(held, L(i)),
                                   Proof(Linked(i), i), Proof(Removed(i), R(i)))
    <2>1. PICK i \in DOMAIN held :
             /\ held[i].hkey = k
             /\ held' = LinkPrev(Removed(i), R(i), L(i))
             /\ Before \/ Log(Entry(i))
      BY <1>5 DEF RecordDeletion
    <2> DEFINE t == Entry(i)
    <2>2. free' = free
      BY <1>5 DEF RecordDeletion
    <2>3. Trie(held', free')
      BY <1>0, <2>1, <2>2, Deleted
    <2>4. L(i) # i
      <3>1. Neighbours(held, k, L(i), R(i))
        BY <1>0, <2>1 DEF Trie
      <3> QED BY <2>1, <3>1, KeysAreNumbers DEF Neighbours, Between
    <2>5. i \in DOMAIN Linked(i) /\ Linked(i)[i] = held[i]
      BY <2>4 DEF LinkNext
    <2>6. /\ t.type = "Deletion" /\ t.key = k /\ t.value = held[i].hval /\ t.next_free = free
          /\ t.sub = held /\ t.own.leaf_index = i /\ t.own.leaf = held[i]
      BY <2>5 DEF Trace, Proof
    <2>7. Before \/ Log(t)
      BY <2>1
    <2> HIDE DEF t
    <2>8. Sound(t)
      BY <1>0, <2>1, <2>6, SoundPresent
    <2>9. TracesSound'
      BY <1>0, <2>7, <2>8, LogKeeps, BeforeKeeps
    <2> QED BY <1>0, <2>2, <2>3, <2>9 DEF ManagerInv
  <1>6. CASE UNCHANGED managerVars
    BY <1>6 DEF ManagerInv, TracesSound, LastOf, EntryOf, managerVars
  <1> QED BY <1>1, <1>2, <1>3, <1>4, <1>5, <1>6 DEF ManagerNext

\* What is filed under a root and a key is true of the trie with that root; the entry of a
\* proof is about a key that is there, and has no neighbours.
LEMMA LookupTrue ==
    ASSUME ManagerInv, traces # <<>>, NEW e \in DOMAIN Lookup
    PROVE  /\ e[1].free \in 2 .. (Capacity + 1)
           /\ Trie(e[1].leaves, e[1].free)
           /\ Answers(e[1].leaves, e[2], Lookup[e])
           /\ IF e \in DOMAIN level_map
              THEN Neighbours(e[1].leaves, e[2], Lookup[e].left_index, Lookup[e].right_index)
              ELSE Lookup[e].center # NoLeaf /\ Lookup[e].left_index = 0 /\ Lookup[e].right_index = 0
  <1>1. PICK S : traces \in Seq(S)
    BY DEF ManagerInv, TracesSound
  <1>2. \A n \in DOMAIN traces : Sound(traces[n])
    BY DEF ManagerInv, TracesSound
  <1>3. CASE e \in DOMAIN level_map
    <2>1. PICK m \in DOMAIN traces : e = EntryOf(m)
      BY <1>3 DEF level_map
    <2>2. PICK n \in DOMAIN traces : LastOf(m, n)
      BY DEF ManagerInv, TracesSound
    <2> DEFINE last == CHOOSE x \in DOMAIN traces :
                          EntryOf(x) = e /\ \A j \in DOMAIN traces : EntryOf(j) = e => j <= x
    <2>3. last \in DOMAIN traces /\ EntryOf(last) = e
      BY <2>1, <2>2 DEF LastOf
    <2>4. Lookup[e] = key_range(traces[last])
      BY <1>3 DEF Lookup, level_map
    <2> HIDE DEF last
    <2>5. e[1].leaves = traces[last].sub /\ e[1].free = old_next_free(traces[last])
          /\ e[2] = traces[last].key
      BY <2>3 DEF EntryOf, old_top
    <2>6. Sound(traces[last])
      BY <1>2, <2>3
    <2> QED BY <1>3, <2>4, <2>5, <2>6 DEF Sound
  <1>4. CASE e \notin DOMAIN level_map
    <2>1. /\ e \in DOMAIN proof_entries
          /\ Lookup[e] = proof_entries[e]
      BY <1>4 DEF Lookup
    <2>2. e[1] = Start /\ e[2] \in Included
      BY <2>1 DEF proof_entries
    <2> DEFINE i == StartIndex(e[2])
               center == [leaf_index |-> i, leaf_value |-> Start.leaves[i].hval]
    <2>3. Lookup[e] = [left_index |-> 0, center |-> center, right_index |-> 0]
      BY <2>1 DEF proof_entries, KeyRange
    <2>4. i \in DOMAIN Start.leaves /\ Start.leaves[i].hkey = e[2]
      BY <2>2 DEF Included, Has, StartIndex
    <2>5. 1 \in DOMAIN traces
      BY <1>1
    <2>6. Start.leaves = traces[1].sub /\ Start.free = old_next_free(traces[1])
      BY DEF Start, old_top
    <2>7. Trie(Start.leaves, Start.free) /\ Start.free \in 2 .. (Capacity + 1)
      BY <1>2, <2>5, <2>6 DEF Sound
    <2> HIDE DEF i
    <2>8. center # NoLeaf
      <3>1. i \in Index /\ Start.leaves[i].hval \in Value \cup {NoValue}
        BY <2>4, <2>7 DEF Trie, LeafOpening
      <3> QED BY <3>1, TrieAssumption DEF Index
    <2>9. Answers(Start.leaves, e[2], Lookup[e])
      BY <2>3, <2>4, <2>8 DEF Answers
    <2> QED BY <1>4, <2>2, <2>3, <2>7, <2>8, <2>9
  <1> QED BY <1>3, <1>4

\* So what the checks ask of the index holds.
LEMMA LookupSound == ManagerInv => IndexSound
  <1> SUFFICES ASSUME ManagerInv, traces # <<>>, NEW e \in DOMAIN Lookup
               PROVE  LET leaves == e[1].leaves
                          range  == Lookup[e]
                      IN  /\ Answers(leaves, e[2], range)
                          /\ \A i \in DOMAIN leaves : i < e[1].free
                          /\ e \in DOMAIN level_map =>
                                /\ {range.left_index, range.right_index} \subseteq DOMAIN leaves
                                /\ Between(leaves, e[2], range.left_index, range.right_index)
    BY DEF IndexSound
  <1>1. /\ Answers(e[1].leaves, e[2], Lookup[e])
        /\ e \in DOMAIN level_map =>
              Neighbours(e[1].leaves, e[2], Lookup[e].left_index, Lookup[e].right_index)
    BY LookupTrue
  <1>2. Trie(e[1].leaves, e[1].free)
    BY LookupTrue
  <1> QED BY <1>1, <1>2 DEF Trie, Neighbours

\* Whatever a state manager's trie has been through and whatever it records for a block,
\* MemStore's answers (get_nearest_keys, storage.rs) are true of the tries with the roots
\* they are filed under.
THEOREM IndexIsSound == ManagerSpec => []IndexSound
  <1>1. ManagerSpec => []ManagerInv
    BY ManagerInitInv, ManagerStep, PTL DEF ManagerSpec
  <1> QED BY <1>1, LookupSound, PTL
----------------------------------------------------------------------------
(* What a root stands for *)

\* The equations of the recursion in LeafAt, down to a level.
Descents(f, rt, path, n) ==
    f = [lvl \in 0 .. n |-> IF lvl = 0 THEN rt ELSE Child(f[lvl - 1], path[lvl - 1])]

\* There is a function that satisfies them.
LEMMA DescentsExist ==
  ASSUME NEW rt, NEW path, NEW n \in Nat
  PROVE  \E f : Descents(f, rt, path, n)
  <1> DEFINE Bad == {m \in Nat : ~\E f : Descents(f, rt, path, m)}
  <1> SUFFICES ASSUME Bad # {}
               PROVE  FALSE
    OBVIOUS
  <1>1. PICK m \in Bad : \A j \in Bad : m <= j
    <2> HIDE DEF Bad
    <2>1. Bad \subseteq Nat
      BY DEF Bad
    <2> QED
      BY <2>1, LeastNumber
  <1>2. CASE m = 0
    <2> DEFINE g == [h \in 0 .. 0 |-> rt]
    <2>1. \A h \in 0 .. 0 : g[h] = IF h = 0 THEN rt ELSE Child(g[h - 1], path[h - 1])
      OBVIOUS
    <2>2. Descents(g, rt, path, 0)
      <3>1. g = [h \in 0 .. 0 |-> g[h]]
        OBVIOUS
      <3> HIDE DEF g
      <3> QED
        BY <2>1, <3>1, Zenon DEF Descents
    <2> QED
      BY <1>1, <1>2, <2>2
  <1>3. CASE m # 0
    <2>1. m - 1 \in Nat /\ m - 1 \notin Bad /\ m \in Nat
      BY <1>1, <1>3
    <2>2. PICK f : Descents(f, rt, path, m - 1)
      BY <2>1
    <2> DEFINE g == [h \in 0 .. m |-> IF h = m THEN Child(f[m - 1], path[m - 1]) ELSE f[h]]
    <2>3. \A h \in 0 .. m : g[h] = IF h = 0 THEN rt ELSE Child(g[h - 1], path[h - 1])
      <3>1. \A h \in 0 .. m - 1 : f[h] = IF h = 0 THEN rt ELSE Child(f[h - 1], path[h - 1])
        BY <2>2, Zenon DEF Descents
      <3>2. \A h \in 0 .. m - 1 : g[h] = f[h] /\ (h # 0 => g[h - 1] = f[h - 1])
        BY <2>1
      <3>3. g[m] = Child(f[m - 1], path[m - 1]) /\ g[m - 1] = f[m - 1] /\ m # 0
        BY <1>3, <2>1
      <3> HIDE DEF g
      <3>4. ASSUME NEW h \in 0 .. m - 1
            PROVE  g[h] = IF h = 0 THEN rt ELSE Child(g[h - 1], path[h - 1])
        BY <3>1, <3>2, Zenon
      <3>5. \A h \in 0 .. m : h = m \/ h \in 0 .. m - 1
        BY <2>1
      <3>6. g[m] = IF m = 0 THEN rt ELSE Child(g[m - 1], path[m - 1])
        BY <3>3, Zenon
      <3> QED
        BY <3>4, <3>5, <3>6, Zenon
    <2>4. Descents(g, rt, path, m)
      <3>1. g = [h \in 0 .. m |-> g[h]]
        OBVIOUS
      <3> HIDE DEF g
      <3> QED
        BY <2>3, <3>1, Zenon DEF Descents
    <2> QED
      BY <1>1, <2>4
  <1> QED
    BY <1>2, <1>3

\* The leaf at an index is at the end of a path from the root.
LEMMA LeafAtDef ==
  ASSUME NEW rt, NEW i
  PROVE  \E at : /\ at[0] = rt
                 /\ \A lvl \in 1 .. Depth + 1 : at[lvl] = Child(at[lvl - 1], get_leaf_path(i)[lvl - 1])
                 /\ LeafAt(rt, i) = at[Depth + 1]
  <1> DEFINE path == get_leaf_path(i)
             s == CHOOSE f : Descents(f, rt, path, Depth + 1)
  <1>1. LeafAt(rt, i) = s[Depth + 1]
    BY DEF LeafAt, Descents
  <1> HIDE DEF path
  <1>2. Descents(s, rt, path, Depth + 1)
    <2>1. Depth + 1 \in Nat
      BY DepthAssumption
    <2> QED
      BY <2>1, DescentsExist, Zenon
  <1> HIDE DEF s
  <1>3. \A h \in 0 .. Depth + 1 : s[h] = IF h = 0 THEN rt ELSE Child(s[h - 1], path[h - 1])
    BY <1>2, Zenon DEF Descents
  <1>4. 0 \in 0 .. Depth + 1 /\ \A h \in 1 .. Depth + 1 : h \in 0 .. Depth + 1 /\ h # 0
    BY DepthAssumption
  <1>5. s[0] = rt /\ \A lvl \in 1 .. Depth + 1 : s[lvl] = Child(s[lvl - 1], path[lvl - 1])
    BY <1>3, <1>4, Zenon
  <1> QED
    BY <1>1, <1>5 DEF path

\* A root over some leaves leads to each of them.
LEMMA LeafAtRoot ==
  ASSUME NEW n, NEW v, NEW i, Fits(i)
  PROVE  LeafAt(RootOf(n, v), i) = OnPath(v, i, 0)
  <1> DEFINE rt == RootOf(n, v)
             path == get_leaf_path(i)
  <1>1. PICK at : /\ at[0] = rt
                  /\ \A lvl \in 1 .. Depth + 1 : at[lvl] = Child(at[lvl - 1], path[lvl - 1])
                  /\ LeafAt(rt, i) = at[Depth + 1]
    <2> HIDE DEF rt
    <2> QED
      BY LeafAtDef
  <1>2. i \in Nat
    BY DEF Fits
  <1>3. at[1] = OnPath(v, i, Depth)
    <2>1. 1 \in 1 .. Depth + 1 /\ 1 - 1 = 0
      BY DepthAssumption
    <2>2. at[1] = Child(rt, path[0])
      BY <1>1, <2>1
    <2> QED
      BY <2>2, RootDown
  <1> DEFINE S == {d \in 0 .. Depth : at[d + 1] = OnPath(v, i, Depth - d)}
  <1>4. 0 \in S
    <2>1. 0 \in 0 .. Depth /\ 0 + 1 = 1 /\ Depth - 0 = Depth
      BY DepthAssumption
    <2> QED
      BY <1>3, <2>1
  <1>5. ASSUME NEW d \in 1 .. Depth, d - 1 \in S
        PROVE  d \in S
    <2>1. at[d] = OnPath(v, i, Depth - (d - 1))
      <3>1. (d - 1) + 1 = d
        BY DepthAssumption
      <3> QED
        BY <1>5, <3>1
    <2> DEFINE h == Depth - (d - 1)
    <2>2. /\ h \in 1 .. Depth /\ h - 1 = Depth - d /\ Depth + 1 - h = d /\ d \in 0 .. Depth
          /\ d + 1 \in 1 .. Depth + 1 /\ (d + 1) - 1 = d
      BY DepthAssumption
    <2>3. at[d + 1] = Child(at[d], path[d])
      BY <1>1, <2>2
    <2> HIDE DEF h
    <2>4. Child(OnPath(v, i, h), get_leaf_path(i)[Depth + 1 - h]) = OnPath(v, i, h - 1)
      BY <1>2, <2>2, PathBranches
    <2>5. at[d + 1] = OnPath(v, i, Depth - d)
      BY <2>1, <2>2, <2>3, <2>4 DEF h
    <2> QED
      BY <2>2, <2>5
  <1> HIDE DEF S
  <1>6. \A d \in 0 .. Depth : d \in S
    BY <1>4, <1>5, LevelByLevel, DepthAssumption
  <1>7. Depth \in 0 .. Depth /\ Depth - Depth = 0
    BY DepthAssumption
  <1>8. at[Depth + 1] = OnPath(v, i, Depth - Depth)
    BY <1>6, <1>7 DEF S
  <1> QED
    BY <1>1, <1>7, <1>8

\* So a root stands for the leaves and the next free index it was made of.
LEMMA HeldAtRoot ==
  ASSUME NEW n, NEW v, \A i \in DOMAIN v : i \in Index
  PROVE  /\ DOMAIN HeldAt(RootOf(n, v)) = DOMAIN v
         /\ \A i \in DOMAIN v : HeldAt(RootOf(n, v))[i] = v[i]
  <1> DEFINE rt == RootOf(n, v)
  <1>1. ASSUME NEW i \in Index
        PROVE  LeafAt(rt, i) = IF i \in DOMAIN v THEN Leaf([j \in {0} |-> ValueType], v[i]) ELSE EmptyLeaf
    <2>1. Fits(i)
      BY IndexFits
    <2>2. i \in Nat
      BY <2>1 DEF Fits
    <2>3. LeafAt(rt, i) = OnPath(v, i, 0)
      BY <2>1, LeafAtRoot
    <2> QED
      BY <2>2, <2>3, PathEnds
  <1>2. \A x : Leaf([j \in {0} |-> ValueType], x).kind = "leaf" /\ Leaf([j \in {0} |-> ValueType], x).value = x
    BY DEF Leaf
  <1>3. EmptyLeaf.kind # "leaf"
    BY DEF EmptyLeaf
  <1> HIDE DEF rt
  <1>4. \A i \in Index : LeafAt(rt, i).kind = "leaf" <=> i \in DOMAIN v
    BY <1>1, <1>2, <1>3
  <1>5. \A i \in DOMAIN v : LeafAt(rt, i).value = v[i]
    BY <1>1, <1>2
  <1>6. DOMAIN HeldAt(rt) = DOMAIN v
    BY <1>4 DEF HeldAt
  <1>7. \A i \in DOMAIN v : HeldAt(rt)[i] = v[i]
    BY <1>4, <1>5 DEF HeldAt
  <1> QED
    BY <1>6, <1>7 DEF rt

\* The next free index of a root.
LEMMA FreeAtRoot ==
  ASSUME NEW n, NEW v
  PROVE  RootOf(n, v).left.value = n
  BY DEF RootOf, TopNode, Branch

----------------------------------------------------------------------------
(* The leaves under a root, without their links *)

\* One leaf for each key, below the next free index; its links may be out of date.
Leaves(v, n) ==
    /\ n \in 2 .. (Capacity + 1)
    /\ \A i \in DOMAIN v : i \in Index /\ i < n /\ v[i] \in LeafOpening
    /\ \A i, j \in DOMAIN v : v[i].hkey = v[j].hkey => i = j

\* The same leaves but for their links.
Alike(v, w) ==
    /\ DOMAIN w = DOMAIN v
    /\ \A i \in DOMAIN v : w[i].hkey = v[i].hkey /\ w[i].hval = v[i].hval

\* The leaves of the other keys are the same; k has the value x in w.
Puts(v, w, k, x) ==
    /\ \A i \in DOMAIN v : v[i].hkey # k =>
          i \in DOMAIN w /\ w[i].hkey = v[i].hkey /\ w[i].hval = v[i].hval
    /\ \A i \in DOMAIN w : w[i].hkey # k => i \in DOMAIN v /\ v[i].hkey = w[i].hkey
    /\ \A i \in DOMAIN w : w[i].hkey = k => w[i].hval = x
    /\ ~Has(w, k) => x = NoValue

\* A key has the value of its leaf.
LEMMA ValueAt ==
  ASSUME NEW v, \A i, j \in DOMAIN v : v[i].hkey = v[j].hkey => i = j, NEW i \in DOMAIN v
  PROVE  ValueOf(v, v[i].hkey) = v[i].hval
  <1> DEFINE c == CHOOSE j \in DOMAIN v : v[j].hkey = v[i].hkey
  <1>1. c \in DOMAIN v /\ v[c].hkey = v[i].hkey
    OBVIOUS
  <1>2. ValueOf(v, v[i].hkey) = v[c].hval
    BY DEF ValueOf, Has
  <1> HIDE DEF c
  <1>3. c = i
    BY <1>1
  <1> QED
    BY <1>2, <1>3

\* What a root commits to is the value of each key in the leaves it was made of.
LEMMA ContentsAt ==
  ASSUME NEW n, NEW v, Leaves(v, n)
  PROVE  /\ Contents(RootOf(n, v)) = [k \in Key |-> Contents(RootOf(n, v))[k]]
         /\ \A i \in DOMAIN v : v[i].hkey \in Key => Contents(RootOf(n, v))[v[i].hkey] = v[i].hval
         /\ \A k \in Key : ~Has(v, k) => Contents(RootOf(n, v))[k] = NoValue
  <1> DEFINE h == HeldAt(RootOf(n, v))
  <1>1. DOMAIN h = DOMAIN v /\ \A i \in DOMAIN v : h[i] = v[i]
    BY HeldAtRoot DEF Leaves
  <1>2. Contents(RootOf(n, v)) = [k \in Key |-> ValueOf(h, k)]
    BY DEF Contents
  <1> HIDE DEF h
  <1>3. \A i, j \in DOMAIN h : h[i].hkey = h[j].hkey => i = j
    BY <1>1 DEF Leaves
  <1>4. \A i \in DOMAIN h : ValueOf(h, h[i].hkey) = h[i].hval
    BY <1>3, ValueAt
  <1>5. \A k : ~Has(v, k) => ValueOf(h, k) = NoValue
    BY <1>1 DEF ValueOf, Has
  <1>6. \A k \in Key : Contents(RootOf(n, v))[k] = ValueOf(h, k)
    BY <1>2
  <1>7. Contents(RootOf(n, v)) = [k \in Key |-> Contents(RootOf(n, v))[k]]
    BY <1>2
  <1>8. ASSUME NEW i \in DOMAIN v, v[i].hkey \in Key
        PROVE  Contents(RootOf(n, v))[v[i].hkey] = v[i].hval
    BY <1>1, <1>4, <1>6, <1>8
  <1>9. \A k \in Key : ~Has(v, k) => Contents(RootOf(n, v))[k] = NoValue
    BY <1>5, <1>6
  <1> QED
    BY <1>7, <1>8, <1>9

\* A root over the changed leaves commits to the changed map.
LEMMA ContentsPut ==
  ASSUME NEW n, NEW v, Leaves(v, n), NEW m, NEW w, Leaves(w, m), NEW k \in Key, NEW x,
         Puts(v, w, k, x)
  PROVE  Contents(RootOf(m, w)) = [Contents(RootOf(n, v)) EXCEPT ![k] = x]
  <1> DEFINE a == Contents(RootOf(n, v))
             b == Contents(RootOf(m, w))
  <1>1. /\ a = [j \in Key |-> a[j]]
        /\ \A i \in DOMAIN v : v[i].hkey \in Key => a[v[i].hkey] = v[i].hval
        /\ \A j \in Key : ~Has(v, j) => a[j] = NoValue
    BY ContentsAt
  <1>2. /\ b = [j \in Key |-> b[j]]
        /\ \A i \in DOMAIN w : w[i].hkey \in Key => b[w[i].hkey] = w[i].hval
        /\ \A j \in Key : ~Has(w, j) => b[j] = NoValue
    BY ContentsAt
  <1> HIDE DEF a, b
  <1>3. b[k] = x
    <2>1. CASE Has(w, k)
      <3>1. PICK i \in DOMAIN w : w[i].hkey = k
        BY <2>1 DEF Has
      <3> QED
        BY <1>2, <3>1 DEF Puts
    <2>2. CASE ~Has(w, k)
      BY <1>2, <2>2 DEF Puts
    <2> QED
      BY <2>1, <2>2
  <1>4. ASSUME NEW j \in Key, j # k
        PROVE  b[j] = a[j]
    <2>1. CASE Has(v, j)
      <3>1. PICK i \in DOMAIN v : v[i].hkey = j
        BY <2>1 DEF Has
      <3>2. i \in DOMAIN w /\ w[i].hkey = j /\ w[i].hval = v[i].hval
        BY <1>4, <3>1 DEF Puts
      <3> QED
        BY <1>1, <1>2, <3>1, <3>2
    <2>2. CASE ~Has(v, j)
      <3>1. ~Has(w, j)
        BY <1>4, <2>2 DEF Puts, Has
      <3> QED
        BY <1>1, <1>2, <2>2, <3>1
    <2> QED
      BY <2>1, <2>2
  <1>5. b = [a EXCEPT ![k] = x]
    BY <1>1, <1>2, <1>3, <1>4
  <1> QED
    BY <1>5 DEF a, b

\* Leaves that are alike hold the same keys and values.
LEMMA PutsAlike ==
  ASSUME NEW v, NEW v1, NEW w, NEW w1, NEW k, NEW x, Alike(v, v1), Puts(v1, w, k, x), Alike(w, w1)
  PROVE  Puts(v, w1, k, x)
  BY DEF Alike, Puts, Has

\* A link that is rewritten.
LEMMA LinkWritten ==
  ASSUME NEW n, NEW v, Leaves(v, n), NEW i \in DOMAIN v, NEW j \in Index, NEW leaf,
         leaf = NewNextLeaf(v[i], j) \/ leaf = NewPrevLeaf(v[i], j)
  PROVE  Leaves(Written(v, i, leaf), n) /\ Alike(v, Written(v, i, leaf))
  <1> DEFINE w == Written(v, i, leaf)
  <1>1. v[i] \in LeafOpening
    BY DEF Leaves
  <1>2. leaf \in LeafOpening /\ leaf.hkey = v[i].hkey /\ leaf.hval = v[i].hval
    BY <1>1, LinkForms
  <1>3. DOMAIN w = DOMAIN v /\ w[i] = leaf /\ \A m \in DOMAIN v : m # i => w[m] = v[m]
    BY DEF Written
  <1> HIDE DEF w
  <1>4. Alike(v, w)
    BY <1>2, <1>3 DEF Alike
  <1>5. Leaves(w, n)
    BY <1>2, <1>3 DEF Leaves
  <1> QED
    BY <1>4, <1>5 DEF w

\* A put of a key that is not there.
LEMMA NewPut ==
  ASSUME NEW n \in Index, NEW v, Leaves(v, n), NEW k \in Key, NEW x \in Value, ~Has(v, k),
         NEW l \in DOMAIN v, NEW r \in DOMAIN v
  PROVE  LET linked == Written(v, l, NewNextLeaf(v[l], n))
             added == Written(linked, n, Opening(k, x, l, r))
             w == Written(added, r, NewPrevLeaf(added[r], n))
         IN  Leaves(w, n + 1) /\ Puts(v, w, k, x)
  <1> DEFINE linked == Written(v, l, NewNextLeaf(v[l], n))
             added == Written(linked, n, Opening(k, x, l, r))
             w == Written(added, r, NewPrevLeaf(added[r], n))
  <1>1. Leaves(linked, n) /\ Alike(v, linked)
    BY LinkWritten
  <1>2. Opening(k, x, l, r) \in LeafOpening /\ Opening(k, x, l, r).hkey = k
        /\ Opening(k, x, l, r).hval = x
    BY KeysAreNumbers DEF Opening, LeafOpening, Leaves
  <1>3. n \in Nat /\ n + 1 \in 2 .. (Capacity + 1) /\ DOMAIN v \subseteq Nat /\ n \notin DOMAIN v
    BY TrieAssumption DEF Leaves, Index
  <1>4. DOMAIN linked = DOMAIN v /\ ~Has(linked, k)
    BY <1>1 DEF Alike, Has
  <1> HIDE DEF linked
  <1>5. /\ DOMAIN added = DOMAIN linked \cup {n}
        /\ added[n] = Opening(k, x, l, r)
        /\ \A i \in DOMAIN linked : added[i] = linked[i]
    BY <1>3, <1>4 DEF Written
  <1> HIDE DEF added
  <1>6. Leaves(added, n + 1)
    <2>1. \A i \in DOMAIN added : i \in Index /\ i < n + 1 /\ added[i] \in LeafOpening
      BY <1>1, <1>2, <1>3, <1>4, <1>5 DEF Leaves
    <2>2. \A i, j \in DOMAIN added : added[i].hkey = added[j].hkey => i = j
      BY <1>1, <1>2, <1>4, <1>5 DEF Leaves, Has
    <2> QED
      BY <1>3, <2>1, <2>2 DEF Leaves
  <1>7. Puts(linked, added, k, x)
    BY <1>2, <1>4, <1>5 DEF Puts, Has
  <1>8. r \in DOMAIN added
    BY <1>4, <1>5
  <1>9. Leaves(w, n + 1) /\ Alike(added, w)
    BY <1>6, <1>8, LinkWritten
  <1> HIDE DEF w
  <1>10. Puts(v, w, k, x)
    BY <1>1, <1>7, <1>9, PutsAlike
  <1> QED
    BY <1>9, <1>10 DEF w, added, linked

\* A put of a key that is there.
LEMMA OverPut ==
  ASSUME NEW n, NEW v, Leaves(v, n), NEW x \in Value, NEW i \in DOMAIN v
  PROVE  /\ Leaves(Written(v, i, NewHval(v[i], x)), n)
         /\ Puts(v, Written(v, i, NewHval(v[i], x)), v[i].hkey, x)
  <1> DEFINE leaf == NewHval(v[i], x)
             w == Written(v, i, leaf)
  <1>1. v[i] \in LeafOpening
    BY DEF Leaves
  <1>2. leaf \in LeafOpening /\ leaf.hkey = v[i].hkey /\ leaf.hval = x
    BY <1>1, ValueForm
  <1> HIDE DEF leaf
  <1>3. DOMAIN w = DOMAIN v /\ w[i] = leaf /\ \A m \in DOMAIN v : m # i => w[m] = v[m]
    BY DEF Written
  <1> HIDE DEF w
  <1>4. Leaves(w, n)
    BY <1>2, <1>3 DEF Leaves
  <1>5. Puts(v, w, v[i].hkey, x)
    BY <1>2, <1>3 DEF Puts, Has, Leaves
  <1> QED
    BY <1>4, <1>5 DEF w, leaf

\* A removal; the neighbours may be any leaves.
LEMMA OldRemoved ==
  ASSUME NEW n, NEW v, Leaves(v, n), NEW l \in DOMAIN v, NEW i \in DOMAIN v, NEW r \in Index,
         r \in DOMAIN Emptied(Written(v, l, NewNextLeaf(v[l], r)), i)
  PROVE  LET linked == Written(v, l, NewNextLeaf(v[l], r))
             removed == Emptied(linked, i)
             w == Written(removed, r, NewPrevLeaf(removed[r], l))
         IN  Leaves(w, n) /\ Puts(v, w, v[i].hkey, NoValue)
  <1> DEFINE linked == Written(v, l, NewNextLeaf(v[l], r))
             removed == Emptied(linked, i)
             w == Written(removed, r, NewPrevLeaf(removed[r], l))
  <1>1. Leaves(linked, n) /\ Alike(v, linked)
    BY LinkWritten
  <1>2. r \in DOMAIN removed /\ l \in Index
    BY DEF Leaves
  <1>3. DOMAIN linked = DOMAIN v /\ linked[i].hkey = v[i].hkey
    BY <1>1 DEF Alike
  <1> HIDE DEF linked
  <1>4. DOMAIN removed = DOMAIN linked \ {i} /\ \A m \in DOMAIN removed : removed[m] = linked[m]
    BY DEF Emptied
  <1> HIDE DEF removed
  <1>5. Leaves(removed, n)
    BY <1>1, <1>4 DEF Leaves
  <1>6. Puts(linked, removed, v[i].hkey, NoValue)
    <2>1. \A m \in DOMAIN linked : linked[m].hkey = v[i].hkey <=> m = i
      BY <1>1, <1>3 DEF Leaves
    <2> QED
      BY <1>4, <2>1 DEF Puts
  <1>7. Leaves(w, n) /\ Alike(removed, w)
    BY <1>2, <1>5, LinkWritten
  <1> HIDE DEF w
  <1>8. Puts(v, w, v[i].hkey, NoValue)
    BY <1>1, <1>6, <1>7, PutsAlike
  <1> QED
    BY <1>7, <1>8 DEF w, removed, linked

----------------------------------------------------------------------------
(* The nodes of the records *)

\* The equations of the recursion in build_nodes, up to a height.
Climbs(f, proof, n) ==
    f = [h \in 0 .. n |-> IF h = 0 THEN ProofLeaf(proof) ELSE Joined(proof, h, f[h - 1])]

\* There is a function that satisfies them.
LEMMA ClimbsExist ==
  ASSUME NEW proof, NEW n \in Nat
  PROVE  \E f : Climbs(f, proof, n)
  <1> DEFINE Bad == {m \in Nat : ~\E f : Climbs(f, proof, m)}
  <1> SUFFICES ASSUME Bad # {}
               PROVE  FALSE
    OBVIOUS
  <1>1. PICK m \in Bad : \A j \in Bad : m <= j
    <2> HIDE DEF Bad
    <2>1. Bad \subseteq Nat
      BY DEF Bad
    <2> QED
      BY <2>1, LeastNumber
  <1>2. CASE m = 0
    <2> DEFINE g == [h \in 0 .. 0 |-> ProofLeaf(proof)]
    <2>1. \A h \in 0 .. 0 : g[h] = IF h = 0 THEN ProofLeaf(proof) ELSE Joined(proof, h, g[h - 1])
      OBVIOUS
    <2>2. Climbs(g, proof, 0)
      <3>1. g = [h \in 0 .. 0 |-> g[h]]
        OBVIOUS
      <3> HIDE DEF g
      <3> QED
        BY <2>1, <3>1, Zenon DEF Climbs
    <2> QED
      BY <1>1, <1>2, <2>2
  <1>3. CASE m # 0
    <2>1. m - 1 \in Nat /\ m - 1 \notin Bad /\ m \in Nat
      BY <1>1, <1>3
    <2>2. PICK f : Climbs(f, proof, m - 1)
      BY <2>1
    <2> DEFINE g == [h \in 0 .. m |-> IF h = m THEN Joined(proof, m, f[m - 1]) ELSE f[h]]
    <2>3. \A h \in 0 .. m : g[h] = IF h = 0 THEN ProofLeaf(proof) ELSE Joined(proof, h, g[h - 1])
      <3>1. \A h \in 0 .. m - 1 : f[h] = IF h = 0 THEN ProofLeaf(proof) ELSE Joined(proof, h, f[h - 1])
        BY <2>2, Zenon DEF Climbs
      <3>2. \A h \in 0 .. m - 1 : g[h] = f[h] /\ (h # 0 => g[h - 1] = f[h - 1])
        BY <2>1
      <3>3. g[m] = Joined(proof, m, f[m - 1]) /\ g[m - 1] = f[m - 1] /\ m # 0
        BY <1>3, <2>1
      <3> HIDE DEF g
      <3>4. ASSUME NEW h \in 0 .. m - 1
            PROVE  g[h] = IF h = 0 THEN ProofLeaf(proof) ELSE Joined(proof, h, g[h - 1])
        BY <3>1, <3>2, Zenon
      <3>5. \A h \in 0 .. m : h = m \/ h \in 0 .. m - 1
        BY <2>1
      <3>6. g[m] = IF m = 0 THEN ProofLeaf(proof) ELSE Joined(proof, m, g[m - 1])
        BY <3>3, Zenon
      <3> QED
        BY <3>4, <3>5, <3>6, Zenon
    <2>4. Climbs(g, proof, m)
      <3>1. g = [h \in 0 .. m |-> g[h]]
        OBVIOUS
      <3> HIDE DEF g
      <3> QED
        BY <2>3, <3>1, Zenon DEF Climbs
    <2> QED
      BY <1>1, <2>4
  <1> QED
    BY <1>2, <1>3

\* The nodes of a proof, one above the other.
LEMMA BuildDef ==
  ASSUME NEW proof
  PROVE  \E up : /\ up[0] = ProofLeaf(proof)
                 /\ \A h \in 1 .. Depth : up[h] = Joined(proof, h, up[h - 1])
                 /\ build_nodes(proof) = {up[h] : h \in 0 .. Depth}
  <1> DEFINE s == CHOOSE f : Climbs(f, proof, Depth)
  <1>1. build_nodes(proof) = {s[h] : h \in 0 .. Depth}
    BY DEF build_nodes, Climbs
  <1>2. Climbs(s, proof, Depth)
    <2>1. Depth \in Nat
      BY DepthAssumption
    <2> QED
      BY <2>1, ClimbsExist, Zenon
  <1> HIDE DEF s
  <1>3. \A h \in 0 .. Depth : s[h] = IF h = 0 THEN ProofLeaf(proof) ELSE Joined(proof, h, s[h - 1])
    BY <1>2, Zenon DEF Climbs
  <1>4. 0 \in 0 .. Depth /\ \A h \in 1 .. Depth : h \in 0 .. Depth /\ h # 0
    BY DepthAssumption
  <1>5. s[0] = ProofLeaf(proof) /\ \A h \in 1 .. Depth : s[h] = Joined(proof, h, s[h - 1])
    BY <1>3, <1>4, Zenon
  <1> QED
    BY <1>1, <1>5

\* The nodes of a proof are those on the path to its leaf.
LEMMA BuiltPath ==
  ASSUME NEW leaves, \A j \in DOMAIN leaves : leaves[j] \in LeafOpening, NEW i \in Index
  PROVE  build_nodes(Proof(leaves, i)) = PathNodes(leaves, i, 0, Depth)
  <1> DEFINE proof == Proof(leaves, i)
  <1>1. /\ proof.leaf_index = i /\ proof.under = leaves
        /\ proof.leaf = IF i \in DOMAIN leaves THEN leaves[i] ELSE NoLeaf
    BY DEF Proof
  <1> HIDE DEF proof
  <1>2. PICK up : /\ up[0] = ProofLeaf(proof)
                  /\ \A h \in 1 .. Depth : up[h] = Joined(proof, h, up[h - 1])
                  /\ build_nodes(proof) = {up[h] : h \in 0 .. Depth}
    BY BuildDef
  <1>3. i \in Nat
    BY TrieAssumption DEF Index
  <1>4. NoLeaf \notin LeafOpening
    BY TrieAssumption DEF LeafOpening, Index
  <1> DEFINE S == {h \in 0 .. Depth : up[h] = OnPath(leaves, i, h)}
  <1>5. 0 \in S
    <2>1. ProofLeaf(proof) = IF i \in DOMAIN leaves THEN Leaf([j \in {0} |-> ValueType], leaves[i])
                             ELSE EmptyLeaf
      BY <1>1, <1>4 DEF ProofLeaf
    <2> QED
      BY <1>2, <1>3, <2>1, PathEnds, DepthAssumption
  <1>6. ASSUME NEW h \in 1 .. Depth, h - 1 \in S
        PROVE  h \in S
    <2> DEFINE m == Halves(i)[h]
               c == Halves(i)[h - 1]
    <2>1. m \in Nat /\ c \in Nat /\ IF c % 2 = 0 THEN c = 2 * m ELSE c = 2 * m + 1
      BY <1>3, Halved
    <2>2. up[h - 1] = Over(leaves)[h - 1][c]
      BY <1>6 DEF OnPath
    <2>3. Beside(leaves, h - 1, i) = Over(leaves)[h - 1][IF c % 2 = 0 THEN c + 1 ELSE c - 1]
      BY DEF Beside, Sibling
    <2>4. OnPath(leaves, i, h) = Branch(Over(leaves)[h - 1][2 * m], Over(leaves)[h - 1][2 * m + 1])
      BY <1>3, PathBranch
    <2>5. get_leaf_path(i)[Depth + 1 - h] = c % 2
      BY <1>3, PathBits
    <2> HIDE DEF m, c
    <2>6. up[h] = IF c % 2 = 0 THEN Branch(up[h - 1], Beside(leaves, h - 1, i))
                  ELSE Branch(Beside(leaves, h - 1, i), up[h - 1])
      BY <1>1, <1>2, <2>5 DEF Joined
    <2>7. up[h] = OnPath(leaves, i, h)
      <3>1. CASE c % 2 = 0
        <4>1. c = 2 * m
          BY <2>1, <3>1
        <4> QED
          BY <2>2, <2>3, <2>4, <2>6, <3>1, <4>1
      <3>2. CASE c % 2 # 0
        <4>1. c = 2 * m + 1 /\ c - 1 = 2 * m
          BY <2>1, <3>2
        <4> QED
          BY <2>2, <2>3, <2>4, <2>6, <3>2, <4>1
      <3> QED
        BY <3>1, <3>2
    <2> QED
      BY <2>7
  <1> HIDE DEF S
  <1>7. \A h \in 0 .. Depth : h \in S
    BY <1>5, <1>6, LevelByLevel, DepthAssumption
  <1>8. {up[h] : h \in 0 .. Depth} = {OnPath(leaves, i, h) : h \in 0 .. Depth}
    BY <1>7 DEF S
  <1> QED
    BY <1>2, <1>8 DEF PathNodes, proof

----------------------------------------------------------------------------
(* The records as they were made *)

\* Reads change nothing.
IsRead(t) == t.type \in {"Read", "ReadZero"}

\* The proofs of a record are about its trie, with what the record says written one after
\* the other.
FormedInsertion(t, n) ==
    \E l, r \in DOMAIN t.sub, x \in Value :
       /\ n \in Index
       /\ ~Has(t.sub, t.key)
       /\ t.left = Proof(t.sub, l)
       /\ t.own = Proof(LinkNext(t.sub, l, n), n)
       /\ t.right = Proof(With(LinkNext(t.sub, l, n), n, Opening(t.key, x, l, r)), r)

FormedUpdate(t) == \E i \in DOMAIN t.sub : t.sub[i].hkey = t.key /\ t.own = Proof(t.sub, i)

FormedDeletion(t) ==
    \E i \in DOMAIN t.sub :
       LET l == t.sub[i].prev_leaf
           r == t.sub[i].next_leaf
       IN  /\ t.sub[i].hkey = t.key
           /\ t.left = Proof(t.sub, l)
           /\ t.own = Proof(LinkNext(t.sub, l, r), i)
           /\ t.right = Proof(Without(LinkNext(t.sub, l, r), i), r)

Formed(t) ==
    /\ t.key \in Key
    /\ t.type = "Insertion" => FormedInsertion(t, old_next_free(t))
    /\ t.type = "Update" => FormedUpdate(t)
    /\ t.type = "Deletion" => FormedDeletion(t)

\* A record of the trie before the block.
AtStart(t) == t.sub = Start.leaves /\ old_next_free(t) = Start.free

\* Until the first change the records are about the trie before the block.
RecordsInv ==
    /\ \A i \in DOMAIN traces : Formed(traces[i])
    /\ \A i \in DOMAIN traces :
          (\A j \in 1 .. (i - 1) : IsRead(traces[j])) => AtStart(traces[i])
    /\ traces # <<>> /\ (\A i \in DOMAIN traces : IsRead(traces[i]))
          => held = Start.leaves /\ free = Start.free

\* One more record.
LEMMA LogRecords ==
  ASSUME TracesSound, RecordsInv, NEW t, Log(t), Formed(t), t.sub = held, old_next_free(t) = free,
         IsRead(t) => held' = held /\ free' = free
  PROVE  RecordsInv'
  <1>1. PICK S : traces \in Seq(S)
    BY DEF TracesSound
  <1>2. PICK N \in Nat : N = Len(traces)
    BY <1>1
  <1> DEFINE T == S \cup {t}
  <1>3. traces \in Seq(T)
    BY <1>1
  <1>4. DOMAIN traces = 1 .. N /\ traces' = Append(traces, t)
    BY <1>1, <1>2 DEF Log
  <1>5. /\ traces' \in Seq(T)
        /\ DOMAIN traces' = 1 .. (N + 1)
        /\ \A i \in 1 .. N : traces'[i] = traces[i]
        /\ traces'[N + 1] = t
    BY <1>2, <1>3, <1>4
  <1> HIDE DEF T
  <1>6. Start' = old_top(traces'[1])
    BY DEF Start
  <1>7. Start = old_top(traces[1])
    BY DEF Start
  <1>8. N # 0 => Start' = Start /\ traces # <<>>
    BY <1>1, <1>2, <1>4, <1>5, <1>6, <1>7
  <1>9. N = 0 => AtStart(t)'
    <2> SUFFICES ASSUME N = 0 PROVE t.sub = Start'.leaves /\ old_next_free(t) = Start'.free
      BY DEF AtStart
    <2>1. Start' = old_top(t)
      BY <1>5, <1>6
    <2> QED
      BY <2>1 DEF old_top
  <1>10. N # 0 /\ (\A i \in 1 .. N : IsRead(traces[i])) => AtStart(t)'
    <2> SUFFICES ASSUME N # 0, \A i \in 1 .. N : IsRead(traces[i])
                 PROVE  t.sub = Start'.leaves /\ old_next_free(t) = Start'.free
      BY DEF AtStart
    <2>1. held = Start.leaves /\ free = Start.free
      BY <1>4, <1>8 DEF RecordsInv
    <2> QED
      BY <1>8, <2>1
  <1>11. ASSUME NEW i \in DOMAIN traces'
         PROVE  Formed(traces'[i])
    BY <1>4, <1>5 DEF RecordsInv
  <1>12. ASSUME NEW i \in DOMAIN traces', \A j \in 1 .. (i - 1) : IsRead(traces'[j])
         PROVE  AtStart(traces[i])'
    <2>1. CASE i = N + 1
      <3>1. \A j \in 1 .. N : IsRead(traces[j])
        BY <1>5, <1>12, <2>1
      <3>2. AtStart(t)'
        BY <1>9, <1>10, <3>1
      <3> QED
        BY <1>5, <2>1, <3>2 DEF AtStart
    <2>2. CASE i # N + 1
      <3>1. i \in 1 .. N /\ N # 0 /\ \A j \in 1 .. (i - 1) : j \in 1 .. N
        BY <1>5, <2>2
      <3>2. \A j \in 1 .. (i - 1) : IsRead(traces[j])
        BY <1>5, <1>12, <3>1
      <3>3. AtStart(traces[i])
        BY <1>4, <3>1, <3>2 DEF RecordsInv
      <3> QED
        BY <1>5, <1>8, <3>1, <3>3 DEF AtStart
    <2> QED
      BY <2>1, <2>2
  <1>13. ASSUME \A i \in DOMAIN traces' : IsRead(traces'[i])
         PROVE  held' = Start'.leaves /\ free' = Start'.free
    <2>1. IsRead(t) /\ \A j \in 1 .. N : IsRead(traces[j])
      BY <1>5, <1>13
    <2>2. AtStart(t)'
      BY <1>9, <1>10, <2>1
    <2>3. t.sub = Start'.leaves /\ old_next_free(t) = Start'.free
      BY <2>2 DEF AtStart
    <2> QED
      BY <2>1, <2>3
  <1>14. \A i \in DOMAIN traces' :
            (\A j \in 1 .. (i - 1) : IsRead(traces'[j])) => AtStart(traces[i])'
    BY <1>12
  <1> QED
    BY <1>11, <1>13, <1>14 DEF RecordsInv

\* A change before the block.
LEMMA BeforeRecords == Before => RecordsInv'
  <1> SUFFICES ASSUME Before PROVE RecordsInv'
    OBVIOUS
  <1>1. traces' = <<>>
    BY DEF Before
  <1>2. DOMAIN traces' = {}
    BY <1>1
  <1> QED
    BY <1>1, <1>2 DEF RecordsInv

\* The manager keeps its records like that.
LEMMA RecordsStep ==
  ASSUME ManagerInv, RecordsInv, ManagerNext
  PROVE  RecordsInv'
  <1>0. /\ free \in 2 .. (Capacity + 1) /\ free \in Nat
        /\ Trie(held, free) /\ TracesSound
    BY TrieAssumption DEF ManagerInv
  <1>1. ASSUME NEW k \in Key, RecordRead(k) PROVE RecordsInv'
    <2>1. PICK i \in DOMAIN held :
             Log(Trace("Read", k, held[i].hval, free, None, Proof(held, i), None))
      BY <1>1 DEF RecordRead
    <2> DEFINE t == Trace("Read", k, held[i].hval, free, None, Proof(held, i), None)
    <2>2. t.type = "Read" /\ t.key = k /\ t.sub = held /\ old_next_free(t) = free
      BY DEF Trace, old_next_free
    <2>3. Log(t)
      BY <2>1
    <2> HIDE DEF t
    <2>4. Formed(t)
      BY <2>2 DEF Formed
    <2> QED
      BY <1>0, <1>1, <2>2, <2>3, <2>4, LogRecords DEF RecordRead
  <1>2. ASSUME NEW k \in Key, RecordReadZero(k) PROVE RecordsInv'
    <2>1. PICK l \in DOMAIN held, r \in DOMAIN held :
             Log(Trace("ReadZero", k, NoValue, free, Proof(held, l), None, Proof(held, r)))
      BY <1>2 DEF RecordReadZero
    <2> DEFINE t == Trace("ReadZero", k, NoValue, free, Proof(held, l), None, Proof(held, r))
    <2>2. t.type = "ReadZero" /\ t.key = k /\ t.sub = held /\ old_next_free(t) = free
      BY DEF Trace, old_next_free
    <2>3. Log(t)
      BY <2>1
    <2> HIDE DEF t
    <2>4. Formed(t)
      BY <2>2 DEF Formed
    <2> QED
      BY <1>0, <1>2, <2>2, <2>3, <2>4, LogRecords DEF RecordReadZero
  <1>3. ASSUME NEW k \in Key, NEW v \in Value, RecordInsertion(k, v) PROVE RecordsInv'
    <2> DEFINE Linked(l)    == LinkNext(held, l, free)
               Added(l, r)  == With(Linked(l), free, Opening(k, v, l, r))
               Entry(l, r)  == Trace("Insertion", k, NoValue, free + 1, Proof(held, l),
                                     Proof(Linked(l), free), Proof(Added(l, r), r))
    <2>1. PICK l \in DOMAIN held, r \in DOMAIN held : Before \/ Log(Entry(l, r))
      BY <1>3 DEF RecordInsertion, Opening
    <2> DEFINE t == Entry(l, r)
    <2>2. /\ t.type = "Insertion" /\ t.key = k /\ t.sub = held /\ old_next_free(t) = free
          /\ t.left = Proof(held, l) /\ t.own = Proof(Linked(l), free)
          /\ t.right = Proof(Added(l, r), r)
      BY <1>0 DEF Trace, old_next_free
    <2>3. Before \/ Log(t)
      BY <2>1
    <2> HIDE DEF t
    <2>4. free \in Index /\ ~Has(held, k)
      BY <1>0, <1>3, TrieAssumption DEF RecordInsertion, Index
    <2>5. FormedInsertion(t, free)
      BY <2>2, <2>4 DEF FormedInsertion
    <2>6. Formed(t)
      BY <2>2, <2>5 DEF Formed
    <2>7. ~IsRead(t)
      BY <2>2 DEF IsRead
    <2> QED
      BY <1>0, <2>2, <2>3, <2>6, <2>7, LogRecords, BeforeRecords
  <1>4. ASSUME NEW k \in Key, NEW v \in Value, RecordUpdate(k, v) PROVE RecordsInv'
    <2> DEFINE Entry(i) == Trace("Update", k, held[i].hval, free, None, Proof(held, i), None)
    <2>1. PICK i \in DOMAIN held : held[i].hkey = k /\ (Before \/ Log(Entry(i)))
      BY <1>4 DEF RecordUpdate
    <2> DEFINE t == Entry(i)
    <2>2. /\ t.type = "Update" /\ t.key = k /\ t.sub = held /\ old_next_free(t) = free
          /\ t.own = Proof(held, i)
      BY DEF Trace, old_next_free
    <2>3. Before \/ Log(t)
      BY <2>1
    <2> HIDE DEF t
    <2>4. Formed(t)
      BY <2>1, <2>2 DEF Formed, FormedUpdate
    <2>5. ~IsRead(t)
      BY <2>2 DEF IsRead
    <2> QED
      BY <1>0, <2>2, <2>3, <2>4, <2>5, LogRecords, BeforeRecords
  <1>5. ASSUME NEW k \in Key, RecordDeletion(k) PROVE RecordsInv'
    <2> DEFINE L(i)       == held[i].prev_leaf
               R(i)       == held[i].next_leaf
               Linked(i)  == LinkNext(held, L(i), R(i))
               Removed(i) == Without(Linked(i), i)
               Entry(i)   == Trace("Deletion", k, held[i].hval, free, Proof(held, L(i)),
                                   Proof(Linked(i), i), Proof(Removed(i), R(i)))
    <2>1. PICK i \in DOMAIN held : held[i].hkey = k /\ (Before \/ Log(Entry(i)))
      BY <1>5 DEF RecordDeletion
    <2> DEFINE t == Entry(i)
    <2>2. /\ t.type = "Deletion" /\ t.key = k /\ t.sub = held /\ old_next_free(t) = free
          /\ t.left = Proof(held, L(i)) /\ t.own = Proof(Linked(i), i)
          /\ t.right = Proof(Removed(i), R(i))
      BY DEF Trace, old_next_free
    <2>3. Before \/ Log(t)
      BY <2>1
    <2> HIDE DEF t
    <2>4. FormedDeletion(t)
      BY <2>1, <2>2 DEF FormedDeletion
    <2>5. Formed(t)
      BY <2>2, <2>4 DEF Formed
    <2>6. ~IsRead(t)
      BY <2>2 DEF IsRead
    <2> QED
      BY <1>0, <2>2, <2>3, <2>5, <2>6, LogRecords, BeforeRecords
  <1> QED
    BY <1>1, <1>2, <1>3, <1>4, <1>5 DEF ManagerNext

\* The nearest leaves are the nearest.
LEMMA NearestSame ==
  ASSUME NEW v, NEW n, Trie(v, n), NEW k, NEW l, NEW r, NEW l1, NEW r1,
         Neighbours(v, k, l, r), Neighbours(v, k, l1, r1), k \in Nat
  PROVE  l = l1 /\ r = r1
  <1>1. \A i \in DOMAIN v : v[i].hkey \in Nat
    BY LeafKey DEF Trie
  <1>2. l \in DOMAIN v /\ l1 \in DOMAIN v /\ r \in DOMAIN v /\ r1 \in DOMAIN v
    BY DEF Neighbours
  <1>3. v[l].hkey = v[l1].hkey
    BY <1>1, <1>2 DEF Neighbours, Between
  <1>4. v[r].hkey = v[r1].hkey
    BY <1>1, <1>2 DEF Neighbours, Between
  <1> QED
    BY <1>2, <1>3, <1>4 DEF Trie

----------------------------------------------------------------------------
(* The replay *)

\* The nodes that the store is filled with.
Filled == EmptyNodes \cup trace_nodes \cup UNION {proof_nodes(k) : k \in Included}

\* What the trie stands on: the store as it was filled, with more nodes, and a root over
\* some leaves.
Standing ==
    /\ traces # <<>>
    /\ store = [nodes |-> store.nodes, index |-> Lookup]
    /\ Filled \subseteq store.nodes
    /\ \E n, v : root = RootOf(n, v) /\ Leaves(v, n)

\* The inductive invariant.
ReplayInv ==
    /\ ManagerInv
    /\ RecordsInv
    /\ changes \in 0 .. MaxBefore
    /\ Len(traces) \in 0 .. MaxTraces
    /\ phase \in {"block", "replay", "ended"}
    /\ answer \in Value \cup {NoValue}
    /\ phase = "replay" => Standing

\* What get_nearest_keys finds under the root is true of the leaves that the root was made
\* of, whichever leaves it was filed for: two roots are only the same over the same leaves.
LEMMA RangeTrue ==
  ASSUME ManagerInv, traces # <<>>, store.index = Lookup,
         NEW n, NEW v, Leaves(v, n), root = RootOf(n, v), NEW k, get_nearest_keys(k) # Failed
  PROVE  LET range == get_nearest_keys(k)
         IN  /\ Answers(v, k, range)
             /\ range.left_index \in Index /\ range.right_index \in Index
             /\ range.center = NoLeaf => range.left_index \in DOMAIN v /\ range.right_index \in DOMAIN v
  <1> DEFINE entries == {e \in DOMAIN Lookup : top_node(e[1]) = root /\ e[2] = k}
             e == CHOOSE d \in entries : TRUE
             range == get_nearest_keys(k)
  <1>1. entries # {} /\ range = Lookup[e]
    BY DEF get_nearest_keys, Found
  <1>2. e \in DOMAIN Lookup /\ top_node(e[1]) = root /\ e[2] = k
    BY <1>1
  <1> HIDE DEF e, range
  <1> DEFINE leaves == e[1].leaves
  <1>3. /\ Trie(leaves, e[1].free)
        /\ Answers(leaves, k, range)
        /\ IF e \in DOMAIN level_map THEN Neighbours(leaves, k, range.left_index, range.right_index)
           ELSE range.center # NoLeaf /\ range.left_index = 0 /\ range.right_index = 0
    BY <1>1, <1>2, LookupTrue
  <1>4. root = RootOf(e[1].free, leaves)
    BY <1>2 DEF top_node, SubRoot, RootOf
  <1> HIDE DEF leaves
  <1>5. DOMAIN HeldAt(root) = DOMAIN leaves /\ \A i \in DOMAIN leaves : HeldAt(root)[i] = leaves[i]
    BY <1>3, <1>4, HeldAtRoot DEF Trie
  <1>6. DOMAIN HeldAt(root) = DOMAIN v /\ \A i \in DOMAIN v : HeldAt(root)[i] = v[i]
    BY HeldAtRoot DEF Leaves
  <1>7. DOMAIN leaves = DOMAIN v /\ \A i \in DOMAIN v : leaves[i] = v[i]
    BY <1>5, <1>6
  <1>8. Answers(v, k, range)
    BY <1>3, <1>7 DEF Answers, Has
  <1>9. DOMAIN v \subseteq Index /\ 0 \in Index
    BY TrieAssumption DEF Leaves, Index
  <1>10. /\ range.left_index \in Index /\ range.right_index \in Index
         /\ range.center = NoLeaf => range.left_index \in DOMAIN v /\ range.right_index \in DOMAIN v
    BY <1>3, <1>7, <1>9 DEF Neighbours
  <1> QED
    BY <1>8, <1>10 DEF range

\* The tree of the store has the root.
LEMMA DbMade ==
  ASSUME NEW n, NEW v, root = RootOf(n, v)
  PROVE  Made(db, store.nodes, n, v)
  <1>1. db = Tree(RootOf(n, v), store.nodes)
    BY DEF db
  <1> QED
    BY <1>1, TreeForm DEF Made

\* A put that does not fail leads to a root over the leaves with that one changed.
LEMMA PutMade ==
  ASSUME ManagerInv, Standing, NEW n, NEW v, Leaves(v, n), root = RootOf(n, v),
         NEW k \in Key, NEW x \in Value, ~Full(k), PutResult(k, x) # Failed
  PROVE  /\ \E m, w : PutResult(k, x).root = RootOf(m, w) /\ Leaves(w, m) /\ Puts(v, w, k, x)
         /\ store.nodes \subseteq PutResult(k, x).nodes
  <1> DEFINE range == get_nearest_keys(k)
             t == PutResult(k, x)
  <1>1. range # Failed /\ t = trie_put(db, k, x, range)
    BY DEF PutResult
  <1>2. Made(db, store.nodes, n, v)
    BY DbMade
  <1>3. next_free_node(db) = n
    BY <1>2, FreeMade
  <1>4. /\ Answers(v, k, range)
        /\ range.left_index \in Index /\ range.right_index \in Index
        /\ range.center = NoLeaf => range.left_index \in DOMAIN v /\ range.right_index \in DOMAIN v
    BY <1>1, RangeTrue DEF Standing
  <1>5. range.center = NoLeaf => n <= Capacity
    BY <1>1, <1>3, TrieAssumption DEF Full, Leaves
  <1> HIDE DEF range, t
  <1>6. CASE range.center = NoLeaf
    <2> DEFINE l == range.left_index
               r == range.right_index
               linked == Written(v, l, NewNextLeaf(v[l], n))
               added == Written(linked, n, Opening(k, x, l, r))
               w == Written(added, r, NewPrevLeaf(added[r], n))
    <2>1. n \in Index
      BY <1>5, <1>6, TrieAssumption DEF Leaves, Index
    <2>2. ~Has(v, k)
      BY <1>4, <1>6 DEF Answers
    <2>3. Made(t, store.nodes, n + 1, w)
      <3>1. trie_put(db, k, x, range) # Failed
        BY <1>1 DEF t
      <3> HIDE DEF w
      <3> QED
        BY <1>1, <1>2, <1>4, <1>6, <2>1, <3>1, PutNewMade DEF w
    <2>4. l \in DOMAIN v /\ r \in DOMAIN v
      BY <1>4, <1>6
    <2> HIDE DEF l, r
    <2>5. Leaves(w, n + 1) /\ Puts(v, w, k, x)
      BY <2>1, <2>2, <2>4, NewPut
    <2> HIDE DEF w
    <2>6. t.root = RootOf(n + 1, w)
      BY <2>3, FreeMade
    <2>7. store.nodes \subseteq t.nodes
      BY <2>3 DEF Made
    <2> QED
      BY <2>5, <2>6, <2>7 DEF t
  <1>7. CASE range.center # NoLeaf
    <2> DEFINE i == range.center.leaf_index
               w == Written(v, i, NewHval(v[i], x))
    <2>1. i \in DOMAIN v /\ v[i].hkey = k /\ i \in Index
      BY <1>4, <1>7 DEF Answers, Leaves
    <2>2. Made(t, store.nodes, n, w)
      <3>1. trie_put(db, k, x, range) # Failed
        BY <1>1 DEF t
      <3> QED
        BY <1>1, <1>2, <1>7, <2>1, <3>1, PutOverMade
    <2>3. Leaves(w, n) /\ Puts(v, w, k, x)
      <3> HIDE DEF i
      <3> QED
        BY <2>1, OverPut
    <2> HIDE DEF w
    <2>4. t.root = RootOf(n, w)
      BY <2>2, FreeMade
    <2>5. store.nodes \subseteq t.nodes
      BY <2>2 DEF Made
    <2> QED
      BY <2>3, <2>4, <2>5 DEF t
  <1> QED
    BY <1>6, <1>7

\* So does a removal.
LEMMA RemovalMade ==
  ASSUME ManagerInv, Standing, NEW n, NEW v, Leaves(v, n), root = RootOf(n, v),
         NEW k \in Key, RemoveResult(k) # Failed
  PROVE  /\ \E m, w : RemoveResult(k).root = RootOf(m, w) /\ Leaves(w, m) /\ Puts(v, w, k, NoValue)
         /\ store.nodes \subseteq RemoveResult(k).nodes
  <1> DEFINE range == get_nearest_keys(k)
             t == RemoveResult(k)
  <1>1. range # Failed /\ t = trie_remove(db, range)
    BY DEF RemoveResult
  <1>2. Made(db, store.nodes, n, v)
    BY DbMade
  <1>3. /\ Answers(v, k, range)
        /\ range.left_index \in Index /\ range.right_index \in Index
    BY <1>1, RangeTrue DEF Standing
  <1> HIDE DEF range, t
  <1>4. CASE range.center = NoLeaf
    <2>1. ~Has(v, k)
      BY <1>3, <1>4 DEF Answers
    <2>2. t = db
      BY <1>1, <1>4 DEF trie_remove
    <2>3. t.root = RootOf(n, v) /\ store.nodes \subseteq t.nodes
      BY <1>2, <2>2, FreeMade DEF Made
    <2>4. Puts(v, v, k, NoValue)
      BY <2>1 DEF Puts, Has
    <2> QED
      BY <2>3, <2>4 DEF t
  <1>5. CASE range.center # NoLeaf
    <2> DEFINE l == range.left_index
               i == range.center.leaf_index
               r == range.right_index
               linked == Written(v, l, NewNextLeaf(v[l], r))
               removed == Emptied(linked, i)
               w == Written(removed, r, NewPrevLeaf(removed[r], l))
    <2>1. i \in DOMAIN v /\ v[i].hkey = k /\ i \in Index
      BY <1>3, <1>5 DEF Answers, Leaves
    <2>2. trie_remove(db, range) # Failed
      BY <1>1 DEF t
    <2>3. l \in DOMAIN v /\ r \in DOMAIN removed /\ Made(t, store.nodes, n, w)
      BY <1>1, <1>2, <1>3, <1>5, <2>1, <2>2, RemoveOldMade
    <2>4. r \in Index
      BY <1>3
    <2> HIDE DEF l, i, r
    <2>5. Leaves(w, n) /\ Puts(v, w, k, NoValue)
      BY <2>1, <2>3, <2>4, OldRemoved
    <2> HIDE DEF w
    <2>6. t.root = RootOf(n, w)
      BY <2>3, FreeMade
    <2>7. store.nodes \subseteq t.nodes
      BY <2>3 DEF Made
    <2> QED
      BY <2>5, <2>6, <2>7 DEF t
  <1> QED
    BY <1>4, <1>5

\* Before the block.
LEMMA ReplayInitInv == Init => ReplayInv
  <1> SUFFICES ASSUME Init PROVE ReplayInv
    OBVIOUS
  <1>1. ManagerInv
    BY ManagerInitInv DEF Init
  <1>2. changes \in 0 .. MaxBefore /\ Len(traces) \in 0 .. MaxTraces
    BY TracesAssumption DEF Init, ManagerInit
  <1>3. phase = "block" /\ answer = NoValue
    BY DEF Init
  <1>4. traces = <<>> /\ DOMAIN traces = {}
    BY DEF Init, ManagerInit
  <1>5. RecordsInv
    BY <1>4 DEF RecordsInv
  <1> QED
    BY <1>1, <1>2, <1>3, <1>5 DEF ReplayInv

\* A record is one more, up to the bound.
LEMMA LengthKept ==
  ASSUME TracesSound, Len(traces) \in 0 .. MaxTraces, changes \in 0 .. MaxBefore, ManagerNext
  PROVE  Len(traces') \in 0 .. MaxTraces /\ changes' \in 0 .. MaxBefore
  <1>1. PICK S : traces \in Seq(S)
    BY DEF TracesSound
  <1>2. ASSUME NEW t, Log(t)
        PROVE  Len(traces') \in 0 .. MaxTraces /\ changes' \in 0 .. MaxBefore
    <2> DEFINE T == S \cup {t}
    <2>1. traces \in Seq(T) /\ t \in T
      BY <1>1
    <2> HIDE DEF T
    <2>2. Len(Append(traces, t)) = Len(traces) + 1
      BY <2>1
    <2>3. Len(traces) < MaxTraces /\ traces' = Append(traces, t) /\ changes' = changes
      BY <1>2 DEF Log
    <2> QED
      BY <2>2, <2>3, TracesAssumption
  <1>3. ASSUME Before
        PROVE  Len(traces') \in 0 .. MaxTraces /\ changes' \in 0 .. MaxBefore
    BY <1>3, TracesAssumption DEF Before
  <1>4. Before \/ \E t : Log(t)
    BY DEF ManagerNext, RecordRead, RecordReadZero, RecordInsertion, RecordUpdate, RecordDeletion
  <1> QED
    BY <1>2, <1>3, <1>4

\* Nothing is recorded once the store is filled.
LEMMA ManagerStill ==
  ASSUME UNCHANGED managerVars
  PROVE  /\ ManagerInv => ManagerInv'
         /\ changes' = changes /\ traces' = traces
         /\ Lookup' = Lookup
         /\ RecordsInv => RecordsInv'
         /\ Filled' = Filled
  <1>1. ManagerInv => ManagerInv'
    BY ManagerStep
  <1>2. changes' = changes /\ traces' = traces
    BY DEF managerVars
  <1>3. Lookup' = Lookup
    BY <1>2 DEF Lookup, level_map, proof_entries, EntryOf, Included, Start, StartIndex
  <1>4. Start' = Start /\ held' = held /\ free' = free
    BY <1>2 DEF Start, managerVars
  <1>5. RecordsInv => RecordsInv'
    BY <1>2, <1>4 DEF RecordsInv, AtStart
  <1>6. Filled' = Filled
    <2>1. trace_nodes' = trace_nodes
      BY <1>2 DEF trace_nodes
    <2>2. Included' = Included
      BY <1>2, <1>4 DEF Included
    <2>3. \A k : proof_nodes(k)' = proof_nodes(k)
      BY <1>4 DEF proof_nodes, StartIndex, StartRoot
    <2> QED
      BY <2>1, <2>2, <2>3 DEF Filled
  <1> QED
    BY <1>1, <1>2, <1>3, <1>5, <1>6

\* The first root is that of the trie before the block.
LEMMA StartLeaves ==
  ASSUME ManagerInv, traces # <<>>
  PROVE  StartRoot = RootOf(Start.free, Start.leaves) /\ Leaves(Start.leaves, Start.free)
  <1>1. PICK S : traces \in Seq(S)
    BY DEF ManagerInv, TracesSound
  <1>2. 1 \in DOMAIN traces
    BY <1>1
  <1>3. Sound(traces[1])
    BY <1>2 DEF ManagerInv, TracesSound
  <1>4. Start.free = old_next_free(traces[1]) /\ Start.leaves = traces[1].sub
    BY DEF Start, old_top
  <1>5. Leaves(Start.leaves, Start.free)
    BY <1>3, <1>4 DEF Sound, Trie, Leaves
  <1> QED
    BY <1>5 DEF StartRoot, top_node, SubRoot, RootOf

\* A change of the tree that does not fail leads to a root over some leaves.
LEMMA BecomesKeeps ==
  ASSUME ReplayInv, NEW t, Becomes(t),
         t # Failed => /\ \E m, w : t.root = RootOf(m, w) /\ Leaves(w, m)
                       /\ store.nodes \subseteq t.nodes
  PROVE  ReplayInv'
  <1>1. UNCHANGED managerVars /\ answer' = answer /\ phase = "replay"
    BY DEF Becomes
  <1>2. /\ ManagerInv' /\ RecordsInv' /\ changes' = changes /\ traces' = traces
        /\ Lookup' = Lookup /\ Filled' = Filled
    BY <1>1, ManagerStill DEF ReplayInv
  <1>3. CASE t = Failed
    BY <1>1, <1>2, <1>3 DEF Becomes, ReplayInv
  <1>4. CASE t # Failed
    <2>1. store' = [store EXCEPT !.nodes = t.nodes] /\ root' = t.root /\ phase' = phase
      BY <1>4 DEF Becomes
    <2>2. /\ store = [nodes |-> store.nodes, index |-> Lookup]
          /\ traces # <<>> /\ Filled \subseteq store.nodes
      BY <1>1 DEF ReplayInv, Standing
    <2>3. store' = [nodes |-> t.nodes, index |-> Lookup]
      BY <2>1, <2>2
    <2>4. PICK m, w : root' = RootOf(m, w) /\ Leaves(w, m)
      BY <1>4, <2>1
    <2>5. Standing'
      BY <1>2, <1>4, <2>2, <2>3, <2>4 DEF Standing
    <2> QED
      BY <1>1, <1>2, <2>1, <2>5 DEF ReplayInv
  <1> QED
    BY <1>3, <1>4

\* A read of a leaf that is there.
LEMMA ReadValue ==
  ASSUME ReplayInv, NEW k \in Key, phase = "replay", get_nearest_keys(k) # Failed
  PROVE  LET center == get_nearest_keys(k).center
         IN  (IF center = NoLeaf THEN NoValue ELSE center.leaf_value) = Contents(root)[k]
  <1> DEFINE range == get_nearest_keys(k)
  <1>1. PICK n, v : root = RootOf(n, v) /\ Leaves(v, n)
    BY DEF ReplayInv, Standing
  <1>2. Answers(v, k, range)
    BY <1>1, RangeTrue DEF ReplayInv, Standing
  <1> HIDE DEF range
  <1>3. CASE range.center = NoLeaf
    <2>1. Contents(root)[k] = NoValue
      BY <1>1, <1>2, <1>3, ContentsAt DEF Answers
    <2> QED
      BY <1>3, <2>1 DEF range
  <1>4. CASE range.center # NoLeaf
    <2> DEFINE i == range.center.leaf_index
    <2>1. i \in DOMAIN v /\ v[i].hkey = k /\ v[i].hval = range.center.leaf_value
      BY <1>2, <1>4 DEF Answers
    <2> HIDE DEF i
    <2>2. Contents(root)[k] = v[i].hval
      BY <1>1, <2>1, ContentsAt
    <2> QED
      BY <1>4, <2>1, <2>2 DEF range
  <1> QED
    BY <1>3, <1>4

\* A map commits to values.
LEMMA ContentsType ==
  ASSUME ReplayInv, phase = "replay", NEW k \in Key
  PROVE  Contents(root)[k] \in Value \cup {NoValue}
  <1>1. PICK n, v : root = RootOf(n, v) /\ Leaves(v, n)
    BY DEF ReplayInv, Standing
  <1>2. CASE Has(v, k)
    <2>1. PICK i \in DOMAIN v : v[i].hkey = k
      BY <1>2 DEF Has
    <2>2. v[i].hval \in Value \cup {NoValue}
      BY <1>1, <2>1 DEF Leaves, LeafOpening
    <2> QED
      BY <1>1, <2>1, <2>2, ContentsAt
  <1>3. CASE ~Has(v, k)
    BY <1>1, <1>3, ContentsAt
  <1> QED
    BY <1>2, <1>3

\* Every step keeps the invariant.
LEMMA ReplayStepInv == ReplayInv /\ [ReplayNext]_vars => ReplayInv'
  <1> SUFFICES ASSUME ReplayInv, [ReplayNext]_vars PROVE ReplayInv'
    OBVIOUS
  <1>1. CASE Manage
    <2>1. ManagerInv'
      BY <1>1, ManagerStep DEF ReplayInv, Manage
    <2>2. Len(traces') \in 0 .. MaxTraces /\ changes' \in 0 .. MaxBefore
      BY <1>1, LengthKept DEF ReplayInv, ManagerInv, Manage
    <2>3. phase' = "block" /\ answer' = answer
      BY <1>1 DEF Manage, replayVars
    <2>4. RecordsInv'
      BY <1>1, RecordsStep DEF ReplayInv, Manage
    <2> QED
      BY <2>1, <2>2, <2>3, <2>4 DEF ReplayInv
  <1>2. CASE Fill
    <2>1. UNCHANGED managerVars /\ answer' = answer /\ traces # <<>>
          /\ store' = [nodes |-> Filled, index |-> Lookup]
          /\ root' = StartRoot /\ phase' \in {"replay", "ended"}
      BY <1>2 DEF Fill, Filled
    <2>2. /\ ManagerInv' /\ RecordsInv' /\ changes' = changes /\ traces' = traces
          /\ Lookup' = Lookup /\ Filled' = Filled
      BY <2>1, ManagerStill DEF ReplayInv
    <2>3. StartRoot = RootOf(Start.free, Start.leaves) /\ Leaves(Start.leaves, Start.free)
      BY <2>1, StartLeaves DEF ReplayInv
    <2>4. \E n, v : root' = RootOf(n, v) /\ Leaves(v, n)
      BY <2>1, <2>3
    <2>5. Standing'
      BY <2>1, <2>2, <2>4 DEF Standing
    <2> QED
      BY <2>1, <2>2, <2>5 DEF ReplayInv
  <1>3. ASSUME NEW k \in Key, Read(k) PROVE ReplayInv'
    <2>1. UNCHANGED managerVars /\ store' = store /\ root' = root /\ phase = "replay"
      BY <1>3 DEF Read
    <2>2. /\ ManagerInv' /\ RecordsInv' /\ changes' = changes /\ traces' = traces
          /\ Lookup' = Lookup /\ Filled' = Filled
      BY <2>1, ManagerStill DEF ReplayInv
    <2>3. Standing'
      BY <2>1, <2>2 DEF ReplayInv, Standing
    <2>4. phase' \in {"replay", "ended"}
      BY <1>3, <2>1 DEF Read
    <2>5. answer' \in Value \cup {NoValue}
      <3>1. CASE get_nearest_keys(k) = Failed
        BY <1>3, <3>1 DEF Read, ReplayInv
      <3>2. CASE get_nearest_keys(k) # Failed
        <4>1. answer' = Contents(root)[k]
          BY <1>3, <2>1, <3>2, ReadValue DEF Read
        <4> QED
          BY <2>1, <4>1, ContentsType
      <3> QED
        BY <3>1, <3>2
    <2> QED
      BY <2>2, <2>3, <2>4, <2>5 DEF ReplayInv
  <1>4. ASSUME NEW k \in Key, Becomes(RemoveResult(k)) PROVE ReplayInv'
    <2> DEFINE t == RemoveResult(k)
    <2>1. PICK n, v : root = RootOf(n, v) /\ Leaves(v, n)
      BY <1>4 DEF ReplayInv, Standing, Becomes
    <2>2. t # Failed => /\ \E m, w : t.root = RootOf(m, w) /\ Leaves(w, m)
                        /\ store.nodes \subseteq t.nodes
      BY <1>4, <2>1, RemovalMade DEF ReplayInv, Becomes
    <2>3. Becomes(t)
      BY <1>4
    <2> HIDE DEF t
    <2> QED
      BY <2>2, <2>3, BecomesKeeps
  <1>5. ASSUME NEW k \in Key, NEW x \in Value, ~Full(k), Becomes(PutResult(k, x)) PROVE ReplayInv'
    <2> DEFINE t == PutResult(k, x)
    <2>1. PICK n, v : root = RootOf(n, v) /\ Leaves(v, n)
      BY <1>5 DEF ReplayInv, Standing, Becomes
    <2>2. t # Failed => /\ \E m, w : t.root = RootOf(m, w) /\ Leaves(w, m)
                        /\ store.nodes \subseteq t.nodes
      BY <1>5, <2>1, PutMade DEF ReplayInv, Becomes
    <2>3. Becomes(t)
      BY <1>5
    <2> HIDE DEF t
    <2> QED
      BY <2>2, <2>3, BecomesKeeps
  <1>6. CASE UNCHANGED vars
    <2>1. UNCHANGED managerVars /\ phase' = phase /\ store' = store /\ root' = root /\ answer' = answer
      BY <1>6 DEF vars, replayVars
    <2>2. /\ ManagerInv' /\ RecordsInv' /\ changes' = changes /\ traces' = traces
          /\ Lookup' = Lookup /\ Filled' = Filled
      BY <2>1, ManagerStill DEF ReplayInv
    <2> QED
      BY <2>1, <2>2 DEF ReplayInv, Standing
  <1> QED
    BY <1>1, <1>2, <1>3, <1>4, <1>5, <1>6 DEF ReplayNext

\* The variables keep their types.
LEMMA ReplayTypes == ReplayInv => TypeOK
  <1> SUFFICES ASSUME ReplayInv PROVE TypeOK
    OBVIOUS
  <1>1. ManagerTypeOK
    <2>1. free \in 2 .. (Capacity + 1) /\ Trie(held, free)
      BY DEF ReplayInv, ManagerInv
    <2>2. DOMAIN held \subseteq 0 .. (free - 1) /\ \A i \in DOMAIN held : held[i] \in LeafOpening
      BY <2>1, TrieAssumption DEF Trie, Index
    <2> QED
      BY <2>1, <2>2 DEF ReplayInv, ManagerTypeOK
  <1>2. ASSUME phase = "replay"
        PROVE  /\ next_free_node(db) \in 2 .. (Capacity + 1)
               /\ DOMAIN HeldAt(root) \subseteq 0 .. (next_free_node(db) - 1)
    <2>1. PICK n, v : root = RootOf(n, v) /\ Leaves(v, n)
      BY <1>2 DEF ReplayInv, Standing
    <2>2. next_free_node(db) = n
      BY <2>1, DbMade, FreeMade
    <2>3. DOMAIN HeldAt(root) = DOMAIN v
      BY <2>1, HeldAtRoot DEF Leaves
    <2>4. n \in 2 .. (Capacity + 1) /\ DOMAIN v \subseteq 0 .. (n - 1)
      BY <2>1, TrieAssumption DEF Leaves, Index
    <2> QED
      BY <2>2, <2>3, <2>4
  <1> QED
    BY <1>1, <1>2 DEF ReplayInv, TypeOK

\* A change of the tree puts a value, or fails and ends the program.
LEMMA BecomesPuts ==
  ASSUME ReplayInv, NEW t, Becomes(t), NEW k \in Key, NEW x,
         NEW n, NEW v, root = RootOf(n, v), Leaves(v, n),
         t # Failed => \E m, w : t.root = RootOf(m, w) /\ Leaves(w, m) /\ Puts(v, w, k, x)
  PROVE  IF phase' = "ended" THEN UNCHANGED <<root, answer>>
         ELSE Contents(root)' = [Contents(root) EXCEPT ![k] = x] /\ answer' = answer
  <1>1. answer' = answer
    BY DEF Becomes
  <1>2. CASE t = Failed
    BY <1>1, <1>2 DEF Becomes
  <1>3. CASE t # Failed
    <2>1. root' = t.root /\ phase' # "ended"
      BY <1>3 DEF Becomes
    <2>2. PICK m, w : root' = RootOf(m, w) /\ Leaves(w, m) /\ Puts(v, w, k, x)
      BY <1>3, <2>1
    <2>3. Contents(RootOf(m, w)) = [Contents(RootOf(n, v)) EXCEPT ![k] = x]
      BY <2>2, ContentsPut
    <2>4. Contents(root)' = Contents(RootOf(m, w))
      BY <2>2 DEF Contents, HeldAt, LeafAt
    <2> QED
      BY <1>1, <2>1, <2>3, <2>4
  <1> QED
    BY <1>2, <1>3

\* A read, a removal and a put of a key are those of the map for that key.
LEMMA ReplayCalls ==
  ASSUME ReplayInv, phase = "replay", phase' # "ended", NEW k \in Key
  PROVE  /\ Read(k) => Map!MapRead(k)
         /\ Becomes(RemoveResult(k)) => Map!MapRemove(k)
         /\ \A x \in Value : ~Full(k) /\ Becomes(PutResult(k, x)) => Map!MapPut(k, x)
  <1>1. ASSUME Read(k)
        PROVE  Map!MapRead(k)
    <2>1. root' = root /\ get_nearest_keys(k) # Failed
      BY <1>1 DEF Read
    <2>2. answer' = Contents(root)[k]
      BY <1>1, <2>1, ReadValue DEF Read
    <2>3. Contents(root)' = Contents(root)
      BY <2>1 DEF Contents, HeldAt, LeafAt
    <2> QED
      BY <2>2, <2>3 DEF Map!MapRead
  <1>2. PICK n, v : root = RootOf(n, v) /\ Leaves(v, n)
    BY DEF ReplayInv, Standing
  <1>3. ASSUME Becomes(RemoveResult(k))
        PROVE  Map!MapRemove(k)
    <2> DEFINE t == RemoveResult(k)
    <2>1. t # Failed => \E m, w : t.root = RootOf(m, w) /\ Leaves(w, m) /\ Puts(v, w, k, NoValue)
      BY <1>2, RemovalMade DEF ReplayInv
    <2>2. Becomes(t)
      BY <1>3
    <2> HIDE DEF t
    <2> QED
      BY <1>2, <2>1, <2>2, BecomesPuts DEF Map!MapRemove
  <1>4. ASSUME NEW x \in Value, ~Full(k), Becomes(PutResult(k, x))
        PROVE  Map!MapPut(k, x)
    <2> DEFINE t == PutResult(k, x)
    <2>1. t # Failed => \E m, w : t.root = RootOf(m, w) /\ Leaves(w, m) /\ Puts(v, w, k, x)
      BY <1>2, <1>4, PutMade DEF ReplayInv
    <2>2. Becomes(t)
      BY <1>4
    <2> HIDE DEF t
    <2> QED
      BY <1>2, <2>1, <2>2, BecomesPuts DEF Map!MapPut
  <1> QED
    BY <1>1, <1>3, <1>4

\* A program that ends leaves what it has.
LEMMA ReplayEnds ==
  ASSUME ReplayNext, phase = "replay", phase' = "ended"
  PROVE  UNCHANGED <<root, answer>>
  <1>1. ~Manage /\ ~Fill
    BY DEF Manage, Fill
  <1>2. ASSUME NEW k \in Key, Read(k)
        PROVE  UNCHANGED <<root, answer>>
    BY <1>2 DEF Read
  <1>3. ASSUME NEW t, Becomes(t)
        PROVE  UNCHANGED <<root, answer>>
    BY <1>3 DEF Becomes
  <1>4. PICK k \in Key :
           \/ Read(k)
           \/ Becomes(RemoveResult(k))
           \/ \E x \in Value : Becomes(PutResult(k, x))
    BY <1>1 DEF ReplayNext
  <1> QED
    BY <1>2, <1>3, <1>4

\* The inductive invariant of the replay, in every execution.
LEMMA ReplayInvariant == ReplaySpec => []ReplayInv
  BY ReplayInitInv, ReplayStepInv, PTL DEF ReplaySpec

----------------------------------------------------------------------------
(* The first change *)

\* A range is not an error.
LEMMA RangeForm ==
  ASSUME NEW l, NEW c, NEW r
  PROVE  KeyRange(l, c, r) # Failed
  <1>1. DOMAIN KeyRange(l, c, r) = {"left_index", "center", "right_index"}
    BY DEF KeyRange
  <1>2. DOMAIN Failed = {"kind"}
    BY DEF Failed
  <1> QED
    BY <1>1, <1>2

\* Every entry of the index is a range.
LEMMA LookupFound ==
  ASSUME NEW e \in DOMAIN Lookup
  PROVE  Lookup[e] # Failed
  <1>1. CASE e \in DOMAIN level_map
    <2>1. \E t : level_map[e] = key_range(t)
      BY <1>1 DEF level_map
    <2>2. \A t : key_range(t) # Failed
      BY RangeForm DEF key_range
    <2>3. Lookup[e] = level_map[e]
      BY <1>1 DEF Lookup
    <2> QED
      BY <2>1, <2>2, <2>3
  <1>2. CASE e \notin DOMAIN level_map
    <2>1. Lookup[e] = proof_entries[e] /\ e \in DOMAIN proof_entries
      BY <1>2 DEF Lookup
    <2>2. \E l, c, r : proof_entries[e] = KeyRange(l, c, r)
      BY <2>1 DEF proof_entries
    <2> QED
      BY <2>1, <2>2, RangeForm
  <1> QED
    BY <1>1, <1>2

\* The answer for a record of the trie before the block, at its root.
LEMMA RangeExact ==
  ASSUME ManagerInv, traces # <<>>, store.index = Lookup, root = StartRoot,
         NEW i \in DOMAIN traces, AtStart(traces[i])
  PROVE  LET k == traces[i].key
             range == get_nearest_keys(k)
         IN  /\ range # Failed
             /\ Answers(Start.leaves, k, range)
             /\ Neighbours(Start.leaves, k, range.left_index, range.right_index)
  <1> DEFINE k == traces[i].key
             v == Start.leaves
             entries == {e \in DOMAIN Lookup : top_node(e[1]) = root /\ e[2] = k}
             e == CHOOSE d \in entries : TRUE
             range == get_nearest_keys(k)
  <1>1. Start = [free |-> Start.free, leaves |-> v]
    BY DEF Start, old_top
  <1>2. EntryOf(i) = <<Start, k>>
    BY <1>1 DEF EntryOf, old_top, AtStart
  <1>3. EntryOf(i) \in DOMAIN level_map /\ EntryOf(i) \in DOMAIN Lookup
    BY DEF level_map, Lookup
  <1>4. EntryOf(i) \in entries
    BY <1>2, <1>3 DEF StartRoot
  <1>5. e \in entries
    BY <1>4
  <1>6. range = Lookup[e]
    BY <1>4 DEF get_nearest_keys, Found
  <1>7. e \in DOMAIN Lookup /\ top_node(e[1]) = root /\ e[2] = k
    BY <1>5
  <1> HIDE DEF e
  <1>8. e \in DOMAIN level_map
    <2> SUFFICES ASSUME e \notin DOMAIN level_map PROVE FALSE
      OBVIOUS
    <2>1. e \in DOMAIN proof_entries
      BY <1>7 DEF Lookup
    <2>2. e = <<Start, k>>
      BY <1>7, <2>1 DEF proof_entries
    <2> QED
      BY <1>2, <1>3, <2>2
  <1> DEFINE leaves == e[1].leaves
  <1>9. /\ Trie(leaves, e[1].free)
        /\ Answers(leaves, k, range)
        /\ Neighbours(leaves, k, range.left_index, range.right_index)
    <2> HIDE DEF range
    <2> QED
      BY <1>6, <1>7, <1>8, LookupTrue
  <1>10. root = RootOf(e[1].free, leaves)
    BY <1>7 DEF top_node, SubRoot, RootOf
  <1>11. root = RootOf(Start.free, v) /\ Leaves(v, Start.free)
    BY StartLeaves
  <1> HIDE DEF leaves, v
  <1>12. DOMAIN HeldAt(root) = DOMAIN leaves /\ \A j \in DOMAIN leaves : HeldAt(root)[j] = leaves[j]
    BY <1>9, <1>10, HeldAtRoot DEF Trie
  <1>13. DOMAIN HeldAt(root) = DOMAIN v /\ \A j \in DOMAIN v : HeldAt(root)[j] = v[j]
    BY <1>11, HeldAtRoot DEF Leaves
  <1>14. DOMAIN leaves = DOMAIN v /\ \A j \in DOMAIN v : leaves[j] = v[j]
    BY <1>12, <1>13
  <1> HIDE DEF range, k
  <1>15. Answers(v, k, range) /\ Neighbours(v, k, range.left_index, range.right_index)
    BY <1>9, <1>14 DEF Answers, Has, Neighbours, Between
  <1>16. range # Failed
    BY <1>6, <1>7, LookupFound
  <1> QED
    BY <1>15, <1>16 DEF range, k, v

\* A link rewritten by the state manager is one rewritten by the trie.
LEMMA LinkIsWritten ==
  ASSUME NEW v, NEW i \in DOMAIN v, v[i] \in LeafOpening, NEW j \in Index
  PROVE  LinkNext(v, i, j) = Written(v, i, NewNextLeaf(v[i], j))
  <1>1. NewNextLeaf(v[i], j) = [v[i] EXCEPT !.next_leaf = j]
    BY DEF NewNextLeaf, ParseLeaf, LeafOpening
  <1>2. DOMAIN v \cup {i} = DOMAIN v
    OBVIOUS
  <1> QED
    BY <1>1, <1>2 DEF LinkNext, Written

\* The nodes of a record's proof are in the store.
LEMMA BuiltStored ==
  ASSUME Standing, NEW i \in DOMAIN traces, NEW leaves, \A j \in DOMAIN leaves : leaves[j] \in LeafOpening,
         NEW n \in Index, build_nodes(Proof(leaves, n)) \subseteq trace_proof_nodes(traces[i])
  PROVE  Stored(store.nodes, leaves, n, Depth)
  <1>1. PathNodes(leaves, n, 0, Depth) \subseteq trace_proof_nodes(traces[i])
    BY BuiltPath
  <1>2. trace_proof_nodes(traces[i]) \subseteq trace_nodes
    BY DEF trace_nodes
  <1>3. trace_nodes \subseteq store.nodes
    BY DEF Standing, Filled
  <1> QED
    BY <1>1, <1>2, <1>3 DEF PathNodes, Stored

\* At the root before the block the trie can start: a proof of an account has brought the
\* root's node.
LEMMA StartReady ==
  ASSUME ReplayInv, Standing, root = StartRoot, Included # {}
  PROVE  Ready(db, store.nodes, Start.free, Start.leaves)
  <1>1. root = RootOf(Start.free, Start.leaves)
    BY StartLeaves DEF ReplayInv, Standing
  <1>2. Made(db, store.nodes, Start.free, Start.leaves)
    BY <1>1, DbMade
  <1>3. db.nodes = store.nodes
    BY TreeForm DEF db
  <1>4. StartRoot \in Filled
    BY DEF Filled, proof_nodes
  <1>5. RootOf(Start.free, Start.leaves) \in db.nodes
    BY <1>1, <1>3, <1>4 DEF Standing
  <1> QED
    BY <1>2, <1>5 DEF Ready

\* What is known of a record of the trie before the block.
LEMMA FirstRecord ==
  ASSUME ReplayInv, Standing, root = StartRoot, NEW i \in DOMAIN traces, AtStart(traces[i])
  PROVE  /\ Leaves(Start.leaves, Start.free) /\ Trie(Start.leaves, Start.free)
         /\ Formed(traces[i]) /\ Sound(traces[i])
         /\ traces[i].sub = Start.leaves /\ old_next_free(traces[i]) = Start.free
         /\ traces[i].key \in Key
         /\ get_nearest_keys(traces[i].key) # Failed
         /\ Answers(Start.leaves, traces[i].key, get_nearest_keys(traces[i].key))
         /\ Neighbours(Start.leaves, traces[i].key, get_nearest_keys(traces[i].key).left_index,
                       get_nearest_keys(traces[i].key).right_index)
  <1>1. ManagerInv /\ RecordsInv /\ traces # <<>> /\ store.index = Lookup
    BY DEF ReplayInv, Standing
  <1>2. Formed(traces[i]) /\ Sound(traces[i]) /\ traces[i].key \in Key
    BY <1>1 DEF RecordsInv, ManagerInv, TracesSound, Formed
  <1>3. traces[i].sub = Start.leaves /\ old_next_free(traces[i]) = Start.free
    BY DEF AtStart
  <1>4. Trie(Start.leaves, Start.free)
    BY <1>2, <1>3 DEF Sound
  <1>5. Leaves(Start.leaves, Start.free)
    BY <1>1, StartLeaves
  <1>6. /\ get_nearest_keys(traces[i].key) # Failed
        /\ Answers(Start.leaves, traces[i].key, get_nearest_keys(traces[i].key))
        /\ Neighbours(Start.leaves, traces[i].key, get_nearest_keys(traces[i].key).left_index,
                      get_nearest_keys(traces[i].key).right_index)
    BY <1>1, RangeExact
  <1> QED
    BY <1>2, <1>3, <1>4, <1>5, <1>6

\* The first change, an insertion.
LEMMA FirstInsertion ==
  ASSUME ReplayInv, Standing, root = StartRoot, Included # {}, NEW i \in DOMAIN traces,
         AtStart(traces[i]), traces[i].type = "Insertion", NEW x \in Value
  PROVE  PutResult(traces[i].key, x) # Failed
  <1> DEFINE t == traces[i]
             k == t.key
             v == Start.leaves
             n == Start.free
             range == get_nearest_keys(k)
  <1>1. /\ Leaves(v, n) /\ Trie(v, n) /\ Formed(t) /\ Sound(t) /\ t.sub = v /\ old_next_free(t) = n
        /\ k \in Key /\ range # Failed /\ Answers(v, k, range)
        /\ Neighbours(v, k, range.left_index, range.right_index)
    BY FirstRecord
  <1>2. t.type = "Insertion"
    OBVIOUS
  <1>3. Ready(db, store.nodes, n, v)
    BY StartReady
  <1>4. PutResult(k, x) = trie_put(db, k, x, range)
    BY <1>1 DEF PutResult
  <1>5. build_nodes(t.left) \cup build_nodes(t.own) \cup build_nodes(t.right) = trace_proof_nodes(t)
    BY DEF trace_proof_nodes
  <1>6. \A leaves : \A m \in Index :
          /\ \A j \in DOMAIN leaves : leaves[j] \in LeafOpening
          /\ build_nodes(Proof(leaves, m)) \subseteq trace_proof_nodes(t)
          => Stored(store.nodes, leaves, m, Depth)
    BY BuiltStored
  <1> HIDE DEF t, k, v, n, range
  <1>7. PICK l \in DOMAIN v, r \in DOMAIN v, y \in Value :
           /\ n \in Index
           /\ ~Has(v, k)
           /\ t.left = Proof(v, l)
           /\ t.own = Proof(LinkNext(v, l, n), n)
           /\ t.right = Proof(With(LinkNext(v, l, n), n, Opening(k, y, l, r)), r)
    BY <1>1, <1>2 DEF Formed, FormedInsertion, k
  <1>8. l \in Index /\ r \in Index /\ v[l] \in LeafOpening
    BY <1>1 DEF Leaves
  <1>9. key_range(t).left_index = l /\ key_range(t).right_index = r
    BY <1>2, <1>7 DEF key_range, KeyRange, Proof
  <1>10. Neighbours(v, k, l, r)
    BY <1>1, <1>9 DEF Sound, k
  <1>11. k \in Nat
    BY <1>1, KeysAreNumbers
  <1>12. range.left_index = l /\ range.right_index = r
    BY <1>1, <1>10, <1>11, NearestSame
  <1>13. range.center = NoLeaf
    BY <1>1, <1>7 DEF Answers, Has
  <1> DEFINE linked == Written(v, l, NewNextLeaf(v[l], n))
             other == Opening(k, y, l, r)
  <1>14. LinkNext(v, l, n) = linked
    BY <1>7, <1>8, LinkIsWritten
  <1>15. Leaves(linked, n)
    BY <1>1, <1>7, LinkWritten
  <1>16. other \in LeafOpening
    BY <1>1, <1>8, KeysAreNumbers DEF Opening, LeafOpening
  <1>17. With(linked, n, other) = Written(linked, n, other)
    BY DEF With, Written
  <1> HIDE DEF linked, other
  <1>18. /\ \A j \in DOMAIN v : v[j] \in LeafOpening
         /\ \A j \in DOMAIN linked : linked[j] \in LeafOpening
    BY <1>1, <1>15 DEF Leaves
  <1>19. \A j \in DOMAIN Written(linked, n, other) : Written(linked, n, other)[j] \in LeafOpening
    BY <1>16, <1>18 DEF Written
  <1>20. t.own = Proof(linked, n) /\ t.right = Proof(Written(linked, n, other), r)
    BY <1>7, <1>14, <1>17 DEF other
  <1>21. Stored(store.nodes, v, l, Depth)
    BY <1>5, <1>6, <1>7, <1>8, <1>18
  <1>22. Stored(store.nodes, linked, n, Depth)
    BY <1>5, <1>6, <1>7, <1>18, <1>20
  <1>23. Stored(store.nodes, Written(linked, n, other), r, Depth)
    BY <1>5, <1>6, <1>8, <1>19, <1>20
  <1>24. trie_put(db, k, x, range) # Failed
    <2>1. linked = Written(v, range.left_index, NewNextLeaf(v[range.left_index], n))
      BY <1>12 DEF linked
    <2> QED
      BY <1>3, <1>7, <1>8, <1>12, <1>13, <1>21, <1>22, <1>23, <2>1, PutNewGoes
  <1> QED
    BY <1>4, <1>24 DEF k, t

\* An update.
LEMMA FirstUpdate ==
  ASSUME ReplayInv, Standing, root = StartRoot, Included # {}, NEW i \in DOMAIN traces,
         AtStart(traces[i]), traces[i].type = "Update", NEW x \in Value
  PROVE  PutResult(traces[i].key, x) # Failed
  <1> DEFINE t == traces[i]
             k == t.key
             v == Start.leaves
             n == Start.free
             range == get_nearest_keys(k)
  <1>1. /\ Leaves(v, n) /\ Trie(v, n) /\ Formed(t) /\ t.sub = v
        /\ range # Failed /\ Answers(v, k, range)
    BY FirstRecord
  <1>2. t.type = "Update"
    OBVIOUS
  <1>3. Ready(db, store.nodes, n, v)
    BY StartReady
  <1>4. PutResult(k, x) = trie_put(db, k, x, range)
    BY <1>1 DEF PutResult
  <1>5. build_nodes(t.own) = trace_proof_nodes(t)
    BY DEF trace_proof_nodes
  <1>6. \A leaves : \A m \in Index :
          /\ \A j \in DOMAIN leaves : leaves[j] \in LeafOpening
          /\ build_nodes(Proof(leaves, m)) \subseteq trace_proof_nodes(t)
          => Stored(store.nodes, leaves, m, Depth)
    BY BuiltStored
  <1> HIDE DEF t, k, v, n, range
  <1>7. PICK m \in DOMAIN v : v[m].hkey = k /\ t.own = Proof(v, m)
    BY <1>1, <1>2 DEF Formed, FormedUpdate, k
  <1>8. m \in Index /\ \A j \in DOMAIN v : v[j] \in LeafOpening
    BY <1>1 DEF Leaves
  <1>9. range.center # NoLeaf /\ range.center.leaf_index = m
    BY <1>1, <1>7 DEF Answers, Has, Trie
  <1>10. Stored(store.nodes, v, m, Depth)
    BY <1>5, <1>6, <1>7, <1>8
  <1>11. trie_put(db, k, x, range) # Failed
    BY <1>3, <1>7, <1>8, <1>9, <1>10, PutOverGoes
  <1> QED
    BY <1>4, <1>11 DEF k, t

\* A deletion.
LEMMA FirstDeletion ==
  ASSUME ReplayInv, Standing, root = StartRoot, Included # {}, NEW i \in DOMAIN traces,
         AtStart(traces[i]), traces[i].type = "Deletion"
  PROVE  RemoveResult(traces[i].key) # Failed
  <1> DEFINE t == traces[i]
             k == t.key
             v == Start.leaves
             n == Start.free
             range == get_nearest_keys(k)
  <1>1. /\ Leaves(v, n) /\ Trie(v, n) /\ Formed(t) /\ t.sub = v
        /\ k \in Key /\ range # Failed /\ Answers(v, k, range)
        /\ Neighbours(v, k, range.left_index, range.right_index)
    BY FirstRecord
  <1>2. t.type = "Deletion"
    OBVIOUS
  <1>3. Ready(db, store.nodes, n, v)
    BY StartReady
  <1>4. RemoveResult(k) = trie_remove(db, range)
    BY <1>1 DEF RemoveResult
  <1>5. build_nodes(t.left) \cup build_nodes(t.own) \cup build_nodes(t.right) = trace_proof_nodes(t)
    BY DEF trace_proof_nodes
  <1>6. \A leaves : \A m \in Index :
          /\ \A j \in DOMAIN leaves : leaves[j] \in LeafOpening
          /\ build_nodes(Proof(leaves, m)) \subseteq trace_proof_nodes(t)
          => Stored(store.nodes, leaves, m, Depth)
    BY BuiltStored
  <1> HIDE DEF t, k, v, n, range
  <1>7. PICK m \in DOMAIN v :
           /\ v[m].hkey = k
           /\ t.left = Proof(v, v[m].prev_leaf)
           /\ t.own = Proof(LinkNext(v, v[m].prev_leaf, v[m].next_leaf), m)
           /\ t.right = Proof(Without(LinkNext(v, v[m].prev_leaf, v[m].next_leaf), m), v[m].next_leaf)
    BY <1>1, <1>2 DEF Formed, FormedDeletion, k
  <1>8. PICK l, r : l = v[m].prev_leaf /\ r = v[m].next_leaf
    OBVIOUS
  <1>9. Neighbours(v, k, l, r)
    BY <1>1, <1>7, <1>8 DEF Trie
  <1>10. k \in Nat
    BY <1>1, KeysAreNumbers
  <1>11. range.left_index = l /\ range.right_index = r
    BY <1>1, <1>9, <1>10, NearestSame
  <1>12. range.center # NoLeaf /\ range.center.leaf_index = m
    BY <1>1, <1>7 DEF Answers, Has, Trie
  <1>13. l \in DOMAIN v /\ r \in DOMAIN v
    BY <1>9 DEF Neighbours
  <1>14. r # m
    BY <1>7, <1>9, <1>10 DEF Neighbours, Between
  <1>15. l \in Index /\ r \in Index /\ m \in Index /\ v[l] \in LeafOpening
    BY <1>1, <1>7, <1>13 DEF Leaves
  <1> DEFINE linked == Written(v, l, NewNextLeaf(v[l], r))
  <1>16. LinkNext(v, l, r) = linked
    BY <1>13, <1>15, LinkIsWritten
  <1>17. Leaves(linked, n)
    BY <1>1, <1>13, <1>15, LinkWritten
  <1> HIDE DEF linked
  <1>18. Without(linked, m) = Emptied(linked, m)
    BY DEF Without, Emptied
  <1>19. /\ \A j \in DOMAIN v : v[j] \in LeafOpening
         /\ \A j \in DOMAIN linked : linked[j] \in LeafOpening
    BY <1>1, <1>17 DEF Leaves
  <1>20. \A j \in DOMAIN Emptied(linked, m) : Emptied(linked, m)[j] \in LeafOpening
    BY <1>19 DEF Emptied
  <1>21. t.left = Proof(v, l) /\ t.own = Proof(linked, m) /\ t.right = Proof(Emptied(linked, m), r)
    BY <1>7, <1>8, <1>16, <1>18
  <1>22. Stored(store.nodes, v, l, Depth)
    BY <1>5, <1>6, <1>15, <1>19, <1>21
  <1>23. Stored(store.nodes, linked, m, Depth)
    BY <1>5, <1>6, <1>15, <1>19, <1>21
  <1>24. Stored(store.nodes, Emptied(linked, m), r, Depth)
    BY <1>5, <1>6, <1>15, <1>20, <1>21
  <1>25. trie_remove(db, range) # Failed
    <2>1. linked = Written(v, l, NewNextLeaf(v[l], r))
      BY DEF linked
    <2>2. l = range.left_index /\ m = range.center.leaf_index /\ r = range.right_index
      BY <1>11, <1>12
    <2> QED
      BY <1>3, <1>7, <1>12, <1>13, <1>14, <1>15, <1>22, <1>23, <1>24, <2>1, <2>2, RemoveOldGoes
  <1> QED
    BY <1>4, <1>25 DEF k, t

\* So the first change finds everything.
LEMMA FirstGoes == ReplayInv => FirstWriteGoesThrough
  <1> SUFFICES ASSUME ReplayInv, phase = "replay", root = StartRoot, Included # {},
                      NEW i \in DOMAIN traces,
                      \A j \in 1 .. (i - 1) : traces[j].type \in {"Read", "ReadZero"}
               PROVE  CASE traces[i].type \in {"Insertion", "Update"} ->
                              \A v \in Value : PutResult(traces[i].key, v) # Failed
                        [] traces[i].type = "Deletion" -> RemoveResult(traces[i].key) # Failed
                        [] OTHER -> get_nearest_keys(traces[i].key) # Failed
    BY DEF FirstWriteGoesThrough
  <1>1. Standing
    BY DEF ReplayInv
  <1>2. AtStart(traces[i])
    BY DEF ReplayInv, RecordsInv, IsRead
  <1>3. traces[i].type \in {"Insertion", "Update"} =>
           \A v \in Value : PutResult(traces[i].key, v) # Failed
    BY <1>1, <1>2, FirstInsertion, FirstUpdate
  <1>4. traces[i].type = "Deletion" => RemoveResult(traces[i].key) # Failed
    BY <1>1, <1>2, FirstDeletion
  <1>5. get_nearest_keys(traces[i].key) # Failed
    BY <1>1, <1>2, FirstRecord
  <1> QED
    BY <1>3, <1>4, <1>5

----------------------------------------------------------------------------
(* What holds in every execution *)

\* The state manager's variables and those of the execution (generate_poe_v2, apps.rs) keep
\* their types: in particular every leaf under a root the execution reaches is below its
\* next free index.
THEOREM ReplayTypeCorrect == ReplaySpec => []TypeOK
  BY ReplayInvariant, ReplayTypes, PTL

\* The index of MemStore stays true of the tries it was filed for while the block is
\* executed (get_nearest_keys, storage.rs).
THEOREM ReplayIndexIsSound == ReplaySpec => []IndexSound
  <1>1. ReplayInv => IndexSound
    BY LookupSound DEF ReplayInv
  <1> QED
    BY <1>1, ReplayInvariant, PTL

\* The execution over MemStore is that of a map, or stops (ZkTrie::get, put and remove
\* over the Database MemStore, trie.rs and storage.rs): a root is only under an entry of the
\* index when it is over the leaves of that entry, and a put or a removal that finds its
\* nodes rewrites the leaf of its key and nothing else but links.
THEOREM ReplayIsMapCorrect == ReplaySpec => ReplayIsMap
  <1>1. ReplayInv /\ [ReplayNext]_vars
           => [phase = "replay" =>
                 IF phase' = "ended" THEN UNCHANGED <<root, answer>>
                 ELSE \A k \in Key :
                         /\ Read(k) => Map!MapRead(k)
                         /\ Becomes(RemoveResult(k)) => Map!MapRemove(k)
                         /\ \A v \in Value : ~Full(k) /\ Becomes(PutResult(k, v)) => Map!MapPut(k, v)]_vars
    BY ReplayCalls, ReplayEnds
  <1> QED
    BY <1>1, ReplayInvariant, PTL DEF ReplaySpec, ReplayIsMap

\* The first change of a block finds what it needs (generate_poe_v2 of apps.rs, MemStore of
\* storage.rs, ZkTrie::put and remove of trie.rs): the nodes of a record's three proofs are
\* those on the paths to the leaves that the change reads, each in the trie that the writes
\* before it have left, and a put of another value than the recorded one still finds them.
THEOREM FirstChangeGoesThrough == ReplaySpec => []FirstWriteGoesThrough
  BY ReplayInvariant, FirstGoes, PTL
=============================================================================

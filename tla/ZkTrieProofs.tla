---------------------------- MODULE ZkTrieProofs ----------------------------
(***************************************************************************)
(* Proofs about ZkTrie, for every set of hashed keys and every capacity.   *)
(*                                                                         *)
(* The inductive invariant adds to the checked properties that head and    *)
(* tail are never removed and that nothing is stored from nextFree on.     *)
(* Every step is first reduced to what it does to each leaf (the           *)
(* Pointwise lemmas); the links then follow by cases on the key.           *)
(***************************************************************************)
EXTENDS TrieNodes, SparseMerkleProofs, TLAPS

\* Head and tail are never removed.
EndsLive == HeadKey \in Live /\ TailKey \in Live
\* Nothing is stored from the next free index on.
Fresh    == \A i \in Index : i >= nextFree => leaves[i] = NoLeaf

\* The inductive invariant.
TrieInv ==
    /\ TypeOK
    /\ EndsLive
    /\ Fresh
    /\ IndexMatchesLeaves
    /\ PrevLinksSorted

\* Head and tail enclose every hashed key.
LEMMA KeyOrder ==
    /\ HKey \subseteq Nat
    /\ HeadKey \in HKey /\ TailKey \in HKey
    /\ HeadKey < TailKey
    /\ Key \subseteq HKey
    /\ \A k \in Key : HeadKey < k /\ k < TailKey
  BY TrieAssumption DEF HKey, HeadKey

\* A key in the trie sits at an index below nextFree of its own.
LEMMA LiveIndices ==
    ASSUME TrieInv
    PROVE  /\ \A k \in Live : /\ k \in HKey
                              /\ index[k] \in FlattenedLeaf
                              /\ IndexOf(k) \in Index
                              /\ IndexOf(k) < nextFree
                              /\ leaves[IndexOf(k)] \in LeafOpening
                              /\ leaves[IndexOf(k)].hkey = k
                              /\ leaves[IndexOf(k)].hval = index[k].leaf_value
           /\ \A j, k \in Live : j # k => IndexOf(j) # IndexOf(k)
  <1>1. ASSUME NEW k \in Live
        PROVE  /\ k \in HKey
               /\ index[k] \in FlattenedLeaf
               /\ IndexOf(k) \in Index
               /\ leaves[IndexOf(k)] # NoLeaf
               /\ leaves[IndexOf(k)].hkey = k
               /\ leaves[IndexOf(k)].hval = index[k].leaf_value
    <2>1. k \in HKey /\ index[k] \in FlattenedLeaf
      BY <1>1 DEF TrieInv, TypeOK, Live
    <2>2. IndexOf(k) \in Index
      BY <2>1 DEF IndexOf, FlattenedLeaf
    <2> QED
      BY <1>1, <2>1, <2>2 DEF TrieInv, IndexMatchesLeaves
  <1>2. ASSUME NEW k \in Live
        PROVE  leaves[IndexOf(k)] \in LeafOpening /\ IndexOf(k) < nextFree
    <2>1. leaves[IndexOf(k)] \in LeafOpening
      BY <1>1 DEF TrieInv, TypeOK
    <2>2. ~(IndexOf(k) >= nextFree)
      BY <1>1 DEF TrieInv, Fresh
    <2>3. nextFree \in Nat /\ IndexOf(k) \in Nat
      BY <1>1 DEF TrieInv, TypeOK, Index
    <2> QED BY <2>1, <2>2, <2>3
  <1>3. ASSUME NEW j \in Live, NEW k \in Live, IndexOf(j) = IndexOf(k)
        PROVE  j = k
    BY <1>1, <1>3
  <1> QED BY <1>1, <1>2, <1>3

\* ZkTrie::empty establishes the invariant.
LEMMA InitInv == Init => TrieInv
  <1> SUFFICES ASSUME Init PROVE TrieInv
    OBVIOUS
  <1>0. HeadKey \in HKey /\ TailKey \in HKey /\ HeadKey # TailKey
    BY KeyOrder
  <1> USE TrieAssumption
  <1>1. HeadLeaf \in LeafOpening /\ TailLeaf \in LeafOpening
    BY DEF HeadLeaf, TailLeaf, LeafOpening, Index, HKey
  <1>2. 0 \in Index /\ 1 \in Index
    BY DEF Index
  <1>3. NoLeaf \notin LeafOpening /\ NoLeaf \notin FlattenedLeaf
    BY DEF LeafOpening, FlattenedLeaf, Index
  <1>4. leaves \in [Index -> LeafOpening \cup {NoLeaf}]
    BY <1>1 DEF Init
  <1>5. /\ index[HeadKey] = [leaf_index |-> 0, leaf_value |-> NoValue]
        /\ index[TailKey] = [leaf_index |-> 1, leaf_value |-> NoValue]
        /\ \A k \in HKey \ {HeadKey, TailKey} : index[k] = NoLeaf
    BY <1>0 DEF Init
  <1>6. index[HeadKey] \in FlattenedLeaf /\ index[TailKey] \in FlattenedLeaf
    BY <1>5, <1>2 DEF FlattenedLeaf
  <1>7. index \in [HKey -> FlattenedLeaf \cup {NoLeaf}]
    BY <1>5, <1>6 DEF Init
  <1>8. Live = {HeadKey, TailKey}
    BY <1>0, <1>3, <1>5, <1>6 DEF Live
  <1>9. leaves[0] = HeadLeaf /\ leaves[1] = TailLeaf /\ \A i \in Index \ {0, 1} : leaves[i] = NoLeaf
    BY <1>2 DEF Init
  <1>10. TypeOK
    BY <1>4, <1>7 DEF TypeOK, Init, Index
  <1>11. Fresh
    BY <1>9 DEF Fresh, Init, Index
  <1>12. IndexMatchesLeaves
    BY <1>0, <1>1, <1>3, <1>5, <1>6, <1>8, <1>9 DEF IndexMatchesLeaves, IndexOf, HeadLeaf, TailLeaf
  <1>13. PrevLinksSorted
    BY <1>0, <1>5, <1>8, <1>9, KeyOrder DEF PrevLinksSorted, IndexOf, TailLeaf
  <1> QED BY <1>8, <1>10, <1>11, <1>12, <1>13 DEF TrieInv, EndsLive

----------------------------------------------------------------------------
\* An insertion writes three different leaves and nothing else.
LEMMA InsertPointwise ==
    ASSUME TrieInv, NEW k \in Key, NEW v \in Value, Insert(k, v)
    PROVE  \E l, r \in Live :
              /\ Nearest(k, l, r)
              /\ leaves' \in [Index -> LeafOpening \cup {NoLeaf}]
              /\ leaves'[IndexOf(l)] = NewNextLeaf(leaves[IndexOf(l)], nextFree)
              /\ leaves'[IndexOf(r)] = NewPrevLeaf(leaves[IndexOf(r)], nextFree)
              /\ leaves'[nextFree] = [hkey |-> k, hval |-> v,
                                      prev_leaf |-> IndexOf(l), next_leaf |-> IndexOf(r)]
              /\ leaves'[nextFree] \in LeafOpening
              /\ \A i \in Index \ {IndexOf(l), IndexOf(r), nextFree} : leaves'[i] = leaves[i]
  <1>1. PICK l \in HKey, r \in HKey :
           /\ Nearest(k, l, r)
           /\ leaves' = [leaves EXCEPT
                ![IndexOf(l)] = NewNextLeaf(@, nextFree),
                ![nextFree]   = [hkey |-> k, hval |-> v,
                                 prev_leaf |-> IndexOf(l), next_leaf |-> IndexOf(r)],
                ![IndexOf(r)] = NewPrevLeaf(@, nextFree)]
    BY DEF Insert
  <1> DEFINE a == IndexOf(l)
             c == IndexOf(r)
             new == [hkey |-> k, hval |-> v, prev_leaf |-> a, next_leaf |-> c]
  <1>2. l \in Live /\ r \in Live /\ l # r
    BY <1>1, KeyOrder DEF Nearest
  <1>3. /\ a \in Index /\ c \in Index /\ a # c
        /\ a < nextFree /\ c < nextFree
        /\ leaves[a] \in LeafOpening /\ leaves[c] \in LeafOpening
    BY <1>2, LiveIndices
  <1>4. nextFree \in Index /\ a # nextFree /\ c # nextFree
    BY <1>3 DEF Insert, TrieInv, TypeOK, Index
  <1>5. new \in LeafOpening
    BY <1>3, KeyOrder DEF LeafOpening
  <1>6. NewNextLeaf(leaves[a], nextFree) \in LeafOpening
    BY <1>3, <1>4, LinkForms
  <1>7. NewPrevLeaf(leaves[c], nextFree) \in LeafOpening
    BY <1>3, <1>4, LinkForms
  <1>8. leaves \in [Index -> LeafOpening \cup {NoLeaf}]
    BY DEF TrieInv, TypeOK
  <1> HIDE DEF a, c, new
  <1>9. leaves' = [leaves EXCEPT ![a] = NewNextLeaf(@, nextFree), ![nextFree] = new,
                                 ![c] = NewPrevLeaf(@, nextFree)]
    BY <1>1 DEF a, c, new
  <1>10. /\ leaves'[a] = NewNextLeaf(leaves[a], nextFree)
         /\ leaves'[c] = NewPrevLeaf(leaves[c], nextFree)
         /\ leaves'[nextFree] = new
         /\ \A i \in Index \ {a, c, nextFree} : leaves'[i] = leaves[i]
         /\ leaves' \in [Index -> LeafOpening \cup {NoLeaf}]
    BY <1>3, <1>4, <1>5, <1>6, <1>7, <1>8, <1>9
  <1> QED BY <1>1, <1>2, <1>5, <1>10 DEF a, c, new

\* A removal empties one leaf and writes its two neighbours.
LEMMA RemovePointwise ==
    ASSUME TrieInv, NEW k \in Key, Remove(k)
    PROVE  \E l, r \in Live :
              /\ Nearest(k, l, r)
              /\ leaves' \in [Index -> LeafOpening \cup {NoLeaf}]
              /\ leaves'[IndexOf(l)] = NewNextLeaf(leaves[IndexOf(l)], IndexOf(r))
              /\ leaves'[IndexOf(r)] = NewPrevLeaf(leaves[IndexOf(r)], IndexOf(l))
              /\ leaves'[IndexOf(k)] = NoLeaf
              /\ \A i \in Index \ {IndexOf(l), IndexOf(r), IndexOf(k)} : leaves'[i] = leaves[i]
  <1>1. PICK l \in HKey, r \in HKey :
           /\ Nearest(k, l, r)
           /\ leaves' = [leaves EXCEPT
                ![IndexOf(l)] = NewNextLeaf(@, IndexOf(r)),
                ![IndexOf(k)] = NoLeaf,
                ![IndexOf(r)] = NewPrevLeaf(@, IndexOf(l))]
    BY DEF Remove
  <1> DEFINE a == IndexOf(l)
             b == IndexOf(k)
             c == IndexOf(r)
  <1>2. l \in Live /\ r \in Live /\ k \in Live /\ l # r /\ l # k /\ r # k
    BY <1>1, KeyOrder DEF Nearest, Remove, Live
  <1>3. /\ a \in Index /\ b \in Index /\ c \in Index
        /\ a # b /\ a # c /\ b # c
        /\ leaves[a] \in LeafOpening /\ leaves[c] \in LeafOpening
    BY <1>2, LiveIndices
  <1>4. NewNextLeaf(leaves[a], c) \in LeafOpening
    BY <1>3, LinkForms
  <1>5. NewPrevLeaf(leaves[c], a) \in LeafOpening
    BY <1>3, LinkForms
  <1>6. leaves \in [Index -> LeafOpening \cup {NoLeaf}]
    BY DEF TrieInv, TypeOK
  <1> HIDE DEF a, b, c
  <1>7. leaves' = [leaves EXCEPT ![a] = NewNextLeaf(@, c), ![b] = NoLeaf,
                                 ![c] = NewPrevLeaf(@, a)]
    BY <1>1 DEF a, b, c
  <1>8. /\ leaves'[a] = NewNextLeaf(leaves[a], c)
        /\ leaves'[c] = NewPrevLeaf(leaves[c], a)
        /\ leaves'[b] = NoLeaf
        /\ \A i \in Index \ {a, c, b} : leaves'[i] = leaves[i]
        /\ leaves' \in [Index -> LeafOpening \cup {NoLeaf}]
    BY <1>3, <1>4, <1>5, <1>6, <1>7
  <1> QED BY <1>1, <1>2, <1>8 DEF a, b, c

----------------------------------------------------------------------------
\* The trie's invariant after an insertion.
LEMMA InsertInv ==
    ASSUME TrieInv, NEW k \in Key, NEW v \in Value, Insert(k, v)
    PROVE  TrieInv'
  <1>1. PICK l \in Live, r \in Live :
              /\ Nearest(k, l, r)
              /\ leaves' \in [Index -> LeafOpening \cup {NoLeaf}]
              /\ leaves'[IndexOf(l)] = NewNextLeaf(leaves[IndexOf(l)], nextFree)
              /\ leaves'[IndexOf(r)] = NewPrevLeaf(leaves[IndexOf(r)], nextFree)
              /\ leaves'[nextFree] = [hkey |-> k, hval |-> v,
                                      prev_leaf |-> IndexOf(l), next_leaf |-> IndexOf(r)]
              /\ leaves'[nextFree] \in LeafOpening
              /\ \A i \in Index \ {IndexOf(l), IndexOf(r), nextFree} : leaves'[i] = leaves[i]
    BY InsertPointwise
  <1>2. /\ nextFree \in Index
        /\ nextFree' = nextFree + 1
        /\ nextFree' \in 2 .. (Capacity + 1)
        /\ k \in HKey \ Live
        /\ k # HeadKey
    <2>1. k \in HKey /\ k # HeadKey
      BY KeyOrder
    <2>2. k \notin Live
      BY DEF Insert, Live
    <2>3. nextFree \in 2 .. (Capacity + 1) /\ nextFree <= Capacity /\ nextFree' = nextFree + 1
      BY DEF Insert, TrieInv, TypeOK
    <2> QED BY <2>1, <2>2, <2>3, TrieAssumption DEF Index
  <1>3. /\ index'[k] = [leaf_index |-> nextFree, leaf_value |-> v]
        /\ index'[k] \in FlattenedLeaf
        /\ \A j \in HKey \ {k} : index'[j] = index[j]
        /\ index' \in [HKey -> FlattenedLeaf \cup {NoLeaf}]
    BY <1>2 DEF Insert, TrieInv, TypeOK, FlattenedLeaf
  <1>4. NoLeaf \notin LeafOpening /\ NoLeaf \notin FlattenedLeaf
    BY TrieAssumption DEF LeafOpening, FlattenedLeaf, Index
  <1>5. /\ Live' = Live \cup {k}
        /\ IndexOf(k)' = nextFree
        /\ \A j \in Live : IndexOf(j)' = IndexOf(j) /\ index'[j] = index[j]
    BY <1>2, <1>3, <1>4 DEF Live, IndexOf
  <1>6. TypeOK'
    BY <1>1, <1>2, <1>3 DEF TypeOK, TrieInv, Insert
  <1>7. EndsLive'
    BY <1>5 DEF EndsLive, TrieInv
  <1>8. \A j \in Live : /\ IndexOf(j) \in Index /\ IndexOf(j) < nextFree
                        /\ leaves[IndexOf(j)] \in LeafOpening
                        /\ leaves[IndexOf(j)].hkey = j
                        /\ leaves[IndexOf(j)].hval = index[j].leaf_value
    BY LiveIndices
  <1>9. \A i, j \in Live : i # j => IndexOf(i) # IndexOf(j)
    BY LiveIndices
  <1>a. /\ leaves'[IndexOf(l)] \in LeafOpening
        /\ leaves'[IndexOf(l)].hkey = l
        /\ leaves'[IndexOf(l)].hval = index[l].leaf_value
        /\ leaves'[IndexOf(l)].prev_leaf = leaves[IndexOf(l)].prev_leaf
    <2>1. leaves[IndexOf(l)] \in LeafOpening /\ nextFree \in Index
      BY <1>2, <1>8
    <2>2. LET leaf == NewNextLeaf(leaves[IndexOf(l)], nextFree) IN
             /\ leaf \in LeafOpening
             /\ leaf.hkey = leaves[IndexOf(l)].hkey
             /\ leaf.hval = leaves[IndexOf(l)].hval
             /\ leaf.prev_leaf = leaves[IndexOf(l)].prev_leaf
      BY <2>1, LinkForms
    <2>3. leaves'[IndexOf(l)] = NewNextLeaf(leaves[IndexOf(l)], nextFree)
      BY <1>1
    <2> QED BY <1>8, <2>2, <2>3
  <1>b. /\ leaves'[IndexOf(r)] \in LeafOpening
        /\ leaves'[IndexOf(r)].hkey = r
        /\ leaves'[IndexOf(r)].hval = index[r].leaf_value
        /\ leaves'[IndexOf(r)].prev_leaf = nextFree
    <2>1. leaves[IndexOf(r)] \in LeafOpening /\ nextFree \in Index
      BY <1>2, <1>8
    <2>2. LET leaf == NewPrevLeaf(leaves[IndexOf(r)], nextFree) IN
             /\ leaf \in LeafOpening
             /\ leaf.hkey = leaves[IndexOf(r)].hkey
             /\ leaf.hval = leaves[IndexOf(r)].hval
             /\ leaf.prev_leaf = nextFree
      BY <2>1, LinkForms
    <2>3. leaves'[IndexOf(r)] = NewPrevLeaf(leaves[IndexOf(r)], nextFree)
      BY <1>1
    <2> QED BY <1>8, <2>2, <2>3
  <1>10. Fresh'
    <2> SUFFICES ASSUME NEW i \in Index, i >= nextFree + 1
                 PROVE  leaves'[i] = NoLeaf
      BY <1>2 DEF Fresh
    <2>1. i \in Nat /\ nextFree \in Nat
      BY <1>2 DEF Index
    <2>2. i \notin {IndexOf(l), IndexOf(r), nextFree} /\ i >= nextFree
      BY <1>8, <2>1 DEF Index
    <2> QED BY <1>1, <2>2 DEF TrieInv, Fresh
  \* What each surviving key finds at its index.
  <1>11. ASSUME NEW j \in Live
         PROVE  /\ leaves'[IndexOf(j)] \in LeafOpening
                /\ leaves'[IndexOf(j)].hkey = j
                /\ leaves'[IndexOf(j)].hval = index[j].leaf_value
                /\ j # r => leaves'[IndexOf(j)].prev_leaf = leaves[IndexOf(j)].prev_leaf
    <2>0. nextFree \in Nat /\ IndexOf(j) \in Nat /\ IndexOf(j) # nextFree
      BY <1>2, <1>8 DEF Index
    <2>1. CASE j = l
      BY <1>a, <2>1
    <2>2. CASE j = r
      BY <1>b, <2>2
    <2>3. CASE j # l /\ j # r
      BY <1>1, <1>8, <1>9, <2>0, <2>3
    <2> QED BY <2>1, <2>2, <2>3
  <1>12. IndexMatchesLeaves'
    <2>1. ASSUME NEW j \in Live'
          PROVE  /\ leaves'[IndexOf(j)'] # NoLeaf
                 /\ leaves'[IndexOf(j)'].hkey = j
                 /\ leaves'[IndexOf(j)'].hval = index'[j].leaf_value
      <3>1. CASE j \in Live
        BY <1>4, <1>5, <1>11, <3>1
      <3>2. CASE j = k
        BY <1>1, <1>3, <1>4, <1>5, <3>2
      <3> QED BY <1>5, <3>1, <3>2
    <2>2. ASSUME NEW i \in Index, leaves'[i] # NoLeaf
          PROVE  /\ index'[leaves'[i].hkey] # NoLeaf
                 /\ index'[leaves'[i].hkey].leaf_index = i
      <3>1. CASE i = nextFree
        <4>1. leaves'[nextFree].hkey = k
          BY <1>1
        <4>2. index'[k] # NoLeaf /\ index'[k].leaf_index = nextFree
          BY <1>3, <1>4
        <4> QED BY <3>1, <4>1, <4>2
      <3>2. CASE i # nextFree
        <4>1. leaves[i] # NoLeaf /\ leaves'[i].hkey = leaves[i].hkey
          BY <1>1, <1>4, <1>8, <1>11, <2>2, <3>2
        <4>2. leaves[i] \in LeafOpening
          BY <4>1 DEF TrieInv, TypeOK
        <4>3. leaves[i].hkey \in Live /\ IndexOf(leaves[i].hkey) = i
          BY <4>1, <4>2 DEF TrieInv, IndexMatchesLeaves, Live, LeafOpening
        <4>4. index'[leaves[i].hkey] # NoLeaf /\ index'[leaves[i].hkey].leaf_index = i
          BY <1>5, <4>3 DEF Live, IndexOf
        <4> QED BY <4>1, <4>4
      <3> QED BY <3>1, <3>2
    <2> QED BY <2>1, <2>2 DEF IndexMatchesLeaves, IndexOf
  <1>13. PrevLinksSorted'
    <2> SUFFICES ASSUME NEW j \in Live', j # HeadKey
                 PROVE  \E p \in Live' : /\ p < j
                                         /\ \A i \in Live' : i <= p \/ i >= j
                                         /\ leaves'[IndexOf(j)'].prev_leaf = IndexOf(p)'
      BY DEF PrevLinksSorted
    <2>1. Live' \subseteq Nat
      BY <1>2, <1>5, KeyOrder DEF Live
    <2>2. CASE j = k
      BY <1>1, <1>5, <2>1, <2>2 DEF Nearest
    <2>3. CASE j = r
      <3>1. r # k /\ leaves'[IndexOf(r)'].prev_leaf = IndexOf(k)'
        BY <1>2, <1>5, <1>b
      <3> QED BY <1>1, <1>5, <2>1, <2>3, <3>1 DEF Nearest
    <2>4. CASE j # k /\ j # r
      <3>1. j \in Live
        BY <1>5, <2>4
      <3>2. PICK p \in Live : /\ p < j
                              /\ \A i \in Live : i <= p \/ i >= j
                              /\ leaves[IndexOf(j)].prev_leaf = IndexOf(p)
        BY <3>1 DEF TrieInv, PrevLinksSorted
      <3>3. leaves'[IndexOf(j)'].prev_leaf = IndexOf(p)'
        BY <1>5, <1>11, <2>4, <3>1, <3>2
      <3>4. k <= p \/ k >= j
        BY <1>1, <1>2, <1>5, <2>1, <2>4, <3>1, <3>2 DEF Nearest
      <3> QED BY <1>5, <3>2, <3>3, <3>4
    <2> QED BY <2>2, <2>3, <2>4
  <1> QED BY <1>6, <1>7, <1>10, <1>12, <1>13 DEF TrieInv

\* The trie's invariant after a removal.
LEMMA RemoveInv ==
    ASSUME TrieInv, NEW k \in Key, Remove(k)
    PROVE  TrieInv'
  <1>1. PICK l \in Live, r \in Live :
              /\ Nearest(k, l, r)
              /\ leaves' \in [Index -> LeafOpening \cup {NoLeaf}]
              /\ leaves'[IndexOf(l)] = NewNextLeaf(leaves[IndexOf(l)], IndexOf(r))
              /\ leaves'[IndexOf(r)] = NewPrevLeaf(leaves[IndexOf(r)], IndexOf(l))
              /\ leaves'[IndexOf(k)] = NoLeaf
              /\ \A i \in Index \ {IndexOf(l), IndexOf(r), IndexOf(k)} : leaves'[i] = leaves[i]
    BY RemovePointwise
  <1>2. k \in Live /\ k # HeadKey /\ k # TailKey /\ UNCHANGED <<nextFree, answer>>
    BY KeyOrder DEF Remove, Live
  <1>3. /\ index'[k] = NoLeaf
        /\ \A j \in HKey \ {k} : index'[j] = index[j]
        /\ index' \in [HKey -> FlattenedLeaf \cup {NoLeaf}]
    BY KeyOrder DEF Remove, TrieInv, TypeOK
  <1>4. NoLeaf \notin LeafOpening
    BY TrieAssumption DEF LeafOpening, Index
  <1>5. /\ Live' = Live \ {k}
        /\ \A j \in Live \ {k} : IndexOf(j)' = IndexOf(j) /\ index'[j] = index[j]
    BY <1>3 DEF Live, IndexOf
  <1>6. TypeOK'
    BY <1>1, <1>2, <1>3 DEF TypeOK, TrieInv
  <1>7. EndsLive'
    BY <1>2, <1>5 DEF EndsLive, TrieInv
  <1>8. \A j \in Live : /\ IndexOf(j) \in Index /\ IndexOf(j) < nextFree
                        /\ leaves[IndexOf(j)] \in LeafOpening
                        /\ leaves[IndexOf(j)].hkey = j
                        /\ leaves[IndexOf(j)].hval = index[j].leaf_value
    BY LiveIndices
  <1>9. \A i, j \in Live : i # j => IndexOf(i) # IndexOf(j)
    BY LiveIndices
  <1>a. /\ leaves'[IndexOf(l)] \in LeafOpening
        /\ leaves'[IndexOf(l)].hkey = l
        /\ leaves'[IndexOf(l)].hval = index[l].leaf_value
        /\ leaves'[IndexOf(l)].prev_leaf = leaves[IndexOf(l)].prev_leaf
    <2>1. leaves[IndexOf(l)] \in LeafOpening /\ IndexOf(r) \in Index
      BY <1>8
    <2>2. LET leaf == NewNextLeaf(leaves[IndexOf(l)], IndexOf(r)) IN
             /\ leaf \in LeafOpening
             /\ leaf.hkey = leaves[IndexOf(l)].hkey
             /\ leaf.hval = leaves[IndexOf(l)].hval
             /\ leaf.prev_leaf = leaves[IndexOf(l)].prev_leaf
      BY <2>1, LinkForms
    <2>3. leaves'[IndexOf(l)] = NewNextLeaf(leaves[IndexOf(l)], IndexOf(r))
      BY <1>1
    <2> QED BY <1>8, <2>2, <2>3
  <1>b. /\ leaves'[IndexOf(r)] \in LeafOpening
        /\ leaves'[IndexOf(r)].hkey = r
        /\ leaves'[IndexOf(r)].hval = index[r].leaf_value
        /\ leaves'[IndexOf(r)].prev_leaf = IndexOf(l)
    <2>1. leaves[IndexOf(r)] \in LeafOpening /\ IndexOf(l) \in Index
      BY <1>8
    <2>2. LET leaf == NewPrevLeaf(leaves[IndexOf(r)], IndexOf(l)) IN
             /\ leaf \in LeafOpening
             /\ leaf.hkey = leaves[IndexOf(r)].hkey
             /\ leaf.hval = leaves[IndexOf(r)].hval
             /\ leaf.prev_leaf = IndexOf(l)
      BY <2>1, LinkForms
    <2>3. leaves'[IndexOf(r)] = NewPrevLeaf(leaves[IndexOf(r)], IndexOf(l))
      BY <1>1
    <2> QED BY <1>8, <2>2, <2>3
  <1>10. Fresh'
    <2> SUFFICES ASSUME NEW i \in Index, i >= nextFree
                 PROVE  leaves'[i] = NoLeaf
      BY <1>2 DEF Fresh
    <2>1. i \in Nat /\ nextFree \in Nat
      BY DEF Index, TrieInv, TypeOK
    <2>2. i \notin {IndexOf(l), IndexOf(r), IndexOf(k)}
      BY <1>2, <1>8, <2>1 DEF Index
    <2> QED BY <1>1, <2>2 DEF TrieInv, Fresh
  <1>11. ASSUME NEW j \in Live \ {k}
         PROVE  /\ leaves'[IndexOf(j)] \in LeafOpening
                /\ leaves'[IndexOf(j)].hkey = j
                /\ leaves'[IndexOf(j)].hval = index[j].leaf_value
                /\ j # r => leaves'[IndexOf(j)].prev_leaf = leaves[IndexOf(j)].prev_leaf
    <2>1. CASE j = l
      BY <1>a, <2>1
    <2>2. CASE j = r
      BY <1>b, <2>2
    <2>3. CASE j # l /\ j # r
      BY <1>1, <1>2, <1>8, <1>9, <2>3
    <2> QED BY <2>1, <2>2, <2>3
  <1>12. IndexMatchesLeaves'
    <2>1. ASSUME NEW j \in Live'
          PROVE  /\ leaves'[IndexOf(j)'] # NoLeaf
                 /\ leaves'[IndexOf(j)'].hkey = j
                 /\ leaves'[IndexOf(j)'].hval = index'[j].leaf_value
      BY <1>4, <1>5, <1>11
    <2>2. ASSUME NEW i \in Index, leaves'[i] # NoLeaf
          PROVE  /\ index'[leaves'[i].hkey] # NoLeaf
                 /\ index'[leaves'[i].hkey].leaf_index = i
      <3>1. i # IndexOf(k)
        BY <1>1, <2>2
      <3>2. leaves[i] # NoLeaf /\ leaves'[i].hkey = leaves[i].hkey
        BY <1>1, <1>4, <1>8, <1>a, <1>b, <2>2, <3>1
      <3>3. leaves[i] \in LeafOpening
        BY <3>2 DEF TrieInv, TypeOK
      <3>4. leaves[i].hkey \in Live /\ IndexOf(leaves[i].hkey) = i
        BY <3>2, <3>3 DEF TrieInv, IndexMatchesLeaves, Live, LeafOpening
      <3>5. leaves[i].hkey \in Live \ {k}
        BY <3>1, <3>4
      <3>6. index'[leaves[i].hkey] # NoLeaf /\ index'[leaves[i].hkey].leaf_index = i
        BY <1>5, <3>4, <3>5 DEF Live, IndexOf
      <3> QED BY <3>2, <3>6
    <2> QED BY <2>1, <2>2 DEF IndexMatchesLeaves, IndexOf
  <1>13. PrevLinksSorted'
    <2> SUFFICES ASSUME NEW j \in Live', j # HeadKey
                 PROVE  \E p \in Live' : /\ p < j
                                         /\ \A i \in Live' : i <= p \/ i >= j
                                         /\ leaves'[IndexOf(j)'].prev_leaf = IndexOf(p)'
      BY DEF PrevLinksSorted
    <2>1. Live \subseteq Nat /\ k \in Nat /\ j \in Live /\ j # k
      BY <1>2, <1>5, KeyOrder DEF Live
    <2>2. l # k /\ r # k /\ l < r
      BY <1>1, <2>1 DEF Nearest
    <2>3. CASE j = r
      BY <1>1, <1>5, <1>b, <2>1, <2>2, <2>3 DEF Nearest
    <2>4. CASE j # r
      <3>1. PICK p \in Live : /\ p < j
                              /\ \A i \in Live : i <= p \/ i >= j
                              /\ leaves[IndexOf(j)].prev_leaf = IndexOf(p)
        BY <2>1 DEF TrieInv, PrevLinksSorted
      <3>2. p # k
        BY <1>1, <2>1, <2>4, <3>1 DEF Nearest
      <3>3. leaves'[IndexOf(j)'].prev_leaf = IndexOf(p)'
        BY <1>5, <1>11, <2>1, <2>4, <3>1, <3>2
      <3> QED BY <1>5, <3>1, <3>2, <3>3
    <2> QED BY <2>3, <2>4
  <1> QED BY <1>6, <1>7, <1>10, <1>12, <1>13 DEF TrieInv

\* The trie's invariant after an update.
LEMMA UpdateInv ==
    ASSUME TrieInv, NEW k \in Key, NEW v \in Value, Update(k, v)
    PROVE  TrieInv'
  <1>1. k \in Live /\ k \in HKey /\ UNCHANGED <<nextFree, answer>>
    BY KeyOrder DEF Update, Live
  <1>2. \A j \in Live : /\ IndexOf(j) \in Index /\ IndexOf(j) < nextFree
                        /\ index[j] \in FlattenedLeaf
                        /\ leaves[IndexOf(j)] \in LeafOpening
                        /\ leaves[IndexOf(j)].hkey = j
                        /\ leaves[IndexOf(j)].hval = index[j].leaf_value
    BY LiveIndices
  <1>3. \A i, j \in Live : i # j => IndexOf(i) # IndexOf(j)
    BY LiveIndices
  <1>4. /\ index'[k] \in FlattenedLeaf
        /\ index'[k].leaf_index = IndexOf(k)
        /\ index'[k].leaf_value = v
        /\ \A j \in HKey \ {k} : index'[j] = index[j]
        /\ index' \in [HKey -> FlattenedLeaf \cup {NoLeaf}]
    <2>1. index[k] \in FlattenedLeaf /\ index \in [HKey -> FlattenedLeaf \cup {NoLeaf}]
      BY <1>1, <1>2 DEF TrieInv, TypeOK
    <2>2. index' = [index EXCEPT ![k] = [index[k] EXCEPT !.leaf_value = v]]
      BY DEF Update
    <2>3. [index[k] EXCEPT !.leaf_value = v] \in FlattenedLeaf
      BY <2>1 DEF FlattenedLeaf
    <2>4. /\ [index[k] EXCEPT !.leaf_value = v].leaf_index = index[k].leaf_index
          /\ [index[k] EXCEPT !.leaf_value = v].leaf_value = v
      BY <2>1 DEF FlattenedLeaf
    <2> QED BY <1>1, <2>1, <2>2, <2>3, <2>4 DEF IndexOf
  <1>5. /\ NewHval(leaves[IndexOf(k)], v) \in LeafOpening
        /\ NewHval(leaves[IndexOf(k)], v).hkey = k
        /\ NewHval(leaves[IndexOf(k)], v).hval = v
        /\ NewHval(leaves[IndexOf(k)], v).prev_leaf = leaves[IndexOf(k)].prev_leaf
    <2>1. leaves[IndexOf(k)] \in LeafOpening /\ leaves[IndexOf(k)].hkey = k
      BY <1>1, <1>2
    <2> QED BY <2>1, ValueForm
  <1>6. /\ leaves'[IndexOf(k)] = NewHval(leaves[IndexOf(k)], v)
        /\ \A i \in Index \ {IndexOf(k)} : leaves'[i] = leaves[i]
        /\ leaves' \in [Index -> LeafOpening \cup {NoLeaf}]
    BY <1>1, <1>2, <1>5 DEF Update, TrieInv, TypeOK
  <1>7. NoLeaf \notin LeafOpening /\ NoLeaf \notin FlattenedLeaf
    BY TrieAssumption DEF LeafOpening, FlattenedLeaf, Index
  <1>8. Live' = Live /\ \A j \in Live : IndexOf(j)' = IndexOf(j)
    BY <1>1, <1>4, <1>7 DEF Live, IndexOf
  <1>9. ASSUME NEW j \in Live
        PROVE  /\ leaves'[IndexOf(j)] \in LeafOpening
               /\ leaves'[IndexOf(j)].hkey = j
               /\ leaves'[IndexOf(j)].hval = index'[j].leaf_value
               /\ leaves'[IndexOf(j)].prev_leaf = leaves[IndexOf(j)].prev_leaf
    <2>1. CASE j = k
      BY <1>4, <1>5, <1>6, <2>1
    <2>2. CASE j # k
      BY <1>1, <1>2, <1>3, <1>4, <1>6, <2>2 DEF Live
    <2> QED BY <2>1, <2>2
  <1>10. TypeOK'
    BY <1>1, <1>4, <1>6 DEF TypeOK, TrieInv
  <1>11. EndsLive'
    BY <1>8 DEF EndsLive, TrieInv
  <1>12. Fresh'
    <2> SUFFICES ASSUME NEW i \in Index, i >= nextFree
                 PROVE  leaves'[i] = NoLeaf
      BY <1>1 DEF Fresh
    <2>1. i # IndexOf(k)
      BY <1>1, <1>2 DEF Index, TrieInv, TypeOK
    <2> QED BY <1>6, <2>1 DEF TrieInv, Fresh
  <1>13. IndexMatchesLeaves'
    <2>1. ASSUME NEW j \in Live'
          PROVE  /\ leaves'[IndexOf(j)'] # NoLeaf
                 /\ leaves'[IndexOf(j)'].hkey = j
                 /\ leaves'[IndexOf(j)'].hval = index'[j].leaf_value
      BY <1>7, <1>8, <1>9
    <2>2. ASSUME NEW i \in Index, leaves'[i] # NoLeaf
          PROVE  /\ index'[leaves'[i].hkey] # NoLeaf
                 /\ index'[leaves'[i].hkey].leaf_index = i
      <3>1. leaves[i] # NoLeaf /\ leaves'[i].hkey = leaves[i].hkey
        BY <1>1, <1>2, <1>5, <1>6, <1>7, <2>2
      <3>2. leaves[i] \in LeafOpening
        BY <3>1 DEF TrieInv, TypeOK
      <3>3. leaves[i].hkey \in Live /\ IndexOf(leaves[i].hkey) = i
        BY <3>1, <3>2 DEF TrieInv, IndexMatchesLeaves, Live, LeafOpening
      <3>4. index'[leaves[i].hkey] # NoLeaf /\ index'[leaves[i].hkey].leaf_index = i
        BY <1>8, <3>3 DEF Live, IndexOf
      <3> QED BY <3>1, <3>4
    <2> QED BY <2>1, <2>2 DEF IndexMatchesLeaves, IndexOf
  <1>14. PrevLinksSorted'
    <2> SUFFICES ASSUME NEW j \in Live', j # HeadKey
                 PROVE  \E p \in Live' : /\ p < j
                                         /\ \A i \in Live' : i <= p \/ i >= j
                                         /\ leaves'[IndexOf(j)'].prev_leaf = IndexOf(p)'
      BY DEF PrevLinksSorted
    <2>1. PICK p \in Live : /\ p < j
                            /\ \A i \in Live : i <= p \/ i >= j
                            /\ leaves[IndexOf(j)].prev_leaf = IndexOf(p)
      BY <1>8 DEF TrieInv, PrevLinksSorted
    <2> QED BY <1>8, <1>9, <2>1
  <1> QED BY <1>10, <1>11, <1>12, <1>13, <1>14 DEF TrieInv

----------------------------------------------------------------------------
\* Every operation keeps the invariant.
LEMMA StepInv == TrieInv /\ [Next]_vars => TrieInv'
  <1> SUFFICES ASSUME TrieInv, [Next]_vars
               PROVE  TrieInv'
    OBVIOUS
  <1>1. CASE UNCHANGED vars
    BY <1>1 DEF vars, TrieInv, TypeOK, EndsLive, Fresh, IndexMatchesLeaves, PrevLinksSorted,
                Live, IndexOf
  <1>2. ASSUME NEW k \in Key, NEW v \in Value, Insert(k, v)
        PROVE  TrieInv'
    BY <1>2, InsertInv
  <1>3. ASSUME NEW k \in Key, NEW v \in Value, Update(k, v)
        PROVE  TrieInv'
    BY <1>3, UpdateInv
  <1>4. ASSUME NEW k \in Key, Remove(k)
        PROVE  TrieInv'
    BY <1>4, RemoveInv
  <1>5. ASSUME NEW k \in Key, RemoveAbsent(k)
        PROVE  TrieInv'
    BY <1>1, <1>5 DEF RemoveAbsent
  <1>6. ASSUME NEW k \in Key, Read(k)
        PROVE  TrieInv'
    <2>1. answer' \in Value \cup {NoValue}
      <3>1. index[k] = NoLeaf \/ index[k] \in FlattenedLeaf
        BY KeyOrder DEF TrieInv, TypeOK
      <3> QED BY <1>6, <3>1 DEF Read, FlattenedLeaf
    <2>2. UNCHANGED <<leaves, nextFree, index>>
      BY <1>6 DEF Read
    <2> QED BY <2>1, <2>2 DEF TrieInv, TypeOK, EndsLive, Fresh, IndexMatchesLeaves,
                              PrevLinksSorted, Live, IndexOf
  <1> QED BY <1>1, <1>2, <1>3, <1>4, <1>5, <1>6 DEF Next

\* The inductive invariant holds of every reachable trie.
THEOREM TrieInvariant == Spec => []TrieInv
  <1>1. Init => TrieInv
    BY InitInv
  <1>2. TrieInv /\ [Next]_vars => TrieInv'
    BY StepInv
  <1> QED BY <1>1, <1>2, PTL DEF Spec

\* ZkTrie never stores a malformed leaf or index entry, whatever is put and removed.
THEOREM TrieTypeCorrect == Spec => []TypeOK
  <1>1. TrieInv => TypeOK
    BY DEF TrieInv
  <1> QED BY <1>1, TrieInvariant, PTL

\* The flattened index of the Database and the committed leaves never disagree.
THEOREM IndexCorrect == Spec => []IndexMatchesLeaves
  <1>1. TrieInv => IndexMatchesLeaves
    BY DEF TrieInv
  <1> QED BY <1>1, TrieInvariant, PTL

\* From the tail, the prev links visit every key in descending order.
THEOREM PrevLinksCorrect == Spec => []PrevLinksSorted
  <1>1. TrieInv => PrevLinksSorted
    BY DEF TrieInv
  <1> QED BY <1>1, TrieInvariant, PTL

\* increment_next_free_leaf_node_index never leads back to a freed index.
THEOREM FreedStaysFree == Spec => IndicesNotReused
  <1>1. ASSUME TrieInv, Next, NEW i \in Index, i < nextFree
        PROVE  i < nextFree'
    <2>1. nextFree \in Int /\ i \in Int
      BY <1>1, TrieAssumption DEF TrieInv, TypeOK, Index
    <2>2. nextFree' = nextFree \/ nextFree' = nextFree + 1
      BY <1>1 DEF Next, Insert, Update, Remove, RemoveAbsent, Read, vars
    <2> QED BY <1>1, <2>1, <2>2
  <1>2. ASSUME TrieInv, Next, NEW i \in Index, i < nextFree, leaves[i] = NoLeaf
        PROVE  leaves'[i] = NoLeaf
    <2> USE <1>2
    <2>1. NoLeaf \notin LeafOpening
      BY TrieAssumption DEF LeafOpening, Index
    <2>2. \A j \in Live : leaves[IndexOf(j)] \in LeafOpening
      BY LiveIndices
    <2>3. ASSUME NEW k \in Key, NEW v \in Value, Insert(k, v)
          PROVE  leaves'[i] = NoLeaf
      <3>1. i # nextFree
        BY DEF TrieInv, TypeOK, Index
      <3> QED BY <2>1, <2>2, <2>3, <3>1, InsertPointwise
    <2>4. ASSUME NEW k \in Key, NEW v \in Value, Update(k, v)
          PROVE  leaves'[i] = NoLeaf
      <3>1. k \in Live
        BY <2>4, KeyOrder DEF Update, Live
      <3>2. i # IndexOf(k)
        BY <2>1, <2>2, <3>1
      <3> QED BY <2>4, <3>2 DEF Update, TrieInv, TypeOK
    <2>5. ASSUME NEW k \in Key, Remove(k)
          PROVE  leaves'[i] = NoLeaf
      BY <2>1, <2>2, <2>5, RemovePointwise
    <2>6. ASSUME NEW k \in Key, RemoveAbsent(k) \/ Read(k)
          PROVE  leaves'[i] = NoLeaf
      BY <2>6 DEF RemoveAbsent, Read, vars
    <2> QED BY <2>3, <2>4, <2>5, <2>6 DEF Next
  <1>3. TrieInv /\ [Next]_vars =>
           [\A i \in Index : i < nextFree =>
               /\ i < nextFree'
               /\ leaves[i] = NoLeaf => leaves'[i] = NoLeaf]_vars
    BY <1>1, <1>2
  <1> QED BY <1>3, TrieInvariant, PTL DEF Spec, IndicesNotReused

----------------------------------------------------------------------------
\* What the index says about every key.
Flat == [k \in Key |-> IF index[k] = NoLeaf THEN NoValue ELSE index[k].leaf_value]

\* The leaves hold exactly what the index says.
LEMMA CommittedIsFlat == TrieInv => committed = Flat
  <1> SUFFICES ASSUME TrieInv, NEW k \in Key
               PROVE  committed[k] = Flat[k]
    BY DEF committed, Flat
  <1> DEFINE HoldsKey(i) == leaves[i] # NoLeaf /\ leaves[i].hkey = k
  <1>1. \A i \in Index : HoldsKey(i) => index[k] # NoLeaf /\ IndexOf(k) = i
    BY DEF TrieInv, IndexMatchesLeaves
  <1>2. CASE index[k] = NoLeaf
    <2>1. ~ \E i \in Index : HoldsKey(i)
      BY <1>1, <1>2
    <2> QED BY <1>2, <2>1 DEF committed, Flat
  <1>3. CASE index[k] # NoLeaf
    <2>1. k \in Live
      BY <1>3, KeyOrder DEF Live
    <2>2. /\ IndexOf(k) \in Index
          /\ HoldsKey(IndexOf(k))
          /\ leaves[IndexOf(k)].hval = index[k].leaf_value
      BY <2>1, LiveIndices DEF TrieInv, IndexMatchesLeaves
    <2>3. (CHOOSE i \in Index : HoldsKey(i)) = IndexOf(k)
      BY <1>1, <2>2
    <2> QED BY <1>3, <2>2, <2>3 DEF committed, Flat
  <1> QED BY <1>2, <1>3

\* The state predicate of the lemma above.
CommittedFlat == committed = Flat

\* Every operation on a key changes the committed map as KeyValueMap does for that key.
LEMMA MapCalls ==
  ASSUME TrieInv, CommittedFlat, CommittedFlat', NEW k \in Key
  PROVE  /\ Read(k) => Map!MapRead(k)
         /\ Remove(k) => Map!MapRemove(k)
         /\ \A v \in Value : Insert(k, v) \/ Update(k, v) => Map!MapPut(k, v)
  <1>1. committed = Flat /\ committed' = Flat'
    BY DEF CommittedFlat
  <1>2. index \in [HKey -> FlattenedLeaf \cup {NoLeaf}] /\ Key \subseteq HKey
    BY KeyOrder DEF TrieInv, TypeOK
  <1>3. NoLeaf \notin FlattenedLeaf
    BY TrieAssumption DEF FlattenedLeaf, Index
  <1>4. ASSUME NEW v \in Value, Insert(k, v)
        PROVE  Map!MapPut(k, v)
    <2>1. index'[k] = [leaf_index |-> nextFree, leaf_value |-> v]
      BY <1>2, <1>4 DEF Insert
    <2>2. index'[k] # NoLeaf
      <3>1. nextFree \in Index
        BY <1>4 DEF Insert, TrieInv, TypeOK, Index
      <3> QED BY <1>3, <2>1, <3>1 DEF FlattenedLeaf
    <2>3. \A j \in Key \ {k} : index'[j] = index[j]
      BY <1>2, <1>4 DEF Insert
    <2>4. Flat' = [Flat EXCEPT ![k] = v]
      <3>1. index'[k].leaf_value = v
        BY <2>1
      <3> QED BY <2>2, <2>3, <3>1 DEF Flat
    <2> QED BY <1>1, <1>4, <2>4 DEF Insert, Map!MapPut
  <1>5. ASSUME NEW v \in Value, Update(k, v)
        PROVE  Map!MapPut(k, v)
    <2>1. index[k] \in FlattenedLeaf
      BY <1>2, <1>5 DEF Update
    <2>2. index' = [index EXCEPT ![k] = [index[k] EXCEPT !.leaf_value = v]]
      BY <1>5 DEF Update
    <2>3. index'[k] \in FlattenedLeaf /\ index'[k].leaf_value = v
      BY <1>2, <2>1, <2>2 DEF FlattenedLeaf
    <2>4. \A j \in Key \ {k} : index'[j] = index[j]
      BY <1>2, <2>2
    <2>5. Flat' = [Flat EXCEPT ![k] = v]
      BY <1>3, <2>3, <2>4 DEF Flat
    <2> QED BY <1>1, <1>5, <2>5 DEF Update, Map!MapPut
  <1>6. ASSUME Remove(k)
        PROVE  Map!MapRemove(k)
    <2>1. Flat' = [Flat EXCEPT ![k] = NoValue]
      BY <1>2, <1>6 DEF Remove, Flat
    <2> QED BY <1>1, <1>6, <2>1 DEF Remove, Map!MapRemove
  <1>7. ASSUME Read(k)
        PROVE  Map!MapRead(k)
    BY <1>1, <1>7 DEF Read, Flat, Map!MapRead
  <1> QED BY <1>4, <1>5, <1>6, <1>7

\* A step is one of the map, on the key of its call.
LEMMA MapStep ==
    TrieInv /\ CommittedFlat /\ CommittedFlat' /\ [Next]_vars =>
       /\ [Map!MapNext]_(Map!mapVars)
       /\ [ \A k \in Key :
              /\ Read(k) => Map!MapRead(k)
              /\ Remove(k) => Map!MapRemove(k)
              /\ \A v \in Value : Insert(k, v) \/ Update(k, v) => Map!MapPut(k, v) ]_vars
  <1> SUFFICES ASSUME TrieInv, CommittedFlat, CommittedFlat', [Next]_vars
               PROVE  /\ [Map!MapNext]_(Map!mapVars)
                      /\ \A k \in Key :
                            /\ Read(k) => Map!MapRead(k)
                            /\ Remove(k) => Map!MapRemove(k)
                            /\ \A v \in Value : Insert(k, v) \/ Update(k, v) => Map!MapPut(k, v)
    OBVIOUS
  <1>1. committed = Flat /\ committed' = Flat'
    BY DEF CommittedFlat
  <1>2. UNCHANGED vars => UNCHANGED Map!mapVars
    BY <1>1 DEF vars, Flat, Map!mapVars
  <1>3. ASSUME NEW k \in Key, RemoveAbsent(k)
        PROVE  UNCHANGED vars
    BY <1>3 DEF RemoveAbsent
  <1>4. ASSUME NEW k \in Key
        PROVE  /\ Read(k) => Map!MapNext
               /\ Remove(k) => Map!MapNext
               /\ \A v \in Value : Insert(k, v) \/ Update(k, v) => Map!MapNext
    BY MapCalls DEF Map!MapNext
  <1>5. [Map!MapNext]_(Map!mapVars)
    BY <1>2, <1>3, <1>4 DEF Next
  <1> QED BY <1>5, MapCalls

\* A ZkTrie is the map that the state code takes it for: get answers with the value of the
\* key it is called with, put and remove change that key and no other (trie.rs).
THEOREM MapImplemented == Spec => ImplementsMap
  <1>1. TrieInv => CommittedFlat
    BY CommittedIsFlat DEF CommittedFlat
  <1>2. TrieInv /\ Init => Map!MapInit
    <2> SUFFICES ASSUME TrieInv, Init
                 PROVE  Map!MapInit
      OBVIOUS
    <2>1. ASSUME NEW k \in Key
          PROVE  index[k] = NoLeaf
      <3>1. k \in HKey /\ k # HeadKey /\ k # TailKey
        BY KeyOrder
      <3> QED BY <3>1 DEF Init
    <2>2. Flat = [k \in Key |-> NoValue]
      BY <2>1 DEF Flat
    <2> QED BY <2>2, CommittedIsFlat DEF Init, Map!MapInit
  <1> QED BY <1>1, <1>2, TrieInvariant, MapStep, PTL DEF Spec, ImplementsMap, Map!MapSpec
(* The nodes under a root *)

\* The nodes by the number of levels down from a node.
Reaches(f, node, n) ==
    f = [h \in 0 .. n |-> IF h = 0 THEN {node} ELSE WithChildren(f[h - 1])]

\* The function that NodesOf recurs with exists.
LEMMA ReachesExist ==
  ASSUME NEW node, NEW n \in Nat
  PROVE  \E f : Reaches(f, node, n)
  <1> DEFINE Bad == {m \in Nat : ~\E f : Reaches(f, node, m)}
  <1> SUFFICES ASSUME Bad # {}
               PROVE  FALSE
    OBVIOUS
  <1>1. PICK m \in Bad : \A j \in Bad : m <= j
    <2> HIDE DEF Bad
    <2>1. Bad \subseteq Nat
      BY DEF Bad
    <2> QED
      BY <2>1, LeastNumber
  <1>2. CASE m = 0
    <2> DEFINE g == [h \in 0 .. 0 |-> {node}]
    <2>1. \A h \in 0 .. 0 : g[h] = IF h = 0 THEN {node} ELSE WithChildren(g[h - 1])
      OBVIOUS
    <2>2. Reaches(g, node, 0)
      <3>1. g = [h \in 0 .. 0 |-> g[h]]
        OBVIOUS
      <3> HIDE DEF g
      <3> QED
        BY <2>1, <3>1, Zenon DEF Reaches
    <2> QED
      BY <1>1, <1>2, <2>2
  <1>3. CASE m # 0
    <2>1. m - 1 \in Nat /\ m - 1 \notin Bad /\ m \in Nat
      BY <1>1, <1>3
    <2>2. PICK f : Reaches(f, node, m - 1)
      BY <2>1
    <2> DEFINE g == [h \in 0 .. m |-> IF h = m THEN WithChildren(f[m - 1]) ELSE f[h]]
    <2>3. \A h \in 0 .. m : g[h] = IF h = 0 THEN {node} ELSE WithChildren(g[h - 1])
      <3>1. \A h \in 0 .. m - 1 : f[h] = IF h = 0 THEN {node} ELSE WithChildren(f[h - 1])
        BY <2>2, Zenon DEF Reaches
      <3>2. \A h \in 0 .. m - 1 : g[h] = f[h] /\ (h # 0 => g[h - 1] = f[h - 1])
        BY <2>1
      <3>3. g[m] = WithChildren(f[m - 1]) /\ g[m - 1] = f[m - 1] /\ m # 0
        BY <1>3, <2>1
      <3> HIDE DEF g
      <3>4. ASSUME NEW h \in 0 .. m - 1
            PROVE  g[h] = IF h = 0 THEN {node} ELSE WithChildren(g[h - 1])
        BY <3>1, <3>2, Zenon
      <3>5. \A h \in 0 .. m : h = m \/ h \in 0 .. m - 1
        BY <2>1
      <3>6. g[m] = IF m = 0 THEN {node} ELSE WithChildren(g[m - 1])
        BY <3>3, Zenon
      <3> QED
        BY <3>4, <3>5, <3>6, Zenon
    <2>4. Reaches(g, node, m)
      <3>1. g = [h \in 0 .. m |-> g[h]]
        OBVIOUS
      <3> HIDE DEF g
      <3> QED
        BY <2>3, <3>1, Zenon DEF Reaches
    <2> QED
      BY <1>1, <2>4
  <1> QED
    BY <1>2, <1>3

\* The nodes under the root of a tree are those of a function over the levels.
LEMMA NodesOfDef ==
  ASSUME NEW t
  PROVE  \E reach : /\ reach[0] = {t.root}
                    /\ \A lvl \in 1 .. Depth + 1 : reach[lvl] = WithChildren(reach[lvl - 1])
                    /\ NodesOf(t) = reach[Depth + 1]
  <1> DEFINE s == CHOOSE f : Reaches(f, t.root, Depth + 1)
  <1>1. NodesOf(t) = s[Depth + 1]
    BY DEF NodesOf, Reaches
  <1>2. Reaches(s, t.root, Depth + 1)
    <2>1. Depth + 1 \in Nat
      BY DepthAssumption
    <2> QED
      BY <2>1, ReachesExist, Zenon
  <1> HIDE DEF s
  <1>3. \A h \in 0 .. Depth + 1 : s[h] = IF h = 0 THEN {t.root} ELSE WithChildren(s[h - 1])
    BY <1>2, Zenon DEF Reaches
  <1>4. 0 \in 0 .. Depth + 1 /\ \A h \in 1 .. Depth + 1 : h \in 0 .. Depth + 1 /\ h # 0
    BY DepthAssumption
  <1>5. s[0] = {t.root} /\ \A lvl \in 1 .. Depth + 1 : s[lvl] = WithChildren(s[lvl - 1])
    BY <1>3, <1>4, Zenon
  <1> QED
    BY <1>1, <1>5

\* A branch leads to its children.
LEMMA ChildrenIn ==
  ASSUME NEW S, NEW l, NEW r, Branch(l, r) \in S
  PROVE  S \subseteq WithChildren(S) /\ l \in WithChildren(S) /\ r \in WithChildren(S)
  <1>1. Branch(l, r).kind = "branch" /\ Branch(l, r).left = l /\ Branch(l, r).right = r
    BY DEF Branch
  <1>2. Branch(l, r) \in {b \in S : b.kind = "branch"}
    BY <1>1
  <1>3. {l, r} \in {{n.left, n.right} : n \in {b \in S : b.kind = "branch"}}
    BY <1>1, <1>2
  <1> QED
    BY <1>3 DEF WithChildren

\* The node under a node of a path.
LEMMA PathDown ==
  ASSUME NEW v, NEW i \in Nat, NEW h \in 1 .. Depth
  PROVE  \E l, r : OnPath(v, i, h) = Branch(l, r) /\ (OnPath(v, i, h - 1) = l \/ OnPath(v, i, h - 1) = r)
  <1>1. OnPath(v, i, h) = Branch(Over(v)[h - 1][2 * Halves(i)[h]], Over(v)[h - 1][2 * Halves(i)[h] + 1])
    BY PathBranch
  <1>2. OnPath(v, i, h - 1) = Over(v)[h - 1][Halves(i)[h - 1]]
    BY DEF OnPath
  <1>3. Halves(i)[h - 1] = 2 * Halves(i)[h] \/ Halves(i)[h - 1] = 2 * Halves(i)[h] + 1
    BY Halved
  <1> QED
    BY <1>1, <1>2, <1>3

\* The nodes of every path are under the root.
LEMMA PathsInNodes ==
  ASSUME NEW t, NEW n, NEW v, t.root = RootOf(n, v), NEW i, Fits(i)
  PROVE  Reachable(NodesOf(t), n, v, i)
  <1>1. PICK reach : /\ reach[0] = {t.root}
                     /\ \A lvl \in 1 .. Depth + 1 : reach[lvl] = WithChildren(reach[lvl - 1])
                     /\ NodesOf(t) = reach[Depth + 1]
    BY NodesOfDef
  <1>2. i \in Nat
    BY DEF Fits
  <1>3. RootOf(n, v) \in reach[1] /\ OnPath(v, i, Depth) \in reach[1]
    <2>1. RootOf(n, v) = Branch([kind |-> "number", value |-> n], OnPath(v, i, Depth))
      BY PathFromRoot DEF RootOf, TopNode, Fits
    <2>2. RootOf(n, v) \in reach[0]
      BY <1>1
    <2>3. 1 \in 1 .. Depth + 1 /\ 1 - 1 = 0
      BY DepthAssumption
    <2>4. reach[1] = WithChildren(reach[0])
      BY <1>1, <2>3
    <2> QED
      BY <2>1, <2>2, <2>4, ChildrenIn
  \* After d levels more, the nodes down to height Depth - d.
  <1> DEFINE S == {d \in 0 .. Depth : /\ RootOf(n, v) \in reach[d + 1]
                                      /\ \A h \in (Depth - d) .. Depth : OnPath(v, i, h) \in reach[d + 1]}
  <1>4. 0 \in S
    <2>1. \A h \in (Depth - 0) .. Depth : h = Depth
      BY DepthAssumption
    <2>2. 0 \in 0 .. Depth /\ 0 + 1 = 1
      BY DepthAssumption
    <2> QED
      BY <1>3, <2>1, <2>2
  <1>5. ASSUME NEW d \in 1 .. Depth, d - 1 \in S
        PROVE  d \in S
    <2>1. d + 1 \in 1 .. Depth + 1 /\ d + 1 - 1 = d /\ d - 1 + 1 = d /\ d \in 0 .. Depth
      BY DepthAssumption
    <2>2. reach[d + 1] = WithChildren(reach[d])
      BY <1>1, <2>1
    <2>3. reach[d] \subseteq reach[d + 1]
      BY <2>2 DEF WithChildren
    <2>4. RootOf(n, v) \in reach[d] /\ \A h \in (Depth - (d - 1)) .. Depth : OnPath(v, i, h) \in reach[d]
      BY <1>5, <2>1
    <2>5. OnPath(v, i, Depth - d) \in reach[d + 1]
      <3> DEFINE h == Depth - (d - 1)
      <3>1. h \in 1 .. Depth /\ h - 1 = Depth - d /\ h \in (Depth - (d - 1)) .. Depth
        BY DepthAssumption
      <3>2. OnPath(v, i, h) \in reach[d]
        BY <2>4, <3>1
      <3> HIDE DEF h
      <3>3. PICK l, r : OnPath(v, i, h) = Branch(l, r) /\ (OnPath(v, i, h - 1) = l \/ OnPath(v, i, h - 1) = r)
        BY <1>2, <3>1, PathDown
      <3>4. Branch(l, r) \in reach[d]
        BY <3>2, <3>3
      <3>5. l \in reach[d + 1] /\ r \in reach[d + 1]
        BY <2>2, <3>4, ChildrenIn
      <3> QED
        BY <3>1, <3>3, <3>5
    <2>6. \A h \in (Depth - d) .. Depth : h = Depth - d \/ h \in (Depth - (d - 1)) .. Depth
      BY DepthAssumption
    <2>7. \A h \in (Depth - d) .. Depth : OnPath(v, i, h) \in reach[d + 1]
      BY <2>3, <2>4, <2>5, <2>6
    <2> QED
      BY <2>1, <2>3, <2>4, <2>7
  <1> HIDE DEF S
  <1>6. Depth \in S
    <2>1. \A d \in 0 .. Depth : d \in S
      BY <1>4, <1>5, LevelByLevel, DepthAssumption
    <2> QED
      BY <2>1, DepthAssumption
  <1>7. RootOf(n, v) \in reach[Depth + 1] /\ \A h \in 0 .. Depth : OnPath(v, i, h) \in reach[Depth + 1]
    <2>1. Depth - Depth = 0
      BY DepthAssumption
    <2> QED
      BY <1>6, <2>1 DEF S
  <1> QED
    BY <1>1, <1>7 DEF Reachable, Stored

\* So nothing that is needed is lost when the other nodes are forgotten.
LEMMA KeptHolds ==
  ASSUME NEW t, NEW n, NEW v, Holds(t, n, v)
  PROVE  Holds(Tree(t.root, (t.nodes \cap NodesOf(t)) \cup EmptyNodes), n, v)
  <1> DEFINE nodes == (t.nodes \cap NodesOf(t)) \cup EmptyNodes
  <1>1. t.root = RootOf(n, v)
    BY TreeForm DEF Holds
  <1>2. EmptyLeaf \in nodes
    <2>1. 0 \in 0 .. Depth /\ Empty[0] = EmptyLeaf
      BY EmptyDef, DepthAssumption
    <2> QED
      BY <2>1 DEF EmptyNodes
  <1>3. ASSUME NEW i, Fits(i)
        PROVE  Reachable(nodes, n, v, i)
    <2>1. Reachable(NodesOf(t), n, v, i)
      BY <1>1, <1>3, PathsInNodes
    <2>2. Reachable(t.nodes, n, v, i)
      BY <1>3 DEF Holds
    <2>3. \A node : node \in t.nodes /\ node \in NodesOf(t) => node \in nodes
      OBVIOUS
    <2> HIDE DEF nodes
    <2> QED
      BY <2>1, <2>2, <2>3 DEF Reachable, Stored
  <1>4. Holds(Tree(RootOf(n, v), nodes), n, v)
    <2> HIDE DEF nodes
    <2> QED
      BY <1>2, <1>3, TreeForm DEF Holds
  <1> QED
    BY <1>1, <1>4

----------------------------------------------------------------------------
(* The steps of the trie on its Merkle tree *)

\* What the writes of an insertion, a removal and an update make of the leaves.
LEMMA HeldInserted ==
  ASSUME NEW old, NEW new, NEW a \in Index, NEW b \in Index, NEW c \in Index, a # b, a # c, b # c,
         old[a] # NoLeaf, old[c] # NoLeaf, new[a] # NoLeaf, new[b] # NoLeaf, new[c] # NoLeaf,
         \A i \in Index \ {a, c, b} : new[i] = old[i]
  PROVE  Held(new) = Written(Written(Written(Held(old), a, new[a]), b, new[b]), c, new[c])
  <1> DEFINE w == Written(Written(Written(Held(old), a, new[a]), b, new[b]), c, new[c])
  <1>1. DOMAIN w = {j \in Index : old[j] # NoLeaf} \cup {a} \cup {b} \cup {c}
    BY DEF Held, Written
  <1>2. {j \in Index : old[j] # NoLeaf} \cup {a} \cup {b} \cup {c} = {j \in Index : new[j] # NoLeaf}
    OBVIOUS
  <1>3. ASSUME NEW i \in {j \in Index : new[j] # NoLeaf}
        PROVE  w[i] = new[i]
    BY <1>1, <1>2 DEF Held, Written
  <1>4. w = [i \in DOMAIN w |-> w[i]]
    BY DEF Written
  <1> HIDE DEF w
  <1>5. DOMAIN w = {j \in Index : new[j] # NoLeaf}
    BY <1>1, <1>2
  <1>6. [i \in DOMAIN w |-> w[i]] = [i \in {j \in Index : new[j] # NoLeaf} |-> new[i]]
    BY <1>3, <1>5
  <1>7. Held(new) = w
    BY <1>4, <1>6 DEF Held
  <1> QED
    BY <1>7 DEF w

\* A removal empties the leaf between the two it links.
LEMMA HeldRemoved ==
  ASSUME NEW old, NEW new, NEW a \in Index, NEW b \in Index, NEW c \in Index, a # b, a # c, b # c,
         old[a] # NoLeaf, old[c] # NoLeaf, new[a] # NoLeaf, new[b] = NoLeaf, new[c] # NoLeaf,
         \A i \in Index \ {a, c, b} : new[i] = old[i]
  PROVE  Held(new) = Written(Emptied(Written(Held(old), a, new[a]), b), c, new[c])
  <1> DEFINE w == Written(Emptied(Written(Held(old), a, new[a]), b), c, new[c])
  <1>1. DOMAIN w = (({j \in Index : old[j] # NoLeaf} \cup {a}) \ {b}) \cup {c}
    BY DEF Held, Written, Emptied
  <1>2. (({j \in Index : old[j] # NoLeaf} \cup {a}) \ {b}) \cup {c} = {j \in Index : new[j] # NoLeaf}
    OBVIOUS
  <1>3. ASSUME NEW i \in {j \in Index : new[j] # NoLeaf}
        PROVE  w[i] = new[i]
    BY <1>1, <1>2 DEF Held, Written, Emptied
  <1>4. w = [i \in DOMAIN w |-> w[i]]
    BY DEF Written
  <1> HIDE DEF w
  <1>5. DOMAIN w = {j \in Index : new[j] # NoLeaf}
    BY <1>1, <1>2
  <1>6. [i \in DOMAIN w |-> w[i]] = [i \in {j \in Index : new[j] # NoLeaf} |-> new[i]]
    BY <1>3, <1>5
  <1>7. Held(new) = w
    BY <1>4, <1>6 DEF Held
  <1> QED
    BY <1>7 DEF w

\* An update writes one leaf.
LEMMA HeldUpdated ==
  ASSUME NEW old, NEW new, NEW a \in Index, old[a] # NoLeaf, new[a] # NoLeaf,
         \A i \in Index \ {a} : new[i] = old[i]
  PROVE  Held(new) = Written(Held(old), a, new[a])
  <1> DEFINE w == Written(Held(old), a, new[a])
  <1>1. DOMAIN w = {j \in Index : old[j] # NoLeaf} \cup {a}
    BY DEF Held, Written
  <1>2. {j \in Index : old[j] # NoLeaf} \cup {a} = {j \in Index : new[j] # NoLeaf}
    OBVIOUS
  <1>3. ASSUME NEW i \in {j \in Index : new[j] # NoLeaf}
        PROVE  w[i] = new[i]
    BY <1>1, <1>2 DEF Held, Written
  <1>4. w = [i \in DOMAIN w |-> w[i]]
    BY DEF Written
  <1> HIDE DEF w
  <1>5. DOMAIN w = {j \in Index : new[j] # NoLeaf}
    BY <1>1, <1>2
  <1>6. [i \in DOMAIN w |-> w[i]] = [i \in {j \in Index : new[j] # NoLeaf} |-> new[i]]
    BY <1>3, <1>5
  <1>7. Held(new) = w
    BY <1>4, <1>6 DEF Held
  <1> QED
    BY <1>7 DEF w

\* A key has one neighbour on each side.
LEMMA NearestUnique ==
  ASSUME Live \subseteq Nat, NEW k \in Nat, NEW l, NEW r, Nearest(k, l, r),
         NEW m, NEW s, Nearest(k, m, s)
  PROVE  l = m /\ r = s
  <1>1. l \in Nat /\ r \in Nat /\ m \in Nat /\ s \in Nat
    BY DEF Nearest
  <1>2. l < k /\ k < r /\ m < k /\ k < s
    BY DEF Nearest
  <1>3. (l <= m \/ l = k \/ l >= s) /\ (m <= l \/ m = k \/ m >= r)
    BY DEF Nearest
  <1>4. (r <= m \/ r = k \/ r >= s) /\ (s <= l \/ s = k \/ s >= r)
    BY DEF Nearest
  <1> QED
    BY <1>1, <1>2, <1>3, <1>4

\* The neighbours that the Database answers, and where they are.
LEMMA RangeForm ==
  ASSUME TrieInv, NEW k \in Key, NEW range \in Ranges(k), NEW l, NEW r, Nearest(k, l, r)
  PROVE  /\ range.left_index = IndexOf(l) /\ range.right_index = IndexOf(r) /\ range.center = index[k]
         /\ IndexOf(l) \in Index /\ IndexOf(l) < nextFree /\ leaves[IndexOf(l)] \in LeafOpening
         /\ IndexOf(r) \in Index /\ IndexOf(r) < nextFree /\ leaves[IndexOf(r)] \in LeafOpening
         /\ IndexOf(l) # IndexOf(r)
  <1>1. PICK m, s : Nearest(k, m, s) /\ range = KeyRange(IndexOf(m), index[k], IndexOf(s))
    BY DEF Ranges
  <1>2. k \in Nat /\ Live \subseteq Nat
    BY KeyOrder DEF Live
  <1>3. l = m /\ r = s
    BY <1>1, <1>2, NearestUnique
  <1>4. l \in Live /\ r \in Live /\ l # r
    BY <1>2 DEF Nearest
  <1> QED
    BY <1>1, <1>3, <1>4, LiveIndices DEF KeyRange

\* The Merkle tree holds the leaves and the next free index.
TreeHoldsLeaves == Holds(tree, nextFree, Held(leaves))

\* The inductive invariant of the trie on its Merkle tree.
NodesInv == TrieInv /\ TreeHoldsLeaves

\* The handlers write the tree of the leaves that the step writes.
LEMMA InsertHolds ==
  ASSUME NodesInv, NEW k \in Key, NEW v \in Value, Insert(k, v), NEW range \in Ranges(k)
  PROVE  Holds(trie_put(tree, k, v, range), nextFree', Held(leaves'))
  <1>1. PICK l \in Live, r \in Live :
              /\ Nearest(k, l, r)
              /\ leaves' \in [Index -> LeafOpening \cup {NoLeaf}]
              /\ leaves'[IndexOf(l)] = NewNextLeaf(leaves[IndexOf(l)], nextFree)
              /\ leaves'[IndexOf(r)] = NewPrevLeaf(leaves[IndexOf(r)], nextFree)
              /\ leaves'[nextFree] = [hkey |-> k, hval |-> v,
                                      prev_leaf |-> IndexOf(l), next_leaf |-> IndexOf(r)]
              /\ leaves'[nextFree] \in LeafOpening
              /\ \A i \in Index \ {IndexOf(l), IndexOf(r), nextFree} : leaves'[i] = leaves[i]
    BY InsertPointwise DEF NodesInv
  <1>2. /\ range.left_index = IndexOf(l) /\ range.right_index = IndexOf(r) /\ range.center = index[k]
        /\ IndexOf(l) \in Index /\ IndexOf(l) < nextFree /\ leaves[IndexOf(l)] \in LeafOpening
        /\ IndexOf(r) \in Index /\ IndexOf(r) < nextFree /\ leaves[IndexOf(r)] \in LeafOpening
        /\ IndexOf(l) # IndexOf(r)
    BY <1>1, RangeForm DEF NodesInv
  <1>3. /\ nextFree \in Index /\ nextFree' = nextFree + 1 /\ range.center = NoLeaf
        /\ IndexOf(l) # nextFree /\ IndexOf(r) # nextFree
    BY <1>2, TrieAssumption DEF Insert, NodesInv, TrieInv, TypeOK, Index
  <1>4. NoLeaf \notin LeafOpening
    BY TrieAssumption DEF LeafOpening, Index
  <1>5. leaves'[IndexOf(l)] # NoLeaf /\ leaves'[IndexOf(r)] # NoLeaf /\ leaves'[nextFree] # NoLeaf
    <2>1. NewNextLeaf(leaves[IndexOf(l)], nextFree) \in LeafOpening
      BY <1>2, <1>3, LinkForms
    <2>2. NewPrevLeaf(leaves[IndexOf(r)], nextFree) \in LeafOpening
      BY <1>2, <1>3, LinkForms
    <2> QED
      BY <1>1, <1>4, <2>1, <2>2
  <1> DEFINE held == Held(leaves)
             a == IndexOf(l)
             c == IndexOf(r)
  <1>6. /\ a \in DOMAIN held /\ held[a] = leaves[a]
        /\ c \in DOMAIN held /\ held[c] = leaves[c]
    BY <1>2, <1>4 DEF Held
  <1>7. Held(leaves') = Written(Written(Written(held, a, leaves'[a]), nextFree, leaves'[nextFree]),
                                c, leaves'[c])
    <2>1. a \in Index /\ nextFree \in Index /\ c \in Index /\ a # nextFree /\ a # c /\ nextFree # c
      BY <1>2, <1>3
    <2>2. /\ leaves[a] # NoLeaf /\ leaves[c] # NoLeaf
          /\ leaves'[a] # NoLeaf /\ leaves'[nextFree] # NoLeaf /\ leaves'[c] # NoLeaf
      BY <1>2, <1>4, <1>5
    <2>3. \A i \in Index \ {a, c, nextFree} : leaves'[i] = leaves[i]
      BY <1>1
    <2> HIDE DEF a, c
    <2> QED
      BY <2>1, <2>2, <2>3, HeldInserted
  <1>8. /\ leaves'[a] = NewNextLeaf(held[a], nextFree)
        /\ leaves'[c] = NewPrevLeaf(held[c], nextFree)
        /\ leaves'[nextFree] = Opening(k, v, a, c)
    BY <1>1, <1>6 DEF Opening
  <1>9. Holds(tree, nextFree, held)
    BY DEF NodesInv, TreeHoldsLeaves
  <1> HIDE DEF held, a, c
  <1>10. range.left_index = a /\ range.right_index = c /\ a \in Index /\ c \in Index /\ a # c
         /\ a # nextFree /\ c # nextFree
    BY <1>2, <1>3 DEF a, c
  <1>11. Holds(trie_put(tree, k, v, range), nextFree + 1,
               Written(Written(Written(held, a, NewNextLeaf(held[a], nextFree)),
                               nextFree, Opening(k, v, a, c)),
                       c, NewPrevLeaf(held[c], nextFree)))
    BY <1>3, <1>6, <1>9, <1>10, PutNewHolds
  <1> QED
    BY <1>3, <1>7, <1>8, <1>11

\* So does the put of a key that is there,
LEMMA UpdateHolds ==
  ASSUME NodesInv, NEW k \in Key, NEW v \in Value, Update(k, v), NEW range \in Ranges(k)
  PROVE  Holds(trie_put(tree, k, v, range), nextFree', Held(leaves'))
  <1>1. k \in Live /\ index[k] # NoLeaf /\ nextFree' = nextFree
    BY KeyOrder DEF Update, Live
  <1>2. IndexOf(k) \in Index /\ leaves[IndexOf(k)] \in LeafOpening
    BY <1>1, LiveIndices DEF NodesInv
  <1>3. range.center = index[k]
    BY DEF Ranges, KeyRange
  <1>4. NoLeaf \notin LeafOpening
    BY TrieAssumption DEF LeafOpening, Index
  <1>5. /\ leaves'[IndexOf(k)] = NewHval(leaves[IndexOf(k)], v)
        /\ \A i \in Index \ {IndexOf(k)} : leaves'[i] = leaves[i]
    BY <1>2 DEF Update, NodesInv, TrieInv, TypeOK
  <1>6. NewHval(leaves[IndexOf(k)], v) \in LeafOpening
    BY <1>2, ValueForm
  <1>7. leaves[IndexOf(k)] # NoLeaf /\ leaves'[IndexOf(k)] # NoLeaf
    BY <1>2, <1>4, <1>5, <1>6
  <1> DEFINE held == Held(leaves)
             a == IndexOf(k)
  <1>8. a \in DOMAIN held /\ held[a] = leaves[a]
    BY <1>2, <1>7 DEF Held
  <1>9. Held(leaves') = Written(held, a, leaves'[a])
    BY <1>2, <1>5, <1>7, HeldUpdated
  <1>10. Holds(tree, nextFree, held)
    BY DEF NodesInv, TreeHoldsLeaves
  <1>11. range.center # NoLeaf /\ range.center.leaf_index = a /\ a \in Index
    BY <1>1, <1>2, <1>3 DEF IndexOf
  <1> HIDE DEF held, a
  <1>12. Holds(trie_put(tree, k, v, range), nextFree, Written(held, a, NewHval(held[a], v)))
    BY <1>8, <1>10, <1>11, PutOverHolds
  <1>13. leaves'[a] = NewHval(held[a], v)
    BY <1>5, <1>8 DEF a
  <1> QED
    BY <1>1, <1>9, <1>12, <1>13

\* The tree of the three writes of a removal, of which only the result's form is known.
LEMMA RemovalHolds ==
  ASSUME NodesInv, NEW k \in Key, k \in Live, NEW l, NEW r, Nearest(k, l, r),
         NEW range \in Ranges(k)
  PROVE  LET held == Held(leaves)
             a == IndexOf(l)
             b == IndexOf(k)
             c == IndexOf(r)
             linked == Written(held, a, NewNextLeaf(held[a], c))
         IN  Holds(trie_remove(tree, range), nextFree,
                   Written(Emptied(linked, b), c, NewPrevLeaf(held[c], a)))
  <1> DEFINE held == Held(leaves)
             a == IndexOf(l)
             b == IndexOf(k)
             c == IndexOf(r)
  <1>1. /\ range.left_index = IndexOf(l) /\ range.right_index = IndexOf(r) /\ range.center = index[k]
        /\ IndexOf(l) \in Index /\ IndexOf(l) < nextFree /\ leaves[IndexOf(l)] \in LeafOpening
        /\ IndexOf(r) \in Index /\ IndexOf(r) < nextFree /\ leaves[IndexOf(r)] \in LeafOpening
        /\ IndexOf(l) # IndexOf(r)
    BY RangeForm DEF NodesInv
  <1>2. l \in Live /\ r \in Live /\ l # k /\ r # k
    <2>1. k \in Nat /\ Live \subseteq Nat
      BY KeyOrder DEF Live
    <2> QED
      BY <2>1 DEF Nearest
  <1>3. IndexOf(k) \in Index /\ leaves[IndexOf(k)] \in LeafOpening
    BY LiveIndices DEF NodesInv
  <1>4. IndexOf(k) # IndexOf(l) /\ IndexOf(k) # IndexOf(r)
    BY <1>2, LiveIndices DEF NodesInv
  <1>5. NoLeaf \notin LeafOpening
    BY TrieAssumption DEF LeafOpening, Index
  <1>6. a \in DOMAIN held /\ b \in DOMAIN held /\ c \in DOMAIN held
    BY <1>1, <1>3, <1>5 DEF Held
  <1>7. Holds(tree, nextFree, held)
    BY DEF NodesInv, TreeHoldsLeaves
  <1>8. range.center # NoLeaf /\ range.center.leaf_index = b
    BY <1>1 DEF Live, IndexOf
  <1>9. /\ range.left_index = a /\ range.right_index = c
        /\ a \in Index /\ b \in Index /\ c \in Index /\ a # c /\ b # a /\ b # c
    BY <1>1, <1>3, <1>4
  <1> HIDE DEF held, a, b, c
  <1>10. Holds(trie_remove(tree, range), nextFree,
               Written(Emptied(Written(held, a, NewNextLeaf(held[a], c)), b),
                       c, NewPrevLeaf(held[c], a)))
    BY <1>6, <1>7, <1>8, <1>9, RemoveOldHolds
  <1> QED
    BY <1>10 DEF held, a, b, c

\* and remove.
LEMMA RemoveKeyHolds ==
  ASSUME NodesInv, NEW k \in Key, Remove(k), NEW range \in Ranges(k)
  PROVE  Holds(trie_remove(tree, range), nextFree', Held(leaves'))
  <1>1. PICK l \in Live, r \in Live :
              /\ Nearest(k, l, r)
              /\ leaves' \in [Index -> LeafOpening \cup {NoLeaf}]
              /\ leaves'[IndexOf(l)] = NewNextLeaf(leaves[IndexOf(l)], IndexOf(r))
              /\ leaves'[IndexOf(r)] = NewPrevLeaf(leaves[IndexOf(r)], IndexOf(l))
              /\ leaves'[IndexOf(k)] = NoLeaf
              /\ \A i \in Index \ {IndexOf(l), IndexOf(r), IndexOf(k)} : leaves'[i] = leaves[i]
    BY RemovePointwise DEF NodesInv
  <1>2. k \in Live /\ nextFree' = nextFree
    BY KeyOrder DEF Remove, Live
  <1>3. l # k /\ r # k /\ l # r
    <2>1. k \in Nat /\ Live \subseteq Nat
      BY KeyOrder DEF Live
    <2> QED
      BY <1>1, <2>1 DEF Nearest
  <1> DEFINE held == Held(leaves)
             a == IndexOf(l)
             b == IndexOf(k)
             c == IndexOf(r)
  <1>4. /\ a \in Index /\ b \in Index /\ c \in Index /\ a # b /\ a # c /\ b # c
        /\ leaves[a] \in LeafOpening /\ leaves[c] \in LeafOpening
    BY <1>2, <1>3, LiveIndices DEF NodesInv
  <1>5. NoLeaf \notin LeafOpening
    BY TrieAssumption DEF LeafOpening, Index
  <1>6. leaves'[a] # NoLeaf /\ leaves'[c] # NoLeaf
    <2>1. NewNextLeaf(leaves[a], c) \in LeafOpening
      BY <1>4, LinkForms
    <2>2. NewPrevLeaf(leaves[c], a) \in LeafOpening
      BY <1>4, LinkForms
    <2> QED
      BY <1>1, <1>5, <2>1, <2>2
  <1>7. held[a] = leaves[a] /\ held[c] = leaves[c]
    BY <1>4, <1>5 DEF Held
  <1>8. Held(leaves') = Written(Emptied(Written(held, a, leaves'[a]), b), c, leaves'[c])
    BY <1>1, <1>4, <1>5, <1>6, HeldRemoved
  <1>9. leaves'[a] = NewNextLeaf(held[a], c) /\ leaves'[c] = NewPrevLeaf(held[c], a)
    BY <1>1, <1>7
  <1>10. Holds(trie_remove(tree, range), nextFree,
               Written(Emptied(Written(held, a, NewNextLeaf(held[a], c)), b),
                       c, NewPrevLeaf(held[c], a)))
    BY <1>1, <1>2, RemovalHolds
  <1> HIDE DEF held, a, b, c
  <1> QED
    BY <1>2, <1>8, <1>9, <1>10

\* set_head_and_tail makes the tree of the first two leaves.
LEMMA HeadAndTailHold ==
  ASSUME Init
  PROVE  Holds(set_head_and_tail, nextFree, Held(leaves))
  <1> DEFINE none == [i \in {} |-> HeadLeaf]
             t == increment(put(EmptyTree, get_leaf_path(0), HeadLeaf))
             one == Written(none, 0, HeadLeaf)
  <1>1. 0 \in Index /\ 1 \in Index
    BY TrieAssumption DEF Index
  <1>2. Holds(EmptyTree, 0, none)
    BY EmptyHolds
  <1>3. Holds(t, 0 + 1, one)
    <2> HIDE DEF none
    <2>1. Holds(put(EmptyTree, get_leaf_path(0), HeadLeaf), 0, one)
      BY <1>1, <1>2, WriteLeaf
    <2> QED
      BY <2>1, IncrementHolds
  <1>4. Holds(set_head_and_tail, 2, Written(one, 1, TailLeaf))
    <2>1. set_head_and_tail = increment(put(t, get_leaf_path(next_free_node(t)), TailLeaf))
      BY DEF set_head_and_tail
    <2> HIDE DEF t, one
    <2>2. Holds(t, 1, one)
      BY <1>3
    <2>3. next_free_node(t) = 1
      BY <2>2, FreeHolds
    <2>4. Holds(put(t, get_leaf_path(1), TailLeaf), 1, Written(one, 1, TailLeaf))
      BY <1>1, <2>2, WriteLeaf
    <2>5. Holds(increment(put(t, get_leaf_path(1), TailLeaf)), 1 + 1, Written(one, 1, TailLeaf))
      BY <2>4, IncrementHolds
    <2>6. 1 + 1 = 2
      OBVIOUS
    <2> QED
      BY <2>1, <2>3, <2>5, <2>6
  <1>5. leaves[0] = HeadLeaf /\ leaves[1] = TailLeaf /\ \A i \in Index \ {0, 1} : leaves[i] = NoLeaf
    BY <1>1 DEF Init
  <1>6. HeadLeaf # NoLeaf /\ TailLeaf # NoLeaf
    BY <1>1, TrieAssumption DEF HeadLeaf, TailLeaf, Index, HKey
  <1>7. {j \in Index : leaves[j] # NoLeaf} = {0, 1}
    BY <1>1, <1>5, <1>6
  <1>8. Held(leaves) = [i \in {0, 1} |-> IF i = 1 THEN TailLeaf ELSE HeadLeaf]
    BY <1>5, <1>7 DEF Held
  <1>9. Written(one, 1, TailLeaf) = [i \in {0, 1} |-> IF i = 1 THEN TailLeaf ELSE HeadLeaf]
    BY DEF Written
  <1>10. nextFree = 2
    BY DEF Init
  <1> QED
    BY <1>4, <1>8, <1>9, <1>10

\* The tree as TrieNodes keeps it.
LEMMA BecomesHolds ==
  ASSUME NEW t, Becomes(t), Holds(t, nextFree', Held(leaves'))
  PROVE  TreeHoldsLeaves'
  <1>1. tree' = Tree(t.root, (t.nodes \cap NodesOf(t)) \cup EmptyNodes)
    BY DEF tree, Becomes
  <1> QED
    BY <1>1, KeptHolds DEF TreeHoldsLeaves

\* ZkTrie::empty establishes the invariant of the tree.
LEMMA NodesInitInv == NodesInit => NodesInv
  <1> SUFFICES ASSUME NodesInit
               PROVE  TreeHoldsLeaves
    BY InitInv DEF NodesInit, NodesInv
  <1>1. Holds(set_head_and_tail, nextFree, Held(leaves))
    BY HeadAndTailHold DEF NodesInit
  <1>2. tree = Tree(set_head_and_tail.root,
                    (set_head_and_tail.nodes \cap NodesOf(set_head_and_tail)) \cup EmptyNodes)
    BY DEF tree, NodesInit
  <1> QED
    BY <1>1, <1>2, KeptHolds DEF TreeHoldsLeaves

\* A step on the tree is a step of the trie.
LEMMA NodesStep == [NodesNext]_nodeVars => [Next]_vars
  BY DEF NodesNext, Next, nodeVars, vars

\* Every operation keeps it.
LEMMA NodesStepInv == NodesInv /\ [NodesNext]_nodeVars => NodesInv'
  <1> SUFFICES ASSUME NodesInv, [NodesNext]_nodeVars
               PROVE  NodesInv'
    OBVIOUS
  <1>1. TrieInv'
    BY NodesStep, StepInv DEF NodesInv
  <1>2. ASSUME UNCHANGED <<leaves, nextFree, root, stored>>
        PROVE  TreeHoldsLeaves'
    BY <1>2 DEF NodesInv, TreeHoldsLeaves, tree
  <1>3. CASE UNCHANGED nodeVars
    BY <1>1, <1>2, <1>3 DEF nodeVars, NodesInv
  <1>4. ASSUME NEW k \in Key, NEW v \in Value, Insert(k, v) \/ Update(k, v),
               NEW range \in Ranges(k), Becomes(trie_put(tree, k, v, range))
        PROVE  TreeHoldsLeaves'
    <2>1. Holds(trie_put(tree, k, v, range), nextFree', Held(leaves'))
      BY <1>4, InsertHolds, UpdateHolds
    <2> QED
      BY <1>4, <2>1, BecomesHolds
  <1>5. ASSUME NEW k \in Key, Remove(k), NEW range \in Ranges(k), Becomes(trie_remove(tree, range))
        PROVE  TreeHoldsLeaves'
    <2>1. Holds(trie_remove(tree, range), nextFree', Held(leaves'))
      BY <1>5, RemoveKeyHolds
    <2> QED
      BY <1>5, <2>1, BecomesHolds
  <1>6. ASSUME NEW k \in Key, RemoveAbsent(k), NEW range \in Ranges(k),
               Becomes(trie_remove(tree, range))
        PROVE  TreeHoldsLeaves'
    <2>1. trie_remove(tree, range) = tree
      BY <1>6 DEF RemoveAbsent, Ranges, KeyRange, trie_remove
    <2>2. Holds(tree, nextFree', Held(leaves'))
      BY <1>6 DEF RemoveAbsent, vars, NodesInv, TreeHoldsLeaves
    <2> QED
      BY <1>6, <2>1, <2>2, BecomesHolds
  <1>7. ASSUME NEW k \in Key, Read(k), UNCHANGED <<root, stored>>
        PROVE  TreeHoldsLeaves'
    BY <1>2, <1>7 DEF Read
  <1>8. CASE NodesNext
    <2>1. TreeHoldsLeaves'
      BY <1>4, <1>5, <1>6, <1>7, <1>8 DEF NodesNext
    <2> QED
      BY <1>1, <2>1 DEF NodesInv
  <1> QED
    BY <1>3, <1>8

\* Whatever holds of ZkTrie holds of the trie on its Merkle tree, and its tree is always
\* that of its leaves, with every node the leaves can be reached by in the Database.
THEOREM NodesInvariant == NodesSpec => Spec /\ []NodesInv
  <1>1. NodesInit => Init
    BY DEF NodesInit
  <1> QED
    BY <1>1, NodesInitInv, NodesStep, NodesStepInv, PTL DEF NodesSpec, Spec

\* The root hash commits to the leaves and the next free index, whatever the order in which
\* put and remove wrote the nodes on the way.
THEOREM RootCommits == NodesSpec => []RootCommitsToLeaves
  <1>1. NodesInv => RootCommitsToLeaves
    <2> SUFFICES ASSUME NodesInv
                 PROVE  RootCommitsToLeaves
      OBVIOUS
    <2>1. tree = Tree(RootOf(nextFree, Held(leaves)), tree.nodes)
      BY DEF NodesInv, TreeHoldsLeaves, Holds
    <2>2. tree.root = root
      BY DEF tree, Tree
    <2>3. tree.root = RootOf(nextFree, Held(leaves))
      BY <2>1, TreeForm
    <2> QED
      BY <2>2, <2>3 DEF RootOf, RootCommitsToLeaves
  <1> QED
    BY <1>1, NodesInvariant, PTL

\* Neither put nor remove of any key ever fails for a node that is not in the Database, or
\* at a path that does not end where a leaf is or may be.
THEOREM NothingEverFails == NodesSpec => []NothingFails
  <1>1. NodesInv => NothingFails
    <2> SUFFICES ASSUME NodesInv, NEW k \in Key, NEW range \in Ranges(k)
                 PROVE  /\ index[k] # NoLeaf \/ nextFree <= Capacity =>
                              \A v \in Value : trie_put(tree, k, v, range) # Failed
                        /\ trie_remove(tree, range) # Failed
      BY DEF NothingFails
    <2>1. Holds(tree, nextFree, Held(leaves))
      BY DEF NodesInv, TreeHoldsLeaves
    <2>2. PICK l, r : Nearest(k, l, r)
      BY DEF Ranges
    <2>3. range.center = index[k]
      BY DEF Ranges, KeyRange
    <2>4. CASE index[k] # NoLeaf
      <3>1. k \in Live
        BY <2>4, KeyOrder DEF Live
      <3>2. trie_remove(tree, range) # Failed
        <4>1. PICK w : Holds(trie_remove(tree, range), nextFree, w)
          BY <2>2, <3>1, RemovalHolds
        <4> QED
          BY <4>1, FreeHolds
      <3>3. IndexOf(k) \in Index /\ leaves[IndexOf(k)] # NoLeaf
        BY <3>1, LiveIndices DEF NodesInv, TrieInv, IndexMatchesLeaves
      <3>4. IndexOf(k) \in DOMAIN Held(leaves)
        BY <3>3 DEF Held
      <3>5. ASSUME NEW v \in Value
            PROVE  trie_put(tree, k, v, range) # Failed
        <4>1. range.center # NoLeaf /\ range.center.leaf_index \in Index
              /\ range.center.leaf_index \in DOMAIN Held(leaves)
          BY <2>3, <2>4, <3>3, <3>4 DEF IndexOf
        <4>2. PICK w : Holds(trie_put(tree, k, v, range), nextFree, w)
          BY <2>1, <4>1, PutOverHolds
        <4> QED
          BY <4>2, FreeHolds
      <3> QED
        BY <3>2, <3>5
    <2>5. CASE index[k] = NoLeaf
      <3>1. trie_remove(tree, range) # Failed
        BY <2>1, <2>3, <2>5, FreeHolds DEF trie_remove
      <3>2. ASSUME nextFree <= Capacity, NEW v \in Value
            PROVE  trie_put(tree, k, v, range) # Failed
        <4>1. /\ range.left_index = IndexOf(l) /\ range.right_index = IndexOf(r)
              /\ IndexOf(l) \in Index /\ IndexOf(l) < nextFree /\ leaves[IndexOf(l)] \in LeafOpening
              /\ IndexOf(r) \in Index /\ IndexOf(r) < nextFree /\ leaves[IndexOf(r)] \in LeafOpening
              /\ IndexOf(l) # IndexOf(r)
          BY <2>2, RangeForm DEF NodesInv
        <4>2. nextFree \in Index
          BY <3>2, TrieAssumption DEF NodesInv, TrieInv, TypeOK, Index
        <4>3. NoLeaf \notin LeafOpening
          BY TrieAssumption DEF LeafOpening, Index
        <4>4. IndexOf(l) \in DOMAIN Held(leaves) /\ IndexOf(r) \in DOMAIN Held(leaves)
          BY <4>1, <4>3 DEF Held
        <4>5. IndexOf(l) # nextFree /\ IndexOf(r) # nextFree
          BY <4>1, <4>2, TrieAssumption DEF Index
        <4>6. /\ range.center = NoLeaf
              /\ range.left_index \in Index /\ range.left_index \in DOMAIN Held(leaves)
              /\ range.left_index # nextFree
              /\ range.right_index \in Index /\ range.right_index \in DOMAIN Held(leaves)
              /\ range.right_index # nextFree /\ range.left_index # range.right_index
          BY <2>3, <2>5, <4>1, <4>4, <4>5
        <4>7. PICK w : Holds(trie_put(tree, k, v, range), nextFree + 1, w)
          BY <2>1, <4>2, <4>6, PutNewHolds
        <4> QED
          BY <4>7, FreeHolds
      <3> QED
        BY <2>5, <3>1, <3>2
    <2> QED
      BY <2>4, <2>5
  <1> QED
    BY <1>1, NodesInvariant, PTL
=============================================================================

------------------------- MODULE SparseMerkleProofs -------------------------
(***************************************************************************)
(* What the operations on the Merkle tree and the handlers of trie.rs do   *)
(* to a tree, for every depth.                                             *)
(*                                                                         *)
(* The functions that recur over the levels are first shown to satisfy     *)
(* their equations: the least number of levels for which there is no such  *)
(* function would have one, from the function for one level less.          *)
(***************************************************************************)
EXTENDS TrieHandlers, WellFoundedInduction, TLAPS

\* A nonempty set of naturals has a least element.
LEMMA LeastNumber ==
  ASSUME NEW S, S \subseteq Nat, S # {}
  PROVE  \E k \in S : \A j \in S : k <= j
  <1>1. \E R : IsWellFoundedOn(R, Nat) /\ \A i, j \in Nat : j < i => <<j, i>> \in R
    <2>1. \A i, j \in Nat : j < i => <<j, i>> \in OpToRel(<, Nat)
      BY Z3 DEF OpToRel
    <2> QED
      BY <2>1, NatLessThanWellFounded, Zenon
  <1>2. PICK R : IsWellFoundedOn(R, Nat) /\ \A i, j \in Nat : j < i => <<j, i>> \in R
    BY <1>1
  <1>3. PICK k \in S : \A j \in S : ~(<<j, k>> \in R)
    <2>1. IsWellFoundedOn(R, Nat)
      BY <1>2
    <2> QED
      BY <2>1, WFMin, Zenon
  <1>4. ASSUME NEW j \in S
        PROVE  k <= j
    <2>1. j \in Nat /\ k \in Nat /\ ~(j < k)
      BY <1>2, <1>3
    <2> QED
      BY <2>1
  <1> QED
    BY <1>4

----------------------------------------------------------------------------

(* The shifted index *)

\* The equations of the recursion in Halves, up to a height.
Shifts(f, idx, n) ==
    f = [h \in 0 .. n |-> IF h = 0 THEN idx ELSE f[h - 1] \div 2]

\* There is a function that satisfies them.
LEMMA ShiftsExist ==
  ASSUME NEW idx, NEW n \in Nat
  PROVE  \E f : Shifts(f, idx, n)
  <1> DEFINE Bad == {m \in Nat : ~\E f : Shifts(f, idx, m)}
  <1> SUFFICES ASSUME Bad # {}
               PROVE  FALSE
    OBVIOUS
  <1>1. PICK m \in Bad : \A j \in Bad : m <= j
    <2> HIDE DEF Bad
    <2>1. Bad \subseteq Nat
      BY DEF Bad
    <2> QED
      BY <2>1, LeastNumber
  <1>2. CASE m = 0
    <2> DEFINE g == [h \in 0 .. 0 |-> idx]
    <2>1. \A h \in 0 .. 0 : g[h] = IF h = 0 THEN idx ELSE g[h - 1] \div 2
      OBVIOUS
    <2>2. Shifts(g, idx, 0)
      <3>1. g = [h \in 0 .. 0 |-> g[h]]
        OBVIOUS
      <3> HIDE DEF g
      <3> QED
        BY <2>1, <3>1, Zenon DEF Shifts
    <2> QED
      BY <1>1, <1>2, <2>2
  <1>3. CASE m # 0
    <2>1. m - 1 \in Nat /\ m - 1 \notin Bad /\ m \in Nat
      BY <1>1, <1>3
    <2>2. PICK f : Shifts(f, idx, m - 1)
      BY <2>1
    <2> DEFINE g == [h \in 0 .. m |-> IF h = m THEN f[m - 1] \div 2 ELSE f[h]]
    <2>3. \A h \in 0 .. m : g[h] = IF h = 0 THEN idx ELSE g[h - 1] \div 2
      <3>1. \A h \in 0 .. m - 1 : f[h] = IF h = 0 THEN idx ELSE f[h - 1] \div 2
        BY <2>2, Zenon DEF Shifts
      <3>2. \A h \in 0 .. m - 1 : g[h] = f[h] /\ (h # 0 => g[h - 1] = f[h - 1])
        BY <2>1
      <3>3. g[m] = f[m - 1] \div 2 /\ g[m - 1] = f[m - 1] /\ m # 0
        BY <1>3, <2>1
      <3> HIDE DEF g
      <3>4. ASSUME NEW h \in 0 .. m - 1
            PROVE  g[h] = IF h = 0 THEN idx ELSE g[h - 1] \div 2
        BY <3>1, <3>2, Zenon
      <3>5. \A h \in 0 .. m : h = m \/ h \in 0 .. m - 1
        BY <2>1
      <3>6. g[m] = IF m = 0 THEN idx ELSE g[m - 1] \div 2
        BY <3>3, Zenon
      <3> QED
        BY <3>4, <3>5, <3>6, Zenon
    <2>4. Shifts(g, idx, m)
      <3>1. g = [h \in 0 .. m |-> g[h]]
        OBVIOUS
      <3> HIDE DEF g
      <3> QED
        BY <2>3, <3>1, Zenon DEF Shifts
    <2> QED
      BY <1>1, <2>4
  <1> QED
    BY <1>2, <1>3

\* The halves of an index, one from the other.
LEMMA HalvesDef ==
  ASSUME NEW idx
  PROVE  /\ Halves(idx)[0] = idx
         /\ \A h \in 1 .. Depth : Halves(idx)[h] = Halves(idx)[h - 1] \div 2
  <1> DEFINE s == CHOOSE f : Shifts(f, idx, Depth)
  <1>1. Halves(idx) = s
    BY DEF Halves, Shifts
  <1>2. Shifts(s, idx, Depth)
    <2>1. Depth \in Nat
      BY DepthAssumption
    <2> QED
      BY <2>1, ShiftsExist, Zenon
  <1> HIDE DEF s
  <1>3. \A h \in 0 .. Depth : s[h] = IF h = 0 THEN idx ELSE s[h - 1] \div 2
    BY <1>2, Zenon DEF Shifts
  <1>4. 0 \in 0 .. Depth /\ \A h \in 1 .. Depth : h \in 0 .. Depth /\ h # 0
    BY DepthAssumption
  <1> QED
    BY <1>1, <1>3, <1>4, Zenon

----------------------------------------------------------------------------
(* The empty subtrees *)

\* The equations of the empty subtrees, up to a height.
Empties(f, n) ==
    f = [h \in 0 .. n |-> IF h = 0 THEN EmptyLeaf ELSE Branch(f[h - 1], f[h - 1])]

\* There is a function that satisfies them.
LEMMA EmptiesExist ==
  ASSUME NEW n \in Nat
  PROVE  \E f : Empties(f, n)
  <1> DEFINE Bad == {m \in Nat : ~\E f : Empties(f, m)}
  <1> SUFFICES ASSUME Bad # {}
               PROVE  FALSE
    OBVIOUS
  <1>1. PICK m \in Bad : \A j \in Bad : m <= j
    <2> HIDE DEF Bad
    <2>1. Bad \subseteq Nat
      BY DEF Bad
    <2> QED
      BY <2>1, LeastNumber
  <1>2. CASE m = 0
    <2> DEFINE g == [h \in 0 .. 0 |-> EmptyLeaf]
    <2>1. \A h \in 0 .. 0 : g[h] = IF h = 0 THEN EmptyLeaf ELSE Branch(g[h - 1], g[h - 1])
      OBVIOUS
    <2>2. Empties(g, 0)
      <3>1. g = [h \in 0 .. 0 |-> g[h]]
        OBVIOUS
      <3> HIDE DEF g
      <3> QED
        BY <2>1, <3>1, Zenon DEF Empties
    <2> QED
      BY <1>1, <1>2, <2>2
  <1>3. CASE m # 0
    <2>1. m - 1 \in Nat /\ m - 1 \notin Bad /\ m \in Nat
      BY <1>1, <1>3
    <2>2. PICK f : Empties(f, m - 1)
      BY <2>1
    <2> DEFINE g == [h \in 0 .. m |-> IF h = m THEN Branch(f[m - 1], f[m - 1]) ELSE f[h]]
    <2>3. \A h \in 0 .. m : g[h] = IF h = 0 THEN EmptyLeaf ELSE Branch(g[h - 1], g[h - 1])
      <3>1. \A h \in 0 .. m - 1 : f[h] = IF h = 0 THEN EmptyLeaf ELSE Branch(f[h - 1], f[h - 1])
        BY <2>2, Zenon DEF Empties
      <3>2. \A h \in 0 .. m - 1 : g[h] = f[h] /\ (h # 0 => g[h - 1] = f[h - 1])
        BY <2>1
      <3>3. g[m] = Branch(f[m - 1], f[m - 1]) /\ g[m - 1] = f[m - 1] /\ m # 0
        BY <1>3, <2>1
      <3> HIDE DEF g
      <3>4. ASSUME NEW h \in 0 .. m - 1
            PROVE  g[h] = IF h = 0 THEN EmptyLeaf ELSE Branch(g[h - 1], g[h - 1])
        BY <3>1, <3>2, Zenon
      <3>5. \A h \in 0 .. m : h = m \/ h \in 0 .. m - 1
        BY <2>1
      <3>6. g[m] = IF m = 0 THEN EmptyLeaf ELSE Branch(g[m - 1], g[m - 1])
        BY <3>3, Zenon
      <3> QED
        BY <3>4, <3>5, <3>6, Zenon
    <2>4. Empties(g, m)
      <3>1. g = [h \in 0 .. m |-> g[h]]
        OBVIOUS
      <3> HIDE DEF g
      <3> QED
        BY <2>3, <3>1, Zenon DEF Empties
    <2> QED
      BY <1>1, <2>4
  <1> QED
    BY <1>2, <1>3

\* An empty tree is a leaf or has two empty trees under it.
LEMMA EmptyDef ==
  /\ Empty[0] = EmptyLeaf
  /\ \A h \in 1 .. Depth : Empty[h] = Branch(Empty[h - 1], Empty[h - 1])
  <1> DEFINE s == CHOOSE f : Empties(f, Depth)
  <1>1. Empty = s
    BY DEF Empty, Empties
  <1>2. Empties(s, Depth)
    <2>1. Depth \in Nat
      BY DepthAssumption
    <2> QED
      BY <2>1, EmptiesExist, Zenon
  <1> HIDE DEF s
  <1>3. \A h \in 0 .. Depth : s[h] = IF h = 0 THEN EmptyLeaf ELSE Branch(s[h - 1], s[h - 1])
    BY <1>2, Zenon DEF Empties
  <1>4. 0 \in 0 .. Depth /\ \A h \in 1 .. Depth : h \in 0 .. Depth /\ h # 0
    BY DepthAssumption
  <1> QED
    BY <1>1, <1>3, <1>4, Zenon

----------------------------------------------------------------------------
(* The tree over some values *)

\* The leaves, the lowest trees.
Overs0(value) == [i \in Nat |-> IF i \in DOMAIN value THEN Leaf([j \in {0} |-> ValueType], value[i])
                                ELSE EmptyLeaf]

\* The trees over two neighbours each.
OversAbove(below) == [i \in Nat |-> Branch(below[2 * i], below[2 * i + 1])]

\* The equations of the recursion in Over, up to a height.
Overs(f, value, n) ==
    f = [h \in 0 .. n |-> IF h = 0 THEN Overs0(value) ELSE OversAbove(f[h - 1])]

\* There is a function that satisfies them.
LEMMA OversExist ==
  ASSUME NEW value, NEW n \in Nat
  PROVE  \E f : Overs(f, value, n)
  <1> DEFINE Bad == {m \in Nat : ~\E f : Overs(f, value, m)}
  <1> SUFFICES ASSUME Bad # {}
               PROVE  FALSE
    OBVIOUS
  <1>1. PICK m \in Bad : \A j \in Bad : m <= j
    <2> HIDE DEF Bad
    <2>1. Bad \subseteq Nat
      BY DEF Bad
    <2> QED
      BY <2>1, LeastNumber
  <1>2. CASE m = 0
    <2> DEFINE g == [h \in 0 .. 0 |-> Overs0(value)]
    <2>1. \A h \in 0 .. 0 : g[h] = IF h = 0 THEN Overs0(value) ELSE OversAbove(g[h - 1])
      OBVIOUS
    <2>2. Overs(g, value, 0)
      <3>1. g = [h \in 0 .. 0 |-> g[h]]
        OBVIOUS
      <3> HIDE DEF g
      <3> QED
        BY <2>1, <3>1, Zenon DEF Overs
    <2> QED
      BY <1>1, <1>2, <2>2
  <1>3. CASE m # 0
    <2>1. m - 1 \in Nat /\ m - 1 \notin Bad /\ m \in Nat
      BY <1>1, <1>3
    <2>2. PICK f : Overs(f, value, m - 1)
      BY <2>1
    <2> DEFINE g == [h \in 0 .. m |-> IF h = m THEN OversAbove(f[m - 1]) ELSE f[h]]
    <2>3. \A h \in 0 .. m : g[h] = IF h = 0 THEN Overs0(value) ELSE OversAbove(g[h - 1])
      <3>1. \A h \in 0 .. m - 1 : f[h] = IF h = 0 THEN Overs0(value) ELSE OversAbove(f[h - 1])
        BY <2>2, Zenon DEF Overs
      <3>2. \A h \in 0 .. m - 1 : g[h] = f[h] /\ (h # 0 => g[h - 1] = f[h - 1])
        BY <2>1
      <3>3. g[m] = OversAbove(f[m - 1]) /\ g[m - 1] = f[m - 1] /\ m # 0
        BY <1>3, <2>1
      <3> HIDE DEF g
      <3>4. ASSUME NEW h \in 0 .. m - 1
            PROVE  g[h] = IF h = 0 THEN Overs0(value) ELSE OversAbove(g[h - 1])
        BY <3>1, <3>2, Zenon
      <3>5. \A h \in 0 .. m : h = m \/ h \in 0 .. m - 1
        BY <2>1
      <3>6. g[m] = IF m = 0 THEN Overs0(value) ELSE OversAbove(g[m - 1])
        BY <3>3, Zenon
      <3> QED
        BY <3>4, <3>5, <3>6, Zenon
    <2>4. Overs(g, value, m)
      <3>1. g = [h \in 0 .. m |-> g[h]]
        OBVIOUS
      <3> HIDE DEF g
      <3> QED
        BY <2>3, <3>1, Zenon DEF Overs
    <2> QED
      BY <1>1, <2>4
  <1> QED
    BY <1>2, <1>3

\* The trees over values: leaves, and branches over the trees of one height less.
LEMMA OverDef ==
  ASSUME NEW value
  PROVE  /\ \A i \in Nat : Over(value)[0][i] = IF i \in DOMAIN value
                                               THEN Leaf([j \in {0} |-> ValueType], value[i])
                                               ELSE EmptyLeaf
         /\ \A h \in 1 .. Depth, i \in Nat :
               Over(value)[h][i] = Branch(Over(value)[h - 1][2 * i], Over(value)[h - 1][2 * i + 1])
  <1> DEFINE s == CHOOSE f : Overs(f, value, Depth)
  <1>1. Over(value) = s
    BY DEF Over, Overs, Overs0, OversAbove
  <1>2. Overs(s, value, Depth)
    BY OversExist, DepthAssumption, Zenon
  <1> HIDE DEF s
  <1>3. \A h \in 0 .. Depth : s[h] = IF h = 0 THEN Overs0(value) ELSE OversAbove(s[h - 1])
    BY <1>2, Zenon DEF Overs
  <1>4. 0 \in 0 .. Depth /\ \A h \in 1 .. Depth : h \in 0 .. Depth /\ h # 0
    BY DepthAssumption
  <1>5. s[0] = Overs0(value) /\ \A h \in 1 .. Depth : s[h] = OversAbove(s[h - 1])
    BY <1>3, <1>4, Zenon
  <1>6. \A i \in Nat : s[0][i] = IF i \in DOMAIN value
                                 THEN Leaf([j \in {0} |-> ValueType], value[i]) ELSE EmptyLeaf
    BY <1>5, Zenon DEF Overs0
  <1>7. \A h \in 1 .. Depth : \A i \in Nat : s[h][i] = Branch(s[h - 1][2 * i], s[h - 1][2 * i + 1])
    BY <1>5, Zenon DEF OversAbove
  <1> QED
    BY <1>1, <1>6, <1>7

----------------------------------------------------------------------------
(* add_leaf *)

\* The equations of the recursion in add_leaf, for the levels that are left.
Adds(f, nodes, path, val, n) ==
    f = [h \in 0 .. n |-> IF h = 0 THEN OutOfLevels(nodes)
                          ELSE AddAt(f[h - 1], nodes, Depth + 2 - h, path, val)]

\* There is a function that satisfies them.
LEMMA AddsExist ==
  ASSUME NEW nodes, NEW path, NEW val, NEW n \in Nat
  PROVE  \E f : Adds(f, nodes, path, val, n)
  <1> DEFINE Bad == {m \in Nat : ~\E f : Adds(f, nodes, path, val, m)}
  <1> SUFFICES ASSUME Bad # {}
               PROVE  FALSE
    OBVIOUS
  <1>1. PICK m \in Bad : \A j \in Bad : m <= j
    <2> HIDE DEF Bad
    <2>1. Bad \subseteq Nat
      BY DEF Bad
    <2> QED
      BY <2>1, LeastNumber
  <1>2. CASE m = 0
    <2> DEFINE g == [h \in 0 .. 0 |-> OutOfLevels(nodes)]
    <2>1. \A h \in 0 .. 0 : g[h] = IF h = 0 THEN OutOfLevels(nodes)
                                   ELSE AddAt(g[h - 1], nodes, Depth + 2 - h, path, val)
      OBVIOUS
    <2>2. Adds(g, nodes, path, val, 0)
      <3>1. g = [h \in 0 .. 0 |-> g[h]]
        OBVIOUS
      <3> HIDE DEF g
      <3> QED
        BY <2>1, <3>1, Zenon DEF Adds
    <2> QED
      BY <1>1, <1>2, <2>2
  <1>3. CASE m # 0
    <2>1. m - 1 \in Nat /\ m - 1 \notin Bad /\ m \in Nat
      BY <1>1, <1>3
    <2>2. PICK f : Adds(f, nodes, path, val, m - 1)
      BY <2>1
    <2> DEFINE g == [h \in 0 .. m |-> IF h = m THEN AddAt(f[m - 1], nodes, Depth + 2 - m, path, val)
                                      ELSE f[h]]
    <2>3. \A h \in 0 .. m : g[h] = IF h = 0 THEN OutOfLevels(nodes)
                                   ELSE AddAt(g[h - 1], nodes, Depth + 2 - h, path, val)
      <3>1. \A h \in 0 .. m - 1 : f[h] = IF h = 0 THEN OutOfLevels(nodes)
                                         ELSE AddAt(f[h - 1], nodes, Depth + 2 - h, path, val)
        BY <2>2, Zenon DEF Adds
      <3>2. \A h \in 0 .. m - 1 : g[h] = f[h] /\ (h # 0 => g[h - 1] = f[h - 1])
        BY <2>1
      <3>3. g[m] = AddAt(f[m - 1], nodes, Depth + 2 - m, path, val) /\ g[m - 1] = f[m - 1] /\ m # 0
        BY <1>3, <2>1
      <3> HIDE DEF g
      <3>4. ASSUME NEW h \in 0 .. m - 1
            PROVE  g[h] = IF h = 0 THEN OutOfLevels(nodes)
                          ELSE AddAt(g[h - 1], nodes, Depth + 2 - h, path, val)
        BY <3>1, <3>2, Zenon
      <3>5. \A h \in 0 .. m : h = m \/ h \in 0 .. m - 1
        BY <2>1
      <3>6. g[m] = IF m = 0 THEN OutOfLevels(nodes)
                   ELSE AddAt(g[m - 1], nodes, Depth + 2 - m, path, val)
        BY <3>3, Zenon
      <3> QED
        BY <3>4, <3>5, <3>6, Zenon
    <2>4. Adds(g, nodes, path, val, m)
      <3>1. g = [h \in 0 .. m |-> g[h]]
        OBVIOUS
      <3> HIDE DEF g
      <3> QED
        BY <2>3, <3>1, Zenon DEF Adds
    <2> QED
      BY <1>1, <2>4
  <1> QED
    BY <1>2, <1>3

\* add_leaf, level by level.
LEMMA AddLeafDef ==
  ASSUME NEW nodes, NEW path, NEW val
  PROVE  \A h \in 1 .. Depth + 2 : add_leaf(nodes, path, val)[h]
              = AddAt(add_leaf(nodes, path, val)[h - 1], nodes, Depth + 2 - h, path, val)
  <1> DEFINE s == CHOOSE f : Adds(f, nodes, path, val, Depth + 2)
  <1>1. add_leaf(nodes, path, val) = s
    BY DEF add_leaf, Adds
  <1>2. Adds(s, nodes, path, val, Depth + 2)
    <2>1. Depth + 2 \in Nat
      BY DepthAssumption
    <2> QED
      BY <2>1, AddsExist, Zenon
  <1> HIDE DEF s
  <1>3. \A h \in 0 .. Depth + 2 : s[h] = IF h = 0 THEN OutOfLevels(nodes)
                                         ELSE AddAt(s[h - 1], nodes, Depth + 2 - h, path, val)
    BY <1>2, Zenon DEF Adds
  <1>4. 0 \in 0 .. Depth + 2 /\ \A h \in 1 .. Depth + 2 : h \in 0 .. Depth + 2 /\ h # 0
    BY DepthAssumption
  <1> QED
    BY <1>1, <1>3, <1>4, Zenon

----------------------------------------------------------------------------
(* remove_leaf *)

\* The equations of the recursion in remove_leaf, for the levels that are left.
Removes(f, nodes, path, n) ==
    f = [h \in 0 .. n |-> IF h = 0 THEN OutOfLevels(nodes)
                          ELSE RemoveAt(f[h - 1], nodes, Depth + 2 - h, path)]

\* There is a function that satisfies them.
LEMMA RemovesExist ==
  ASSUME NEW nodes, NEW path, NEW n \in Nat
  PROVE  \E f : Removes(f, nodes, path, n)
  <1> DEFINE Bad == {m \in Nat : ~\E f : Removes(f, nodes, path, m)}
  <1> SUFFICES ASSUME Bad # {}
               PROVE  FALSE
    OBVIOUS
  <1>1. PICK m \in Bad : \A j \in Bad : m <= j
    <2> HIDE DEF Bad
    <2>1. Bad \subseteq Nat
      BY DEF Bad
    <2> QED
      BY <2>1, LeastNumber
  <1>2. CASE m = 0
    <2> DEFINE g == [h \in 0 .. 0 |-> OutOfLevels(nodes)]
    <2>1. \A h \in 0 .. 0 : g[h] = IF h = 0 THEN OutOfLevels(nodes)
                                   ELSE RemoveAt(g[h - 1], nodes, Depth + 2 - h, path)
      OBVIOUS
    <2>2. Removes(g, nodes, path, 0)
      <3>1. g = [h \in 0 .. 0 |-> g[h]]
        OBVIOUS
      <3> HIDE DEF g
      <3> QED
        BY <2>1, <3>1, Zenon DEF Removes
    <2> QED
      BY <1>1, <1>2, <2>2
  <1>3. CASE m # 0
    <2>1. m - 1 \in Nat /\ m - 1 \notin Bad /\ m \in Nat
      BY <1>1, <1>3
    <2>2. PICK f : Removes(f, nodes, path, m - 1)
      BY <2>1
    <2> DEFINE g == [h \in 0 .. m |-> IF h = m THEN RemoveAt(f[m - 1], nodes, Depth + 2 - m, path)
                                      ELSE f[h]]
    <2>3. \A h \in 0 .. m : g[h] = IF h = 0 THEN OutOfLevels(nodes)
                                   ELSE RemoveAt(g[h - 1], nodes, Depth + 2 - h, path)
      <3>1. \A h \in 0 .. m - 1 : f[h] = IF h = 0 THEN OutOfLevels(nodes)
                                         ELSE RemoveAt(f[h - 1], nodes, Depth + 2 - h, path)
        BY <2>2, Zenon DEF Removes
      <3>2. \A h \in 0 .. m - 1 : g[h] = f[h] /\ (h # 0 => g[h - 1] = f[h - 1])
        BY <2>1
      <3>3. g[m] = RemoveAt(f[m - 1], nodes, Depth + 2 - m, path) /\ g[m - 1] = f[m - 1] /\ m # 0
        BY <1>3, <2>1
      <3> HIDE DEF g
      <3>4. ASSUME NEW h \in 0 .. m - 1
            PROVE  g[h] = IF h = 0 THEN OutOfLevels(nodes)
                          ELSE RemoveAt(g[h - 1], nodes, Depth + 2 - h, path)
        BY <3>1, <3>2, Zenon
      <3>5. \A h \in 0 .. m : h = m \/ h \in 0 .. m - 1
        BY <2>1
      <3>6. g[m] = IF m = 0 THEN OutOfLevels(nodes)
                   ELSE RemoveAt(g[m - 1], nodes, Depth + 2 - m, path)
        BY <3>3, Zenon
      <3> QED
        BY <3>4, <3>5, <3>6, Zenon
    <2>4. Removes(g, nodes, path, m)
      <3>1. g = [h \in 0 .. m |-> g[h]]
        OBVIOUS
      <3> HIDE DEF g
      <3> QED
        BY <2>3, <3>1, Zenon DEF Removes
    <2> QED
      BY <1>1, <2>4
  <1> QED
    BY <1>2, <1>3

\* remove_leaf, level by level.
LEMMA RemoveLeafDef ==
  ASSUME NEW nodes, NEW path
  PROVE  \A h \in 1 .. Depth + 2 : remove_leaf(nodes, path)[h]
              = RemoveAt(remove_leaf(nodes, path)[h - 1], nodes, Depth + 2 - h, path)
  <1> DEFINE s == CHOOSE f : Removes(f, nodes, path, Depth + 2)
  <1>1. remove_leaf(nodes, path) = s
    BY DEF remove_leaf, Removes
  <1>2. Removes(s, nodes, path, Depth + 2)
    <2>1. Depth + 2 \in Nat
      BY DepthAssumption
    <2> QED
      BY <2>1, RemovesExist, Zenon
  <1> HIDE DEF s
  <1>3. \A h \in 0 .. Depth + 2 : s[h] = IF h = 0 THEN OutOfLevels(nodes)
                                         ELSE RemoveAt(s[h - 1], nodes, Depth + 2 - h, path)
    BY <1>2, Zenon DEF Removes
  <1>4. 0 \in 0 .. Depth + 2 /\ \A h \in 1 .. Depth + 2 : h \in 0 .. Depth + 2 /\ h # 0
    BY DepthAssumption
  <1> QED
    BY <1>1, <1>3, <1>4, Zenon

----------------------------------------------------------------------------
(* get_node *)

\* The equations of the recursion in find_leaf, for the levels that are left.
Finds(f, nodes, path, n) ==
    f = [h \in 0 .. n |-> IF h = 0 THEN OutOfLevels(nodes)
                          ELSE FindAt(f[h - 1], nodes, Depth + 2 - h, path)]

\* There is a function that satisfies them.
LEMMA FindsExist ==
  ASSUME NEW nodes, NEW path, NEW n \in Nat
  PROVE  \E f : Finds(f, nodes, path, n)
  <1> DEFINE Bad == {m \in Nat : ~\E f : Finds(f, nodes, path, m)}
  <1> SUFFICES ASSUME Bad # {}
               PROVE  FALSE
    OBVIOUS
  <1>1. PICK m \in Bad : \A j \in Bad : m <= j
    <2> HIDE DEF Bad
    <2>1. Bad \subseteq Nat
      BY DEF Bad
    <2> QED
      BY <2>1, LeastNumber
  <1>2. CASE m = 0
    <2> DEFINE g == [h \in 0 .. 0 |-> OutOfLevels(nodes)]
    <2>1. \A h \in 0 .. 0 : g[h] = IF h = 0 THEN OutOfLevels(nodes)
                                   ELSE FindAt(g[h - 1], nodes, Depth + 2 - h, path)
      OBVIOUS
    <2>2. Finds(g, nodes, path, 0)
      <3>1. g = [h \in 0 .. 0 |-> g[h]]
        OBVIOUS
      <3> HIDE DEF g
      <3> QED
        BY <2>1, <3>1, Zenon DEF Finds
    <2> QED
      BY <1>1, <1>2, <2>2
  <1>3. CASE m # 0
    <2>1. m - 1 \in Nat /\ m - 1 \notin Bad /\ m \in Nat
      BY <1>1, <1>3
    <2>2. PICK f : Finds(f, nodes, path, m - 1)
      BY <2>1
    <2> DEFINE g == [h \in 0 .. m |-> IF h = m THEN FindAt(f[m - 1], nodes, Depth + 2 - m, path)
                                      ELSE f[h]]
    <2>3. \A h \in 0 .. m : g[h] = IF h = 0 THEN OutOfLevels(nodes)
                                   ELSE FindAt(g[h - 1], nodes, Depth + 2 - h, path)
      <3>1. \A h \in 0 .. m - 1 : f[h] = IF h = 0 THEN OutOfLevels(nodes)
                                         ELSE FindAt(f[h - 1], nodes, Depth + 2 - h, path)
        BY <2>2, Zenon DEF Finds
      <3>2. \A h \in 0 .. m - 1 : g[h] = f[h] /\ (h # 0 => g[h - 1] = f[h - 1])
        BY <2>1
      <3>3. g[m] = FindAt(f[m - 1], nodes, Depth + 2 - m, path) /\ g[m - 1] = f[m - 1] /\ m # 0
        BY <1>3, <2>1
      <3> HIDE DEF g
      <3>4. ASSUME NEW h \in 0 .. m - 1
            PROVE  g[h] = IF h = 0 THEN OutOfLevels(nodes)
                          ELSE FindAt(g[h - 1], nodes, Depth + 2 - h, path)
        BY <3>1, <3>2, Zenon
      <3>5. \A h \in 0 .. m : h = m \/ h \in 0 .. m - 1
        BY <2>1
      <3>6. g[m] = IF m = 0 THEN OutOfLevels(nodes)
                   ELSE FindAt(g[m - 1], nodes, Depth + 2 - m, path)
        BY <3>3, Zenon
      <3> QED
        BY <3>4, <3>5, <3>6, Zenon
    <2>4. Finds(g, nodes, path, m)
      <3>1. g = [h \in 0 .. m |-> g[h]]
        OBVIOUS
      <3> HIDE DEF g
      <3> QED
        BY <2>3, <3>1, Zenon DEF Finds
    <2> QED
      BY <1>1, <2>4
  <1> QED
    BY <1>2, <1>3

\* get_node, level by level.
LEMMA FindLeafDef ==
  ASSUME NEW nodes, NEW path
  PROVE  \A h \in 1 .. Depth + 2 : find_leaf(nodes, path)[h]
              = FindAt(find_leaf(nodes, path)[h - 1], nodes, Depth + 2 - h, path)
  <1> DEFINE s == CHOOSE f : Finds(f, nodes, path, Depth + 2)
  <1>1. find_leaf(nodes, path) = s
    BY DEF find_leaf, Finds
  <1>2. Finds(s, nodes, path, Depth + 2)
    <2>1. Depth + 2 \in Nat
      BY DepthAssumption
    <2> QED
      BY <2>1, FindsExist, Zenon
  <1> HIDE DEF s
  <1>3. \A h \in 0 .. Depth + 2 : s[h] = IF h = 0 THEN OutOfLevels(nodes)
                                         ELSE FindAt(s[h - 1], nodes, Depth + 2 - h, path)
    BY <1>2, Zenon DEF Finds
  <1>4. 0 \in 0 .. Depth + 2 /\ \A h \in 1 .. Depth + 2 : h \in 0 .. Depth + 2 /\ h # 0
    BY DepthAssumption
  <1> QED
    BY <1>1, <1>3, <1>4, Zenon

----------------------------------------------------------------------------
(* Indices and their paths *)

\* What holds at the bottom and one level further up wherever it holds, holds everywhere.
LEMMA LevelByLevel ==
  ASSUME NEW n \in Nat, NEW S, 0 \in S,
         \A h \in 1 .. n : h - 1 \in S => h \in S
  PROVE  \A h \in 0 .. n : h \in S
  <1> DEFINE Bad == {h \in 0 .. n : h \notin S}
  <1> SUFFICES ASSUME Bad # {}
               PROVE  FALSE
    OBVIOUS
  <1>1. PICK m \in Bad : \A j \in Bad : m <= j
    <2> HIDE DEF Bad
    <2>1. Bad \subseteq Nat
      BY DEF Bad
    <2> QED
      BY <2>1, LeastNumber
  <1>2. m # 0 /\ m \in 1 .. n /\ m - 1 \in 0 .. n /\ ~(m <= m - 1)
    BY <1>1
  <1>3. m - 1 \notin Bad
    BY <1>1, <1>2
  <1> QED
    BY <1>1, <1>2, <1>3

\* An index for which get_leaf_path has room.
Fits(i) == i \in Nat /\ Halves(i)[Depth] = 0

\* The halves of a natural number are natural numbers.
LEMMA HalvesNat ==
  ASSUME NEW i \in Nat
  PROVE  \A h \in 0 .. Depth : Halves(i)[h] \in Nat
  <1> DEFINE S == {h \in 0 .. Depth : Halves(i)[h] \in Nat}
  <1>1. 0 \in S
    BY HalvesDef, DepthAssumption
  <1>2. ASSUME NEW h \in 1 .. Depth, h - 1 \in S
        PROVE  h \in S
    <2>1. \A m \in Nat : m \div 2 \in Nat
      OBVIOUS
    <2>2. Halves(i)[h - 1] \in Nat /\ Halves(i)[h] = Halves(i)[h - 1] \div 2
      BY <1>2, HalvesDef
    <2>3. Halves(i)[h] \in Nat
      BY <2>1, <2>2
    <2>4. h \in 0 .. Depth
      BY DepthAssumption
    <2> QED
      BY <2>3, <2>4
  <1> HIDE DEF S
  <1>3. \A h \in 0 .. Depth : h \in S
    BY <1>1, <1>2, LevelByLevel, DepthAssumption
  <1> QED
    BY <1>3 DEF S

\* There is room for a smaller index, too.
LEMMA FitsBelow ==
  ASSUME NEW i \in Nat, NEW j \in Nat, i <= j, Fits(j)
  PROVE  Fits(i)
  <1> DEFINE S == {h \in 0 .. Depth : Halves(i)[h] <= Halves(j)[h]}
  <1>1. 0 \in S
    BY HalvesDef, DepthAssumption
  <1>2. ASSUME NEW h \in 1 .. Depth, h - 1 \in S
        PROVE  h \in S
    <2>1. \A a, b \in Nat : a <= b => a \div 2 <= b \div 2
      OBVIOUS
    <2>2. h - 1 \in 0 .. Depth /\ h \in 0 .. Depth
      BY DepthAssumption
    <2>3. Halves(i)[h - 1] \in Nat /\ Halves(j)[h - 1] \in Nat
      BY <2>2, HalvesNat
    <2>4. Halves(i)[h] = Halves(i)[h - 1] \div 2 /\ Halves(j)[h] = Halves(j)[h - 1] \div 2
      BY HalvesDef
    <2>5. Halves(i)[h - 1] <= Halves(j)[h - 1]
      BY <1>2
    <2>6. Halves(i)[h] <= Halves(j)[h]
      BY <2>1, <2>3, <2>4, <2>5
    <2> QED
      BY <2>2, <2>6
  <1> HIDE DEF S
  <1>3. \A h \in 0 .. Depth : h \in S
    BY <1>1, <1>2, LevelByLevel, DepthAssumption
  <1>4. Depth \in 0 .. Depth
    BY DepthAssumption
  <1>5. Halves(i)[Depth] <= Halves(j)[Depth] /\ Halves(i)[Depth] \in Nat
    BY <1>3, <1>4, HalvesNat DEF S
  <1> QED
    BY <1>5 DEF Fits

\* Every index of the trie has a path.
LEMMA IndexFits == \A i \in Index : Fits(i)
  <1>1. Fits(Capacity)
    BY HandlersAssumption, TrieAssumption DEF Fits
  <1>2. \A i \in Index : i \in Nat /\ i <= Capacity
    BY TrieAssumption DEF Index
  <1> QED
    BY <1>1, <1>2, FitsBelow, TrieAssumption

\* The bits of a path, counted from the leaf.
LEMMA PathBits ==
  ASSUME NEW i \in Nat
  PROVE  /\ get_leaf_path(i)[0] = 1
         /\ \A h \in 1 .. Depth : get_leaf_path(i)[Depth + 1 - h] = Halves(i)[h - 1] % 2
         /\ get_leaf_path(i)[Depth + 1] = ValueType
         /\ Rest(get_leaf_path(i), Depth + 1) = [j \in {0} |-> ValueType]
  <1> USE DepthAssumption
  <1> DEFINE path == get_leaf_path(i)
  <1>1. path[0] = 1
    BY DEF get_leaf_path
  <1>2. ASSUME NEW h \in 1 .. Depth
        PROVE  path[Depth + 1 - h] = Halves(i)[h - 1] % 2
    <2> DEFINE lvl == Depth + 1 - h
    <2>1. lvl \in 0 .. Depth + 1 /\ lvl # 0 /\ lvl # Depth + 1 /\ Depth - lvl = h - 1
      OBVIOUS
    <2> HIDE DEF lvl
    <2>2. path[lvl] = Halves(i)[Depth - lvl] % 2
      BY <2>1 DEF get_leaf_path
    <2> QED
      BY <2>1, <2>2 DEF lvl
  <1>3. path[Depth + 1] = ValueType
    BY DEF get_leaf_path
  <1>4. Rest(path, Depth + 1) = [j \in {0} |-> ValueType]
    <2> HIDE DEF path
    <2>1. Depth + 1 - (Depth + 1) = 0 /\ 0 .. 0 = {0} /\ Depth + 1 + 0 = Depth + 1
      OBVIOUS
    <2>2. Rest(path, Depth + 1) = [j \in {0} |-> path[Depth + 1 + j]]
      BY <2>1 DEF Rest
    <2> QED
      BY <1>3, <2>1, <2>2
  <1> QED
    BY <1>1, <1>2, <1>3, <1>4

----------------------------------------------------------------------------
(* Trees over values *)

\* The node on the path to i, at a height above the leaves.
OnPath(value, i, h) == Over(value)[h][Halves(i)[h]]

\* Two leaf sequences with the same leaves but for the one at i.
SameBut(v, w, i) ==
    \A k \in Nat \ {i} : /\ k \in DOMAIN v <=> k \in DOMAIN w
                         /\ k \in DOMAIN v => v[k] = w[k]

\* Two numbers under an index are its double and the number after it.
LEMMA Halved ==
  ASSUME NEW i \in Nat, NEW h \in 1 .. Depth
  PROVE  /\ Halves(i)[h] \in Nat /\ Halves(i)[h - 1] \in Nat
         /\ IF Halves(i)[h - 1] % 2 = 0 THEN Halves(i)[h - 1] = 2 * Halves(i)[h]
                                         ELSE Halves(i)[h - 1] = 2 * Halves(i)[h] + 1
  <1>1. Halves(i)[h] \in Nat /\ Halves(i)[h - 1] \in Nat
    BY HalvesNat, DepthAssumption
  <1>2. Halves(i)[h] = Halves(i)[h - 1] \div 2
    BY HalvesDef
  <1>3. \A m \in Nat : IF m % 2 = 0 THEN m = 2 * (m \div 2) ELSE m = 2 * (m \div 2) + 1
    OBVIOUS
  <1> QED
    BY <1>1, <1>2, <1>3

\* Off the path to a leaf nothing depends on it.
LEMMA OverOff ==
  ASSUME NEW v, NEW w, NEW i \in Nat, SameBut(v, w, i)
  PROVE  \A h \in 0 .. Depth : \A m \in Nat \ {Halves(i)[h]} : Over(v)[h][m] = Over(w)[h][m]
  <1> DEFINE S == {h \in 0 .. Depth : \A m \in Nat \ {Halves(i)[h]} : Over(v)[h][m] = Over(w)[h][m]}
  <1>1. 0 \in S
    <2>1. ASSUME NEW m \in Nat \ {i}
          PROVE  Over(v)[0][m] = Over(w)[0][m]
      BY OverDef DEF SameBut
    <2>2. Halves(i)[0] = i /\ 0 \in 0 .. Depth
      BY HalvesDef, DepthAssumption
    <2> QED
      BY <2>1, <2>2
  <1>2. ASSUME NEW h \in 1 .. Depth, h - 1 \in S
        PROVE  h \in S
    <2>1. ASSUME NEW m \in Nat \ {Halves(i)[h]}
          PROVE  Over(v)[h][m] = Over(w)[h][m]
      <3>1. 2 * m \in Nat /\ 2 * m + 1 \in Nat
        OBVIOUS
      <3>2. 2 * m # Halves(i)[h - 1] /\ 2 * m + 1 # Halves(i)[h - 1]
        <4>1. \A a, b \in Nat : a # b => /\ 2 * a # 2 * b /\ 2 * a # 2 * b + 1
                                         /\ 2 * a + 1 # 2 * b /\ 2 * a + 1 # 2 * b + 1
          OBVIOUS
        <4> DEFINE b == Halves(i)[h]
                   c == Halves(i)[h - 1]
        <4>2. b \in Nat /\ c \in Nat /\ (c = 2 * b \/ c = 2 * b + 1) /\ m # b
          BY Halved
        <4> HIDE DEF b, c
        <4>3. 2 * m # c /\ 2 * m + 1 # c
          BY <4>1, <4>2
        <4> QED
          BY <4>3 DEF c
      <3>3. /\ Over(v)[h - 1][2 * m] = Over(w)[h - 1][2 * m]
            /\ Over(v)[h - 1][2 * m + 1] = Over(w)[h - 1][2 * m + 1]
        BY <1>2, <3>1, <3>2
      <3> QED
        BY <3>3, OverDef
    <2>2. h \in 0 .. Depth
      BY DepthAssumption
    <2> QED
      BY <2>1, <2>2
  <1> HIDE DEF S
  <1>3. \A h \in 0 .. Depth : h \in S
    BY <1>1, <1>2, LevelByLevel, DepthAssumption
  <1> QED
    BY <1>3 DEF S

\* At the bottom of a path there is a leaf or an empty leaf.
LEMMA PathEnds ==
  ASSUME NEW v, NEW i \in Nat
  PROVE  OnPath(v, i, 0) = IF i \in DOMAIN v THEN Leaf([j \in {0} |-> ValueType], v[i])
                           ELSE EmptyLeaf
  <1>1. Halves(i)[0] = i
    BY HalvesDef
  <1> QED
    BY <1>1, OverDef DEF OnPath

\* Above it there is a branch over the trees of one height less.
LEMMA PathBranch ==
  ASSUME NEW v, NEW i \in Nat, NEW h \in 1 .. Depth
  PROVE  OnPath(v, i, h) = Branch(Over(v)[h - 1][2 * Halves(i)[h]], Over(v)[h - 1][2 * Halves(i)[h] + 1])
  <1>1. Halves(i)[h] \in Nat
    BY Halved
  <1>2. \A m \in Nat : Over(v)[h][m] = Branch(Over(v)[h - 1][2 * m], Over(v)[h - 1][2 * m + 1])
    BY OverDef
  <1> QED
    BY <1>1, <1>2, Zenon DEF OnPath

\* Above it there are branches, and the path leads from each to the next.
LEMMA PathBranches ==
  ASSUME NEW v, NEW i \in Nat, NEW h \in 1 .. Depth
  PROVE  /\ OnPath(v, i, h).kind = "branch"
         /\ Child(OnPath(v, i, h), get_leaf_path(i)[Depth + 1 - h]) = OnPath(v, i, h - 1)
  <1> DEFINE m == Halves(i)[h]
  <1>1. OnPath(v, i, h) = Branch(Over(v)[h - 1][2 * m], Over(v)[h - 1][2 * m + 1])
    BY PathBranch
  <1>2. get_leaf_path(i)[Depth + 1 - h] = Halves(i)[h - 1] % 2
    BY PathBits
  <1>3. IF Halves(i)[h - 1] % 2 = 0 THEN Halves(i)[h - 1] = 2 * m ELSE Halves(i)[h - 1] = 2 * m + 1
    BY Halved
  <1> HIDE DEF m
  <1> QED
    BY <1>1, <1>2, <1>3 DEF OnPath, Child, Branch

\* With the child on the path replaced, a branch is that of the other values.
LEMMA PathReplaced ==
  ASSUME NEW v, NEW w, NEW i \in Nat, SameBut(v, w, i), NEW h \in 1 .. Depth
  PROVE  Replace(OnPath(v, i, h), get_leaf_path(i)[Depth + 1 - h], OnPath(w, i, h - 1))
            = OnPath(w, i, h)
  <1> DEFINE m == Halves(i)[h]
             c == Halves(i)[h - 1]
  <1>1. m \in Nat /\ c \in Nat /\ IF c % 2 = 0 THEN c = 2 * m ELSE c = 2 * m + 1
    BY Halved
  <1>2. /\ OnPath(v, i, h) = Branch(Over(v)[h - 1][2 * m], Over(v)[h - 1][2 * m + 1])
        /\ OnPath(w, i, h) = Branch(Over(w)[h - 1][2 * m], Over(w)[h - 1][2 * m + 1])
    BY PathBranch
  <1>3. get_leaf_path(i)[Depth + 1 - h] = c % 2
    BY PathBits
  <1>4. \A k \in Nat \ {c} : Over(v)[h - 1][k] = Over(w)[h - 1][k]
    BY OverOff, DepthAssumption
  <1>5. OnPath(w, i, h - 1) = Over(w)[h - 1][c]
    BY DEF OnPath
  <1>6. 2 * m \in Nat /\ 2 * m + 1 \in Nat /\ 2 * m # 2 * m + 1
    BY <1>1
  <1> HIDE DEF m, c
  <1>7. CASE c % 2 = 0
    <2>1. c = 2 * m /\ Over(v)[h - 1][2 * m + 1] = Over(w)[h - 1][2 * m + 1]
      BY <1>1, <1>4, <1>6, <1>7
    <2> QED
      BY <1>2, <1>3, <1>5, <1>7, <2>1 DEF Replace, Branch
  <1>8. CASE c % 2 # 0
    <2>1. c = 2 * m + 1 /\ Over(v)[h - 1][2 * m] = Over(w)[h - 1][2 * m]
      BY <1>1, <1>4, <1>6, <1>8
    <2> QED
      BY <1>2, <1>3, <1>5, <1>8, <2>1 DEF Replace, Branch
  <1> QED
    BY <1>7, <1>8

\* The root of a sub trie is on the path to each of its indices.
LEMMA PathFromRoot ==
  ASSUME NEW v, NEW i, Fits(i)
  PROVE  OnPath(v, i, Depth) = Over(v)[Depth][0]
  BY DEF OnPath, Fits

----------------------------------------------------------------------------
(* The operations along a path *)

\* The nodes on the path to i are stored, up to a height.
Stored(nodes, v, i, h) == \A k \in 0 .. h : OnPath(v, i, k) \in nodes

\* The nodes on the path, from one height up to another.
PathNodes(v, i, a, h) == {OnPath(v, i, k) : k \in a .. h}

\* One level more is one node more.
LEMMA StoredAbove ==
  ASSUME NEW nodes, NEW v, NEW i, NEW h \in 1 .. Depth
  PROVE  Stored(nodes, v, i, h) <=> Stored(nodes, v, i, h - 1) /\ OnPath(v, i, h) \in nodes
  <1>1. \A k : k \in 0 .. h <=> k \in 0 .. (h - 1) \/ k = h
    BY DepthAssumption
  <1> QED
    BY <1>1, Zenon DEF Stored

\* One level more is one node more of the path.
LEMMA PathNodesAbove ==
  ASSUME NEW v, NEW i, NEW a \in {0, 1}, NEW h \in 1 .. Depth
  PROVE  PathNodes(v, i, a, h) = PathNodes(v, i, a, h - 1) \cup {OnPath(v, i, h)}
  <1>1. \A k : k \in a .. h <=> k \in a .. (h - 1) \/ k = h
    BY DepthAssumption
  <1> QED
    BY <1>1, Zenon DEF PathNodes

\* A tree is no failure.
LEMMA TreeForm ==
  ASSUME NEW n, NEW nodes
  PROVE  /\ Tree(n, nodes) # Failed
         /\ Tree(n, nodes).root = n
         /\ Tree(n, nodes).nodes = nodes
  BY DEF Tree, Failed

\* A branch of the path is stored with the new tree under it, or a failure is passed on.
LEMMA BranchReplaced ==
  ASSUME NEW nodes, NEW v, NEW w, NEW i \in Nat, SameBut(v, w, i), NEW h \in 1 .. Depth,
         NEW child, NEW a \in {0, 1},
         child = IF Stored(nodes, v, i, h - 1)
                 THEN Tree(OnPath(w, i, h - 1), nodes \cup PathNodes(w, i, a, h - 1)) ELSE Failed,
         OnPath(v, i, h) \in nodes
  PROVE  AddBranch(child, OnPath(v, i, h), get_leaf_path(i)[Depth + 1 - h])
            = IF Stored(nodes, v, i, h)
              THEN Tree(OnPath(w, i, h), nodes \cup PathNodes(w, i, a, h)) ELSE Failed
  <1>1. Stored(nodes, v, i, h) <=> Stored(nodes, v, i, h - 1)
    BY StoredAbove
  <1>2. PathNodes(w, i, a, h) = PathNodes(w, i, a, h - 1) \cup {OnPath(w, i, h)}
    BY PathNodesAbove
  <1>3. CASE ~Stored(nodes, v, i, h - 1)
    BY <1>1, <1>3 DEF AddBranch
  <1>4. CASE Stored(nodes, v, i, h - 1)
    <2>1. child = Tree(OnPath(w, i, h - 1), nodes \cup PathNodes(w, i, a, h - 1))
      BY <1>4
    <2>2. /\ child # Failed
          /\ child.root = OnPath(w, i, h - 1)
          /\ child.nodes = nodes \cup PathNodes(w, i, a, h - 1)
      BY <2>1, TreeForm
    <2>3. Replace(OnPath(v, i, h), get_leaf_path(i)[Depth + 1 - h], OnPath(w, i, h - 1)) = OnPath(w, i, h)
      BY PathReplaced
    <2>4. child.nodes \cup {OnPath(w, i, h)} = nodes \cup PathNodes(w, i, a, h)
      BY <1>2, <2>2
    <2>5. AddBranch(child, OnPath(v, i, h), get_leaf_path(i)[Depth + 1 - h])
             = Tree(OnPath(w, i, h), nodes \cup PathNodes(w, i, a, h))
      BY <2>2, <2>3, <2>4 DEF AddBranch, db_add
    <2> QED
      BY <1>1, <1>4, <2>5
  <1> QED
    BY <1>3, <1>4

\* add_leaf on the path to i makes the tree over the values with the new one, if every node
\* of the path is stored, and fails otherwise.
LEMMA AddOnPath ==
  ASSUME NEW nodes, NEW v, NEW w, NEW i \in Nat, NEW val,
         SameBut(v, w, i), i \in DOMAIN w, w[i] = val
  PROVE  \A h \in 0 .. Depth : OnPath(v, i, h) \in nodes =>
            add_leaf(nodes, get_leaf_path(i), val)[h + 1][OnPath(v, i, h)]
               = IF Stored(nodes, v, i, h)
                 THEN Tree(OnPath(w, i, h), nodes \cup PathNodes(w, i, 0, h)) ELSE Failed
  <1> DEFINE path == get_leaf_path(i)
             add == add_leaf(nodes, path, val)
             Right(h) == IF Stored(nodes, v, i, h)
                         THEN Tree(OnPath(w, i, h), nodes \cup PathNodes(w, i, 0, h)) ELSE Failed
             S == {h \in 0 .. Depth : OnPath(v, i, h) \in nodes => add[h + 1][OnPath(v, i, h)] = Right(h)}
  <1>1. \A left \in 1 .. (Depth + 2) : add[left] = AddAt(add[left - 1], nodes, Depth + 2 - left, path, val)
    <2> HIDE DEF path
    <2> QED
      BY AddLeafDef
  <1> HIDE DEF add
  <1>2. 0 \in S
    <2> SUFFICES ASSUME OnPath(v, i, 0) \in nodes
                 PROVE  add[1][OnPath(v, i, 0)] = Right(0)
      BY DepthAssumption
    <2> DEFINE n == OnPath(v, i, 0)
    <2>1. add[1] = AddAt(add[0], nodes, Depth + 1, path, val)
      <3>1. 1 \in 1 .. (Depth + 2) /\ 1 - 1 = 0 /\ Depth + 2 - 1 = Depth + 1
        BY DepthAssumption
      <3> QED
        BY <1>1, <3>1
    <2>2. n = IF i \in DOMAIN v THEN Leaf([j \in {0} |-> ValueType], v[i]) ELSE EmptyLeaf
      BY PathEnds
    <2>3. /\ n.kind # "branch"
          /\ n.kind = "leaf" => n.path = [j \in {0} |-> ValueType]
      BY <2>2 DEF Leaf, EmptyLeaf
    <2>4. path[Depth + 1 + 0] = ValueType
      BY PathBits, DepthAssumption
    <2>5. ~(n.kind = "leaf" /\ \E j \in DOMAIN n.path : n.path[j] # path[Depth + 1 + j])
      BY <2>3, <2>4
    <2>6. Leaf(Rest(path, Depth + 1), val) = OnPath(w, i, 0)
      BY PathBits, PathEnds
    <2>7. add[1][n] = db_add(nodes, OnPath(w, i, 0))
      BY <2>1, <2>3, <2>5, <2>6 DEF AddAt
    <2>8. Stored(nodes, v, i, 0) /\ PathNodes(w, i, 0, 0) = {OnPath(w, i, 0)}
      BY DEF Stored, PathNodes
    <2> QED
      BY <2>7, <2>8 DEF db_add
  <1>3. ASSUME NEW h \in 1 .. Depth, h - 1 \in S
        PROVE  h \in S
    <2>1. h \in 0 .. Depth /\ h \in 1 .. (Depth + 2) /\ h + 1 \in 1 .. (Depth + 2)
          /\ h + 1 - 1 = h /\ h - 1 + 1 = h /\ Depth + 2 - (h + 1) = Depth + 1 - h
      BY DepthAssumption
    <2> SUFFICES ASSUME OnPath(v, i, h) \in nodes
                 PROVE  add[h + 1][OnPath(v, i, h)] = Right(h)
      BY <2>1
    <2>2. add[h + 1] = AddAt(add[h], nodes, Depth + 1 - h, path, val)
      BY <1>1, <2>1
    <2>3. /\ OnPath(v, i, h).kind = "branch"
          /\ Child(OnPath(v, i, h), path[Depth + 1 - h]) = OnPath(v, i, h - 1)
      BY PathBranches
    <2> DEFINE child == Under(add[h], nodes, OnPath(v, i, h - 1))
    <2>4. add[h + 1][OnPath(v, i, h)] = AddBranch(child, OnPath(v, i, h), path[Depth + 1 - h])
      BY <2>2, <2>3 DEF AddAt
    <2>5. child = Right(h - 1)
      <3>1. CASE OnPath(v, i, h - 1) \in nodes
        BY <1>3, <2>1, <3>1 DEF Under
      <3>2. CASE OnPath(v, i, h - 1) \notin nodes
        <4>1. ~Stored(nodes, v, i, h - 1)
          BY <3>2, DepthAssumption DEF Stored
        <4> QED
          BY <3>2, <4>1 DEF Under
      <3> QED
        BY <3>1, <3>2
    <2> HIDE DEF child
    <2> QED
      BY <2>4, <2>5, BranchReplaced
  <1> HIDE DEF S
  <1>4. \A h \in 0 .. Depth : h \in S
    BY <1>2, <1>3, LevelByLevel, DepthAssumption
  <1> QED
    BY <1>4 DEF S, add

\* remove_leaf on the path to i makes the tree over the other values, under the same
\* condition.
LEMMA RemoveOnPath ==
  ASSUME NEW nodes, NEW v, NEW w, NEW i \in Nat, SameBut(v, w, i), i \notin DOMAIN w
  PROVE  \A h \in 0 .. Depth : OnPath(v, i, h) \in nodes =>
            remove_leaf(nodes, get_leaf_path(i))[h + 1][OnPath(v, i, h)]
               = IF Stored(nodes, v, i, h)
                 THEN Tree(OnPath(w, i, h), nodes \cup PathNodes(w, i, 1, h)) ELSE Failed
  <1> DEFINE path == get_leaf_path(i)
             rem == remove_leaf(nodes, path)
             Right(h) == IF Stored(nodes, v, i, h)
                         THEN Tree(OnPath(w, i, h), nodes \cup PathNodes(w, i, 1, h)) ELSE Failed
             S == {h \in 0 .. Depth : OnPath(v, i, h) \in nodes => rem[h + 1][OnPath(v, i, h)] = Right(h)}
  <1>1. \A left \in 1 .. (Depth + 2) : rem[left] = RemoveAt(rem[left - 1], nodes, Depth + 2 - left, path)
    <2> HIDE DEF path
    <2> QED
      BY RemoveLeafDef
  <1> HIDE DEF rem
  <1>2. 0 \in S
    <2> SUFFICES ASSUME OnPath(v, i, 0) \in nodes
                 PROVE  rem[1][OnPath(v, i, 0)] = Right(0)
      BY DepthAssumption
    <2> DEFINE n == OnPath(v, i, 0)
    <2>1. rem[1] = RemoveAt(rem[0], nodes, Depth + 1, path)
      <3>1. 1 \in 1 .. (Depth + 2) /\ 1 - 1 = 0 /\ Depth + 2 - 1 = Depth + 1
        BY DepthAssumption
      <3> QED
        BY <1>1, <3>1
    <2>2. n.kind # "branch"
      BY PathEnds DEF Leaf, EmptyLeaf
    <2>3. rem[1][n] = Tree(EmptyLeaf, nodes)
      BY <2>1, <2>2 DEF RemoveAt
    <2>4. Stored(nodes, v, i, 0) /\ PathNodes(w, i, 1, 0) = {} /\ EmptyLeaf = OnPath(w, i, 0)
      BY PathEnds DEF Stored, PathNodes
    <2> QED
      BY <2>3, <2>4
  <1>3. ASSUME NEW h \in 1 .. Depth, h - 1 \in S
        PROVE  h \in S
    <2>1. h \in 0 .. Depth /\ h \in 1 .. (Depth + 2) /\ h + 1 \in 1 .. (Depth + 2)
          /\ h + 1 - 1 = h /\ h - 1 + 1 = h /\ Depth + 2 - (h + 1) = Depth + 1 - h
      BY DepthAssumption
    <2> SUFFICES ASSUME OnPath(v, i, h) \in nodes
                 PROVE  rem[h + 1][OnPath(v, i, h)] = Right(h)
      BY <2>1
    <2>2. rem[h + 1] = RemoveAt(rem[h], nodes, Depth + 1 - h, path)
      BY <1>1, <2>1
    <2>3. /\ OnPath(v, i, h).kind = "branch"
          /\ Child(OnPath(v, i, h), path[Depth + 1 - h]) = OnPath(v, i, h - 1)
      BY PathBranches
    <2> DEFINE child == Under(rem[h], nodes, OnPath(v, i, h - 1))
    <2>4. rem[h + 1][OnPath(v, i, h)] = AddBranch(child, OnPath(v, i, h), path[Depth + 1 - h])
      BY <2>2, <2>3 DEF RemoveAt
    <2>5. child = Right(h - 1)
      <3>1. CASE OnPath(v, i, h - 1) \in nodes
        BY <1>3, <2>1, <3>1 DEF Under
      <3>2. CASE OnPath(v, i, h - 1) \notin nodes
        <4>1. ~Stored(nodes, v, i, h - 1)
          BY <3>2, DepthAssumption DEF Stored
        <4> QED
          BY <3>2, <4>1 DEF Under
      <3> QED
        BY <3>1, <3>2
    <2> HIDE DEF child
    <2> QED
      BY <2>4, <2>5, BranchReplaced
  <1> HIDE DEF S
  <1>4. \A h \in 0 .. Depth : h \in S
    BY <1>2, <1>3, LevelByLevel, DepthAssumption
  <1> QED
    BY <1>4 DEF S, rem

\* get_node on the path to i finds the leaf of i, if there is one and every node of the path
\* is stored.
LEMMA FindOnPath ==
  ASSUME NEW nodes, NEW v, NEW i \in Nat
  PROVE  \A h \in 0 .. Depth : OnPath(v, i, h) \in nodes =>
            find_leaf(nodes, get_leaf_path(i))[h + 1][OnPath(v, i, h)]
               = IF Stored(nodes, v, i, h) /\ i \in DOMAIN v THEN OnPath(v, i, 0) ELSE Failed
  <1> DEFINE path == get_leaf_path(i)
             find == find_leaf(nodes, path)
             Right(h) == IF Stored(nodes, v, i, h) /\ i \in DOMAIN v THEN OnPath(v, i, 0)
                         ELSE Failed
             S == {h \in 0 .. Depth : OnPath(v, i, h) \in nodes => find[h + 1][OnPath(v, i, h)] = Right(h)}
  <1>1. \A left \in 1 .. (Depth + 2) : find[left] = FindAt(find[left - 1], nodes, Depth + 2 - left, path)
    <2> HIDE DEF path
    <2> QED
      BY FindLeafDef
  <1> HIDE DEF find
  <1>2. 0 \in S
    <2> SUFFICES ASSUME OnPath(v, i, 0) \in nodes
                 PROVE  find[1][OnPath(v, i, 0)] = Right(0)
      BY DepthAssumption
    <2> DEFINE n == OnPath(v, i, 0)
    <2>1. find[1] = FindAt(find[0], nodes, Depth + 1, path)
      <3>1. 1 \in 1 .. (Depth + 2) /\ 1 - 1 = 0 /\ Depth + 2 - 1 = Depth + 1
        BY DepthAssumption
      <3> QED
        BY <1>1, <3>1
    <2>2. n = IF i \in DOMAIN v THEN Leaf([j \in {0} |-> ValueType], v[i]) ELSE EmptyLeaf
      BY PathEnds
    <2>3. /\ n.kind # "branch"
          /\ n.kind = "leaf" <=> i \in DOMAIN v
          /\ i \in DOMAIN v => n.path = Rest(path, Depth + 1)
      BY <2>2, PathBits DEF Leaf, EmptyLeaf
    <2>4. find[1][n] = IF i \in DOMAIN v THEN n ELSE Failed
      BY <2>1, <2>3 DEF FindAt
    <2>5. Stored(nodes, v, i, 0)
      BY DEF Stored
    <2> QED
      BY <2>4, <2>5
  <1>3. ASSUME NEW h \in 1 .. Depth, h - 1 \in S
        PROVE  h \in S
    <2>1. h \in 0 .. Depth /\ h \in 1 .. (Depth + 2) /\ h + 1 \in 1 .. (Depth + 2)
          /\ h + 1 - 1 = h /\ h - 1 + 1 = h /\ Depth + 2 - (h + 1) = Depth + 1 - h
      BY DepthAssumption
    <2> SUFFICES ASSUME OnPath(v, i, h) \in nodes
                 PROVE  find[h + 1][OnPath(v, i, h)] = Right(h)
      BY <2>1
    <2>2. find[h + 1] = FindAt(find[h], nodes, Depth + 1 - h, path)
      BY <1>1, <2>1
    <2>3. /\ OnPath(v, i, h).kind = "branch"
          /\ Child(OnPath(v, i, h), path[Depth + 1 - h]) = OnPath(v, i, h - 1)
      BY PathBranches
    <2>4. find[h + 1][OnPath(v, i, h)] = Under(find[h], nodes, OnPath(v, i, h - 1))
      BY <2>2, <2>3 DEF FindAt
    <2>5. Under(find[h], nodes, OnPath(v, i, h - 1)) = Right(h - 1)
      <3>1. CASE OnPath(v, i, h - 1) \in nodes
        BY <1>3, <2>1, <3>1 DEF Under
      <3>2. CASE OnPath(v, i, h - 1) \notin nodes
        <4>1. ~Stored(nodes, v, i, h - 1)
          BY <3>2, DepthAssumption DEF Stored
        <4> QED
          BY <3>2, <4>1 DEF Under
      <3> QED
        BY <3>1, <3>2
    <2>6. Stored(nodes, v, i, h) <=> Stored(nodes, v, i, h - 1)
      BY StoredAbove
    <2> QED
      BY <2>4, <2>5, <2>6
  <1> HIDE DEF S
  <1>4. \A h \in 0 .. Depth : h \in S
    BY <1>2, <1>3, LevelByLevel, DepthAssumption
  <1> QED
    BY <1>4 DEF S, find
----------------------------------------------------------------------------
(* The operations on a tree *)

\* The root over the values, with n in the top node.
RootOf(n, v) == TopNode(n, Over(v)[Depth][0])

\* What the operations need of the Database.
Reachable(nodes, n, v, i) == RootOf(n, v) \in nodes /\ Stored(nodes, v, i, Depth)

\* From the top node a path leads into the sub trie.
LEMMA RootDown ==
  ASSUME NEW n, NEW v, NEW i, Fits(i)
  PROVE  /\ RootOf(n, v).kind = "branch"
         /\ Child(RootOf(n, v), get_leaf_path(i)[0]) = OnPath(v, i, Depth)
         /\ \A w : Replace(RootOf(n, v), get_leaf_path(i)[0], OnPath(w, i, Depth)) = RootOf(n, w)
  <1>1. get_leaf_path(i)[0] = 1
    BY PathBits DEF Fits
  <1>2. \A w : OnPath(w, i, Depth) = Over(w)[Depth][0]
    BY PathFromRoot
  <1> QED
    BY <1>1, <1>2 DEF RootOf, TopNode, Branch, Child, Replace

\* The branch at the top is stored with the new sub trie, or a failure is passed on.
LEMMA TopReplaced ==
  ASSUME NEW nodes, NEW n, NEW v, NEW w, NEW i, Fits(i), NEW child, NEW a \in {0, 1},
         child = IF Stored(nodes, v, i, Depth)
                 THEN Tree(OnPath(w, i, Depth), nodes \cup PathNodes(w, i, a, Depth)) ELSE Failed
  PROVE  AddBranch(child, RootOf(n, v), get_leaf_path(i)[0])
            = IF Stored(nodes, v, i, Depth)
              THEN Tree(RootOf(n, w), nodes \cup PathNodes(w, i, a, Depth) \cup {RootOf(n, w)})
              ELSE Failed
  <1>1. Replace(RootOf(n, v), get_leaf_path(i)[0], OnPath(w, i, Depth)) = RootOf(n, w)
    BY RootDown
  <1>2. CASE ~Stored(nodes, v, i, Depth)
    BY <1>2 DEF AddBranch
  <1>3. CASE Stored(nodes, v, i, Depth)
    <2>1. child = Tree(OnPath(w, i, Depth), nodes \cup PathNodes(w, i, a, Depth))
      BY <1>3
    <2>2. /\ child # Failed
          /\ child.root = OnPath(w, i, Depth)
          /\ child.nodes = nodes \cup PathNodes(w, i, a, Depth)
      BY <2>1, TreeForm
    <2> QED
      BY <1>1, <1>3, <2>2 DEF AddBranch, db_add
  <1> QED
    BY <1>2, <1>3

\* The last level, and those below it.
LEMMA Levels ==
  /\ Depth + 2 \in 1 .. (Depth + 2)
  /\ Depth + 2 - 1 = Depth + 1
  /\ Depth + 2 - (Depth + 2) = 0
  /\ Depth \in 0 .. Depth
  BY DepthAssumption

\* put, from the top node: the tree with the path of the new leaf, or a failure where the old
\* path is not stored.
LEMMA PutOnPath ==
  ASSUME NEW nodes, NEW n, NEW v, NEW w, NEW i, Fits(i), NEW val,
         SameBut(v, w, i), i \in DOMAIN w, w[i] = val
  PROVE  put(Tree(RootOf(n, v), nodes), get_leaf_path(i), val)
            = IF Reachable(nodes, n, v, i)
              THEN Tree(RootOf(n, w), nodes \cup PathNodes(w, i, 0, Depth) \cup {RootOf(n, w)})
              ELSE Failed
  <1> DEFINE path == get_leaf_path(i)
             add == add_leaf(nodes, path, val)
             t == Tree(RootOf(n, v), nodes)
             right == IF Stored(nodes, v, i, Depth)
                      THEN Tree(OnPath(w, i, Depth), nodes \cup PathNodes(w, i, 0, Depth)) ELSE Failed
  <1>1. put(t, path, val) = IF RootOf(n, v) \in nodes THEN add[Depth + 2][RootOf(n, v)] ELSE Failed
    BY TreeForm DEF put, HasRoot
  <1>2. CASE RootOf(n, v) \notin nodes
    BY <1>1, <1>2 DEF Reachable
  <1>3. CASE RootOf(n, v) \in nodes
    <2>1. add[Depth + 2] = AddAt(add[Depth + 1], nodes, 0, path, val)
      <3> HIDE DEF path
      <3> QED
        BY AddLeafDef, Levels
    <2>2. OnPath(v, i, Depth) \in nodes => add[Depth + 1][OnPath(v, i, Depth)] = right
      BY AddOnPath, Levels DEF Fits
    <2> HIDE DEF add
    <2>3. Under(add[Depth + 1], nodes, OnPath(v, i, Depth)) = right
      <3>1. ~Stored(nodes, v, i, Depth) => right = Failed
        OBVIOUS
      <3> HIDE DEF right
      <3> QED
        BY <2>2, <3>1, Levels DEF Under, Stored
    <2>4. add[Depth + 2][RootOf(n, v)] = AddBranch(right, RootOf(n, v), path[0])
      <3>1. RootOf(n, v).kind = "branch" /\ Child(RootOf(n, v), path[0]) = OnPath(v, i, Depth)
        BY RootDown
      <3> HIDE DEF path, right
      <3> QED
        BY <1>3, <2>1, <2>3, <3>1 DEF AddAt
    <2> HIDE DEF right
    <2>5. AddBranch(right, RootOf(n, v), path[0])
             = IF Stored(nodes, v, i, Depth)
               THEN Tree(RootOf(n, w), nodes \cup PathNodes(w, i, 0, Depth) \cup {RootOf(n, w)})
               ELSE Failed
      BY TopReplaced DEF right
    <2> QED
      BY <1>1, <1>3, <2>4, <2>5 DEF Reachable
  <1> QED
    BY <1>2, <1>3

\* remove, from the top node.
LEMMA RemoveOnTree ==
  ASSUME NEW nodes, NEW n, NEW v, NEW w, NEW i, Fits(i), SameBut(v, w, i), i \notin DOMAIN w
  PROVE  remove(Tree(RootOf(n, v), nodes), get_leaf_path(i))
            = IF Reachable(nodes, n, v, i)
              THEN Tree(RootOf(n, w), nodes \cup PathNodes(w, i, 1, Depth) \cup {RootOf(n, w)})
              ELSE Failed
  <1> DEFINE path == get_leaf_path(i)
             rem == remove_leaf(nodes, path)
             t == Tree(RootOf(n, v), nodes)
             right == IF Stored(nodes, v, i, Depth)
                      THEN Tree(OnPath(w, i, Depth), nodes \cup PathNodes(w, i, 1, Depth)) ELSE Failed
  <1>1. remove(t, path) = IF RootOf(n, v) \in nodes THEN rem[Depth + 2][RootOf(n, v)] ELSE Failed
    BY TreeForm DEF remove, HasRoot
  <1>2. CASE RootOf(n, v) \notin nodes
    BY <1>1, <1>2 DEF Reachable
  <1>3. CASE RootOf(n, v) \in nodes
    <2>1. rem[Depth + 2] = RemoveAt(rem[Depth + 1], nodes, 0, path)
      <3> HIDE DEF path
      <3> QED
        BY RemoveLeafDef, Levels
    <2>2. OnPath(v, i, Depth) \in nodes => rem[Depth + 1][OnPath(v, i, Depth)] = right
      BY RemoveOnPath, Levels DEF Fits
    <2> HIDE DEF rem
    <2>3. Under(rem[Depth + 1], nodes, OnPath(v, i, Depth)) = right
      <3>1. ~Stored(nodes, v, i, Depth) => right = Failed
        OBVIOUS
      <3> HIDE DEF right
      <3> QED
        BY <2>2, <3>1, Levels DEF Under, Stored
    <2>4. rem[Depth + 2][RootOf(n, v)] = AddBranch(right, RootOf(n, v), path[0])
      <3>1. RootOf(n, v).kind = "branch" /\ Child(RootOf(n, v), path[0]) = OnPath(v, i, Depth)
        BY RootDown
      <3> HIDE DEF path, right
      <3> QED
        BY <1>3, <2>1, <2>3, <3>1 DEF RemoveAt
    <2> HIDE DEF right
    <2>5. AddBranch(right, RootOf(n, v), path[0])
             = IF Stored(nodes, v, i, Depth)
               THEN Tree(RootOf(n, w), nodes \cup PathNodes(w, i, 1, Depth) \cup {RootOf(n, w)})
               ELSE Failed
      BY TopReplaced DEF right
    <2> QED
      BY <1>1, <1>3, <2>4, <2>5 DEF Reachable
  <1> QED
    BY <1>2, <1>3

\* get_node, from the top node.
LEMMA GetOnTree ==
  ASSUME NEW nodes, NEW n, NEW v, NEW i, Fits(i)
  PROVE  get_node(Tree(RootOf(n, v), nodes), get_leaf_path(i))
            = IF Reachable(nodes, n, v, i) /\ i \in DOMAIN v
              THEN Leaf([j \in {0} |-> ValueType], v[i]) ELSE Failed
  <1> DEFINE path == get_leaf_path(i)
             find == find_leaf(nodes, path)
             t == Tree(RootOf(n, v), nodes)
             right == IF Stored(nodes, v, i, Depth) /\ i \in DOMAIN v THEN OnPath(v, i, 0)
                      ELSE Failed
  <1>1. get_node(t, path) = IF RootOf(n, v) \in nodes THEN find[Depth + 2][RootOf(n, v)] ELSE Failed
    BY TreeForm DEF get_node, HasRoot
  <1>2. CASE RootOf(n, v) \notin nodes
    BY <1>1, <1>2 DEF Reachable
  <1>3. CASE RootOf(n, v) \in nodes
    <2>1. find[Depth + 2] = FindAt(find[Depth + 1], nodes, 0, path)
      <3> HIDE DEF path
      <3> QED
        BY FindLeafDef, Levels
    <2>2. OnPath(v, i, Depth) \in nodes => find[Depth + 1][OnPath(v, i, Depth)] = right
      BY FindOnPath, Levels DEF Fits
    <2> HIDE DEF find
    <2>3. Under(find[Depth + 1], nodes, OnPath(v, i, Depth)) = right
      <3>1. ~Stored(nodes, v, i, Depth) => right = Failed
        OBVIOUS
      <3> HIDE DEF right
      <3> QED
        BY <2>2, <3>1, Levels DEF Under, Stored
    <2>4. find[Depth + 2][RootOf(n, v)] = right
      <3>1. RootOf(n, v).kind = "branch" /\ Child(RootOf(n, v), path[0]) = OnPath(v, i, Depth)
        BY RootDown
      <3> HIDE DEF path, right
      <3> QED
        BY <1>3, <2>1, <2>3, <3>1 DEF FindAt
    <2>5. i \in DOMAIN v => OnPath(v, i, 0) = Leaf([j \in {0} |-> ValueType], v[i])
      BY PathEnds DEF Fits
    <2> QED
      BY <1>1, <1>3, <2>4, <2>5 DEF Reachable
  <1> QED
    BY <1>2, <1>3

----------------------------------------------------------------------------
(* Complete trees *)

\* t is the tree over the values with n as next free index, and every node that the
\* operations can ask for is stored; so is the empty leaf, which remove does not store.
Holds(t, n, v) ==
    /\ t = Tree(RootOf(n, v), t.nodes)
    /\ EmptyLeaf \in t.nodes
    /\ \A i : Fits(i) => Reachable(t.nodes, n, v, i)

\* A path to another index keeps its nodes or shares the new ones.
LEMMA OthersStored ==
  ASSUME NEW nodes, NEW more, NEW v, NEW w, NEW i \in Nat, SameBut(v, w, i), NEW j \in Nat,
         Stored(nodes, v, j, Depth), nodes \subseteq more, PathNodes(w, i, 0, Depth) \subseteq more
  PROVE  Stored(more, w, j, Depth)
  <1> SUFFICES ASSUME NEW h \in 0 .. Depth
               PROVE  OnPath(w, j, h) \in more
    BY DEF Stored
  <1>1. CASE Halves(i)[h] = Halves(j)[h]
    <2>1. OnPath(w, j, h) = OnPath(w, i, h)
      BY <1>1 DEF OnPath
    <2> QED
      BY <2>1 DEF PathNodes
  <1>2. CASE Halves(i)[h] # Halves(j)[h]
    <2>1. Halves(j)[h] \in Nat \ {Halves(i)[h]}
      BY <1>2, HalvesNat
    <2>2. OnPath(w, j, h) = OnPath(v, j, h)
      BY <2>1, OverOff DEF OnPath
    <2> QED
      BY <2>2 DEF Stored
  <1> QED
    BY <1>1, <1>2

\* put makes a complete tree of a complete tree.
LEMMA PutHolds ==
  ASSUME NEW t, NEW n, NEW v, NEW w, NEW i, Fits(i), NEW val, Holds(t, n, v),
         SameBut(v, w, i), i \in DOMAIN w, w[i] = val
  PROVE  Holds(put(t, get_leaf_path(i), val), n, w)
  <1> DEFINE nodes == t.nodes
             more == nodes \cup PathNodes(w, i, 0, Depth) \cup {RootOf(n, w)}
  <1>1. t = Tree(RootOf(n, v), nodes) /\ EmptyLeaf \in nodes /\ \A j : Fits(j) => Reachable(nodes, n, v, j)
    BY DEF Holds
  <1> HIDE DEF nodes
  <1>2. put(t, get_leaf_path(i), val) = Tree(RootOf(n, w), more)
    <2>1. Reachable(nodes, n, v, i)
      BY <1>1
    <2> QED
      BY <1>1, <2>1, PutOnPath
  <1>3. ASSUME NEW j, Fits(j)
        PROVE  Reachable(more, n, w, j)
    <2>1. j \in Nat /\ i \in Nat /\ Stored(nodes, v, j, Depth)
      BY <1>1, <1>3 DEF Reachable, Fits
    <2>2. nodes \subseteq more /\ PathNodes(w, i, 0, Depth) \subseteq more /\ RootOf(n, w) \in more
      OBVIOUS
    <2> HIDE DEF more
    <2> QED
      BY <2>1, <2>2, OthersStored DEF Reachable
  <1>4. EmptyLeaf \in more
    BY <1>1
  <1> HIDE DEF more
  <1> QED
    BY <1>2, <1>3, <1>4, TreeForm DEF Holds

\* So does remove.
LEMMA RemoveHolds ==
  ASSUME NEW t, NEW n, NEW v, NEW w, NEW i, Fits(i), Holds(t, n, v),
         SameBut(v, w, i), i \notin DOMAIN w
  PROVE  Holds(remove(t, get_leaf_path(i)), n, w)
  <1> DEFINE nodes == t.nodes
             more == nodes \cup PathNodes(w, i, 1, Depth) \cup {RootOf(n, w)}
  <1>1. t = Tree(RootOf(n, v), nodes) /\ EmptyLeaf \in nodes /\ \A j : Fits(j) => Reachable(nodes, n, v, j)
    BY DEF Holds
  <1> HIDE DEF nodes
  <1>2. remove(t, get_leaf_path(i)) = Tree(RootOf(n, w), more)
    <2>1. Reachable(nodes, n, v, i)
      BY <1>1
    <2> QED
      BY <1>1, <2>1, RemoveOnTree
  <1>3. PathNodes(w, i, 0, Depth) \subseteq more
    <2>1. OnPath(w, i, 0) = EmptyLeaf
      BY PathEnds DEF Fits
    <2>2. \A k \in 0 .. Depth : k = 0 \/ k \in 1 .. Depth
      BY DepthAssumption
    <2>3. \A k \in 1 .. Depth : OnPath(w, i, k) \in more
      BY DEF PathNodes
    <2> HIDE DEF more
    <2>4. EmptyLeaf \in more
      BY <1>1 DEF more
    <2> QED
      BY <2>1, <2>2, <2>3, <2>4 DEF PathNodes
  <1>4. ASSUME NEW j, Fits(j)
        PROVE  Reachable(more, n, w, j)
    <2>1. j \in Nat /\ i \in Nat /\ Stored(nodes, v, j, Depth)
      BY <1>1, <1>4 DEF Reachable, Fits
    <2>2. nodes \subseteq more /\ RootOf(n, w) \in more
      OBVIOUS
    <2> HIDE DEF more
    <2> QED
      BY <1>3, <2>1, <2>2, OthersStored DEF Reachable
  <1>5. EmptyLeaf \in more
    BY <1>1
  <1> HIDE DEF more
  <1> QED
    BY <1>2, <1>4, <1>5, TreeForm DEF Holds

\* get_node finds the leaves that are there.
LEMMA GetHolds ==
  ASSUME NEW t, NEW n, NEW v, NEW i, Fits(i), Holds(t, n, v)
  PROVE  get_node(t, get_leaf_path(i))
            = IF i \in DOMAIN v THEN Leaf([j \in {0} |-> ValueType], v[i]) ELSE Failed
  <1> DEFINE nodes == t.nodes
  <1>1. t = Tree(RootOf(n, v), nodes) /\ Reachable(nodes, n, v, i)
    BY DEF Holds
  <1> HIDE DEF nodes
  <1> QED
    BY <1>1, GetOnTree

\* The next free index is read and set in the top node alone.
LEMMA FreeHolds ==
  ASSUME NEW t, NEW n, NEW v, Holds(t, n, v)
  PROVE  /\ next_free_node(t) = n
         /\ t # Failed
         /\ t.root \in t.nodes
         /\ \A m : Holds(set_next_free_node(t, m), m, v)
  <1> DEFINE nodes == t.nodes
  <1>1. t = Tree(RootOf(n, v), nodes) /\ EmptyLeaf \in nodes /\ \A j : Fits(j) => Reachable(nodes, n, v, j)
    BY DEF Holds
  <1> HIDE DEF nodes
  <1>2. t # Failed /\ t.root = RootOf(n, v) /\ t.nodes = nodes
    BY <1>1, TreeForm
  <1>3. t.root.right = Over(v)[Depth][0] /\ next_free_node(t) = n
    BY <1>2 DEF RootOf, TopNode, Branch, next_free_node
  <1>4. \E j : Fits(j)
    <2>1. 0 \in Index
      BY TrieAssumption DEF Index
    <2> QED
      BY <2>1, IndexFits
  <1>5. RootOf(n, v) \in nodes
    BY <1>1, <1>4 DEF Reachable
  <1>6. ASSUME NEW m
        PROVE  Holds(set_next_free_node(t, m), m, v)
    <2> DEFINE more == nodes \cup {RootOf(m, v)}
    <2>1. set_next_free_node(t, m) = Tree(RootOf(m, v), more)
      BY <1>2, <1>3 DEF set_next_free_node, db_add, RootOf
    <2>2. \A j : Fits(j) => Reachable(more, m, v, j)
      BY <1>1 DEF Reachable, Stored
    <2>3. EmptyLeaf \in more
      BY <1>1
    <2> HIDE DEF more
    <2> QED
      BY <2>1, <2>2, <2>3, TreeForm DEF Holds
  <1> QED
    BY <1>2, <1>3, <1>5, <1>6

\* init_world_state makes the tree without leaves.
LEMMA EmptyHolds ==
  ASSUME NEW v, DOMAIN v = {}
  PROVE  Holds(EmptyTree, 0, v)
  <1> DEFINE S == {h \in 0 .. Depth : \A m \in Nat : Over(v)[h][m] = Empty[h]}
  <1>1. 0 \in S
    <2>1. ASSUME NEW m \in Nat
          PROVE  Over(v)[0][m] = EmptyLeaf
      BY OverDef
    <2>2. Empty[0] = EmptyLeaf
      BY EmptyDef
    <2> QED
      BY <2>1, <2>2, DepthAssumption
  <1>2. ASSUME NEW h \in 1 .. Depth, h - 1 \in S
        PROVE  h \in S
    <2>1. ASSUME NEW m \in Nat
          PROVE  Over(v)[h][m] = Empty[h]
      <3>1. 2 * m \in Nat /\ 2 * m + 1 \in Nat
        OBVIOUS
      <3>2. Over(v)[h - 1][2 * m] = Empty[h - 1] /\ Over(v)[h - 1][2 * m + 1] = Empty[h - 1]
        BY <1>2, <3>1
      <3>3. Over(v)[h][m] = Branch(Over(v)[h - 1][2 * m], Over(v)[h - 1][2 * m + 1])
        BY OverDef
      <3>4. Empty[h] = Branch(Empty[h - 1], Empty[h - 1])
        BY EmptyDef
      <3> QED
        BY <3>2, <3>3, <3>4
    <2>2. h \in 0 .. Depth
      BY DepthAssumption
    <2> QED
      BY <2>1, <2>2
  <1> HIDE DEF S
  <1>3. \A h \in 0 .. Depth : h \in S
    BY <1>1, <1>2, LevelByLevel, DepthAssumption
  <1>4. \A h \in 0 .. Depth : \A m \in Nat : Over(v)[h][m] = Empty[h]
    BY <1>3 DEF S
  <1>5. RootOf(0, v) = EmptyTop
    BY <1>4, Levels DEF RootOf, EmptyTop
  <1>6. EmptyTree = Tree(RootOf(0, v), EmptyNodes)
    BY <1>5 DEF EmptyTree
  <1>7. EmptyLeaf \in EmptyNodes
    <2>1. 0 \in 0 .. Depth /\ Empty[0] = EmptyLeaf
      BY EmptyDef, DepthAssumption
    <2> QED
      BY <2>1 DEF EmptyNodes
  <1>8. ASSUME NEW i, Fits(i)
        PROVE  Reachable(EmptyNodes, 0, v, i)
    <2>1. \A h \in 0 .. Depth : OnPath(v, i, h) = Empty[h]
      BY <1>4, <1>8, HalvesNat DEF OnPath, Fits
    <2> QED
      BY <1>5, <2>1 DEF Reachable, Stored, EmptyNodes
  <1> QED
    BY <1>6, <1>7, <1>8, TreeForm DEF Holds

----------------------------------------------------------------------------
(* The handlers *)

\* A leaf that gets a new neighbour keeps its key, its value and the other fields the
\* properties read, although parse drops its next link.
LEMMA LinkForms ==
  ASSUME NEW leaf \in LeafOpening, NEW i \in Index
  PROVE  /\ NewNextLeaf(leaf, i) \in LeafOpening
         /\ NewNextLeaf(leaf, i).hkey = leaf.hkey
         /\ NewNextLeaf(leaf, i).hval = leaf.hval
         /\ NewNextLeaf(leaf, i).prev_leaf = leaf.prev_leaf
         /\ NewPrevLeaf(leaf, i) \in LeafOpening
         /\ NewPrevLeaf(leaf, i).hkey = leaf.hkey
         /\ NewPrevLeaf(leaf, i).hval = leaf.hval
         /\ NewPrevLeaf(leaf, i).prev_leaf = i
  BY DEF LeafOpening, NewNextLeaf, NewPrevLeaf, ParseLeaf

\* An updated leaf keeps its key and its prev link.
LEMMA ValueForm ==
  ASSUME NEW leaf \in LeafOpening, NEW v \in Value
  PROVE  /\ NewHval(leaf, v) \in LeafOpening
         /\ NewHval(leaf, v).hkey = leaf.hkey
         /\ NewHval(leaf, v).hval = v
         /\ NewHval(leaf, v).prev_leaf = leaf.prev_leaf
  BY DEF LeafOpening, NewHval, ParseLeaf

\* The values with one written, and with one taken away.
Written(v, i, val) == [k \in DOMAIN v \cup {i} |-> IF k = i THEN val ELSE v[k]]
Emptied(v, i)      == [k \in DOMAIN v \ {i} |-> v[k]]

\* Either way the values at the other indices stay.
LEMMA WrittenForm ==
  ASSUME NEW v, NEW i, NEW val
  PROVE  SameBut(v, Written(v, i, val), i)
  BY DEF Written, SameBut

\* So they do when one is taken away.
LEMMA EmptiedForm ==
  ASSUME NEW v, NEW i
  PROVE  SameBut(v, Emptied(v, i), i)
  BY DEF Emptied, SameBut

\* The leaf at an index of the trie is read.
LEMMA ReadLeaf ==
  ASSUME NEW t, NEW n, NEW v, Holds(t, n, v), NEW i \in Index
  PROVE  /\ i \in DOMAIN v => parse_node(t, i) # Failed /\ parse_node(t, i).value = v[i]
         /\ i \notin DOMAIN v => parse_node(t, i) = Failed
  <1>1. t # Failed
    BY FreeHolds
  <1>2. get_node(t, get_leaf_path(i)) = IF i \in DOMAIN v THEN Leaf([j \in {0} |-> ValueType], v[i])
                                        ELSE Failed
    BY IndexFits, GetHolds
  <1>3. Leaf([j \in {0} |-> ValueType], v[i]) # Failed /\ Leaf([j \in {0} |-> ValueType], v[i]).value = v[i]
    BY DEF Leaf, Failed
  <1> QED
    BY <1>1, <1>2, <1>3 DEF parse_node

\* A leaf is written.
LEMMA WriteLeaf ==
  ASSUME NEW t, NEW n, NEW v, Holds(t, n, v), NEW i \in Index, NEW val
  PROVE  Holds(put(t, get_leaf_path(i), val), n, Written(v, i, val))
  <1>1. Fits(i)
    BY IndexFits
  <1>2. SameBut(v, Written(v, i, val), i)
    BY WrittenForm
  <1>3. i \in DOMAIN Written(v, i, val) /\ Written(v, i, val)[i] = val
    BY DEF Written
  <1> QED
    BY <1>1, <1>2, <1>3, PutHolds

\* The next link of a leaf is rewritten.
LEMMA SetNextHolds ==
  ASSUME NEW t, NEW n, NEW v, Holds(t, n, v), NEW i \in Index, i \in DOMAIN v, NEW next
  PROVE  Holds(SetNext(t, i, next), n, Written(v, i, NewNextLeaf(v[i], next)))
  <1>1. parse_node(t, i) # Failed /\ parse_node(t, i).value = v[i]
    BY ReadLeaf
  <1>2. SetNext(t, i, next) = put(t, get_leaf_path(i), NewNextLeaf(v[i], next))
    BY <1>1 DEF SetNext, WriteBack
  <1> QED
    BY <1>2, WriteLeaf

\* The prev link of a leaf is rewritten.
LEMMA SetPrevHolds ==
  ASSUME NEW t, NEW n, NEW v, Holds(t, n, v), NEW i \in Index, i \in DOMAIN v, NEW prev
  PROVE  Holds(SetPrev(t, i, prev), n, Written(v, i, NewPrevLeaf(v[i], prev)))
  <1>1. parse_node(t, i) # Failed /\ parse_node(t, i).value = v[i]
    BY ReadLeaf
  <1>2. SetPrev(t, i, prev) = put(t, get_leaf_path(i), NewPrevLeaf(v[i], prev))
    BY <1>1 DEF SetPrev, WriteBack
  <1> QED
    BY <1>2, WriteLeaf

\* The next free index goes up by one, and the leaves stay.
LEMMA IncrementHolds ==
  ASSUME NEW t, NEW n, NEW v, Holds(t, n, v)
  PROVE  Holds(increment(t), n + 1, v)
  <1>1. increment(t) = set_next_free_node(t, n + 1)
    BY FreeHolds DEF increment
  <1> QED
    BY <1>1, FreeHolds

\* The leaf that put adds.
Opening(k, x, l, r) == [hkey |-> k, hval |-> x, prev_leaf |-> l, next_leaf |-> r]

\* put of a key that is not there: the left leaf, the new one and the right one, and the
\* next free index.
LEMMA PutNewHolds ==
  ASSUME NEW t, NEW n \in Index, NEW v, Holds(t, n, v), NEW k, NEW x, NEW range,
         range.center = NoLeaf,
         range.left_index \in Index, range.left_index \in DOMAIN v, range.left_index # n,
         range.right_index \in Index, range.right_index \in DOMAIN v, range.right_index # n,
         range.left_index # range.right_index
  PROVE  LET l == range.left_index
             r == range.right_index
             linked == Written(v, l, NewNextLeaf(v[l], n))
             added == Written(linked, n, Opening(k, x, l, r))
         IN  Holds(trie_put(t, k, x, range), n + 1, Written(added, r, NewPrevLeaf(v[r], n)))
  <1> DEFINE l == range.left_index
             r == range.right_index
             linked == Written(v, l, NewNextLeaf(v[l], n))
             added == Written(linked, n, Opening(k, x, l, r))
             t1 == SetNext(t, l, n)
             t2 == put(t1, get_leaf_path(n), Opening(k, x, l, r))
             t3 == SetPrev(t2, r, n)
  <1>1. next_free_node(t) = n /\ t # Failed /\ t.root \in t.nodes
    BY FreeHolds
  <1>2. trie_put(t, k, x, range) = increment(t3)
    BY <1>1 DEF trie_put, PutNew, Opening
  <1>3. Holds(t1, n, linked)
    <2> HIDE DEF l
    <2> SUFFICES l \in Index /\ l \in DOMAIN v
      BY SetNextHolds
    <2> QED
      BY DEF l
  <1>4. Holds(t2, n, added)
    <2> HIDE DEF t1, linked
    <2> QED
      BY <1>3, WriteLeaf
  <1>5. r \in DOMAIN added /\ added[r] = v[r]
    <2>1. r \in DOMAIN linked /\ linked[r] = v[r]
      BY DEF Written
    <2> HIDE DEF linked
    <2> QED
      BY <2>1 DEF Written
  <1>6. Holds(t3, n, Written(added, r, NewPrevLeaf(v[r], n)))
    <2> HIDE DEF t2, added
    <2> QED
      BY <1>4, <1>5, SetPrevHolds
  <1>7. Holds(increment(t3), n + 1, Written(added, r, NewPrevLeaf(v[r], n)))
    <2> HIDE DEF t3, added
    <2> QED
      BY <1>6, IncrementHolds
  <1> QED
    BY <1>2, <1>7

\* put of a key that is there.
LEMMA PutOverHolds ==
  ASSUME NEW t, NEW n, NEW v, Holds(t, n, v), NEW k, NEW x, NEW range, range.center # NoLeaf,
         range.center.leaf_index \in Index, range.center.leaf_index \in DOMAIN v
  PROVE  LET i == range.center.leaf_index
         IN  Holds(trie_put(t, k, x, range), n, Written(v, i, NewHval(v[i], x)))
  <1> DEFINE i == range.center.leaf_index
  <1>1. t # Failed /\ t.root \in t.nodes
    BY FreeHolds
  <1>2. parse_node(t, i) # Failed /\ parse_node(t, i).value = v[i]
    BY ReadLeaf
  <1>3. trie_put(t, k, x, range) = put(t, get_leaf_path(i), NewHval(v[i], x))
    BY <1>1, <1>2 DEF trie_put, PutOver, WriteBack
  <1> QED
    BY <1>3, WriteLeaf

\* remove: the left leaf, the leaf itself and the right one.
LEMMA RemoveOldHolds ==
  ASSUME NEW t, NEW n, NEW v, Holds(t, n, v), NEW range, range.center # NoLeaf,
         range.left_index \in Index, range.left_index \in DOMAIN v,
         range.center.leaf_index \in Index, range.center.leaf_index \in DOMAIN v,
         range.right_index \in Index, range.right_index \in DOMAIN v,
         range.left_index # range.right_index,
         range.center.leaf_index # range.left_index, range.center.leaf_index # range.right_index
  PROVE  LET l == range.left_index
             i == range.center.leaf_index
             r == range.right_index
             linked == Written(v, l, NewNextLeaf(v[l], r))
             removed == Emptied(linked, i)
         IN  Holds(trie_remove(t, range), n, Written(removed, r, NewPrevLeaf(v[r], l)))
  <1> DEFINE l == range.left_index
             i == range.center.leaf_index
             r == range.right_index
             linked == Written(v, l, NewNextLeaf(v[l], r))
             removed == Emptied(linked, i)
             t1 == SetNext(t, l, r)
             t2 == remove(t1, get_leaf_path(i))
             t3 == SetPrev(t2, r, l)
  <1>1. Holds(t1, n, linked)
    <2> HIDE DEF l
    <2> SUFFICES l \in Index /\ l \in DOMAIN v
      BY SetNextHolds
    <2> QED
      BY DEF l
  <1>2. i \in DOMAIN linked /\ r \in DOMAIN linked /\ linked[r] = v[r]
    BY DEF Written
  <1>3. trie_remove(t, range) = t3
    <2>1. parse_node(t1, i) # Failed
      <3> HIDE DEF t1, linked
      <3> QED
        BY <1>1, <1>2, ReadLeaf
    <2> QED
      BY <2>1 DEF trie_remove, RemoveOld
  <1>4. Holds(t2, n, removed)
    <2> HIDE DEF t1, linked
    <2>1. Fits(i)
      BY IndexFits
    <2>2. SameBut(linked, removed, i)
      BY EmptiedForm
    <2>3. i \notin DOMAIN removed
      BY DEF Emptied
    <2> HIDE DEF removed
    <2> QED
      BY <1>1, <2>1, <2>2, <2>3, RemoveHolds
  <1>5. r \in DOMAIN removed /\ removed[r] = v[r]
    <2> HIDE DEF linked
    <2> QED
      BY <1>2 DEF Emptied
  <1>6. Holds(t3, n, Written(removed, r, NewPrevLeaf(v[r], l)))
    <2> HIDE DEF t2, removed
    <2> QED
      BY <1>4, <1>5, SetPrevHolds
  <1> QED
    BY <1>3, <1>6

----------------------------------------------------------------------------
(* Trees with missing nodes *)

\* A tree with the root of some leaves, whatever else the Database has than the nodes it
\* had before.
Made(t, old, n, v) == t = Tree(RootOf(n, v), t.nodes) /\ old \subseteq t.nodes

\* What is read is the leaf.
LEMMA ReadMade ==
  ASSUME NEW t, NEW old, NEW n, NEW v, Made(t, old, n, v), NEW i \in Index, parse_node(t, i) # Failed
  PROVE  i \in DOMAIN v /\ parse_node(t, i).value = v[i]
  <1> DEFINE nodes == t.nodes
  <1>1. t = Tree(RootOf(n, v), nodes)
    BY DEF Made
  <1> HIDE DEF nodes
  <1>2. t # Failed
    BY <1>1, TreeForm
  <1>3. get_node(t, get_leaf_path(i)) = IF Reachable(nodes, n, v, i) /\ i \in DOMAIN v
                                        THEN Leaf([j \in {0} |-> ValueType], v[i]) ELSE Failed
    BY <1>1, IndexFits, GetOnTree
  <1>4. Leaf([j \in {0} |-> ValueType], v[i]).value = v[i]
    BY DEF Leaf
  <1> QED
    BY <1>2, <1>3, <1>4 DEF parse_node

\* What is written gives the tree of the leaves with one more.
LEMMA WriteMade ==
  ASSUME NEW t, NEW old, NEW n, NEW v, Made(t, old, n, v), NEW i \in Index, NEW val,
         put(t, get_leaf_path(i), val) # Failed
  PROVE  Made(put(t, get_leaf_path(i), val), old, n, Written(v, i, val))
  <1> DEFINE nodes == t.nodes
             w == Written(v, i, val)
  <1>1. t = Tree(RootOf(n, v), nodes) /\ old \subseteq nodes
    BY DEF Made
  <1>2. Fits(i)
    BY IndexFits
  <1>3. SameBut(v, w, i)
    BY WrittenForm
  <1>4. i \in DOMAIN w /\ w[i] = val
    BY DEF Written
  <1> HIDE DEF nodes, w
  <1>5. put(t, get_leaf_path(i), val)
           = IF Reachable(nodes, n, v, i)
             THEN Tree(RootOf(n, w), nodes \cup PathNodes(w, i, 0, Depth) \cup {RootOf(n, w)})
             ELSE Failed
    BY <1>1, <1>2, <1>3, <1>4, PutOnPath
  <1>6. Made(put(t, get_leaf_path(i), val), old, n, w)
    BY <1>1, <1>5, TreeForm DEF Made
  <1> QED
    BY <1>6 DEF w

\* What is taken away gives the tree without it.
LEMMA EmptyMade ==
  ASSUME NEW t, NEW old, NEW n, NEW v, Made(t, old, n, v), NEW i \in Index, remove(t, get_leaf_path(i)) # Failed
  PROVE  Made(remove(t, get_leaf_path(i)), old, n, Emptied(v, i))
  <1> DEFINE nodes == t.nodes
             w == Emptied(v, i)
  <1>1. t = Tree(RootOf(n, v), nodes) /\ old \subseteq nodes
    BY DEF Made
  <1>2. Fits(i)
    BY IndexFits
  <1>3. SameBut(v, w, i)
    BY EmptiedForm
  <1>4. i \notin DOMAIN w
    BY DEF Emptied
  <1> HIDE DEF nodes, w
  <1>5. remove(t, get_leaf_path(i))
           = IF Reachable(nodes, n, v, i)
             THEN Tree(RootOf(n, w), nodes \cup PathNodes(w, i, 1, Depth) \cup {RootOf(n, w)})
             ELSE Failed
    BY <1>1, <1>2, <1>3, <1>4, RemoveOnTree
  <1>6. Made(remove(t, get_leaf_path(i)), old, n, w)
    BY <1>1, <1>5, TreeForm DEF Made
  <1> QED
    BY <1>6 DEF w

\* The links are rewritten in leaves that are there.
LEMMA SetNextMade ==
  ASSUME NEW t, NEW old, NEW n, NEW v, t # Failed => Made(t, old, n, v), NEW i \in Index, NEW next,
         SetNext(t, i, next) # Failed
  PROVE  i \in DOMAIN v /\ Made(SetNext(t, i, next), old, n, Written(v, i, NewNextLeaf(v[i], next)))
  <1>1. parse_node(t, i) # Failed
    BY DEF SetNext, WriteBack
  <1>2. Made(t, old, n, v)
    BY <1>1 DEF parse_node
  <1>3. i \in DOMAIN v /\ parse_node(t, i).value = v[i]
    BY <1>1, <1>2, ReadMade
  <1>4. SetNext(t, i, next) = put(t, get_leaf_path(i), NewNextLeaf(v[i], next))
    BY <1>1, <1>3 DEF SetNext, WriteBack
  <1> QED
    BY <1>2, <1>3, <1>4, WriteMade

\* So for the prev link.
LEMMA SetPrevMade ==
  ASSUME NEW t, NEW old, NEW n, NEW v, t # Failed => Made(t, old, n, v), NEW i \in Index, NEW prev,
         SetPrev(t, i, prev) # Failed
  PROVE  i \in DOMAIN v /\ Made(SetPrev(t, i, prev), old, n, Written(v, i, NewPrevLeaf(v[i], prev)))
  <1>1. parse_node(t, i) # Failed
    BY DEF SetPrev, WriteBack
  <1>2. Made(t, old, n, v)
    BY <1>1 DEF parse_node
  <1>3. i \in DOMAIN v /\ parse_node(t, i).value = v[i]
    BY <1>1, <1>2, ReadMade
  <1>4. SetPrev(t, i, prev) = put(t, get_leaf_path(i), NewPrevLeaf(v[i], prev))
    BY <1>1, <1>3 DEF SetPrev, WriteBack
  <1> QED
    BY <1>2, <1>3, <1>4, WriteMade

\* The next free index of a tree that is there.
LEMMA FreeMade ==
  ASSUME NEW t, NEW old, NEW n, NEW v, Made(t, old, n, v)
  PROVE  t # Failed /\ t.root = RootOf(n, v) /\ next_free_node(t) = n /\ Made(increment(t), old, n + 1, v)
  <1> DEFINE nodes == t.nodes
  <1>1. t = Tree(RootOf(n, v), nodes)
    BY DEF Made
  <1> HIDE DEF nodes
  <1>2. t # Failed /\ t.root = RootOf(n, v)
    BY <1>1, TreeForm
  <1>3. t.root.right = Over(v)[Depth][0] /\ next_free_node(t) = n
    BY <1>2 DEF RootOf, TopNode, Branch, next_free_node
  <1>4. increment(t) = Tree(RootOf(n + 1, v), t.nodes \cup {RootOf(n + 1, v)})
    BY <1>2, <1>3 DEF increment, set_next_free_node, db_add, RootOf
  <1> QED
    BY <1>2, <1>3, <1>4, TreeForm DEF Made

\* A put of a key that is not there, if it does not fail.
LEMMA PutNewMade ==
  ASSUME NEW t, NEW old, NEW n \in Index, NEW v, Made(t, old, n, v), NEW k, NEW x, NEW range,
         range.center = NoLeaf, range.left_index \in Index, range.right_index \in Index,
         trie_put(t, k, x, range) # Failed
  PROVE  LET l == range.left_index
             r == range.right_index
             linked == Written(v, l, NewNextLeaf(v[l], n))
             added == Written(linked, n, Opening(k, x, l, r))
         IN  /\ l \in DOMAIN v /\ r \in DOMAIN added
             /\ Made(trie_put(t, k, x, range), old, n + 1, Written(added, r, NewPrevLeaf(added[r], n)))
  <1> DEFINE l == range.left_index
             r == range.right_index
             linked == Written(v, l, NewNextLeaf(v[l], n))
             added == Written(linked, n, Opening(k, x, l, r))
             t1 == SetNext(t, l, n)
             t2 == put(t1, get_leaf_path(n), Opening(k, x, l, r))
             t3 == SetPrev(t2, r, n)
  <1>1. next_free_node(t) = n
    BY FreeMade
  <1>2. trie_put(t, k, x, range) = increment(t3)
    BY <1>1 DEF trie_put, PutNew, Opening
  <1>3. l \in Index /\ r \in Index
    OBVIOUS
  <1> HIDE DEF l, r
  <1>4. t3 # Failed
    BY <1>2 DEF increment
  <1>5. t2 # Failed
    BY <1>4 DEF SetPrev, WriteBack, parse_node
  <1>6. t1 # Failed
    BY <1>5 DEF put, HasRoot
  <1>7. l \in DOMAIN v /\ Made(t1, old, n, linked)
    BY <1>3, <1>6, SetNextMade
  <1>8. Made(t2, old, n, added)
    <2> HIDE DEF t1, linked
    <2> QED
      BY <1>5, <1>7, WriteMade
  <1>9. r \in DOMAIN added /\ Made(t3, old, n, Written(added, r, NewPrevLeaf(added[r], n)))
    <2> HIDE DEF t2, added
    <2> QED
      BY <1>3, <1>4, <1>8, SetPrevMade
  <1>10. Made(increment(t3), old, n + 1, Written(added, r, NewPrevLeaf(added[r], n)))
    <2> HIDE DEF t3, added
    <2> QED
      BY <1>9, FreeMade
  <1> QED
    BY <1>2, <1>7, <1>9, <1>10 DEF l, r

\* A put of a key that is there.
LEMMA PutOverMade ==
  ASSUME NEW t, NEW old, NEW n, NEW v, Made(t, old, n, v), NEW k, NEW x, NEW range, range.center # NoLeaf,
         range.center.leaf_index \in Index, trie_put(t, k, x, range) # Failed
  PROVE  LET i == range.center.leaf_index
         IN  i \in DOMAIN v /\ Made(trie_put(t, k, x, range), old, n, Written(v, i, NewHval(v[i], x)))
  <1> DEFINE i == range.center.leaf_index
  <1>1. trie_put(t, k, x, range) = WriteBack(t, parse_node(t, i), i, NewHval(parse_node(t, i).value, x))
    BY DEF trie_put, PutOver
  <1>2. i \in Index
    OBVIOUS
  <1> HIDE DEF i
  <1>3. parse_node(t, i) # Failed
    BY <1>1 DEF WriteBack
  <1>4. i \in DOMAIN v /\ parse_node(t, i).value = v[i]
    BY <1>2, <1>3, ReadMade
  <1>5. trie_put(t, k, x, range) = put(t, get_leaf_path(i), NewHval(v[i], x))
    BY <1>1, <1>3, <1>4 DEF WriteBack
  <1>6. Made(trie_put(t, k, x, range), old, n, Written(v, i, NewHval(v[i], x)))
    BY <1>2, <1>5, WriteMade
  <1> QED
    BY <1>4, <1>6 DEF i

\* A removal.
LEMMA RemoveOldMade ==
  ASSUME NEW t, NEW old, NEW n, NEW v, Made(t, old, n, v), NEW range, range.center # NoLeaf,
         range.left_index \in Index, range.center.leaf_index \in Index, range.right_index \in Index,
         trie_remove(t, range) # Failed
  PROVE  LET l == range.left_index
             i == range.center.leaf_index
             r == range.right_index
             linked == Written(v, l, NewNextLeaf(v[l], r))
             removed == Emptied(linked, i)
         IN  /\ l \in DOMAIN v /\ r \in DOMAIN removed
             /\ Made(trie_remove(t, range), old, n, Written(removed, r, NewPrevLeaf(removed[r], l)))
  <1> DEFINE l == range.left_index
             i == range.center.leaf_index
             r == range.right_index
             linked == Written(v, l, NewNextLeaf(v[l], r))
             removed == Emptied(linked, i)
             t1 == SetNext(t, l, r)
             t2 == IF parse_node(t1, i) = Failed THEN Failed ELSE remove(t1, get_leaf_path(i))
             t3 == SetPrev(t2, r, l)
  <1>1. trie_remove(t, range) = t3
    BY DEF trie_remove, RemoveOld
  <1>2. l \in Index /\ i \in Index /\ r \in Index
    OBVIOUS
  <1> HIDE DEF l, i, r
  <1>3. t3 # Failed
    BY <1>1
  <1>4. t2 # Failed
    BY <1>3 DEF SetPrev, WriteBack, parse_node
  <1>5. t2 = remove(t1, get_leaf_path(i)) /\ t1 # Failed
    BY <1>4 DEF parse_node
  <1>6. l \in DOMAIN v /\ Made(t1, old, n, linked)
    BY <1>2, <1>5, SetNextMade
  <1>7. Made(t2, old, n, removed)
    <2> HIDE DEF t1, linked
    <2> QED
      BY <1>2, <1>4, <1>5, <1>6, EmptyMade
  <1>8. r \in DOMAIN removed /\ Made(t3, old, n, Written(removed, r, NewPrevLeaf(removed[r], l)))
    <2> HIDE DEF t2, removed
    <2> QED
      BY <1>2, <1>3, <1>7, SetPrevMade
  <1> QED
    BY <1>1, <1>6, <1>8 DEF l, i, r

----------------------------------------------------------------------------
(* Operations whose nodes are there *)

\* So that an operation can start at the root.
Ready(t, old, n, v) == Made(t, old, n, v) /\ RootOf(n, v) \in t.nodes

\* A leaf whose path is stored is read.
LEMMA ReadGoes ==
  ASSUME NEW t, NEW old, NEW n, NEW v, Ready(t, old, n, v), NEW i \in Index,
         Stored(t.nodes, v, i, Depth), i \in DOMAIN v
  PROVE  parse_node(t, i) # Failed /\ parse_node(t, i).value = v[i]
  <1> DEFINE nodes == t.nodes
  <1>1. t = Tree(RootOf(n, v), nodes) /\ Reachable(nodes, n, v, i)
    BY DEF Ready, Made, Reachable
  <1> HIDE DEF nodes
  <1>2. t # Failed
    BY <1>1, TreeForm
  <1>3. get_node(t, get_leaf_path(i)) = IF Reachable(nodes, n, v, i) /\ i \in DOMAIN v
                                        THEN Leaf([j \in {0} |-> ValueType], v[i]) ELSE Failed
    BY <1>1, IndexFits, GetOnTree
  <1>4. /\ Leaf([j \in {0} |-> ValueType], v[i]).value = v[i]
        /\ Leaf([j \in {0} |-> ValueType], v[i]) # Failed
    BY DEF Leaf, Failed
  <1> QED
    BY <1>1, <1>2, <1>3, <1>4 DEF parse_node

\* A leaf is written where its path is stored.
LEMMA WriteGoes ==
  ASSUME NEW t, NEW old, NEW n, NEW v, Ready(t, old, n, v), NEW i \in Index,
         Stored(t.nodes, v, i, Depth), NEW val
  PROVE  /\ Ready(put(t, get_leaf_path(i), val), old, n, Written(v, i, val))
         /\ t.nodes \subseteq put(t, get_leaf_path(i), val).nodes
         /\ PathNodes(Written(v, i, val), i, 0, Depth) \subseteq put(t, get_leaf_path(i), val).nodes
  <1> DEFINE nodes == t.nodes
             w == Written(v, i, val)
  <1>1. t = Tree(RootOf(n, v), nodes) /\ old \subseteq nodes /\ Reachable(nodes, n, v, i)
    BY DEF Ready, Made, Reachable
  <1>2. Fits(i)
    BY IndexFits
  <1>3. SameBut(v, w, i)
    BY WrittenForm
  <1>4. i \in DOMAIN w /\ w[i] = val
    BY DEF Written
  <1> HIDE DEF nodes, w
  <1>5. put(t, get_leaf_path(i), val)
           = IF Reachable(nodes, n, v, i)
             THEN Tree(RootOf(n, w), nodes \cup PathNodes(w, i, 0, Depth) \cup {RootOf(n, w)})
             ELSE Failed
    BY <1>1, <1>2, <1>3, <1>4, PutOnPath
  <1> DEFINE more == nodes \cup PathNodes(w, i, 0, Depth) \cup {RootOf(n, w)}
  <1>6. put(t, get_leaf_path(i), val) = Tree(RootOf(n, w), more)
    BY <1>1, <1>5
  <1>7. nodes \subseteq more /\ PathNodes(w, i, 0, Depth) \subseteq more /\ RootOf(n, w) \in more
    OBVIOUS
  <1> HIDE DEF more
  <1>8. put(t, get_leaf_path(i), val).nodes = more
    BY <1>6, TreeForm
  <1>9. Ready(put(t, get_leaf_path(i), val), old, n, w)
    BY <1>1, <1>6, <1>7, <1>8 DEF Ready, Made
  <1>10. nodes \subseteq put(t, get_leaf_path(i), val).nodes
    BY <1>7, <1>8
  <1>11. PathNodes(w, i, 0, Depth) \subseteq put(t, get_leaf_path(i), val).nodes
    BY <1>7, <1>8
  <1> QED
    BY <1>9, <1>10, <1>11 DEF w, nodes

\* A leaf is taken away where its path is stored.
LEMMA EmptyGoes ==
  ASSUME NEW t, NEW old, NEW n, NEW v, Ready(t, old, n, v), NEW i \in Index,
         Stored(t.nodes, v, i, Depth)
  PROVE  Ready(remove(t, get_leaf_path(i)), old, n, Emptied(v, i))
  <1> DEFINE nodes == t.nodes
             w == Emptied(v, i)
  <1>1. t = Tree(RootOf(n, v), nodes) /\ old \subseteq nodes /\ Reachable(nodes, n, v, i)
    BY DEF Ready, Made, Reachable
  <1>2. Fits(i)
    BY IndexFits
  <1>3. SameBut(v, w, i)
    BY EmptiedForm
  <1>4. i \notin DOMAIN w
    BY DEF Emptied
  <1> HIDE DEF nodes, w
  <1>5. remove(t, get_leaf_path(i))
           = IF Reachable(nodes, n, v, i)
             THEN Tree(RootOf(n, w), nodes \cup PathNodes(w, i, 1, Depth) \cup {RootOf(n, w)})
             ELSE Failed
    BY <1>1, <1>2, <1>3, <1>4, RemoveOnTree
  <1> DEFINE more == nodes \cup PathNodes(w, i, 1, Depth) \cup {RootOf(n, w)}
  <1>6. remove(t, get_leaf_path(i)) = Tree(RootOf(n, w), more)
    BY <1>1, <1>5
  <1>7. old \subseteq more /\ RootOf(n, w) \in more
    BY <1>1
  <1> HIDE DEF more
  <1>8. remove(t, get_leaf_path(i)).nodes = more
    BY <1>6, TreeForm
  <1>9. Ready(remove(t, get_leaf_path(i)), old, n, w)
    BY <1>6, <1>7, <1>8 DEF Ready, Made
  <1> QED
    BY <1>9 DEF w

\* What is stored in a Database stays stored.
LEMMA StoredLater ==
  ASSUME NEW t, NEW old, NEW n, NEW v, Ready(t, old, n, v), NEW w, NEW i, Stored(old, w, i, Depth)
  PROVE  Stored(t.nodes, w, i, Depth)
  BY DEF Ready, Made, Stored

\* A link is rewritten in a leaf whose path is stored.
LEMMA SetNextGoes ==
  ASSUME NEW t, NEW old, NEW n, NEW v, Ready(t, old, n, v), NEW i \in Index, i \in DOMAIN v,
         Stored(t.nodes, v, i, Depth), NEW next
  PROVE  Ready(SetNext(t, i, next), old, n, Written(v, i, NewNextLeaf(v[i], next)))
  <1>1. parse_node(t, i) # Failed /\ parse_node(t, i).value = v[i]
    BY ReadGoes
  <1>2. SetNext(t, i, next) = put(t, get_leaf_path(i), NewNextLeaf(v[i], next))
    BY <1>1 DEF SetNext, WriteBack
  <1>3. \A val : Ready(put(t, get_leaf_path(i), val), old, n, Written(v, i, val))
    BY WriteGoes
  <1> QED
    BY <1>2, <1>3

\* So for the prev link.
LEMMA SetPrevGoes ==
  ASSUME NEW t, NEW old, NEW n, NEW v, Ready(t, old, n, v), NEW i \in Index, i \in DOMAIN v,
         Stored(t.nodes, v, i, Depth), NEW prev
  PROVE  Ready(SetPrev(t, i, prev), old, n, Written(v, i, NewPrevLeaf(v[i], prev)))
  <1>1. parse_node(t, i) # Failed /\ parse_node(t, i).value = v[i]
    BY ReadGoes
  <1>2. SetPrev(t, i, prev) = put(t, get_leaf_path(i), NewPrevLeaf(v[i], prev))
    BY <1>1 DEF SetPrev, WriteBack
  <1>3. \A val : Ready(put(t, get_leaf_path(i), val), old, n, Written(v, i, val))
    BY WriteGoes
  <1> QED
    BY <1>2, <1>3

\* A tree that is ready has not failed.
LEMMA ReadyForm ==
  ASSUME NEW t, NEW old, NEW n, NEW v, Ready(t, old, n, v)
  PROVE  t # Failed /\ t.root \in t.nodes /\ next_free_node(t) = n /\ increment(t) # Failed
  <1>1. Made(t, old, n, v) /\ RootOf(n, v) \in t.nodes
    BY DEF Ready
  <1>2. t # Failed /\ t.root = RootOf(n, v) /\ next_free_node(t) = n /\ Made(increment(t), old, n + 1, v)
    BY <1>1, FreeMade
  <1>3. increment(t) # Failed
    BY <1>2, FreeMade
  <1> QED
    BY <1>1, <1>2, <1>3

\* A put of a key that is not there does not fail where the three paths are stored; the
\* path of the right leaf may be one beside another new leaf.
LEMMA PutNewGoes ==
  ASSUME NEW t, NEW old, NEW n \in Index, NEW v, Ready(t, old, n, v), NEW k, NEW x, NEW range,
         range.center = NoLeaf, range.left_index \in Index, range.right_index \in Index,
         range.left_index \in DOMAIN v, range.right_index \in DOMAIN v, NEW linked, NEW y,
         linked = Written(v, range.left_index, NewNextLeaf(v[range.left_index], n)),
         Stored(old, v, range.left_index, Depth), Stored(old, linked, n, Depth),
         Stored(old, Written(linked, n, y), range.right_index, Depth)
  PROVE  trie_put(t, k, x, range) # Failed
  <1> DEFINE l == range.left_index
             r == range.right_index
             added == Written(linked, n, Opening(k, x, l, r))
             t1 == SetNext(t, l, n)
             t2 == put(t1, get_leaf_path(n), Opening(k, x, l, r))
             t3 == SetPrev(t2, r, n)
  <1>1. t # Failed /\ t.root \in t.nodes /\ next_free_node(t) = n
    BY ReadyForm
  <1>2. trie_put(t, k, x, range) = increment(t3)
    BY <1>1 DEF trie_put, PutNew, Opening
  <1>3. l \in Index /\ r \in Index /\ l \in DOMAIN v /\ r \in DOMAIN v
    OBVIOUS
  <1> HIDE DEF l, r
  <1>4. Stored(t.nodes, v, l, Depth)
    BY StoredLater DEF l
  <1>5. Ready(t1, old, n, linked)
    BY <1>3, <1>4, SetNextGoes DEF l
  <1>6. Stored(t1.nodes, linked, n, Depth) /\ Stored(t1.nodes, Written(linked, n, y), r, Depth)
    <2> HIDE DEF t1
    <2> QED
      BY <1>5, StoredLater DEF r
  <1>7. /\ Ready(t2, old, n, added)
        /\ t1.nodes \subseteq t2.nodes
        /\ PathNodes(added, n, 0, Depth) \subseteq t2.nodes
    <2> HIDE DEF t1
    <2> QED
      BY <1>5, <1>6, WriteGoes
  <1>8. r \in DOMAIN added
    BY <1>3 DEF Written
  <1>9. Stored(t2.nodes, added, r, Depth)
    <2>1. SameBut(Written(linked, n, y), added, n)
      BY DEF SameBut, Written
    <2>2. n \in Nat /\ r \in Nat
      BY <1>3, TrieAssumption DEF Index
    <2> HIDE DEF t1, t2, added
    <2> QED
      BY <1>6, <1>7, <2>1, <2>2, OthersStored
  <1>10. Ready(t3, old, n, Written(added, r, NewPrevLeaf(added[r], n)))
    <2> HIDE DEF t2, added
    <2> QED
      BY <1>3, <1>7, <1>8, <1>9, SetPrevGoes
  <1>11. increment(t3) # Failed
    <2> HIDE DEF t3, added
    <2> QED
      BY <1>10, ReadyForm
  <1> QED
    BY <1>2, <1>11

\* Nor does one of a key that is there.
LEMMA PutOverGoes ==
  ASSUME NEW t, NEW old, NEW n, NEW v, Ready(t, old, n, v), NEW k, NEW x, NEW range,
         range.center # NoLeaf, range.center.leaf_index \in Index,
         range.center.leaf_index \in DOMAIN v, Stored(old, v, range.center.leaf_index, Depth)
  PROVE  trie_put(t, k, x, range) # Failed
  <1> DEFINE i == range.center.leaf_index
  <1>1. t.root \in t.nodes
    BY ReadyForm
  <1>2. i \in Index /\ i \in DOMAIN v
    OBVIOUS
  <1>3. trie_put(t, k, x, range) = WriteBack(t, parse_node(t, i), i, NewHval(parse_node(t, i).value, x))
    BY <1>1 DEF trie_put, PutOver
  <1> HIDE DEF i
  <1>4. Stored(t.nodes, v, i, Depth)
    BY StoredLater DEF i
  <1>5. parse_node(t, i) # Failed
    BY <1>2, <1>4, ReadGoes
  <1>6. \A val : Ready(put(t, get_leaf_path(i), val), old, n, Written(v, i, val))
    BY <1>2, <1>4, WriteGoes
  <1>7. \A val : put(t, get_leaf_path(i), val) # Failed
    BY <1>6, ReadyForm
  <1> QED
    BY <1>3, <1>5, <1>7 DEF WriteBack

\* Nor a removal.
LEMMA RemoveOldGoes ==
  ASSUME NEW t, NEW old, NEW n, NEW v, Ready(t, old, n, v), NEW range, range.center # NoLeaf,
         NEW l \in Index, l = range.left_index, NEW i \in Index, i = range.center.leaf_index,
         NEW r \in Index, r = range.right_index,
         l \in DOMAIN v, i \in DOMAIN v, r \in DOMAIN v, r # i, NEW linked,
         linked = Written(v, l, NewNextLeaf(v[l], r)),
         Stored(old, v, l, Depth), Stored(old, linked, i, Depth), Stored(old, Emptied(linked, i), r, Depth)
  PROVE  trie_remove(t, range) # Failed
  <1> DEFINE removed == Emptied(linked, i)
             t1 == SetNext(t, l, r)
             t2 == remove(t1, get_leaf_path(i))
             t3 == SetPrev(t2, r, l)
  <1>1. Stored(t.nodes, v, l, Depth)
    BY StoredLater
  <1>2. Ready(t1, old, n, linked)
    BY <1>1, SetNextGoes
  <1>3. i \in DOMAIN linked /\ r \in DOMAIN linked
    BY DEF Written
  <1>4. Stored(t1.nodes, linked, i, Depth)
    <2> HIDE DEF t1
    <2> QED
      BY <1>2, StoredLater
  <1>5. parse_node(t1, i) # Failed
    <2> HIDE DEF t1
    <2> QED
      BY <1>2, <1>3, <1>4, ReadGoes
  <1>6. trie_remove(t, range) = t3
    BY <1>5 DEF trie_remove, RemoveOld
  <1>7. Ready(t2, old, n, removed)
    <2> HIDE DEF t1
    <2> QED
      BY <1>2, <1>4, EmptyGoes
  <1>8. Stored(t2.nodes, removed, r, Depth)
    <2> HIDE DEF t2
    <2> QED
      BY <1>7, StoredLater
  <1>9. r \in DOMAIN removed
    BY <1>3 DEF Emptied
  <1>10. Ready(t3, old, n, Written(removed, r, NewPrevLeaf(removed[r], l)))
    <2> HIDE DEF t2, removed
    <2> QED
      BY <1>7, <1>8, <1>9, SetPrevGoes
  <1>11. t3 # Failed
    <2> HIDE DEF t3, removed
    <2> QED
      BY <1>10, ReadyForm
  <1> QED
    BY <1>6, <1>11
=============================================================================

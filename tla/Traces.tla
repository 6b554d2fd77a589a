------------------------------- MODULE Traces -------------------------------
(***************************************************************************)
(* The traces of a block (common/zktrie/src/trace.rs): what a Shomei state *)
(* manager records while it applies a block to its trie, and what the      *)
(* program looks up in the records (LevelMap and MemStore's index in       *)
(* storage.rs).  The state manager is not in this repository; its records  *)
(* are those of zktrie/testdata.                                           *)
(*                                                                         *)
(* The hash of a sub trie stands for the leaves below it, a function from  *)
(* their indices, and a root for the leaves and the next free index.       *)
(***************************************************************************)
EXTENDS TrieLeaves, Sequences

CONSTANTS
    None,       \* no proof
    MaxBefore,  \* bound on the changes to the trie before the block
    MaxTraces   \* bound on the traces of a block

ASSUME TracesAssumption == MaxBefore \in Nat /\ MaxTraces \in Nat

VARIABLES
    held,       \* the state manager's leaves
    free,       \* and its next free index
    changes,    \* the changes before the block
    traces      \* the traces of the block

managerVars == <<held, free, changes, traces>>

Has(leaves, k) == \E i \in DOMAIN leaves : leaves[i].hkey = k

\* l and r are the indices of the keys nearest to k below and above.
Between(leaves, k, l, r) ==
    /\ leaves[l].hkey < k
    /\ k < leaves[r].hkey
    /\ \A i \in DOMAIN leaves :
          leaves[i].hkey <= leaves[l].hkey \/ leaves[i].hkey = k \/ leaves[i].hkey >= leaves[r].hkey

LinkNext(leaves, i, j) == [leaves EXCEPT ![i].next_leaf = j]
LinkPrev(leaves, i, j) == [leaves EXCEPT ![i].prev_leaf = j]
With(leaves, i, leaf)  == [j \in DOMAIN leaves \cup {i} |-> IF j = i THEN leaf ELSE leaves[j]]
Without(leaves, i)     == [j \in DOMAIN leaves \ {i} |-> leaves[j]]

\* A leaf and the trie whose siblings lie beside its path.
Proof(leaves, i) ==
    [leaf_index |-> i,
     leaf       |-> IF i \in DOMAIN leaves THEN leaves[i] ELSE NoLeaf,
     under      |-> leaves]

Trace(type, k, v, next_free, left, own, right) ==
    [type |-> type, key |-> k, value |-> v, next_free |-> next_free, sub |-> held,
     left |-> left, own |-> own, right |-> right]

\* A change comes before the block, or is recorded.
Before ==
    /\ traces = <<>>
    /\ changes < MaxBefore
    /\ changes' = changes + 1
    /\ UNCHANGED traces

Log(t) ==
    /\ Len(traces) < MaxTraces
    /\ traces' = Append(traces, t)
    /\ UNCHANGED changes

RecordRead(k) ==
    /\ \E i \in DOMAIN held :
          /\ held[i].hkey = k
          /\ Log(Trace("Read", k, held[i].hval, free, None, Proof(held, i), None))
    /\ UNCHANGED <<held, free>>

RecordReadZero(k) ==
    /\ ~Has(held, k)
    /\ \E l, r \in DOMAIN held :
          /\ Between(held, k, l, r)
          /\ Log(Trace("ReadZero", k, NoValue, free, Proof(held, l), None, Proof(held, r)))
    /\ UNCHANGED <<held, free>>

\* Every proof of an insertion or a deletion is about the trie as the changes before it
\* have left it; an insertion has the next free index that it leaves behind.
RecordInsertion(k, v) ==
    /\ ~Has(held, k)
    /\ free <= Capacity
    /\ \E l, r \in DOMAIN held :
          LET new    == [hkey |-> k, hval |-> v, prev_leaf |-> l, next_leaf |-> r]
              linked == LinkNext(held, l, free)
              added  == With(linked, free, new)
          IN  /\ Between(held, k, l, r)
              /\ held' = LinkPrev(added, r, free)
              /\ \/ Before
                 \/ Log(Trace("Insertion", k, NoValue, free + 1,
                              Proof(held, l), Proof(linked, free), Proof(added, r)))
    /\ free' = free + 1

RecordUpdate(k, v) ==
    /\ \E i \in DOMAIN held :
          /\ held[i].hkey = k
          /\ held' = [held EXCEPT ![i].hval = v]
          /\ \/ Before
             \/ Log(Trace("Update", k, held[i].hval, free, None, Proof(held, i), None))
    /\ UNCHANGED free

RecordDeletion(k) ==
    /\ \E i \in DOMAIN held :
          LET l       == held[i].prev_leaf
              r       == held[i].next_leaf
              linked  == LinkNext(held, l, r)
              removed == Without(linked, i)
          IN  /\ held[i].hkey = k
              /\ held' = LinkPrev(removed, r, l)
              /\ \/ Before
                 \/ Log(Trace("Deletion", k, held[i].hval, free,
                              Proof(held, l), Proof(linked, i), Proof(removed, r)))
    /\ UNCHANGED free

ManagerInit ==
    /\ held = [i \in {0, 1} |-> IF i = 0 THEN HeadLeaf ELSE TailLeaf]
    /\ free = 2
    /\ changes = 0
    /\ traces = <<>>

ManagerNext ==
    \E k \in Key :
       \/ RecordRead(k) \/ RecordReadZero(k) \/ RecordDeletion(k)
       \/ \E v \in Value : RecordInsertion(k, v) \/ RecordUpdate(k, v)

ManagerSpec == ManagerInit /\ [][ManagerNext]_managerVars
----------------------------------------------------------------------------
(* What trace.rs makes of a record. *)

\* Mutated form of old_next_free: every record has the index that it leaves behind.
old_next_freeLess(t) == t.next_free - 1

\* Trace::old_state
old_next_free(t) == IF t.type = "Insertion" THEN t.next_free - 1 ELSE t.next_free

\* The root before the change.
old_top(t) == [free |-> old_next_free(t), leaves |-> t.sub]

\* Mutated form of key_range: a deleted key has the index of its left neighbour.
key_rangeLeft(t) ==
    IF t.type \in {"ReadZero", "Insertion"}
    THEN KeyRange(t.left.leaf_index, NoLeaf, t.right.leaf_index)
    ELSE LET leaf == t.own.leaf
             i    == IF t.type = "Deletion" THEN t.left.leaf_index ELSE t.own.leaf_index
         IN  KeyRange(leaf.prev_leaf, [leaf_index |-> i, leaf_value |-> t.value], leaf.next_leaf)

key_range(t) ==
    IF t.type \in {"ReadZero", "Insertion"}
    THEN KeyRange(t.left.leaf_index, NoLeaf, t.right.leaf_index)
    ELSE LET leaf == t.own.leaf
         IN  KeyRange(leaf.prev_leaf,
                      [leaf_index |-> t.own.leaf_index, leaf_value |-> t.value],
                      leaf.next_leaf)

----------------------------------------------------------------------------
(* What MemStore answers, under a root and a key. *)

EntryOf(n) == <<old_top(traces[n]), traces[n].key>>

\* LevelMap::from_traces: of two traces with the same root and key the later one stays.
level_map ==
    [e \in {EntryOf(n) : n \in DOMAIN traces} |->
        key_range(traces[CHOOSE n \in DOMAIN traces :
            EntryOf(n) = e /\ \A m \in DOMAIN traces : EntryOf(m) = e => m <= n])]

Start == old_top(traces[1])

\* The accounts for which fetch_proof_by_traces brings a proof of inclusion, at the block
\* before.
Included == {k \in {traces[n].key : n \in DOMAIN traces} : Has(Start.leaves, k)}

StartIndex(k) == CHOOSE i \in DOMAIN Start.leaves : Start.leaves[i].hkey = k

\* What add_proof files, with no neighbours.
proof_entries ==
    [e \in {Start} \X Included |->
        KeyRange(0, [leaf_index |-> StartIndex(e[2]),
                     leaf_value |-> Start.leaves[StartIndex(e[2])].hval], 0)]

\* The entry of a proof is only made where the traces have none.
Lookup ==
    [e \in DOMAIN level_map \cup DOMAIN proof_entries |->
        IF e \in DOMAIN level_map THEN level_map[e] ELSE proof_entries[e]]

\* An answer is true of the leaves under a root: whether the key is there, its index and
\* value.
Answers(leaves, k, range) ==
    IF range.center = NoLeaf THEN ~Has(leaves, k)
    ELSE /\ range.center.leaf_index \in DOMAIN leaves
         /\ leaves[range.center.leaf_index].hkey = k
         /\ leaves[range.center.leaf_index].hval = range.center.leaf_value

\* The state manager's variables have their types.
ManagerTypeOK ==
    /\ free \in 2 .. (Capacity + 1)
    /\ DOMAIN held \subseteq 0 .. (free - 1)
    /\ \A i \in DOMAIN held : held[i] \in LeafOpening
    /\ changes \in 0 .. MaxBefore
    /\ Len(traces) \in 0 .. MaxTraces

\* What MemStore answers under a root is what the trie with that root holds, whichever
\* trace or proof it comes from and whatever the block does to the key later: index and
\* value, a free index above every leaf, and, unless only a proof speaks of the key, its
\* neighbours.
IndexSound ==
    traces # <<>> => \A e \in DOMAIN Lookup :
        LET leaves == e[1].leaves
            range  == Lookup[e]
        IN  /\ Answers(leaves, e[2], range)
            /\ \A i \in DOMAIN leaves : i < e[1].free
            /\ e \in DOMAIN level_map =>
                  /\ {range.left_index, range.right_index} \subseteq DOMAIN leaves
                  /\ Between(leaves, e[2], range.left_index, range.right_index)
=============================================================================

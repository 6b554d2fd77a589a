------------------------------ MODULE MCZkState ------------------------------
(* Two addresses, one storage trie of two slots, balances and nonces of one bit. *)
EXTENDS ZkState

CONSTANTS r1, c1, w1, w2

mcValue == Account \ {EmptyAccount}

\* The first address is a contract whose code the Database lacks, the second has no leaf.
mcStart ==
    {[k \in Key |-> IF k = 1 THEN v ELSE NoValue] :
        v \in {acc \in mcValue : acc.root = r1 /\ acc.code = c1}}

mcStorageOf == [r \in {r1} |-> [i \in Slot |-> IF i = 1 THEN w1 ELSE w2]]
=============================================================================

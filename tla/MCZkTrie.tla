------------------------------ MODULE MCZkTrie ------------------------------
(* Three keys between head and tail, two values, and indices for five insertions. *)
EXTENDS TrieNodes

MCKey == {1, 3, 4}
=============================================================================

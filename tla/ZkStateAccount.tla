--------------------------- MODULE ZkStateAccount ---------------------------
(***************************************************************************)
(* Accounts as the state trie keeps them (common/linea/src/engine.rs), and *)
(* what the execution of a block asks of one.                              *)
(***************************************************************************)
EXTENDS Integers

CONSTANTS
    MaxBalance,  \* the largest balance (2^256 - 1)
    MaxNonce,    \* the largest nonce (2^64 - 1)
    Root,        \* roots of storage tries
    ZeroRoot,    \* SH256::default(), the root of an account that was never stored
    Code,        \* code hashes
    NoCode,      \* EMPTY_KECCAK_CODE_HASH; code_size is zero
    StoredCode,  \* the codes the Database has
    Slot,        \* storage keys
    Word,        \* the contents of slots
    StorageOf    \* storage root -> the word in each slot

Account == [nonce : 0..MaxNonce, balance : 0..MaxBalance, root : Root, code : Code]

\* ZkStateAccount::default()
EmptyAccount == [nonce |-> 0, balance |-> 0, root |-> ZeroRoot, code |-> NoCode]

ASSUME AccountAssumption ==
    /\ MaxBalance \in Nat
    /\ MaxNonce \in Nat
    /\ ZeroRoot \in Root
    /\ NoCode \in Code
    /\ StorageOf \in [Root \ {ZeroRoot} -> [Slot -> Word]]

WithBalance(acc, b) == [nonce |-> acc.nonce, balance |-> b, root |-> acc.root, code |-> acc.code]
WithNonce(acc, n)   == [nonce |-> n, balance |-> acc.balance, root |-> acc.root, code |-> acc.code]

(* The answers to the questions the execution asks. *)

BasicOf(acc) == <<"basic", acc.balance, acc.nonce>>

\* is_exist is true of the default account, and of no other.
ExistOf(acc) == <<"exist", acc = EmptyAccount>>

CodeOf(acc) ==
    IF acc.code = NoCode \/ acc.code \in StoredCode THEN <<"code", acc.code>> ELSE <<"CodeNotFound">>

WordOf(acc, i) == <<"word", StorageOf[acc.root][i]>>
=============================================================================

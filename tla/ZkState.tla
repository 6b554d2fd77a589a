------------------------------- MODULE ZkState -------------------------------
(***************************************************************************)
(* The state of a block's execution over the state trie                    *)
(* (common/linea/src/zktrie_state.rs, cache.rs, trie.rs, engine.rs):       *)
(* accounts and storage words are read once and kept, changed accounts are *)
(* marked dirty and written to the trie by flush.                          *)
(*                                                                         *)
(* The trie of the accounts is used through what KeyValueMap promises (its *)
(* keys are addresses, hashed by the trie); the tries of the accounts'     *)
(* storage are only read.  Functions of the StateDB trait that are         *)
(* unreachable!() in ZkTrieState end the program, as do checked arithmetic *)
(* that overflows and a lookup under a root that is no trie's: no step.    *)
(***************************************************************************)
EXTENDS ZkStateAccount, KeyValueMap, FiniteSetsExt

CONSTANTS
    MaxAddress,  \* addresses are numbers of 160 bits
    NotCached,   \* no entry in a BTreeMap
    Start        \* the contents the trie may have before the block

VARIABLES
    cache,     \* acc_cache.cache: address -> account
    dirty,     \* acc_cache.dirty
    storages,  \* address -> the TrieCache of its storage: root and cached words
    pending,   \* the dirty accounts a running flush has still to write
    reply      \* the answer to the last question

stateVars == <<map, answer, cache, dirty, storages, pending, reply>>

\* from_bytes and to_bytes: the default account is no leaf.
Decode(data) == IF data = NoValue THEN EmptyAccount ELSE data
Encode(acc)  == IF acc = EmptyAccount THEN NoValue ELSE acc

ASSUME StateAssumption ==
    /\ MaxAddress \in Nat
    /\ Key \subseteq 0..MaxAddress
    /\ Value = Account \ {EmptyAccount}
    /\ NoValue \notin Account
    /\ Start \subseteq [Key -> Value \cup {NoValue}]
    /\ NotCached \notin Account
    /\ NotCached \notin [root : Root, words : [Slot -> Word \cup {NotCached}]]
    /\ NotCached \notin Word

----------------------------------------------------------------------------
\* The account an address has for whoever asks now.
Current(a) == IF cache[a] = NotCached THEN Decode(map[a]) ELSE cache[a]

\* TrieCache::with_key on acc_cache: an account that is not cached is read from the trie;
\* acc is what the closure leaves in the cache, changed whether it marks it dirty.
WithAcc(a, acc, changed) ==
    /\ pending = {}
    /\ IF cache[a] = NotCached THEN MapRead(a) ELSE UNCHANGED mapVars
    /\ cache' = [cache EXCEPT ![a] = acc]
    /\ dirty' = IF changed THEN dirty \cup {a} ELSE dirty
    /\ UNCHANGED pending

add_balance(a, v) ==
    /\ Current(a).balance + v <= MaxBalance
    /\ WithAcc(a, WithBalance(Current(a), Current(a).balance + v), TRUE)
    /\ UNCHANGED <<storages, reply>>

\* Mutated form of sub_balance: unchecked.
sub_balanceWraps(a, v) ==
    /\ WithAcc(a, WithBalance(Current(a), Current(a).balance - v), TRUE)
    /\ UNCHANGED <<storages, reply>>

sub_balance(a, v) ==
    /\ Current(a).balance >= v
    /\ WithAcc(a, WithBalance(Current(a), Current(a).balance - v), TRUE)
    /\ UNCHANGED <<storages, reply>>

set_nonce(a, n) ==
    /\ WithAcc(a, WithNonce(Current(a), n), n # Current(a).nonce)
    /\ UNCHANGED <<storages, reply>>

Ask(a, r) ==
    /\ WithAcc(a, Current(a), FALSE)
    /\ reply' = r
    /\ UNCHANGED storages

\* Mutated form of get_account_basic: answers from the trie.
get_account_basicUncached(a) == Ask(a, BasicOf(Decode(map[a])))

\* get_balance and get_nonce answer with a half of this.
get_account_basic(a) == Ask(a, BasicOf(Current(a)))

exist(a) == Ask(a, ExistOf(Current(a)))

get_code(a) == Ask(a, CodeOf(Current(a)))

\* with_storage: the storage is opened at the account's root, and opened again if the
\* account has another root by now; nothing marks a slot dirty.
Opened(a, root) ==
    IF storages[a] = NotCached \/ (storages[a] # NotCached /\ storages[a].root # root)
    THEN [root |-> root, words |-> [i \in Slot |-> NotCached]]
    ELSE storages[a]

\* Mutated form of get_state: the word is kept for every slot.
get_stateAllSlots(a, i) ==
    LET root  == Current(a).root
        store == Opened(a, root)
        word  == IF store.words[i] = NotCached THEN StorageOf[root][i] ELSE store.words[i]
    IN  /\ root # ZeroRoot
        /\ WithAcc(a, Current(a), FALSE)
        /\ storages' = [storages EXCEPT ![a] = [root |-> root, words |-> [j \in Slot |-> word]]]
        /\ reply' = <<"word", word>>

get_state(a, i) ==
    LET root  == Current(a).root
        store == Opened(a, root)
        word  == IF store.words[i] = NotCached THEN StorageOf[root][i] ELSE store.words[i]
    IN  /\ root # ZeroRoot
        /\ WithAcc(a, Current(a), FALSE)
        /\ storages' = [storages EXCEPT
              ![a] = [root |-> store.root, words |-> [store.words EXCEPT ![i] = word]]]
        /\ reply' = <<"word", word>>

----------------------------------------------------------------------------
(* flush: TrieCache::flush hands every dirty account to ZkTrie::update, which sorts them
   by address, the largest first, and puts or removes one after the other. *)

FlushBegin ==
    /\ pending = {}
    /\ dirty # {}
    /\ pending' = dirty
    /\ UNCHANGED <<mapVars, cache, dirty, storages, reply>>

\* Mutated form of FlushStep: an emptied account stays in the trie.
FlushStepNeverRemoves ==
    /\ pending # {}
    /\ LET a == Max(pending)
       IN  /\ IF Encode(cache[a]) = NoValue THEN UNCHANGED mapVars ELSE MapPut(a, Encode(cache[a]))
           /\ pending' = pending \ {a}
           /\ dirty' = IF pending' = {} THEN {} ELSE dirty
    /\ UNCHANGED <<cache, storages, reply>>

\* Every mark is taken away when all are written; the cache stays.
FlushStep ==
    /\ pending # {}
    /\ LET a == Max(pending)
       IN  /\ IF Encode(cache[a]) = NoValue THEN MapRemove(a) ELSE MapPut(a, Encode(cache[a]))
           /\ pending' = pending \ {a}
           /\ dirty' = IF pending' = {} THEN {} ELSE dirty
    /\ UNCHANGED <<cache, storages, reply>>

\* new_from_trace: empty caches over the trie before the block.
StateInit ==
    /\ map \in Start
    /\ answer = NoValue
    /\ cache = [a \in Key |-> NotCached]
    /\ dirty = {}
    /\ storages = [a \in Key |-> NotCached]
    /\ pending = {}
    /\ reply = <<"nothing asked">>

StateNext ==
    \/ \E a \in Key :
          \/ \E v \in 0..MaxBalance : add_balance(a, v) \/ sub_balance(a, v)
          \/ \E n \in 0..MaxNonce : set_nonce(a, n)
          \/ get_account_basic(a)
          \/ exist(a)
          \/ get_code(a)
          \/ \E i \in Slot : get_state(a, i)
    \/ FlushBegin
    \/ FlushStep

StateSpec == StateInit /\ [][StateNext]_stateVars
----------------------------------------------------------------------------
\* Every variable has its type.
StateTypeOK ==
    /\ map \in [Key -> Value \cup {NoValue}]
    /\ answer \in Value \cup {NoValue}
    /\ cache \in [Key -> Account \cup {NotCached}]
    /\ dirty \subseteq Key
    /\ pending \subseteq dirty
    /\ storages \in [Key -> [root : Root, words : [Slot -> Word \cup {NotCached}]] \cup {NotCached}]

\* No change is lost: an account that differs from its leaf in the trie is marked, keeps
\* its mark until it is written, and is written before the flush takes the marks away;
\* an account that has become empty again has no leaf.
CacheCoherent ==
    \A a \in Key :
       /\ a \in dirty => cache[a] # NotCached
       /\ a \in pending \/ (pending = {} /\ a \in dirty) \/ Current(a) = Decode(map[a])

\* The words cached for an account are those of the storage trie it has now, whatever was
\* read or written in between.
StorageFresh ==
    \A a \in Key : storages[a] # NotCached =>
       /\ cache[a] # NotCached
       /\ storages[a].root = cache[a].root
       /\ cache[a].root # ZeroRoot
       /\ \A i \in Slot : storages[a].words[i] \in {NotCached, StorageOf[cache[a].root][i]}

Ledger == INSTANCE AccountLedger WITH ledger <- [a \in Key |-> Current(a)], reply <- reply

\* The two caches and the delayed writes cannot be told from accounts that change at once:
\* no read is stale, and a flush changes no answer.  Each call does to the account of its
\* address, or answers about it, what it says, and touches no other account.
ImplementsLedger ==
    /\ Ledger!LedgerSpec
    /\ [][ \A a \in Key :
              /\ \A v \in 0..MaxBalance :
                    /\ add_balance(a, v) => Ledger!AddBalance(a, v)
                    /\ sub_balance(a, v) => Ledger!SubBalance(a, v)
              /\ \A n \in 0..MaxNonce : set_nonce(a, n) => Ledger!SetNonce(a, n)
              /\ get_account_basic(a) => Ledger!TellBasic(a)
              /\ exist(a) => Ledger!TellExist(a)
              /\ get_code(a) => Ledger!TellCode(a)
              /\ \A i \in Slot : get_state(a, i) => Ledger!TellWord(a, i) ]_stateVars
=============================================================================

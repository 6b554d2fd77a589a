---------------------------- MODULE ZkStateProofs ----------------------------
(***************************************************************************)
(* Theorems about the state of a block's execution, for any addresses,     *)
(* accounts, storage and contents of the trie.                             *)
(***************************************************************************)
EXTENDS ZkState, WellFoundedInduction, TLAPS

\* No conjunct is inductive alone: a flush keeps the caches coherent only over accounts of
\* the right type, and reading a word keeps to the account that is cached.
StateInv == StateTypeOK /\ CacheCoherent /\ StorageFresh

----------------------------------------------------------------------------
\* The order of the naturals as a relation without an infinite descent.
LEMMA StateOrder ==
  \E R : IsWellFoundedOn(R, Nat) /\ \A i, j \in Nat : j < i => <<j, i>> \in R
<1>1. \A i, j \in Nat : j < i => <<j, i>> \in OpToRel(<, Nat)
  BY Z3 DEF OpToRel
<1> QED
  BY <1>1, NatLessThanWellFounded, Zenon

\* There is a largest address in a set of addresses.
LEMMA MaxAddressed ==
  ASSUME NEW S, S \subseteq Key, S # {}
  PROVE  Max(S) \in S
<1>1. S \subseteq 0..MaxAddress /\ MaxAddress \in Nat
  BY StateAssumption
<1> DEFINE D == {d \in Nat : MaxAddress - d \in S}
<1>2. D \subseteq Nat /\ D # {}
  <2>1. PICK x \in S : TRUE
    OBVIOUS
  <2>2. MaxAddress - x \in D
    BY <1>1, <2>1
  <2> QED
    BY <2>2
<1>3. PICK R : IsWellFoundedOn(R, Nat) /\ \A i, j \in Nat : j < i => <<j, i>> \in R
  BY StateOrder
<1>4. PICK d \in D : \A e \in D : ~(<<e, d>> \in R)
  <2> HIDE DEF D
  <2>1. IsWellFoundedOn(R, Nat)
    BY <1>3
  <2> QED
    BY <1>2, <2>1, WFMin, Zenon
<1>5. MaxAddress - d \in S
  OBVIOUS
<1>6. ASSUME NEW x \in S
      PROVE  x <= MaxAddress - d
  <2>1. x \in 0..MaxAddress /\ MaxAddress - x \in D
    BY <1>1
  <2>2. ~(MaxAddress - x < d)
    BY <1>3, <1>4, <2>1
  <2> QED
    BY <1>1, <2>1, <2>2
<1>7. \E x \in S : \A y \in S : x >= y
  BY <1>1, <1>5, <1>6
<1> QED
  BY <1>7 DEF Max

----------------------------------------------------------------------------
\* What changes an account leaves an account, if it leaves the balance and the nonce in
\* their bounds.
LEMMA ChangedAccounts ==
  ASSUME NEW acc \in Account
  PROVE  /\ \A b \in 0..MaxBalance : WithBalance(acc, b) \in Account
         /\ \A n \in 0..MaxNonce : WithNonce(acc, n) \in Account
         /\ WithNonce(acc, acc.nonce) = acc
  BY DEF Account, WithBalance, WithNonce

LEMMA EmptyAccountIsAccount == EmptyAccount \in Account
  BY AccountAssumption DEF EmptyAccount, Account

LEMMA CurrentType ==
  ASSUME StateTypeOK, NEW a \in Key
  PROVE  Current(a) \in Account
<1>1. map[a] \in Value \cup {NoValue} /\ cache[a] \in Account \cup {NotCached}
  BY DEF StateTypeOK
<1> QED
  BY <1>1, StateAssumption, EmptyAccountIsAccount DEF Current, Decode

\* What with_key does to an account: it answers with acc from now on, is cached, and is
\* marked if it changed; no other account changes.
LEMMA WithAccEffect ==
  ASSUME StateTypeOK, NEW a \in Key, NEW acc \in Account, NEW changed \in BOOLEAN,
         WithAcc(a, acc, changed)
  PROVE  /\ map' = map
         /\ answer' \in Value \cup {NoValue}
         /\ cache' \in [Key -> Account \cup {NotCached}]
         /\ cache'[a] = acc
         /\ \A b \in Key : b # a => cache'[b] = cache[b]
         /\ dirty \subseteq dirty' /\ dirty' \subseteq dirty \cup {a}
         /\ changed => a \in dirty'
         /\ pending = {} /\ pending' = {}
         /\ Current(a)' = acc
         /\ \A b \in Key : b # a => Current(b)' = Current(b)
<1>1. map' = map /\ answer' \in Value \cup {NoValue}
  BY DEF WithAcc, MapRead, mapVars, StateTypeOK
<1>2. /\ cache' \in [Key -> Account \cup {NotCached}]
      /\ cache'[a] = acc
      /\ \A b \in Key : b # a => cache'[b] = cache[b]
  BY DEF WithAcc, StateTypeOK
<1>3. /\ dirty \subseteq dirty' /\ dirty' \subseteq dirty \cup {a}
      /\ changed => a \in dirty'
      /\ pending = {} /\ pending' = {}
  BY DEF WithAcc
<1>4. acc # NotCached
  BY StateAssumption
<1>5. Current(a)' = acc /\ \A b \in Key : b # a => Current(b)' = Current(b)
  BY <1>1, <1>2, <1>4 DEF Current
<1> QED
  BY <1>1, <1>2, <1>3, <1>5

\* with_key keeps the caches coherent when what is not marked did not change.
LEMMA WithAccCoherent ==
  ASSUME StateTypeOK, CacheCoherent, NEW a \in Key, NEW acc \in Account,
         NEW changed \in BOOLEAN, WithAcc(a, acc, changed), changed \/ acc = Current(a)
  PROVE  CacheCoherent'
<1> USE WithAccEffect
<1>1. acc # NotCached
  BY StateAssumption
<1> SUFFICES ASSUME NEW b \in Key
             PROVE  /\ b \in dirty' => cache'[b] # NotCached
                    /\ b \in dirty' \/ Current(b)' = Decode(map[b])
  BY DEF CacheCoherent, Decode
<1>2. CASE b = a
  BY <1>1, <1>2 DEF CacheCoherent
<1>3. CASE b # a
  BY <1>3 DEF CacheCoherent
<1> QED
  BY <1>2, <1>3

\* with_key alone leaves the storage fresh when the account keeps its storage root.
LEMMA WithAccFresh ==
  ASSUME StateTypeOK, StorageFresh, NEW a \in Key, NEW acc \in Account, NEW changed \in BOOLEAN,
         WithAcc(a, acc, changed), acc.root = Current(a).root, UNCHANGED storages
  PROVE  StorageFresh'
<1> USE WithAccEffect
<1>1. acc # NotCached
  BY StateAssumption
<1> SUFFICES ASSUME NEW b \in Key, storages[b] # NotCached
             PROVE  /\ cache'[b] # NotCached
                    /\ storages[b].root = cache'[b].root
                    /\ cache'[b].root # ZeroRoot
                    /\ \A i \in Slot : storages[b].words[i] \in {NotCached, StorageOf[cache'[b].root][i]}
  BY DEF StorageFresh
<1>2. /\ cache[b] # NotCached
      /\ storages[b].root = cache[b].root
      /\ cache[b].root # ZeroRoot
      /\ \A i \in Slot : storages[b].words[i] \in {NotCached, StorageOf[cache[b].root][i]}
  BY DEF StorageFresh
<1>3. cache'[b] # NotCached /\ cache'[b].root = cache[b].root
  <2>1. CASE b = a
    BY <1>1, <1>2, <2>1 DEF Current
  <2>2. CASE b # a
    BY <1>2, <2>2
  <2> QED
    BY <2>1, <2>2
<1> QED
  BY <1>2, <1>3

\* Whatever only goes through with_key keeps the invariant.
LEMMA WithAccInv ==
  ASSUME StateInv, NEW a \in Key, NEW acc \in Account, NEW changed \in BOOLEAN,
         WithAcc(a, acc, changed), changed \/ acc = Current(a), acc.root = Current(a).root,
         UNCHANGED storages
  PROVE  StateInv'
<1>1. CacheCoherent' /\ StorageFresh'
  BY WithAccCoherent, WithAccFresh DEF StateInv
<1>2. StateTypeOK'
  BY WithAccEffect DEF StateInv, StateTypeOK
<1> QED
  BY <1>1, <1>2 DEF StateInv

----------------------------------------------------------------------------
(* The operations on accounts, each with what it does to them. *)

\* An account that is changed becomes what it is changed to, and no other changes.
LEMMA Changed ==
  ASSUME StateInv, NEW a \in Key, NEW acc \in Account, NEW changed \in BOOLEAN,
         WithAcc(a, acc, changed), changed \/ acc = Current(a), acc.root = Current(a).root,
         UNCHANGED <<storages, reply>>
  PROVE  /\ StateInv'
         /\ UNCHANGED reply
         /\ acc \in Account
         /\ Current(a)' = acc
         /\ \A b \in Key : b # a => Current(b)' = Current(b)
<1>1. StateInv'
  BY WithAccInv
<1>2. Current(a)' = acc /\ \A b \in Key : b # a => Current(b)' = Current(b)
  BY WithAccEffect DEF StateInv
<1> QED
  BY <1>1, <1>2

\* What an account is changed to, and what that leaves alone.
ChangesTo(a, acc) ==
    /\ UNCHANGED reply
    /\ acc \in Account
    /\ Current(a)' = acc
    /\ \A b \in Key : b # a => Current(b)' = Current(b)

\* A balance that is added to.
LEMMA Added ==
  ASSUME StateInv, NEW a \in Key, NEW v \in 0..MaxBalance, add_balance(a, v)
  PROVE  StateInv' /\ ChangesTo(a, WithBalance(Current(a), Current(a).balance + v))
<1> DEFINE acc == WithBalance(Current(a), Current(a).balance + v)
<1>1. Current(a) \in Account
  BY CurrentType DEF StateInv
<1>2. Current(a).balance + v \in 0..MaxBalance
  BY <1>1, AccountAssumption DEF add_balance, Account
<1>3. acc \in Account /\ acc.root = Current(a).root
  BY <1>1, <1>2, ChangedAccounts DEF WithBalance
<1>4. WithAcc(a, acc, TRUE) /\ UNCHANGED <<storages, reply>>
  BY DEF add_balance
<1> HIDE DEF acc
<1>5. StateInv' /\ ChangesTo(a, acc)
  BY <1>3, <1>4, Changed DEF ChangesTo
<1> QED
  BY <1>5 DEF acc

\* A balance that is taken from.
LEMMA Subtracted ==
  ASSUME StateInv, NEW a \in Key, NEW v \in 0..MaxBalance, sub_balance(a, v)
  PROVE  StateInv' /\ ChangesTo(a, WithBalance(Current(a), Current(a).balance - v))
<1> DEFINE acc == WithBalance(Current(a), Current(a).balance - v)
<1>1. Current(a) \in Account
  BY CurrentType DEF StateInv
<1>2. Current(a).balance - v \in 0..MaxBalance
  BY <1>1, AccountAssumption DEF sub_balance, Account
<1>3. acc \in Account /\ acc.root = Current(a).root
  BY <1>1, <1>2, ChangedAccounts DEF WithBalance
<1>4. WithAcc(a, acc, TRUE) /\ UNCHANGED <<storages, reply>>
  BY DEF sub_balance
<1> HIDE DEF acc
<1>5. StateInv' /\ ChangesTo(a, acc)
  BY <1>3, <1>4, Changed DEF ChangesTo
<1> QED
  BY <1>5 DEF acc

\* A nonce that is set, marked or not.
LEMMA NonceSet ==
  ASSUME StateInv, NEW a \in Key, NEW n \in 0..MaxNonce, set_nonce(a, n)
  PROVE  StateInv' /\ ChangesTo(a, WithNonce(Current(a), n))
<1> DEFINE acc == WithNonce(Current(a), n)
           changed == n # Current(a).nonce
<1>1. Current(a) \in Account
  BY CurrentType DEF StateInv
<1>2. acc \in Account /\ acc.root = Current(a).root /\ (changed \/ acc = Current(a))
  BY <1>1, ChangedAccounts DEF WithNonce
<1>3. WithAcc(a, acc, changed) /\ UNCHANGED <<storages, reply>>
  BY DEF set_nonce
<1>4. changed \in BOOLEAN
  OBVIOUS
<1> HIDE DEF acc, changed
<1>5. StateInv' /\ ChangesTo(a, acc)
  BY <1>2, <1>3, <1>4, Changed DEF ChangesTo
<1> QED
  BY <1>5 DEF acc

\* A question about an account changes none.
LEMMA Asked ==
  ASSUME StateInv, NEW a \in Key, NEW r, Ask(a, r)
  PROVE  StateInv' /\ reply' = r /\ \A b \in Key : Current(b)' = Current(b)
<1>1. Current(a) \in Account /\ StateTypeOK
  BY CurrentType DEF StateInv
<1>2. WithAcc(a, Current(a), FALSE) /\ reply' = r /\ UNCHANGED storages
  BY DEF Ask
<1>3. StateInv'
  BY <1>1, <1>2, WithAccInv
<1>4. Current(a)' = Current(a) /\ \A b \in Key : b # a => Current(b)' = Current(b)
  BY <1>1, <1>2, WithAccEffect
<1> QED
  BY <1>2, <1>3, <1>4

\* A storage that is opened at a root has that root, and words of its trie.
LEMMA OpenedAtRoot ==
  ASSUME StateInv, NEW a \in Key, NEW root, root = Current(a).root, root \in Root
  PROVE  /\ Opened(a, root) \in [root : Root, words : [Slot -> Word \cup {NotCached}]]
         /\ Opened(a, root).root = root
         /\ \A i \in Slot : Opened(a, root).words[i] \in {NotCached, StorageOf[root][i]}
<1>1. storages[a] \in [root : Root, words : [Slot -> Word \cup {NotCached}]] \cup {NotCached}
  BY DEF StateInv, StateTypeOK
<1>2. CASE storages[a] = NotCached \/ storages[a].root # root
  BY <1>2 DEF Opened
<1>3. CASE storages[a] # NotCached /\ storages[a].root = root
  <2>1. cache[a] # NotCached /\ storages[a].root = cache[a].root
        /\ \A i \in Slot : storages[a].words[i] \in {NotCached, StorageOf[cache[a].root][i]}
    BY <1>3 DEF StateInv, StorageFresh
  <2>2. Opened(a, root) = storages[a]
    BY <1>3 DEF Opened
  <2> QED
    BY <1>1, <1>3, <2>1, <2>2
<1> QED
  BY <1>2, <1>3

\* A word that is read is the one in the storage trie of the account as it is now.
LEMMA WordRead ==
  ASSUME StateInv, NEW a \in Key, NEW i \in Slot, get_state(a, i)
  PROVE  /\ StateInv'
         /\ Current(a).root # ZeroRoot
         /\ reply' = WordOf(Current(a), i)
         /\ \A b \in Key : Current(b)' = Current(b)
<1> DEFINE root  == Current(a).root
           store == Opened(a, root)
           word  == IF store.words[i] = NotCached THEN StorageOf[root][i] ELSE store.words[i]
<1>1. /\ root # ZeroRoot
      /\ WithAcc(a, Current(a), FALSE)
      /\ storages' = [storages EXCEPT ![a] = [root |-> store.root, words |-> [store.words EXCEPT ![i] = word]]]
      /\ reply' = <<"word", word>>
  BY DEF get_state
<1>2. Current(a) \in Account /\ StateTypeOK /\ CacheCoherent
  BY CurrentType DEF StateInv
<1>3. root \in Root
  BY <1>2 DEF Account
<1>4. root = Current(a).root
  OBVIOUS
<1>5. /\ store \in [root : Root, words : [Slot -> Word \cup {NotCached}]]
      /\ store.root = root
      /\ \A j \in Slot : store.words[j] \in {NotCached, StorageOf[root][j]}
  <2> HIDE DEF root
  <2> QED
    BY <1>3, <1>4, OpenedAtRoot
<1>6. word = StorageOf[root][i] /\ word \in Word
  <2>1. StorageOf[root] \in [Slot -> Word]
    <3> HIDE DEF root
    <3> QED
      BY <1>1, <1>3, AccountAssumption
  <2>2. word = StorageOf[root][i]
    <3> HIDE DEF root, store
    <3> QED
      BY <1>5
  <2> QED
    BY <2>1, <2>2
<1> HIDE DEF root, store, word
<1>7. /\ Current(a)' = Current(a)
      /\ \A b \in Key : b # a => Current(b)' = Current(b)
      /\ cache'[a] = Current(a)
      /\ \A b \in Key : b # a => cache'[b] = cache[b]
      /\ map' = map /\ answer' \in Value \cup {NoValue}
      /\ cache' \in [Key -> Account \cup {NotCached}]
      /\ dirty' \subseteq dirty \cup {a} /\ pending' = {}
  BY <1>1, <1>2, WithAccEffect
<1>8. CacheCoherent'
  BY <1>1, <1>2, WithAccCoherent
<1> DEFINE opened == [root |-> store.root, words |-> [store.words EXCEPT ![i] = word]]
<1>9. /\ opened \in [root : Root, words : [Slot -> Word \cup {NotCached}]]
      /\ opened.root = root
      /\ \A j \in Slot : opened.words[j] \in {NotCached, StorageOf[root][j]}
  BY <1>3, <1>5, <1>6
<1>10. storages' = [storages EXCEPT ![a] = opened]
  BY <1>1
<1> HIDE DEF opened
<1>11. StateTypeOK'
  BY <1>2, <1>7, <1>9, <1>10 DEF StateTypeOK
<1>12. storages'[a] = opened /\ \A b \in Key : b # a => storages'[b] = storages[b]
  BY <1>2, <1>10 DEF StateTypeOK
<1>13. StorageFresh'
  <2> SUFFICES ASSUME NEW b \in Key, storages'[b] # NotCached
               PROVE  /\ cache'[b] # NotCached
                      /\ storages'[b].root = cache'[b].root
                      /\ cache'[b].root # ZeroRoot
                      /\ \A j \in Slot : storages'[b].words[j] \in {NotCached, StorageOf[cache'[b].root][j]}
    BY DEF StorageFresh
  <2>1. CASE b = a
    <3>1. cache'[a] # NotCached
      BY <1>2, <1>7, StateAssumption
    <3> QED
      BY <1>1, <1>4, <1>7, <1>9, <1>12, <2>1, <3>1
  <2>2. CASE b # a
    BY <1>7, <1>12, <2>2 DEF StateInv, StorageFresh
  <2> QED
    BY <2>1, <2>2
<1>14. reply' = WordOf(Current(a), i)
  BY <1>1, <1>4, <1>6 DEF WordOf
<1> QED
  BY <1>1, <1>4, <1>7, <1>8, <1>11, <1>13, <1>14 DEF StateInv

----------------------------------------------------------------------------
(* The flush. *)

LEMMA FlushBegins ==
  ASSUME StateInv, FlushBegin
  PROVE  StateInv' /\ UNCHANGED reply /\ \A b \in Key : Current(b)' = Current(b)
  BY DEF StateInv, StateTypeOK, CacheCoherent, StorageFresh, FlushBegin, Current, mapVars

\* Reading back what was encoded for an account gives the account.
LEMMA EncodedDecoded ==
  ASSUME NEW acc \in Account
  PROVE  Encode(acc) \in Value \cup {NoValue} /\ Decode(Encode(acc)) = acc
  BY StateAssumption DEF Encode, Decode

\* One update of a flush makes the trie agree with one account and changes no account.
LEMMA FlushStepInv ==
  ASSUME StateInv, FlushStep
  PROVE  StateInv' /\ UNCHANGED reply /\ \A b \in Key : Current(b)' = Current(b)
<1> DEFINE a == Max(pending)
<1>1. StateTypeOK /\ CacheCoherent /\ StorageFresh
  BY DEF StateInv
<1>2. a \in pending /\ pending \subseteq dirty /\ dirty \subseteq Key
  <2>1. pending # {} /\ pending \subseteq Key
    BY <1>1 DEF FlushStep, StateTypeOK
  <2> QED
    BY <1>1, <2>1, MaxAddressed DEF StateTypeOK
<1>3. /\ IF Encode(cache[a]) = NoValue THEN MapRemove(a) ELSE MapPut(a, Encode(cache[a]))
      /\ pending' = pending \ {a}
      /\ dirty' = IF pending' = {} THEN {} ELSE dirty
      /\ UNCHANGED <<cache, storages, reply>>
  BY DEF FlushStep
<1> HIDE DEF a
<1>4. cache[a] \in Account /\ a \in Key
  BY <1>1, <1>2 DEF StateTypeOK, CacheCoherent
<1>5. map' = [map EXCEPT ![a] = Encode(cache[a])] /\ answer' = answer
  BY <1>3 DEF MapRemove, MapPut
<1>6. /\ map' \in [Key -> Value \cup {NoValue}]
      /\ Decode(map'[a]) = cache[a]
      /\ \A b \in Key : b # a => map'[b] = map[b]
  BY <1>1, <1>4, <1>5, EncodedDecoded DEF StateTypeOK
<1>7. Current(a) = cache[a] /\ \A b \in Key : Current(b)' = Current(b)
  <2>1. cache[a] # NotCached
    BY <1>4, StateAssumption
  <2> QED
    BY <1>3, <1>6, <2>1 DEF Current
<1>8. StateTypeOK'
  BY <1>1, <1>2, <1>3, <1>5, <1>6 DEF StateTypeOK
<1>9. CacheCoherent'
  <2> SUFFICES ASSUME NEW b \in Key
               PROVE  /\ b \in dirty' => cache'[b] # NotCached
                      /\ b \in pending' \/ (pending' = {} /\ b \in dirty') \/ Current(b)' = Decode(map'[b])
    BY DEF CacheCoherent, Decode
  <2>1. b \in dirty' => cache'[b] # NotCached
    BY <1>1, <1>3 DEF CacheCoherent
  <2>2. CASE b = a
    BY <1>6, <1>7, <2>1, <2>2
  <2>3. CASE b # a
    <3>1. b \in pending \/ Current(b) = Decode(map[b])
      BY <1>1, <1>2 DEF CacheCoherent
    <3> QED
      BY <1>3, <1>6, <1>7, <2>1, <2>3, <3>1
  <2> QED
    BY <2>2, <2>3
<1>10. StorageFresh'
  BY <1>1, <1>3 DEF StorageFresh
<1> QED
  BY <1>3, <1>7, <1>8, <1>9, <1>10 DEF StateInv

----------------------------------------------------------------------------
LEMMA StateInitInv ==
  ASSUME StateInit
  PROVE  StateInv
<1>1. StateTypeOK
  <2>1. map \in [Key -> Value \cup {NoValue}]
    BY StateAssumption DEF StateInit
  <2> QED
    BY <2>1 DEF StateInit, StateTypeOK
<1>2. CacheCoherent /\ StorageFresh
  BY DEF StateInit, CacheCoherent, StorageFresh, Current
<1> QED
  BY <1>1, <1>2 DEF StateInv

LEMMA StateStepInv ==
  ASSUME StateInv, [StateNext]_stateVars
  PROVE  StateInv'
<1>1. ASSUME NEW a \in Key, get_account_basic(a) \/ exist(a) \/ get_code(a)
      PROVE  StateInv'
  <2>1. \E r : Ask(a, r)
    BY <1>1 DEF get_account_basic, exist, get_code
  <2> QED
    BY <2>1, Asked
<1>2. CASE UNCHANGED stateVars
  BY <1>2 DEF StateInv, StateTypeOK, CacheCoherent, StorageFresh, Current, stateVars
<1> QED
  BY <1>1, <1>2, Added, Subtracted, NonceSet, WordRead, FlushBegins, FlushStepInv DEF StateNext

\* Every variable of the state database keeps its type: no balance leaves its bounds, and
\* only what is dirty waits to be written (ZkTrieState).
THEOREM StateTypeCorrect == StateSpec => []StateTypeOK
<1>1. StateInv => StateTypeOK
  BY DEF StateInv
<1> QED
  BY <1>1, StateInitInv, StateStepInv, PTL DEF StateSpec

\* An account that differs from its leaf is marked until it is written (TrieCache::with_key,
\* flush).
THEOREM CachesStayCoherent == StateSpec => []CacheCoherent
<1>1. StateInv => CacheCoherent
  BY DEF StateInv
<1> QED
  BY <1>1, StateInitInv, StateStepInv, PTL DEF StateSpec

\* The cached words of an account are words of its storage trie (with_storage).
THEOREM StorageStaysFresh == StateSpec => []StorageFresh
<1>1. StateInv => StorageFresh
  BY DEF StateInv
<1> QED
  BY <1>1, StateInitInv, StateStepInv, PTL DEF StateSpec

----------------------------------------------------------------------------
(* The refinement. *)

LEMMA LedgerInitialised ==
  ASSUME StateInit
  PROVE  Ledger!LedgerInit
<1>1. StateTypeOK
  BY StateInitInv DEF StateInv
<1> QED
  BY <1>1, CurrentType DEF StateInit, Account, Ledger!LedgerInit, Ledger!Account

\* Accounts that all stay as they are are the ledger unchanged.
LEMMA LedgerKept ==
  ASSUME \A b \in Key : Current(b)' = Current(b)
  PROVE  UNCHANGED [b \in Key |-> Current(b)]
  OBVIOUS

\* A change of one account, and of no other, is one of the ledger.
LEMMA LedgerBecomes ==
  ASSUME NEW a \in Key, NEW acc, ChangesTo(a, acc)
  PROVE  Ledger!Become(a, acc)
<1>1. [b \in Key |-> Current(b)]' = [[b \in Key |-> Current(b)] EXCEPT ![a] = acc]
  BY DEF ChangesTo
<1> QED
  BY <1>1 DEF ChangesTo, Ledger!Become, Ledger!Account, Account

\* An answer that leaves the accounts alone is one of the ledger.
LEMMA LedgerAnswers ==
  ASSUME StateInv, NEW a \in Key, NEW r, Ask(a, r)
  PROVE  Ledger!Answer(r)
<1>1. reply' = r /\ UNCHANGED [b \in Key |-> Current(b)]
  BY Asked, LedgerKept
<1> QED
  BY <1>1 DEF Ledger!Answer

\* What a call does to the account of its address, and what it answers about it.
LEMMA LedgerCalls ==
  ASSUME StateInv, NEW a \in Key
  PROVE  /\ \A v \in 0..MaxBalance :
               /\ add_balance(a, v) => Ledger!AddBalance(a, v)
               /\ sub_balance(a, v) => Ledger!SubBalance(a, v)
         /\ \A n \in 0..MaxNonce : set_nonce(a, n) => Ledger!SetNonce(a, n)
         /\ get_account_basic(a) => Ledger!TellBasic(a)
         /\ exist(a) => Ledger!TellExist(a)
         /\ get_code(a) => Ledger!TellCode(a)
         /\ \A i \in Slot : get_state(a, i) => Ledger!TellWord(a, i)
<1>1. [b \in Key |-> Current(b)][a] = Current(a)
  OBVIOUS
<1>2. ASSUME NEW v \in 0..MaxBalance, add_balance(a, v)
      PROVE  Ledger!AddBalance(a, v)
  <2>1. Ledger!Become(a, WithBalance(Current(a), Current(a).balance + v))
    BY <1>2, Added, LedgerBecomes
  <2> QED
    BY <1>1, <2>1 DEF Ledger!AddBalance, Ledger!WithBalance, WithBalance
<1>3. ASSUME NEW v \in 0..MaxBalance, sub_balance(a, v)
      PROVE  Ledger!SubBalance(a, v)
  <2>1. Ledger!Become(a, WithBalance(Current(a), Current(a).balance - v))
    BY <1>3, Subtracted, LedgerBecomes
  <2> QED
    BY <1>1, <2>1 DEF Ledger!SubBalance, Ledger!WithBalance, WithBalance
<1>4. ASSUME NEW n \in 0..MaxNonce, set_nonce(a, n)
      PROVE  Ledger!SetNonce(a, n)
  <2>1. Ledger!Become(a, WithNonce(Current(a), n))
    BY <1>4, NonceSet, LedgerBecomes
  <2> QED
    BY <1>1, <2>1 DEF Ledger!SetNonce, Ledger!WithNonce, WithNonce
<1>5. ASSUME get_account_basic(a)
      PROVE  Ledger!TellBasic(a)
  <2>1. Ledger!Answer(BasicOf(Current(a)))
    BY <1>5, LedgerAnswers DEF get_account_basic
  <2> QED
    BY <1>1, <2>1 DEF Ledger!TellBasic, Ledger!BasicOf, BasicOf
<1>6. ASSUME exist(a)
      PROVE  Ledger!TellExist(a)
  <2>1. Ledger!Answer(ExistOf(Current(a)))
    BY <1>6, LedgerAnswers DEF exist
  <2> QED
    BY <1>1, <2>1 DEF Ledger!TellExist, Ledger!ExistOf, ExistOf, Ledger!EmptyAccount, EmptyAccount
<1>7. ASSUME get_code(a)
      PROVE  Ledger!TellCode(a)
  <2>1. Ledger!Answer(CodeOf(Current(a)))
    BY <1>7, LedgerAnswers DEF get_code
  <2> QED
    BY <1>1, <2>1 DEF Ledger!TellCode, Ledger!CodeOf, CodeOf
<1>8. ASSUME NEW i \in Slot, get_state(a, i)
      PROVE  Ledger!TellWord(a, i)
  <2>1. /\ reply' = WordOf(Current(a), i)
        /\ Current(a).root # ZeroRoot
        /\ UNCHANGED [b \in Key |-> Current(b)]
    BY <1>8, WordRead, LedgerKept
  <2> QED
    BY <1>1, <2>1 DEF Ledger!TellWord, Ledger!Answer, Ledger!WordOf, WordOf
<1> QED
  BY <1>2, <1>3, <1>4, <1>5, <1>6, <1>7, <1>8

\* A flush, its beginning and a step that changes nothing leave the ledger as it is.
LEMMA LedgerStep ==
  ASSUME StateInv, [StateNext]_stateVars
  PROVE  [Ledger!LedgerNext]_(Ledger!ledgerVars)
<1> USE DEF Ledger!ledgerVars
<1>1. ASSUME NEW a \in Key
      PROVE  /\ \A v \in 0..MaxBalance : add_balance(a, v) \/ sub_balance(a, v) => Ledger!LedgerNext
             /\ \A n \in 0..MaxNonce : set_nonce(a, n) => Ledger!LedgerNext
             /\ get_account_basic(a) \/ exist(a) \/ get_code(a) => Ledger!LedgerNext
             /\ \A i \in Slot : get_state(a, i) => Ledger!LedgerNext
  BY LedgerCalls DEF Ledger!LedgerNext
<1>2. CASE FlushBegin
  BY <1>2, FlushBegins, LedgerKept
<1>3. CASE FlushStep
  BY <1>3, FlushStepInv, LedgerKept
<1>4. CASE UNCHANGED stateVars
  BY <1>4 DEF stateVars, Current
<1> QED
  BY <1>1, <1>2, <1>3, <1>4 DEF StateNext

\* ZkTrieState over its caches behaves like accounts without caches: no operation of
\* zktrie_state.rs answers from a stale cache and no flush changes an answer.
THEOREM LedgerImplemented == StateSpec => ImplementsLedger
<1>1. StateInv /\ [StateNext]_stateVars =>
         [ \A a \in Key :
              /\ \A v \in 0..MaxBalance :
                    /\ add_balance(a, v) => Ledger!AddBalance(a, v)
                    /\ sub_balance(a, v) => Ledger!SubBalance(a, v)
              /\ \A n \in 0..MaxNonce : set_nonce(a, n) => Ledger!SetNonce(a, n)
              /\ get_account_basic(a) => Ledger!TellBasic(a)
              /\ exist(a) => Ledger!TellExist(a)
              /\ get_code(a) => Ledger!TellCode(a)
              /\ \A i \in Slot : get_state(a, i) => Ledger!TellWord(a, i) ]_stateVars
  BY LedgerCalls
<1> QED
  BY <1>1, StateInitInv, StateStepInv, LedgerInitialised, LedgerStep, PTL
     DEF StateSpec, ImplementsLedger, Ledger!LedgerSpec
=============================================================================

---------------------------- MODULE AccountLedger ----------------------------
(***************************************************************************)
(* What the state database promises to the execution of a block: accounts  *)
(* that change when they are told to and answer with their last value.     *)
(* Nothing here is read ahead, kept back or written later.                 *)
(***************************************************************************)
EXTENDS ZkStateAccount

CONSTANT Key   \* addresses

VARIABLES
    ledger,   \* the account of every address
    reply     \* the answer to the last question

ledgerVars == <<ledger, reply>>

----------------------------------------------------------------------------
Become(a, acc) ==
    /\ acc \in Account
    /\ ledger' = [ledger EXCEPT ![a] = acc]
    /\ UNCHANGED reply

Answer(r) == reply' = r /\ UNCHANGED ledger

LedgerInit == ledger \in [Key -> Account] /\ reply = <<"nothing asked">>

AddBalance(a, v) == Become(a, WithBalance(ledger[a], ledger[a].balance + v))
SubBalance(a, v) == Become(a, WithBalance(ledger[a], ledger[a].balance - v))
SetNonce(a, n)   == Become(a, WithNonce(ledger[a], n))

TellBasic(a)   == Answer(BasicOf(ledger[a]))
TellExist(a)   == Answer(ExistOf(ledger[a]))
TellCode(a)    == Answer(CodeOf(ledger[a]))
TellWord(a, i) == ledger[a].root # ZeroRoot /\ Answer(WordOf(ledger[a], i))

LedgerNext ==
    \E a \in Key :
       \/ \E v \in 0..MaxBalance : AddBalance(a, v) \/ SubBalance(a, v)
       \/ \E n \in 0..MaxNonce : SetNonce(a, n)
       \/ TellBasic(a)
       \/ TellExist(a)
       \/ TellCode(a)
       \/ \E i \in Slot : TellWord(a, i)

LedgerSpec == LedgerInit /\ [][LedgerNext]_ledgerVars
=============================================================================

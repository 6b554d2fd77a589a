--------------------------- MODULE AttestedSigner ---------------------------
(***************************************************************************)
(* What Prover promises the batch-task thread, without threads, RPCs,      *)
(* clocks or transactions: keys get registered and stay so; the active key *)
(* is replaced only by a registered one; the gate opens only while the     *)
(* active key is registered; and a batch that passed the gate is signed    *)
(* with a registered key.                                                  *)
(***************************************************************************)
CONSTANT Key

VARIABLES
    active,      \* the key that signs
    open,        \* whether the gate lets a batch through
    registered,  \* the keys the contract knows
    gatedSigners \* the keys that signed a batch that passed the gate

signerVars == <<active, open, registered, gatedSigners>>

Register(k) ==
    /\ registered' = registered \cup {k}
    /\ UNCHANGED <<active, open, gatedSigners>>

Activate(k) ==
    /\ k \in registered
    /\ active' = k
    /\ UNCHANGED <<open, registered, gatedSigners>>

Open ==
    /\ active \in registered
    /\ open' = TRUE
    /\ UNCHANGED <<active, registered, gatedSigners>>

Close ==
    /\ open' = FALSE
    /\ UNCHANGED <<active, registered, gatedSigners>>

SignGated ==
    /\ active \in registered
    /\ gatedSigners' = gatedSigners \cup {active}
    /\ UNCHANGED <<active, open, registered>>

SignerInit ==
    /\ active \in Key
    /\ open = FALSE
    /\ registered = {}
    /\ gatedSigners = {}

SignerNext ==
    \/ \E k \in Key : Register(k) \/ Activate(k)
    \/ Open
    \/ Close
    \/ SignGated

SignerSpec == SignerInit /\ [][SignerNext]_signerVars
=============================================================================

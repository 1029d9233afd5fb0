--------------------------- MODULE MultisigWallet ---------------------------
(***************************************************************************)
(* What a multisig wallet promises: transactions are proposed for a        *)
(* sequence, owners sign them, and the chain takes, in the order of the    *)
(* sequences and once each, transactions that enough owners have signed.   *)
(* No queue, statuses, requests, failures or synchronisation: TxHandlers   *)
(* implements this specification with all of them (see TxProperties).      *)
(***************************************************************************)
EXTENDS Naturals

CONSTANTS
    Owners,         \* owners of the safe
    Quorums,        \* sets of owners that are enough to sign
    Txs             \* the transactions

VARIABLES
    proposed,       \* transactions that were created
    seq,            \* the account sequence each is for
    signed,         \* the owners who signed each
    taken,          \* transactions the chain took
    next            \* the sequence the chain takes next

vars == <<proposed, seq, signed, taken, next>>

Init ==
    /\ proposed = {}
    /\ seq = [t \in Txs |-> 0]
    /\ signed = [t \in Txs |-> {}]
    /\ taken = {}
    /\ next = 0

\* createMultisigTransaction and changeSequence
Propose(t) ==
    /\ t \notin proposed
    /\ proposed' = proposed \union {t}
    /\ seq'[t] \in Nat /\ seq' = [seq EXCEPT ![t] = seq'[t]]
    /\ UNCHANGED <<signed, taken, next>>

\* createMultisigTransaction and confirmMultisigTransaction
Sign(t, u) ==
    /\ t \in proposed
    /\ u \notin signed[t]
    /\ signed' = [signed EXCEPT ![t] = @ \union {u}]
    /\ UNCHANGED <<proposed, seq, taken, next>>

\* sendMultisigTransaction and the node it broadcasts to
Take(t) ==
    /\ t \in proposed \ taken
    /\ seq[t] = next
    /\ signed[t] \in Quorums
    /\ taken' = taken \union {t}
    /\ next' = next + 1
    /\ UNCHANGED <<proposed, seq, signed>>

Next == \E t \in Txs : Propose(t) \/ Take(t) \/ \E u \in Owners : Sign(t, u)

Spec == Init /\ [][Next]_vars
=============================================================================

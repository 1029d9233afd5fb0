------------------------------ MODULE TxViews ------------------------------
(***************************************************************************)
(* What clients see of a safe's transactions: the queue and the history    *)
(* (getTransactionHistory with isHistory false and true) and the tag they  *)
(* poll to learn that the queue has changed.                               *)
(***************************************************************************)
EXTENDS TxProperties

\* getQueueTransaction
InQueue(t) == tx[t].status \in Queued \union {"PENDING"}

\* External: for each transaction in a block the synchronisation service stores a
\* row of AuraTx and one of TransactionHistory under its hash.
InBlock(t) == chain[t] \in {"ok", "failed"}

\* The two SELECTs of getTxHistoryBySafeAddress: rows of the chain, joined with the
\* transaction that has their hash, and transactions that never got a hash.
InHistory(t) ==
    \/ tx[t].hash /\ InBlock(t)
    \/ /\ ~tx[t].hash
       /\ tx[t].status \in {"CANCELLED", "SUCCESS", "FAILED", "REPLACED", "DELETED"}

\* No transaction vanishes: whatever happened to it, a client finds it in the
\* queue or in the history, or it waits in the mempool.  It is in the history by
\* its hash or by having none, so a row with a hash that is not the chain's is in
\* neither.
StaysVisible ==
    \A t \in Txs : tx[t].status # "NONE" =>
        InQueue(t) \/ InHistory(t) \/ chain[t] = "mempool"

\* A confirm, reject or delete that ran to its end leaves the tag at the time it
\* was last set.  Reject and delete save the whole safe row after they set the tag,
\* so this needs the entity they save to be read after it.  (create and send save
\* an entity from before, and the tag with it.)
TagMovesWithQueue ==
    [][\A r \in Reqs :
            /\ job[r].op \in {"confirm", "reject", "delete"}
            /\ \/ At(r, "bumpTag") /\ job[r].op = "confirm"
               \/ At(r, "saveSafe")
            /\ pc'[r] = "done"
            => safe'.queuedTag = stamps'.queued]_vars
=============================================================================

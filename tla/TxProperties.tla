---------------------------- MODULE TxProperties ----------------------------
(* What the handlers of TxHandlers are to keep true of one safe's queue. *)
EXTENDS TxHandlers

\* The owners whose signature or refusal of t is recorded.
Signers(t) == OwnersOf(Confirms(t))
Accepted(t) == chain[t] # "none"
Handling(t, ops) == \E r \in InFlight : job[r].tx = t /\ job[r].op \in ops
Quiet == InFlight = {}

-----------------------------------------------------------------------------
(* Invariants that hold whatever the interleaving of the handlers. *)

\* A transaction is AWAITING_EXECUTION only if threshold-many CONFIRM rows were
\* recorded for it: isExecutable counted them before the status was written, and
\* no handler takes a row back.
ExecutableHasThreshold ==
    \A t \in Txs : tx[t].status = "AWAITING_EXECUTION" => Executable(t)

\* Votes are inserted and counted in separate awaits, so two owners may count
\* before, between or after each other's inserts.  Still no threshold is lost:
\* if a transaction collected it and is AWAITING_CONFIRMATIONS, a handler is on
\* its way from its own insert to the status (unless a handler stopped there).
NoLostThreshold ==
    failures = 0 =>
        \A t \in Txs :
            tx[t].status = "AWAITING_CONFIRMATIONS" /\ Executable(t) =>
                \E r \in Reqs : /\ job[r].tx = t
                                /\ pc[r] \in {"countConfirms", "loadTx", "saveExecutable"}

\* A row says PENDING or SUCCESS, or shows a TxHash, only for a transaction the
\* chain accepted: send records the hash after the node answered with it, and
\* entities saved late carry no hash that was not recorded.
RecordedIsAccepted ==
    \A t \in Txs :
        tx[t].hash \/ tx[t].status \in {"PENDING", "SUCCESS"} => Accepted(t)

\* Sending marks transactions REPLACED only because another one, or the sent one
\* itself, took their sequence on the chain.
ReplacedLostItsSequence ==
    \A t \in Txs : tx[t].status = "REPLACED" =>
        \E u \in Txs : Accepted(u) /\ tx[u].seq = tx[t].seq

\* The sequence the safe row shows is never ahead of the chain, although it is
\* computed from a transaction and written by entities of different age.
SafeSequenceBehindChain == safe.sequence <= account.next

-----------------------------------------------------------------------------
(* Invariants of handlers that run one after the other. *)

\* Each owner has at most one recorded opinion (CONFIRM or REJECT) on a
\* transaction: checkUserHasSigned, "Check user has rejected transaction before".
OneOpinionPerOwner ==
    \A v, w \in votes :
        /\ v.tx = w.tx /\ v.owner = w.owner
        /\ v.kind # "SEND" /\ w.kind # "SEND"
        => v = w

\* A transaction is CANCELLED only when the owners who have not rejected it are
\* fewer than the threshold, so that it cannot collect enough confirmations any more:
\* rejectMultisigTransaction counts rows, and these are of different owners.  This is
\* the rule of the code; its comment has the other one that follows.
CancelledIsHopeless ==
    \A t \in Txs : tx[t].status = "CANCELLED" =>
        Cardinality(Owners \ OwnersOf(Rejects(t))) < Threshold

\* The comment on the condition in rejectMultisigTransaction: "if number of reject >
\* number of owner / 2 => reject transaction".  The code cancels with fewer when the
\* threshold is high, and needs more when it is low.
CancelledByMajority ==
    \A t \in Txs : tx[t].status = "CANCELLED" =>
        2 * Cardinality(OwnersOf(Rejects(t))) > Cardinality(Owners)

\* REPLACED is for the other transactions of the sequence: the one that was sent
\* keeps its own status.
SentIsNotReplaced ==
    \A t \in Txs : tx[t].status = "REPLACED" => ~Accepted(t)

\* The description of the send API: "When it success, update transaction txHash
\* to DB".  When no send of t is running, an accepted t has its TxHash.
AcceptedIsRecorded ==
    \A t \in Txs : Accepted(t) /\ ~Handling(t, {"send"}) => tx[t].hash

\* The description of the confirm API: "When transaction meet threshold, it
\* changes to status AWAITING_EXECUTION ready to broadcast to network".
ExecutableIsReady ==
    \A t \in Txs : tx[t].status = "AWAITING_EXECUTION" /\ ~Handling(t, {"send"}) =>
        ~Accepted(t)

\* When all handlers are done, the safe suggests a sequence that no queued
\* transaction has.  This is while owners create, confirm, reject, renumber and
\* withdraw transactions: after one became ready to execute, a late confirmation
\* may put a withdrawn one back in the queue behind the suggestion's back.
Planning ==
    /\ ~\E v \in votes : v.kind = "SEND"
    /\ \A t \in Txs : tx[t].status # "AWAITING_EXECUTION"

SuggestionIsFree == Quiet /\ Planning => safe.nextQueueSeq \notin QueueSeqs

-----------------------------------------------------------------------------
(* Action properties. *)

\* The safe's sequence only grows.
SafeSequenceAdvances == [][safe'.sequence >= safe.sequence]_vars

\* What the chain accepted under a recorded hash stays recorded.
HashStays == [][\A t \in Txs : tx[t].hash => tx'[t].hash]_vars

-----------------------------------------------------------------------------
(* Liveness, under FairSpec. *)

\* A transaction with threshold-many confirmations does not stay among those
\* that wait for confirmations, whichever handlers race for the last one, unless
\* a handler stops halfway.
ThresholdIsNoticed ==
    \A t \in Txs :
        (tx[t].status = "AWAITING_CONFIRMATIONS" /\ Executable(t))
            ~> (tx[t].status # "AWAITING_CONFIRMATIONS" \/ failures > 0)

-----------------------------------------------------------------------------
(* Refinement. *)

Wallet == INSTANCE MultisigWallet WITH
    Quorums <- {Q \in SUBSET Owners : Cardinality(Q) >= Threshold},
    proposed <- {t \in Txs : tx[t].status # "NONE"},
    seq <- [t \in Txs |-> tx[t].seq],
    signed <- [t \in Txs |-> Signers(t)],
    taken <- {t \in Txs : Accepted(t)},
    next <- account.next

\* Whatever the requests, their interleaving, late saves and failures, the safe is
\* a multisig wallet: a transaction keeps the sequence it was created for, a
\* signature is never taken back, and a broadcast that the chain takes is in its
\* turn and carries the signatures of threshold-many different owners, although
\* isExecutable counts rows and two rows may be of one owner.
ImplementsWallet == Wallet!Spec
=============================================================================

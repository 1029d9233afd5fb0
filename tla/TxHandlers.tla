----------------------------- MODULE TxHandlers -----------------------------
(***************************************************************************)
(* The handlers of MultisigTransactionService that change state: create,   *)
(* confirm, reject, delete, changeSequence and send, for the transactions  *)
(* of one safe, at the granularity of their awaits.                        *)
(*                                                                         *)
(* A handler is an async function; each await is one statement on MySQL,   *)
(* outside any database transaction, or one call to another service, and   *)
(* other handlers run while it waits.  So each action below is one await   *)
(* with the code up to the next one, pc[r] names the await request r       *)
(* reaches next, and what the handler carries in local variables across    *)
(* awaits is in mem[r].                                                    *)
(*                                                                         *)
(* TypeORM's save(entity) updates every column whose value in the entity   *)
(* differs from the row.  A save of an entity that was read earlier thus   *)
(* makes the row what it was at the read, plus the handler's assignments:  *)
(* that is how SaveExecutable, Cancel, SaveFailed and SaveSafe write.      *)
(*                                                                         *)
(* Reads of what never changes for a safe in use (chain, owners, threshold *)
(* and pubkey) and checks that end a handler before it has any effect are  *)
(* in the guard of the action that starts it.  Notifications and the       *)
(* decoded messages of a transaction are not in this module.               *)
(*                                                                         *)
(* A definition whose name starts with Mutant is not part of the model: it *)
(* is the definition after it with a plausible bug, kept to check that the *)
(* properties notice the bug.                                              *)
(***************************************************************************)
EXTENDS NextSeq

CONSTANTS
    Owners,         \* owners of the safe
    Threshold,      \* signatures the safe's key asks for
    Txs,            \* row ids of MultisigTransaction, given out in order
    Reqs,           \* requests, numbered in the order they arrive
    None,           \* stands for no owner and no transaction
    Ops,            \* the handlers that clients call
    AskedSeqs,      \* values of request.sequence; 0 stands for "not given"
    Outcomes,       \* how a broadcast the chain would take may end
    IndexerLag,     \* how many transactions the indexer may be behind the chain
    MaxInFlight,    \* bound on the handlers that run at the same time
    MaxFailures     \* bound on the handlers that stop at an await

ASSUME TxHandlersAssumption ==
    /\ IsFiniteSet(Owners)
    /\ Threshold \in 1..Cardinality(Owners)
    /\ IsFiniteSet(Txs) /\ Txs \subseteq Nat
    /\ IsFiniteSet(Reqs) /\ Reqs \subseteq Nat
    /\ None \notin Owners \union Txs
    /\ Ops \subseteq {"create", "confirm", "reject", "delete", "change", "send"}
    /\ AskedSeqs \subseteq Nat
    /\ Outcomes \subseteq {"timeout", "included", "refused", "lost"}
    /\ IndexerLag \in Nat
    /\ MaxInFlight \in Nat
    /\ MaxFailures \in Nat

VARIABLES
    tx,         \* table MultisigTransaction: status, sequence, TxHash present
    votes,      \* table MultisigConfirm; copy tells otherwise equal rows apart
    safe,       \* the row of table Safe
    stamps,     \* how often TxQueuedTag and TxHistoryTag were set anew
    chain,      \* external: what the chain did with each transaction
    account,    \* external: the safe's account sequence, see Init
    pc,         \* the await each request reaches next
    job,        \* what each request asks for
    mem,        \* what each handler read and will use later
    failures    \* handlers that stopped at an await

rows == <<tx, votes, safe, stamps>>
network == <<chain, account>>
vars == <<tx, votes, safe, stamps, chain, account, pc, job, mem, failures>>

-----------------------------------------------------------------------------

Queued == {"AWAITING_CONFIRMATIONS", "AWAITING_EXECUTION"}
Statuses == Queued \union {"NONE", "PENDING", "SUCCESS", "FAILED", "CANCELLED",
                           "REPLACED", "DELETED"}
Kinds == {"CONFIRM", "REJECT", "SEND"}
Labels == {"idle", "readSafe", "insertTx", "checkSigned", "insertVote",
           "countConfirms", "loadTx", "saveExecutable", "countRejects", "cancel",
           "deleteRow", "bumpTag", "rereadSafe", "readIndexer", "readSigs",
           "broadcast", "savePending", "replace", "saveFailed", "readQueue",
           "saveSafe", "done"}

SafeRow == [nextQueueSeq : Nat, sequence : Nat, queuedTag : Nat, historyTag : Nat]
NewSafe == [nextQueueSeq |-> 0, sequence |-> 0, queuedTag |-> 0, historyTag |-> 0]
NoJob == [op |-> "none", user |-> None, tx |-> None, ask |-> 0]
NoMem == [safe |-> NewSafe, hash |-> FALSE, base |-> 0, valid |-> FALSE]

TxRow == [status : Statuses, seq : Nat, hash : BOOLEAN]
Job == [op : Ops \union {"none", "create"}, user : Owners \union {None},
        tx : Txs \union {None}, ask : Nat]
Mem == [safe : SafeRow, hash : BOOLEAN, base : Nat, valid : BOOLEAN]

TypeOK ==
    /\ tx \in [Txs -> TxRow]
    /\ votes \subseteq [tx : Txs, owner : Owners, kind : Kinds, copy : Nat]
    /\ safe \in SafeRow
    /\ stamps \in [queued : Nat, history : Nat]
    /\ chain \in [Txs -> {"none", "mempool", "ok", "failed"}]
    /\ account \in [next : Nat, committed : Nat]
    /\ pc \in [Reqs -> Labels]
    /\ job \in [Reqs -> Job]
    /\ mem \in [Reqs -> Mem]
    /\ failures \in Nat

\* A safe whose account exists on the chain with sequence 0.  account.next is
\* the sequence the mempool expects, account.committed the one in the last block.
Init ==
    /\ tx = [t \in Txs |-> [status |-> "NONE", seq |-> 0, hash |-> FALSE]]
    /\ votes = {}
    /\ safe = NewSafe
    /\ stamps = [queued |-> 0, history |-> 0]
    /\ chain = [t \in Txs |-> "none"]
    /\ account = [next |-> 0, committed |-> 0]
    /\ pc = [r \in Reqs |-> "idle"]
    /\ job = [r \in Reqs |-> NoJob]
    /\ mem = [r \in Reqs |-> NoMem]
    /\ failures = 0

-----------------------------------------------------------------------------
(* Queries of the repositories. *)

Rows(t, kind) == {v \in votes : v.tx = t /\ v.kind = kind}
Confirms(t) == Rows(t, "CONFIRM")           \* getListConfirmMultisigTransaction
Rejects(t) == Rows(t, "REJECT")             \* getRejects
OwnersOf(V) == {v.owner : v \in V}
MutantHasSigned(t, u) == \E v \in Confirms(t) : v.owner = u
HasSigned(t, u) == \E v \in votes : v.tx = t /\ v.owner = u
Executable(t) == Cardinality(Confirms(t)) >= Threshold      \* isExecutable
QueueSeqs == {tx[t].seq : t \in {u \in Txs : tx[u].status \in Queued}}

InFlight == {r \in Reqs : pc[r] \notin {"idle", "done"}}

-----------------------------------------------------------------------------
(* Control flow of a handler. *)

At(r, label) == pc[r] = label
Goto(r, label) == pc' = [pc EXCEPT ![r] = label]
Finish(r) ==
    /\ Goto(r, "done")
    /\ job' = [job EXCEPT ![r] = NoJob]
    /\ mem' = [mem EXCEPT ![r] = NoMem]

Begin(r, op, u, t, ask, label) ==
    /\ At(r, "idle")
    /\ \A q \in Reqs : q < r => ~At(q, "idle")
    /\ Cardinality(InFlight) < MaxInFlight
    /\ op \in Ops
    /\ Goto(r, label)
    /\ job' = [job EXCEPT ![r] = [op |-> op, user |-> u, tx |-> t, ask |-> ask]]
    /\ UNCHANGED <<rows, network, failures>>

\* The trigger updateHistoryTag on an UPDATE of a MultisigTransaction row.
Store(t, row) ==
    LET fires == row # tx[t] /\ row.status \in {"SUCCESS", "FAILED", "CANCELLED"}
        n == stamps.history + 1
    IN  /\ tx' = [tx EXCEPT ![t] = row]
        /\ stamps' = IF fires THEN [stamps EXCEPT !.history = n] ELSE stamps
        /\ safe' = IF fires THEN [safe EXCEPT !.historyTag = n] ELSE safe

-----------------------------------------------------------------------------
(* The first read of each handler. *)

StartCreate(r, u, ask) ==
    /\ Begin(r, "create", u, None, ask, "insertTx")
    /\ mem' = [mem EXCEPT ![r].safe = safe]

\* getTransactionById, with no check of the status
StartConfirm(r, u, t) ==
    /\ tx[t].status # "NONE"
    /\ Begin(r, "confirm", u, t, 0, "checkSigned")
    /\ UNCHANGED mem

StartReject(r, u, t) ==
    /\ tx[t].status # "NONE"
    /\ Begin(r, "reject", u, t, 0, "checkSigned")
    /\ mem' = [mem EXCEPT ![r].hash = tx[t].hash]

StartDelete(r, u, t) ==
    /\ tx[t].status = "AWAITING_CONFIRMATIONS"
    /\ Begin(r, "delete", u, t, 0, "deleteRow")
    /\ UNCHANGED mem

\* changeSequence runs deleteTransaction and then, whatever that returned,
\* createMultisigTransaction.  While pc[r] is in the first, the op is "change".
StartChange(r, u, t, ask) ==
    /\ tx[t].status # "NONE"
    /\ UNCHANGED mem
    /\ \/ /\ tx[t].status = "AWAITING_CONFIRMATIONS"
          /\ Begin(r, "change", u, t, ask, "deleteRow")
       \/ /\ tx[t].status # "AWAITING_CONFIRMATIONS"
          /\ Begin(r, "change", u, t, ask, "readSafe")

\* getBroadcastableTx
StartSend(r, u, t) ==
    /\ tx[t].status = "AWAITING_EXECUTION"
    /\ Begin(r, "send", u, t, 0, "readSafe")
    /\ mem' = [mem EXCEPT ![r].hash = tx[t].hash]

Start(r) ==
    \E u \in Owners :
        \/ \E ask \in AskedSeqs : StartCreate(r, u, ask)
        \/ \E t \in Txs :
            \/ StartConfirm(r, u, t)
            \/ StartReject(r, u, t)
            \/ StartDelete(r, u, t)
            \/ \E ask \in AskedSeqs : StartChange(r, u, t, ask)
            \/ StartSend(r, u, t)

-----------------------------------------------------------------------------
(* Steps of create, confirm and reject. *)

\* getSafeByAddress in send, and in the second half of changeSequence
ReadSafe(r) ==
    /\ At(r, "readSafe")
    /\ mem' = [mem EXCEPT ![r].safe = safe]
    /\ \/ /\ job[r].op = "send"
          /\ Goto(r, "readSigs")
          /\ UNCHANGED job
       \/ /\ job[r].op = "change"
          /\ Goto(r, "insertTx")
          /\ job' = [job EXCEPT ![r].op = "create", ![r].tx = None]
    /\ UNCHANGED <<rows, network, failures>>

InsertTx(r) ==
    /\ At(r, "insertTx")
    /\ \E t \in Txs :
        /\ tx[t].status = "NONE"
        /\ \A u \in Txs : u < t => tx[u].status # "NONE"
        /\ tx' = [tx EXCEPT ![t] =
                    [status |-> "AWAITING_CONFIRMATIONS",
                     seq |-> IF job[r].ask # 0 THEN job[r].ask
                             ELSE mem[r].safe.nextQueueSeq,
                     hash |-> FALSE]]
        /\ job' = [job EXCEPT ![r].tx = t]
    /\ Goto(r, "checkSigned")
    /\ UNCHANGED <<votes, safe, stamps, network, mem, failures>>

\* checkUserHasSigned: a row of any kind ends the handler
CheckSigned(r) ==
    /\ At(r, "checkSigned")
    /\ \/ /\ HasSigned(job[r].tx, job[r].user)
          /\ Finish(r)
       \/ /\ ~HasSigned(job[r].tx, job[r].user)
          /\ Goto(r, "insertVote")
          /\ UNCHANGED <<job, mem>>
    /\ UNCHANGED <<rows, network, failures>>

VoteKind(op) ==
    CASE op \in {"create", "confirm"} -> "CONFIRM"
      [] op = "reject" -> "REJECT"
      [] op = "send" -> "SEND"

\* insertIntoMultisigConfirm: the table has no unique key but its id
NewVote(t, u, kind) ==
    [tx |-> t, owner |-> u, kind |-> kind,
     copy |-> Cardinality({v \in Rows(t, kind) : v.owner = u})]

InsertVote(r) ==
    /\ At(r, "insertVote")
    /\ votes' = votes \union {NewVote(job[r].tx, job[r].user, VoteKind(job[r].op))}
    /\ Goto(r, CASE job[r].op \in {"create", "confirm"} -> "countConfirms"
                 [] job[r].op = "reject" -> "countRejects"
                 [] job[r].op = "send" -> "bumpTag")
    /\ UNCHANGED <<tx, safe, stamps, network, job, mem, failures>>

MutantCountAnyVote(r) ==
    /\ At(r, "countConfirms")
    /\ Goto(r, IF Cardinality({v \in votes : v.tx = job[r].tx}) >= Threshold
               THEN "loadTx" ELSE "bumpTag")
    /\ UNCHANGED <<rows, network, job, mem, failures>>

MutantCountOver(r) ==
    /\ At(r, "countConfirms")
    /\ Goto(r, IF Cardinality(Confirms(job[r].tx)) > Threshold THEN "loadTx" ELSE "bumpTag")
    /\ UNCHANGED <<rows, network, job, mem, failures>>

CountConfirms(r) ==
    /\ At(r, "countConfirms")
    /\ Goto(r, IF Executable(job[r].tx) THEN "loadTx" ELSE "bumpTag")
    /\ UNCHANGED <<rows, network, job, mem, failures>>

MutantLoadTxPartly(r) ==
    /\ At(r, "loadTx")
    /\ Goto(r, "saveExecutable")
    /\ UNCHANGED <<rows, network, job, mem, failures>>

\* findOne of updateAwaitingExecutionTx
LoadTx(r) ==
    /\ At(r, "loadTx")
    /\ mem' = [mem EXCEPT ![r].hash = tx[job[r].tx].hash]
    /\ Goto(r, "saveExecutable")
    /\ UNCHANGED <<rows, network, job, failures>>

\* ... and its save; the owners are notified before the next await
SaveExecutable(r) ==
    /\ At(r, "saveExecutable")
    /\ Store(job[r].tx, [tx[job[r].tx] EXCEPT !.status = "AWAITING_EXECUTION",
                                              !.hash = mem[r].hash])
    /\ Goto(r, "bumpTag")
    /\ UNCHANGED <<votes, network, job, mem, failures>>

MutantCountRejects(r) ==
    /\ At(r, "countRejects")
    /\ LET left == Cardinality(Owners) - Cardinality(Rejects(job[r].tx))
       IN  Goto(r, IF left <= Threshold THEN "cancel" ELSE "bumpTag")
    /\ UNCHANGED <<rows, network, job, mem, failures>>

CountRejects(r) ==
    /\ At(r, "countRejects")
    /\ LET left == Cardinality(Owners) - Cardinality(Rejects(job[r].tx))
       IN  Goto(r, IF left < Threshold THEN "cancel" ELSE "bumpTag")
    /\ UNCHANGED <<rows, network, job, mem, failures>>

MutantCancelMisspelt(r) ==
    /\ At(r, "cancel")
    /\ Store(job[r].tx, [tx[job[r].tx] EXCEPT !.status = "CANCELED"])
    /\ Goto(r, "bumpTag")
    /\ UNCHANGED <<votes, network, job, mem, failures>>

\* cancelTx saves the entity the handler read first
Cancel(r) ==
    /\ At(r, "cancel")
    /\ Store(job[r].tx, [tx[job[r].tx] EXCEPT !.status = "CANCELLED",
                                              !.hash = mem[r].hash])
    /\ Goto(r, "bumpTag")
    /\ UNCHANGED <<votes, network, job, mem, failures>>

\* updateQueuedTag and updateQueuedTagByAddress: TxQueuedTag = Date.now()
BumpTag(r) ==
    /\ At(r, "bumpTag")
    /\ stamps' = [stamps EXCEPT !.queued = @ + 1]
    /\ safe' = [safe EXCEPT !.queuedTag = stamps.queued + 1]
    /\ \/ job[r].op = "confirm" /\ Finish(r)
       \/ /\ job[r].op # "confirm"
          /\ Goto(r, CASE job[r].op = "create" -> "readIndexer"
                       [] job[r].op = "send" -> "broadcast"
                       [] OTHER -> "rereadSafe")
          /\ UNCHANGED <<job, mem>>
    /\ UNCHANGED <<tx, votes, network, failures>>

-----------------------------------------------------------------------------
(* Steps of delete. *)

\* deleteTx: an UPDATE by id, whatever the status is by now
DeleteRow(r) ==
    /\ At(r, "deleteRow")
    /\ Store(job[r].tx, [tx[job[r].tx] EXCEPT !.status = "DELETED"])
    /\ Goto(r, "bumpTag")
    /\ UNCHANGED <<votes, network, job, mem, failures>>

-----------------------------------------------------------------------------
(* The next queue sequence, recomputed at the end of most handlers. *)

MutantRereadSafe(r) ==
    /\ At(r, "rereadSafe")
    /\ mem' = [mem EXCEPT ![r].base = safe.nextQueueSeq]
    /\ Goto(r, "readQueue")
    /\ UNCHANGED <<rows, network, job, failures>>

\* updateNextSeqAfterDeleteTx starts from the suggestion in the database
RereadSafe(r) ==
    /\ At(r, "rereadSafe")
    /\ mem' = [mem EXCEPT ![r].safe = safe, ![r].base = safe.nextQueueSeq]
    /\ Goto(r, "readQueue")
    /\ UNCHANGED <<rows, network, job, failures>>

MutantReadIndexer(r) ==
    /\ At(r, "readIndexer")
    /\ \E n \in (account.committed - IndexerLag)..account.committed :
        /\ n >= 0
        /\ mem' = [mem EXCEPT ![r].base = n, ![r].safe.sequence = n]
    /\ Goto(r, "readQueue")
    /\ UNCHANGED <<rows, network, job, failures>>

\* create starts from the account sequence the indexer knows
ReadIndexer(r) ==
    /\ At(r, "readIndexer")
    /\ \E n \in (account.committed - IndexerLag)..account.committed :
        /\ n >= 0
        /\ mem' = [mem EXCEPT ![r].base = n]
    /\ Goto(r, "readQueue")
    /\ UNCHANGED <<rows, network, job, failures>>

MutantReadQueue(r) ==
    /\ At(r, "readQueue")
    /\ mem' = [mem EXCEPT ![r].safe.nextQueueSeq = NextQueueSeq(mem[r].base + 1, QueueSeqs)]
    /\ Goto(r, "saveSafe")
    /\ UNCHANGED <<rows, network, job, failures>>

\* findSequenceInQueue, in calculateNextSeq
ReadQueue(r) ==
    /\ At(r, "readQueue")
    /\ mem' = [mem EXCEPT ![r].safe.nextQueueSeq = NextQueueSeq(mem[r].base, QueueSeqs)]
    /\ Goto(r, "saveSafe")
    /\ UNCHANGED <<rows, network, job, failures>>

\* updateSafe saves the entity the handler read, with its old tags
SaveSafe(r) ==
    /\ At(r, "saveSafe")
    /\ safe' = mem[r].safe
    /\ \/ /\ job[r].op = "change"
          /\ Goto(r, "readSafe")
          /\ UNCHANGED <<job, mem>>
       \/ job[r].op # "change" /\ Finish(r)
    /\ UNCHANGED <<tx, votes, stamps, network, failures>>

-----------------------------------------------------------------------------
(* Steps of send. *)

MutantReadSigs(r) ==
    /\ At(r, "readSigs")
    /\ mem' = [mem EXCEPT ![r].valid = Cardinality(Confirms(job[r].tx)) >= Threshold]
    /\ Goto(r, "insertVote")
    /\ UNCHANGED <<rows, network, job, failures>>

\* makeTx: getConfirmedByTxId and one signature per owner
ReadSigs(r) ==
    /\ At(r, "readSigs")
    /\ mem' = [mem EXCEPT ![r].valid =
                    Cardinality(OwnersOf(Confirms(job[r].tx))) >= Threshold]
    /\ Goto(r, "insertVote")
    /\ UNCHANGED <<rows, network, job, failures>>

\* The chain takes a transaction once, when its multisignature is complete and
\* its sequence is the one the mempool expects next.
ChainTakes(r) ==
    LET t == job[r].tx IN
    /\ chain[t] = "none"
    /\ mem[r].valid
    /\ tx[t].seq = account.next
ChainAdds(t) ==
    /\ chain' = [chain EXCEPT ![t] = "mempool"]
    /\ account' = [account EXCEPT !.next = @ + 1]

\* client.broadcastTx(tx, 10).  The node takes the transaction and the 10 ms for
\* finding it in a block run out (the error has a txId); or it is found in time
\* and the call returns; or the node refuses; or the node takes it and the
\* answer is lost.  The last two are errors without a txId.
Broadcast(r) ==
    /\ At(r, "broadcast")
    /\ \/ /\ "timeout" \in Outcomes /\ ChainTakes(r)
          /\ ChainAdds(job[r].tx)
          /\ Goto(r, "savePending")
          /\ UNCHANGED <<job, mem>>
       \/ /\ "included" \in Outcomes /\ ChainTakes(r)
          /\ ChainAdds(job[r].tx)
          /\ Finish(r)
       \/ /\ "lost" \in Outcomes /\ ChainTakes(r)
          /\ ChainAdds(job[r].tx)
          /\ Goto(r, "saveFailed")
          /\ UNCHANGED <<job, mem>>
       \/ /\ "refused" \in Outcomes \/ ~ChainTakes(r)
          /\ Goto(r, "saveFailed")
          /\ UNCHANGED <<network, job, mem>>
    /\ UNCHANGED <<rows, failures>>

MutantSavePendingNoHash(r) ==
    /\ At(r, "savePending")
    /\ Store(job[r].tx, [tx[job[r].tx] EXCEPT !.status = "PENDING"])
    /\ Goto(r, "replace")
    /\ UNCHANGED <<votes, network, job, mem, failures>>

MutantSavePendingOnlyHash(r) ==
    /\ At(r, "savePending")
    /\ Store(job[r].tx, [tx[job[r].tx] EXCEPT !.hash = TRUE])
    /\ Goto(r, "replace")
    /\ UNCHANGED <<votes, network, job, mem, failures>>

\* updateTxBroadcastSuccess: findOne and save, which assigns both columns
SavePending(r) ==
    /\ At(r, "savePending")
    /\ Store(job[r].tx, [tx[job[r].tx] EXCEPT !.status = "PENDING", !.hash = TRUE])
    /\ Goto(r, "replace")
    /\ UNCHANGED <<votes, network, job, mem, failures>>

MutantReplace(r) ==
    LET seq == tx[job[r].tx].seq + 1 IN
    /\ At(r, "replace")
    /\ tx' = [t \in Txs |->
                IF tx[t].seq = seq /\ tx[t].status \in Queued
                THEN [tx[t] EXCEPT !.status = "REPLACED"] ELSE tx[t]]
    /\ mem' = [mem EXCEPT ![r].safe.sequence = seq + 1, ![r].base = seq + 1]
    /\ Goto(r, "readQueue")
    /\ UNCHANGED <<votes, safe, stamps, network, job, failures>>

\* updateQueueTxToReplaced
Replace(r) ==
    LET seq == tx[job[r].tx].seq IN
    /\ At(r, "replace")
    /\ tx' = [t \in Txs |->
                IF tx[t].seq = seq /\ tx[t].status \in Queued
                THEN [tx[t] EXCEPT !.status = "REPLACED"] ELSE tx[t]]
    /\ mem' = [mem EXCEPT ![r].safe.sequence = seq + 1, ![r].base = seq + 1]
    /\ Goto(r, "readQueue")
    /\ UNCHANGED <<votes, safe, stamps, network, job, failures>>

MutantSaveFailed(r) ==
    /\ At(r, "saveFailed")
    /\ Store(job[r].tx, [tx[job[r].tx] EXCEPT !.status = "FAILED", !.hash = TRUE])
    /\ mem' = [mem EXCEPT ![r].base = tx[job[r].tx].seq]
    /\ Goto(r, "readQueue")
    /\ UNCHANGED <<votes, network, job, failures>>

\* updateFailedTx saves the entity getBroadcastableTx returned
SaveFailed(r) ==
    /\ At(r, "saveFailed")
    /\ Store(job[r].tx, [tx[job[r].tx] EXCEPT !.status = "FAILED", !.hash = mem[r].hash])
    /\ mem' = [mem EXCEPT ![r].base = tx[job[r].tx].seq]
    /\ Goto(r, "readQueue")
    /\ UNCHANGED <<votes, network, job, failures>>

-----------------------------------------------------------------------------
(* Failures, the chain and the synchronisation service. *)

\* An await throws, or the process stops there.  The effects so far stay.  An
\* exception in deleteTransaction does not stop changeSequence.
Fail(r) ==
    /\ r \in InFlight
    /\ failures < MaxFailures
    /\ failures' = failures + 1
    /\ \/ Finish(r)
       \/ /\ job[r].op = "change" /\ ~At(r, "readSafe")
          /\ Goto(r, "readSafe")
          /\ UNCHANGED <<job, mem>>
    /\ UNCHANGED <<rows, network>>

\* A block includes the next transaction of the account and executes it.
Commit(t) ==
    /\ chain[t] = "mempool"
    /\ tx[t].seq = account.committed
    /\ \E result \in {"ok", "failed"} : chain' = [chain EXCEPT ![t] = result]
    /\ account' = [account EXCEPT !.committed = @ + 1]
    /\ UNCHANGED <<rows, pc, job, mem, failures>>

\* The synchronisation service finds a pending row by its TxHash and records
\* the result of the transaction.
Sync(t) ==
    /\ tx[t].status = "PENDING" /\ tx[t].hash
    /\ chain[t] \in {"ok", "failed"}
    /\ Store(t, [tx[t] EXCEPT !.status = IF chain[t] = "ok" THEN "SUCCESS" ELSE "FAILED"])
    /\ UNCHANGED <<votes, network, pc, job, mem, failures>>

-----------------------------------------------------------------------------

Step(r) ==
    \/ ReadSafe(r) \/ InsertTx(r) \/ CheckSigned(r) \/ InsertVote(r)
    \/ CountConfirms(r) \/ LoadTx(r) \/ SaveExecutable(r)
    \/ CountRejects(r) \/ Cancel(r) \/ DeleteRow(r) \/ BumpTag(r)
    \/ RereadSafe(r) \/ ReadIndexer(r) \/ ReadQueue(r) \/ SaveSafe(r)
    \/ ReadSigs(r) \/ Broadcast(r) \/ SavePending(r) \/ Replace(r) \/ SaveFailed(r)

Next ==
    \/ \E r \in Reqs : Start(r) \/ Step(r) \/ Fail(r)
    \/ \E t \in Txs : Commit(t) \/ Sync(t)

Spec == Init /\ [][Next]_vars

\* Every statement and call of a handler that runs is answered.
Fairness == \A r \in Reqs : WF_vars(Step(r))

FairSpec == Spec /\ Fairness
=============================================================================

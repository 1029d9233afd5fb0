------------------------------ MODULE TxProofs ------------------------------
(***************************************************************************)
(* Proofs about TxHandlers for any number of owners, transactions and      *)
(* requests, any threshold and any bound on concurrency and failures.      *)
(* First type correctness and the invariants of TxProperties about votes   *)
(* and about what is recorded of the chain.  They rest on what a step can  *)
(* do to a row of the transaction table (RowChange), to the votes          *)
(* (VotesChange) and to the chain (ChainChange).                           *)
(* Then the invariants about sequences, that no collected threshold goes   *)
(* unnoticed, and that TxHandlers implements MultisigWallet.  They rest on *)
(* rows that exist: handlers, votes and the chain only know transactions   *)
(* with a row, and a row keeps its sequence.  The step of the refinement   *)
(* that needs an invariant is Broadcast: what it sends was assembled some  *)
(* awaits before, from the signatures of threshold-many owners, and        *)
(* signatures stay.  Next, what follows for the lists that clients see.    *)
(* Then the properties that need handlers not to overlap.  Each theorem    *)
(* names the overlap it excludes, and no more: requests of one owner,      *)
(* requests for one transaction, or any two requests.  What a theorem does *)
(* not exclude may happen in any order.  The last part is about the detail *)
(* pages of TxDetails and excludes no overlap.                             *)
(***************************************************************************)
EXTENDS TxProperties, TxViews, TxDetails, FiniteSetTheorems, TLAPS

-----------------------------------------------------------------------------
(* Lemmas about the suggested sequence. *)

LEMMA QueueSeqsFinite ==
    ASSUME TypeOK
    PROVE  IsFiniteSet(QueueSeqs)
<1> DEFINE U == {u \in Txs : tx[u].status \in Queued}
           f == [u \in U |-> tx[u].seq]
<1>1. IsFiniteSet(U)
    BY FS_Subset, TxHandlersAssumption
<1>2. QueueSeqs = {tx[u].seq : u \in U}
    BY DEF QueueSeqs
<1>3. f \in Surjection(U, QueueSeqs)
    BY <1>2 DEF Surjection
<1> QED
    BY <1>1, <1>3, FS_Surjection

LEMMA NextQueueSeqType ==
    ASSUME NEW start \in Nat, NEW S, IsFiniteSet(S)
    PROVE  NextQueueSeq(start, S) \in Nat
<1> DEFINE K == {k \in 1..Cardinality(S) : WalkPasses(start, S, k)}
<1>1. Cardinality(S) \in Nat
    BY FS_CardinalityType
<1>2. IsFiniteSet(1..Cardinality(S))
    BY <1>1, FS_Interval
<1>3. IsFiniteSet(K)
    BY <1>2, FS_Subset
<1>4. Cardinality(K) \in Nat
    BY <1>3, FS_CardinalityType
<1> QED
    BY <1>4 DEF NextQueueSeq

\* When the queue is ordered as numbers are, the suggestion is free, unless it is
\* the number the walk started from and a smaller number is in the queue.
LEMMA FirstFree ==
    ASSUME NEW start \in Nat, NEW S \in SUBSET Nat, IsFiniteSet(S),
           \A m, n \in S : LexBefore(m, n) <=> m < n,
           NextQueueSeq(start, S) \in S
    PROVE  NextQueueSeq(start, S) = start /\ \E m \in S : m < start
<1> DEFINE c == Cardinality(S)
           Passes(k) == WalkPasses(start, S, k)
           K == {k \in 1..c : Passes(k)}
           p == Cardinality(K)
<1>1. c \in Nat
    BY FS_CardinalityType
<1>2. \A n \in S : Rank(n, S) = Cardinality({m \in S : m < n})
    <2> SUFFICES ASSUME NEW n \in S PROVE Rank(n, S) = Cardinality({m \in S : m < n})
        OBVIOUS
    <2>1. {m \in S : LexBefore(m, n)} = {m \in S : m < n}
        OBVIOUS
    <2> QED
        BY <2>1 DEF Rank
<1>3. ASSUME NEW k \in Nat, NEW l \in 0..k, Passes(k) PROVE Passes(l)
    BY <1>3 DEF WalkPasses
\* The walk passes exactly the numbers up to p.
<1>4. p \in Nat /\ K = 1..p
    <2>1. IsFiniteSet(K) /\ p \in Nat
        <3>1. IsFiniteSet(1..c) /\ K \subseteq 1..c
            BY <1>1, FS_Interval
        <3>2. IsFiniteSet(K)
            BY <3>1, FS_Subset
        <3> QED
            BY <3>2, FS_CardinalityType
    <2>2. ASSUME NEW k \in K PROVE k \in 1..p
        <3>1. k \in Nat /\ k >= 1 /\ 1..k \subseteq K
            BY <1>1, <1>3, <2>2
        <3>2. Cardinality(1..k) = k
            BY <3>1, FS_Interval
        <3>3. Cardinality(1..k) <= p
            BY <2>1, <3>1, FS_Subset
        <3> QED
            BY <2>1, <3>1, <3>2, <3>3
    <2>3. IsFiniteSet(1..p) /\ Cardinality(1..p) = p
        BY <2>1, FS_Interval
    <2>4. K \subseteq 1..p
        BY <2>2
    <2> QED
        BY <2>1, <2>3, <2>4, FS_Subset
<1>5. NextQueueSeq(start, S) = start + p
    BY DEF NextQueueSeq
<1> HIDE DEF p
<1>6. Passes(p) /\ p <= c
    <2>1. CASE p = 0
        BY <1>1, <2>1 DEF WalkPasses
    <2>2. CASE p # 0
        BY <1>1, <1>4, <2>2
    <2> QED
        BY <2>1, <2>2
<1>7. start..(start + p - 1) \subseteq S
    <2> SUFFICES ASSUME NEW m \in start..(start + p - 1) PROVE m \in S
        OBVIOUS
    <2>1. m - start \in 0..(p - 1) /\ start + (m - start) = m
        BY <1>4
    <2> QED
        BY <1>6, <2>1 DEF WalkPasses
\* If nothing in the queue is below start, the walk would have gone on.
<1>8. ASSUME \A m \in S : m >= start PROVE FALSE
    <2>1. {m \in S : m < start + p} = start..(start + p - 1)
        <3>1. ASSUME NEW m \in S, m < start + p PROVE m \in start..(start + p - 1)
            BY <1>4, <1>8, <3>1
        <3>2. ASSUME NEW m \in start..(start + p - 1) PROVE m \in S /\ m < start + p
            BY <1>4, <1>7, <3>2
        <3> QED
            BY <3>1, <3>2
    <2>2. Cardinality(start..(start + p - 1)) = p
        BY <1>4, FS_Interval
    <2>3. Rank(start + p, S) = p
        BY <1>2, <1>5, <2>1, <2>2
    <2>4. Passes(p + 1)
        <3>1. \A i \in 0..(p - 1) : start + i \in S /\ Rank(start + i, S) = i
            BY <1>6 DEF WalkPasses
        <3>2. \A i \in 0..((p + 1) - 1) : i \in 0..(p - 1) \/ i = p
            BY <1>4
        <3> QED
            BY <1>5, <2>3, <3>1, <3>2 DEF WalkPasses
    <2>5. p + 1 <= c
        <3>1. start..(start + p) \subseteq S
            BY <1>4, <1>5, <1>7
        <3>2. Cardinality(start..(start + p)) = p + 1
            BY <1>4, FS_Interval
        <3>3. Cardinality(start..(start + p)) <= c
            BY <3>1, FS_Subset
        <3> QED
            BY <3>2, <3>3
    <2>6. p + 1 \in K
        BY <1>1, <1>4, <2>4, <2>5
    <2> QED
        BY <1>4, <2>6
<1>9. PICK m \in S : m < start
    BY <1>8
<1>10. p = 0
    <2>1. ASSUME p # 0 PROVE FALSE
        <3>1. start \in S /\ Rank(start, S) = 0
            <4>1. 0 \in 0..(p - 1) /\ start + 0 = start
                BY <1>4, <2>1
            <4> QED
                BY <1>6, <4>1 DEF WalkPasses
        <3>2. m \in {n \in S : n < start}
            BY <1>9
        <3>3. IsFiniteSet({n \in S : n < start})
            BY FS_Subset
        <3>4. Cardinality({n \in S : n < start}) = 0
            BY <1>2, <3>1
        <3> QED
            BY <3>2, <3>3, <3>4, FS_EmptySet
    <2> QED
        BY <2>1
<1> QED
    BY <1>5, <1>9, <1>10

-----------------------------------------------------------------------------
(* Type correctness.  LabelsOK says which handlers reach which await, and   *)
(* that a request that has chosen a transaction carries its row id.        *)

LabelOK(label, j) ==
    /\ label \in {"idle", "done"} => j.op = "none"
    /\ label \notin {"idle", "done"} => j.op # "none" /\ j.user \in Owners
    /\ label \notin {"idle", "done", "insertTx"} => j.tx \in Txs
    /\ label = "readSafe" => j.op \in {"send", "change"}
    /\ label \in {"insertTx", "readIndexer"} => j.op = "create"
    /\ label = "checkSigned" => j.op \in {"create", "confirm", "reject"}
    /\ label = "insertVote" => j.op \in {"create", "confirm", "reject", "send"}
    /\ label \in {"countConfirms", "loadTx", "saveExecutable"}
            => j.op \in {"create", "confirm"}
    /\ label \in {"countRejects", "cancel"} => j.op = "reject"
    /\ label = "deleteRow" => j.op \in {"delete", "change"}
    /\ label = "rereadSafe" => j.op \in {"reject", "delete", "change"}
    /\ label \in {"readSigs", "broadcast", "savePending", "replace", "saveFailed"}
            => j.op = "send"
    /\ label \in {"readQueue", "saveSafe"} => j.op # "confirm"

LabelsOK == \A r \in Reqs : LabelOK(pc[r], job[r])

TInv == TypeOK /\ LabelsOK /\ IsFiniteSet(votes)

LEMMA InitTInv == Init => TInv
    BY FS_EmptySet, TxHandlersAssumption
    DEF Init, TInv, TypeOK, TxRow, Job, Mem, LabelsOK, LabelOK, Labels, Statuses, SafeRow, NewSafe, NoJob, NoMem

LEMMA MoveLabel ==
    ASSUME TypeOK, LabelsOK, NEW r \in Reqs, NEW l, NEW j,
           Goto(r, l), job' = [job EXCEPT ![r] = j], LabelOK(l, j)
    PROVE  LabelsOK'
    BY DEF TypeOK, LabelsOK, Goto

LEMMA StayJob ==
    ASSUME TypeOK, LabelsOK, NEW r \in Reqs, NEW l, Goto(r, l), job' = job, LabelOK(l, job[r])
    PROVE  LabelsOK'
    BY DEF TypeOK, LabelsOK, Goto

LEMMA StoreType ==
    ASSUME TypeOK, NEW t \in Txs,
           NEW row \in TxRow, Store(t, row)
    PROVE  /\ tx' \in [Txs -> TxRow]
           /\ safe' \in SafeRow
           /\ stamps' \in [queued : Nat, history : Nat]
    BY DEF TypeOK, Store, TxRow, SafeRow

LEMMA RowType ==
    ASSUME NEW row \in TxRow, NEW status \in Statuses, NEW hash \in BOOLEAN
    PROVE  [row EXCEPT !.status = status, !.hash = hash] \in TxRow
    BY DEF TxRow

LEMMA MemHash ==
    ASSUME TypeOK, NEW r \in Reqs
    PROVE  mem[r].hash \in BOOLEAN
    BY DEF TypeOK, Mem

LEMMA FinishType ==
    ASSUME TypeOK, NEW r \in Reqs, Finish(r)
    PROVE  /\ pc' \in [Reqs -> Labels]
           /\ job' \in [Reqs -> Job]
           /\ mem' \in [Reqs -> Mem]
           /\ pc' = [pc EXCEPT ![r] = "done"]
           /\ job' = [job EXCEPT ![r] = NoJob]
    BY DEF TypeOK, Job, Mem, Finish, Goto, NoJob, NoMem, NewSafe, SafeRow, Labels

LEMMA BeginTInv ==
    ASSUME TInv, NEW r \in Reqs, NEW op, NEW u \in Owners, NEW t \in Txs \union {None},
           NEW ask \in Nat, NEW l \in Labels, Begin(r, op, u, t, ask, l),
           LabelOK(l, [op |-> op, user |-> u, tx |-> t, ask |-> ask]),
           mem' \in [Reqs -> Mem]
    PROVE  TInv'
<1>1. LabelsOK'
    BY MoveLabel DEF Begin, TInv
<1>2. TypeOK'
    BY DEF Begin, Goto, TInv, TypeOK, Job, rows, network
<1> QED
    BY <1>1, <1>2 DEF TInv, Begin, rows

LEMMA StartTInv ==
    ASSUME TInv, NEW r \in Reqs, Start(r)
    PROVE  TInv'
<1>1. mem \in [Reqs -> Mem] /\ safe \in SafeRow /\ AskedSeqs \subseteq Nat
    BY TxHandlersAssumption DEF TInv, TypeOK
<1>2. ASSUME NEW u \in Owners, NEW ask \in AskedSeqs, StartCreate(r, u, ask) PROVE TInv'
    <2>1. mem' \in [Reqs -> Mem]
        BY <1>1, <1>2 DEF StartCreate, Mem
    <2> QED
        BY <1>1, <1>2, <2>1, BeginTInv DEF StartCreate, LabelOK, Labels
<1>3. ASSUME NEW u \in Owners, NEW t \in Txs, StartConfirm(r, u, t) PROVE TInv'
    BY <1>1, <1>3, BeginTInv DEF StartConfirm, LabelOK, Labels
<1>4. ASSUME NEW u \in Owners, NEW t \in Txs, StartReject(r, u, t) PROVE TInv'
    <2>1. mem' \in [Reqs -> Mem]
        BY <1>1, <1>4 DEF StartReject, TInv, TypeOK, TxRow, Mem
    <2> QED
        BY <1>4, <2>1, BeginTInv DEF StartReject, LabelOK, Labels
<1>5. ASSUME NEW u \in Owners, NEW t \in Txs, StartDelete(r, u, t) PROVE TInv'
    BY <1>1, <1>5, BeginTInv DEF StartDelete, LabelOK, Labels
<1>6. ASSUME NEW u \in Owners, NEW t \in Txs, NEW ask \in AskedSeqs, StartChange(r, u, t, ask)
      PROVE  TInv'
    BY <1>1, <1>6, BeginTInv DEF StartChange, LabelOK, Labels
<1>7. ASSUME NEW u \in Owners, NEW t \in Txs, StartSend(r, u, t) PROVE TInv'
    <2>1. mem' \in [Reqs -> Mem]
        BY <1>1, <1>7 DEF StartSend, TInv, TypeOK, TxRow, Mem
    <2> QED
        BY <1>7, <2>1, BeginTInv DEF StartSend, LabelOK, Labels
<1> QED
    BY <1>2, <1>3, <1>4, <1>5, <1>6, <1>7 DEF Start

\* The steps that write only rows of MultisigTransaction through Store.
LEMMA StoreStepTInv ==
    ASSUME TInv, NEW r \in Reqs, NEW l \in Labels, NEW row, Store(job[r].tx, row),
           job[r].tx \in Txs, row \in TxRow,
           Goto(r, l), LabelOK(l, job[r]), job' = job,
           mem' \in [Reqs -> Mem],
           UNCHANGED <<votes, network, failures>>
    PROVE  TInv'
<1>1. LabelsOK'
    BY StayJob DEF TInv
<1>2. /\ tx' \in [Txs -> TxRow]
      /\ safe' \in SafeRow
      /\ stamps' \in [queued : Nat, history : Nat]
    BY StoreType DEF TInv
<1>3. TypeOK'
    BY <1>2 DEF Goto, TInv, TypeOK, network
<1> QED
    BY <1>1, <1>3 DEF TInv

LEMMA StepTInv ==
    ASSUME TInv, NEW r \in Reqs, Step(r)
    PROVE  TInv'
<1> DEFINE j == job[r]
<1> USE DEF At
<1>0. TypeOK /\ LabelsOK /\ LabelOK(pc[r], j) /\ IsFiniteSet(votes)
    BY DEF TInv, LabelsOK
<1>fin. LabelOK("done", NoJob)
    BY DEF LabelOK, NoJob
<1>1. CASE ReadSafe(r)
    <2>1. mem' \in [Reqs -> Mem]
        BY <1>0, <1>1 DEF ReadSafe, TypeOK, Mem
    <2>2. CASE j.op = "send"
        <3>1. Goto(r, "readSigs") /\ UNCHANGED job
            BY <1>1, <2>2 DEF ReadSafe
        <3>2. LabelsOK'
            BY <1>0, <1>1, <2>2, <3>1, StayJob DEF ReadSafe, LabelOK
        <3> QED
            BY <1>0, <1>1, <2>1, <3>1, <3>2
            DEF ReadSafe, TInv, TypeOK, Goto, Labels, rows, network
    <2>3. CASE j.op = "change"
        <3>1. Goto(r, "insertTx") /\ job' = [job EXCEPT ![r] = [j EXCEPT !.op = "create", !.tx = None]]
            BY <1>0, <1>1, <2>3 DEF ReadSafe, TypeOK
        <3>2. LabelsOK'
            BY <1>0, <1>1, <2>3, <3>1, MoveLabel DEF ReadSafe, LabelOK, TypeOK, Job
        <3>3. job' \in [Reqs -> Job]
            BY ZenonT(40), <1>0, <3>1 DEF TypeOK, Job
        <3> QED
            BY <1>0, <1>1, <2>1, <3>1, <3>2, <3>3
            DEF ReadSafe, TInv, TypeOK, Goto, Labels, rows, network
    <2> QED
        BY <1>1, <2>2, <2>3 DEF ReadSafe
<1>2. CASE InsertTx(r)
    <2>1. PICK t \in Txs :
            /\ tx' = [tx EXCEPT ![t] = [status |-> "AWAITING_CONFIRMATIONS",
                                       seq |-> IF j.ask # 0 THEN j.ask ELSE mem[r].safe.nextQueueSeq,
                                       hash |-> FALSE]]
            /\ job' = [job EXCEPT ![r] = [j EXCEPT !.tx = t]]
        BY <1>0, <1>2 DEF InsertTx, TypeOK
    <2>2. j.ask \in Nat /\ mem[r].safe.nextQueueSeq \in Nat
        BY <1>0 DEF TypeOK, SafeRow, Job, Mem
    <2>3. tx' \in [Txs -> TxRow]
        BY <1>0, <2>1, <2>2 DEF TypeOK, TxRow, Statuses, Queued
    <2>4. LabelsOK'
        <3>1. LabelOK("checkSigned", [j EXCEPT !.tx = t])
            BY <1>0, <1>2 DEF InsertTx, LabelOK, TypeOK, Job
        <3>2. Goto(r, "checkSigned")
            BY <1>2 DEF InsertTx
        <3> QED
            BY <1>0, <2>1, <3>1, <3>2, MoveLabel
    <2>5. job' \in [Reqs -> Job]
        BY ZenonT(40), <1>0, <2>1 DEF TypeOK, Job
    <2> QED
        BY <1>0, <1>2, <2>1, <2>3, <2>4, <2>5 DEF InsertTx, TInv, TypeOK, Goto, Labels, network
<1>3. CASE CheckSigned(r)
    <2>1. CASE HasSigned(j.tx, j.user)
        <3>1. Finish(r)
            BY <1>3, <2>1 DEF CheckSigned
        <3>2. LabelsOK'
            BY <1>0, <1>fin, <3>1, MoveLabel DEF Finish
        <3> QED
            BY <1>0, <1>3, <3>1, <3>2, FinishType DEF CheckSigned, TInv, TypeOK, rows, network
    <2>2. CASE ~HasSigned(j.tx, j.user)
        <3>1. LabelsOK'
            BY <1>0, <1>3, <2>2, StayJob DEF CheckSigned, LabelOK
        <3> QED
            BY <1>0, <1>3, <2>2, <3>1 DEF CheckSigned, TInv, TypeOK, Goto, Labels, rows, network
    <2> QED
        BY <2>1, <2>2
<1>4. CASE InsertVote(r)
    <2>1. j.tx \in Txs /\ j.user \in Owners /\ j.op \in {"create", "confirm", "reject", "send"}
        BY <1>0, <1>4 DEF InsertVote, LabelOK
    <2>2. VoteKind(j.op) \in Kinds
        BY <2>1 DEF VoteKind, Kinds
    <2>3. IsFiniteSet({v \in Rows(j.tx, VoteKind(j.op)) : v.owner = j.user})
        BY <1>0, FS_Subset DEF Rows
    <2>4. Cardinality({v \in Rows(j.tx, VoteKind(j.op)) : v.owner = j.user}) \in Nat
        BY <2>3, FS_CardinalityType
    <2>5. NewVote(j.tx, j.user, VoteKind(j.op)) \in
                [tx : Txs, owner : Owners, kind : Kinds, copy : Nat]
        BY <2>1, <2>2, <2>4 DEF NewVote
    <2>6. IsFiniteSet(votes')
        BY <1>0, <1>4, FS_AddElement DEF InsertVote
    <2>7. PICK l \in {"countConfirms", "countRejects", "bumpTag"} :
                Goto(r, l) /\ LabelOK(l, j)
        BY <1>0, <1>4, <2>1 DEF InsertVote, LabelOK
    <2>8. LabelsOK'
        BY <1>0, <1>4, <2>7, StayJob DEF InsertVote
    <2>9. votes' \subseteq [tx : Txs, owner : Owners, kind : Kinds, copy : Nat]
        BY <1>0, <1>4, <2>5 DEF InsertVote, TypeOK
    <2>10. pc' \in [Reqs -> Labels]
        BY <1>0, <2>7 DEF TypeOK, Goto, Labels
    <2>11. TypeOK'
        BY <1>0, <1>4, <2>9, <2>10 DEF InsertVote, TypeOK, network
    <2> QED
        BY <2>6, <2>8, <2>11 DEF TInv
<1>5. CASE CountConfirms(r)
    <2>1. PICK l \in {"loadTx", "bumpTag"} : Goto(r, l) /\ LabelOK(l, j)
        BY <1>0, <1>5 DEF CountConfirms, LabelOK
    <2>2. LabelsOK'
        BY <1>0, <1>5, <2>1, StayJob DEF CountConfirms
    <2> QED
        BY <1>0, <1>5, <2>1, <2>2 DEF CountConfirms, TInv, TypeOK, Goto, Labels, rows, network
<1>6. CASE LoadTx(r)
    <2>1. LabelsOK'
        BY <1>0, <1>6, StayJob DEF LoadTx, LabelOK
    <2>2. mem' \in [Reqs -> Mem]
        BY <1>0, <1>6 DEF LoadTx, TypeOK, TxRow, Mem, LabelOK
    <2> QED
        BY <1>0, <1>6, <2>1, <2>2 DEF LoadTx, TInv, TypeOK, Goto, Labels, rows, network
<1>7. CASE SaveExecutable(r)
    <2>1. [tx[j.tx] EXCEPT !.status = "AWAITING_EXECUTION", !.hash = mem[r].hash] \in TxRow
        BY <1>0, <1>7, RowType, MemHash DEF SaveExecutable, TypeOK, LabelOK, Statuses, Queued
    <2>2. LabelOK("bumpTag", j) /\ j.tx \in Txs /\ mem \in [Reqs -> Mem]
        BY <1>0, <1>7 DEF SaveExecutable, LabelOK, TypeOK
    <2> QED
        BY <1>7, <2>1, <2>2, StoreStepTInv DEF SaveExecutable, Labels
<1>8. CASE CountRejects(r)
    <2>1. PICK l \in {"cancel", "bumpTag"} : Goto(r, l) /\ LabelOK(l, j)
        BY <1>0, <1>8 DEF CountRejects, LabelOK
    <2>2. LabelsOK'
        BY <1>0, <1>8, <2>1, StayJob DEF CountRejects
    <2> QED
        BY <1>0, <1>8, <2>1, <2>2 DEF CountRejects, TInv, TypeOK, Goto, Labels, rows, network
<1>9. CASE Cancel(r)
    <2>1. [tx[j.tx] EXCEPT !.status = "CANCELLED", !.hash = mem[r].hash] \in TxRow
        BY <1>0, <1>9, RowType, MemHash DEF Cancel, TypeOK, LabelOK, Statuses, Queued
    <2>2. LabelOK("bumpTag", j) /\ j.tx \in Txs /\ mem \in [Reqs -> Mem]
        BY <1>0, <1>9 DEF Cancel, LabelOK, TypeOK
    <2> QED
        BY <1>9, <2>1, <2>2, StoreStepTInv DEF Cancel, Labels
<1>10. CASE DeleteRow(r)
    <2>1. [tx[j.tx] EXCEPT !.status = "DELETED"] \in TxRow
        BY <1>0, <1>10 DEF DeleteRow, TypeOK, TxRow, LabelOK, Statuses
    <2>2. LabelOK("bumpTag", j) /\ j.tx \in Txs /\ mem \in [Reqs -> Mem]
        BY <1>0, <1>10 DEF DeleteRow, LabelOK, TypeOK
    <2> QED
        BY <1>10, <2>1, <2>2, StoreStepTInv DEF DeleteRow, Labels
<1>11. CASE BumpTag(r)
    <2>1. safe' \in SafeRow /\ stamps' \in [queued : Nat, history : Nat]
        BY <1>0, <1>11 DEF BumpTag, TypeOK, SafeRow
    <2>2. CASE j.op = "confirm"
        <3>1. Finish(r)
            BY <1>11, <2>2 DEF BumpTag
        <3>2. LabelsOK'
            BY <1>0, <1>fin, <3>1, MoveLabel DEF Finish
        <3> QED
            BY <1>0, <1>11, <2>1, <3>1, <3>2, FinishType DEF BumpTag, TInv, TypeOK, network
    <2>3. CASE j.op # "confirm"
        <3>1. j.op \in {"create", "reject", "delete", "change", "send"}
            BY <1>0, <1>11, <2>3, TxHandlersAssumption DEF BumpTag, LabelOK, TypeOK, Job
        <3>2. PICK l \in {"readIndexer", "broadcast", "rereadSafe"} :
                    Goto(r, l) /\ LabelOK(l, j)
            BY <1>0, <1>11, <2>3, <3>1 DEF BumpTag, LabelOK
        <3>3. LabelsOK'
            BY <1>0, <1>11, <2>3, <3>2, StayJob DEF BumpTag
        <3> QED
            BY <1>0, <1>11, <2>1, <2>3, <3>2, <3>3
            DEF BumpTag, TInv, TypeOK, Goto, Labels, network
    <2> QED
        BY <2>2, <2>3
<1>12. CASE RereadSafe(r)
    <2>1. LabelsOK'
        BY <1>0, <1>12, StayJob DEF RereadSafe, LabelOK
    <2>2. mem' \in [Reqs -> Mem]
        <3>1. safe \in SafeRow /\ safe.nextQueueSeq \in Nat
            BY <1>0 DEF TypeOK, SafeRow
        <3> QED
            BY ZenonT(40), <1>0, <1>12, <3>1 DEF RereadSafe, TypeOK, Mem
    <2> QED
        BY <1>0, <1>12, <2>1, <2>2 DEF RereadSafe, TInv, TypeOK, Goto, Labels, rows, network
<1>13. CASE ReadIndexer(r)
    <2>1. LabelsOK'
        BY <1>0, <1>13, StayJob DEF ReadIndexer, LabelOK
    <2>2. mem' \in [Reqs -> Mem]
        BY <1>0, <1>13, TxHandlersAssumption DEF ReadIndexer, TypeOK, Mem
    <2> QED
        BY <1>0, <1>13, <2>1, <2>2 DEF ReadIndexer, TInv, TypeOK, Goto, Labels, rows, network
<1>14. CASE ReadQueue(r)
    <2>1. LabelsOK'
        BY <1>0, <1>14, StayJob DEF ReadQueue, LabelOK
    <2>2. NextQueueSeq(mem[r].base, QueueSeqs) \in Nat
        BY <1>0, QueueSeqsFinite, NextQueueSeqType DEF TypeOK, Mem
    <2>3. mem' \in [Reqs -> Mem]
        BY SMTT(40), <1>0, <1>14, <2>2 DEF ReadQueue, TypeOK, Mem, SafeRow
    <2> QED
        BY <1>0, <1>14, <2>1, <2>3 DEF ReadQueue, TInv, TypeOK, Goto, Labels, rows, network
<1>15. CASE SaveSafe(r)
    <2>1. safe' \in SafeRow
        BY <1>0, <1>15 DEF SaveSafe, TypeOK, Mem
    <2>2. CASE j.op = "change"
        <3>1. LabelsOK'
            BY <1>0, <1>15, <2>2, StayJob DEF SaveSafe, LabelOK
        <3> QED
            BY <1>0, <1>15, <2>1, <2>2, <3>1 DEF SaveSafe, TInv, TypeOK, Goto, Labels, network
    <2>3. CASE j.op # "change"
        <3>1. Finish(r)
            BY <1>15, <2>3 DEF SaveSafe
        <3>2. LabelsOK'
            BY <1>0, <1>fin, <3>1, MoveLabel DEF Finish
        <3> QED
            BY <1>0, <1>15, <2>1, <3>1, <3>2, FinishType DEF SaveSafe, TInv, TypeOK, network
    <2> QED
        BY <2>2, <2>3
<1>16. CASE ReadSigs(r)
    <2>1. LabelsOK'
        BY <1>0, <1>16, StayJob DEF ReadSigs, LabelOK
    <2>2. mem' \in [Reqs -> Mem]
        <3> DEFINE v == Cardinality(OwnersOf(Confirms(j.tx))) >= Threshold
        <3>1. v \in BOOLEAN /\ mem' = [mem EXCEPT ![r].valid = v]
            BY <1>16 DEF ReadSigs
        <3> HIDE DEF v
        <3> QED
            BY <1>0, <3>1 DEF TypeOK, Mem
    <2> QED
        BY <1>0, <1>16, <2>1, <2>2 DEF ReadSigs, TInv, TypeOK, Goto, Labels, rows, network
<1>17. CASE Broadcast(r)
    <2>1. chain' \in [Txs -> {"none", "mempool", "ok", "failed"}]
              /\ account' \in [next : Nat, committed : Nat]
        <3>1. CASE ChainAdds(j.tx)
            <4>1. chain' \in [Txs -> {"none", "mempool", "ok", "failed"}]
                BY <1>0, <3>1 DEF ChainAdds, TypeOK
            <4>2. account.next + 1 \in Nat /\ account' = [account EXCEPT !.next = account.next + 1]
                BY <1>0, <3>1 DEF ChainAdds, TypeOK
            <4>3. account' \in [next : Nat, committed : Nat]
                BY <1>0, <4>2 DEF TypeOK
            <4> QED
                BY <4>1, <4>3
        <3>2. CASE UNCHANGED network
            BY <1>0, <3>2 DEF network, TypeOK
        <3> QED
            BY <1>17, <3>1, <3>2 DEF Broadcast
    <2>2. CASE Finish(r)
        <3>1. LabelsOK'
            BY <1>0, <1>fin, <2>2, MoveLabel DEF Finish
        <3> QED
            BY <1>0, <1>17, <2>1, <2>2, <3>1, FinishType DEF Broadcast, TInv, TypeOK, rows
    <2>3. CASE ~Finish(r)
        <3>1. PICK l \in {"savePending", "saveFailed"} :
                    Goto(r, l) /\ LabelOK(l, j) /\ UNCHANGED <<job, mem>>
            BY <1>0, <1>17, <2>3 DEF Broadcast, LabelOK
        <3>2. LabelsOK'
            BY <1>0, <3>1, StayJob
        <3> QED
            BY <1>0, <1>17, <2>1, <3>1, <3>2 DEF Broadcast, TInv, TypeOK, Goto, Labels, rows
    <2> QED
        BY <2>2, <2>3
<1>18. CASE SavePending(r)
    <2>1. [tx[j.tx] EXCEPT !.status = "PENDING", !.hash = TRUE] \in TxRow
        BY <1>0, <1>18, RowType DEF SavePending, TypeOK, LabelOK, Statuses
    <2>2. LabelOK("replace", j) /\ j.tx \in Txs /\ mem \in [Reqs -> Mem]
        BY <1>0, <1>18 DEF SavePending, LabelOK, TypeOK
    <2> QED
        BY <1>18, <2>1, <2>2, StoreStepTInv DEF SavePending, Labels
<1>19. CASE Replace(r)
    <2>1. LabelsOK'
        BY <1>0, <1>19, StayJob DEF Replace, LabelOK
    <2>2. tx[j.tx].seq \in Nat
        BY <1>0, <1>19 DEF Replace, TypeOK, TxRow, LabelOK
    <2>3. mem' \in [Reqs -> Mem]
        <3>1. mem[r] \in Mem /\ tx[j.tx].seq + 1 \in Nat
            BY <1>0, <2>2 DEF TypeOK
        <3>2. [mem[r] EXCEPT !.safe.sequence = tx[j.tx].seq + 1, !.base = tx[j.tx].seq + 1] \in Mem
            BY <3>1 DEF Mem, SafeRow
        <3>3. mem' = [mem EXCEPT ![r] = [mem[r] EXCEPT !.safe.sequence = tx[j.tx].seq + 1,
                                                      !.base = tx[j.tx].seq + 1]]
            BY <1>0, <1>19 DEF Replace, TypeOK
        <3> QED
            BY <1>0, <3>2, <3>3 DEF TypeOK
    <2>4. tx' \in [Txs -> TxRow]
        BY <1>0, <1>19 DEF Replace, TypeOK, TxRow, Statuses
    <2> QED
        BY <1>0, <1>19, <2>1, <2>3, <2>4 DEF Replace, TInv, TypeOK, Goto, Labels, network
<1>20. CASE SaveFailed(r)
    <2>1. [tx[j.tx] EXCEPT !.status = "FAILED", !.hash = mem[r].hash] \in TxRow
        BY <1>0, <1>20, RowType, MemHash DEF SaveFailed, TypeOK, LabelOK, Statuses, Queued
    <2>2. LabelOK("readQueue", j) /\ j.tx \in Txs /\ mem' \in [Reqs -> Mem]
        BY <1>0, <1>20 DEF SaveFailed, LabelOK, TypeOK, TxRow, Mem
    <2> QED
        BY <1>20, <2>1, <2>2, StoreStepTInv DEF SaveFailed, Labels
<1> QED
    BY <1>1, <1>2, <1>3, <1>4, <1>5, <1>6, <1>7, <1>8, <1>9, <1>10, <1>11, <1>12, <1>13,
       <1>14, <1>15, <1>16, <1>17, <1>18, <1>19, <1>20
    DEF Step

LEMMA FailTInv ==
    ASSUME TInv, NEW r \in Reqs, Fail(r)
    PROVE  TInv'
<1>0. TypeOK /\ LabelsOK /\ LabelOK(pc[r], job[r]) /\ pc[r] \notin {"idle", "done"}
    BY DEF TInv, LabelsOK, Fail, InFlight
<1>1. failures' \in Nat
    BY <1>0 DEF Fail, TypeOK
<1>2. CASE Finish(r)
    <2>1. LabelsOK'
        BY <1>0, <1>2, MoveLabel DEF Finish, LabelOK, NoJob
    <2> QED
        BY <1>0, <1>1, <1>2, <2>1, FinishType DEF Fail, TInv, TypeOK, rows, network
<1>3. CASE ~Finish(r)
    <2>1. job[r].op = "change" /\ Goto(r, "readSafe") /\ UNCHANGED <<job, mem>>
        BY <1>3 DEF Fail
    <2>2. LabelOK("readSafe", job[r])
        BY <1>0, <2>1 DEF LabelOK
    <2>3. LabelsOK'
        BY <1>0, <2>1, <2>2, StayJob
    <2> QED
        BY <1>0, <1>1, <2>1, <2>3 DEF Fail, TInv, TypeOK, Goto, Labels, rows, network
<1> QED
    BY <1>2, <1>3

LEMMA CommitTInv ==
    ASSUME TInv, NEW t \in Txs, Commit(t)
    PROVE  TInv'
<1>1. LabelsOK'
    BY DEF Commit, TInv, LabelsOK
<1>2. chain' \in [Txs -> {"none", "mempool", "ok", "failed"}]
    BY DEF Commit, TInv, TypeOK
<1>3. account' \in [next : Nat, committed : Nat]
    <2>1. account' = [account EXCEPT !.committed = account.committed + 1]
        BY DEF Commit, TInv, TypeOK
    <2> QED
        BY <2>1 DEF TInv, TypeOK
<1> QED
    BY <1>1, <1>2, <1>3 DEF Commit, TInv, TypeOK, rows

LEMMA SyncTInv ==
    ASSUME TInv, NEW t \in Txs, Sync(t)
    PROVE  TInv'
<1>1. LabelsOK'
    BY DEF Sync, TInv, LabelsOK
<1>2. [tx[t] EXCEPT !.status = IF chain[t] = "ok" THEN "SUCCESS" ELSE "FAILED"] \in TxRow
    BY DEF TInv, TypeOK, TxRow, Statuses
<1>3. /\ tx' \in [Txs -> TxRow]
      /\ safe' \in SafeRow
      /\ stamps' \in [queued : Nat, history : Nat]
    BY <1>2, StoreType DEF Sync, TInv
<1> QED
    BY <1>1, <1>3 DEF Sync, TInv, TypeOK, network

LEMMA NextTInv == TInv /\ [Next]_vars => TInv'
<1> SUFFICES ASSUME TInv, [Next]_vars PROVE TInv'
    OBVIOUS
<1>1. CASE UNCHANGED vars
    BY <1>1 DEF vars, TInv, TypeOK, LabelsOK
<1>2. CASE Next
    BY <1>2, StartTInv, StepTInv, FailTInv, CommitTInv, SyncTInv DEF Next
<1> QED
    BY <1>1, <1>2

LEMMA AlwaysTInv == Spec => []TInv
    BY InitTInv, NextTInv, PTL DEF Spec

\* Every state of the handlers is of the declared type: rows keep a known
\* status, the suggested sequence stays a natural number whatever walk of the
\* queue computed it, and no handler works on a transaction that has no row id.
THEOREM TypeCorrect == Spec => []TypeOK
<1>1. TInv => TypeOK
    BY DEF TInv
<1> QED
    BY <1>1, AlwaysTInv, PTL

-----------------------------------------------------------------------------
(* What one step does to the row of t. *)

Inserted(t) ==
    /\ tx[t].status = "NONE"
    /\ tx'[t].status = "AWAITING_CONFIRMATIONS" /\ ~tx'[t].hash

Written(r, t) ==
    /\ job[r].tx = t /\ pc'[r] # pc[r]
    /\ tx'[t].seq = tx[t].seq
    /\ \/ /\ At(r, "saveExecutable")
          /\ tx'[t].status = "AWAITING_EXECUTION" /\ tx'[t].hash = mem[r].hash
       \/ At(r, "cancel") /\ tx'[t].status = "CANCELLED" /\ tx'[t].hash = mem[r].hash
       \/ At(r, "deleteRow") /\ tx'[t].status = "DELETED" /\ tx'[t].hash = tx[t].hash
       \/ At(r, "savePending") /\ tx'[t].status = "PENDING" /\ tx'[t].hash
       \/ At(r, "saveFailed") /\ tx'[t].status = "FAILED" /\ tx'[t].hash = mem[r].hash

Superseded(r, t) ==
    /\ At(r, "replace")
    /\ tx[t].seq = tx[job[r].tx].seq /\ tx[t].status \in Queued
    /\ tx'[t].seq = tx[t].seq /\ tx'[t].status = "REPLACED" /\ tx'[t].hash = tx[t].hash

Synced(t) ==
    /\ tx[t].status = "PENDING"
    /\ tx'[t].seq = tx[t].seq /\ tx'[t].status \in {"SUCCESS", "FAILED"}
    /\ tx'[t].hash = tx[t].hash

RowStep(t) ==
    \/ tx'[t] = tx[t]
    \/ Inserted(t)
    \/ \E r \in Reqs : Written(r, t) \/ Superseded(r, t)
    \/ Synced(t)

\* The steps that leave the transactions alone.
Reading(r) ==
    \/ ReadSafe(r) \/ CheckSigned(r) \/ InsertVote(r) \/ CountConfirms(r) \/ LoadTx(r)
    \/ CountRejects(r) \/ BumpTag(r) \/ RereadSafe(r) \/ ReadIndexer(r) \/ ReadQueue(r)
    \/ SaveSafe(r) \/ ReadSigs(r) \/ Broadcast(r)

LEMMA ReadingKeepsTx ==
    ASSUME NEW r \in Reqs, Reading(r) \/ Fail(r) \/ Start(r)
    PROVE  tx' = tx
<1>1. CASE Start(r)
    BY <1>1
    DEF Start, StartCreate, StartConfirm, StartReject, StartDelete, StartChange, StartSend, Begin, rows
<1>2. CASE Fail(r)
    BY <1>2 DEF Fail, rows
<1>3. CASE Reading(r)
    BY <1>3
    DEF Reading, ReadSafe, CheckSigned, InsertVote, CountConfirms, LoadTx, CountRejects, BumpTag,
        RereadSafe, ReadIndexer, ReadQueue, SaveSafe, ReadSigs, Broadcast, rows
<1> QED
    BY <1>1, <1>2, <1>3

LEMMA RowChange ==
    ASSUME TInv, Next, NEW t \in Txs
    PROVE  RowStep(t)
<1>0. tx \in [Txs -> TxRow] /\ pc \in [Reqs -> Labels]
    BY DEF TInv, TypeOK
<1>1. ASSUME NEW r \in Reqs, Start(r) \/ Fail(r) \/ Reading(r) PROVE RowStep(t)
    BY <1>1, ReadingKeepsTx DEF RowStep
<1>2. ASSUME NEW r \in Reqs, InsertTx(r) PROVE RowStep(t)
    BY <1>0, <1>2 DEF InsertTx, RowStep, Inserted
<1>3. ASSUME NEW r \in Reqs, SaveExecutable(r) PROVE RowStep(t)
    BY <1>0, <1>3 DEF SaveExecutable, At, Goto, Store, RowStep, Written, TxRow
<1>4. ASSUME NEW r \in Reqs, Cancel(r) PROVE RowStep(t)
    BY <1>0, <1>4 DEF Cancel, At, Goto, Store, RowStep, Written, TxRow
<1>5. ASSUME NEW r \in Reqs, DeleteRow(r) PROVE RowStep(t)
    BY <1>0, <1>5 DEF DeleteRow, At, Goto, Store, RowStep, Written, TxRow
<1>6. ASSUME NEW r \in Reqs, SavePending(r) PROVE RowStep(t)
    BY <1>0, <1>6 DEF SavePending, At, Goto, Store, RowStep, Written, TxRow
<1>7. ASSUME NEW r \in Reqs, SaveFailed(r) PROVE RowStep(t)
    BY <1>0, <1>7 DEF SaveFailed, At, Goto, Store, RowStep, Written, TxRow
<1>8. ASSUME NEW r \in Reqs, Replace(r) PROVE RowStep(t)
    BY <1>0, <1>8 DEF Replace, RowStep, Superseded, TxRow
<1>9. ASSUME NEW u \in Txs, Commit(u) PROVE RowStep(t)
    BY <1>9 DEF Commit, rows, RowStep
<1>10. ASSUME NEW u \in Txs, Sync(u) PROVE RowStep(t)
    BY <1>0, <1>10 DEF Sync, Store, RowStep, Synced, TxRow
<1> QED
    BY <1>1, <1>2, <1>3, <1>4, <1>5, <1>6, <1>7, <1>8, <1>9, <1>10 DEF Next, Step, Reading

-----------------------------------------------------------------------------
(* What one step does to the votes: nothing, or it adds one.                *)

Voted(r, v) ==
    /\ At(r, "insertVote") /\ Goto(r, CASE job[r].op \in {"create", "confirm"} -> "countConfirms"
                                       [] job[r].op = "reject" -> "countRejects"
                                       [] job[r].op = "send" -> "bumpTag")
    /\ v = NewVote(job[r].tx, job[r].user, VoteKind(job[r].op))
    /\ votes' = votes \union {v}
    /\ UNCHANGED <<tx, job, failures>>

LEMMA VotesChange ==
    ASSUME Next
    PROVE  votes' = votes \/ \E r \in Reqs : \E v : Voted(r, v)
<1>1. ASSUME NEW r \in Reqs, Start(r) PROVE votes' = votes
    BY <1>1
    DEF Start, StartCreate, StartConfirm, StartReject, StartDelete, StartChange, StartSend, Begin, rows
<1>2. ASSUME NEW r \in Reqs, Fail(r) PROVE votes' = votes
    BY <1>2 DEF Fail, rows
<1>3. ASSUME NEW r \in Reqs, InsertVote(r) PROVE \E v : Voted(r, v)
    BY <1>3 DEF InsertVote, Voted
<1>4. ASSUME NEW r \in Reqs, Step(r), ~InsertVote(r) PROVE votes' = votes
    BY <1>4
    DEF Step, ReadSafe, InsertTx, CheckSigned, CountConfirms, LoadTx, SaveExecutable,
        CountRejects, Cancel, DeleteRow, BumpTag, RereadSafe, ReadIndexer, ReadQueue, SaveSafe,
        ReadSigs, Broadcast, SavePending, Replace, SaveFailed, rows
<1>5. ASSUME NEW t \in Txs, Commit(t) \/ Sync(t) PROVE votes' = votes
    BY <1>5 DEF Commit, Sync, rows
<1> QED
    BY <1>1, <1>2, <1>3, <1>4, <1>5 DEF Next

LEMMA ExecutableStays ==
    ASSUME NEW t, IsFiniteSet(votes), Next, Executable(t)
    PROVE  Executable(t)'
<1>1. votes \subseteq votes' /\ IsFiniteSet(votes')
    BY VotesChange, FS_AddElement DEF Voted
<1>2. Confirms(t) \subseteq Confirms(t)'
    BY <1>1 DEF Confirms, Rows
<1>3. IsFiniteSet(Confirms(t)')
    BY <1>1, FS_Subset DEF Confirms, Rows
<1>4. IsFiniteSet(Confirms(t)) /\ Cardinality(Confirms(t)) <= Cardinality(Confirms(t)')
    BY <1>2, <1>3, FS_Subset
<1>5. Cardinality(Confirms(t)) \in Nat /\ Cardinality(Confirms(t)') \in Nat /\ Threshold \in Nat
    BY <1>3, <1>4, FS_CardinalityType, TxHandlersAssumption
<1> QED
    BY <1>4, <1>5 DEF Executable
-----------------------------------------------------------------------------
(* A transaction that is ready to execute has its signatures. *)

\* A handler that is about to write AWAITING_EXECUTION has counted enough.
Counted == \A r \in Reqs : pc[r] \in {"loadTx", "saveExecutable"} => Executable(job[r].tx)

EInv == TInv /\ Counted /\ ExecutableHasThreshold

\* How a handler comes to be about to write AWAITING_EXECUTION.
LEMMA CountedBefore ==
    ASSUME TInv, Next, NEW r \in Reqs, pc'[r] \in {"loadTx", "saveExecutable"}
    PROVE  /\ job'[r].tx = job[r].tx
           /\ \/ pc[r] \in {"loadTx", "saveExecutable"}
              \/ Executable(job[r].tx)
<1> DEFINE Good == /\ job'[r].tx = job[r].tx
                   /\ \/ pc[r] \in {"loadTx", "saveExecutable"}
                      \/ Executable(job[r].tx)
<1>0. pc \in [Reqs -> Labels] /\ job \in [Reqs -> Job]
    BY DEF TInv, TypeOK
<1>1. ASSUME NEW q \in Reqs, Start(q) PROVE Good
    BY <1>0, <1>1
    DEF Start, StartCreate, StartConfirm, StartReject, StartDelete, StartChange, StartSend,
        Begin, Goto
<1>2. ASSUME NEW q \in Reqs, Fail(q) PROVE Good
    BY <1>0, <1>2 DEF Fail, Finish, Goto
<1>3. ASSUME NEW q \in Reqs, CountConfirms(q) PROVE Good
    BY <1>0, <1>3 DEF CountConfirms, Goto
<1>4. ASSUME NEW q \in Reqs, LoadTx(q) PROVE Good
    BY <1>0, <1>4 DEF LoadTx, At, Goto
<1>5. ASSUME NEW q \in Reqs, InsertVote(q) PROVE Good
    <2>1. PICK l \in {"countConfirms", "countRejects", "bumpTag"} : Goto(q, l)
        <3>1. job[q].op \in {"create", "confirm", "reject", "send"}
            BY <1>5 DEF InsertVote, At, TInv, LabelsOK, LabelOK
        <3> QED
            BY <1>5, <3>1 DEF InsertVote
    <2> QED
        BY <1>0, <1>5, <2>1 DEF InsertVote, Goto
<1>6. ASSUME NEW q \in Reqs, BumpTag(q) PROVE Good
    <2>1. CASE Finish(q)
        BY <1>0, <2>1 DEF Finish, Goto
    <2>2. CASE ~Finish(q)
        <3>1. job' = job /\ \E l \in {"readIndexer", "broadcast", "rereadSafe"} : Goto(q, l)
            BY <1>6, <2>2 DEF BumpTag
        <3> QED
            BY <1>0, <3>1 DEF Goto
    <2> QED
        BY <2>1, <2>2
<1>7. ASSUME NEW q \in Reqs, Step(q), ~CountConfirms(q), ~LoadTx(q), ~InsertVote(q), ~BumpTag(q)
      PROVE  Good
    BY <1>0, <1>7
    DEF Step, ReadSafe, InsertTx, CheckSigned, SaveExecutable,
        CountRejects, Cancel, DeleteRow, RereadSafe, ReadIndexer, ReadQueue, SaveSafe,
        ReadSigs, Broadcast, SavePending, Replace, SaveFailed, Finish, Goto
<1>8. ASSUME NEW t \in Txs, Commit(t) \/ Sync(t) PROVE Good
    BY <1>8 DEF Commit, Sync
<1> QED
    BY <1>1, <1>2, <1>3, <1>4, <1>5, <1>6, <1>7, <1>8 DEF Next

LEMMA NextEInv == EInv /\ [Next]_vars => EInv'
<1> SUFFICES ASSUME EInv, [Next]_vars PROVE EInv'
    OBVIOUS
<1>1. TInv'
    BY NextTInv DEF EInv
<1>2. CASE UNCHANGED vars
    BY <1>1, <1>2
    DEF EInv, vars, Counted, ExecutableHasThreshold, Executable, Confirms, Rows
<1>3. CASE Next
    <2>1. IsFiniteSet(votes)
        BY DEF EInv, TInv
    <2>2. Counted'
        <3> SUFFICES ASSUME NEW r \in Reqs, (pc[r] \in {"loadTx", "saveExecutable"})'
                     PROVE  Executable(job[r].tx)'
            BY DEF Counted
        <3>1. Executable(job[r].tx) /\ job'[r].tx = job[r].tx
            BY <1>3, CountedBefore DEF EInv, Counted
        <3>2. PICK t : t = job[r].tx
            OBVIOUS
        <3>3. Executable(t)'
            BY <1>3, <2>1, <3>1, <3>2, ExecutableStays
        <3> QED
            BY <3>1, <3>2, <3>3 DEF Executable, Confirms, Rows
    <2>3. ExecutableHasThreshold'
        <3> SUFFICES ASSUME NEW t \in Txs, (tx[t].status = "AWAITING_EXECUTION")'
                     PROVE  Executable(t)'
            BY DEF ExecutableHasThreshold
        <3>1. RowStep(t)
            BY <1>3, RowChange DEF EInv
        <3>2. Executable(t)
            BY <3>1 DEF RowStep, Inserted, Written, Superseded, Synced, At,
                        EInv, Counted, ExecutableHasThreshold
        <3> QED
            BY <1>3, <2>1, <3>2, ExecutableStays
    <2> QED
        BY <1>1, <2>2, <2>3 DEF EInv
<1> QED
    BY <1>2, <1>3

\* A transaction is AWAITING_EXECUTION only with threshold-many CONFIRM rows,
\* whatever handlers run concurrently or stop halfway: the rows counted by
\* isExecutable are still there when the status is written.
THEOREM ExecutableHasThresholdAlways == Spec => []ExecutableHasThreshold
<1>1. Init => EInv
    BY InitTInv DEF Init, EInv, Counted, ExecutableHasThreshold
<1>2. EInv => ExecutableHasThreshold
    BY DEF EInv
<1> QED
    BY <1>1, <1>2, NextEInv, PTL DEF Spec

-----------------------------------------------------------------------------
(* What one step does to the chain, and to the requests it is not about.    *)

Took(r) ==
    /\ At(r, "broadcast") /\ ChainTakes(r) /\ ChainAdds(job[r].tx)
    /\ Outcomes \intersect {"included", "lost"} = {} => Goto(r, "savePending") /\ UNCHANGED job
    /\ UNCHANGED <<tx, safe>>

LEMMA ChainChange ==
    ASSUME Next
    PROVE  \/ UNCHANGED network
           \/ \E r \in Reqs : Took(r)
           \/ \E t \in Txs : Commit(t)
<1>1. ASSUME NEW r \in Reqs, Start(r) PROVE UNCHANGED network
    BY <1>1
    DEF Start, StartCreate, StartConfirm, StartReject, StartDelete, StartChange, StartSend, Begin
<1>2. ASSUME NEW r \in Reqs, Fail(r) PROVE UNCHANGED network
    BY <1>2 DEF Fail
<1>3. ASSUME NEW r \in Reqs, Broadcast(r) PROVE UNCHANGED network \/ Took(r)
    BY <1>3 DEF Broadcast, Took, rows
<1>4. ASSUME NEW r \in Reqs, Step(r), ~Broadcast(r) PROVE UNCHANGED network
    BY <1>4
    DEF Step, ReadSafe, InsertTx, CheckSigned, InsertVote, CountConfirms, LoadTx, SaveExecutable,
        CountRejects, Cancel, DeleteRow, BumpTag, RereadSafe, ReadIndexer, ReadQueue, SaveSafe,
        ReadSigs, SavePending, Replace, SaveFailed
<1>5. ASSUME NEW t \in Txs, Sync(t) PROVE UNCHANGED network
    BY <1>5 DEF Sync
<1> QED
    BY <1>1, <1>2, <1>3, <1>4, <1>5 DEF Next

LEMMA AcceptedStays ==
    ASSUME TInv, Next, NEW t \in Txs, Accepted(t)
    PROVE  Accepted(t)'
<1>0. chain \in [Txs -> {"none", "mempool", "ok", "failed"}]
    BY DEF TInv, TypeOK
<1>1. CASE UNCHANGED network
    BY <1>1 DEF network, Accepted
<1>2. CASE \E r \in Reqs : Took(r)
    BY <1>0, <1>2 DEF Took, ChainAdds, Accepted
<1>3. CASE \E u \in Txs : Commit(u)
    BY <1>0, <1>3 DEF Commit, Accepted
<1> QED
    BY <1>1, <1>2, <1>3, ChainChange

LEMMA OthersStay ==
    ASSUME TInv, NEW r \in Reqs, Start(r) \/ Step(r) \/ Fail(r), NEW q \in Reqs, q # r
    PROVE  pc'[q] = pc[q] /\ job'[q] = job[q] /\ mem'[q] = mem[q]
<1> DEFINE Same == pc'[q] = pc[q] /\ job'[q] = job[q] /\ mem'[q] = mem[q]
<1>0. pc \in [Reqs -> Labels] /\ job \in [Reqs -> Job] /\ mem \in [Reqs -> Mem]
    BY DEF TInv, TypeOK
<1>1. CASE Start(r)
    BY <1>0, <1>1
    DEF Start, StartCreate, StartConfirm, StartReject, StartDelete, StartChange, StartSend,
        Begin, Goto
<1>2. CASE Fail(r)
    BY <1>0, <1>2 DEF Fail, Finish, Goto
<1>3. CASE ReadSafe(r) \/ InsertTx(r) \/ CheckSigned(r) \/ InsertVote(r) \/ CountConfirms(r)
    BY <1>0, <1>3 DEF ReadSafe, InsertTx, CheckSigned, InsertVote, CountConfirms, Finish, Goto
<1>4. CASE LoadTx(r) \/ SaveExecutable(r) \/ CountRejects(r) \/ Cancel(r) \/ DeleteRow(r)
    BY <1>0, <1>4 DEF LoadTx, SaveExecutable, CountRejects, Cancel, DeleteRow, Goto
<1>5. CASE BumpTag(r) \/ RereadSafe(r) \/ ReadIndexer(r) \/ ReadQueue(r) \/ SaveSafe(r)
    BY <1>0, <1>5 DEF BumpTag, RereadSafe, ReadIndexer, ReadQueue, SaveSafe, Finish, Goto
<1>6. CASE ReadSigs(r) \/ Broadcast(r) \/ SavePending(r) \/ Replace(r) \/ SaveFailed(r)
    BY <1>0, <1>6 DEF ReadSigs, Broadcast, SavePending, Replace, SaveFailed, Finish, Goto
<1> QED
    BY <1>1, <1>2, <1>3, <1>4, <1>5, <1>6 DEF Step

-----------------------------------------------------------------------------
(* What is recorded of the chain is true. *)

\* A handler holds a TxHash only of the accepted transaction it works on, and
\* records the success of a broadcast only for an accepted transaction.
HashKnown(r) ==
    mem[r].hash =>
        /\ job[r].op \in {"create", "confirm", "reject", "send"}
        /\ pc[r] # "insertTx"
        /\ job[r].tx \in Txs
        /\ Accepted(job[r].tx)
SentIsAccepted(r) == pc[r] \in {"savePending", "replace"} => Accepted(job[r].tx)

HandlersKnow == \A r \in Reqs : HashKnown(r) /\ SentIsAccepted(r)

AInv == TInv /\ HandlersKnow /\ RecordedIsAccepted

LEMMA StartKnows ==
    ASSUME AInv, NEW r \in Reqs, Start(r), Next
    PROVE  HashKnown(r)' /\ SentIsAccepted(r)'
<1>0. /\ pc \in [Reqs -> Labels] /\ job \in [Reqs -> Job] /\ mem \in [Reqs -> Mem]
      /\ LabelOK(pc[r], job[r]) /\ safe \in SafeRow
    BY DEF AInv, TInv, TypeOK, LabelsOK
<1>1. pc[r] = "idle" /\ ~mem[r].hash
    <2>1. pc[r] = "idle"
        BY DEF Start, StartCreate, StartConfirm, StartReject, StartDelete, StartChange, StartSend,
               Begin, At
    <2> QED
        BY <1>0, <2>1 DEF AInv, HandlersKnow, HashKnown, LabelOK
<1>2. SentIsAccepted(r)'
    BY <1>0
    DEF Start, StartCreate, StartConfirm, StartReject, StartDelete, StartChange, StartSend,
        Begin, Goto, SentIsAccepted
<1>3. CASE mem'[r].hash = FALSE
    BY <1>2, <1>3 DEF HashKnown
<1>4. ASSUME NEW u \in Owners, NEW t \in Txs, StartReject(r, u, t) PROVE HashKnown(r)'
    <2>1. mem'[r].hash = tx[t].hash /\ job'[r].op = "reject" /\ job'[r].tx = t
              /\ pc'[r] = "checkSigned"
        BY <1>0, <1>4 DEF StartReject, Begin, Goto, Mem
    <2>2. tx[t].hash => Accepted(t)'
        BY AcceptedStays DEF AInv, RecordedIsAccepted
    <2> QED
        BY <2>1, <2>2 DEF HashKnown, Accepted
<1>5. ASSUME NEW u \in Owners, NEW t \in Txs, StartSend(r, u, t) PROVE HashKnown(r)'
    <2>1. mem'[r].hash = tx[t].hash /\ job'[r].op = "send" /\ job'[r].tx = t
              /\ pc'[r] = "readSafe"
        BY <1>0, <1>5 DEF StartSend, Begin, Goto, Mem
    <2>2. tx[t].hash => Accepted(t)'
        BY AcceptedStays DEF AInv, RecordedIsAccepted
    <2> QED
        BY <2>1, <2>2 DEF HashKnown, Accepted
<1>6. ASSUME NEW u \in Owners, NEW ask, StartCreate(r, u, ask) PROVE mem'[r].hash = mem[r].hash
    BY <1>0, <1>6 DEF StartCreate, Mem
<1>7. ASSUME NEW u \in Owners, NEW t \in Txs,
             \/ StartConfirm(r, u, t) \/ StartDelete(r, u, t)
             \/ \E ask \in AskedSeqs : StartChange(r, u, t, ask)
      PROVE  mem'[r].hash = mem[r].hash
    BY <1>7 DEF StartConfirm, StartDelete, StartChange
<1>8. HashKnown(r)'
    <2>1. mem[r].hash \in BOOLEAN
        BY MemHash DEF AInv, TInv
    <2>2. (mem'[r].hash = mem[r].hash) => HashKnown(r)'
        BY <1>1 DEF HashKnown
    <2> QED
        BY <1>4, <1>5, <1>6, <1>7, <2>2 DEF Start
<1> QED
    BY <1>2, <1>8

\* Where the hash a handler holds comes from, within a step of the handler.
Keeps(r) ==
    mem'[r].hash =>
        \/ /\ mem[r].hash /\ job'[r].op = job[r].op /\ job'[r].tx = job[r].tx
           /\ pc'[r] # "insertTx"
        \/ LoadTx(r)

LEMMA StepKeeps ==
    ASSUME AInv, NEW r \in Reqs, Step(r)
    PROVE  Keeps(r)
<1>0. /\ pc \in [Reqs -> Labels] /\ job \in [Reqs -> Job] /\ mem \in [Reqs -> Mem]
      /\ LabelOK(pc[r], job[r]) /\ HashKnown(r) /\ safe \in SafeRow
    BY DEF AInv, TInv, TypeOK, LabelsOK, HandlersKnow
<1>1. CASE Finish(r)
    BY <1>0, <1>1 DEF Finish, NoMem, Keeps
<1>2. CASE ReadSafe(r)
    BY <1>0, <1>2 DEF ReadSafe, HashKnown, Goto, Keeps, Mem
<1>3. CASE InsertTx(r)
    BY <1>0, <1>3 DEF InsertTx, HashKnown, At, Keeps
<1>4. CASE LoadTx(r)
    BY <1>4 DEF Keeps
<1>5. CASE CheckSigned(r) /\ ~Finish(r)
    BY <1>0, <1>5 DEF CheckSigned, Goto, Keeps
<1>6. CASE InsertVote(r)
    <2>1. job[r].op \in {"create", "confirm", "reject", "send"}
        BY <1>0, <1>6 DEF InsertVote, At, LabelOK
    <2> QED
        BY <1>0, <1>6, <2>1 DEF InsertVote, Goto, Keeps
<1>7. CASE CountConfirms(r) \/ SaveExecutable(r) \/ CountRejects(r) \/ Cancel(r) \/ DeleteRow(r)
    BY <1>0, <1>7 DEF CountConfirms, SaveExecutable, CountRejects, Cancel, DeleteRow, Goto, Keeps
<1>8. CASE BumpTag(r) /\ ~Finish(r)
    BY <1>0, <1>8 DEF BumpTag, Goto, Keeps
<1>9. CASE RereadSafe(r) \/ ReadIndexer(r) \/ ReadQueue(r) \/ ReadSigs(r)
    BY <1>0, <1>9 DEF RereadSafe, ReadIndexer, ReadQueue, ReadSigs, Goto, Keeps, Mem
<1>10. CASE SaveSafe(r) /\ ~Finish(r)
    BY <1>0, <1>10 DEF SaveSafe, Goto, Keeps
<1>11. CASE Broadcast(r) /\ ~Finish(r)
    BY <1>0, <1>11 DEF Broadcast, Goto, Keeps
<1>12. CASE SavePending(r) \/ Replace(r) \/ SaveFailed(r)
    BY <1>0, <1>12 DEF SavePending, Replace, SaveFailed, Goto, Keeps, Mem
<1> QED
    BY <1>1, <1>2, <1>3, <1>4, <1>5, <1>6, <1>7, <1>8, <1>9, <1>10, <1>11, <1>12 DEF Step

LEMMA StepKnowsHash ==
    ASSUME AInv, Next, NEW r \in Reqs, Step(r)
    PROVE  HashKnown(r)'
<1>1. /\ pc \in [Reqs -> Labels] /\ mem \in [Reqs -> Mem]
      /\ LabelOK(pc[r], job[r]) /\ HashKnown(r)
    BY DEF AInv, TInv, TypeOK, LabelsOK, HandlersKnow
<1>2. CASE LoadTx(r)
    <2>1. /\ mem'[r].hash = tx[job[r].tx].hash /\ job' = job /\ pc'[r] = "saveExecutable"
          /\ job[r].tx \in Txs /\ job[r].op \in {"create", "confirm"}
        BY <1>1, <1>2 DEF LoadTx, At, Goto, LabelOK, Mem
    <2>2. tx[job[r].tx].hash => Accepted(job[r].tx)
        BY <2>1 DEF AInv, RecordedIsAccepted
    <2>3. PICK t \in Txs : t = job[r].tx
        BY <2>1
    <2>4. Accepted(t) => Accepted(t)'
        BY AcceptedStays DEF AInv
    <2> QED
        BY <2>1, <2>2, <2>3, <2>4 DEF HashKnown, Accepted
<1>3. CASE ~LoadTx(r)
    <2> SUFFICES ASSUME mem'[r].hash PROVE HashKnown(r)'
        BY DEF HashKnown
    <2>1. /\ mem[r].hash /\ job'[r].op = job[r].op /\ job'[r].tx = job[r].tx
          /\ pc'[r] # "insertTx"
        BY <1>3, StepKeeps DEF Keeps
    <2>2. PICK t \in Txs : t = job[r].tx /\ Accepted(t)
        BY <1>1, <2>1 DEF HashKnown
    <2>3. Accepted(t)'
        BY <2>2, AcceptedStays DEF AInv
    <2> QED
        BY <1>1, <2>1, <2>2, <2>3 DEF HashKnown, Accepted
<1> QED
    BY <1>2, <1>3

LEMMA StepKnowsSent ==
    ASSUME AInv, Next, NEW r \in Reqs, Step(r)
    PROVE  SentIsAccepted(r)'
<1> SUFFICES ASSUME pc'[r] \in {"savePending", "replace"}
             PROVE  Accepted(job[r].tx)'
    BY DEF SentIsAccepted
<1>1. /\ pc \in [Reqs -> Labels] /\ chain \in [Txs -> {"none", "mempool", "ok", "failed"}]
      /\ LabelOK(pc[r], job[r]) /\ SentIsAccepted(r)
    BY DEF AInv, TInv, TypeOK, LabelsOK, HandlersKnow
<1>2. CASE Broadcast(r)
    <2>1. ChainAdds(job[r].tx) /\ job' = job /\ job[r].tx \in Txs
        BY <1>1, <1>2 DEF Broadcast, Finish, At, Goto, LabelOK
    <2> QED
        BY <1>1, <2>1 DEF ChainAdds, Accepted
<1>3. CASE SavePending(r)
    <2>1. job[r].tx \in Txs /\ Accepted(job[r].tx) /\ UNCHANGED <<chain, job>>
        BY <1>1, <1>3 DEF SavePending, At, SentIsAccepted, LabelOK, network
    <2> QED
        BY <2>1 DEF Accepted
<1>4. ~InsertVote(r)
    <2>1. ASSUME InsertVote(r) PROVE FALSE
        <3>1. job[r].op \in {"create", "confirm", "reject", "send"}
            BY <1>1, <2>1 DEF InsertVote, At, LabelOK
        <3> QED
            BY <1>1, <2>1, <3>1 DEF InsertVote, Goto
    <2> QED
        BY <2>1
<1>5. ~(ReadSafe(r) \/ InsertTx(r) \/ CheckSigned(r) \/ CountConfirms(r) \/ LoadTx(r))
    BY <1>1 DEF ReadSafe, InsertTx, CheckSigned, CountConfirms, LoadTx, Finish, Goto
<1>6. ~(SaveExecutable(r) \/ CountRejects(r) \/ Cancel(r) \/ DeleteRow(r) \/ BumpTag(r))
    BY <1>1 DEF SaveExecutable, CountRejects, Cancel, DeleteRow, BumpTag, Finish, Goto
<1>7. ~(RereadSafe(r) \/ ReadIndexer(r) \/ ReadQueue(r) \/ SaveSafe(r) \/ ReadSigs(r)
        \/ Replace(r) \/ SaveFailed(r))
    BY <1>1 DEF RereadSafe, ReadIndexer, ReadQueue, SaveSafe, ReadSigs, Replace, SaveFailed,
                Finish, Goto
<1> QED
    BY <1>2, <1>3, <1>4, <1>5, <1>6, <1>7 DEF Step

LEMMA FailKnows ==
    ASSUME AInv, Next, NEW r \in Reqs, Fail(r)
    PROVE  HashKnown(r)' /\ SentIsAccepted(r)'
<1>1. /\ pc \in [Reqs -> Labels] /\ mem \in [Reqs -> Mem] /\ HashKnown(r)
    BY DEF AInv, TInv, TypeOK, HandlersKnow
<1>2. CASE Finish(r)
    BY <1>1, <1>2 DEF Finish, Goto, NoMem, HashKnown, SentIsAccepted
<1>3. CASE ~Finish(r)
    BY <1>1, <1>3 DEF Fail, Goto, HashKnown, SentIsAccepted
<1> QED
    BY <1>2, <1>3

LEMMA HandlersKnowNext ==
    ASSUME AInv, Next, NEW q \in Reqs
    PROVE  HashKnown(q)' /\ SentIsAccepted(q)'
<1>1. ASSUME pc'[q] = pc[q], job'[q] = job[q], mem'[q] = mem[q]
      PROVE  HashKnown(q)' /\ SentIsAccepted(q)'
    <2>1. HashKnown(q) /\ SentIsAccepted(q) /\ LabelOK(pc[q], job[q])
        BY DEF AInv, HandlersKnow, TInv, LabelsOK
    <2>2. pc[q] \in {"savePending", "replace"} => job[q].tx \in Txs
        BY <2>1 DEF LabelOK
    <2>3. ASSUME job[q].tx \in Txs, Accepted(job[q].tx) PROVE Accepted(job[q].tx)'
        <3>1. PICK t \in Txs : t = job[q].tx
            BY <2>3
        <3>2. Accepted(t)'
            BY <2>3, <3>1, AcceptedStays DEF AInv
        <3> QED
            BY <1>1, <3>1, <3>2 DEF Accepted
    <2> QED
        BY <1>1, <2>1, <2>2, <2>3 DEF HashKnown, SentIsAccepted
<1>2. ASSUME NEW r \in Reqs, Start(r) \/ Step(r) \/ Fail(r)
      PROVE  HashKnown(q)' /\ SentIsAccepted(q)'
    <2>1. CASE q # r
        BY <1>1, <1>2, <2>1, OthersStay DEF AInv
    <2>2. CASE q = r
        BY <1>2, <2>2, StartKnows, StepKnowsHash, StepKnowsSent, FailKnows
    <2> QED
        BY <2>1, <2>2
<1>3. ASSUME NEW t \in Txs, Commit(t) \/ Sync(t)
      PROVE  HashKnown(q)' /\ SentIsAccepted(q)'
    BY <1>1, <1>3 DEF Commit, Sync
<1> QED
    BY <1>2, <1>3 DEF Next

LEMMA RecordedNext ==
    ASSUME AInv, Next, NEW t \in Txs, tx'[t].hash \/ tx'[t].status \in {"PENDING", "SUCCESS"}
    PROVE  Accepted(t)'
<1>1. RowStep(t)
    BY RowChange DEF AInv
<1>2. Accepted(t)
    <2>1. tx[t].hash \/ tx[t].status \in {"PENDING", "SUCCESS"} => Accepted(t)
        BY DEF AInv, RecordedIsAccepted
    <2>2. ASSUME NEW r \in Reqs, Written(r, t) PROVE Accepted(t)
        <3>1. HashKnown(r) /\ SentIsAccepted(r) /\ job[r].tx = t
            BY <2>2 DEF AInv, HandlersKnow, Written
        <3> QED
            BY <2>1, <2>2, <3>1 DEF Written, HashKnown, SentIsAccepted, At
    <2>3. ASSUME NEW r \in Reqs, Superseded(r, t) PROVE Accepted(t)
        BY <2>1, <2>3 DEF Superseded
    <2> QED
        BY <1>1, <2>1, <2>2, <2>3 DEF RowStep, Inserted, Synced
<1> QED
    BY <1>2, AcceptedStays DEF AInv

LEMMA NextAInv == AInv /\ [Next]_vars => AInv'
<1> SUFFICES ASSUME AInv, [Next]_vars PROVE AInv'
    OBVIOUS
<1>1. TInv'
    BY NextTInv DEF AInv
<1>2. CASE UNCHANGED vars
    BY <1>1, <1>2
    DEF AInv, vars, HandlersKnow, HashKnown, SentIsAccepted, RecordedIsAccepted, Accepted
<1>3. CASE Next
    <2>1. HandlersKnow'
        BY <1>3, HandlersKnowNext DEF HandlersKnow
    <2>2. RecordedIsAccepted'
        BY <1>3, RecordedNext DEF RecordedIsAccepted
    <2> QED
        BY <1>1, <2>1, <2>2 DEF AInv
<1> QED
    BY <1>2, <1>3

LEMMA InitAInv == Init => AInv
    BY InitTInv
    DEF Init, AInv, HandlersKnow, HashKnown, SentIsAccepted, RecordedIsAccepted, NoMem

LEMMA AlwaysAInv == Spec => []AInv
    BY InitAInv, NextAInv, PTL DEF Spec

\* No row claims more than the chain did: PENDING, SUCCESS and a TxHash appear
\* only on accepted transactions, also when updateAwaitingExecutionTx, cancelTx
\* or updateFailedTx save an entity that was read before another handler wrote.
THEOREM RecordedIsAcceptedAlways == Spec => []RecordedIsAccepted
<1>1. AInv => RecordedIsAccepted
    BY DEF AInv
<1> QED
    BY <1>1, AlwaysAInv, PTL

-----------------------------------------------------------------------------
(* Rows that exist. *)

Exists(t) == tx[t].status # "NONE"

HandledExist ==
    \A r \in Reqs : pc[r] \notin {"idle", "done", "insertTx"} => Exists(job[r].tx)
AcceptedExist == \A t \in Txs : Accepted(t) => Exists(t)
VotedExist == \A v \in votes : Exists(v.tx)

XInv == AInv /\ HandledExist /\ AcceptedExist /\ VotedExist

LEMMA ExistsStays ==
    ASSUME TInv, Next, NEW t \in Txs, Exists(t)
    PROVE  Exists(t)' /\ tx'[t].seq = tx[t].seq
<1>1. RowStep(t)
    BY RowChange
<1> QED
    BY <1>1 DEF RowStep, Inserted, Written, Superseded, Synced, Exists

\* A handler comes to work on a transaction by reading or by inserting its row.
LEMMA HandledExistNext ==
    ASSUME XInv, Next, NEW q \in Reqs, pc'[q] \notin {"idle", "done", "insertTx"}
    PROVE  Exists(job[q].tx)'
<1>0. /\ pc \in [Reqs -> Labels] /\ job \in [Reqs -> Job] /\ tx \in [Txs -> TxRow]
      /\ LabelOK(pc[q], job[q])
      /\ TInv
    BY DEF XInv, AInv, TInv, TypeOK, LabelsOK
<1>1. ASSUME pc[q] \notin {"idle", "done", "insertTx"}, job'[q].tx = job[q].tx
      PROVE  Exists(job[q].tx)'
    <2>1. PICK t \in Txs : t = job[q].tx /\ Exists(t)
        BY <1>0, <1>1 DEF XInv, HandledExist, LabelOK
    <2> QED
        BY <1>0, <1>1, <2>1, ExistsStays DEF Exists
<1>2. ASSUME Start(q) PROVE Exists(job[q].tx)'
    BY <1>0, <1>2
    DEF Start, StartCreate, StartConfirm, StartReject, StartDelete, StartChange, StartSend,
        Begin, Goto, rows, Exists
<1>3. ASSUME InsertTx(q) PROVE Exists(job[q].tx)'
    BY <1>0, <1>3 DEF InsertTx, Goto, Exists
<1>4. ASSUME Step(q), ~InsertTx(q)
      PROVE  pc[q] \notin {"idle", "done", "insertTx"} /\ job'[q].tx = job[q].tx
    <2>1. CASE Finish(q)
        BY <1>0, <2>1 DEF Finish, Goto
    <2>2. CASE ReadSafe(q)
        BY <1>0, <2>2 DEF ReadSafe, At, Goto
    <2>3. CASE CheckSigned(q) \/ InsertVote(q) \/ CountConfirms(q) \/ LoadTx(q) \/ SaveExecutable(q)
        BY <2>1, <2>3 DEF CheckSigned, InsertVote, CountConfirms, LoadTx, SaveExecutable, At
    <2>4. CASE CountRejects(q) \/ Cancel(q) \/ DeleteRow(q) \/ BumpTag(q) \/ RereadSafe(q)
        BY <2>1, <2>4 DEF CountRejects, Cancel, DeleteRow, BumpTag, RereadSafe, At
    <2>5. CASE ReadIndexer(q) \/ ReadQueue(q) \/ SaveSafe(q) \/ ReadSigs(q) \/ Broadcast(q)
        BY <2>1, <2>5 DEF ReadIndexer, ReadQueue, SaveSafe, ReadSigs, Broadcast, At
    <2>6. CASE SavePending(q) \/ Replace(q) \/ SaveFailed(q)
        BY <2>6 DEF SavePending, Replace, SaveFailed, At
    <2> QED
        BY <1>4, <2>2, <2>3, <2>4, <2>5, <2>6 DEF Step
<1>5. ASSUME Fail(q)
      PROVE  pc[q] \notin {"idle", "done", "insertTx"} /\ job'[q].tx = job[q].tx
    <2>1. ~Finish(q)
        BY <1>0 DEF Finish, Goto
    <2> QED
        BY <1>0, <1>5, <2>1 DEF Fail, InFlight, LabelOK
<1>6. ASSUME NEW r \in Reqs, Start(r) \/ Step(r) \/ Fail(r), q # r
      PROVE  pc[q] \notin {"idle", "done", "insertTx"} /\ job'[q].tx = job[q].tx
    BY <1>0, <1>6, OthersStay
<1>7. ASSUME NEW t \in Txs, Commit(t) \/ Sync(t)
      PROVE  pc[q] \notin {"idle", "done", "insertTx"} /\ job'[q].tx = job[q].tx
    BY <1>7 DEF Commit, Sync
<1> QED
    BY <1>1, <1>2, <1>3, <1>4, <1>5, <1>6, <1>7 DEF Next

LEMMA AcceptedBefore ==
    ASSUME XInv, Next, NEW t \in Txs, Accepted(t)'
    PROVE  Accepted(t) \/ \E r \in Reqs : Took(r) /\ job[r].tx = t
<1>0. chain \in [Txs -> {"none", "mempool", "ok", "failed"}]
    BY DEF XInv, AInv, TInv, TypeOK
<1>1. CASE UNCHANGED network
    BY <1>1 DEF network, Accepted
<1>2. CASE \E r \in Reqs : Took(r)
    BY <1>0, <1>2 DEF Took, ChainAdds, Accepted
<1>3. CASE \E u \in Txs : Commit(u)
    BY <1>0, <1>3 DEF Commit, Accepted
<1> QED
    BY <1>1, <1>2, <1>3, ChainChange

LEMMA NextXInv == XInv /\ [Next]_vars => XInv'
<1> SUFFICES ASSUME XInv, [Next]_vars PROVE XInv'
    OBVIOUS
<1>1. AInv'
    BY NextAInv DEF XInv
<1>2. CASE UNCHANGED vars
    BY <1>1, <1>2 DEF XInv, vars, HandledExist, AcceptedExist, VotedExist, Exists, Accepted
<1>3. CASE Next
    <2>0. TInv /\ LabelsOK
        BY DEF XInv, AInv, TInv
    <2>1. HandledExist'
        <3> SUFFICES ASSUME NEW r \in Reqs, pc'[r] \notin {"idle", "done", "insertTx"}
                     PROVE  Exists(job[r].tx)'
            BY DEF HandledExist
        <3> QED
            BY <1>3, HandledExistNext
    <2>2. AcceptedExist'
        <3> SUFFICES ASSUME NEW t \in Txs, Accepted(t)' PROVE Exists(t)'
            BY DEF AcceptedExist
        <3>1. Exists(t)
            BY <1>3, AcceptedBefore DEF XInv, AcceptedExist, HandledExist, Took, At
        <3> QED
            BY <1>3, <2>0, <3>1, ExistsStays
    <2>3. VotedExist'
        <3> SUFFICES ASSUME NEW v \in votes' PROVE Exists(v.tx)'
            BY DEF VotedExist
        <3>1. v.tx \in Txs /\ Exists(v.tx)
            <4>1. CASE v \in votes
                BY <4>1 DEF XInv, AInv, TInv, TypeOK, VotedExist
            <4>2. CASE v \notin votes
                <5>0. PICK r \in Reqs : \E w : Voted(r, w)
                    BY <1>3, <4>2, VotesChange
                <5>1. PICK w : Voted(r, w)
                    BY <5>0
                <5>2. v = w /\ At(r, "insertVote")
                    BY <4>2, <5>1 DEF Voted
                <5>3. v.tx = job[r].tx
                    BY <5>1, <5>2 DEF Voted, NewVote
                <5> QED
                    BY <2>0, <5>2, <5>3 DEF XInv, HandledExist, LabelsOK, LabelOK, At
            <4> QED
                BY <4>1, <4>2
        <3> QED
            BY <1>3, <2>0, <3>1, ExistsStays
    <2> QED
        BY <1>1, <2>1, <2>2, <2>3 DEF XInv
<1> QED
    BY <1>2, <1>3

LEMMA InitXInv == Init => XInv
    BY InitAInv DEF Init, XInv, HandledExist, AcceptedExist, VotedExist, Accepted

LEMMA AlwaysXInv == Spec => []XInv
    BY InitXInv, NextXInv, PTL DEF Spec

-----------------------------------------------------------------------------
(* A replaced transaction lost its sequence. *)

RInv == XInv /\ ReplacedLostItsSequence

LEMMA NextRInv == RInv /\ [Next]_vars => RInv'
<1> SUFFICES ASSUME RInv, [Next]_vars PROVE RInv'
    OBVIOUS
<1>1. XInv'
    BY NextXInv DEF RInv
<1>2. CASE UNCHANGED vars
    BY <1>1, <1>2 DEF RInv, vars, ReplacedLostItsSequence, Accepted
<1>3. CASE Next
    <2>0. TInv /\ LabelsOK
        BY DEF RInv, XInv, AInv, TInv
    <2> SUFFICES ASSUME NEW t \in Txs, tx'[t].status = "REPLACED"
                 PROVE  \E u \in Txs : Accepted(u)' /\ tx'[u].seq = tx'[t].seq
        BY <1>1 DEF RInv, ReplacedLostItsSequence
    <2>1. RowStep(t)
        BY <1>3, <2>0, RowChange
    <2>2. \E u \in Txs : Accepted(u) /\ tx[u].seq = tx[t].seq /\ Exists(t)
        <3>1. CASE tx[t].status = "REPLACED"
            BY <3>1 DEF RInv, ReplacedLostItsSequence, Exists
        <3>2. CASE tx[t].status # "REPLACED"
            <4>1. PICK r \in Reqs : Superseded(r, t)
                BY <2>1, <3>2 DEF RowStep, Inserted, Written, Synced
            <4>2. job[r].tx \in Txs /\ Accepted(job[r].tx)
                BY <2>0, <4>1 DEF Superseded, At, LabelsOK, LabelOK,
                                  RInv, XInv, AInv, HandlersKnow, SentIsAccepted
            <4> QED
                BY <4>1, <4>2 DEF Superseded, Exists, Queued
        <3> QED
            BY <3>1, <3>2
    <2>3. PICK u \in Txs : Accepted(u) /\ tx[u].seq = tx[t].seq /\ Exists(t)
        BY <2>2
    <2>4. Accepted(u)'
        BY <1>3, <2>0, <2>3, AcceptedStays
    <2>5. Exists(u)
        BY <2>3 DEF RInv, XInv, AcceptedExist
    <2> QED
        BY <1>3, <2>0, <2>3, <2>4, <2>5, ExistsStays
<1> QED
    BY <1>2, <1>3

\* updateQueueTxToReplaced reads the sequence of the transaction it was called
\* for after other handlers ran; still whatever it marks REPLACED shares its
\* sequence with a transaction the chain accepted.
THEOREM ReplacedLostItsSequenceAlways == Spec => []ReplacedLostItsSequence
<1>1. Init => RInv
    BY InitXInv DEF Init, RInv, ReplacedLostItsSequence
<1>2. RInv => ReplacedLostItsSequence
    BY DEF RInv
<1> QED
    BY <1>1, <1>2, NextRInv, PTL DEF Spec
-----------------------------------------------------------------------------
(* The sequence in the safe row is behind the chain. *)

AcceptedSeqs == \A t \in Txs : Accepted(t) => tx[t].seq < account.next
ReadSequences == \A r \in Reqs : mem[r].safe.sequence <= account.next

QInv == XInv /\ AcceptedSeqs /\ ReadSequences /\ SafeSequenceBehindChain

LEMMA AccountGrows ==
    ASSUME TInv, Next
    PROVE  /\ account.next \in Nat /\ account'.next \in Nat
           /\ account.next <= account'.next
<1>0. account \in [next : Nat, committed : Nat]
    BY DEF TInv, TypeOK
<1>1. CASE UNCHANGED network
    BY <1>0, <1>1 DEF network
<1>2. CASE \E r \in Reqs : Took(r)
    <2>1. account' = [account EXCEPT !.next = account.next + 1]
        BY <1>2 DEF Took, ChainAdds
    <2> QED
        BY <1>0, <2>1
<1>3. CASE \E t \in Txs : Commit(t)
    <2>1. PICK n : account' = [account EXCEPT !.committed = n]
        BY <1>3 DEF Commit
    <2> QED
        BY <1>0, <2>1
<1> QED
    BY <1>1, <1>2, <1>3, ChainChange

LEMMA AcceptedSeqsNext ==
    ASSUME QInv, Next
    PROVE  AcceptedSeqs'
<1>0. TInv
    BY DEF QInv, XInv, AInv
<1> SUFFICES ASSUME NEW t \in Txs, Accepted(t)'
             PROVE  tx'[t].seq < account'.next
    BY DEF AcceptedSeqs
<1>1. CASE Accepted(t)
    <2>1. tx'[t].seq = tx[t].seq /\ tx[t].seq < account.next /\ tx[t].seq \in Nat
        BY <1>0, <1>1, ExistsStays
        DEF QInv, XInv, AcceptedExist, AcceptedSeqs, TInv, TypeOK, TxRow
    <2> QED
        BY <1>0, <2>1, AccountGrows
<1>2. CASE ~Accepted(t)
    <2>1. PICK r \in Reqs : Took(r) /\ job[r].tx = t
        BY <1>2, AcceptedBefore DEF QInv
    <2>2. tx' = tx /\ tx[t].seq = account.next /\ account.next \in Nat
        BY <1>0, <2>1, AccountGrows DEF Took, ChainTakes
    <2>3. account' = [account EXCEPT !.next = account.next + 1]
        BY <2>1 DEF Took, ChainAdds
    <2>4. account'.next = account.next + 1
        BY <1>0, <2>3 DEF TInv, TypeOK
    <2> QED
        BY <2>2, <2>4
<1> QED
    BY <1>1, <1>2

\* What a handler has read of the safe changes by reading it anew or in Replace.
LEMMA SequenceRead ==
    ASSUME QInv, Next, NEW q \in Reqs
    PROVE  \/ mem'[q].safe.sequence \in {mem[q].safe.sequence, safe.sequence, 0}
           \/ At(q, "replace") /\ mem'[q].safe.sequence = tx[job[q].tx].seq + 1
<1> DEFINE Good == \/ mem'[q].safe.sequence \in {mem[q].safe.sequence, safe.sequence, 0}
                   \/ At(q, "replace") /\ mem'[q].safe.sequence = tx[job[q].tx].seq + 1
<1>0. mem \in [Reqs -> Mem] /\ safe \in SafeRow /\ TInv
    BY DEF QInv, XInv, AInv, TInv, TypeOK
<1>1. ASSUME NEW r \in Reqs, Finish(r) PROVE Good
    BY <1>0, <1>1 DEF Finish, NoMem, NewSafe
<1>2. ASSUME NEW r \in Reqs, Start(r) PROVE Good
    BY <1>0, <1>2
    DEF Start, StartCreate, StartConfirm, StartReject, StartDelete, StartChange, StartSend, Mem
<1>3. ASSUME NEW r \in Reqs, Fail(r) PROVE Good
    BY <1>1, <1>3 DEF Fail
<1>4. ASSUME NEW r \in Reqs, Replace(r) PROVE Good
    <2>1. mem' = [mem EXCEPT ![r] = [mem[r] EXCEPT !.safe.sequence = tx[job[r].tx].seq + 1,
                                                  !.base = tx[job[r].tx].seq + 1]]
        BY <1>0, <1>4 DEF Replace
    <2> QED
        BY SMTT(40), <1>0, <1>4, <2>1 DEF Replace, Mem, SafeRow
<1>5. ASSUME NEW r \in Reqs,
             ReadSafe(r) \/ LoadTx(r) \/ RereadSafe(r) \/ ReadIndexer(r) \/ SaveFailed(r)
      PROVE  Good
    <2>1. CASE ReadSafe(r)
        BY <1>0, <2>1 DEF ReadSafe, Mem, SafeRow
    <2>2. CASE LoadTx(r)
        BY <1>0, <2>2 DEF LoadTx, Mem, SafeRow
    <2>3. CASE RereadSafe(r)
        BY <1>0, <2>3 DEF RereadSafe, Mem, SafeRow
    <2>4. CASE ReadIndexer(r)
        BY <1>0, <2>4 DEF ReadIndexer, Mem, SafeRow
    <2>5. CASE SaveFailed(r)
        <3>1. mem' = [mem EXCEPT ![r].base = tx[job[r].tx].seq]
            BY <2>5 DEF SaveFailed
        <3> QED
            BY <1>0, <3>1 DEF Mem
    <2> QED
        BY <1>5, <2>1, <2>2, <2>3, <2>4, <2>5
<1>6. ASSUME NEW r \in Reqs, ReadQueue(r) PROVE Good
    <2>1. PICK n : mem' = [mem EXCEPT ![r].safe.nextQueueSeq = n]
        BY <1>6 DEF ReadQueue
    <2> QED
        BY <1>0, <2>1 DEF Mem, SafeRow
<1>7. ASSUME NEW r \in Reqs, ReadSigs(r) PROVE Good
    <2>1. PICK v : mem' = [mem EXCEPT ![r].valid = v]
        BY <1>7 DEF ReadSigs
    <2> QED
        BY <1>0, <2>1 DEF Mem
<1>8. ASSUME NEW r \in Reqs, Step(r), ~Finish(r), ~Replace(r), ~ReadQueue(r), ~ReadSigs(r),
             ~(ReadSafe(r) \/ LoadTx(r) \/ RereadSafe(r) \/ ReadIndexer(r) \/ SaveFailed(r))
      PROVE  mem' = mem
    BY <1>8
    DEF Step, InsertTx, CheckSigned, InsertVote, CountConfirms, SaveExecutable, CountRejects,
        Cancel, DeleteRow, BumpTag, SaveSafe, Broadcast, SavePending
<1>9. ASSUME NEW t \in Txs, Commit(t) \/ Sync(t) PROVE mem' = mem
    BY <1>9 DEF Commit, Sync
<1> QED
    BY <1>1, <1>2, <1>3, <1>4, <1>5, <1>6, <1>7, <1>8, <1>9 DEF Next

LEMMA ReadSequencesNext ==
    ASSUME QInv, Next
    PROVE  ReadSequences'
<1>0. TInv /\ LabelsOK
    BY DEF QInv, XInv, AInv, TInv
<1> SUFFICES ASSUME NEW r \in Reqs
             PROVE  mem'[r].safe.sequence <= account'.next
    BY DEF ReadSequences
<1>1. /\ mem[r].safe.sequence \in Nat /\ mem[r].safe.sequence <= account.next
      /\ safe.sequence \in Nat /\ safe.sequence <= account.next
    BY <1>0 DEF QInv, ReadSequences, SafeSequenceBehindChain, TInv, TypeOK, Mem, SafeRow
<1>2. At(r, "replace") => /\ tx[job[r].tx].seq \in Nat
                          /\ tx[job[r].tx].seq < account.next
    BY <1>0 DEF At, LabelsOK, LabelOK, TInv, TypeOK, TxRow,
                QInv, XInv, AInv, HandlersKnow, SentIsAccepted, AcceptedSeqs
<1> QED
    BY <1>0, <1>1, <1>2, SequenceRead, AccountGrows

\* What one step does to the row of the safe, and to the time the queue's tag was
\* last set: beside the columns of the history, BumpTag and SaveSafe write it.
KeepsQueueColumns ==
    /\ safe'.sequence = safe.sequence /\ safe'.nextQueueSeq = safe.nextQueueSeq
    /\ safe'.queuedTag = safe.queuedTag /\ stamps'.queued = stamps.queued
Bumps(r) ==
    /\ At(r, "bumpTag") /\ pc'[r] # "bumpTag"
    /\ safe'.sequence = safe.sequence /\ safe'.nextQueueSeq = safe.nextQueueSeq
    /\ safe'.queuedTag = stamps'.queued
Saves(r) ==
    /\ At(r, "saveSafe") /\ pc'[r] # "saveSafe"
    /\ safe' = mem[r].safe /\ UNCHANGED <<tx, votes, stamps>>

LEMMA SafeChange ==
    ASSUME TInv, Next
    PROVE  KeepsQueueColumns \/ \E r \in Reqs : Bumps(r) \/ Saves(r)
<1>0. /\ safe \in SafeRow /\ stamps \in [queued : Nat, history : Nat]
      /\ pc \in [Reqs -> Labels] /\ \A r \in Reqs : LabelOK(pc[r], job[r])
    BY DEF TInv, TypeOK, LabelsOK
<1>1. ASSUME NEW t, NEW row, Store(t, row) PROVE KeepsQueueColumns
    BY <1>0, <1>1 DEF Store, SafeRow, KeepsQueueColumns
<1>2. ASSUME UNCHANGED <<safe, stamps>> PROVE KeepsQueueColumns
    BY <1>2 DEF KeepsQueueColumns
<1>3. ASSUME NEW r \in Reqs, Start(r) \/ Fail(r) PROVE UNCHANGED <<safe, stamps>>
    BY <1>3
    DEF Start, StartCreate, StartConfirm, StartReject, StartDelete, StartChange, StartSend,
        Begin, Fail, rows
<1>4. ASSUME NEW r \in Reqs,
             SaveExecutable(r) \/ Cancel(r) \/ DeleteRow(r) \/ SavePending(r) \/ SaveFailed(r)
      PROVE  KeepsQueueColumns
    BY <1>1, <1>4 DEF SaveExecutable, Cancel, DeleteRow, SavePending, SaveFailed
<1>5. ASSUME NEW r \in Reqs, BumpTag(r) PROVE Bumps(r)
    <2>1. /\ safe'.sequence = safe.sequence /\ safe'.nextQueueSeq = safe.nextQueueSeq
          /\ safe'.queuedTag = stamps'.queued
        BY <1>0, <1>5 DEF BumpTag, SafeRow
    <2>2. At(r, "bumpTag") /\ pc'[r] # "bumpTag"
        <3>1. CASE Finish(r)
            BY <1>0, <1>5, <3>1 DEF BumpTag, Finish, Goto
        <3>2. CASE ~Finish(r)
            <4>1. \E l \in {"readIndexer", "broadcast", "rereadSafe"} : Goto(r, l)
                BY <1>5, <3>2 DEF BumpTag
            <4> QED
                BY <1>0, <1>5, <4>1 DEF BumpTag, Goto
        <3> QED
            BY <3>1, <3>2
    <2> QED
        BY <2>1, <2>2 DEF Bumps
<1>6. ASSUME NEW r \in Reqs, SaveSafe(r) PROVE Saves(r)
    BY <1>0, <1>6 DEF SaveSafe, Saves, At, Goto, Finish
<1>7. ASSUME NEW r \in Reqs, Step(r), ~SaveSafe(r), ~BumpTag(r),
             ~(SaveExecutable(r) \/ Cancel(r) \/ DeleteRow(r) \/ SavePending(r) \/ SaveFailed(r))
      PROVE  UNCHANGED <<safe, stamps>>
    BY <1>7
    DEF Step, ReadSafe, InsertTx, CheckSigned, InsertVote, CountConfirms, LoadTx, CountRejects,
        RereadSafe, ReadIndexer, ReadQueue, ReadSigs, Broadcast, Replace, rows
<1>8. ASSUME NEW t \in Txs, Commit(t) \/ Sync(t) PROVE KeepsQueueColumns
    BY <1>1, <1>2, <1>8 DEF Commit, Sync, rows
<1> QED
    BY <1>2, <1>3, <1>4, <1>5, <1>6, <1>7, <1>8 DEF Next

LEMMA NextQInv == QInv /\ [Next]_vars => QInv'
<1> SUFFICES ASSUME QInv, [Next]_vars PROVE QInv'
    OBVIOUS
<1>1. XInv'
    BY NextXInv DEF QInv
<1>2. CASE UNCHANGED vars
    BY <1>1, <1>2
    DEF QInv, vars, AcceptedSeqs, ReadSequences, SafeSequenceBehindChain, Accepted
<1>3. CASE Next
    <2>0. TInv
        BY DEF QInv, XInv, AInv
    <2>1. /\ safe.sequence \in Nat /\ safe.sequence <= account.next
          /\ \A r \in Reqs : mem[r].safe.sequence \in Nat
                          /\ mem[r].safe.sequence <= account.next
        BY <2>0 DEF QInv, ReadSequences, SafeSequenceBehindChain, TInv, TypeOK, Mem, SafeRow
    <2>2. safe'.sequence <= account'.next
        BY <1>3, <2>0, <2>1, SafeChange, AccountGrows DEF KeepsQueueColumns, Bumps, Saves
    <2> QED
        BY <1>1, <1>3, <2>2, AcceptedSeqsNext, ReadSequencesNext DEF QInv, SafeSequenceBehindChain
<1> QED
    BY <1>2, <1>3

LEMMA InitQInv == Init => QInv
    BY InitXInv
    DEF Init, QInv, AcceptedSeqs, ReadSequences, SafeSequenceBehindChain, Accepted, NoMem, NewSafe

\* The safe never shows a sequence the chain has not reached, although
\* updateSafe saves entities that were read while other sends were running.
THEOREM SafeSequenceBehindChainAlways == Spec => []SafeSequenceBehindChain
<1>1. QInv => SafeSequenceBehindChain
    BY DEF QInv
<1> QED
    BY <1>1, InitQInv, NextQInv, PTL DEF Spec
-----------------------------------------------------------------------------
(* A collected threshold is noticed. *)

Noticing(t) ==
    \E r \in Reqs : /\ job[r].tx = t
                    /\ pc[r] \in {"countConfirms", "loadTx", "saveExecutable"}

NInv == XInv /\ NoLostThreshold

\* The handler that is on its way to the status gets there, or stops.
LEMMA NoticingStays ==
    ASSUME TInv, Next, NEW t \in Txs, Noticing(t), Executable(t), failures' = failures,
           tx'[t].status # "AWAITING_EXECUTION"
    PROVE  Noticing(t)'
<1>0. /\ pc \in [Reqs -> Labels] /\ job \in [Reqs -> Job] /\ tx \in [Txs -> TxRow]
      /\ failures \in Nat
    BY DEF TInv, TypeOK
<1>1. PICK r \in Reqs : job[r].tx = t /\ pc[r] \in {"countConfirms", "loadTx", "saveExecutable"}
    BY DEF Noticing
<1>2. ASSUME NEW q \in Reqs, Start(q) \/ Step(q) \/ Fail(q), q # r PROVE Noticing(t)'
    BY <1>1, <1>2, OthersStay DEF Noticing
<1>3. ~Start(r)
    BY <1>1
    DEF Start, StartCreate, StartConfirm, StartReject, StartDelete, StartChange, StartSend,
        Begin, At
<1>4. ASSUME Fail(r) PROVE FALSE
    BY <1>0, <1>4 DEF Fail
<1>5. ASSUME CountConfirms(r) PROVE Noticing(t)'
    <2>1. Goto(r, "loadTx") /\ job' = job
        BY <1>1, <1>5 DEF CountConfirms
    <2> QED
        BY <1>0, <1>1, <2>1 DEF Goto, Noticing
<1>6. ASSUME LoadTx(r) PROVE Noticing(t)'
    <2>1. Goto(r, "saveExecutable") /\ job' = job
        BY <1>6 DEF LoadTx
    <2> QED
        BY <1>0, <1>1, <2>1 DEF Goto, Noticing
<1>7. ASSUME SaveExecutable(r) PROVE FALSE
    <2>1. tx' = [tx EXCEPT ![t] = [tx[t] EXCEPT !.status = "AWAITING_EXECUTION",
                                                !.hash = mem[r].hash]]
        BY <1>1, <1>7 DEF SaveExecutable, Store
    <2> QED
        BY <1>0, <2>1 DEF TxRow
<1>8. ASSUME Step(r) PROVE CountConfirms(r) \/ LoadTx(r) \/ SaveExecutable(r)
    BY <1>1, <1>8
    DEF Step, At, ReadSafe, InsertTx, CheckSigned, InsertVote, CountRejects, Cancel, DeleteRow,
        BumpTag, RereadSafe, ReadIndexer, ReadQueue, SaveSafe, ReadSigs, Broadcast, SavePending,
        Replace, SaveFailed
<1>9. ASSUME NEW u \in Txs, Commit(u) \/ Sync(u) PROVE Noticing(t)'
    BY <1>1, <1>9 DEF Commit, Sync, Noticing
<1> QED
    BY <1>2, <1>3, <1>4, <1>5, <1>6, <1>7, <1>8, <1>9 DEF Next

\* The handler whose vote completes the threshold is about to count.
LEMMA CompletingCounts ==
    ASSUME XInv, Next, NEW t \in Txs, ~Executable(t), Executable(t)'
    PROVE  Noticing(t)'
<1>0. /\ pc \in [Reqs -> Labels] /\ job \in [Reqs -> Job]
      /\ \A r \in Reqs : LabelOK(pc[r], job[r])
    BY DEF XInv, AInv, TInv, TypeOK, LabelsOK
<1>1. votes' # votes
    BY DEF Executable, Confirms, Rows
<1>a. PICK r \in Reqs : \E v : Voted(r, v)
    BY <1>1, VotesChange
<1>2. PICK v : Voted(r, v)
    BY <1>a
<1>3. v.tx = t /\ v.kind = "CONFIRM"
    <2>1. ASSUME ~(v.tx = t /\ v.kind = "CONFIRM") PROVE FALSE
        <3>1. Confirms(t)' = Confirms(t)
            BY <1>2, <2>1 DEF Voted, Confirms, Rows
        <3> QED
            BY <3>1 DEF Executable
    <2> QED
        BY <2>1
<1>4. job[r].tx = t /\ VoteKind(job[r].op) = "CONFIRM"
    BY <1>2, <1>3 DEF Voted, NewVote
<1>5. job[r].op \in {"create", "confirm"}
    <2>1. job[r].op \in {"create", "confirm", "reject", "send"}
        BY <1>0, <1>2 DEF Voted, At, LabelOK
    <2> QED
        BY <1>4, <2>1 DEF VoteKind
<1>6. Goto(r, "countConfirms") /\ job' = job
    BY <1>2, <1>5 DEF Voted
<1> QED
    BY <1>0, <1>4, <1>6 DEF Goto, Noticing

\* A new row has no votes.
LEMMA NewHasNoThreshold ==
    ASSUME XInv, Next, NEW t \in Txs, ~Exists(t)
    PROVE  ~Executable(t)'
<1>0. \A r \in Reqs : LabelOK(pc[r], job[r])
    BY DEF XInv, AInv, TInv, LabelsOK
<1>1. \A v \in votes : v.tx # t
    BY DEF XInv, VotedExist
<1>2. \A v \in votes' : v.tx # t
    <2>1. ASSUME NEW r \in Reqs, NEW w, Voted(r, w) PROVE w.tx # t
        BY <1>0, <2>1 DEF Voted, NewVote, At, XInv, HandledExist
    <2>2. ASSUME NEW r \in Reqs, NEW w, Voted(r, w) PROVE votes' = votes \union {w}
        BY <2>2 DEF Voted
    <2> QED
        BY <1>1, <2>1, <2>2, VotesChange
<1>3. Confirms(t)' = {}
    BY <1>2 DEF Confirms, Rows
<1>4. Cardinality(Confirms(t)') = 0
    BY <1>3, FS_EmptySet
<1>5. Threshold >= 1 /\ Threshold \in Nat
    BY TxHandlersAssumption, FS_CardinalityType
<1> QED
    BY <1>4, <1>5 DEF Executable

LEMMA NoFailureBefore ==
    ASSUME TInv, Next, failures' = 0
    PROVE  failures = 0
<1>0. failures \in Nat
    BY DEF TInv, TypeOK
<1>1. ASSUME NEW r \in Reqs, Start(r) PROVE failures' = failures
    BY <1>1
    DEF Start, StartCreate, StartConfirm, StartReject, StartDelete, StartChange, StartSend, Begin
<1>2. ASSUME NEW r \in Reqs, Fail(r) PROVE FALSE
    BY <1>0, <1>2 DEF Fail
<1>3. ASSUME NEW r \in Reqs, Step(r) PROVE failures' = failures
    BY <1>3
    DEF Step, ReadSafe, InsertTx, CheckSigned, InsertVote, CountConfirms, LoadTx, SaveExecutable,
        CountRejects, Cancel, DeleteRow, BumpTag, RereadSafe, ReadIndexer, ReadQueue, SaveSafe,
        ReadSigs, Broadcast, SavePending, Replace, SaveFailed
<1>4. ASSUME NEW t \in Txs, Commit(t) \/ Sync(t) PROVE failures' = failures
    BY <1>4 DEF Commit, Sync
<1> QED
    BY <1>1, <1>2, <1>3, <1>4 DEF Next

LEMMA NextNInv == NInv /\ [Next]_vars => NInv'
<1> SUFFICES ASSUME NInv, [Next]_vars PROVE NInv'
    OBVIOUS
<1>1. XInv'
    BY NextXInv DEF NInv
<1>2. CASE UNCHANGED vars
    BY <1>1, <1>2 DEF NInv, vars, NoLostThreshold, Executable, Confirms, Rows
<1>3. CASE Next
    <2>0. TInv
        BY DEF NInv, XInv, AInv
    <2> SUFFICES ASSUME failures' = 0, NEW t \in Txs,
                        tx'[t].status = "AWAITING_CONFIRMATIONS", Executable(t)'
                 PROVE  Noticing(t)'
        BY <1>1 DEF NInv, NoLostThreshold, Noticing
    <2>1. failures = 0
        BY <1>3, <2>0, NoFailureBefore
    <2>2. tx[t].status = "AWAITING_CONFIRMATIONS"
        <3>1. Exists(t)
            BY <1>3, NewHasNoThreshold DEF NInv
        <3>2. RowStep(t)
            BY <1>3, <2>0, RowChange
        <3> QED
            BY <3>1, <3>2 DEF RowStep, Inserted, Written, Superseded, Synced, Exists
    <2>3. CASE Executable(t)
        <3>1. Noticing(t)
            BY <2>1, <2>2, <2>3 DEF NInv, NoLostThreshold, Noticing
        <3> QED
            BY <1>3, <2>0, <2>1, <2>3, <3>1, NoticingStays
    <2>4. CASE ~Executable(t)
        BY <1>3, <2>4, CompletingCounts DEF NInv
    <2> QED
        BY <2>3, <2>4
<1> QED
    BY <1>2, <1>3

\* As long as no handler stops halfway, confirmations that race with each other
\* cannot leave a transaction with its threshold in AWAITING_CONFIRMATIONS and
\* nobody about to change that.
THEOREM NoLostThresholdAlways == Spec => []NoLostThreshold
<1>1. Init => NInv
    BY InitXInv DEF Init, NInv, NoLostThreshold
<1>2. NInv => NoLostThreshold
    BY DEF NInv
<1> QED
    BY <1>1, <1>2, NextNInv, PTL DEF Spec

-----------------------------------------------------------------------------
(* What makeTx assembled is signed by enough owners. *)

EnoughSigned(t) == Cardinality(Signers(t)) >= Threshold

AssembledIsSigned(r) ==
    mem[r].valid => job[r].op = "send" /\ job[r].tx \in Txs /\ EnoughSigned(job[r].tx)

SInv == XInv /\ \A r \in Reqs : AssembledIsSigned(r)

LEMMA SignersFinite ==
    ASSUME TInv, NEW t
    PROVE  Signers(t) \subseteq Owners /\ IsFiniteSet(Signers(t))
<1>1. Signers(t) \subseteq Owners
    BY DEF TInv, TypeOK, Signers, OwnersOf, Confirms, Rows
<1> QED
    BY <1>1, FS_Subset, TxHandlersAssumption

LEMMA EnoughStays ==
    ASSUME TInv, TInv', Next, NEW t, EnoughSigned(t)
    PROVE  EnoughSigned(t)'
<1>1. votes \subseteq votes'
    BY VotesChange DEF Voted
<1>2. Signers(t) \subseteq Signers(t)'
    BY <1>1 DEF Signers, OwnersOf, Confirms, Rows
<1>3. IsFiniteSet(Signers(t)) /\ IsFiniteSet(Signers(t)')
    BY SignersFinite, FS_Subset, TxHandlersAssumption
    DEF TInv, TypeOK, Signers, OwnersOf, Confirms, Rows
<1>4. Cardinality(Signers(t)) <= Cardinality(Signers(t)')
    BY <1>2, <1>3, FS_Subset
<1>5. Cardinality(Signers(t)) \in Nat /\ Cardinality(Signers(t)') \in Nat /\ Threshold \in Nat
    BY <1>3, FS_CardinalityType, TxHandlersAssumption
<1> QED
    BY <1>4, <1>5 DEF EnoughSigned

\* Where the assembled transaction of a handler comes from.
LEMMA AssembledBefore ==
    ASSUME TInv, Next, NEW q \in Reqs, AssembledIsSigned(q), mem'[q].valid
    PROVE  /\ job[q].op = "send" /\ job[q].tx \in Txs /\ EnoughSigned(job[q].tx)
           /\ job'[q].op = job[q].op /\ job'[q].tx = job[q].tx
<1> DEFINE Good == /\ job[q].op = "send" /\ job[q].tx \in Txs /\ EnoughSigned(job[q].tx)
                   /\ job'[q].op = job[q].op /\ job'[q].tx = job[q].tx
<1>0. /\ pc \in [Reqs -> Labels] /\ job \in [Reqs -> Job] /\ mem \in [Reqs -> Mem]
      /\ LabelOK(pc[q], job[q])
    BY DEF TInv, TypeOK, LabelsOK
<1>1. ASSUME NEW r \in Reqs, Finish(r) PROVE Good
    BY <1>0, <1>1 DEF Finish, NoMem, AssembledIsSigned
<1>2. ASSUME NEW r \in Reqs, Start(r) PROVE Good
    <2>1. CASE r = q
        <3>1. At(q, "idle") /\ job[q].op = "none"
            BY <1>0, <1>2, <2>1
            DEF Start, StartCreate, StartConfirm, StartReject, StartDelete, StartChange, StartSend,
                Begin, At, LabelOK
        <3>2. mem'[q].valid = mem[q].valid
            <4>1. CASE mem' = mem
                BY <4>1
            <4>2. CASE mem' = [mem EXCEPT ![r].safe = safe]
                BY <1>0, <4>2 DEF Mem
            <4>3. CASE \E t \in Txs : mem' = [mem EXCEPT ![r].hash = tx[t].hash]
                <5>1. PICK h \in BOOLEAN : mem' = [mem EXCEPT ![r].hash = h]
                    BY <4>3 DEF TInv, TypeOK, TxRow
                <5> QED
                    BY <1>0, <5>1 DEF Mem
            <4> QED
                BY <1>2, <4>1, <4>2, <4>3
                DEF Start, StartCreate, StartConfirm, StartReject, StartDelete, StartChange, StartSend
        <3> QED
            BY <3>1, <3>2 DEF AssembledIsSigned
    <2>2. CASE r # q
        BY <1>2, <2>2, OthersStay DEF AssembledIsSigned
    <2> QED
        BY <2>1, <2>2
<1>3. ASSUME NEW r \in Reqs, Fail(r) PROVE Good
    BY <1>1, <1>3 DEF Fail, AssembledIsSigned
<1>4. ASSUME NEW r \in Reqs, ReadSigs(r) PROVE Good
    <2>1. mem' = [mem EXCEPT ![r].valid = EnoughSigned(job[r].tx)] /\ job' = job
        BY <1>4 DEF ReadSigs, Signers, EnoughSigned
    <2>2. job[r].op = "send" /\ job[r].tx \in Txs
        BY <1>4 DEF ReadSigs, At, TInv, LabelsOK, LabelOK
    <2> QED
        BY <1>0, <2>1, <2>2 DEF Mem, AssembledIsSigned
<1>5. ASSUME NEW r \in Reqs, ReadSafe(r) PROVE Good
    BY <1>0, <1>5 DEF ReadSafe, Mem, AssembledIsSigned
<1>6. ASSUME NEW r \in Reqs, InsertTx(r) PROVE Good
    <2>1. mem' = mem /\ (job[q].op = "send" => r # q)
        BY <1>6 DEF InsertTx, At, TInv, LabelsOK, LabelOK
    <2> QED
        BY <1>0, <1>6, <2>1 DEF InsertTx, AssembledIsSigned
<1>7. ASSUME NEW r \in Reqs, Replace(r) \/ SaveFailed(r) PROVE Good
    BY ZenonT(40), <1>0, <1>7 DEF Replace, SaveFailed, Mem, AssembledIsSigned
<1>8. ASSUME NEW r \in Reqs, LoadTx(r) \/ RereadSafe(r) \/ ReadIndexer(r) PROVE Good
    BY <1>0, <1>8 DEF LoadTx, RereadSafe, ReadIndexer, Mem, AssembledIsSigned
<1>9. ASSUME NEW r \in Reqs, ReadQueue(r) PROVE Good
    <2>1. PICK n : mem' = [mem EXCEPT ![r].safe.nextQueueSeq = n] /\ job' = job
        BY <1>9 DEF ReadQueue
    <2> QED
        BY <1>0, <2>1 DEF Mem, AssembledIsSigned
<1>10. ASSUME NEW r \in Reqs, Step(r), ~Finish(r), ~InsertTx(r), ~ReadSigs(r), ~ReadSafe(r),
              ~Replace(r), ~SaveFailed(r), ~LoadTx(r), ~RereadSafe(r), ~ReadIndexer(r), ~ReadQueue(r)
       PROVE  job' = job /\ mem' = mem
    BY <1>10
    DEF Step, CheckSigned, InsertVote, CountConfirms, SaveExecutable, CountRejects,
        Cancel, DeleteRow, BumpTag, SaveSafe, Broadcast, SavePending
<1>11. ASSUME NEW t \in Txs, Commit(t) \/ Sync(t) PROVE job' = job /\ mem' = mem
    BY <1>11 DEF Commit, Sync
<1> QED
    BY <1>1, <1>2, <1>3, <1>4, <1>5, <1>6, <1>7, <1>8, <1>9, <1>10, <1>11
    DEF Next, AssembledIsSigned

LEMMA NextSInv == SInv /\ [Next]_vars => SInv'
<1> SUFFICES ASSUME SInv, [Next]_vars PROVE SInv'
    OBVIOUS
<1>1. XInv' /\ TInv /\ TInv'
    BY NextXInv DEF SInv, XInv, AInv
<1> SUFFICES ASSUME NEW r \in Reqs PROVE AssembledIsSigned(r)'
    BY <1>1 DEF SInv
<1>2. CASE UNCHANGED vars
    BY <1>2 DEF SInv, vars, AssembledIsSigned, EnoughSigned, Signers, OwnersOf, Confirms, Rows
<1>3. CASE Next
    <2> SUFFICES ASSUME mem'[r].valid
                 PROVE  /\ job'[r].op = "send" /\ job'[r].tx \in Txs
                        /\ EnoughSigned(job[r].tx)'
        BY DEF AssembledIsSigned
    <2>1. /\ job[r].op = "send" /\ job[r].tx \in Txs /\ EnoughSigned(job[r].tx)
          /\ job'[r].op = job[r].op /\ job'[r].tx = job[r].tx
        BY <1>1, <1>3, AssembledBefore DEF SInv
    <2>2. PICK t \in Txs : t = job[r].tx
        BY <2>1
    <2>3. EnoughSigned(t)'
        BY <1>1, <1>3, <2>1, <2>2, EnoughStays
    <2> QED
        BY <2>1, <2>2, <2>3 DEF EnoughSigned
<1> QED
    BY <1>2, <1>3

LEMMA AlwaysSInv == Spec => []SInv
<1>1. Init => SInv
    BY InitXInv DEF Init, SInv, AssembledIsSigned, NoMem
<1> QED
    BY <1>1, NextSInv, PTL DEF Spec

-----------------------------------------------------------------------------
(* Every step is one of the wallet's, or none. *)

\* The rows a step does not insert: they are there or not as before.
KeepsRows == \A t \in Txs : (Exists(t)' <=> Exists(t)) /\ tx'[t].seq = tx[t].seq

LEMMA RowsKept ==
    ASSUME XInv, Next, \A r \in Reqs : ~InsertTx(r)
    PROVE  KeepsRows
<1> SUFFICES ASSUME NEW t \in Txs PROVE (Exists(t)' <=> Exists(t)) /\ tx'[t].seq = tx[t].seq
    BY DEF KeepsRows
<1>0. TInv /\ LabelsOK /\ HandledExist
    BY DEF XInv, AInv, TInv
<1>1. CASE Exists(t)
    BY <1>0, <1>1, ExistsStays
<1>2. CASE ~Exists(t)
    <2>1. ~Inserted(t) \/ \E r \in Reqs : InsertTx(r)
        <3>0. tx \in [Txs -> TxRow]
            BY <1>0 DEF TInv, TypeOK
        <3>1. ASSUME NEW r \in Reqs, Start(r) \/ Fail(r) \/ Reading(r) PROVE ~Inserted(t)
            BY <3>1, ReadingKeepsTx DEF Inserted
        <3>2. ASSUME NEW r \in Reqs, SaveExecutable(r) \/ Cancel(r) \/ DeleteRow(r) PROVE ~Inserted(t)
            BY ZenonT(40), <3>0, <3>2 DEF SaveExecutable, Cancel, DeleteRow, Store, Inserted, TxRow
        <3>3. ASSUME NEW r \in Reqs, SavePending(r) \/ SaveFailed(r) \/ Replace(r) PROVE ~Inserted(t)
            BY ZenonT(40), <3>0, <3>3 DEF SavePending, SaveFailed, Replace, Store, Inserted, TxRow
        <3>4. ASSUME NEW u \in Txs, Commit(u) \/ Sync(u) PROVE ~Inserted(t)
            BY <3>0, <3>4 DEF Commit, Sync, Store, Inserted, TxRow, rows
        <3> QED
            BY <3>1, <3>2, <3>3, <3>4 DEF Next, Step, Reading
    <2>2. ASSUME NEW r \in Reqs PROVE ~Written(r, t) /\ ~Superseded(r, t)
        BY <1>0, <1>2 DEF Written, Superseded, At, HandledExist, Exists, Queued
    <2>3. tx'[t] = tx[t]
        BY <1>0, <1>2, <2>1, <2>2, RowChange DEF RowStep, Synced, Exists
    <2> QED
        BY <1>2, <2>3 DEF Exists
<1> QED
    BY <1>1, <1>2

LEMMA InsertProposes ==
    ASSUME XInv, NEW r \in Reqs, InsertTx(r)
    PROVE  \E t \in Txs : Wallet!Propose(t)
<1>0. tx \in [Txs -> TxRow] /\ XInv
    BY DEF XInv, AInv, TInv, TypeOK
<1>1. PICK t \in Txs :
        /\ tx[t].status = "NONE"
        /\ tx' = [tx EXCEPT ![t] =
                    [status |-> "AWAITING_CONFIRMATIONS",
                     seq |-> IF job[r].ask # 0 THEN job[r].ask
                             ELSE mem[r].safe.nextQueueSeq,
                     hash |-> FALSE]]
    BY DEF InsertTx
<1>2. tx'[t].status = "AWAITING_CONFIRMATIONS" /\ \A u \in Txs : u # t => tx'[u] = tx[u]
    BY <1>0, <1>1
<1>3. tx'[t].seq \in Nat
    BY <1>0, <1>1 DEF XInv, AInv, TInv, TypeOK, Job, Mem, SafeRow
<1>4. {u \in Txs : tx'[u].status # "NONE"} = {u \in Txs : tx[u].status # "NONE"} \union {t}
    BY <1>1, <1>2
<1>5. [u \in Txs |-> tx'[u].seq] = [[u \in Txs |-> tx[u].seq] EXCEPT ![t] = tx'[t].seq]
    BY <1>2
<1>6. UNCHANGED <<votes, chain, account>>
    BY DEF InsertTx, network
<1> QED
    BY <1>1, <1>3, <1>4, <1>5, <1>6
    DEF Wallet!Propose, Signers, OwnersOf, Confirms, Rows, Accepted

LEMMA VoteSigns ==
    ASSUME XInv, NEW r \in Reqs, InsertVote(r)
    PROVE  \/ \E t \in Txs, u \in Owners : Wallet!Sign(t, u)
           \/ UNCHANGED Wallet!vars
<1>1. PICK t \in Txs, u \in Owners : t = job[r].tx /\ u = job[r].user /\ Exists(t)
    BY DEF InsertVote, At, XInv, AInv, TInv, LabelsOK, LabelOK, HandledExist
<1> DEFINE v == NewVote(job[r].tx, job[r].user, VoteKind(job[r].op))
<1>2. votes' = votes \union {v} /\ v.tx = t /\ v.owner = u
    BY <1>1 DEF InsertVote, NewVote
<1> HIDE DEF v
<1>3. UNCHANGED <<tx, chain, account>>
    BY DEF InsertVote, network
<1>4. \A s \in Txs : s # t => Signers(s)' = Signers(s)
    BY <1>2 DEF Signers, OwnersOf, Confirms, Rows
<1>5. CASE v.kind # "CONFIRM" \/ u \in Signers(t)
    <2>1. Signers(t)' = Signers(t)
        BY <1>2, <1>5 DEF Signers, OwnersOf, Confirms, Rows
    <2>2. [s \in Txs |-> Signers(s)]' = [s \in Txs |-> Signers(s)]
        BY <1>4, <2>1
    <2> QED
        BY <1>3, <2>2 DEF Wallet!vars, Accepted
<1>6. CASE v.kind = "CONFIRM" /\ u \notin Signers(t)
    <2>1. Signers(t)' = Signers(t) \union {u}
        BY <1>2, <1>6 DEF Signers, OwnersOf, Confirms, Rows
    <2>2. [s \in Txs |-> Signers(s)]'
            = [[s \in Txs |-> Signers(s)] EXCEPT ![t] = Signers(t) \union {u}]
        BY <1>4, <2>1
    <2>3. Wallet!Sign(t, u)
        BY <1>1, <1>3, <1>6, <2>2 DEF Wallet!Sign, Exists, Accepted
    <2> QED
        BY <2>3
<1> QED
    BY <1>5, <1>6

LEMMA BroadcastTakes ==
    ASSUME SInv, NEW r \in Reqs, Took(r), UNCHANGED votes
    PROVE  \E t \in Txs : Wallet!Take(t)
<1>0. /\ chain \in [Txs -> {"none", "mempool", "ok", "failed"}]
      /\ account \in [next : Nat, committed : Nat]
    BY DEF SInv, XInv, AInv, TInv, TypeOK
<1>1. PICK t \in Txs : t = job[r].tx
    BY DEF SInv, AssembledIsSigned, Took, ChainTakes
<1>2. /\ Exists(t) /\ ~Accepted(t) /\ tx[t].seq = account.next
      /\ EnoughSigned(t) /\ Signers(t) \subseteq Owners
    BY <1>1, SignersFinite
    DEF SInv, AssembledIsSigned, Took, ChainTakes, XInv, AInv, HandledExist, At, Accepted
<1>3. {u \in Txs : Accepted(u)}' = {u \in Txs : Accepted(u)} \union {t}
    BY <1>0, <1>1 DEF Took, ChainAdds, Accepted
<1>4. account'.next = account.next + 1
    BY <1>0 DEF Took, ChainAdds
<1>5. UNCHANGED <<tx, votes>>
    BY DEF Took
<1> QED
    BY <1>2, <1>3, <1>4, <1>5
    DEF Wallet!Take, Exists, EnoughSigned, Signers, OwnersOf, Confirms, Rows

LEMMA QuietStep ==
    ASSUME XInv, Next, UNCHANGED votes, \A r \in Reqs : ~InsertTx(r),
           \A r \in Reqs : ~Took(r)
    PROVE  UNCHANGED Wallet!vars
<1>1. KeepsRows
    BY RowsKept
<1>2. {t \in Txs : Accepted(t)}' = {t \in Txs : Accepted(t)} /\ account'.next = account.next
    <2>0. /\ chain \in [Txs -> {"none", "mempool", "ok", "failed"}]
          /\ account \in [next : Nat, committed : Nat]
        BY DEF XInv, AInv, TInv, TypeOK
    <2>1. CASE UNCHANGED network
        BY <2>1 DEF network, Accepted
    <2>2. CASE \E u \in Txs : Commit(u)
        BY <2>0, <2>2 DEF Commit, Accepted
    <2> QED
        BY <2>1, <2>2, ChainChange
<1>3. {t \in Txs : tx[t].status # "NONE"}' = {t \in Txs : tx[t].status # "NONE"}
    BY <1>1 DEF KeepsRows, Exists
<1>4. [t \in Txs |-> tx[t].seq]' = [t \in Txs |-> tx[t].seq]
    BY <1>1 DEF KeepsRows
<1>5. [t \in Txs |-> Signers(t)]' = [t \in Txs |-> Signers(t)]
    BY DEF Signers, OwnersOf, Confirms, Rows
<1> QED
    BY <1>2, <1>3, <1>4, <1>5 DEF Wallet!vars

LEMMA StepImplements == SInv /\ [Next]_vars => [Wallet!Next]_(Wallet!vars)
<1> SUFFICES ASSUME SInv, [Next]_vars PROVE Wallet!Next \/ UNCHANGED Wallet!vars
    OBVIOUS
<1>0. XInv
    BY DEF SInv
<1>1. CASE UNCHANGED vars
    BY <1>1 DEF vars, Wallet!vars, Signers, OwnersOf, Confirms, Rows, Accepted
<1>2. ASSUME NEW r \in Reqs, InsertTx(r) PROVE Wallet!Next
    BY <1>0, <1>2, InsertProposes DEF Wallet!Next
<1>3. ASSUME NEW r \in Reqs, InsertVote(r) PROVE Wallet!Next \/ UNCHANGED Wallet!vars
    BY <1>0, <1>3, VoteSigns DEF Wallet!Next
<1>4. ASSUME Next, \A r \in Reqs : ~InsertVote(r) PROVE UNCHANGED votes
    <2>1. ASSUME NEW r \in Reqs, Start(r) \/ Fail(r) PROVE UNCHANGED votes
        BY <2>1
        DEF Start, StartCreate, StartConfirm, StartReject, StartDelete, StartChange, StartSend,
            Begin, Fail, rows
    <2>2. ASSUME NEW r \in Reqs, Step(r) PROVE UNCHANGED votes
        BY <1>4, <2>2
        DEF Step, ReadSafe, InsertTx, CheckSigned, CountConfirms, LoadTx, SaveExecutable,
            CountRejects, Cancel, DeleteRow, BumpTag, RereadSafe, ReadIndexer, ReadQueue, SaveSafe,
            ReadSigs, Broadcast, SavePending, Replace, SaveFailed, rows
    <2>3. ASSUME NEW t \in Txs, Commit(t) \/ Sync(t) PROVE UNCHANGED votes
        BY <2>3 DEF Commit, Sync, rows
    <2> QED
        BY <1>4, <2>1, <2>2, <2>3 DEF Next
<1>5. ASSUME NEW r \in Reqs, Took(r), UNCHANGED votes PROVE Wallet!Next
    BY <1>5, BroadcastTakes DEF Wallet!Next
<1>6. ASSUME Next, UNCHANGED votes, \A r \in Reqs : ~InsertTx(r) /\ ~Took(r)
      PROVE  UNCHANGED Wallet!vars
    BY <1>0, <1>6, QuietStep
<1> QED
    BY <1>1, <1>2, <1>3, <1>4, <1>5, <1>6

\* The handlers implement the wallet, for any owners, threshold, requests and
\* interleaving: a broadcast that the chain takes carries the signatures of
\* threshold-many different owners, although the handlers count rows, check and
\* insert in separate statements and save entities they read long before.
THEOREM HandlersImplementWallet == Spec => ImplementsWallet
<1>1. Init => Wallet!Init
    <2> SUFFICES ASSUME Init PROVE Wallet!Init
        OBVIOUS
    <2>1. \A t \in Txs : tx[t].status = "NONE" /\ tx[t].seq = 0 /\ chain[t] = "none"
        BY DEF Init
    <2>2. votes = {} /\ account.next = 0
        BY DEF Init
    <2> QED
        BY <2>1, <2>2 DEF Wallet!Init, Signers, OwnersOf, Confirms, Rows, Accepted
<1> QED
    BY <1>1, AlwaysSInv, StepImplements, PTL DEF Spec, ImplementsWallet, Wallet!Spec

-----------------------------------------------------------------------------
(* No transaction vanishes from the lists. *)

\* A row with a TxHash is one the chain accepted, so it is in a block or waits for
\* one; a row without is in the queue or, in a final status, in the history.
THEOREM StaysVisibleAlways == Spec => []StaysVisible
<1>1. AInv => StaysVisible
    <2> SUFFICES ASSUME AInv, NEW t \in Txs, tx[t].status # "NONE"
                 PROVE  InQueue(t) \/ InHistory(t) \/ chain[t] = "mempool"
        BY DEF StaysVisible
    <2>1. tx[t] \in TxRow /\ chain[t] \in {"none", "mempool", "ok", "failed"}
        BY DEF AInv, TInv, TypeOK
    <2>2. CASE tx[t].hash
        BY <2>1, <2>2 DEF AInv, RecordedIsAccepted, Accepted, InHistory, InBlock
    <2>3. CASE ~tx[t].hash
        BY <2>1, <2>3 DEF TxRow, Statuses, Queued, InQueue, InHistory
    <2> QED
        BY <2>2, <2>3
<1> QED
    BY <1>1, AlwaysAInv, PTL

-----------------------------------------------------------------------------
(* What a step does to the request r that takes it. *)

Stays(r) == job'[r] = job[r] /\ mem'[r] = mem[r]
Goes(r, from, to) == pc[r] = from /\ pc'[r] = to
Ends(r) == pc'[r] = "done" /\ job'[r] = NoJob /\ mem'[r] = NoMem
Takes(r, op, t) == job'[r].op = op /\ job'[r].tx = t /\ job'[r].user \in Owners

Begins(r) ==
    /\ pc[r] = "idle" /\ UNCHANGED <<rows, network, failures>>
    /\ \/ pc'[r] = "insertTx" /\ Takes(r, "create", None) /\ mem'[r].safe = safe
       \/ \E t \in Txs :
            /\ tx[t].status # "NONE"
            /\ \/ pc'[r] = "checkSigned" /\ Takes(r, "confirm", t)
               \/ /\ pc'[r] = "checkSigned" /\ Takes(r, "reject", t)
                  /\ mem'[r].hash = tx[t].hash
               \/ /\ pc'[r] = "deleteRow" /\ Takes(r, "delete", t)
                  /\ tx[t].status = "AWAITING_CONFIRMATIONS"
               \/ /\ pc'[r] = "deleteRow" /\ Takes(r, "change", t)
                  /\ tx[t].status = "AWAITING_CONFIRMATIONS"
               \/ pc'[r] = "readSafe" /\ Takes(r, "change", t)
               \/ /\ pc'[r] = "readSafe" /\ Takes(r, "send", t)
                  /\ mem'[r].hash = tx[t].hash

MovesVoting(r) ==
    LET op == job[r].op IN
    \/ /\ Goes(r, "insertTx", "checkSigned")
       /\ job'[r].op = op /\ job'[r].user = job[r].user /\ mem'[r] = mem[r]
       /\ job'[r].tx \in Txs /\ ~Exists(job'[r].tx)
    \/ Ends(r) /\ pc[r] = "checkSigned" /\ HasSigned(job[r].tx, job[r].user)
    \/ /\ Stays(r)
       /\ \/ Goes(r, "checkSigned", "insertVote") /\ ~HasSigned(job[r].tx, job[r].user)
          \/ Goes(r, "insertVote", "countConfirms") /\ op \in {"create", "confirm"}
          \/ Goes(r, "insertVote", "countRejects") /\ op = "reject"
          \/ /\ Goes(r, "insertVote", "bumpTag") /\ op = "send"
             /\ \E v \in votes' : v.kind = "SEND" /\ v.tx = job[r].tx
          \/ Goes(r, "countConfirms", "loadTx")
          \/ Goes(r, "countConfirms", "bumpTag")
          \/ Goes(r, "saveExecutable", "bumpTag")
          \/ /\ Goes(r, "countRejects", "cancel")
             /\ Cardinality(Owners) - Cardinality(Rejects(job[r].tx)) < Threshold
          \/ Goes(r, "countRejects", "bumpTag")
          \/ Goes(r, "cancel", "bumpTag")
          \/ Goes(r, "deleteRow", "bumpTag")
    \/ /\ Goes(r, "loadTx", "saveExecutable") /\ job'[r] = job[r]
       /\ mem'[r].hash = tx[job[r].tx].hash /\ mem'[r].safe = mem[r].safe

MovesSequence(r) ==
    LET op == job[r].op IN
    \/ Ends(r) /\ Bumps(r) /\ op = "confirm"
    \/ /\ Stays(r) /\ Bumps(r)
       /\ \/ Goes(r, "bumpTag", "readIndexer") /\ op = "create"
          \/ Goes(r, "bumpTag", "broadcast") /\ op = "send"
          \/ Goes(r, "bumpTag", "rereadSafe") /\ op \in {"reject", "delete", "change"}
    \/ Stays(r) /\ Saves(r) /\ Goes(r, "saveSafe", "readSafe") /\ op = "change"
    \/ /\ Goes(r, "rereadSafe", "readQueue") /\ job'[r] = job[r]
       /\ mem'[r].safe = safe /\ mem'[r].base = safe.nextQueueSeq
    \/ /\ Goes(r, "readIndexer", "readQueue") /\ job'[r] = job[r]
       /\ mem'[r].safe = mem[r].safe
       /\ mem'[r].base \in Nat /\ mem'[r].base <= account.committed
    \/ /\ Goes(r, "readQueue", "saveSafe") /\ job'[r] = job[r]
       /\ mem'[r].safe.sequence = mem[r].safe.sequence
       /\ mem'[r].safe.queuedTag = mem[r].safe.queuedTag
       /\ mem'[r].safe.nextQueueSeq = NextQueueSeq(mem[r].base, QueueSeqs)
    \/ Ends(r) /\ Saves(r) /\ op # "change"

MovesSend(r) ==
    \/ /\ Goes(r, "readSafe", "insertTx") /\ job[r].op = "change"
       /\ job'[r].op = "create" /\ job'[r].user = job[r].user /\ job'[r].tx = None
       /\ mem'[r].safe = safe
    \/ /\ Goes(r, "readSafe", "readSigs") /\ job[r].op = "send" /\ job'[r] = job[r]
       /\ mem'[r].safe = safe /\ mem'[r].hash = mem[r].hash
    \/ /\ Goes(r, "readSigs", "insertVote") /\ job'[r] = job[r]
       /\ mem'[r].safe = mem[r].safe /\ mem'[r].hash = mem[r].hash
    \/ /\ Stays(r)
       /\ \/ Goes(r, "broadcast", "savePending") /\ Took(r)
          \/ Goes(r, "broadcast", "saveFailed")
          \/ /\ Goes(r, "savePending", "replace")
             /\ tx'[job[r].tx].status = "PENDING" /\ tx'[job[r].tx].hash
    \/ Ends(r) /\ pc[r] = "broadcast"
    \/ /\ Goes(r, "replace", "readQueue") /\ job'[r] = job[r]
       /\ mem'[r].safe.sequence = tx[job[r].tx].seq + 1
    \/ /\ Goes(r, "saveFailed", "readQueue") /\ job'[r] = job[r]
       /\ mem'[r].safe = mem[r].safe

Moves(r) == MovesVoting(r) \/ MovesSequence(r) \/ MovesSend(r)

Stops(r) ==
    /\ pc[r] \notin {"idle", "done"} /\ failures < MaxFailures
    /\ \/ Ends(r)
       \/ Stays(r) /\ job[r].op = "change" /\ pc'[r] = "readSafe"

LEMMA StartStarts ==
    ASSUME TInv, NEW r \in Reqs, Start(r)
    PROVE  Begins(r)
<1>0. /\ pc \in [Reqs -> Labels] /\ job \in [Reqs -> Job] /\ mem \in [Reqs -> Mem]
    BY DEF TInv, TypeOK
<1>1. ASSUME NEW op, NEW u \in Owners, NEW t, NEW ask, NEW l, Begin(r, op, u, t, ask, l)
      PROVE  /\ pc[r] = "idle" /\ UNCHANGED <<rows, network, failures>>
             /\ pc'[r] = l /\ Takes(r, op, t)
    BY <1>0, <1>1 DEF Begin, At, Goto, Takes
<1>2. ASSUME NEW u \in Owners, NEW ask \in AskedSeqs, StartCreate(r, u, ask) PROVE Begins(r)
    <2>1. mem'[r].safe = safe
        BY <1>0, <1>2 DEF StartCreate, Mem
    <2> QED
        BY <1>1, <1>2, <2>1 DEF StartCreate, Begins
<1>3. ASSUME NEW u \in Owners, NEW t \in Txs,
             StartReject(r, u, t) \/ StartSend(r, u, t)
      PROVE  Begins(r)
    <2>1. mem'[r].hash = tx[t].hash
        BY <1>0, <1>3 DEF StartReject, StartSend, Mem
    <2> QED
        BY <1>1, <1>3, <2>1 DEF StartReject, StartSend, Begins
<1>4. ASSUME NEW u \in Owners, NEW t \in Txs,
             StartConfirm(r, u, t) \/ StartDelete(r, u, t)
      PROVE  Begins(r)
    BY <1>1, <1>4 DEF StartConfirm, StartDelete, Begins
<1>5. ASSUME NEW u \in Owners, NEW t \in Txs, NEW ask \in AskedSeqs, StartChange(r, u, t, ask)
      PROVE  Begins(r)
    BY <1>1, <1>5 DEF StartChange, Begins
<1> QED
    BY <1>2, <1>3, <1>4, <1>5 DEF Start

LEMMA FailStops ==
    ASSUME TInv, NEW r \in Reqs, Fail(r)
    PROVE  Stops(r)
    BY DEF TInv, TypeOK, Fail, InFlight, Stops, Ends, Stays, Finish, Goto

LEMMA FinishEnds ==
    ASSUME TInv, NEW r \in Reqs, Finish(r)
    PROVE  Ends(r)
    BY DEF TInv, TypeOK, Finish, Goto, Ends

LEMMA StepMoves ==
    ASSUME TInv, NEW r \in Reqs, Step(r)
    PROVE  Moves(r)
<1>0. /\ pc \in [Reqs -> Labels] /\ job \in [Reqs -> Job] /\ mem \in [Reqs -> Mem]
      /\ LabelOK(pc[r], job[r]) /\ tx \in [Txs -> TxRow] /\ safe \in SafeRow
    BY DEF TInv, TypeOK, LabelsOK
<1> USE DEF At, Goes
<1>1. CASE ReadSafe(r)
    <2>1. mem'[r].safe = safe /\ mem'[r].hash = mem[r].hash
        BY <1>0, <1>1 DEF ReadSafe, Mem
    <2>2. CASE job[r].op = "send"
        BY <1>0, <1>1, <2>1, <2>2 DEF ReadSafe, Goto, Moves, MovesSend
    <2>3. CASE job[r].op = "change"
        <3>1. job'[r].op = "create" /\ job'[r].user = job[r].user /\ job'[r].tx = None
            BY <1>0, <1>1, <2>3 DEF ReadSafe, Job
        <3> QED
            BY <1>0, <1>1, <2>1, <2>3, <3>1 DEF ReadSafe, Goto, Moves, MovesSend
    <2> QED
        BY <1>1, <2>2, <2>3 DEF ReadSafe
<1>2. CASE InsertTx(r)
    <2>1. PICK t \in Txs : tx[t].status = "NONE" /\ job' = [job EXCEPT ![r].tx = t]
        BY <1>2 DEF InsertTx
    <2>2. job'[r].op = job[r].op /\ job'[r].user = job[r].user /\ job'[r].tx = t
        BY <1>0, <2>1 DEF Job
    <2> QED
        BY <1>0, <1>2, <2>1, <2>2 DEF InsertTx, Goto, Moves, MovesVoting, Exists
<1>3. CASE CheckSigned(r)
    BY <1>0, <1>3, FinishEnds DEF CheckSigned, Goto, Moves, MovesVoting, Stays
<1>4. CASE InsertVote(r)
    <2>1. job[r].op \in {"create", "confirm", "reject", "send"}
        BY <1>0, <1>4 DEF InsertVote, LabelOK
    <2>2. job[r].op = "send" => \E v \in votes' : v.kind = "SEND" /\ v.tx = job[r].tx
        <3>1. NewVote(job[r].tx, job[r].user, VoteKind(job[r].op)) \in votes'
            BY <1>4 DEF InsertVote
        <3>2. /\ NewVote(job[r].tx, job[r].user, VoteKind("send")).kind = "SEND"
              /\ NewVote(job[r].tx, job[r].user, VoteKind("send")).tx = job[r].tx
            BY DEF NewVote, VoteKind
        <3> QED
            BY <3>1, <3>2
    <2> QED
        BY <1>0, <1>4, <2>1, <2>2 DEF InsertVote, Goto, Moves, MovesVoting, Stays
<1>5. CASE CountConfirms(r) \/ SaveExecutable(r) \/ Cancel(r) \/ DeleteRow(r)
    BY <1>0, <1>5
    DEF CountConfirms, SaveExecutable, Cancel, DeleteRow, Goto, Moves, MovesVoting, Stays
<1>6. CASE LoadTx(r)
    BY <1>0, <1>6 DEF LoadTx, Goto, Moves, MovesVoting, Mem
<1>7. CASE CountRejects(r)
    BY <1>0, <1>7 DEF CountRejects, Goto, Moves, MovesVoting, Stays
<1>8. CASE BumpTag(r)
    <2>1. job[r].op \in {"create", "confirm", "reject", "delete", "change", "send"}
        BY <1>0, <1>8, TxHandlersAssumption DEF BumpTag, LabelOK, Job
    <2>2. safe'.sequence = safe.sequence /\ safe'.nextQueueSeq = safe.nextQueueSeq
              /\ safe'.queuedTag = stamps'.queued
        BY <1>0, <1>8 DEF BumpTag, SafeRow, TInv, TypeOK
    <2>3. CASE Finish(r)
        BY <1>0, <1>8, <2>1, <2>2, <2>3, FinishEnds
        DEF BumpTag, Finish, Goto, Moves, MovesSequence, Bumps
    <2>4. CASE ~Finish(r)
        BY <1>0, <1>8, <2>1, <2>2, <2>4 DEF BumpTag, Goto, Moves, MovesSequence, Stays, Bumps
    <2> QED
        BY <2>3, <2>4
<1>9. CASE RereadSafe(r)
    BY <1>0, <1>9 DEF RereadSafe, Goto, Moves, MovesSequence, Mem
<1>10. CASE ReadIndexer(r)
    <2>1. account.committed \in Int /\ IndexerLag \in Int
        BY TxHandlersAssumption DEF TInv, TypeOK
    <2>2. PICK n \in (account.committed - IndexerLag)..account.committed :
            n >= 0 /\ mem' = [mem EXCEPT ![r].base = n]
        BY <1>10 DEF ReadIndexer
    <2>3. n \in Nat /\ n <= account.committed
        BY <2>1, <2>2
    <2>4. mem'[r].safe = mem[r].safe /\ mem'[r].base = n
        BY <1>0, <2>2 DEF Mem
    <2> QED
        BY <1>0, <1>10, <2>3, <2>4 DEF ReadIndexer, Goto, Moves, MovesSequence
<1>11. CASE ReadQueue(r)
    <2>1. PICK n : /\ n = NextQueueSeq(mem[r].base, QueueSeqs)
                   /\ mem' = [mem EXCEPT ![r].safe.nextQueueSeq = n]
        BY <1>11 DEF ReadQueue
    <2>2. /\ mem'[r].safe.nextQueueSeq = n
          /\ mem'[r].safe.sequence = mem[r].safe.sequence
          /\ mem'[r].safe.queuedTag = mem[r].safe.queuedTag
        BY SMTT(40), <1>0, <2>1 DEF Mem, SafeRow
    <2> QED
        BY <1>0, <1>11, <2>1, <2>2 DEF ReadQueue, Goto, Moves, MovesSequence
<1>12. CASE SaveSafe(r)
    BY <1>0, <1>12, FinishEnds
    DEF SaveSafe, Finish, Goto, Moves, MovesSequence, Stays, Saves
<1>13. CASE ReadSigs(r)
    <2>1. PICK v : mem' = [mem EXCEPT ![r].valid = v]
        BY <1>13 DEF ReadSigs
    <2>2. mem'[r].safe = mem[r].safe /\ mem'[r].hash = mem[r].hash
        BY <1>0, <2>1 DEF Mem
    <2> QED
        BY <1>0, <1>13, <2>2 DEF ReadSigs, Goto, Moves, MovesSend
<1>14. CASE Broadcast(r)
    BY <1>0, <1>14, FinishEnds DEF Broadcast, Goto, Moves, MovesSend, Stays, Took, rows
<1>15. CASE SavePending(r)
    <2>1. tx'[job[r].tx].status = "PENDING" /\ tx'[job[r].tx].hash
        BY <1>0, <1>15 DEF SavePending, Store, LabelOK, TxRow
    <2> QED
        BY <1>0, <1>15, <2>1 DEF SavePending, Goto, Moves, MovesSend, Stays
<1>16. CASE Replace(r)
    <2>1. mem' = [mem EXCEPT ![r] = [mem[r] EXCEPT !.safe.sequence = tx[job[r].tx].seq + 1,
                                                  !.base = tx[job[r].tx].seq + 1]]
        BY <1>0, <1>16 DEF Replace
    <2>2. mem'[r].safe.sequence = tx[job[r].tx].seq + 1
        BY SMTT(40), <1>0, <2>1 DEF Mem, SafeRow
    <2> QED
        BY <1>0, <1>16, <2>2 DEF Replace, Goto, Moves, MovesSend
<1>17. CASE SaveFailed(r)
    <2>1. mem'[r].safe = mem[r].safe
        BY <1>0, <1>17 DEF SaveFailed, Mem
    <2> QED
        BY <1>0, <1>17, <2>1 DEF SaveFailed, Goto, Moves, MovesSend
<1> QED
    BY <1>1, <1>2, <1>3, <1>4, <1>5, <1>6, <1>7, <1>8, <1>9, <1>10, <1>11, <1>12, <1>13,
       <1>14, <1>15, <1>16, <1>17
    DEF Step

Steps(r) == Start(r) \/ Step(r) \/ Fail(r)

LEMMA HandlerMoves ==
    ASSUME TInv, Next, NEW q \in Reqs
    PROVE  \/ pc'[q] = pc[q] /\ Stays(q)
           \/ Steps(q) /\ (Begins(q) \/ Moves(q) \/ Stops(q))
<1>1. ASSUME NEW r \in Reqs, Steps(r), r # q PROVE pc'[q] = pc[q] /\ Stays(q)
    BY <1>1, OthersStay DEF Steps, Stays
<1>2. ASSUME NEW t \in Txs, Commit(t) \/ Sync(t) PROVE pc'[q] = pc[q] /\ Stays(q)
    BY <1>2 DEF Commit, Sync, Stays
<1>3. ASSUME Steps(q) PROVE Begins(q) \/ Moves(q) \/ Stops(q)
    BY <1>3, StartStarts, StepMoves, FailStops DEF Steps
<1> QED
    BY <1>1, <1>2, <1>3 DEF Next, Steps

-----------------------------------------------------------------------------
(* Owners who send one request at a time. *)

\* No owner has two requests running.
OneRequestPerOwner == \A q, r \in InFlight : job[q].user = job[r].user => q = r

\* What checkUserHasSigned found is still so when the row is inserted.
AboutToVote ==
    \A r \in Reqs : pc[r] = "insertVote" /\ job[r].op # "send" =>
        ~HasSigned(job[r].tx, job[r].user)

LEMMA AboutToVoteNext ==
    ASSUME TInv, Next, OneRequestPerOwner, AboutToVote
    PROVE  AboutToVote'
<1> SUFFICES ASSUME NEW q \in Reqs, pc'[q] = "insertVote", job'[q].op # "send"
             PROVE  ~HasSigned(job[q].tx, job[q].user)'
    BY DEF AboutToVote
<1>0. pc \in [Reqs -> Labels] /\ \A r \in Reqs : LabelOK(pc[r], job[r])
    BY DEF TInv, TypeOK, LabelsOK
<1>1. CASE votes' = votes
    <2>1. /\ ~HasSigned(job[q].tx, job[q].user)
          /\ job'[q].tx = job[q].tx /\ job'[q].user = job[q].user
        BY <1>0, HandlerMoves
        DEF Begins, Moves, MovesVoting, MovesSequence, MovesSend, Stops, Goes, Stays, Ends,
            Bumps, Saves, LabelOK, AboutToVote
    <2> QED
        BY <1>1, <2>1 DEF HasSigned
<1>2. ASSUME NEW r \in Reqs, NEW v, Voted(r, v) PROVE ~HasSigned(job[q].tx, job[q].user)'
    <2>1. q # r
        BY <1>0, <1>2 DEF Voted, At, Goto, LabelOK
    <2>2. pc[q] = "insertVote" /\ job' = job
        BY <1>0, <1>2, <2>1 DEF Voted, Goto
    <2>3. job[r].user # job[q].user
        BY <1>2, <2>1, <2>2 DEF Voted, At, OneRequestPerOwner, InFlight
    <2> QED
        BY <1>2, <2>2, <2>3 DEF Voted, NewVote, AboutToVote, HasSigned
<1> QED
    BY <1>1, <1>2, VotesChange

LEMMA OneOpinionNext ==
    ASSUME TInv, Next, AboutToVote, OneOpinionPerOwner
    PROVE  OneOpinionPerOwner'
<1>1. CASE votes' = votes
    BY <1>1 DEF OneOpinionPerOwner
<1>2. ASSUME NEW r \in Reqs, NEW v, Voted(r, v) PROVE OneOpinionPerOwner'
    <2>0. job[r].op \in {"create", "confirm", "reject", "send"}
        BY <1>2 DEF Voted, At, TInv, LabelsOK, LabelOK
    <2>1. v.tx = job[r].tx /\ v.owner = job[r].user /\ v.kind = VoteKind(job[r].op)
        BY <1>2 DEF Voted, NewVote
    <2>2. CASE job[r].op = "send"
        BY <1>2, <2>1, <2>2 DEF Voted, VoteKind, OneOpinionPerOwner
    <2>3. CASE job[r].op # "send"
        <3>1. \A w \in votes : ~(w.tx = v.tx /\ w.owner = v.owner)
            BY <1>2, <2>1, <2>3 DEF Voted, At, AboutToVote, HasSigned
        <3> QED
            BY <1>2, <3>1 DEF Voted, OneOpinionPerOwner
    <2> QED
        BY <2>2, <2>3
<1> QED
    BY <1>1, <1>2, VotesChange

\* The owners who did not reject t are too few to sign it.
Hopeless(t) == Cardinality(Owners \ OwnersOf(Rejects(t))) < Threshold

\* One row per owner is what makes counting rows count owners.
LEMMA CountedIsHopeless ==
    ASSUME TInv, OneOpinionPerOwner, NEW t,
           Cardinality(Owners) - Cardinality(Rejects(t)) < Threshold
    PROVE  Hopeless(t)
<1> DEFINE R == Rejects(t)
           O == OwnersOf(R)
           f == [v \in R |-> v.owner]
<1>1. R \subseteq votes /\ O \subseteq Owners
    BY DEF TInv, TypeOK, Rejects, Rows, OwnersOf
<1>2. f \in Injection(R, O)
    <2>1. f \in [R -> O]
        BY DEF OwnersOf
    <2>2. \A v, w \in R : f[v] = f[w] => v = w
        BY <1>1 DEF OneOpinionPerOwner, Rejects, Rows
    <2> QED
        BY <2>1, <2>2 DEF Injection, IsInjective
<1>3. IsFiniteSet(O) /\ IsFiniteSet(Owners) /\ O \cap Owners = O
    BY <1>1, FS_Subset, TxHandlersAssumption
<1>4. IsFiniteSet(R) /\ Cardinality(R) <= Cardinality(O)
    BY <1>2, <1>3, FS_Injection
<1>5. Cardinality(Owners \ O) = Cardinality(Owners) - Cardinality(Owners \cap O)
    BY <1>3, FS_Difference
<1>6. Owners \cap O = O
    BY <1>1
<1>7. Cardinality(R) \in Nat /\ Cardinality(O) \in Nat /\ Cardinality(Owners) \in Nat
    BY <1>3, <1>4, FS_CardinalityType
<1>8. Cardinality(Owners \ O) = Cardinality(Owners) - Cardinality(O) /\ Threshold \in Int
    BY <1>5, <1>6, <1>7, TxHandlersAssumption
<1> HIDE DEF R, O
<1>9. Cardinality(Owners) - Cardinality(R) < Threshold
    BY DEF R
<1> QED
    BY <1>4, <1>7, <1>8, <1>9 DEF Hopeless, R, O

LEMMA HopelessStays ==
    ASSUME Next, NEW t, Hopeless(t)
    PROVE  Hopeless(t)'
<1>1. votes \subseteq votes'
    BY VotesChange DEF Voted
<1> DEFINE A == Owners \ OwnersOf(Rejects(t))
           B == Owners \ OwnersOf(Rejects(t))'
<1>2. B \subseteq A
    BY <1>1 DEF Rejects, Rows, OwnersOf
<1>3. IsFiniteSet(A) /\ IsFiniteSet(B)
    BY FS_Subset, TxHandlersAssumption
<1>4. Cardinality(B) <= Cardinality(A)
    BY <1>2, <1>3, FS_Subset
<1>5. Cardinality(A) \in Nat /\ Cardinality(B) \in Nat /\ Threshold \in Int
    BY <1>3, FS_CardinalityType, TxHandlersAssumption
<1>6. Cardinality(A) < Threshold
    BY DEF Hopeless
<1>7. Hopeless(t)' <=> Cardinality(B) < Threshold
    BY DEF Hopeless
<1> HIDE DEF A, B
<1> QED
    BY <1>4, <1>5, <1>6, <1>7

\* A handler that is about to cancel counted enough owners.
AboutToCancel == \A r \in Reqs : pc[r] = "cancel" => Hopeless(job[r].tx)

LEMMA AboutToCancelNext ==
    ASSUME TInv, Next, OneOpinionPerOwner, AboutToCancel
    PROVE  AboutToCancel'
<1> SUFFICES ASSUME NEW q \in Reqs, pc'[q] = "cancel"
             PROVE  Hopeless(job[q].tx)'
    BY DEF AboutToCancel
<1>1. job'[q].tx = job[q].tx /\ Hopeless(job[q].tx)
    BY HandlerMoves, CountedIsHopeless
    DEF Begins, Moves, MovesVoting, MovesSequence, MovesSend, Stops, Goes, Stays, Ends, AboutToCancel
<1>2. PICK t : t = job[q].tx
    OBVIOUS
<1>3. Hopeless(t)'
    BY <1>1, <1>2, HopelessStays
<1> QED
    BY <1>1, <1>2, <1>3 DEF Hopeless, Rejects, Rows

LEMMA CancelledNext ==
    ASSUME TInv, Next, AboutToCancel, CancelledIsHopeless
    PROVE  CancelledIsHopeless'
<1> SUFFICES ASSUME NEW t \in Txs, tx'[t].status = "CANCELLED"
             PROVE  Hopeless(t)'
    BY DEF CancelledIsHopeless, Hopeless
<1>1. RowStep(t)
    BY RowChange
<1>2. Hopeless(t)
    BY <1>1 DEF RowStep, Inserted, Written, Superseded, Synced, At, AboutToCancel,
                CancelledIsHopeless, Hopeless
<1> QED
    BY <1>2, HopelessStays

OInv == TInv /\ AboutToVote /\ OneOpinionPerOwner /\ AboutToCancel /\ CancelledIsHopeless

LEMMA InitOInv == Init => OInv
    BY InitTInv
    DEF Init, OInv, AboutToVote, OneOpinionPerOwner, AboutToCancel, CancelledIsHopeless

LEMMA NextOInv == OInv /\ OneRequestPerOwner /\ [Next]_vars => OInv'
<1> SUFFICES ASSUME OInv, OneRequestPerOwner, [Next]_vars PROVE OInv'
    OBVIOUS
<1>1. TInv'
    BY NextTInv DEF OInv
<1>2. CASE UNCHANGED vars
    BY <1>1, <1>2
    DEF OInv, vars, AboutToVote, OneOpinionPerOwner, AboutToCancel, CancelledIsHopeless,
        HasSigned, Hopeless, Rejects, Rows
<1>3. CASE Next
    BY <1>1, <1>3, AboutToVoteNext, OneOpinionNext, AboutToCancelNext, CancelledNext DEF OInv
<1> QED
    BY <1>2, <1>3

\* As long as no owner has two requests running, each owner has at most one opinion
\* on a transaction, whatever the other owners' requests do in between and
\* wherever handlers stop: only the owner's own requests can come between the
\* check of checkUserHasSigned and the insert.
THEOREM OneOpinionAlways == Spec /\ []OneRequestPerOwner => []OneOpinionPerOwner
<1>1. OInv => OneOpinionPerOwner
    BY DEF OInv
<1> QED
    BY <1>1, InitOInv, NextOInv, PTL DEF Spec

\* ... and a transaction is CANCELLED only when the owners who have not rejected
\* it are fewer than the threshold, although the handler counts rows and saves
\* the status an await later.
THEOREM CancelledIsHopelessAlways == Spec /\ []OneRequestPerOwner => []CancelledIsHopeless
<1>1. OInv => CancelledIsHopeless
    BY DEF OInv
<1> QED
    BY <1>1, InitOInv, NextOInv, PTL DEF Spec

-----------------------------------------------------------------------------
(* Transactions with one request at a time. *)

\* No transaction has two requests running.
OneRequestPerTx ==
    \A q, r \in InFlight : job[q].tx \in Txs /\ job[q].tx = job[r].tx => q = r

\* The handlers that will save what they read of the transaction.
Carries(r) ==
    \/ pc[r] = "saveExecutable"
    \/ /\ job[r].op = "reject"
       /\ pc[r] \in {"checkSigned", "insertVote", "countRejects", "cancel"}
    \/ /\ job[r].op = "send"
       /\ pc[r] \in {"readSafe", "readSigs", "insertVote", "bumpTag", "broadcast", "saveFailed"}

\* ... still hold what the row says.
CarriedHash == \A r \in Reqs : Carries(r) => mem[r].hash = tx[job[r].tx].hash

HInv == XInv /\ CarriedHash

\* A row that is written has no other handler.
LEMMA OneWriter ==
    ASSUME OneRequestPerTx, NEW t \in Txs, NEW r \in Reqs, Written(r, t),
           NEW q \in InFlight, job[q].tx = t
    PROVE  q = r
    BY DEF OneRequestPerTx, Written, InFlight, At

LEMMA HashKept ==
    ASSUME HInv, OneRequestPerTx, Next, NEW q \in InFlight, NEW t \in Txs, job[q].tx = t,
           pc[q] \notin {"insertTx", "savePending"}
    PROVE  tx'[t].hash = tx[t].hash
<1>0. /\ TInv /\ \A r \in Reqs : LabelOK(pc[r], job[r])
    BY DEF HInv, XInv, AInv, TInv, LabelsOK
<1>1. RowStep(t) /\ Exists(t)
    BY <1>0, RowChange DEF HInv, XInv, HandledExist, InFlight
<1>2. ASSUME NEW r \in Reqs, Written(r, t) PROVE tx'[t].hash = tx[t].hash
    <2>1. r = q
        BY <1>2, OneWriter
    <2>2. Carries(q) => mem[q].hash = tx[t].hash
        BY DEF HInv, CarriedHash, InFlight
    <2> QED
        BY <1>0, <1>2, <2>1, <2>2 DEF Written, Carries, At, LabelOK
<1> QED
    BY <1>1, <1>2 DEF RowStep, Inserted, Superseded, Synced, Exists

LEMMA CarriedHashNext ==
    ASSUME HInv, OneRequestPerTx, Next
    PROVE  CarriedHash'
<1> SUFFICES ASSUME NEW q \in Reqs, Carries(q)'
             PROVE  mem'[q].hash = tx'[job'[q].tx].hash
    BY DEF CarriedHash
<1>0. /\ TInv /\ \A r \in Reqs : LabelOK(pc[r], job[r])
    BY DEF HInv, XInv, AInv, TInv, LabelsOK
<1>1. CASE Begins(q)
    <2>1. PICK t \in Txs : job'[q].tx = t /\ mem'[q].hash = tx[t].hash
        BY <1>1 DEF Begins, Takes, Carries
    <2> QED
        BY <1>1, <2>1 DEF Begins, rows
<1>2. CASE ~Begins(q)
    <2>1. /\ pc[q] \notin {"idle", "done", "insertTx", "savePending"}
          /\ job'[q].tx = job[q].tx
          /\ mem'[q].hash = tx[job[q].tx].hash
        BY <1>0, <1>2, HandlerMoves
        DEF Moves, MovesVoting, MovesSequence, MovesSend, Stops, Goes, Stays, Ends, NoJob,
            LabelOK, Carries, HInv, CarriedHash
    <2>2. PICK t \in Txs : t = job[q].tx
        BY <1>0, <2>1 DEF LabelOK
    <2>3. tx'[t].hash = tx[t].hash
        BY <2>1, <2>2, HashKept DEF InFlight
    <2> QED
        BY <2>1, <2>2, <2>3
<1> QED
    BY <1>1, <1>2

LEMMA InitHInv == Init => HInv
    BY InitXInv DEF Init, HInv, CarriedHash, Carries

LEMMA NextHInv == HInv /\ OneRequestPerTx /\ [Next]_vars => HInv'
<1> SUFFICES ASSUME HInv, OneRequestPerTx, [Next]_vars PROVE HInv'
    OBVIOUS
<1>1. XInv'
    BY NextXInv DEF HInv
<1>2. CASE UNCHANGED vars
    BY <1>1, <1>2 DEF HInv, vars, CarriedHash, Carries
<1>3. CASE Next
    BY <1>1, <1>3, CarriedHashNext DEF HInv
<1> QED
    BY <1>2, <1>3

LEMMA HashKeeps ==
    ASSUME HInv, Next, NEW t \in Txs, tx[t].hash
    PROVE  tx'[t].hash
<1>0. /\ TInv /\ \A r \in Reqs : LabelOK(pc[r], job[r])
    BY DEF HInv, XInv, AInv, TInv, LabelsOK
<1>1. RowStep(t)
    BY <1>0, RowChange
<1>2. Exists(t)
    BY DEF HInv, XInv, AInv, RecordedIsAccepted, AcceptedExist
<1>3. ASSUME NEW r \in Reqs, Written(r, t) PROVE tx'[t].hash
    BY <1>0, <1>3 DEF Written, At, HInv, CarriedHash, Carries, LabelOK
<1> QED
    BY <1>1, <1>2, <1>3 DEF RowStep, Inserted, Superseded, Synced, Exists

\* As long as no transaction has two requests running, a recorded TxHash stays,
\* although updateAwaitingExecutionTx, cancelTx and updateFailedTx save entities
\* read awaits before, and however the requests for other transactions, the chain,
\* the synchronisation and failures come in between.
THEOREM HashStaysAlways == Spec /\ []OneRequestPerTx => HashStays
<1>1. HInv /\ [Next]_vars => [\A t \in Txs : tx[t].hash => tx'[t].hash]_vars
    BY HashKeeps
<1> QED
    BY <1>1, InitHInv, NextHInv, PTL DEF Spec, HashStays

-----------------------------------------------------------------------------
(* What the chain accepted is not taken for replaced. *)

\* The chain accepts one transaction for each sequence of the account.
OneAcceptedPerSequence ==
    \A t, u \in Txs : Accepted(t) /\ Accepted(u) /\ tx[t].seq = tx[u].seq => t = u

LEMMA OneAcceptedNext ==
    ASSUME QInv, Next, OneAcceptedPerSequence
    PROVE  OneAcceptedPerSequence'
<1> SUFFICES ASSUME NEW t \in Txs, NEW u \in Txs, Accepted(t)', Accepted(u)',
                    tx'[t].seq = tx'[u].seq
             PROVE  t = u
    BY DEF OneAcceptedPerSequence
<1>0. /\ XInv /\ TInv /\ account.next \in Nat
      /\ chain \in [Txs -> {"none", "mempool", "ok", "failed"}]
      /\ \A w \in Txs : tx[w].seq \in Nat
    BY DEF QInv, XInv, AInv, TInv, TypeOK, TxRow
<1>1. ASSUME NEW w \in Txs, Accepted(w)
      PROVE  tx'[w].seq = tx[w].seq /\ tx[w].seq < account.next
    BY <1>0, <1>1, ExistsStays DEF XInv, AcceptedExist, QInv, AcceptedSeqs
<1>2. ASSUME NEW w \in Txs, Accepted(w)', ~Accepted(w)
      PROVE  /\ tx'[w].seq = tx[w].seq /\ tx[w].seq = account.next
             /\ \A x \in Txs : x # w => chain'[x] = chain[x]
    <2>1. PICK r \in Reqs : Took(r) /\ job[r].tx = w
        BY <1>0, <1>2, AcceptedBefore
    <2> QED
        BY <1>0, <2>1 DEF Took, ChainTakes, ChainAdds
<1>3. CASE Accepted(t) /\ Accepted(u)
    BY <1>1, <1>3 DEF OneAcceptedPerSequence
<1>4. CASE ~Accepted(t) /\ Accepted(u)
    BY <1>0, <1>1, <1>2, <1>4
<1>5. CASE Accepted(t) /\ ~Accepted(u)
    BY <1>0, <1>1, <1>2, <1>5
<1>6. CASE ~Accepted(t) /\ ~Accepted(u)
    BY <1>2, <1>6 DEF Accepted
<1> QED
    BY <1>3, <1>4, <1>5, <1>6

\* What was just sent has left the queue, so it is not among those to replace.
SentLeftQueue == \A r \in Reqs : pc[r] = "replace" => tx[job[r].tx].status \notin Queued

WInv ==
    /\ QInv /\ RInv
    /\ OneAcceptedPerSequence /\ SentLeftQueue /\ SentIsNotReplaced

LEMMA SentLeftQueueNext ==
    ASSUME WInv, OneRequestPerTx, Next
    PROVE  SentLeftQueue'
<1> SUFFICES ASSUME NEW q \in Reqs, pc'[q] = "replace"
             PROVE  tx'[job'[q].tx].status \notin Queued
    BY DEF SentLeftQueue
<1>0. /\ XInv /\ TInv /\ \A r \in Reqs : LabelOK(pc[r], job[r])
    BY DEF WInv, QInv, XInv, AInv, TInv, LabelsOK
<1>1. CASE pc[q] = "savePending"
    <2>1. tx'[job[q].tx].status = "PENDING" /\ Stays(q)
        BY <1>0, <1>1, HandlerMoves
        DEF Begins, Moves, MovesVoting, MovesSequence, MovesSend, Stops, Goes, Ends
    <2> QED
        BY <2>1 DEF Stays, Queued
<1>2. CASE pc[q] # "savePending"
    <2>1. pc[q] = "replace" /\ Stays(q)
        BY <1>0, <1>2, HandlerMoves
        DEF Begins, Moves, MovesVoting, MovesSequence, MovesSend, Stops, Goes, Ends
    <2>2. PICK t \in Txs : t = job[q].tx /\ Exists(t) /\ tx[t].status \notin Queued
        BY <1>0, <2>1 DEF LabelOK, XInv, HandledExist, WInv, SentLeftQueue
    <2>3. ASSUME NEW r \in Reqs, Written(r, t) PROVE FALSE
        BY <2>1, <2>2, <2>3, OneWriter DEF Written, At, InFlight
    <2>4. RowStep(t)
        BY <1>0, RowChange
    <2>5. tx'[t].status \notin Queued
        BY <2>2, <2>3, <2>4 DEF RowStep, Inserted, Superseded, Synced, Exists, Queued
    <2> QED
        BY <2>1, <2>2, <2>5 DEF Stays
<1> QED
    BY <1>1, <1>2

LEMMA NotReplacedNext ==
    ASSUME WInv, Next
    PROVE  SentIsNotReplaced'
<1> SUFFICES ASSUME NEW t \in Txs, tx'[t].status = "REPLACED", Accepted(t)'
             PROVE  FALSE
    BY DEF SentIsNotReplaced
<1>0. /\ QInv /\ XInv /\ TInv /\ account.next \in Nat
      /\ \A r \in Reqs : LabelOK(pc[r], job[r])
      /\ \A w \in Txs : tx[w].seq \in Nat
    BY DEF WInv, QInv, XInv, AInv, TInv, TypeOK, LabelsOK, TxRow
<1>1. RowStep(t)
    BY <1>0, RowChange
<1>2. CASE tx[t].status = "REPLACED"
    <2>1. ~Accepted(t)
        BY <1>2 DEF WInv, SentIsNotReplaced
    <2>2. PICK u \in Txs : Accepted(u) /\ tx[u].seq = tx[t].seq
        BY <1>2 DEF WInv, RInv, ReplacedLostItsSequence
    <2>3. PICK r \in Reqs : Took(r) /\ job[r].tx = t
        BY <1>0, <2>1, AcceptedBefore
    <2> QED
        BY <1>0, <2>2, <2>3 DEF Took, ChainTakes, QInv, AcceptedSeqs
<1>3. CASE tx[t].status # "REPLACED"
    <2>1. PICK r \in Reqs : Superseded(r, t)
        BY <1>1, <1>3 DEF RowStep, Inserted, Written, Synced
    <2>2. PICK u \in Txs : u = job[r].tx /\ Accepted(u) /\ tx[u].seq = tx[t].seq /\ u # t
        BY <1>0, <2>1
        DEF Superseded, At, LabelOK, XInv, AInv, HandlersKnow, SentIsAccepted, WInv, SentLeftQueue
    <2>3. ~Accepted(t)
        BY <2>2 DEF WInv, OneAcceptedPerSequence
    <2>4. PICK q \in Reqs : Took(q) /\ job[q].tx = t
        BY <1>0, <2>3, AcceptedBefore
    <2> QED
        BY <1>0, <2>2, <2>4 DEF Took, ChainTakes, QInv, AcceptedSeqs
<1> QED
    BY <1>2, <1>3

LEMMA NextWInv == WInv /\ OneRequestPerTx /\ [Next]_vars => WInv'
<1> SUFFICES ASSUME WInv, OneRequestPerTx, [Next]_vars PROVE WInv'
    OBVIOUS
<1>1. QInv' /\ RInv'
    BY NextQInv, NextRInv DEF WInv
<1>2. CASE UNCHANGED vars
    BY <1>1, <1>2
    DEF WInv, vars, OneAcceptedPerSequence, SentLeftQueue, SentIsNotReplaced, Accepted
<1>3. CASE Next
    BY <1>1, <1>3, OneAcceptedNext, SentLeftQueueNext, NotReplacedNext DEF WInv
<1> QED
    BY <1>2, <1>3

\* As long as no transaction has two requests running, sending marks only others
\* REPLACED: a transaction the chain accepted never is, also when handlers of
\* transactions with the same sequence run at the same time or stop halfway.
THEOREM SentIsNotReplacedAlways == Spec /\ []OneRequestPerTx => []SentIsNotReplaced
<1>1. Init => WInv
    BY InitQInv, InitXInv
    DEF Init, WInv, RInv, ReplacedLostItsSequence, OneAcceptedPerSequence, SentLeftQueue,
        SentIsNotReplaced, Accepted
<1>2. WInv => SentIsNotReplaced
    BY DEF WInv
<1> QED
    BY <1>1, <1>2, NextWInv, PTL DEF Spec

-----------------------------------------------------------------------------
(* Requests one at a time. *)

OneAtATime == \A q, r \in InFlight : q = r

LEMMA OneAtATimeAlways ==
    ASSUME MaxInFlight <= 1
    PROVE  Spec => []OneAtATime
<1>1. Init => OneAtATime
    BY DEF Init, OneAtATime, InFlight
<1>2. TInv /\ OneAtATime /\ [Next]_vars => OneAtATime'
    <2> SUFFICES ASSUME TInv, OneAtATime, [Next]_vars PROVE OneAtATime'
        OBVIOUS
    <2>0. pc \in [Reqs -> Labels] /\ \A r \in Reqs : LabelOK(pc[r], job[r])
        BY DEF TInv, TypeOK, LabelsOK
    <2>1. CASE UNCHANGED vars
        BY <2>1 DEF vars, OneAtATime, InFlight
    <2>2. ASSUME NEW r \in Reqs, Start(r) PROVE OneAtATime'
        <3>1. Cardinality(InFlight) < MaxInFlight
            BY <2>2
            DEF Start, StartCreate, StartConfirm, StartReject, StartDelete, StartChange, StartSend,
                Begin
        <3>2. IsFiniteSet(InFlight)
            BY FS_Subset, TxHandlersAssumption DEF InFlight
        <3>3. InFlight = {}
            BY <3>1, <3>2, FS_CardinalityType, FS_EmptySet, TxHandlersAssumption
        <3>4. \A q \in Reqs : q # r => pc'[q] = pc[q]
            BY <2>2, OthersStay
        <3> QED
            BY <3>3, <3>4 DEF OneAtATime, InFlight
    <2>3. ASSUME NEW r \in Reqs, Step(r) \/ Fail(r) PROVE OneAtATime'
        <3>1. \A q \in Reqs : q # r => pc'[q] = pc[q]
            BY <2>3, OthersStay
        <3>2. pc[r] \notin {"idle", "done"}
            BY <2>3, StepMoves, FailStops
            DEF Moves, MovesVoting, MovesSequence, MovesSend, Stops, Goes, Bumps, Saves, At
        <3> QED
            BY <3>1, <3>2 DEF OneAtATime, InFlight
    <2>4. ASSUME NEW t \in Txs, Commit(t) \/ Sync(t) PROVE OneAtATime'
        BY <2>4 DEF Commit, Sync, OneAtATime, InFlight
    <2> QED
        BY <2>1, <2>2, <2>3, <2>4 DEF Next
<1> QED
    BY <1>1, <1>2, AlwaysTInv, PTL DEF Spec

LEMMA OneAtATimeIsNoOverlap == OneAtATime => OneRequestPerOwner /\ OneRequestPerTx
    BY DEF OneAtATime, OneRequestPerOwner, OneRequestPerTx

\* The sequence to be recorded is the one the chain has just moved past.
JustSent ==
    \A r \in Reqs : pc[r] \in {"savePending", "replace"} =>
        tx[job[r].tx].seq + 1 = account.next

\* The handlers that hold the safe's row hold no older sequence than it has.
HoldsSafe(r) ==
    \/ job[r].op = "create"
    \/ job[r].op = "send" /\ pc[r] # "readSafe"
    \/ pc[r] \in {"readQueue", "saveSafe"}
HeldSequence == \A r \in Reqs : HoldsSafe(r) => safe.sequence <= mem[r].safe.sequence

\* Reject and delete hold the tag they have just set.
HeldTag ==
    \A r \in Reqs :
        /\ pc[r] = "rereadSafe" => safe.queuedTag = stamps.queued
        /\ pc[r] \in {"readQueue", "saveSafe"} /\ job[r].op \in {"reject", "delete"} =>
            mem[r].safe.queuedTag = stamps.queued

ZInv == QInv /\ JustSent /\ HeldSequence /\ HeldTag

LEMMA JustSentNext ==
    ASSUME ZInv, OneAtATime, Next
    PROVE  JustSent'
<1> SUFFICES ASSUME NEW q \in Reqs, pc'[q] \in {"savePending", "replace"}
             PROVE  tx'[job'[q].tx].seq + 1 = account'.next
    BY DEF JustSent
<1>0. /\ TInv /\ XInv /\ \A r \in Reqs : LabelOK(pc[r], job[r])
      /\ account \in [next : Nat, committed : Nat]
    BY DEF ZInv, QInv, XInv, AInv, TInv, TypeOK, LabelsOK
<1>1. pc[q] \in {"broadcast", "savePending", "replace"} /\ Stays(q)
    BY <1>0, HandlerMoves
    DEF Begins, Moves, MovesVoting, MovesSequence, MovesSend, Stops, Goes, Ends, Stays, Bumps,
        Saves, At
<1>2. PICK t \in Txs : t = job[q].tx /\ Exists(t)
    BY <1>0, <1>1 DEF LabelOK, XInv, HandledExist
<1>3. tx'[t].seq = tx[t].seq
    BY <1>0, <1>2, ExistsStays
<1>4. CASE pc[q] = "broadcast"
    <2>1. Took(q)
        BY <1>0, <1>4, HandlerMoves
        DEF Begins, Moves, MovesVoting, MovesSequence, MovesSend, Stops, Goes, Ends, Bumps, Saves, At
    <2>2. tx[t].seq = account.next /\ account'.next = account.next + 1
        BY <1>0, <1>2, <2>1 DEF Took, ChainTakes, ChainAdds
    <2> QED
        BY <1>1, <1>2, <1>3, <2>2 DEF Stays
<1>5. CASE pc[q] # "broadcast"
    <2>1. ASSUME NEW r \in Reqs, Took(r) PROVE FALSE
        BY <1>1, <1>5, <2>1 DEF Took, At, OneAtATime, InFlight
    <2>2. account'.next = account.next
        BY <1>0, <2>1, ChainChange DEF Commit, network
    <2>3. tx[t].seq + 1 = account.next
        BY <1>1, <1>2, <1>5 DEF ZInv, JustSent
    <2> QED
        BY <1>1, <1>2, <1>3, <2>2, <2>3 DEF Stays
<1> QED
    BY <1>4, <1>5

LEMMA HeldSequenceNext ==
    ASSUME ZInv, OneAtATime, Next
    PROVE  HeldSequence'
<1> SUFFICES ASSUME NEW q \in Reqs, HoldsSafe(q)'
             PROVE  safe'.sequence <= mem'[q].safe.sequence
    BY DEF HeldSequence
<1>0. /\ TInv /\ \A r \in Reqs : LabelOK(pc[r], job[r]) /\ mem[r].safe.sequence \in Nat
      /\ safe.sequence \in Nat /\ safe.sequence <= account.next
    BY DEF ZInv, QInv, SafeSequenceBehindChain, XInv, AInv, TInv, TypeOK, LabelsOK, Mem, SafeRow
<1>1. CASE Begins(q)
    BY <1>0, <1>1 DEF Begins, Takes, rows, HoldsSafe
<1>2. CASE ~Begins(q)
    <2>1. safe'.sequence = safe.sequence
        <3>1. q \in InFlight
            BY <1>0, <1>2, HandlerMoves
            DEF Moves, MovesVoting, MovesSequence, MovesSend, Stops, Goes, Ends, Stays, NoJob,
                Bumps, Saves, At, HoldsSafe, LabelOK, InFlight
        <3>2. ASSUME NEW r \in Reqs, Saves(r) PROVE FALSE
            <4>1. r = q /\ pc[q] = "saveSafe" /\ pc'[q] # pc[q]
                BY <3>1, <3>2 DEF Saves, At, OneAtATime, InFlight
            <4> QED
                BY <1>0, <1>2, <4>1, HandlerMoves
                DEF Moves, MovesVoting, MovesSequence, MovesSend, Stops, Goes, Ends, Stays, NoJob,
                    Bumps, Saves, At, HoldsSafe, LabelOK
        <3> QED
            BY <1>0, <3>2, SafeChange DEF KeepsQueueColumns, Bumps
    <2>2. CASE pc[q] = "replace" /\ pc'[q] = "readQueue"
        <3>1. mem'[q].safe.sequence = tx[job[q].tx].seq + 1
            BY <1>0, <1>2, <2>2, HandlerMoves
            DEF Moves, MovesVoting, MovesSequence, MovesSend, Stops, Goes, Ends, Bumps, Saves, At
        <3> QED
            BY <1>0, <2>1, <2>2, <3>1 DEF ZInv, JustSent
    <2>3. CASE ~(pc[q] = "replace" /\ pc'[q] = "readQueue")
        <3>1. \/ mem'[q].safe.sequence = safe.sequence
              \/ HoldsSafe(q) /\ mem'[q].safe.sequence = mem[q].safe.sequence
            BY <1>0, <1>2, <2>3, HandlerMoves
            DEF Moves, MovesVoting, MovesSequence, MovesSend, Stops, Goes, Ends, Stays, NoJob,
                Bumps, Saves, At, HoldsSafe, LabelOK
        <3> QED
            BY <1>0, <2>1, <3>1 DEF ZInv, HeldSequence
    <2> QED
        BY <2>2, <2>3
<1> QED
    BY <1>1, <1>2

LEMMA HeldTagNext ==
    ASSUME ZInv, OneAtATime, Next
    PROVE  HeldTag'
<1> SUFFICES ASSUME NEW q \in Reqs, pc'[q] \in {"rereadSafe", "readQueue", "saveSafe"}
             PROVE  /\ pc'[q] = "rereadSafe" => safe'.queuedTag = stamps'.queued
                    /\ pc'[q] \in {"readQueue", "saveSafe"} /\ job'[q].op \in {"reject", "delete"} =>
                        mem'[q].safe.queuedTag = stamps'.queued
    BY DEF HeldTag
<1>0. TInv /\ \A r \in Reqs : LabelOK(pc[r], job[r])
    BY DEF ZInv, QInv, XInv, AInv, TInv, LabelsOK
<1>1. CASE pc[q] = "bumpTag"
    BY <1>0, <1>1, HandlerMoves
    DEF Begins, Moves, MovesVoting, MovesSequence, MovesSend, Stops, Goes, Ends, Bumps, Saves, At
<1>2. CASE pc[q] # "bumpTag"
    <2>1. (q \in InFlight /\ pc[q] # "saveSafe") \/ pc'[q] = pc[q]
        BY <1>0, <1>2, HandlerMoves
        DEF Begins, Moves, MovesVoting, MovesSequence, MovesSend, Stops, Goes, Ends, Bumps, Saves,
            At, InFlight
    <2>2. KeepsQueueColumns
        <3>1. q \in InFlight
            BY <2>1 DEF InFlight
        <3>2. ASSUME NEW r \in Reqs, Bumps(r) \/ Saves(r) PROVE FALSE
            BY <1>2, <2>1, <3>1, <3>2 DEF Bumps, Saves, At, OneAtATime, InFlight
        <3> QED
            BY <1>0, <3>2, SafeChange
    <2> QED
        BY <1>0, <1>2, <2>2, HandlerMoves
        DEF Begins, Moves, MovesVoting, MovesSequence, MovesSend, Stops, Goes, Ends, Stays, Bumps,
            Saves, At, LabelOK, KeepsQueueColumns, ZInv, HeldTag
<1> QED
    BY <1>1, <1>2

LEMMA InitZInv == Init => ZInv
    BY InitQInv
    DEF Init, ZInv, JustSent, HeldSequence, HoldsSafe, HeldTag, NoJob

LEMMA NextZInv == ZInv /\ OneAtATime /\ [Next]_vars => ZInv'
<1> SUFFICES ASSUME ZInv, OneAtATime, [Next]_vars PROVE ZInv'
    OBVIOUS
<1>1. QInv'
    BY NextQInv DEF ZInv
<1>2. CASE UNCHANGED vars
    BY <1>1, <1>2 DEF ZInv, vars, JustSent, HeldSequence, HoldsSafe, HeldTag
<1>3. CASE Next
    BY <1>1, <1>3, JustSentNext, HeldSequenceNext, HeldTagNext DEF ZInv
<1> QED
    BY <1>2, <1>3

\* As long as requests do not overlap, the safe's sequence never goes back,
\* although send computes it from the transaction's sequence and every save of the
\* safe writes all columns of an entity read before: the chain only takes the next
\* sequence.
THEOREM SafeSequenceAdvancesAlways == Spec /\ []OneAtATime => SafeSequenceAdvances
<1>1. ZInv /\ [Next]_vars => [safe'.sequence >= safe.sequence]_vars
    <2> SUFFICES ASSUME ZInv, Next PROVE safe'.sequence >= safe.sequence
        OBVIOUS
    <2>0. TInv /\ safe.sequence \in Nat /\ \A r \in Reqs : mem[r].safe.sequence \in Nat
        BY DEF ZInv, QInv, XInv, AInv, TInv, TypeOK, Mem, SafeRow
    <2> QED
        BY <2>0, SafeChange DEF KeepsQueueColumns, Bumps, Saves, At, ZInv, HeldSequence, HoldsSafe
<1> QED
    BY <1>1, InitZInv, NextZInv, PTL DEF Spec, SafeSequenceAdvances

\* As long as requests do not overlap and no handler stops halfway, a confirm, a
\* reject and a delete leave the tag at the time it was last set, although reject
\* and delete save the whole row of the safe after they set it.
THEOREM TagMovesWithQueueAlways ==
    ASSUME MaxFailures = 0
    PROVE  Spec /\ []OneAtATime => TagMovesWithQueue
<1> DEFINE Moved == \A r \in Reqs :
                        /\ job[r].op \in {"confirm", "reject", "delete"}
                        /\ \/ At(r, "bumpTag") /\ job[r].op = "confirm"
                           \/ At(r, "saveSafe")
                        /\ pc'[r] = "done"
                        => safe'.queuedTag = stamps'.queued
<1>1. ZInv /\ [Next]_vars => [Moved]_vars
    <2> SUFFICES ASSUME ZInv, Next, NEW r \in Reqs,
                        job[r].op \in {"confirm", "reject", "delete"},
                        pc[r] \in {"bumpTag", "saveSafe"}, pc'[r] = "done"
                 PROVE  safe'.queuedTag = stamps'.queued
        BY DEF At
    <2>0. TInv /\ LabelOK(pc[r], job[r]) /\ failures \in Nat
        BY DEF ZInv, QInv, XInv, AInv, TInv, TypeOK, LabelsOK
    <2>1. Bumps(r) \/ Saves(r)
        BY <2>0, HandlerMoves
        DEF Begins, Moves, MovesVoting, MovesSequence, MovesSend, Stops, Goes
    <2> QED
        BY <2>0, <2>1 DEF Bumps, Saves, At, LabelOK, ZInv, HeldTag
<1> QED
    BY <1>1, InitZInv, NextZInv, PTL DEF Spec, TagMovesWithQueue

-----------------------------------------------------------------------------
(* The suggested sequence, with requests one at a time.                     *)

Sent == \E v \in votes : v.kind = "SEND"

\* Past its insert, a send has its row; so has what the chain accepted.
SendVoted ==
    \A r \in Reqs : job[r].op = "send" /\ pc[r] \notin {"readSafe", "readSigs", "insertVote"}
        => Sent
AcceptedSent == \A t \in Txs : Accepted(t) => Sent
CommittedSent == account.committed > 0 => Sent

WaitingSeqs == {tx[t].seq : t \in {u \in Txs : tx[u].status = "AWAITING_CONFIRMATIONS"}}

\* A create that has inserted its row, and has yet to save a suggestion.
Creating(r) == job[r].op = "create" /\ pc[r] # "insertTx"
NewUnvoted ==
    \A r \in Reqs : pc[r] = "checkSigned" /\ job[r].op = "create" =>
        \A v \in votes : v.tx # job[r].tx

\* Before the first send: the suggestion in the database is free ...
SafeIsFree ==
    Sent \/ safe.nextQueueSeq \notin WaitingSeqs \/ \E r \in Reqs : Creating(r)

\* ... and so is the one a handler is about to save.  A walk starts from the
\* suggestion, or from the sequence of an account that has sent nothing.
HeldIsFree ==
    Sent \/ \A r \in Reqs :
        /\ pc[r] = "readQueue" => mem[r].base = 0 \/ mem[r].base \notin WaitingSeqs
        /\ pc[r] = "saveSafe" => mem[r].safe.nextQueueSeq \notin WaitingSeqs

\* The array the walk goes through is in the order of the numbers, as when all
\* sequences in the queue have the same number of digits.
QueueSortsAsNumbers == \A m, n \in QueueSeqs : LexBefore(m, n) <=> m < n

SentParts == SendVoted /\ AcceptedSent /\ CommittedSent
FInv == XInv /\ SentParts /\ NewUnvoted /\ SafeIsFree /\ HeldIsFree

LEMMA SentStays ==
    ASSUME Next, Sent
    PROVE  Sent'
    BY VotesChange DEF Voted, Sent

LEMMA SentPartsNext ==
    ASSUME XInv, SentParts, Next
    PROVE  SentParts'
<1>0. /\ TInv /\ \A r \in Reqs : LabelOK(pc[r], job[r])
      /\ account \in [next : Nat, committed : Nat]
    BY DEF XInv, AInv, TInv, TypeOK, LabelsOK
<1>1. ASSUME NEW q \in Reqs, job'[q].op = "send",
             pc'[q] \notin {"readSafe", "readSigs", "insertVote"}
      PROVE  Sent'
    <2>1. CASE Begins(q)
        BY <1>1, <2>1 DEF Begins, Takes
    <2>2. CASE ~Begins(q) /\ pc[q] = "insertVote"
        BY <1>0, <1>1, <2>2, HandlerMoves
        DEF Moves, MovesVoting, MovesSequence, MovesSend, Stops, Goes, Stays, Ends, NoJob, Bumps,
            Saves, At, Sent
    <2>3. CASE ~Begins(q) /\ pc[q] # "insertVote"
        <3>1. job[q].op = "send" /\ pc[q] \notin {"readSafe", "readSigs", "insertVote"}
            BY <1>0, <1>1, <2>3, HandlerMoves
            DEF Moves, MovesVoting, MovesSequence, MovesSend, Stops, Goes, Stays, Ends, NoJob,
                Bumps, Saves, At, LabelOK
        <3> QED
            BY <3>1, SentStays DEF SentParts, SendVoted
    <2> QED
        BY <2>1, <2>2, <2>3
<1>2. ASSUME NEW t \in Txs, Accepted(t)' PROVE Sent'
    <2>1. CASE Accepted(t)
        BY <2>1, SentStays DEF SentParts, AcceptedSent
    <2>2. ASSUME NEW r \in Reqs, Took(r) PROVE Sent'
        BY <1>0, <2>2, SentStays DEF Took, At, LabelOK, SentParts, SendVoted
    <2> QED
        BY <1>2, <2>1, <2>2, AcceptedBefore
<1>3. ASSUME account'.committed > 0 PROVE Sent'
    <2>1. CASE UNCHANGED network
        BY <1>3, <2>1, SentStays DEF network, SentParts, CommittedSent
    <2>2. CASE \E r \in Reqs : Took(r)
        BY <1>0, <2>2, SentStays DEF Took, At, LabelOK, SentParts, SendVoted
    <2>3. CASE \E t \in Txs : Commit(t)
        BY <2>3, SentStays DEF Commit, Accepted, SentParts, AcceptedSent
    <2> QED
        BY <2>1, <2>2, <2>3, ChainChange
<1> QED
    BY <1>1, <1>2, <1>3 DEF SentParts, SendVoted, AcceptedSent, CommittedSent

LEMMA NewUnvotedNext ==
    ASSUME XInv, NewUnvoted, OneAtATime, Next
    PROVE  NewUnvoted'
<1> SUFFICES ASSUME NEW q \in Reqs, pc'[q] = "checkSigned", job'[q].op = "create"
             PROVE  \A v \in votes' : v.tx # job'[q].tx
    BY DEF NewUnvoted
<1>0. TInv /\ \A r \in Reqs : LabelOK(pc[r], job[r])
    BY DEF XInv, AInv, TInv, LabelsOK
<1>1. \/ pc[q] = "checkSigned" /\ job[q].op = "create" /\ job'[q].tx = job[q].tx
      \/ pc[q] = "insertTx" /\ job'[q].tx \in Txs /\ ~Exists(job'[q].tx)
    BY <1>0, HandlerMoves
    DEF Begins, Takes, Moves, MovesVoting, MovesSequence, MovesSend, Stops, Goes, Stays, Ends,
        Bumps, Saves, At
<1>2. \A v \in votes : v.tx # job'[q].tx
    BY <1>1 DEF NewUnvoted, XInv, VotedExist
<1>3. ASSUME NEW r \in Reqs, NEW v, Voted(r, v) PROVE FALSE
    BY <1>1, <1>3 DEF Voted, At, OneAtATime, InFlight
<1> QED
    BY <1>2, <1>3, VotesChange

\* The sequences of the transactions that wait only become fewer, unless one is
\* inserted.
LEMMA WaitingShrinks ==
    ASSUME XInv, Next, \A r \in Reqs : ~InsertTx(r)
    PROVE  WaitingSeqs' \subseteq WaitingSeqs
<1> SUFFICES ASSUME NEW t \in Txs, tx'[t].status = "AWAITING_CONFIRMATIONS"
             PROVE  tx[t].status = "AWAITING_CONFIRMATIONS" /\ tx'[t].seq = tx[t].seq
    BY DEF WaitingSeqs
<1>1. RowStep(t) /\ (Exists(t)' <=> Exists(t)) /\ tx'[t].seq = tx[t].seq
    BY RowChange, RowsKept DEF XInv, AInv, KeepsRows
<1> QED
    BY <1>1 DEF RowStep, Inserted, Written, Superseded, Synced, Exists

LEMMA InsertCreates ==
    ASSUME XInv, NEW r \in Reqs, InsertTx(r)
    PROVE  Creating(r)' /\ pc[r] = "insertTx" /\ pc'[r] = "checkSigned"
<1>0. TInv /\ LabelOK(pc[r], job[r]) /\ pc \in [Reqs -> Labels]
    BY DEF XInv, AInv, TInv, TypeOK, LabelsOK
<1>1. pc[r] = "insertTx" /\ pc'[r] = "checkSigned"
    BY <1>0 DEF InsertTx, At, Goto
<1>2. Moves(r)
    BY <1>0, StepMoves DEF Step
<1> QED
    BY <1>0, <1>1, <1>2
    DEF Moves, MovesVoting, MovesSequence, MovesSend, Goes, Stays, Ends, Bumps, Saves, At,
        LabelOK, Creating

\* A create goes on until it saves a suggestion.
LEMMA CreatingStays ==
    ASSUME XInv, NewUnvoted, Next, MaxFailures = 0, NEW q \in Reqs, Creating(q)
    PROVE  Creating(q)' \/ Saves(q)
<1>0. TInv /\ LabelOK(pc[q], job[q]) /\ failures \in Nat
    BY DEF XInv, AInv, TInv, TypeOK, LabelsOK
<1>1. pc[q] = "checkSigned" => ~HasSigned(job[q].tx, job[q].user)
    BY DEF NewUnvoted, HasSigned, Creating
<1> QED
    BY <1>0, <1>1, HandlerMoves
    DEF Begins, Moves, MovesVoting, MovesSequence, MovesSend, Stops, Goes, Stays, Ends, Bumps,
        At, LabelOK, Creating

LEMMA SafeIsFreeNext ==
    ASSUME FInv, MaxFailures = 0, Next
    PROVE  SafeIsFree'
<1>0. TInv /\ XInv /\ (Sent => Sent')
    BY SentStays DEF FInv, XInv, AInv
<1>1. CASE \E r \in Reqs : InsertTx(r)
    BY <1>0, <1>1, InsertCreates DEF SafeIsFree
<1>2. CASE ~\E r \in Reqs : InsertTx(r)
    <2>1. WaitingSeqs' \subseteq WaitingSeqs
        BY <1>0, <1>2, WaitingShrinks
    <2>2. ASSUME NEW r \in Reqs, Saves(r) PROVE SafeIsFree'
        BY <1>0, <2>1, <2>2 DEF Saves, At, FInv, HeldIsFree, SafeIsFree
    <2>3. CASE KeepsQueueColumns \/ \E r \in Reqs : Bumps(r)
        <3>1. safe'.nextQueueSeq = safe.nextQueueSeq
            BY <2>3 DEF KeepsQueueColumns, Bumps
        <3>2. ASSUME NEW q \in Reqs, Creating(q) PROVE SafeIsFree'
            BY <1>0, <2>2, <3>2, CreatingStays DEF FInv, SafeIsFree
        <3> QED
            BY <1>0, <2>1, <3>1, <3>2 DEF FInv, SafeIsFree
    <2> QED
        BY <1>0, <2>2, <2>3, SafeChange
<1> QED
    BY <1>1, <1>2

LEMMA WalkFindsFree ==
    ASSUME TInv, QueueSortsAsNumbers, NEW n \in Nat, n = 0 \/ n \notin WaitingSeqs
    PROVE  NextQueueSeq(n, QueueSeqs) \notin WaitingSeqs
<1>1. QueueSeqs \subseteq Nat /\ WaitingSeqs \subseteq QueueSeqs
    BY DEF TInv, TypeOK, TxRow, QueueSeqs, WaitingSeqs, Queued
<1>2. IsFiniteSet(QueueSeqs)
    BY QueueSeqsFinite DEF TInv
<1> SUFFICES ASSUME NextQueueSeq(n, QueueSeqs) \in WaitingSeqs PROVE FALSE
    OBVIOUS
<1>3. NextQueueSeq(n, QueueSeqs) \in QueueSeqs /\ QueueSeqs \in SUBSET Nat
    BY <1>1
<1>4. \A k, m \in QueueSeqs : LexBefore(k, m) <=> k < m
    BY DEF QueueSortsAsNumbers
<1>5. NextQueueSeq(n, QueueSeqs) = n /\ \E m \in QueueSeqs : m < n
    BY ZenonT(30), <1>2, <1>3, <1>4, FirstFree
<1>6. PICK m \in QueueSeqs : m < n
    BY <1>5
<1>7. n = 0
    BY <1>5
<1> QED
    BY <1>1, <1>6, <1>7

LEMMA HeldIsFreeNext ==
    ASSUME FInv, OneAtATime, QueueSortsAsNumbers, Next
    PROVE  HeldIsFree'
<1> SUFFICES ASSUME ~Sent', NEW q \in Reqs, pc'[q] \in {"readQueue", "saveSafe"}
             PROVE  IF pc'[q] = "readQueue"
                    THEN mem'[q].base = 0 \/ mem'[q].base \notin WaitingSeqs'
                    ELSE mem'[q].safe.nextQueueSeq \notin WaitingSeqs'
    BY DEF HeldIsFree
<1>0. /\ TInv /\ XInv /\ ~Sent /\ LabelOK(pc[q], job[q])
      /\ account \in [next : Nat, committed : Nat]
      /\ mem[q].base \in Nat
    BY SentStays DEF FInv, XInv, AInv, TInv, TypeOK, LabelsOK, Mem
<1>1. pc[q] \in {"rereadSafe", "readIndexer", "readQueue", "saveSafe", "replace", "saveFailed"}
    BY <1>0, HandlerMoves
    DEF Begins, Moves, MovesVoting, MovesSequence, MovesSend, Stops, Goes, Ends, Bumps, Saves, At
<1>2. WaitingSeqs' \subseteq WaitingSeqs
    <2>1. \A r \in Reqs : ~InsertTx(r)
        BY <1>0, <1>1, InsertCreates DEF OneAtATime, InFlight
    <2> QED
        BY <1>0, <2>1, WaitingShrinks
<1>3. CASE pc'[q] = pc[q] /\ Stays(q)
    BY <1>0, <1>2, <1>3 DEF Stays, FInv, HeldIsFree
<1>4. CASE pc[q] = "rereadSafe" /\ ~(pc'[q] = pc[q] /\ Stays(q))
    <2>1. pc'[q] = "readQueue" /\ mem'[q].base = safe.nextQueueSeq
        BY <1>0, <1>4, HandlerMoves
        DEF Begins, Moves, MovesVoting, MovesSequence, MovesSend, Stops, Goes, Ends, Bumps, Saves, At
    <2>2. \A r \in Reqs : LabelOK(pc[r], job[r])
        BY <1>0 DEF TInv, LabelsOK
    <2>3. \A r \in Reqs : ~Creating(r)
        BY <1>0, <1>4, <2>2 DEF Creating, LabelOK, OneAtATime, InFlight
    <2> QED
        BY <1>0, <1>2, <2>1, <2>3 DEF FInv, SafeIsFree
<1>5. CASE pc[q] = "readIndexer" /\ ~(pc'[q] = pc[q] /\ Stays(q))
    <2>1. /\ pc'[q] = "readQueue"
          /\ mem'[q].base \in Nat /\ mem'[q].base <= account.committed
        BY <1>0, <1>5, HandlerMoves
        DEF Begins, Moves, MovesVoting, MovesSequence, MovesSend, Stops, Goes, Ends, Bumps, Saves, At
    <2> QED
        BY <1>0, <2>1 DEF FInv, SentParts, CommittedSent
<1>6. CASE pc[q] = "readQueue" /\ ~(pc'[q] = pc[q] /\ Stays(q))
    <2>1. /\ pc'[q] = "saveSafe"
          /\ mem'[q].safe.nextQueueSeq = NextQueueSeq(mem[q].base, QueueSeqs)
        BY <1>0, <1>6, HandlerMoves
        DEF Begins, Moves, MovesVoting, MovesSequence, MovesSend, Stops, Goes, Ends, Bumps, Saves, At
    <2> QED
        BY <1>0, <1>2, <1>6, <2>1, WalkFindsFree DEF FInv, HeldIsFree
<1>7. CASE pc[q] \in {"replace", "saveFailed"}
    BY <1>0, <1>7 DEF LabelOK, FInv, SentParts, SendVoted
<1>8. CASE pc[q] = "saveSafe" /\ ~(pc'[q] = pc[q] /\ Stays(q))
    BY <1>0, <1>8, HandlerMoves
    DEF Begins, Moves, MovesVoting, MovesSequence, MovesSend, Stops, Goes, Ends, Bumps, Saves, At
<1> QED
    BY <1>1, <1>3, <1>4, <1>5, <1>6, <1>7, <1>8

LEMMA InitFInv == Init => FInv
    BY InitXInv
    DEF Init, FInv, SentParts, SendVoted, AcceptedSent, CommittedSent, NewUnvoted, SafeIsFree,
        HeldIsFree, WaitingSeqs, Creating, Accepted, NoJob, NewSafe

LEMMA NextFInv ==
    ASSUME MaxFailures = 0
    PROVE  FInv /\ OneAtATime /\ QueueSortsAsNumbers /\ [Next]_vars => FInv'
<1> SUFFICES ASSUME FInv, OneAtATime, QueueSortsAsNumbers, [Next]_vars PROVE FInv'
    OBVIOUS
<1>1. XInv'
    BY NextXInv DEF FInv
<1>2. CASE UNCHANGED vars
    BY <1>1, <1>2
    DEF FInv, vars, SentParts, SendVoted, AcceptedSent, CommittedSent, NewUnvoted, SafeIsFree,
        HeldIsFree, WaitingSeqs, Creating, Accepted, Sent
<1>3. CASE Next
    BY <1>1, <1>3, SentPartsNext, NewUnvotedNext, SafeIsFreeNext, HeldIsFreeNext DEF FInv
<1> QED
    BY <1>2, <1>3

\* As long as requests do not overlap, no handler stops halfway and the queue's
\* sequences sort as numbers, the safe suggests a sequence that no queued
\* transaction has, until the first transaction is ready or sent: whichever
\* sequences owners ask for, and although create walks from the account's sequence,
\* and reject, delete and changeSequence from the last suggestion.
THEOREM SuggestionIsFreeAlways ==
    ASSUME MaxFailures = 0
    PROVE  Spec /\ []OneAtATime /\ []QueueSortsAsNumbers => []SuggestionIsFree
<1>1. FInv => SuggestionIsFree
    <2> SUFFICES ASSUME FInv, Quiet, Planning PROVE safe.nextQueueSeq \notin QueueSeqs
        BY DEF SuggestionIsFree
    <2>1. \A r \in Reqs : LabelOK(pc[r], job[r])
        BY DEF FInv, XInv, AInv, TInv, LabelsOK
    <2>2. \A r \in Reqs : ~Creating(r)
        BY <2>1 DEF Quiet, InFlight, LabelOK, Creating
    <2>3. QueueSeqs \subseteq WaitingSeqs
        BY DEF Planning, QueueSeqs, Queued, WaitingSeqs
    <2> QED
        BY <2>2, <2>3 DEF FInv, SafeIsFree, Sent, Planning
<1>2. FInv /\ OneAtATime /\ QueueSortsAsNumbers /\ [Next]_vars => FInv'
    BY NextFInv
<1> QED
    BY <1>1, <1>2, InitFInv, PTL DEF Spec

-----------------------------------------------------------------------------

\* One request at a time, the case of a backend that answers each request before
\* it takes the next, is no more than the bound of TxHandlers on the handlers that
\* run: all of the above then holds of the specification itself.
THEOREM SerialHandlers ==
    ASSUME MaxInFlight <= 1
    PROVE  /\ Spec => []OneOpinionPerOwner /\ []CancelledIsHopeless /\ []SentIsNotReplaced
           /\ Spec => HashStays /\ SafeSequenceAdvances
           /\ MaxFailures = 0 => (Spec => TagMovesWithQueue)
           /\ MaxFailures = 0 => (Spec /\ []QueueSortsAsNumbers => []SuggestionIsFree)
<1>1. Spec => []OneAtATime
    BY OneAtATimeAlways
<1>2. Spec => []OneRequestPerOwner /\ []OneRequestPerTx
    BY <1>1, OneAtATimeIsNoOverlap, PTL
<1>3. Spec => []OneOpinionPerOwner /\ []CancelledIsHopeless /\ []SentIsNotReplaced
    BY <1>2, OneOpinionAlways, CancelledIsHopelessAlways, SentIsNotReplacedAlways, PTL
<1>4. Spec => HashStays /\ SafeSequenceAdvances
    BY <1>1, <1>2, HashStaysAlways, SafeSequenceAdvancesAlways, PTL
<1>5. ASSUME MaxFailures = 0 PROVE Spec => TagMovesWithQueue
    <2>1. Spec /\ []OneAtATime => TagMovesWithQueue
        BY <1>5, TagMovesWithQueueAlways
    <2> QED
        BY <1>1, <2>1, PTL
<1>6. ASSUME MaxFailures = 0 PROVE Spec /\ []QueueSortsAsNumbers => []SuggestionIsFree
    <2>1. Spec /\ []OneAtATime /\ []QueueSortsAsNumbers => []SuggestionIsFree
        BY <1>6, SuggestionIsFreeAlways
    <2> QED
        BY <1>1, <2>1, PTL
<1> QED
    BY <1>3, <1>4, <1>5, <1>6

-----------------------------------------------------------------------------
(* What a client is shown of a transaction (TxDetails) while the handlers   *)
(* run, however they interleave and wherever they stop: no overlap is       *)
(* excluded from here on.  A status is read before the votes of the answer. *)
(* Votes are never taken back, so what explained the status when it was     *)
(* read is still in the database when the votes are.                        *)

(* What is in the database beside a status. *)

Counts(t) == Cardinality(Owners) - Cardinality(Rejects(t)) < Threshold
Sender(t) == Rows(t, "SEND") # {}

\* Who is about to cancel has counted the rejections, and who is past the insert of
\* the SEND row has inserted it.
CancelCounted == \A r \in Reqs : pc[r] = "cancel" => Counts(job[r].tx)
SenderStored ==
    \A r \in Reqs : job[r].op = "send" /\ pc[r] \notin {"readSafe", "readSigs", "insertVote"}
        => Sender(job[r].tx)

CancelledCounts == \A t \in Txs : tx[t].status = "CANCELLED" => Counts(t)
AcceptedSender == \A t \in Txs : Accepted(t) => Sender(t)

MInv ==
    /\ XInv /\ ExecutableHasThreshold /\ Counted
    /\ CancelCounted /\ SenderStored /\ CancelledCounts /\ AcceptedSender

LEMMA VotesGrow ==
    ASSUME TInv, Next
    PROVE  votes \subseteq votes' /\ IsFiniteSet(votes) /\ IsFiniteSet(votes')
    BY VotesChange, NextTInv DEF TInv, Voted

LEMMA CountsStays ==
    ASSUME TInv, Next, NEW t, Counts(t)
    PROVE  Counts(t)'
<1> DEFINE A == Rejects(t)
           B == Rejects(t)'
<1>1. A \subseteq B /\ IsFiniteSet(A) /\ IsFiniteSet(B)
    BY VotesGrow, FS_Subset DEF Rejects, Rows
<1>2. Cardinality(A) <= Cardinality(B)
    BY <1>1, FS_Subset
<1>3. /\ Cardinality(A) \in Nat /\ Cardinality(B) \in Nat
      /\ Cardinality(Owners) \in Nat /\ Threshold \in Int
    BY <1>1, FS_CardinalityType, TxHandlersAssumption
<1>4. Counts(t) <=> Cardinality(Owners) - Cardinality(A) < Threshold
    BY DEF Counts
<1>5. Counts(t)' <=> Cardinality(Owners) - Cardinality(B) < Threshold
    BY DEF Counts
<1> HIDE DEF A, B
<1> QED
    BY <1>2, <1>3, <1>4, <1>5

LEMMA SenderStays ==
    ASSUME Next, NEW t, Sender(t)
    PROVE  Sender(t)'
    BY VotesChange DEF Voted, Sender, Rows

LEMMA CancelCountedNext ==
    ASSUME MInv, Next
    PROVE  CancelCounted'
<1> SUFFICES ASSUME NEW q \in Reqs, pc'[q] = "cancel"
             PROVE  Counts(job[q].tx)' /\ job'[q].tx = job[q].tx
    BY DEF CancelCounted, Counts, Rejects, Rows
<1>0. TInv
    BY DEF MInv, XInv, AInv
<1>1. job'[q].tx = job[q].tx /\ Counts(job[q].tx)
    BY <1>0, HandlerMoves
    DEF Begins, Moves, MovesVoting, MovesSequence, MovesSend, Stops, Goes, Stays, Ends, Bumps,
        Saves, At, MInv, CancelCounted, Counts
<1>2. PICK t : t = job[q].tx
    OBVIOUS
<1>3. Counts(t)'
    BY <1>0, <1>1, <1>2, CountsStays
<1> QED
    BY <1>1, <1>2, <1>3 DEF Counts, Rejects, Rows

LEMMA SenderStoredNext ==
    ASSUME MInv, Next
    PROVE  SenderStored'
<1> SUFFICES ASSUME NEW q \in Reqs, job'[q].op = "send",
                    pc'[q] \notin {"readSafe", "readSigs", "insertVote"}
             PROVE  \E v \in votes' : v.tx = job'[q].tx /\ v.kind = "SEND"
    BY DEF SenderStored, Sender, Rows
<1>0. TInv /\ LabelOK(pc[q], job[q])
    BY DEF MInv, XInv, AInv, TInv, LabelsOK
<1>1. CASE Begins(q)
    BY <1>1 DEF Begins, Takes
<1>2. CASE ~Begins(q) /\ pc[q] = "insertVote"
    BY <1>0, <1>2, HandlerMoves
    DEF Moves, MovesVoting, MovesSequence, MovesSend, Stops, Goes, Stays, Ends, NoJob, Bumps,
        Saves, At
<1>3. CASE ~Begins(q) /\ pc[q] # "insertVote"
    <2>1. /\ job[q].op = "send" /\ job'[q].tx = job[q].tx
          /\ pc[q] \notin {"readSafe", "readSigs", "insertVote"}
        BY <1>0, <1>3, HandlerMoves
        DEF Moves, MovesVoting, MovesSequence, MovesSend, Stops, Goes, Stays, Ends, NoJob,
            Bumps, Saves, At, LabelOK
    <2>2. PICK v \in votes : v.tx = job[q].tx /\ v.kind = "SEND"
        BY <2>1 DEF MInv, SenderStored, Sender, Rows
    <2> QED
        BY <1>0, <2>1, <2>2, VotesGrow
<1> QED
    BY <1>1, <1>2, <1>3

LEMMA NextMInv == MInv /\ [Next]_vars => MInv'
<1> SUFFICES ASSUME MInv, [Next]_vars PROVE MInv'
    OBVIOUS
<1>0. TInv
    BY DEF MInv, XInv, AInv
<1>1. XInv' /\ ExecutableHasThreshold' /\ Counted'
    BY <1>0, NextXInv, NextEInv DEF MInv, EInv
<1>2. CASE UNCHANGED vars
    BY <1>1, <1>2
    DEF vars, MInv, CancelCounted, SenderStored, CancelledCounts, AcceptedSender, Counts, Sender,
        Rejects, Rows, Accepted
<1>3. CASE Next
    <2>1. ASSUME NEW t \in Txs, tx'[t].status = "CANCELLED" PROVE Counts(t)'
        <3>1. Counts(t)
            BY <1>0, <1>3, <2>1, RowChange
            DEF RowStep, Inserted, Written, Superseded, Synced, At, MInv, CancelCounted,
                CancelledCounts
        <3> QED
            BY <1>0, <1>3, <3>1, CountsStays
    <2>2. ASSUME NEW t \in Txs, Accepted(t)' PROVE Sender(t)'
        <3>1. ASSUME NEW r \in Reqs, Took(r), job[r].tx = t PROVE Sender(t)
            BY <1>0, <3>1 DEF Took, At, TInv, LabelsOK, LabelOK, MInv, SenderStored
        <3> QED
            BY <1>3, <2>2, <3>1, AcceptedBefore, SenderStays DEF MInv, AcceptedSender
    <2> QED
        BY <1>1, <1>3, <2>1, <2>2, CancelCountedNext, SenderStoredNext
        DEF MInv, CancelledCounts, AcceptedSender
<1> QED
    BY <1>2, <1>3

LEMMA InitMInv == Init => MInv
    BY InitXInv
    DEF Init, MInv, ExecutableHasThreshold, Counted, CancelCounted, SenderStored, CancelledCounts,
        AcceptedSender, Accepted, NoJob

-----------------------------------------------------------------------------
(* The answer. *)

Sent5 == {"PENDING", "SUCCESS", "0", "5"}

\* The database explains the status a row shows ...
Backed(row) ==
    /\ row.status = "AWAITING_EXECUTION" => Executable(row.tx)
    /\ row.status = "CANCELLED" => Counts(row.tx)
    /\ row.status \in Sent5 => Sender(row.tx)

\* ... and so do the columns that have been read.
ReadSoFar(row) ==
    /\ "confirms" \notin row.todo /\ row.status = "AWAITING_EXECUTION" =>
            Cardinality(row.confirms) >= Threshold
    /\ "rejects" \notin row.todo /\ row.status = "CANCELLED" =>
            Cardinality(Owners) - Cardinality(row.rejects) < Threshold
    /\ row.view = "detail" /\ "executor" \notin row.todo /\ row.status \in Sent5 =>
            row.executor # None

LInv ==
    /\ MInv /\ PageTypeOK
    /\ \A row \in page : row.view # "history" => Backed(row) /\ ReadSoFar(row)

\* While handlers run, the answer keeps its explanations.
LEMMA HandlersLInv ==
    ASSUME LInv, [Next]_vars, UNCHANGED page
    PROVE  LInv'
<1>1. MInv' /\ TInv
    BY NextMInv DEF LInv, MInv, XInv, AInv
<1>2. CASE UNCHANGED vars
    BY <1>1, <1>2
    DEF vars, LInv, PageTypeOK, PageRow, Backed, ReadSoFar, Executable, Counts, Sender, Confirms,
        Rejects, Rows
<1>3. CASE Next
    <2>1. PageTypeOK'
        BY <1>1, <1>3, VotesGrow DEF LInv, PageTypeOK, PageRow
    <2>2. ASSUME NEW row \in page, Backed(row) PROVE Backed(row)'
        <3>1. PICK t \in Txs : t = row.tx
            BY DEF LInv, PageTypeOK, PageRow
        <3>2. Executable(t) => Executable(t)'
            BY <1>1, <1>3, VotesGrow, ExecutableStays
        <3>3. Counts(t) => Counts(t)'
            BY <1>1, <1>3, CountsStays
        <3>4. Sender(t) => Sender(t)'
            BY <1>3, SenderStays
        <3>5. Backed(row)' <=>
                /\ row.status = "AWAITING_EXECUTION" => Executable(t)'
                /\ row.status = "CANCELLED" => Counts(t)'
                /\ row.status \in Sent5 => Sender(t)'
            BY <3>1 DEF Backed, Executable, Confirms, Counts, Rejects, Sender, Rows
        <3> QED
            BY <2>2, <3>1, <3>2, <3>3, <3>4, <3>5 DEF Backed
    <2> QED
        BY <1>1, <2>1, <2>2 DEF LInv, ReadSoFar
<1> QED
    BY <1>2, <1>3

\* A row of the database shows what its status is backed by.
LEMMA StatusBacked ==
    ASSUME MInv, NEW t \in Txs, NEW status \in Statuses \union {"0", "5"},
           status = tx[t].status \/ (status \in {"0", "5"} /\ InBlock(t)),
           NEW view, NEW todo
    PROVE  Backed(Row(view, t, status, todo))
<1>1. tx[t].status \in Statuses /\ "0" \notin Statuses /\ "5" \notin Statuses
    BY DEF MInv, XInv, AInv, TInv, TypeOK, TxRow, Statuses, Queued
<1>2. status \in Sent5 => Accepted(t)
    BY <1>1 DEF MInv, XInv, AInv, RecordedIsAccepted, Sent5, InBlock, Accepted
<1>3. status = "AWAITING_EXECUTION" => Executable(t)
    BY <1>1 DEF MInv, ExecutableHasThreshold
<1>4. status = "CANCELLED" => Counts(t)
    BY <1>1 DEF MInv, CancelledCounts
<1>5. status \in Sent5 => Sender(t)
    BY <1>2 DEF MInv, AcceptedSender
<1>6. Row(view, t, status, todo).tx = t /\ Row(view, t, status, todo).status = status
    BY DEF Row
<1> QED
    BY <1>3, <1>4, <1>5, <1>6 DEF Backed

LEMMA RowTyped ==
    ASSUME NEW t \in Txs, NEW status \in Statuses \union {"0", "5"},
           NEW view \in {"detail", "queue", "history"},
           NEW todo \in SUBSET {"confirms", "rejects", "executor"}
    PROVE  Row(view, t, status, todo) \in PageRow
    BY DEF Row, PageRow

\* The columns of one row are read.
LEMMA ReadColumn ==
    ASSUME LInv, NEW row \in page, NEW new \in PageRow, Replaced(row, new),
           new.view = row.view /\ new.tx = row.tx /\ new.status = row.status,
           row.view # "history" => ReadSoFar(new)
    PROVE  LInv'
<1>1. MInv' /\ PageTypeOK'
    BY DEF Replaced, vars, LInv, MInv, XInv, AInv, TInv, TypeOK, LabelsOK, HandlersKnow,
           HashKnown, SentIsAccepted, RecordedIsAccepted, HandledExist, AcceptedExist, VotedExist,
           ExecutableHasThreshold, Counted, CancelCounted, SenderStored, CancelledCounts,
           AcceptedSender, Counts, Sender, Rejects, Rows, Accepted, Exists, Executable, Confirms,
           PageTypeOK, PageRow
<1>2. \A r : Backed(r) <=> Backed(r)'
    BY DEF Replaced, vars, Backed, Executable, Counts, Sender, Confirms, Rejects, Rows
<1>3. row.view # "history" => Backed(new)
    BY DEF LInv, Backed
<1> QED
    BY <1>1, <1>2, <1>3 DEF LInv, Replaced, ReadSoFar

LEMMA LookLInv ==
    ASSUME LInv, Look
    PROVE  LInv'
<1>0. UNCHANGED vars
    BY DEF Look, GetTxFromDB, OpenDetail, OpenAuraTx, OpenQueue, OpenHistory, Close, Show,
           ReadConfirmations, ReadRejections, ReadExecutor, ReadConfirmationStatus, Replaced
<1>1. MInv'
    BY <1>0, NextMInv DEF LInv
<1>2. /\ \A r : Backed(r) <=> Backed(r)'
      /\ PageRow' = PageRow
      /\ tx \in [Txs -> TxRow] /\ votes' = votes
    BY <1>0
    DEF vars, Backed, Executable, Counts, Sender, Confirms, Rejects, Rows, PageRow,
        LInv, MInv, XInv, AInv, TInv, TypeOK
<1>3. ASSUME NEW rows_ \in SUBSET PageRow, Show(rows_),
             \A row \in rows_ : row.view # "history" => Backed(row) /\ ReadSoFar(row)
      PROVE  LInv'
    BY <1>1, <1>2, <1>3 DEF Show, LInv, PageTypeOK, ReadSoFar
<1>4. ASSUME NEW t \in Txs, GetTxFromDB(t) PROVE LInv'
    <2> DEFINE todo == {"confirms", "rejects", "executor"}
    <2>0. tx[t].status \in Statuses
        BY <1>2 DEF TxRow
    <2>1. CASE OpenDetail(t)
        <3> DEFINE row == Row("detail", t, tx[t].status, todo)
        <3>1. row \in PageRow /\ Backed(row)
            BY <2>0, RowTyped, StatusBacked DEF LInv
        <3>2. ReadSoFar(row)
            BY DEF ReadSoFar, Row
        <3> QED
            BY <1>3, <2>1, <3>1, <3>2 DEF OpenDetail
    <2>2. CASE OpenAuraTx(t) /\ tx[t].hash
        <3> DEFINE row == Row("detail", t, Code(t), todo)
        <3>0. Code(t) \in {"0", "5"} /\ InBlock(t)
            BY <2>2 DEF Code, OpenAuraTx
        <3>1. row \in PageRow /\ Backed(row)
            BY <3>0, RowTyped, StatusBacked DEF LInv
        <3>2. ReadSoFar(row)
            BY DEF ReadSoFar, Row
        <3> QED
            BY <1>3, <2>2, <3>1, <3>2 DEF OpenAuraTx
    <2>3. CASE OpenAuraTx(t) /\ ~tx[t].hash
        <3> DEFINE row == Row("history", t, ParseStatus(Code(t)), {})
        <3>1. row \in PageRow /\ row.view = "history"
            BY RowTyped DEF ParseStatus, Statuses, Row
        <3> QED
            BY <1>3, <2>3, <3>1 DEF OpenAuraTx
    <2> QED
        BY <1>4, <2>1, <2>2, <2>3 DEF GetTxFromDB
<1>5. CASE OpenQueue
    <2> DEFINE row(t) == Row("queue", t, tx[t].status, {"confirms", "rejects"})
    <2>1. ASSUME NEW t \in Txs PROVE row(t) \in PageRow /\ Backed(row(t)) /\ ReadSoFar(row(t))
        <3>1. tx[t].status \in Statuses
            BY <1>2 DEF TxRow
        <3>2. row(t) \in PageRow /\ Backed(row(t))
            BY <3>1, RowTyped, StatusBacked DEF LInv
        <3>3. ReadSoFar(row(t))
            BY DEF ReadSoFar, Row
        <3> QED
            BY <3>2, <3>3
    <2>2. Show({row(t) : t \in {u \in Txs : InQueue(u)}})
        BY <1>5 DEF OpenQueue
    <2> HIDE DEF row
    <2> QED
        BY <1>3, <2>1, <2>2
<1>6. CASE OpenHistory
    <2> DEFINE row(t) == Row("history", t,
                             IF tx[t].hash THEN ParseStatus(Code(t)) ELSE tx[t].status, {})
    <2>1. ASSUME NEW t \in Txs PROVE row(t) \in PageRow /\ row(t).view = "history"
        <3>1. (IF tx[t].hash THEN ParseStatus(Code(t)) ELSE tx[t].status) \in Statuses
            BY <1>2 DEF TxRow, ParseStatus, Statuses
        <3> QED
            BY <3>1, RowTyped DEF Row
    <2>2. Show({row(t) : t \in {u \in Txs : InHistory(u)}})
        BY <1>6 DEF OpenHistory
    <2> HIDE DEF row
    <2> QED
        BY <1>3, <2>1, <2>2
<1>7. CASE Close
    BY <1>1, <1>7 DEF Close, LInv, PageTypeOK
<1>8. ASSUME NEW row \in page,
             \/ ReadConfirmations(row) \/ ReadRejections(row)
             \/ ReadExecutor(row) \/ ReadConfirmationStatus(row)
      PROVE  LInv'
    <2>0. /\ row \in PageRow /\ row.tx \in Txs
          /\ row.view # "history" => Backed(row) /\ ReadSoFar(row)
        BY DEF LInv, PageTypeOK, PageRow
    <2>1. Confirms(row.tx) \in SUBSET votes /\ Rejects(row.tx) \in SUBSET votes
        BY DEF Confirms, Rejects, Rows
    <2>2. CASE ReadConfirmations(row)
        <3> DEFINE new == [row EXCEPT !.confirms = Confirms(row.tx), !.todo = row.todo \ {"confirms"}]
        <3>1. /\ new \in PageRow /\ Replaced(row, new)
              /\ new.view = row.view /\ new.tx = row.tx /\ new.status = row.status
              /\ new.confirms = Confirms(row.tx) /\ new.rejects = row.rejects
              /\ new.executor = row.executor /\ new.todo = row.todo \ {"confirms"}
            BY <2>0, <2>1, <2>2 DEF ReadConfirmations, PageRow
        <3> HIDE DEF new
        <3>2. row.view # "history" => ReadSoFar(new)
            BY <2>0, <3>1 DEF Backed, ReadSoFar, Executable
        <3> QED
            BY <3>1, <3>2, ReadColumn
    <2>3. CASE ReadRejections(row)
        <3> DEFINE new == [row EXCEPT !.rejects = Rejects(row.tx), !.todo = {"executor"}]
        <3>1. /\ new \in PageRow /\ Replaced(row, new) /\ row.todo = {"rejects", "executor"}
              /\ new.view = row.view /\ new.tx = row.tx /\ new.status = row.status
              /\ new.rejects = Rejects(row.tx) /\ new.confirms = row.confirms
              /\ new.executor = row.executor /\ new.todo = {"executor"}
            BY <2>0, <2>1, <2>3 DEF ReadRejections, PageRow
        <3> HIDE DEF new
        <3>2. row.view # "history" => ReadSoFar(new)
            BY <2>0, <3>1 DEF Backed, ReadSoFar, Counts
        <3> QED
            BY <3>1, <3>2, ReadColumn
    <2>4. CASE ReadExecutor(row)
        <3>1. PICK who \in OwnersOf(Rows(row.tx, "SEND")) \union {None} :
                /\ who = None => Rows(row.tx, "SEND") = {}
                /\ Replaced(row, [row EXCEPT !.executor = who, !.todo = {}])
            BY <2>4 DEF ReadExecutor
        <3>2. who \in Owners \union {None}
            BY DEF OwnersOf, Rows, LInv, MInv, XInv, AInv, TInv, TypeOK
        <3> DEFINE new == [row EXCEPT !.executor = who, !.todo = {}]
        <3>3. /\ new \in PageRow /\ Replaced(row, new) /\ row.todo = {"executor"}
              /\ new.view = row.view /\ new.tx = row.tx /\ new.status = row.status
              /\ new.rejects = row.rejects /\ new.confirms = row.confirms
              /\ new.executor = who /\ new.todo = {}
            BY <2>0, <2>4, <3>1, <3>2 DEF ReadExecutor, PageRow
        <3> HIDE DEF new
        <3>4. row.view # "history" => ReadSoFar(new)
            BY <2>0, <3>1, <3>3 DEF Backed, ReadSoFar, Sender
        <3> QED
            BY <3>3, <3>4, ReadColumn
    <2>5. CASE ReadConfirmationStatus(row)
        <3> DEFINE new == [row EXCEPT !.confirms = Confirms(row.tx), !.rejects = Rejects(row.tx),
                                      !.todo = {}]
        <3>1. /\ new \in PageRow /\ Replaced(row, new) /\ row.todo = {"confirms", "rejects"}
              /\ new.view = row.view /\ new.tx = row.tx /\ new.status = row.status
              /\ new.rejects = Rejects(row.tx) /\ new.confirms = Confirms(row.tx)
              /\ new.executor = row.executor /\ new.todo = {}
            BY <2>0, <2>1, <2>5 DEF ReadConfirmationStatus, PageRow
        <3> HIDE DEF new
        <3>2. row.view # "history" => ReadSoFar(new)
            BY <2>0, <3>1 DEF Backed, ReadSoFar, Executable, Counts
        <3> QED
            BY <3>1, <3>2, ReadColumn
    <2> QED
        BY <1>8, <2>2, <2>3, <2>4, <2>5
<1> QED
    BY <1>4, <1>5, <1>6, <1>7, <1>8 DEF Look

LEMMA InitLInv == DetailInit => LInv
    BY InitMInv DEF DetailInit, LInv, PageTypeOK

LEMMA NextLInv == LInv /\ [DetailNext]_allVars => LInv'
    BY LookLInv, HandlersLInv DEF DetailNext, allVars

LEMMA AlwaysLInv == DetailSpec => []LInv
    BY InitLInv, NextLInv, PTL DEF DetailSpec

LEMMA LInvExplains == LInv => StatusIsExplained
    BY DEF LInv, ReadSoFar, Sent5, StatusIsExplained

\* The rows of an answer show votes the database has, whatever is inserted while
\* the answer is put together.
THEOREM PageTypeCorrect == DetailSpec => []PageTypeOK
<1>1. LInv => PageTypeOK
    BY DEF LInv
<1> QED
    BY <1>1, AlwaysLInv, PTL

\* However many handlers run between the queries of an answer, the answer explains
\* the status it shows: a transaction that is ready comes with threshold-many
\* confirmations, a cancelled one with the rejections that leave too few owners,
\* and the details of a sent one with who sent it.
THEOREM StatusIsExplainedAlways == DetailSpec => []StatusIsExplained
    BY LInvExplains, AlwaysLInv, PTL
=============================================================================

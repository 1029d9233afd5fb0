----------------------------- MODULE TxDetails -----------------------------
(***************************************************************************)
(* A client that looks at a safe's transactions while the handlers of      *)
(* TxHandlers run: getTransactionDetails and both lists of                 *)
(* getTransactionHistory.  An answer is put together from several queries, *)
(* each an await of its own, so it may show columns of different times.    *)
(*                                                                         *)
(* What never changes for a transaction (messages, threshold, chain data)  *)
(* is read without an action of its own; Messages has its content.         *)
(***************************************************************************)
EXTENDS TxViews

VARIABLE page   \* the rows of the answer that is being built

allVars == <<vars, page>>

\* Of a row: what it shows, and which columns are still to be read.
PageRow == [view : {"detail", "queue", "history"}, tx : Txs,
            status : Statuses \union {"0", "5"}, confirms : SUBSET votes,
            rejects : SUBSET votes, executor : Owners \union {None},
            todo : SUBSET {"confirms", "rejects", "executor"}]

PageTypeOK == page \subseteq PageRow

Row(view, t, status, todo) ==
    [view |-> view, tx |-> t, status |-> status, confirms |-> {}, rejects |-> {}, executor |-> None,
     todo |-> todo]
Answered == \A row \in page : row.todo = {}
Replaced(row, new) == page' = (page \ {row}) \union {new} /\ UNCHANGED vars

\* AuraTx.Code, as a string
Code(t) == IF chain[t] = "ok" THEN "0" ELSE "5"
ParseStatus(code) == IF code = "0" THEN "SUCCESS" ELSE "FAILED"

-----------------------------------------------------------------------------

Show(rows_) == page = {} /\ page' = rows_ /\ UNCHANGED vars

\* getTxFromDB by multisigTxId: the row of the database
OpenDetail(t) ==
    /\ tx[t].status # "NONE"
    /\ Show({Row("detail", t, tx[t].status, {"confirms", "rejects", "executor"})})

\* ... and by auraTxId.  A row of AuraTx that no transaction has the hash of is
\* taken for a transfer from elsewhere, and has no votes; only then the code is
\* translated to a status.
OpenAuraTx(t) ==
    /\ InBlock(t)
    /\ Show({IF tx[t].hash
             THEN Row("detail", t, Code(t), {"confirms", "rejects", "executor"})
             ELSE Row("history", t, ParseStatus(Code(t)), {})})

\* One query per column, one after the other.
ReadConfirmations(row) ==
    /\ "confirms" \in row.todo /\ "executor" \in row.todo
    /\ Replaced(row, [row EXCEPT !.confirms = Confirms(row.tx), !.todo = @ \ {"confirms"}])

ReadRejections(row) ==
    /\ row.todo = {"rejects", "executor"}
    /\ Replaced(row, [row EXCEPT !.rejects = Rejects(row.tx), !.todo = {"executor"}])

\* the status as it is by now
MutantReadExecutor(row) ==
    /\ row.todo = {"executor"}
    /\ \E who \in OwnersOf(Rows(row.tx, "SEND")) \union {None} :
        /\ who = None => Rows(row.tx, "SEND") = {}
        /\ Replaced(row, [row EXCEPT !.executor = who, !.todo = {},
                                     !.status = tx[row.tx].status])

\* the first SEND row, if there is one
ReadExecutor(row) ==
    /\ row.todo = {"executor"}
    /\ \E who \in OwnersOf(Rows(row.tx, "SEND")) \union {None} :
        /\ who = None => Rows(row.tx, "SEND") = {}
        /\ Replaced(row, [row EXCEPT !.executor = who, !.todo = {}])

\* getQueueTransaction, and for each of its rows getConfirmationStatus, which
\* reads the votes of both kinds with one query
OpenQueue == Show({Row("queue", t, tx[t].status, {"confirms", "rejects"}) :
                       t \in {u \in Txs : InQueue(u)}})
ReadConfirmationStatus(row) ==
    /\ row.todo = {"confirms", "rejects"}
    /\ Replaced(row, [row EXCEPT !.confirms = Confirms(row.tx), !.rejects = Rejects(row.tx),
                                 !.todo = {}])

\* getTxHistoryBySafeAddress: one query, whose status is a code or a word
OpenHistory ==
    Show({Row("history", t, IF tx[t].hash THEN ParseStatus(Code(t)) ELSE tx[t].status, {}) :
              t \in {u \in Txs : InHistory(u)}})

Close == page # {} /\ Answered /\ page' = {} /\ UNCHANGED vars

GetTxFromDB(t) == OpenDetail(t) \/ OpenAuraTx(t)

Look ==
    \/ \E t \in Txs : GetTxFromDB(t)
    \/ OpenQueue \/ OpenHistory \/ Close
    \/ \E row \in page : \/ ReadConfirmations(row) \/ ReadRejections(row)
                         \/ ReadExecutor(row) \/ ReadConfirmationStatus(row)

DetailInit == Init /\ page = {}
DetailNext == Look \/ (Next /\ UNCHANGED page)
DetailSpec == DetailInit /\ [][DetailNext]_allVars

-----------------------------------------------------------------------------

\* An answer explains the status it shows, although the votes are read after it: a
\* transaction ready to execute comes with its confirmations, a cancelled one with
\* the rejections that leave too few owners (the rule of the code, not that of its
\* comment, see CancelledByMajority), a sent one with who sent it.
StatusIsExplained ==
    \A row \in page : row.todo = {} /\ row.view # "history" =>
        /\ row.status = "AWAITING_EXECUTION" => Cardinality(row.confirms) >= Threshold
        /\ row.status = "CANCELLED" => Cardinality(Owners) - Cardinality(row.rejects) < Threshold
        /\ row.view = "detail" /\ row.status \in {"PENDING", "SUCCESS", "0", "5"} =>
               row.executor # None
=============================================================================

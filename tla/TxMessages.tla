----------------------------- MODULE TxMessages ----------------------------
(***************************************************************************)
(* The amounts of one transaction of a safe, from the request to what      *)
(* clients are shown: the amount column of MultisigTransaction (list), the *)
(* Message rows stored with it (details), and the rows that the external   *)
(* synchronisation service stores once the chain has executed it.  A       *)
(* transfer to the safe is a row of AuraTx that no transaction belongs to. *)
(*                                                                         *)
(* An id 0 is null.  The detail is built from three queries; the answer of *)
(* one is a function of the ids of the rows it found.  Message.amount is a *)
(* string and exact; the amount of a transaction and AutoClaimAmount are   *)
(* JavaScript numbers, the former in a column of doubles.                  *)
(***************************************************************************)
EXTENDS Amounts, FiniteSets

CONSTANTS
    Bodies,         \* messages [type, amounts, validator] a request may have
    Rewards,        \* what a validator can owe
    Undefined

\* createMultisigTransaction reads the first message, and of transfers and staking
\* messages a coin.  Amounts and rewards are numbers, which undefined is not.
TxMessagesAssumption ==
    /\ AmountsAssumption
    /\ Undefined \notin Nat /\ Rewards \subseteq Nat
    /\ \A body \in Bodies :
           /\ body \in Seq([type : STRING, amounts : Seq(Nat), validator : STRING]) \ {<<>>}
           /\ \A i \in 1..Len(body) :
                  body[i].type \in Staking \union {"send"} => body[i].amounts # <<>>

VARIABLES
    tx,         \* the row of MultisigTransaction
    auraTxs,    \* table AuraTx
    messages,   \* table Message in the order of the ids
    paid,       \* history: rewards the chain paid out for tx
    page        \* the answer of getTransactionDetails

vars == <<tx, auraTxs, messages, paid, page>>

NoTx == [state |-> "none", body |-> <<>>, amount |-> Undefined, typeUrl |-> Undefined,
         hash |-> FALSE]
NoPage == [auraTxId |-> 0, own |-> FALSE, todo |-> <<>>, messages |-> <<>>, autoClaim |-> 0]

MaybeAmount == Nat \union {Undefined}

TypeOK ==
    /\ tx.state \in {"none", "inserted", "saved", "executed"} /\ tx.amount \in MaybeAmount
    /\ \A row \in auraTxs : row.id \in {1, 2} /\ row.rewardAmount \in Nat
    /\ \A i \in 1..Len(messages) :
           messages[i].amount \in MaybeAmount /\ {messages[i].txId, messages[i].auraTxId} \subseteq 0..2
    /\ paid \in Nat /\ page.autoClaim \in Nat

Init ==
    /\ tx = NoTx
    /\ auraTxs = {}
    /\ messages = <<>>
    /\ paid = 0
    /\ page = NoPage

-----------------------------------------------------------------------------
(* createMultisigTransaction. *)

\* the row gets the total and the type of the first message
Create(body) ==
    /\ tx = NoTx
    /\ LET total == CalculateAmount(body)
       IN  tx' = [state |-> "inserted", body |-> body, hash |-> FALSE,
                  amount |-> IF total > 0 THEN total ELSE Undefined,
                  typeUrl |-> body[1].type]
    /\ UNCHANGED <<auraTxs, messages, paid, page>>

NewMessage(type, amount, outputs) ==
    [txId |-> 0, auraTxId |-> 0, typeUrl |-> type, fromAddress |-> Undefined,
     validatorAddress |-> Undefined, amount |-> amount, outputs |-> outputs]

MutantBuildMsg(msg) ==
    [NewMessage(msg.type,
                IF msg.type \in {"send", "delegate", "undelegate"} THEN msg.amounts[1] ELSE Undefined,
                IF msg.type = "multisend" THEN msg.amounts ELSE <<>>)
     EXCEPT !.txId = 1, !.validatorAddress = msg.validator]

\* buildMsgBaseOnTypeUrl
BuildMsg(msg) ==
    [NewMessage(msg.type,
                IF msg.type \in Staking \union {"send"} THEN msg.amounts[1] ELSE Undefined,
                IF msg.type = "multisend" THEN msg.amounts ELSE <<>>)
     EXCEPT !.txId = 1, !.validatorAddress = msg.validator]

SaveMsgs ==
    /\ tx.state = "inserted"
    /\ messages' = messages \o [i \in 1..Len(tx.body) |-> BuildMsg(tx.body[i])]
    /\ tx' = [tx EXCEPT !.state = "saved"]
    /\ UNCHANGED <<auraTxs, paid, page>>

-----------------------------------------------------------------------------
(* External: the chain and the synchronisation service. *)

\* A staking message is paid the reward of its validator, and the synchronisation
\* stores that as a message of the same type; a withdrawal is stored as coming from
\* the validator.
Rewarding(msg) == msg.type \in Staking \union {"withdraw"}
Executed(msg, reward) ==
    LET shown == IF Rewarding(msg) THEN reward ELSE Moved(msg)
    IN  [NewMessage(msg.type, shown, <<>>)
         EXCEPT !.auraTxId = 1, !.fromAddress = msg.validator]

\* recorded: updateTxBroadcastSuccess has stored the hash.  RewardAmount is taken as
\* it was paid; its column is of single precision.
Execute(reward, recorded) ==
    /\ tx.state = "saved"
    /\ paid' = Sum([i \in 1..Len(tx.body) |-> IF Rewarding(tx.body[i]) THEN reward[i] ELSE 0])
    /\ auraTxs' = auraTxs \union
          {[id |-> 1, own |-> TRUE, amount |-> Number(Total(tx.body)), rewardAmount |-> paid']}
    /\ messages' = messages \o [i \in 1..Len(tx.body) |-> Executed(tx.body[i], reward[i])]
    /\ tx' = [tx EXCEPT !.state = "executed", !.hash = recorded]
    /\ UNCHANGED page

Receive ==
    /\ \A row \in auraTxs : row.id # 2
    /\ auraTxs' = auraTxs \union {[id |-> 2, own |-> FALSE, amount |-> 7, rewardAmount |-> 0]}
    /\ messages' = Append(messages, [NewMessage("send", 7, <<>>) EXCEPT !.auraTxId = 2])
    /\ UNCHANGED <<tx, paid, page>>

-----------------------------------------------------------------------------
(* getTransactionDetails. *)

Closed == page.todo = <<>>

\* getTxFromDB, by either id
OpenOwn ==
    /\ Closed /\ tx.state # "none"
    /\ page' = [NoPage EXCEPT !.own = TRUE, !.todo = <<"messages", "autoClaim">>,
                              !.auraTxId = IF tx.state = "executed" /\ tx.hash THEN 1 ELSE 0]
    /\ UNCHANGED <<tx, auraTxs, messages, paid>>
OpenOther(row) ==
    /\ Closed /\ row.own => ~tx.hash
    /\ page' = [NoPage EXCEPT !.todo = <<"received">>, !.auraTxId = row.id]
    /\ UNCHANGED <<tx, auraTxs, messages, paid>>

\* What of a row is exposed: all but whom it belongs to.
TxMessage(m) ==
    [typeUrl |-> m.typeUrl, fromAddress |-> m.fromAddress, amount |-> m.amount,
     validatorAddress |-> m.validatorAddress, outputs |-> m.outputs]
MsgsByTxId == [i \in {i \in 1..Len(messages) : messages[i].txId = 1} |-> TxMessage(messages[i])]
MsgsByAuraTxId(id) ==
    [i \in {i \in 1..Len(messages) : id # 0 /\ messages[i].auraTxId = id} |-> TxMessage(messages[i])]

MutantBuildMessages(multisigMsgs, autoClaimMsgs) ==
    LET withdrawals == {k \in DOMAIN autoClaimMsgs : autoClaimMsgs[k].typeUrl = "withdraw"}
    IN  [i \in DOMAIN multisigMsgs |->
            IF multisigMsgs[i].typeUrl = "withdraw" /\ withdrawals # {}
            THEN [multisigMsgs[i] EXCEPT !.amount = autoClaimMsgs[Min(withdrawals)].amount]
            ELSE multisigMsgs[i]]

\* A withdrawal gets the amount of the first one from its validator.
Withdrawals(autoClaimMsgs, validator) ==
    {k \in DOMAIN autoClaimMsgs :
        autoClaimMsgs[k].typeUrl = "withdraw" /\ autoClaimMsgs[k].fromAddress = validator}
WithAmount(msg, autoClaimMsgs) ==
    LET withdrawals == Withdrawals(autoClaimMsgs, msg.validatorAddress)
    IN  IF msg.typeUrl = "withdraw" /\ withdrawals # {}
        THEN [msg EXCEPT !.amount = autoClaimMsgs[Min(withdrawals)].amount] ELSE msg
BuildMessages(multisigMsgs, autoClaimMsgs) ==
    [i \in DOMAIN multisigMsgs |-> WithAmount(multisigMsgs[i], autoClaimMsgs)]

CalculateAutoClaimAmount(autoClaimMsgs) ==
    NumberSum([i \in DOMAIN autoClaimMsgs |->
            IF autoClaimMsgs[i].typeUrl \in {"send", "multisend", "withdraw"} THEN 0
            ELSE autoClaimMsgs[i].amount])

ReadPage ==
    /\ ~Closed
    /\ page' = LET rest == [page EXCEPT !.todo = Tail(@)]
                   claims == MsgsByAuraTxId(page.auraTxId)
               IN  CASE Head(page.todo) = "messages" -> [rest EXCEPT !.messages = MsgsByTxId]
                     [] Head(page.todo) = "autoClaim" ->
                          [rest EXCEPT !.messages = BuildMessages(page.messages, claims),
                                       !.autoClaim = CalculateAutoClaimAmount(claims)]
                     [] OTHER -> [rest EXCEPT !.messages = claims]
    /\ UNCHANGED <<tx, auraTxs, messages, paid>>

-----------------------------------------------------------------------------
(* The items of getTransactionHistory. *)

Direction(typeUrl, own) ==
    CASE typeUrl \in {"send", "multisend"} -> IF own THEN "OUTGOING" ELSE "INCOMING"
      [] typeUrl \in {"delegate", "redelegate", "vote"} -> "OUTGOING"
      [] typeUrl \in {"undelegate", "withdraw"} -> "INCOMING"
      [] OTHER -> Undefined

\* FinalAmount: the first that is neither null nor 0
Or(a, b) == IF a \in {0, Undefined} THEN b ELSE a

Item(typeUrl, own, multisigTxAmount, amount, rewardAmount) ==
    LET type == IF own THEN typeUrl ELSE "receive"
    IN  [typeUrl |-> type, direction |-> Direction(type, own),
         finalAmount |-> Or(Or(multisigTxAmount, amount), rewardAmount)]

\* The transaction as it is listed in the queue, and then in the history.
TxItem ==
    LET row == CHOOSE r \in auraTxs : r.id = 1
    IN  IF tx.hash THEN Item(tx.typeUrl, TRUE, tx.amount, row.amount, row.rewardAmount)
        ELSE Item(tx.typeUrl, TRUE, tx.amount, Undefined, Undefined)

Next ==
    \/ \E body \in Bodies : Create(body)
    \/ SaveMsgs \/ Receive \/ OpenOwn \/ ReadPage
    \/ \E reward \in [1..Len(tx.body) -> Rewards], recorded \in BOOLEAN : Execute(reward, recorded)
    \/ \E row \in auraTxs : OpenOther(row)

Spec == Init /\ [][Next]_vars

-----------------------------------------------------------------------------

Shown(msg) == IF msg.outputs # <<>> THEN Sum(msg.outputs) ELSE Or(msg.amount, 0)
Withdrawn(msgs) == Sum([i \in DOMAIN msgs |-> IF msgs[i].typeUrl = "withdraw"
                                              THEN Shown(msgs[i]) ELSE 0])
InPage == Sum([i \in DOMAIN page.messages |-> Shown(page.messages[i])])

\* The list and the details agree: the amount in the list, computed as a number when
\* the transaction was created, is what the strings of its messages in the details
\* move, rewards aside, before and after the chain has executed it, as long as it is
\* a number that JavaScript has exactly.  (Of 18 decimals that is less than a
\* hundredth of a coin.)
AmountsAgree ==
    /\ page.own /\ Closed /\ DOMAIN page.messages # {}
    /\ tx.amount # Undefined /\ Total(tx.body) <= MaxSafe
    => TxItem.finalAmount = InPage - Withdrawn(page.messages)

\* Every reward the chain paid with an executed transaction is shown once, with its
\* message or in AutoClaimAmount, if no validator is asked twice to withdraw and
\* JavaScript has the number exactly.
PaidIsShown ==
    LET asked == {i \in 1..Len(tx.body) : tx.body[i].type = "withdraw"}
    IN  /\ page.own /\ Closed /\ page.auraTxId = 1 /\ paid <= MaxSafe
        /\ \A i, j \in asked : tx.body[i].validator = tx.body[j].validator => i = j
        => Withdrawn(page.messages) + page.autoClaim = paid
=============================================================================

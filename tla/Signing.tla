------------------------------ MODULE Signing ------------------------------
(***************************************************************************)
(* What is signed, verified, stored and assembled for one transaction of a *)
(* safe: the documents behind the votes that TxHandlers counts.            *)
(*                                                                         *)
(* An owner is the number of its public key.  Keys, addresses, documents   *)
(* and signatures are records that differ exactly when the bytes do, so    *)
(* hashing, bech32, amino and protobuf are injective here.  A chain is of  *)
(* one of two families, which differ in how an address is derived and in   *)
(* what a signature is made over; the code decides the family by the       *)
(* chain's coinDecimals in some places and by its prefix in others.        *)
(*                                                                         *)
(* A create is two steps, since another owner can confirm between the      *)
(* insert of the transaction and the creator's own confirmation.           *)
(***************************************************************************)
EXTENDS NextSeq, Amounts

CONSTANTS
    Owners,         \* public keys of the owners
    Threshold,
    Chains,         \* [kind, coinDecimals, prefix]: kind is what the chain is
    SafeRows,       \* what the table says of the safe before the first request,
                    \* Undefined if nothing
    Account,        \* external: account number and sequence on the chain
    Balance,        \* external: balance in the chain's denom
    Bodies,         \* transaction bodies: sequences of messages
    Fees,           \* sequences of coins [denom, amount]
    Seqs,           \* sequences in signed documents
    Asks,           \* values of request.sequence
    Null, Undefined \* JavaScript's; Undefined also for "not given"

\* Keys are numbers, 0 is nobody's; numbers of accounts, sequences and amounts are
\* those of the chain and of the database's columns.  A safe with one key is in the
\* table: recovered from an ethermint chain it would have an owner whose address
\* nobody has.
SigningAssumption ==
    /\ AmountsAssumption
    /\ Owners \subseteq Nat \ {0} /\ IsFiniteSet(Owners)
    /\ Threshold \in Nat \ {0}
    /\ Account \in [number : Nat, sequence : Nat]
    /\ SafeRows \subseteq [accountNumber : Nat \union {Null, Undefined},
                          nextQueueSeq : Nat \union {Null, Undefined}]
    /\ Cardinality(Owners) = 1 => \A row \in SafeRows : row.accountNumber # Undefined
    /\ \A fee \in Fees : fee # <<>> => fee[1].amount \in Nat
    /\ Asks \subseteq Nat \union {Undefined}

VARIABLES
    chain,      \* the row of table Chain
    safe,       \* accountNumber and nextQueueSeq of the Safe row
    tx,         \* the row of MultisigTransaction with its Messages
    confirms,   \* the CONFIRM rows of table MultisigConfirm, oldest first
    creating,   \* the confirmation the handler that inserted tx will insert
    sent        \* what sendMultisigTransaction assembled and what the node said

vars == <<chain, safe, tx, confirms, creating, sent>>

NoTx == [seq |-> 0, fee |-> 0, msgs |-> <<>>, creator |-> 0]
NotSent == [body |-> <<>>, signers |-> {}, result |-> "none"]
NoConfirm == [owner |-> 0]

TypeOK ==
    /\ chain \in Chains
    /\ safe \in [accountNumber : Nat \union {Null, Undefined},
                 nextQueueSeq : Nat \union {Null, Undefined}]
    /\ tx \in [seq : Nat, fee : Nat, msgs : Bodies \union {<<>>}, creator : Owners \union {0}]
    /\ \A i \in 1..Len(confirms) : confirms[i].owner \in Owners /\ confirms[i].body \in Bodies
    /\ sent \in [body : Bodies \union {<<>>}, signers : SUBSET Owners,
                 result : {"none", "executed", "refused"}]

Init ==
    /\ chain \in Chains
    /\ safe \in SafeRows
    /\ tx = NoTx
    /\ confirms = <<>>
    /\ creating = NoConfirm
    /\ sent = NotSent

-----------------------------------------------------------------------------
(* Keys and addresses. *)

FamilyByDecimals == IF chain.coinDecimals = 18 THEN "ethermint" ELSE "cosmos"
FamilyByPrefix == IF chain.prefix \in {"evmos", "canto"} THEN "ethermint" ELSE "cosmos"

\* Raw addresses of the two families order the keys differently.
Address(family, key) == [family |-> family, key |-> key]
RawBefore(family, a, b) == IF family = "ethermint" THEN a > b ELSE a < b

\* createMultisigThresholdPubkey and its ethermint variant sort by raw address
SortKeys(family, keys) ==
    CHOOSE s \in [1..Cardinality(keys) -> keys] :
        \A i, j \in 1..Cardinality(keys) : i < j => RawBefore(family, s[i], s[j])

\* createSafeAddressAndPubkey
SafePubkey == [type |-> FamilyByPrefix, pubkeys |-> SortKeys(FamilyByPrefix, Owners)]

\* The address a user logged in with, and that checkAddressPubkeyMismatch demands.
UserAddress(u) == Address(FamilyByDecimals, u)

-----------------------------------------------------------------------------
(* Documents and signatures.  q is a request: what its authInfo and body say *)
(* (fee, seq, body), the body its signature was made over (signed), and the  *)
(* sequence the request asks for (ask).                                      *)

Requests == [user : Owners, body : Bodies, signed : Bodies, fee : Fees, seq : Seqs, ask : Asks]

SignDoc(body, fee, seq, number) == [body |-> body, fee |-> fee, seq |-> seq, number |-> number]

\* External: the owner's wallet signs with the account number of the chain.
SignatureOf(q) ==
    [key |-> q.user, family |-> chain.kind,
     doc |-> SignDoc(q.signed, q.fee, q.seq, Account.number)]

VerifyCosmosSig(sig, doc, pubkey) ==
    sig.family = "cosmos" /\ sig.key = pubkey /\ sig.doc = doc

\* A key recovered with another hash than the signer's is nobody's (0).
VerifySignature(sig, doc, address) ==
    LET recovered == IF sig.family = "ethermint" /\ sig.doc = doc THEN sig.key ELSE 0
    IN  Address("ethermint", recovered) = address

ToNumber(v) == IF v = Null THEN 0 ELSE v

\* getSafeByAddress.  A safe that is not in the table is recovered from the chain,
\* which fails for several ethermint keys: the library that sorts them knows none.
InTable == safe.accountNumber # Undefined
Found == InTable \/ chain.coinDecimals # 18

\* The recovery stores the safe without the columns above, and the entity it returns
\* has null in them, as the row has.
Stored == IF Found /\ ~InTable THEN [accountNumber |-> Null, nextQueueSeq |-> Null] ELSE safe

\* getAccountInfoWithNewSeq of the safe that was found.  Its columns are null until a
\* transaction has been stored, and no more undefined then than later.
AccountInfoWithNewSeq(ask) ==
    IF Stored.accountNumber # Undefined /\ Stored.nextQueueSeq # Undefined
    THEN [number |-> ToNumber(Stored.accountNumber),
          sequence |-> IF ask \in {0, Undefined} THEN ToNumber(Stored.nextQueueSeq) ELSE ask]
    ELSE Account

MutantVerified(q, number) ==
    LET sig == SignatureOf([q EXCEPT !.signed = q.body])
        doc == SignDoc(q.body, q.fee, q.seq, number)
    IN  IF chain.coinDecimals = 18
        THEN VerifySignature(sig, doc, UserAddress(q.user))
        ELSE VerifyCosmosSig(sig, doc, q.user)

\* decodeAndVerifyTxInfo
Verified(q, number) ==
    LET sig == SignatureOf(q)
        doc == SignDoc(q.body, q.fee, q.seq, number)
    IN  IF chain.coinDecimals = 18
        THEN VerifySignature(sig, doc, UserAddress(q.user))
        ELSE VerifyCosmosSig(sig, doc, q.user)

\* checkAccountBalance
BalanceIsEnough(amount) == amount <= Number(Balance)

-----------------------------------------------------------------------------
(* Requests. *)

HasSigned(u) == \E i \in 1..Len(confirms) : confirms[i].owner = u
NewConfirm(q) == [owner |-> q.user, body |-> q.body, signature |-> SignatureOf(q)]

\* The request ends with an error; it has at most recovered the safe.
Refuse ==
    /\ safe' = Stored
    /\ UNCHANGED <<chain, tx, confirms, creating, sent>>

\* createMultisigTransaction up to saveMsgs.  The row gets the first coin's amount, as
\* a number, and the sequence of the account info, not the fee and sequence of authInfo.
Create(q) ==
    LET info == AccountInfoWithNewSeq(q.ask)
        ok == /\ Found
              /\ Verified(q, info.number)
              /\ BalanceIsEnough(CalculateAmount(q.body))
              /\ q.fee # <<>>
    IN  /\ tx = NoTx
        /\ \/ ~ok /\ Refuse
           \/ /\ ok
              /\ tx' = [seq |-> info.sequence, fee |-> Number(q.fee[1].amount),
                        msgs |-> q.body, creator |-> q.user]
              /\ creating' = NewConfirm(q)
              /\ safe' = Stored
              /\ UNCHANGED <<chain, confirms, sent>>

\* ... its confirmTx and updateSafe
ConfirmCreated ==
    /\ creating # NoConfirm
    /\ creating' = NoConfirm
    /\ \/ HasSigned(creating.owner) /\ UNCHANGED <<safe, confirms>>
       \/ /\ ~HasSigned(creating.owner)
          /\ confirms' = Append(confirms, creating)
          /\ safe' = [accountNumber |-> Account.number,
                      nextQueueSeq |-> NextQueueSeq(Account.sequence, {tx.seq})]
    /\ UNCHANGED <<chain, tx, sent>>

\* confirmMultisigTransaction, which does not compare the request with the row
Confirm(q) ==
    LET ok == Found /\ Verified(q, AccountInfoWithNewSeq(q.ask).number) /\ ~HasSigned(q.user)
    IN  /\ tx # NoTx
        /\ sent = NotSent
        /\ \/ ~ok /\ Refuse
           \/ /\ ok
              /\ confirms' = Append(confirms, NewConfirm(q))
              /\ safe' = Stored
              /\ UNCHANGED <<chain, tx, creating, sent>>

-----------------------------------------------------------------------------
(* makeTx and the node. *)

\* Which confirmations have the address of a key, and which keys have any.
RowsOf(family, key) ==
    {n \in 1..Len(confirms) : UserAddress(confirms[n].owner) = Address(family, key)}
AssemblyFamily == IF chain.coinDecimals = 18 THEN "ethermint" ELSE SafePubkey.type
SignedBits ==
    {i \in 1..Cardinality(Owners) : RowsOf(AssemblyFamily, SafePubkey.pubkeys[i]) # {}}

MutantMultisignedTx(sequence, fee, body) ==
    [bits |-> SignedBits,
     signatures |-> [i \in SignedBits |->
         confirms[Cardinality({k \in SignedBits : k <= i})].signature],
     pubkey |-> SafePubkey, seq |-> sequence, fee |-> fee, body |-> body]

\* makeMultisignedTx and its ethermint variant: a bit, and a signature with it, for
\* each key whose address has one; the map of signatures keeps the last per address.
MultisignedTx(sequence, fee, body) ==
    [bits |-> SignedBits,
     signatures |-> [i \in SignedBits |->
         confirms[Max(RowsOf(AssemblyFamily, SafePubkey.pubkeys[i]))].signature],
     pubkey |-> SafePubkey, seq |-> sequence, fee |-> fee, body |-> body]

\* makeTx: fee and sequence of the row, body of the first confirmation
MakeTx ==
    MultisignedTx(tx.seq, <<[denom |-> "own", amount |-> tx.fee]>>, confirms[1].body)

\* External: enough bits, and the signature that goes with a bit is of its key and
\* over what the assembled transaction says.
NodeAccepts(t) ==
    /\ t.pubkey = [type |-> chain.kind, pubkeys |-> SortKeys(chain.kind, Owners)]
    /\ Cardinality(t.bits) >= Threshold
    /\ t.seq = Account.sequence
    /\ \A i \in t.bits :
           t.signatures[i] = [key |-> t.pubkey.pubkeys[i], family |-> chain.kind,
                              doc |-> SignDoc(t.body, t.fee, t.seq, Account.number)]

Send ==
    /\ Len(confirms) >= Threshold
    /\ sent = NotSent
    /\ sent' = LET t == MakeTx
               IN  [body |-> t.body, signers |-> {t.pubkey.pubkeys[i] : i \in t.bits},
                    result |-> IF NodeAccepts(t) THEN "executed" ELSE "refused"]
    /\ UNCHANGED <<chain, safe, tx, confirms, creating>>

Next ==
    \/ \E q \in Requests : Create(q) \/ Confirm(q)
    \/ ConfirmCreated
    \/ Send

Spec == Init /\ [][Next]_vars

-----------------------------------------------------------------------------

\* What the chain executes is what the owners were shown: if one of the owners whose
\* signatures were assembled signed the stored messages, then the body the node
\* accepts has these messages.  Nothing compares the bodies of confirmations with
\* the stored messages or with each other.
ExecutedIsShown ==
    /\ sent.result = "executed"
    /\ \E i \in 1..Len(confirms) :
           confirms[i].owner \in sent.signers /\ confirms[i].body = tx.msgs
    => sent.body = tx.msgs

\* Owners who all sign what the row says get their transaction through, in
\* whatever order they confirm and whatever the family of the chain, provided
\* coinDecimals and prefix agree on the family.
AgreeingIsExecutable ==
    LET doc == SignDoc(tx.msgs, <<[denom |-> "own", amount |-> tx.fee]>>,
                       tx.seq, Account.number)
    IN  /\ FamilyByPrefix = FamilyByDecimals
        /\ \A i \in 1..Len(confirms) : confirms[i].signature.doc = doc
        /\ tx.seq = Account.sequence
        => sent.result # "refused"

\* "Get account number & seq from db if not provided; if db not found, get from
\* indexer": for a safe in the table, an owner's signature over what the request says
\* and the account number of the chain is verified with that account number.
HonestSignatureVerifies ==
    InTable => \A q \in Requests : q.signed = q.body =>
                   Verified(q, AccountInfoWithNewSeq(q.ask).number)
=============================================================================

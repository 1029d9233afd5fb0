------------------------------ MODULE Services ------------------------------
(***************************************************************************)
(* The components that share no state, one of them in each behaviour: part *)
(* says which, and v1, v2, ... are its variables in the order of its       *)
(* declaration.  Their state spaces add up instead of multiplying, so one  *)
(* run checks each of them with all its interleavings.  Parts has the      *)
(* components proved about in PartsProofs; the others are taken with their *)
(* own modules of proofs, for ServicesProofs.                              *)
(***************************************************************************)
EXTENDS Parts, TLC

CONSTANTS       \* calculateNextSeq
    QueueNumbers, Starts, MaxRows

CONSTANTS       \* transactions and their details
    Owners, Threshold, Txs, TxReqs, TxOps, AskedSeqs, Outcomes, IndexerLag, MaxTxInFlight,
    MaxTxFailures

CONSTANTS       \* safes and their views
    Users, Thresholds, Safes, SafeReqs, SafeOps, MaxSafesInFlight, MaxSafeFailures, Balances

CONSTANTS       \* safes, one request at a time
    SerialUsers, SerialThresholds, SerialRows, SerialReqs, SerialOps

CONSTANTS       \* users and notifications
    Clients, AddressOf, SafeOwners, Creator, SafeChain, NotifiedChains, Proposals, LastDay, MaxRaised

CONSTANTS       \* distribution
    StakeReqs, Validators, IdentityOf, Pictures, NoIdentity, Default, MaxStake, MaxChanges

VARIABLES part, v7, v8, v9, v10, v11

-----------------------------------------------------------------------------
(* The components that Parts does not have. *)

Queue == INSTANCE NextSeqProofs WITH
    pc <- v1, rows <- v2, start <- v3, ordered <- v4, i <- v5, nextSeq <- v6

Detail == INSTANCE TxProofs WITH
    tx <- v1, votes <- v2, safe <- v3, stamps <- v4, chain <- v5, account <- v6, pc <- v7,
    job <- v8, mem <- v9, failures <- v10, page <- v11,
    Reqs <- TxReqs, Ops <- TxOps, MaxInFlight <- MaxTxInFlight, MaxFailures <- MaxTxFailures

View == INSTANCE SafeCreationProofs WITH
    safes <- v1, owners <- v2, pc <- v3, job <- v4, mem <- v5, failures <- v6,
    sight <- v7, list <- v8,
    Reqs <- SafeReqs, Ops <- SafeOps, MaxInFlight <- MaxSafesInFlight,
    MaxFailures <- MaxSafeFailures

Serial == INSTANCE SafeCreationProofs WITH
    safes <- v1, owners <- v2, pc <- v3, job <- v4, mem <- v5, failures <- v6,
    sight <- v7, list <- v8, Users <- SerialUsers, Thresholds <- SerialThresholds,
    Safes <- SerialRows, Reqs <- SerialReqs, Ops <- SerialOps, MaxInFlight <- 1,
    MaxFailures <- 1

Notify == INSTANCE NotificationsProofs WITH
    users <- v1, logins <- v2, session <- v3, notices <- v4, calls <- v5, raised <- v6,
    fetched <- v7, seen <- v8, day <- v9, job <- v10, Chains <- NotifiedChains

Stake == INSTANCE DistributionProofs WITH
    validatorsPicture <- v1, keybase <- v2, account <- v3, changes <- v4, call <- v5,
    Reqs <- StakeReqs

\* What these components assume of their constants.
ASSUME ServicesAssumption ==
    /\ Detail!TxHandlersAssumption
    /\ View!SafeCreationAssumption
    /\ Serial!SafeCreationAssumption /\ IsFiniteSet(SerialReqs)
    /\ IsFiniteSet(Clients) /\ LastDay \in Nat /\ Notify!ProposalsAreNumbered
    /\ Queue!NineDigits
    /\ Stake!DistributionAssumption

-----------------------------------------------------------------------------

Unused11 == v11 = "unused"
Unused10 == v10 = "unused" /\ Unused11
Unused9 == v9 = "unused" /\ Unused10
Unused8 == v8 = "unused" /\ Unused9
Unused7 == v7 = "unused" /\ Unused8
Unused6 == v6 = "unused" /\ Unused7
Unused5 == v5 = "unused" /\ Unused6

Init ==
    \/ part = "queue" /\ Queue!Init /\ Unused7
    \/ part = "signing" /\ Sign!Init /\ Unused7
    \/ part = "messages" /\ Money!Init /\ Unused6
    \/ part = "details" /\ Detail!DetailInit
    \/ part = "safes" /\ View!ViewInit /\ Unused9
    \/ part = "serialSafes" /\ Serial!Init /\ Unused7
    \/ part = "notifications" /\ Notify!Init /\ Unused11
    \/ part = "governance" /\ Gov!Init /\ Unused5
    \/ part = "distribution" /\ Stake!Init /\ Unused6
    \/ part = "catalog" /\ Table!Init /\ Unused7

Next ==
    /\ UNCHANGED part
    /\ \/ part = "queue" /\ Queue!Next /\ UNCHANGED <<v7, v8, v9, v10, v11>>
       \/ part = "signing" /\ Sign!Next /\ UNCHANGED <<v7, v8, v9, v10, v11>>
       \/ part = "messages" /\ Money!Next /\ UNCHANGED <<v6, v7, v8, v9, v10, v11>>
       \/ part = "details" /\ Detail!DetailNext
       \/ part = "safes" /\ View!ViewNext /\ UNCHANGED <<v9, v10, v11>>
       \/ part = "serialSafes" /\ Serial!Next /\ UNCHANGED <<v7, v8, v9, v10, v11>>
       \/ part = "notifications" /\ Notify!Next /\ UNCHANGED <<v11>>
       \/ part = "governance" /\ Gov!Next /\ UNCHANGED <<v5, v6, v7, v8, v9, v10, v11>>
       \/ part = "distribution" /\ Stake!Next /\ UNCHANGED <<v6, v7, v8, v9, v10, v11>>
       \/ part = "catalog" /\ Table!Next /\ UNCHANGED <<v7, v8, v9, v10, v11>>

vars == <<part, v1, v2, v3, v4, v5, v6, v7, v8, v9, v10, v11>>

Spec == Init /\ [][Next]_vars

-----------------------------------------------------------------------------
(* The properties, each stated in the module of its component. *)

\* Every component keeps the types of its variables; of calculateNextSeq that is also
\* that its walk stays within the array.
TypeOK ==
    /\ part = "queue" => Queue!TypeOK
    /\ part = "signing" => Sign!TypeOK
    /\ part = "messages" => Money!TypeOK
    /\ part = "details" => Detail!TypeOK /\ Detail!PageTypeOK
    /\ part = "safes" => View!TypeOK /\ View!SightTypeOK
    /\ part = "serialSafes" => Serial!TypeOK
    /\ part = "notifications" => Notify!TypeOK
    /\ part = "governance" => Gov!TypeOK
    /\ part = "distribution" => Stake!TypeOK
    /\ part = "catalog" => Table!TypeOK

\* The loop of calculateNextSeq returns what the closed form used for it says.
LoopComputesNextQueueSeq == part = "queue" => Queue!LoopComputesNextQueueSeq

\* With sequences of one length and none below the start, the first free is suggested.
SuggestsFirstFree == part = "queue" => Queue!SuggestsFirstFree

\* What the chain executes is what one of the signing owners was shown, as stored.
ExecutedIsShown == part = "signing" => Sign!ExecutedIsShown

\* Owners who all sign what the row says get their transaction through.
AgreeingIsExecutable == part = "signing" => Sign!AgreeingIsExecutable

\* The amount in the list is what the messages in the details move.
AmountsAgree == part = "messages" => Money!AmountsAgree

\* Every reward the chain paid is shown once.
PaidIsShown == part = "messages" => Money!PaidIsShown

\* A status is shown with the votes or the sender that explain it.
StatusIsExplained == part = "details" => Detail!StatusIsExplained

\* A safe shown as created shows no owner who has not confirmed.
ShownCreatedIsConfirmed == part = "safes" => View!ShownCreatedIsConfirmed

\* A safe gets its address from the keys of all its owners.
CreatedHasEveryKey == part = "serialSafes" => Serial!CreatedHasEveryKey

\* A safe all of whose owners have confirmed is created.
ConfirmedIsCreated == part = "serialSafes" => Serial!ConfirmedIsCreated

\* Owners and threshold have at most one safe that is not deleted.
OneSafePerHash == part = "serialSafes" => Serial!OneSafePerHash

\* A safe that was created or deleted stays what it is.
SettledIsFinal == [][part = "serialSafes" => Serial!SettledStays]_vars

\* Concurrent logins with one address make one user.
OneUserPerAddress == part = "notifications" => Notify!OneUserPerAddress

\* No notice is marked as read that its user was not shown.
ReadWasSeen == part = "notifications" => Notify!ReadWasSeen

\* Every owner gets one notice a day for each proposal in voting on the chain of the
\* safe, and nobody two of any.
VotingIsAnnounced == part = "notifications" => Notify!VotingIsAnnounced

\* Percentages of a tally add up and the most voted option is one.
TallyAddsUp == part = "governance" => Gov!TallyAddsUp

\* The turnout has the votes of the proposal and all bonded tokens.
TurnoutIsComplete == part = "governance" => Gov!TurnoutIsComplete

\* A picture in the cache, once nobody is asking keybase for it, stays.
SettledPictureStays == [][part = "distribution" => Stake!SettledStays]_vars

\* The id a chain was listed under finds that chain, and a chain is listed once.
ListedChainIsFound == part = "catalog" => Table!ListedChainIsFound
=============================================================================

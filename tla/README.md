# TLA+ models of the multisig API

This directory holds TLA+ specifications of the backend of the Aura
multisignature wallet (`src/` is the repository), TLC configurations that check
them on small instances, and TLAPS proofs of what matters most for instances of
any size. `PROJECT.json` lists components, runs, findings, hazards and
theorems, and gives for every definition the lines of the source it stands for.

    tlc -workers 2 -config MCVotes.cfg MCTx.tla         # one run
    tlapm TxProofs.tla                                  # one module's proofs

## 1. The system

A NestJS service between the wallet's frontends, a MySQL database, an indexer
and the nodes of several chains. A *safe* is a multisignature account: owners,
a threshold, an address made from the owners' keys. A *transaction* of a safe
collects signatures in the database until the threshold is met, and is then
assembled and broadcast. Another program, the synchronisation service, reads
the chain and writes the results of broadcast transactions into the same
database. There are no database transactions or locks across statements: a
handler is an `async` function, and at each `await` any other handler (of this
process or of another instance) may run.

| Component | State it keeps | Operations that change state | What makes it correct |
|---|---|---|---|
| Multisig transactions (`multisig-transaction`, `multisig-confirm`) | tables `MultisigTransaction` (status, sequence, TxHash) and `MultisigConfirm` (CONFIRM, REJECT, SEND rows) | create, confirm, reject, delete, changeSequence, send | the chain takes what enough owners signed, in its turn; one opinion per owner; a threshold is never missed; what is recorded of the chain is true; nothing that was sent is sent, deleted or offered again |
| Queue sequence (`calculateNextSeq`, `findSequenceInQueue`) | `Safe.NextQueueSeq`, `Safe.Sequence` | recomputed by most handlers | the suggested sequence is free; the recorded one is not ahead of the chain |
| Change tags (`TxQueuedTag`, `TxHistoryTag`, the trigger `updateHistoryTag`) | two columns of `Safe` | set at the end of handlers and by the trigger | the tag moves when the queue does |
| Account information, signatures and assembly (`getAccountInfoWithNewSeq`, `decodeAndVerifyTxInfo`, `makeTx`, `ethermint.helper`) | `Safe.AccountNumber`, stored signatures | with create and confirm | owners who sign the same get it executed; what is executed is what was shown; a wallet's signature verifies |
| Messages and amounts | table `Message` | rows stored with a transaction, and by the synchronisation service | list and details show the same amounts, as far as a JavaScript number can; each reward is shown once |
| Queue, history and detail views | none | none | no transaction vanishes; a status comes with the votes that explain it |
| Safe (`safe`, `safe-owner`) | tables `Safe` and `SafeOwner` | createMultisigWallet, confirm, deletePending, recovery by address | an address exactly when all owners gave their keys; one safe for the same owners and threshold; created and deleted are final |
| Safe views | none | none | what is shown of a safe fits together although it is read in pieces |
| Authentication, users | table `User` | auth creates the user | one row per address, and a token for the right one |
| Notifications | table `Notification` | handlers insert, users mark as read | nothing is read that was not shown |
| Proposal job | none | cron | the owners of a safe get one notice a day for each proposal in voting on its chain, and nobody two |
| Governance | none | none | tally and turnout add up |
| Distribution | cache of validators' pictures | requests fill the cache | a picture in the cache that nobody is asking for any more stays |
| Chains, gas, contracts and start | table `Chain` | instances write it when they start | the id a chain was listed under leads to that chain |
| Simulation (`simulate`) | a wallet per chain, and the wallet of the current request | simulate, addresses | a request is answered, with the wallet of its own chain |
| Request gateway (controllers, pipes, error map) | none | none | |

Interaction: create, confirm, reject, delete and send all read and write the
`Safe` row (tags, next sequence) as well as their own tables; changeSequence
calls delete and create; safe recovery happens inside the first lookup that any
handler makes for an address; send talks to a node and races with the block that
includes the transaction, with other sends and with the synchronisation service.
Handlers call the notify methods, whose rows the daily job and the clients share.

The hard behaviours are interleavings at awaits (check, then insert; read, then
save), entities that are saved long after they were read, answers put together
from several queries, the many ways a broadcast can end, handlers that stop
halfway, JavaScript's `null` and `undefined`, and arithmetic on sequences that
are strings, and sums of amounts beyond what a JavaScript number holds. `PROJECT.json`
lists each at its line under `hazards`.

## 2. Modules

| Module | What it is |
|---|---|
| `NextSeq` | `findSequenceInQueue` and `calculateNextSeq` in closed form: the set of queued sequences, the order of their decimal strings, how far the walk gets |
| `NextSeqLoop`, `MCNextSeqLoop` | the same code as a loop, one step per iteration; checks that it computes the closed form |
| `TxHandlers` | the six handlers of a safe's transactions, one action per await, with the chain and the synchronisation service |
| `MultisigWallet` | the abstract specification: propose, sign, take in the order of the sequences |
| `TxProperties`, `TxViews`, `MCTx` | properties of `TxHandlers` with its refinement of `MultisigWallet`; what is in the queue and in the history; constants of the runs |
| `TxDetails` | details and lists read query by query while the handlers of `TxHandlers` run (extends `TxViews`) |
| `Amounts`, `TxMessages` | amounts of messages, exact and as JavaScript numbers; what is stored and shown of messages and rewards, before and after execution |
| `Signing`, `MCSigning` | documents, keys and signatures of one transaction: verified, stored, assembled, and judged by the node |
| `SafeCreation`, `MCSafeCreation` | creation, confirmation, deletion and recovery of safes, one action per await |
| `SafeViews` | a safe and the list of safes as clients are shown them while the handlers of `SafeCreation` run |
| `Notifications` | logins, notices, their listing and marking, and the daily job |
| `Governance` | tally, percentages and turnout from two answers of the indexer |
| `Distribution` | the cache of pictures and its concurrent fillers; what is shown of delegations and undelegations |
| `Catalog` | table `Chain`: seeding by instances that start together, listing, lookups by id |
| `Simulation`, `MCSimulation` | the shared wallets of the simulation service up to its first error |
| `Parts`, `Services`, `MCServices` | the components composed: one of them in each behaviour, all in one run; `Parts` has four of them (see section 4), `Services` the rest and the composition, `MCServices` the values of the constants |
| `FoldProofs` | sums over finite sets and sequences, folds, sorted arrays |
| `NextSeqProofs` | the order of decimal strings, the loop and its closed form |
| `TxProofs` | the handlers, what they promise clients who send one request at a time, their refinement of the wallet, and the lists and details |
| `SafeCreationProofs` | safes, and what is shown of them |
| `NotificationsProofs` | users, notices and the daily job |
| `DistributionProofs` | the cache of pictures |
| `PartsProofs` | the invariants of governance, the table of chains, signing and messages |
| `ServicesProofs` | every property of the composition |

### How `TxHandlers` corresponds to the code

`tx`, `votes` and `safe` are the tables; a status of `NONE` is a row not yet
inserted. `chain` and `account` are external: what the chain did with each
transaction, the next sequence the mempool expects and the sequence in the last
block. Each request `r` has a label `pc[r]` (the await it reaches next), its
parameters `job[r]` and what it read and will use again `mem[r]`. Each action is
one await with the code up to the next:

    create   StartCreate InsertTx CheckSigned InsertVote CountConfirms [LoadTx
             SaveExecutable] BumpTag ReadIndexer ReadQueue SaveSafe
    confirm  StartConfirm CheckSigned InsertVote CountConfirms [LoadTx
             SaveExecutable] BumpTag
    reject   StartReject CheckSigned InsertVote CountRejects [Cancel] BumpTag
             RereadSafe ReadQueue SaveSafe
    delete   StartDelete DeleteRow BumpTag RereadSafe ReadQueue SaveSafe
    change   StartChange, delete, ReadSafe, create
    send     StartSend ReadSafe ReadSigs InsertVote BumpTag Broadcast, then
             SavePending Replace ReadQueue SaveSafe, or SaveFailed ReadQueue
             SaveSafe, or nothing

TypeORM's `save(entity)` writes every column in which the entity differs from the
row, so saving an entity read earlier restores the old values of all its columns.
`SaveSafe`, `Cancel` and `SaveFailed` write what was in `mem`; `SavePending`
and `SaveExecutable` follow a fresh read. The SELECT and UPDATE that `save` itself
issues are one step. `SaveExecutable`'s read is a step of its own (`LoadTx`), and
so the state between is there; `updateTxBroadcastSuccess` assigns both columns the
model has, so its read is not kept apart. `Store` includes the trigger
`updateHistoryTag`. A tag is a count of how often it was set, in place of a time.

`Broadcast` has the four ends of `client.broadcastTx(tx, 10)`: accepted and not
found in a block within 10 ms (an error that carries the `txId`, the normal
case), accepted and found in time (returns, and the handler returns `undefined`
without recording anything), refused, and accepted with the answer lost. The node
takes a transaction once, when its signatures are complete and its sequence is
the next of the account. `Fail` stops a handler at any await: an exception, or the
end of the process.

What is abstracted: the safe exists, its account on the chain starts at sequence
0, its owners, threshold, key and chain do not change (no handler changes them);
amounts, messages, fees, decoding and signatures are in `Signing` and
`TxMessages`, so here all signatures are for the transaction they are recorded
with; notifications are in `Notifications`; checks that stop a handler before its
first effect are in the guard of the action that starts it.

`TxDetails` adds a client to these handlers. Its `page` is the answer under way,
one row per transaction, and `todo` the queries still to come; the votes are thus
read later than the status.

### How `MultisigWallet` relates to it

A transaction is `proposed` when its row is inserted, `signed` by the owners of
its CONFIRM rows, `taken` when the node has accepted it. Deleting, rejecting,
cancelling, replacing, statuses, tags, suggestions and the synchronisation service
are stutters: they are what the service says about a transaction, and the wallet
does not depend on them. `Take` asks for a quorum of *different* owners, where
`isExecutable` counts rows.

### How `Signing` corresponds to the code

One transaction on one chain. `Requests` are pairs of what `authInfo` and body say
and what was really signed. `Create` is `createMultisigTransaction` up to
`saveMsgs`, `ConfirmCreated` its `confirmTx` and `updateSafe`; `Confirm` is
`confirmMultisigTransaction`; `Send` is `makeTx` with both families' assembly.
`NodeAccepts` is external: signatures in the order of the keys over what the
transaction says. The code decides between the families of chains by
`coinDecimals` (verification, assembly of addresses) and by the prefix (the safe's
key); the model has both decisions and a chain where they disagree. `Undefined` and
`Null` are told apart as the code's `=== undefined` does. A safe that is not in the table is
recovered by the request that looks for it (`Found`, `Stored`); the columns of the new row
are null, in the entity `repo.save` returns to that request too, so `AccountInfoWithNewSeq`
takes `Number(null)` for the account number until a transaction was stored. A safe with 18
decimals is not recovered: the library's
key builder throws for several keys.

### How `Amounts` and `TxMessages` correspond to the code

Amounts on the chain and in table `Message` are strings of digits, here exact naturals.
Where the code computes with them they are JavaScript numbers: `Number(n)` is the nearest
of `Doubles`, and `NumberSum` is a loop of `+=` that rounds after each addition. The
amount of a transaction (`calculateAmount`, a column of doubles), `AutoClaimAmount`, the
balance check of `createMultisigTransaction` and `total.staked` (`calculateTotalStaked`)
are computed in this way. On a chain with 18 decimals a coin of one token is 10^18 and
beyond `MaxSafe` (2^53 - 1 in the program): there the list and the details of one
transaction may show different amounts, and a sum from 10^21 on is printed as `1e+21`. The
properties are therefore about sums within `MaxSafe`, and the bodies of the run go beyond
it, so that the premise is false in some states. `RewardAmount`, a column of single
precision that the synchronisation service writes, is taken as it was paid.

### How `SafeCreation` and `SafeViews` correspond to the code

    create   StartCreate (duplicate query) InsertSafe InsertOwners
    confirm  StartConfirm (getPendingSafe) ReadOwners SaveKey [SaveCreated]
    delete   StartDelete SaveDeleted
    recover  StartRecover (no row has the address) FindHash InsertRecovered
             RecoverOwner, once per owner in any order
    look     OpenSafe ReadSafeOwners ReadBalance, OpenList

A key is its owner's address (`checkAddressPubkeyMismatch`), an address is the set
of its keys with the threshold, the hash is the set of owner addresses with the
threshold. `SaveCreated` and `SaveDeleted` save the row as it was read.
`createMultisigThresholdPubkey` is the library's and throws when the threshold
exceeds the number of keys (`CanBuild`). `recoverSafe` derives the owners' addresses by the
cosmos rule whatever the chain is, so recovery is modelled for chains of that rule. (On a
chain with 18 decimals the key builder throws for several keys, and a safe of one key would
get an owner with another address than its user's: see `hazards`.)

### The other services

`Notifications`: `Auth` finds the user and `CreateUser` saves it, which the unique
index may refuse; a handler raises an event (`Raise` reads the users, `Save` inserts
the notices); a client lists and marks. `Midnight`, `ReadProposals`, `ReadUsers` and
one `SaveProposal` per proposal, in any order, are `handleCron`.

`Distribution`: `call[r]` is a request that still has to ask keybase for the pictures
of some validators (`asked` are under way). A request that throws is shown the default
picture and stores nothing; an answer without a picture, which an error of keybase in the
body of a successful response is too, stores the default in the cache, for good.

`Governance`: percentages are in hundredths of a percent, as `toFixed(2)` prints them;
votes and bonded tokens change between the two answers.

`Catalog`: `Start`, `FindChains` and `SaveChains` are `bootstrap` with the seeder; find
and save are apart. An instance whose seeding failed listens without a database
(`db = FALSE`).

`Simulation`: `chainWalletMap` and `currentWallet` belong to the one service object.

## 3. Runs

Passing runs:

| Run | Instance | Shows |
|---|---|---|
| `votes` | 2 owners, threshold 2, 1 transaction, 4 requests of every kind but send, 2 at a time, one may stop; fair | `ExecutableHasThreshold`, `NoLostThreshold`, `ThresholdIsNoticed` |
| `sends` | 2 owners, 2 transactions, 4 requests, 2 at a time, all ends of a broadcast | `RecordedIsAccepted`, `ReplacedLostItsSequence`, `SafeSequenceBehindChain`, `StaysVisible`, `ImplementsWallet` |
| `serial` | 4 owners, threshold 3, 2 transactions, 6 requests, one at a time, all handlers | what the code's checks promise a careful client: `OneOpinionPerOwner`, `CancelledIsHopeless`, `SentIsNotReplaced`, `AcceptedIsRecorded`, `SuggestionIsFree`, `SafeSequenceAdvances`, `HashStays`, `TagMovesWithQueue` |
| `services` | ten instances, each a part of its own | the rest: the queue's loop, signing, messages, details, safes and their views, notices, tallies, pictures, the catalog |

`services` chooses one part per behaviour: the parts share no state, so a product of
them would only multiply states without adding an interleaving of interest. `part` says
which, and `v1`, `v2`, ... are its variables. The values of the constants are in
`MCServices`:

| Part | Instance | Properties |
|---|---|---|
| queue | queues of up to 3 rows over {0, 1, 8, 9, 10, 11} | the loop computes `NextQueueSeq`; the suggestion is the first free sequence unless the queue crosses a power of ten or has entries below the start |
| signing | 3 owners, threshold 2, 3 chains (one with contradicting data), 2 bodies, 2 fees, 1 sequence | `ExecutedIsShown`, `AgreeingIsExecutable` |
| messages | 6 bodies with several coins, outputs and withdrawals; doubles of three bits, exact up to 8, and rewards and amounts up to 9 | `AmountsAgree`, `PaidIsShown` |
| details | 2 owners, 1 transaction, 4 requests one at a time, a client that reads in between | `StatusIsExplained` |
| safes | 2 users, 1 safe, 3 requests, 2 at a time, one may stop, and a client | `ShownCreatedIsConfirmed` |
| serialSafes | 3 users, threshold 2, 2 rows, 4 requests one at a time, one may stop | `CreatedHasEveryKey`, `ConfirmedIsCreated`, `OneSafePerHash`, `SettledIsFinal` |
| notifications | 3 clients with 2 addresses, 1 event, 1 day after the first, 3 proposals of 2 chains, two with the same number; the safe is on the second | `OneUserPerAddress`, `ReadWasSeen`, `VotingIsAnnounced` |
| governance | up to 3 votes of power 1 or 3, 2 values of the bonded tokens | `TallyAddsUp`, `TurnoutIsComplete` |
| distribution | 3 validators, two with an identity, 2 requests, 2 changes | `SettledPictureStays` |
| catalog | 2 instances, 2 files, the second with a chain before the first's | `ListedChainIsFound` |

Runs that find what the code does and its own text denies (section "findings" of
`PROJECT.json`):

| Run | What happens |
|---|---|
| `cancelled_by_majority` | two of four rejections cancel a transaction with threshold 3, where the comment on the condition asks for more than half of the owners |
| `next_seq_sorted` | a queue with 8 and 10 is "sorted" as 10, 8 |
| `two_opinions` | two requests of one owner pass the check for an earlier vote before either inserts one |
| `late_confirm` | a confirmation after the broadcast makes the transaction ready to broadcast again |
| `unrecorded` | a broadcast that is found in a block before `broadcastTx` gives up waiting is not recorded |
| `safe_race` | the last two owners confirm together and the safe stays pending for good |
| `fresh_safe` | the columns of a new safe are null, not undefined, also in the entity that a recovery returns, so an owner's signature is verified with account number 0 and refused; as only a stored transaction writes the columns, this stays so for an account with another number |
| `simulate` | the first request of a chain reads the current wallet before there is one, so no chain ever gets a wallet |

The model reaches further states of this kind that no text of the repository
speaks about; `hazards` lists them with the line: a rejection cancels a deleted
transaction, a deletion hits a transaction that has just become executable, tags
are reverted by a late save, the suggestion is recomputed from the last block
while a transaction waits in the mempool.

On one point the repository contradicts itself, so that no run can settle it:
`notify-proposal.jobs.ts:71` says that the job "Must send a notification to the safe owner by a
chain instead of reporting to all user", and the next line "Notify to all users", which is what
the code does. `VotingIsAnnounced` states what both ask for: the owners of a safe are told of
the proposals of its chain, each once.

Why the bounds are enough: the properties of `votes` are about one transaction; a
race for the threshold needs the creator, the concurrent confirmation that is
missing, and a third handler that gets in between. `sends` needs two transactions of
the same sequence, or of neighbouring ones, both sent: create (with threshold
from the constants), confirm, send and a fourth request that overlaps. Two requests
at a time contain every pairwise interleaving; `MaxInFlight`, `MaxFailures`, the
numbers of requests and of rows are the bounds, and nothing else is cut.
`serial` needs six requests to create, confirm twice, send, confirm late and send again; with
four owners and threshold three the rule by which the code cancels and the one in its comment
differ. In part serialSafes three owners with threshold two are fewer keys than owners, and two rows
a deleted safe and its successor.
`sends` and `serial` run create with explicit sequences (`AskedSeqs`) so that two
transactions share one. `IndexerLag` lets the indexer be behind the chain. In signing
two owners out of three are a threshold with someone left over, in any order. In
distribution two requests for one identity are the race for a cache entry, and the other
identity is a picture to confuse it with. In messages the largest bodies and rewards add
up to more than `MaxSafe`, and their sums are rounded. In notifications two clients of
one address log in at once while the third is another user. `MaxRaised`, `LastDay`,
`MaxVotes`, `MaxStake` and `MaxChanges` bound what happens outside.

Deadlock is not checked: requests are finite and the system rests when all are
done. Owners (users) are symmetric in `sends`, `serial`, `cancelled_by_majority` and
`safe_race`; `votes`, which checks liveness, and `services` use no symmetry.

Fairness: `FairSpec` has weak fairness on the steps of each handler that has
started: MySQL, the node and the indexer answer each statement or call. No
fairness is assumed of clients (they need not send requests), of the chain or of
the synchronisation service.

## 4. Proofs

The theorems hold for every value of the constants that the named assumptions allow: any
finite number of owners, transactions, requests, clients, validators and instances, any
threshold, any bodies, amounts and voting powers. TLC evaluates the assumptions on the
instances of the runs. They are:

| Assumption | What it asks, and why the code has it |
|---|---|
| `TxHandlersAssumption`, `SafeCreationAssumption` (a definition, for the two instances in `Services`) | finite sets of owners (users) and of numbered rows and requests, a threshold of at least one; for transactions at most the number of owners |
| `SigningAssumption` | keys are numbers other than 0, which stands for a key nobody has; account numbers, sequences and fees are numbers, or `null` and `undefined` where the columns can have them |
| `AmountsAssumption` | numbers up to `MaxSafe` are JavaScript numbers |
| `TxMessagesAssumption` | `undefined` is no number; a body has a message, and a transfer or staking message a coin (`createMultisigTransaction` reads `messages[0]` and `amount[0]`) |
| `GovernanceAssumption` | powers are numbers, and the chain has bonded tokens (the turnout divides by them) |
| `DistributionAssumption` | finitely many validators, bounds are numbers |
| `CatalogAssumption` | finitely many instances; `chains.json` lists each chain once |
| `ProposalsAreNumbered` | a chain does not give two proposals one number; two chains may |
| `NineDigits` | sequences in the queue have at most nine digits, the width the model of decimal strings has |

`PartsAssumption` and `ServicesAssumption` collect them for the composition.

### The handlers (`TxProofs`)

For any overlap of requests and any number of handlers that stop halfway:

- `TypeCorrect`: `Spec => []TypeOK`. The inductive invariant `TInv` adds which
  handler can be at which await (`LabelsOK`) and that `votes` is finite.
- `ExecutableHasThresholdAlways`. The invariant is not inductive: a handler counts in one
  await and writes the status two awaits later. `EInv` adds `Counted` (a handler at
  `loadTx` or `saveExecutable` has a transaction with its threshold), which lasts because
  votes are only added (`VotesChange`).
- `RecordedIsAcceptedAlways`. A handler may hold a TxHash it read long ago and save
  it, so `AInv` adds `HashKnown` (a hash in `mem[r]` is of the transaction `r` works
  on, and that one was accepted) and `SentIsAccepted` (at `savePending` and
  `replace` the transaction was accepted).
- `ReplacedLostItsSequenceAlways`, `SafeSequenceBehindChainAlways` and
  `NoLostThresholdAlways` rest on `XInv`: handlers, votes and the chain only know
  transactions that have a row, and a row keeps its sequence. The second adds that every
  sequence a handler has read is behind the chain (`ReadSequences`). The third follows the
  handler that is on its way to the status (`NoticingStays`) and the vote that completes
  the threshold (`CompletingCounts`).
- `HandlersImplementWallet`: `Spec => ImplementsWallet`. The node checks the signatures a
  send assembled some awaits ago, so `SInv` adds to `XInv` that what is in `mem` are
  signatures that are recorded, and `EnoughStays` says that a quorum once recorded stays
  one. `InsertProposes`, `VoteSigns`, `BroadcastTakes` and `QuietStep` map each kind of
  step to a step of the wallet or to a stutter.
- `StaysVisibleAlways`: a row is in the queue, in the history or in the mempool, from what
  was proved about recorded hashes. While it is in the mempool a row may be in neither list:
  with a hash and status FAILED, say, which the history shows once the block is there.
- `StatusIsExplainedAlways`: an answer is read in several queries while handlers run. What
  was read is `Backed` by rows that are never removed, and `MInv` has the facts that
  outlast a status: ready had its threshold, cancelled its rejections, sent its sender.

The code's checks read first and write later, so the properties of run `serial` are not
promised to requests that overlap (`two_opinions` is a counterexample). Each theorem names
the overlap that its proof excludes, as a temporal hypothesis:

| Hypothesis | Theorems | Why it is needed |
|---|---|---|
| `[]OneRequestPerOwner` | `OneOpinionAlways`, `CancelledIsHopelessAlways` | `checkUserHasSigned` and the insert are two statements; only the same owner can come between them harmfully |
| `[]OneRequestPerTx` | `HashStaysAlways`, `SentIsNotReplacedAlways` | an entity read before the broadcast is saved after it |
| `[]OneAtATime` | `SafeSequenceAdvancesAlways`, `TagMovesWithQueueAlways`, `SuggestionIsFreeAlways` | the safe's row, which all requests share, is saved as it was read; the last two also take `MaxFailures = 0` |

`SuggestionIsFreeAlways` has one more, `[]QueueSortsAsNumbers`: the strings of the queued
sequences sort as the numbers do. Run `next_seq_sorted` is the counterexample without it.
`SerialHandlers` states all seven for `MaxInFlight <= 1`, the bound of run `serial`, where
the hypotheses on overlap are consequences and not assumptions.

`RowChange`, `VotesChange`, `ChainChange`, `SafeChange`, `HandlerMoves` and `OthersStay` say
once what a step does to a row, to the votes, to the chain, to the safe and to the requests;
the proofs of the invariants use them in place of the actions.

### Safes (`SafeCreationProofs`)

`SafeTypeCorrect` and `CreatedHasEveryKeyAlways` hold for overlapping handlers, where part
serialSafes checks one at a time. The invariant `CInv` ties what a handler holds to the
tables (`HandlerOK`: the list a confirmation read is the list of the owners, and whoever it
saw with a key still has it), the two tables to each other (`RowsFit`) and says that one
handler inserts the owners of a safe (`OneInserter`). The races that leave a safe pending
(`safe_race`) thus never give it a wrong address.

`SettledIsFinalAlways` and `ConfirmedIsCreatedAlways` need `[]OneRequestPerSafe`, because
confirm and delete save the row they read; `OneSafePerHashAlways` also
`[]OneRequestPerHash`, because the query for duplicates and the insert are two statements.
`SerialSafes` has the three for `MaxInFlight <= 1`, also with handlers that stop, and
`SerialSafesAlways` (`ServicesProofs`) all four properties of part serialSafes. The theorems
are about chains of the cosmos rule, for which recovery is modelled.

`ShownCreatedIsConfirmedAlways`: the answer reads the row first and the owners later, so the
proof is about what lasts: of a safe that was once pending the owners are all listed or none
(`WasPending`), and of one that was once created none is without a key (`WasCreated`).

### The loop (`NextSeqProofs`)

`LexBefore` is shown to be a strict total order, so the sorted array has the entry of rank
`i` at index `i`. `QInv` says how far the loop is, `LoopComputesAlways` that it returns the
closed form, and `SuggestsFirstFreeAlways` that this is free under the conditions the
property names.

### Users, notices and pictures

`OneUserPerAddressAlways` follows from how table `User` changes, `ReadWasSeenAlways` from
`FetchedWasSeen`: what a client may mark was shown to the user of its token.
`VotingIsAnnouncedAlways`: what the job still has to announce is not announced yet, what it
does not is announced once (`NotYetTold`, `ToldOrToBe`), and no handler announces proposals.
`SettledPictureStaysAlways`: keybase is asked only about an identity that is not in the cache,
so once no question about it is out none can follow, and only an answer writes the cache.

### Sums and sorting (`FoldProofs`)

The folds of the community modules are recursive functions over subsets. That such a
function exists and does not depend on the order in which elements are taken is proved here
by induction stated with a *set* in place of a predicate (`NatInductionInSet`), which the
provers can use. From it come `Sum` over functions, sums of sequences, and that a finite set
of numbers is listed by exactly one increasing array (`SortKeys`).

### Governance, chains, signing and messages (`PartsProofs`)

- `GInv`: a tally is of the four keys, an ended proposal has its tally as the final one, and
  an answer keeps these facts. A percentage differs from the
  share by at most half a hundredth, as `toFixed(2)` rounds to the nearest, so the four of a
  tally and the three of a turnout add up to 100 within two hundredths (`FourShares`,
  `ThreeShares`); that the fold over the options names a most voted one is `MostVotedIsMost`.
- `CInv` and `IdsOK`: a row keeps its `chainId` whatever file is saved over it, what an instance
  has found are ids of rows, and unless two instances overlapped no `chainId` has two rows.
- `SignInv`: confirmations are verified ones (`Genuine`: made by the owner with the chain's
  kind of key, over the body they bring), one per owner, after the transaction; and whoever
  is among the signers has confirmed. `ExecutedIsShown` is then about the send alone: the
  node takes only signatures over the assembled body, and the signer who signed the stored
  messages has signed that body. For `AgreeingIsExecutable` the assembled key is the sorted
  list of the chain's family, each bit has exactly one confirmation, and there are as many
  bits as confirmations.
- `PayInv`: the stored messages of the transaction are one block of rows at some offset, and
  those of its execution another, whatever transfers are stored between them (`SavedAt`,
  `PaidAt`); and a page that has been read is a function of what the tables say *now*, since
  the rows it used do not change. Both properties are then identities between sums over
  the body, where a sum of numbers that ends within `MaxSafe` was exact at every addition
  (`NumberSumIs`).

### The composition (`ServicesProofs`)

Each component's inductive invariant, under its `part`, is an invariant of `Services`: `part`
never changes, and a step of `Services` in a part is a step of the component that leaves the
other variables alone. From these invariants follow all the properties of run `services`
(17 theorems, of which `SerialSafesAlways` has four). `TypesAlwaysOK` is the type invariant of all components together; it needs
more than the safety invariants where a type names another variable (ids of users in
notices, `HeldOK`; ids of rows, `IdsOK`; the safes in a list, `ListTyped`; the requests'
kinds, `TypedInv`).

`Parts` exists for the provers: a module that instantiates another with its proofs has all
the facts of both in its context, so the four components whose proofs are made over the
shared variables `v1` to `v6` are in a module of their own.

### What is only model-checked

- Liveness: `ThresholdIsNoticed` (the prover has no rule for fairness here).
- The violations in section 3, which are existence statements about behaviours.
- `Simulation`, of which the only run is such a violation.
- `AcceptedIsRecorded`: what it excludes of the ways to lose a record (run `unrecorded`, a
  handler that stops, requests that overlap) leaves little for a proof to generalise.
- That the symmetry sets lose nothing: no theorem uses them.

Every other invariant and action property that a passing run checks, and the refinement, is
stated by a theorem; for those of `serial` and part serialSafes with the hypotheses above.

## 5. Not modelled

- The request gateway: controllers, validation of requests, guards, the error map and
  the response wrapper hand values on; the guards of the actions have the checks that
  stop a handler. JWTs and the signed message of a login are accepted or refused.
- The indexer and the synchronisation service are external: what they answer and write
  is an action, their program is not in this repository.
- Migrations and entities beyond the columns used; the trigger of
  `1659946301878-create_trigger_after_update_tx` is modelled.
- Paging: limits and offsets are given to the database. With changes between two pages
  rows are skipped or repeated, as with any offset; nothing in the repository says
  otherwise.
- Simulation after the first error (`simulate.sevice.ts` from line 48, `safe.simulate.ts`,
  `utils.ts`): not reached at this commit.
- Votes, validators' votes and deposits of a proposal: rows of the indexer handed on.
- What is shown of amounts and rewards beyond the exact range of JavaScript numbers: there
  nothing is promised (section 2, `Amounts`). The single precision of `RewardAmount`.
- Totals of delegations have no property: `total.staked` is the sum the code computes of the
  rows it shows, and `total.reward` is the indexer's.
- Recovery of safes on chains with 18 decimals, for which the code derives addresses by the
  rule of the other chains.
- Cryptography, bech32, amino and protobuf are injective functions here; gas and contract
  calls are answers of other services.
- A second withdrawal from the same validator within a transaction, and proposals beyond
  the page the job reads: see the notes of their hazards.

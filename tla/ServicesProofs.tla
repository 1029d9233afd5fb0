--------------------------- MODULE ServicesProofs ---------------------------
(***************************************************************************)
(* The composition keeps what the components promise.  The inductive       *)
(* invariant of a component, proved in the component's own module, is one  *)
(* of every behaviour of Services whose part is that component, because    *)
(* Services takes no step in it that the component would not.              *)
(***************************************************************************)
EXTENDS Services, PartsProofs

LEMMA PartStays == [Next]_vars => part' = part
    BY DEF Next, vars

-----------------------------------------------------------------------------
(* Transactions and their details. *)

DetailsInv == part = "details" => Detail!LInv

LEMMA AlwaysDetailsInv == Spec => []DetailsInv
<1>1. Init => DetailsInv
    BY Detail!InitLInv, ServicesAssumption DEF Init, DetailsInv
<1>2. DetailsInv /\ [Next]_vars => DetailsInv'
    <2> SUFFICES ASSUME DetailsInv, [Next]_vars, part' = "details" PROVE Detail!LInv'
        BY DEF DetailsInv
    <2>1. Detail!LInv /\ [Detail!DetailNext]_(Detail!allVars)
        BY PartStays DEF DetailsInv, Next, vars, Detail!allVars, Detail!vars
    <2> QED
        BY <2>1, Detail!NextLInv, ServicesAssumption
<1> QED
    BY <1>1, <1>2, PTL DEF Spec

\* An answer about transactions explains the status it shows, although the votes are
\* read after the status and handlers run in between.
THEOREM StatusIsExplainedAlways == Spec => []StatusIsExplained
<1>1. DetailsInv => StatusIsExplained
    BY Detail!LInvExplains, ServicesAssumption DEF DetailsInv, StatusIsExplained
<1> QED
    BY <1>1, AlwaysDetailsInv, PTL

-----------------------------------------------------------------------------
(* Safes and their views. *)

SafesInv == part = "safes" => View!AnswersInv

LEMMA AlwaysSafesInv == Spec => []SafesInv
<1>1. Init => SafesInv
    BY View!InitAnswers, ServicesAssumption DEF Init, SafesInv
<1>2. SafesInv /\ [Next]_vars => SafesInv'
    <2> SUFFICES ASSUME SafesInv, [Next]_vars, part' = "safes" PROVE View!AnswersInv'
        BY DEF SafesInv
    <2>1. View!AnswersInv /\ [View!ViewNext]_(View!allVars)
        BY PartStays DEF SafesInv, Next, vars, View!allVars, View!vars
    <2> QED
        BY <2>1, View!NextAnswers, ServicesAssumption
<1> QED
    BY <1>1, <1>2, PTL DEF Spec

\* An answer about one safe that shows it as created shows no owner who has not
\* confirmed, however many handlers run between the queries of the answer.
THEOREM ShownCreatedIsConfirmedAlways == Spec => []ShownCreatedIsConfirmed
<1>1. SafesInv => ShownCreatedIsConfirmed
    BY View!VInvExplains, ServicesAssumption DEF SafesInv, View!AnswersInv, ShownCreatedIsConfirmed
<1> QED
    BY <1>1, AlwaysSafesInv, PTL

SerialInv == part = "serialSafes" => Serial!CInv

LEMMA AlwaysSerialInv == Spec => []SerialInv
<1>1. Init => SerialInv
    BY Serial!InitCInv, ServicesAssumption DEF Init, SerialInv
<1>2. SerialInv /\ [Next]_vars => SerialInv'
    <2> SUFFICES ASSUME SerialInv, [Next]_vars, part' = "serialSafes" PROVE Serial!CInv'
        BY DEF SerialInv
    <2>1. Serial!CInv /\ [Serial!Next]_(Serial!vars)
        BY PartStays DEF SerialInv, Next, vars, Serial!vars
    <2> QED
        BY <2>1, Serial!NextCInv, ServicesAssumption
<1> QED
    BY <1>1, <1>2, PTL DEF Spec

\* With one request at a time and one handler that may stop, a safe gets its address
\* from the keys of all its owners, and gets it when all have confirmed; owners and
\* threshold have one safe, and what was created or deleted stays.
THEOREM SerialSafesAlways ==
    /\ Spec => []CreatedHasEveryKey
    /\ Spec => []ConfirmedIsCreated
    /\ Spec => []OneSafePerHash
    /\ Spec => SettledIsFinal
<1>1. Spec => []CreatedHasEveryKey
    <2>1. SerialInv => CreatedHasEveryKey
        BY Serial!CInvKeys, ServicesAssumption DEF SerialInv, CreatedHasEveryKey
    <2> QED
        BY <2>1, AlwaysSerialInv, PTL
<1>2. Serial!Spec => Serial!SettledIsFinal /\ []Serial!OneSafePerHash /\ []Serial!ConfirmedIsCreated
    <2>1. Serial!IsFiniteSet(SerialReqs)
        BY ServicesAssumption DEF IsFiniteSet, Serial!IsFiniteSet
    <2> QED
        BY <2>1, Serial!SerialSafes, ServicesAssumption
<1> DEFINE Here == part = "serialSafes"
<1>3. Init /\ Here => Serial!Init
    BY DEF Init
<1>4. Here /\ [Next]_vars => Here' /\ [Serial!Next]_(Serial!vars)
    BY PartStays DEF Next, vars, Serial!vars
<1>5. ~Here /\ [Next]_vars => ~Here'
    BY PartStays
<1>6. [Serial!SettledStays]_(Serial!vars) => [Here => Serial!SettledStays]_vars
    BY DEF Serial!SettledStays, Serial!vars
<1>7. ~Here => ConfirmedIsCreated /\ OneSafePerHash /\ [Here => Serial!SettledStays]_vars
    BY DEF ConfirmedIsCreated, OneSafePerHash
<1>8. /\ Serial!ConfirmedIsCreated => ConfirmedIsCreated
      /\ Serial!OneSafePerHash => OneSafePerHash
    BY DEF ConfirmedIsCreated, OneSafePerHash
<1>9. SettledIsFinal <=> [][Here => Serial!SettledStays]_vars
    BY DEF SettledIsFinal
<1> HIDE DEF Here
<1>10. Spec /\ Here => Serial!Spec
    BY <1>3, <1>4, PTL DEF Spec, Serial!Spec
<1>11. Spec /\ ~Here => []~Here
    BY <1>5, PTL DEF Spec
<1>12. Serial!SettledIsFinal => [][Here => Serial!SettledStays]_vars
    BY <1>6, PTL DEF Serial!SettledIsFinal
<1>13. []~Here => []ConfirmedIsCreated /\ []OneSafePerHash /\ [][Here => Serial!SettledStays]_vars
    BY <1>7, PTL
<1> QED
    BY <1>1, <1>2, <1>8, <1>9, <1>10, <1>11, <1>12, <1>13, PTL

-----------------------------------------------------------------------------
(* Users and notifications. *)

NoticesInv == part = "notifications" => Notify!HInv

LEMMA AlwaysNoticesInv == Spec => []NoticesInv
<1>1. Init => NoticesInv
    BY Notify!InitHInv, ServicesAssumption DEF Init, NoticesInv
<1>2. NoticesInv /\ [Next]_vars => NoticesInv'
    <2>0. Notify!IsFiniteSet(Clients)
        BY ServicesAssumption DEF IsFiniteSet, Notify!IsFiniteSet
    <2> SUFFICES ASSUME NoticesInv, [Next]_vars, part' = "notifications" PROVE Notify!HInv'
        BY DEF NoticesInv
    <2>1. Notify!HInv /\ [Notify!Next]_(Notify!vars)
        BY PartStays DEF NoticesInv, Next, vars, Notify!vars
    <2> QED
        BY <2>0, <2>1, Notify!NextHInv, ServicesAssumption
<1> QED
    BY <1>1, <1>2, PTL DEF Spec

\* However many logins overlap, an address has one user, and a token is for the user
\* of its client's own address.
THEOREM OneUserPerAddressAlways == Spec => []OneUserPerAddress
<1>1. NoticesInv => OneUserPerAddress
    BY DEF NoticesInv, OneUserPerAddress, Notify!HInv, Notify!JInv, Notify!NInv, Notify!UInv
<1> QED
    BY <1>1, AlwaysNoticesInv, PTL

\* No interleaving of events, jobs, lists and marks makes a notice read that its user
\* was not shown.
THEOREM ReadWasSeenAlways == Spec => []ReadWasSeen
<1>1. NoticesInv => ReadWasSeen
    BY DEF NoticesInv, ReadWasSeen, Notify!HInv, Notify!JInv, Notify!NInv
<1> QED
    BY <1>1, AlwaysNoticesInv, PTL

\* When the job of a day is done, each owner it found among the users has one notice of
\* the day for each proposal in voting on the chain of the safe, and no user has two.
THEOREM VotingIsAnnouncedAlways == Spec => []VotingIsAnnounced
<1>1. NoticesInv => VotingIsAnnounced
    BY Notify!JInvAnnounces DEF NoticesInv, Notify!HInv, VotingIsAnnounced
<1> QED
    BY <1>1, AlwaysNoticesInv, PTL

-----------------------------------------------------------------------------
(* Distribution. *)

StakeInv == part = "distribution" => Stake!TypedInv

LEMMA AlwaysStakeInv == Spec => []StakeInv
<1>1. Init => StakeInv
    BY Stake!InitTypedInv, ServicesAssumption DEF Init, StakeInv
<1>2. StakeInv /\ [Next]_vars => StakeInv'
    <2> SUFFICES ASSUME StakeInv, [Next]_vars, part' = "distribution" PROVE Stake!TypedInv'
        BY DEF StakeInv
    <2>1. Stake!TypedInv /\ [Stake!Next]_(Stake!vars)
        BY PartStays DEF StakeInv, Next, vars, Stake!vars
    <2> QED
        BY <2>1, Stake!NextTypedInv, ServicesAssumption
<1> QED
    BY <1>1, <1>2, PTL DEF Spec

\* Whatever the number of requests and the answers and failures of keybase, a cached
\* picture that nobody is asking keybase for stays.
THEOREM SettledPictureStaysAlways == Spec => SettledPictureStays
<1>1. StakeInv /\ [Next]_vars => [part = "distribution" => Stake!SettledStays]_vars
    <2> SUFFICES ASSUME StakeInv, [Next]_vars, part = "distribution" PROVE Stake!SettledStays
        OBVIOUS
    <2>1. Stake!DInv /\ [Stake!Next]_(Stake!vars)
        BY DEF StakeInv, Stake!TypedInv, Next, vars, Stake!vars
    <2> QED
        BY <2>1, Stake!NextSettled
<1> QED
    BY <1>1, AlwaysStakeInv, PTL DEF Spec, SettledPictureStays

-----------------------------------------------------------------------------
(* The queue. *)

QueueInv == part = "queue" => Queue!QInv

LEMMA AlwaysQueueInv == Spec => []QueueInv
<1>1. Init => QueueInv
    BY Queue!InitQInv, ServicesAssumption DEF Init, QueueInv
<1>2. QueueInv /\ [Next]_vars => QueueInv'
    <2> SUFFICES ASSUME QueueInv, [Next]_vars, part' = "queue" PROVE Queue!QInv'
        BY DEF QueueInv
    <2>1. Queue!QInv /\ [Queue!Next]_(Queue!vars)
        BY PartStays DEF QueueInv, Next, vars, Queue!vars
    <2> QED
        BY <2>1, Queue!NextQInv, ServicesAssumption
<1> QED
    BY <1>1, <1>2, PTL DEF Spec

\* The loop over the sorted queue returns what the closed form says that the handlers'
\* model uses for calculateNextSeq.
THEOREM LoopComputesAlways == Spec => []LoopComputesNextQueueSeq
<1>1. QueueInv => LoopComputesNextQueueSeq
    BY Queue!QInvComputes, ServicesAssumption DEF QueueInv, LoopComputesNextQueueSeq
<1> QED
    BY <1>1, AlwaysQueueInv, PTL

\* With sequences of one length and none below the start, calculateNextSeq suggests the
\* first number from the start on that no queued transaction has.
THEOREM SuggestsFirstFreeAlways == Spec => []SuggestsFirstFree
<1>1. QueueInv => SuggestsFirstFree
    BY Queue!QInvSuggests, ServicesAssumption DEF QueueInv, SuggestsFirstFree
<1> QED
    BY <1>1, AlwaysQueueInv, PTL

-----------------------------------------------------------------------------
(* Governance. *)

GovInv == part = "governance" => GInv

LEMMA AlwaysGovInv == Spec => []GovInv
<1>1. Init => GovInv
    BY InitGInv DEF Init, GovInv
<1>2. GovInv /\ [Next]_vars => GovInv'
    <2> SUFFICES ASSUME GovInv, [Next]_vars, part' = "governance" PROVE GInv'
        BY DEF GovInv
    <2>1. GInv /\ [Gov!Next]_(Gov!vars)
        BY PartStays DEF GovInv, Next, vars, Gov!vars
    <2> QED
        BY <2>1, NextGInv
<1> QED
    BY <1>1, <1>2, PTL DEF Spec

\* For any voting powers and in every state of the vote, the percentages shown of a
\* tally add up to 100, up to rounding, or are all 0; the option named as most voted
\* is one that nothing exceeds.
THEOREM TallyAddsUpAlways == Spec => []TallyAddsUp
<1>1. GovInv => TallyAddsUp
    BY GInvAddsUp DEF GovInv, TallyAddsUp
<1> QED
    BY <1>1, AlwaysGovInv, PTL

\* Whatever happens between the query of the proposal and the query of the bonded
\* tokens, the turnout has the votes that the proposal has, and accounts for all bonded
\* tokens if they are not fewer than the votes.
THEOREM TurnoutIsCompleteAlways == Spec => []TurnoutIsComplete
<1>1. GovInv => TurnoutIsComplete
    BY GInvIsComplete DEF GovInv, TurnoutIsComplete
<1> QED
    BY <1>1, AlwaysGovInv, PTL

-----------------------------------------------------------------------------
(* The table of chains. *)

CatalogInv == part = "catalog" => TableInv

LEMMA AlwaysCatalogInv == Spec => []CatalogInv
<1>1. Init => CatalogInv
    BY InitTableInv DEF Init, CatalogInv
<1>2. CatalogInv /\ [Next]_vars => CatalogInv'
    <2> SUFFICES ASSUME CatalogInv, [Next]_vars, part' = "catalog" PROVE TableInv'
        BY DEF CatalogInv
    <2>1. TableInv /\ [Table!Next]_(Table!vars)
        BY PartStays DEF CatalogInv, Next, vars, Table!vars
    <2> QED
        BY <2>1, NextTableInv
<1> QED
    BY <1>1, <1>2, PTL DEF Spec

\* However often and with whatever files instances are started, the id under which a
\* client was listed a chain leads to that chain; and unless two instances were seeding
\* at the same time, no chain is listed twice.
THEOREM ListedChainIsFoundAlways == Spec => []ListedChainIsFound
<1>1. CatalogInv => ListedChainIsFound
    BY CInvFinds DEF CatalogInv, TableInv, ListedChainIsFound
<1> QED
    BY <1>1, AlwaysCatalogInv, PTL

-----------------------------------------------------------------------------
(* Signatures and assembly. *)

SigningInv == part = "signing" => SignInv

LEMMA AlwaysSigningInv == Spec => []SigningInv
<1>1. Init => SigningInv
    BY InitSignInv DEF Init, SigningInv
<1>2. SigningInv /\ [Next]_vars => SigningInv'
    <2> SUFFICES ASSUME SigningInv, [Next]_vars, part' = "signing" PROVE SignInv'
        BY DEF SigningInv
    <2>1. SignInv /\ (Sign!Next \/ UNCHANGED <<v1, v2, v3, v4, v5, v6>>)
        BY PartStays DEF SigningInv, Next, vars
    <2>2. v2 \in SafeColumns
        BY <2>1 DEF SignInv, SignTyped
    <2> QED
        BY <2>1, <2>2, NextSigns, SignSame
<1> QED
    BY <1>1, <1>2, PTL DEF Spec

\* What the chain executes is what the owners were shown: when one of the owners whose
\* signatures makeTx assembled signed the stored messages, the node executes those,
\* although nothing compares the bodies that came with the confirmations.
THEOREM ExecutedIsShownAlways == Spec => []ExecutedIsShown
<1>1. SigningInv => ExecutedIsShown
    BY DEF SigningInv, SignInv, ExecutedIsShown
<1> QED
    BY <1>1, AlwaysSigningInv, PTL

\* When all who confirmed signed what the row says, and coinDecimals and prefix stand
\* for the same family, the node does not refuse what makeTx assembles: for any number
\* of owners, in whatever order they confirmed and their addresses are sorted.
THEOREM AgreeingIsExecutableAlways == Spec => []AgreeingIsExecutable
<1>1. SigningInv => AgreeingIsExecutable
    BY DEF SigningInv, SignInv, AgreeingIsExecutable
<1> QED
    BY <1>1, AlwaysSigningInv, PTL

-----------------------------------------------------------------------------
(* Messages and amounts. *)

MoneyInv == part = "messages" => PayInv

LEMMA AlwaysMoneyInv == Spec => []MoneyInv
<1>1. Init => MoneyInv
    BY InitPayInv DEF Init, MoneyInv
<1>2. MoneyInv /\ [Next]_vars => MoneyInv'
    <2> SUFFICES ASSUME MoneyInv, [Next]_vars, part' = "messages" PROVE PayInv'
        BY DEF MoneyInv
    <2>1. PayInv /\ (Money!Next \/ UNCHANGED <<v1, v2, v3, v4, v5>>)
        BY PartStays DEF MoneyInv, Next, vars
    <2>2. ASSUME UNCHANGED <<v1, v2, v3, v4, v5>> PROVE PayInv'
        <3>1. /\ \A id : Money!MsgsByAuraTxId(id)' = Money!MsgsByAuraTxId(id)
              /\ Money!MsgsByTxId' = Money!MsgsByTxId
            BY <2>2 DEF Money!MsgsByAuraTxId, Money!MsgsByTxId
        <3>2. PageInv'
            BY <2>1, <2>2, <3>1, PageStays DEF PayInv
        <3>3. v5 = Paged(v5) /\ v5.auraTxId \in 0..2 /\ Todo(v5) /\ v5.autoClaim \in Nat
            BY <2>1 DEF PayInv, MoneyTyped
        <3>4. v5' = Paged(v5') /\ v5'.auraTxId \in 0..2 /\ Todo(v5') /\ v5'.autoClaim \in Nat
            BY <2>2, <3>3
        <3> QED
            BY <2>1, <2>2, <3>2, <3>4, PagePays
    <2> QED
        BY <2>1, <2>2, NextPays
<1> QED
    BY <1>1, <1>2, PTL DEF Spec

\* The list and the details agree on the amount of a transaction, with any number of
\* messages and whatever the chain paid: computed as a JavaScript number when it was
\* created, it is what its messages in the details move, rewards aside, as long as that
\* is no more than MAX_SAFE_INTEGER.
THEOREM AmountsAgreeAlways == Spec => []AmountsAgree
<1>1. MoneyInv => AmountsAgree
    BY PayInvAgrees DEF MoneyInv, AmountsAgree
<1> QED
    BY <1>1, AlwaysMoneyInv, PTL

\* Every reward the chain paid with a transaction is shown once in its details, with
\* the withdrawal that asked for it or in AutoClaimAmount, if no validator is asked twice
\* and the number is no more than MAX_SAFE_INTEGER.
THEOREM PaidIsShownAlways == Spec => []PaidIsShown
<1>1. MoneyInv => PaidIsShown
    BY PayInvShows DEF MoneyInv, PaidIsShown
<1> QED
    BY <1>1, AlwaysMoneyInv, PTL

-----------------------------------------------------------------------------
(* Types. *)

\* Whatever the constants, within the assumptions of the components: every variable of
\* every component keeps its type, and calculateNextSeq never walks past its array.
THEOREM TypesAlwaysOK == Spec => []TypeOK
<1>1. DetailsInv => (part = "details" => Detail!TypeOK /\ Detail!PageTypeOK)
    BY DEF DetailsInv, Detail!LInv, Detail!MInv, Detail!XInv, Detail!AInv, Detail!TInv
<1>2. SafesInv => (part = "safes" => View!TypeOK /\ View!SightTypeOK)
    BY View!AnswersTyped, ServicesAssumption DEF SafesInv
<1>3. NoticesInv => (part = "notifications" => Notify!TypeOK)
    <2>1. Notify!IsFiniteSet(Clients)
        BY ServicesAssumption DEF IsFiniteSet, Notify!IsFiniteSet
    <2> QED
        BY <2>1, Notify!HInvTyped DEF NoticesInv
<1>4. StakeInv => (part = "distribution" => Stake!TypeOK)
    BY DEF StakeInv, Stake!TypedInv
<1>5. QueueInv => (part = "queue" => Queue!TypeOK)
    BY Queue!QInvTyped, ServicesAssumption DEF QueueInv
<1>6. GovInv => (part = "governance" => Gov!TypeOK)
    BY GInvTyped DEF GovInv
<1>7. CatalogInv => (part = "catalog" => Table!TypeOK)
    BY TableTyped DEF CatalogInv
<1>8. SigningInv => (part = "signing" => Sign!TypeOK)
    BY SignInvTyped DEF SigningInv
<1>9. MoneyInv => (part = "messages" => Money!TypeOK)
    BY PayInvTyped DEF MoneyInv
<1>10. SerialInv => (part = "serialSafes" => Serial!TypeOK)
    BY DEF SerialInv, Serial!CInv
<1>11. /\ DetailsInv /\ SafesInv /\ SerialInv /\ NoticesInv /\ StakeInv /\ QueueInv
       /\ GovInv /\ CatalogInv /\ SigningInv /\ MoneyInv
       => TypeOK
    BY <1>1, <1>2, <1>3, <1>4, <1>5, <1>6, <1>7, <1>8, <1>9, <1>10 DEF TypeOK
<1> QED
    BY <1>11, AlwaysDetailsInv, AlwaysSafesInv, AlwaysSerialInv, AlwaysNoticesInv, AlwaysStakeInv, AlwaysQueueInv,
       AlwaysGovInv, AlwaysCatalogInv, AlwaysSigningInv, AlwaysMoneyInv, PTL
=============================================================================

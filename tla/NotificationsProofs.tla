------------------------ MODULE NotificationsProofs ------------------------
(***************************************************************************)
(* Users and notices, for any number of clients, addresses, events and     *)
(* days: logins that overlap make one user of an address, and nothing is   *)
(* marked as read that its user was not shown.                             *)
(***************************************************************************)
EXTENDS Notifications, FiniteSetTheorems, TLAPS

Addresses == {AddressOf[c] : c \in Clients}

UsersTyped ==
    /\ users \in Seq(Addresses)
    /\ session \in [Clients -> Nat]
    /\ \A c \in Clients : session[c] # 0 => session[c] \in 1..Len(users)

\* The inductive invariant of table User.
UInv == UsersTyped /\ OneUserPerAddress

LEMMA InitUInv == Init => UInv
    BY DEF Init, UInv, UsersTyped, OneUserPerAddress

-----------------------------------------------------------------------------

\* Table User and the tokens change in two ways.
LogsIn(c) ==
    /\ session[c] = 0 /\ Known(AddressOf[c])
    /\ session' = [session EXCEPT ![c] = IdOf(AddressOf[c])]
    /\ UNCHANGED users
Registers(c) ==
    /\ ~Known(AddressOf[c])
    /\ users' = Append(users, AddressOf[c])
    /\ session' = [session EXCEPT ![c] = Len(users')]
UsersStep == UNCHANGED <<users, session>> \/ \E c \in Clients : LogsIn(c) \/ Registers(c)

LEMMA UsersChange ==
    ASSUME [Next]_vars
    PROVE  UsersStep
<1>1. ASSUME NEW c \in Clients, Auth(c) PROVE UsersStep
    BY <1>1 DEF Auth, UsersStep, LogsIn
<1>2. ASSUME NEW c \in Clients, CreateUser(c) PROVE UsersStep
    BY <1>2 DEF CreateUser, UsersStep, Registers
<1>3. ASSUME NEW c \in Clients, GetNotifications(c) \/ \E ids \in SUBSET fetched[c] : MarkAsRead(c, ids)
      PROVE  UsersStep
    BY <1>3 DEF GetNotifications, MarkAsRead, UsersStep, staff
<1>4. CASE (\E event \in Events : Raise(event)) \/ (\E call \in calls : Save(call))
    BY <1>4 DEF Raise, Save, UsersStep, staff
<1>5. CASE Midnight \/ ReadProposals \/ ReadUsers \/ \E p \in Proposals : SaveProposal(p)
    BY <1>5 DEF Midnight, ReadProposals, ReadUsers, SaveProposal, UsersStep, staff
<1>6. CASE UNCHANGED vars
    BY <1>6 DEF vars, UsersStep
<1> QED
    BY <1>1, <1>2, <1>3, <1>4, <1>5, <1>6 DEF Next

LEMMA NextUInv == UInv /\ [Next]_vars => UInv'
<1> SUFFICES ASSUME UInv, [Next]_vars PROVE UInv'
    OBVIOUS
<1>1. ASSUME NEW c \in Clients, LogsIn(c) PROVE UInv'
    <2>1. IdOf(AddressOf[c]) \in 1..Len(users) /\ users[IdOf(AddressOf[c])] = AddressOf[c]
        BY <1>1 DEF LogsIn, Known, Contains, IdOf
    <2> QED
        BY <1>1, <2>1 DEF LogsIn, UInv, UsersTyped, OneUserPerAddress
<1>2. ASSUME NEW c \in Clients, Registers(c) PROVE UInv'
    <2>1. /\ users' \in Seq(Addresses) /\ Len(users') = Len(users) + 1
          /\ \A i \in 1..Len(users) : users'[i] = users[i]
          /\ users'[Len(users')] = AddressOf[c]
        BY <1>2 DEF Registers, UInv, UsersTyped, Addresses
    <2>2. \A i \in 1..Len(users) : users[i] # AddressOf[c]
        BY <1>2 DEF Registers, Known, Contains
    <2>3. UsersTyped'
        BY <1>2, <2>1 DEF Registers, UInv, UsersTyped
    <2>4. \A i, j \in 1..Len(users') : users'[i] = users'[j] => i = j
        BY <2>1, <2>2 DEF UInv, UsersTyped, OneUserPerAddress
    <2>5. \A d \in Clients : session'[d] # 0 => users'[session'[d]] = AddressOf[d]
        BY <1>2, <2>1 DEF Registers, UInv, UsersTyped, OneUserPerAddress
    <2> QED
        BY <2>3, <2>4, <2>5 DEF UInv, OneUserPerAddress
<1>3. CASE UNCHANGED <<users, session>>
    BY <1>3 DEF UInv, UsersTyped, OneUserPerAddress, Addresses
<1> QED
    BY <1>1, <1>2, <1>3, UsersChange DEF UsersStep

LEMMA AlwaysUInv == Spec => []UInv
    BY InitUInv, NextUInv, PTL DEF Spec

\* However many logins with however many addresses overlap, an address has one user,
\* and the token of a client is for the user of its own address.
THEOREM OneUserPerAddressAlways == Spec => []OneUserPerAddress
<1>1. UInv => OneUserPerAddress
    BY DEF UInv
<1> QED
    BY <1>1, AlwaysUInv, PTL

-----------------------------------------------------------------------------

LEMMA IntervalSize ==
    ASSUME NEW n \in Nat
    PROVE  IsFiniteSet(1..n) /\ Cardinality(1..n) = n
    BY FS_Interval

\* There are not more users than clients.
LEMMA FewUsers ==
    ASSUME IsFiniteSet(Clients), UInv
    PROVE  Len(users) <= Cardinality(Clients)
<1> DEFINE f == [c \in Clients |-> AddressOf[c]]
           g == [i \in 1..Len(users) |-> users[i]]
<1>1. f \in Surjection(Clients, Addresses)
    BY DEF Surjection, Addresses
<1>2. IsFiniteSet(Addresses) /\ Cardinality(Addresses) <= Cardinality(Clients)
    BY <1>1, FS_Surjection, IsFiniteSet(Clients)
<1>3. g \in Injection(1..Len(users), Addresses)
    BY DEF Injection, IsInjective, UInv, UsersTyped, OneUserPerAddress
<1>4. Len(users) \in Nat
    BY DEF UInv, UsersTyped
<1>5. Cardinality(1..Len(users)) <= Cardinality(Addresses)
    BY <1>2, <1>3, FS_Injection
<1>6. Cardinality(1..Len(users)) = Len(users)
    BY <1>4, IntervalSize
<1>7. Cardinality(Addresses) \in Nat /\ Cardinality(Clients) \in Nat
    BY <1>2, FS_CardinalityType, IsFiniteSet(Clients)
<1> QED
    BY <1>2, <1>4, <1>5, <1>6, <1>7

\* A set that is saved is appended in some order.
LEMMA SetToSeqIsSeq ==
    ASSUME NEW S, IsFiniteSet(S)
    PROVE  SetToSeq(S) \in Seq(S)
<1>1. Cardinality(S) \in Nat /\ ExistsBijection(1..Cardinality(S), S)
    BY FS_CardinalityType
<1>2. PICK f : f \in Bijection(1..Cardinality(S), S)
    BY <1>1 DEF ExistsBijection
<1>3. f \in [1..Cardinality(S) -> S] /\ IsInjective(f)
    BY <1>2 DEF Bijection, Injection, IsInjective
<1>4. SetToSeq(S) \in [1..Cardinality(S) -> S]
    BY <1>3 DEF SetToSeq
<1> QED
    BY <1>1, <1>4
-----------------------------------------------------------------------------
(* Notices. *)

Subjects ==
    UNION {[creator : {Creator}, totalOwner : Nat], [safe : {1}], [txCreator : {Creator}],
           {[proposal |-> p.id, chain |-> p.chain] : p \in Proposals}}
EventTypes == Events \union {"START_VOTING_PERIOD"}
Rows == [user : Nat, event : EventTypes, subject : Subjects, status : {"UNREAD", "READ"}, on : Nat]
Unread == {n \in Rows : n.status = "UNREAD"}
Saveable(S) == IsFiniteSet(S) /\ S \subseteq Unread

Jobs == [pc : {"due", "read", "save", "done"}, proposals : SUBSET Proposals, users : Nat, missing : SUBSET Chains]

NoticesTyped ==
    /\ notices \in Seq(Rows) /\ day \in Nat
    /\ \A call \in calls : Saveable(call)
    /\ job \in Jobs
    /\ fetched \in [Clients -> SUBSET Nat]
    /\ seen \in [Ids -> SUBSET Nat]

\* What a client has fetched was shown to the user of its token.
FetchedWasSeen ==
    \A c \in Clients : \A i \in fetched[c] : session[c] \in Ids /\ i \in seen[session[c]]

\* A client whose auth is under way has no token yet.
LoginsPend == \A c \in Clients : c \in logins => session[c] = 0

\* The inductive invariant of table Notification.
NInv == UInv /\ NoticesTyped /\ LoginsPend /\ FetchedWasSeen /\ ReadWasSeen

LEMMA MidnightJob ==
    /\ [JobDue EXCEPT !.pc = "done"] \in Jobs
    /\ \A n \in Nat : [JobDue EXCEPT !.users = n] \in Jobs
<1> DEFINE Names == {"pc", "proposals", "users", "missing"}
<1>1. ASSUME NEW n \in Nat PROVE [JobDue EXCEPT !.users = n] \in Jobs
    <2> DEFINE e == [JobDue EXCEPT !.users = n]
    <2>1. e = [f \in Names |-> e[f]]
        BY DEF JobDue
    <2>2. e.pc = "due" /\ e.proposals = {} /\ e.users = n /\ e.missing = {}
        BY DEF JobDue
    <2>3. e = [f \in Names |-> CASE f = "pc" -> "due" [] f = "users" -> n [] OTHER -> {}]
        BY <2>1, <2>2
    <2>4. e = [pc |-> "due", proposals |-> {}, users |-> n, missing |-> {}]
        BY <2>3
    <2> HIDE DEF e
    <2>5. e \in Jobs
        BY <2>4 DEF Jobs
    <2> QED
        BY <2>5 DEF e
<1>2. [JobDue EXCEPT !.pc = "done"] \in Jobs
    <2> DEFINE e == [JobDue EXCEPT !.pc = "done"]
    <2>1. e = [f \in Names |-> e[f]]
        BY DEF JobDue
    <2>2. e.pc = "done" /\ e.proposals = {} /\ e.users = 0 /\ e.missing = {}
        BY DEF JobDue
    <2>3. e = [f \in Names |-> CASE f = "pc" -> "done" [] f = "users" -> 0 [] OTHER -> {}]
        BY <2>1, <2>2
    <2>4. e = [pc |-> "done", proposals |-> {}, users |-> 0, missing |-> {}]
        BY <2>3
    <2> HIDE DEF e
    <2>5. e \in Jobs
        BY <2>4 DEF Jobs
    <2> QED
        BY <2>5 DEF e
<1> QED
    BY <1>1, <1>2

LEMMA InitNInv == Init => NInv
<1> SUFFICES ASSUME Init PROVE NInv
    OBVIOUS
<1>1. job \in Jobs
    BY MidnightJob DEF Init
<1> QED
    BY <1>1, InitUInv DEF Init, NInv, NoticesTyped, LoginsPend, FetchedWasSeen, ReadWasSeen

LEMMA ImageIsFinite ==
    ASSUME NEW S, IsFiniteSet(S), NEW f, f = [x \in S |-> f[x]]
    PROVE  IsFiniteSet({f[x] : x \in S})
<1>1. f \in Surjection(S, {f[x] : x \in S})
    BY DEF Surjection
<1> QED
    BY <1>1, FS_Surjection

LEMMA NoticeIsUnread ==
    ASSUME day \in Nat, NEW u \in Nat, NEW event \in EventTypes, NEW subject \in Subjects
    PROVE  NewNotice(u, event, subject) \in Unread
    BY DEF NewNotice, Unread, Rows

AboutOwners(n) == [creator |-> Creator, totalOwner |-> n]
AboutSafe == [safe |-> 1]
AboutCreator == [txCreator |-> Creator]
NoticesFor(A, event, subject) == {NewNotice(u, event, subject) : u \in UsersOf(A)}

\* Each notify method saves finitely many unread notices.
LEMMA CallIsSaveable ==
    ASSUME NInv, NEW A
    PROVE  /\ Saveable({NewSafeCreated(u) : u \in UsersOf(A)})
           /\ Saveable({NewTxExecutable(u) : u \in UsersOf(A)})
           /\ Saveable({NewTxBroadcasted(u) : u \in UsersOf(A)})
           /\ Saveable({NewTx(u, Creator) : u \in UsersOf(A)})
           /\ Saveable({NewDeletedTx(u, Creator) : u \in UsersOf(A)})
           /\ \A n \in Nat : Saveable({NewWaitAllowSafe(u, n) : u \in UsersOf(A)})
<1>1. Len(users) \in Nat /\ day \in Nat
    BY DEF NInv, UInv, UsersTyped, NoticesTyped
<1>2. IsFiniteSet(UsersOf(A)) /\ UsersOf(A) \subseteq Nat
    <2>1. IsFiniteSet(1..Len(users))
        BY <1>1, IntervalSize
    <2> QED
        BY <1>1, <2>1, FS_Subset DEF UsersOf
<1>3. ASSUME NEW event \in EventTypes, NEW subject \in Subjects
      PROVE  Saveable(NoticesFor(A, event, subject))
    <2> DEFINE f == [u \in UsersOf(A) |-> NewNotice(u, event, subject)]
    <2>1. IsFiniteSet({f[u] : u \in UsersOf(A)})
        BY <1>2, ImageIsFinite
    <2>2. {f[u] : u \in UsersOf(A)} = NoticesFor(A, event, subject)
        BY DEF NoticesFor
    <2>3. \A u \in UsersOf(A) : NewNotice(u, event, subject) \in Unread
        BY <1>1, <1>2, NoticeIsUnread
    <2> QED
        BY <2>1, <2>2, <2>3 DEF Saveable, NoticesFor
<1>4. /\ AboutSafe \in Subjects /\ AboutCreator \in Subjects
      /\ \A n \in Nat : AboutOwners(n) \in Subjects
    BY DEF Subjects, AboutSafe, AboutCreator, AboutOwners
<1>5. ASSUME NEW n \in Nat PROVE Saveable({NewWaitAllowSafe(u, n) : u \in UsersOf(A)})
    <2>1. Saveable(NoticesFor(A, "WAIT_ALLOW_SAFE", AboutOwners(n)))
        BY <1>3, <1>4 DEF EventTypes, Events
    <2> QED
        BY <2>1 DEF NoticesFor, AboutOwners, NewWaitAllowSafe
<1>6. Saveable({NewSafeCreated(u) : u \in UsersOf(A)})
    <2>1. Saveable(NoticesFor(A, "SAFE_CREATED", AboutSafe))
        BY <1>3, <1>4 DEF EventTypes, Events
    <2> QED
        BY <2>1 DEF NoticesFor, AboutSafe, NewSafeCreated
<1>7. Saveable({NewTxExecutable(u) : u \in UsersOf(A)})
    <2>1. Saveable(NoticesFor(A, "WAIT_EXECUTE_TX", AboutSafe))
        BY <1>3, <1>4 DEF EventTypes, Events
    <2> QED
        BY <2>1 DEF NoticesFor, AboutSafe, NewTxExecutable
<1>8. Saveable({NewTxBroadcasted(u) : u \in UsersOf(A)})
    <2>1. Saveable(NoticesFor(A, "TX_BROADCASTED", AboutSafe))
        BY <1>3, <1>4 DEF EventTypes, Events
    <2> QED
        BY <2>1 DEF NoticesFor, AboutSafe, NewTxBroadcasted
<1>9. Saveable({NewTx(u, Creator) : u \in UsersOf(A)})
    <2>1. Saveable(NoticesFor(A, "WAIT_CONFIRM_TX", AboutCreator))
        BY <1>3, <1>4 DEF EventTypes, Events
    <2> QED
        BY <2>1 DEF NoticesFor, AboutCreator, NewTx
<1>10. Saveable({NewDeletedTx(u, Creator) : u \in UsersOf(A)})
    <2>1. Saveable(NoticesFor(A, "TX_DELETED", AboutCreator))
        BY <1>3, <1>4 DEF EventTypes, Events
    <2> QED
        BY <2>1 DEF NoticesFor, AboutCreator, NewDeletedTx
<1> QED
    BY <1>5, <1>6, <1>7, <1>8, <1>9, <1>10

\* Appending unread notices marks nothing as read.
LEMMA AppendingUnread ==
    ASSUME NInv, NEW S, Saveable(S), notices' = notices \o SetToSeq(S), UNCHANGED seen
    PROVE  notices' \in Seq(Rows) /\ ReadWasSeen'
<1>1. SetToSeq(S) \in Seq(Unread)
    <2>1. SetToSeq(S) \in Seq(S)
        BY SetToSeqIsSeq DEF Saveable
    <2> QED
        BY <2>1 DEF Saveable
<1>2. notices \in Seq(Rows) /\ SetToSeq(S) \in Seq(Rows)
    BY <1>1 DEF NInv, NoticesTyped, Unread
<1>3. notices' \in Seq(Rows)
    BY <1>2
<1>4. ASSUME NEW i \in 1..Len(notices'), notices'[i].status = "READ"
      PROVE  i \in 1..Len(notices) /\ notices'[i] = notices[i]
    <2>1. CASE i \in 1..Len(notices)
        BY <1>2, <2>1
    <2>2. CASE i \notin 1..Len(notices)
        <3>1. /\ notices'[i] = SetToSeq(S)[i - Len(notices)]
              /\ i - Len(notices) \in 1..Len(SetToSeq(S))
            BY <1>2, <2>2
        <3>2. notices'[i] \in Unread
            BY <1>1, <3>1
        <3> QED
            BY <1>4, <3>2 DEF Unread
    <2> QED
        BY <2>1, <2>2
<1> QED
    BY <1>3, <1>4 DEF NInv, ReadWasSeen
\* ... and so does the daily job.
LEMMA AnnouncementsAreSaveable ==
    ASSUME NInv, NEW p \in Proposals
    PROVE  Saveable(Announcements(p))
<1> DEFINE f == [u \in 1..job.users |-> NewProposal(u, p)]
<1>1. job.users \in Nat /\ day \in Nat
    BY DEF NInv, NoticesTyped, Jobs
<1>2. IsFiniteSet({f[u] : u \in 1..job.users})
    <2>1. IsFiniteSet(1..job.users)
        BY <1>1, IntervalSize
    <2> QED
        BY <2>1, ImageIsFinite
<1>3. {f[u] : u \in 1..job.users} = Announcements(p)
    BY DEF Announcements
<1>4. ASSUME NEW u \in 1..job.users PROVE NewProposal(u, p) \in Unread
    <2>1. [proposal |-> p.id, chain |-> p.chain] \in Subjects
        BY DEF Subjects
    <2>2. u \in Nat
        BY <1>1
    <2> QED
        BY <1>1, <2>1, <2>2, NoticeIsUnread DEF NewProposal, EventTypes
<1> QED
    BY <1>2, <1>3, <1>4 DEF Saveable, Announcements

\* A client that logs in has fetched nothing under another user.
LEMMA LoggingInKeepsSeen ==
    ASSUME NInv, NEW c \in Clients, session[c] = 0,
           \A d \in Clients \ {c} : session'[d] = session[d], UNCHANGED <<fetched, seen>>
    PROVE  FetchedWasSeen'
<1>1. fetched[c] = {}
    BY DEF NInv, FetchedWasSeen, Ids
<1> QED
    BY <1>1 DEF NInv, FetchedWasSeen, Ids
-----------------------------------------------------------------------------

\* One step per action: what it does to the tables, and to what users were shown.
LEMMA NextNInv ==
    ASSUME IsFiniteSet(Clients), NInv, [Next]_vars
    PROVE  NInv'
<1>0. UInv'
    BY NextUInv DEF NInv
<1>1. ASSUME NEW c \in Clients, Auth(c) PROVE NInv'
    <2>1. UNCHANGED <<notices, calls, fetched, seen, day, job>> /\ session[c] = 0
        BY <1>1 DEF Auth, desk
    <2>2. \A d \in Clients \ {c} : session'[d] = session[d]
        BY <1>1 DEF Auth, NInv, UInv, UsersTyped
    <2>3. FetchedWasSeen'
        BY <2>1, <2>2, LoggingInKeepsSeen
    <2>4. LoginsPend'
        BY <1>1 DEF Auth, NInv, LoginsPend, UInv, UsersTyped
    <2> QED
        BY <1>0, <2>1, <2>3, <2>4 DEF NInv, NoticesTyped, ReadWasSeen
<1>2. ASSUME NEW c \in Clients, CreateUser(c) PROVE NInv'
    <2>1. UNCHANGED <<notices, calls, fetched, seen, day, job>> /\ session[c] = 0
        BY <1>2 DEF CreateUser, desk, NInv, LoginsPend
    <2>2. \A d \in Clients \ {c} : session'[d] = session[d]
        BY <1>2 DEF CreateUser, NInv, UInv, UsersTyped
    <2>3. FetchedWasSeen'
        BY <2>1, <2>2, LoggingInKeepsSeen
    <2>4. LoginsPend'
        BY <1>2 DEF CreateUser, NInv, LoginsPend, UInv, UsersTyped
    <2> QED
        BY <1>0, <2>1, <2>3, <2>4 DEF NInv, NoticesTyped, ReadWasSeen
<1>3. ASSUME NEW c \in Clients, GetNotifications(c) PROVE NInv'
    <2> DEFINE mine == {i \in 1..Len(notices) : notices[i].user = session[c]}
    <2>1. /\ session[c] # 0 /\ fetched' = [fetched EXCEPT ![c] = mine]
          /\ seen' = [seen EXCEPT ![session[c]] = @ \union mine]
          /\ UNCHANGED <<users, logins, session, notices, calls, day, job>>
        BY <1>3 DEF GetNotifications, staff
    <2>2. session[c] \in Ids
        <3>1. Cardinality(Clients) \in Nat
            BY FS_CardinalityType, IsFiniteSet(Clients)
        <3> QED
            BY <2>1, <3>1, FewUsers, IsFiniteSet(Clients) DEF NInv, UInv, UsersTyped, Ids
    <2>3. mine \subseteq Nat
        BY DEF NInv, NoticesTyped
    <2> HIDE DEF mine
    <2>4. \A u \in Ids : seen[u] \subseteq seen'[u] /\ seen'[u] \subseteq Nat
        BY <2>1, <2>2, <2>3 DEF NInv, NoticesTyped
    <2>5. mine \subseteq seen'[session[c]]
        BY <2>1, <2>2 DEF NInv, NoticesTyped
    <2>6. NoticesTyped'
        <3>1. fetched' \in [Clients -> SUBSET Nat]
            BY <2>1, <2>3 DEF NInv, NoticesTyped
        <3>2. seen' \in [Ids -> SUBSET Nat]
            BY <2>1, <2>2, <2>3 DEF NInv, NoticesTyped
        <3> QED
            BY <2>1, <3>1, <3>2 DEF NInv, NoticesTyped, Ids
    <2>7. FetchedWasSeen'
        BY <2>1, <2>2, <2>4, <2>5 DEF NInv, NoticesTyped, FetchedWasSeen, Ids
    <2>8. ReadWasSeen'
        BY <2>1, <2>2 DEF NInv, NoticesTyped, ReadWasSeen
    <2> QED
        BY <1>0, <2>1, <2>6, <2>7, <2>8 DEF NInv, LoginsPend
<1>4. ASSUME NEW c \in Clients, NEW ids \in SUBSET fetched[c], MarkAsRead(c, ids) PROVE NInv'
    <2>1. /\ notices' = [i \in 1..Len(notices) |->
                           IF i \in ids /\ notices[i].user = session[c]
                           THEN [notices[i] EXCEPT !.status = "READ"] ELSE notices[i]]
          /\ UNCHANGED <<users, logins, session, calls, fetched, seen, day, job>>
        BY <1>4 DEF MarkAsRead, staff
    <2>2. \A n \in Rows : [n EXCEPT !.status = "READ"] \in Rows
        BY DEF Rows
    <2>3. Len(notices) \in Nat /\ \A i \in 1..Len(notices) : notices[i] \in Rows
        BY DEF NInv, NoticesTyped
    <2>4. notices' \in [1..Len(notices) -> Rows]
        BY <2>1, <2>2, <2>3
    <2>5. notices' \in Seq(Rows) /\ Len(notices') = Len(notices)
        BY <2>3, <2>4
    <2>6. ASSUME NEW i \in 1..Len(notices'), notices'[i].status = "READ"
          PROVE  i \in seen'[notices'[i].user]
        <3>1. notices'[i].user = notices[i].user
            BY <2>1, <2>3, <2>5 DEF Rows
        <3>2. CASE i \in ids /\ notices[i].user = session[c]
            BY <2>1, <3>1, <3>2 DEF NInv, FetchedWasSeen
        <3>3. CASE ~(i \in ids /\ notices[i].user = session[c])
            <4>1. notices'[i] = notices[i]
                BY <2>1, <2>5, <3>3
            <4> QED
                BY <2>1, <2>5, <2>6, <4>1 DEF NInv, ReadWasSeen
        <3> QED
            BY <3>2, <3>3
    <2>7. ReadWasSeen'
        BY <2>6 DEF ReadWasSeen
    <2> QED
        BY <1>0, <2>1, <2>5, <2>7 DEF NInv, NoticesTyped, LoginsPend, FetchedWasSeen, Ids
<1>5. ASSUME NEW event \in Events, Raise(event) PROVE NInv'
    <2>1. UNCHANGED <<users, logins, session, notices, fetched, seen, day, job>>
        BY <1>5 DEF Raise, staff
    <2>2. Cardinality(UsersOf(Others)) + 1 \in Nat
        <3>1. Len(users) \in Nat
            BY DEF NInv, UInv, UsersTyped
        <3>2. IsFiniteSet(UsersOf(Others))
            <4>1. IsFiniteSet(1..Len(users)) /\ UsersOf(Others) \subseteq 1..Len(users)
                BY <3>1, IntervalSize DEF UsersOf
            <4> QED
                BY <4>1, FS_Subset
        <3> QED
            BY <3>2, FS_CardinalityType
    <2>3. /\ Saveable(NotifyAllowSafe) /\ Saveable(NotifySafeCreated)
          /\ Saveable(NotifyNewTx) /\ Saveable(NotifyExecutableTx)
          /\ Saveable(NotifyBroadcastedTx) /\ Saveable(NotifyDeletedTx)
        BY <2>2, CallIsSaveable
        DEF NotifyAllowSafe, NotifySafeCreated, NotifyNewTx, NotifyExecutableTx,
            NotifyBroadcastedTx, NotifyDeletedTx
    <2>4. \A call \in calls' : Saveable(call)
        BY <1>5, <2>3 DEF Raise, Events, NInv, NoticesTyped
    <2> QED
        BY <1>0, <2>1, <2>4 DEF NInv, NoticesTyped, LoginsPend, FetchedWasSeen, ReadWasSeen, Ids
<1>6. ASSUME NEW call \in calls, Save(call) PROVE NInv'
    <2>1. /\ notices' = notices \o SetToSeq(call) /\ calls' \subseteq calls
          /\ UNCHANGED <<users, logins, session, fetched, seen, day, job>>
        BY <1>6 DEF Save, staff
    <2>2. notices' \in Seq(Rows) /\ ReadWasSeen'
        BY <2>1, AppendingUnread DEF NInv, NoticesTyped
    <2> QED
        BY <1>0, <2>1, <2>2 DEF NInv, NoticesTyped, LoginsPend, FetchedWasSeen, Ids
<1>7. CASE Midnight
    <2>1. job' \in Jobs /\ day' \in Nat
        <3>1. Len(users) \in Nat
            BY DEF NInv, UInv, UsersTyped
        <3> QED
            BY <1>7, <3>1, MidnightJob DEF Midnight, NInv, NoticesTyped
    <2>2. UNCHANGED <<users, logins, session, notices, calls, fetched, seen>>
        BY <1>7 DEF Midnight, staff, desk
    <2> QED
        BY <1>0, <2>1, <2>2 DEF NInv, NoticesTyped, LoginsPend, FetchedWasSeen, ReadWasSeen, Ids
<1>8. CASE ReadProposals \/ ReadUsers
    <2>1. UNCHANGED <<users, logins, session, notices, calls, fetched, seen, day>>
        BY <1>8 DEF ReadProposals, ReadUsers, staff, desk
    <2>2. CASE ReadProposals
        <3>1. PICK missing \in SUBSET Chains, found \in SUBSET Proposals, pc \in {"done", "read"} :
                  job' = [job EXCEPT !.pc = pc, !.proposals = found, !.missing = missing]
            <4>1. PICK missing \in SUBSET Chains :
                    LET found == {p \in Proposals : InVoting(p) /\ p.chain \notin missing}
                    IN  job' = [job EXCEPT !.pc = IF found = {} THEN "done" ELSE "read",
                                           !.proposals = found, !.missing = missing]
                BY <2>2 DEF ReadProposals
            <4> DEFINE found == {p \in Proposals : InVoting(p) /\ p.chain \notin missing}
                       pc == IF found = {} THEN "done" ELSE "read"
            <4>2. found \in SUBSET Proposals /\ pc \in {"done", "read"}
                OBVIOUS
            <4> HIDE DEF found
            <4> QED
                BY <4>1, <4>2 DEF found
        <3>2. job' \in Jobs
            BY <3>1 DEF NInv, NoticesTyped, Jobs
        <3> QED
            BY <1>0, <2>1, <3>2 DEF NInv, NoticesTyped, LoginsPend, FetchedWasSeen, ReadWasSeen, Ids
    <2>3. CASE ReadUsers
        <3>1. job' \in Jobs
            <4>1. Len(users) \in Nat
                BY DEF NInv, UInv, UsersTyped
            <4>2. job' = [job EXCEPT !.pc = "save", !.users = Len(users)] /\ job \in Jobs
                BY <2>3 DEF ReadUsers, NInv, NoticesTyped
            <4> QED
                BY <4>1, <4>2 DEF Jobs
        <3> QED
            BY <1>0, <2>1, <3>1 DEF NInv, NoticesTyped, LoginsPend, FetchedWasSeen, ReadWasSeen, Ids
    <2> QED
        BY <1>8, <2>2, <2>3
<1>9. ASSUME NEW p \in Proposals, SaveProposal(p) PROVE NInv'
    <2>1. /\ notices' = notices \o SetToSeq(Announcements(p))
          /\ UNCHANGED <<users, logins, session, calls, fetched, seen, day>>
        BY <1>9 DEF SaveProposal, staff
    <2>2. notices' \in Seq(Rows) /\ ReadWasSeen'
        BY <2>1, AnnouncementsAreSaveable, AppendingUnread
    <2>3. job' \in Jobs
        <3>1. PICK pc \in {"done", "save"} :
                  job' = [job EXCEPT !.pc = pc, !.proposals = @ \ {p}]
            BY <1>9 DEF SaveProposal
        <3> QED
            BY <3>1 DEF NInv, NoticesTyped, Jobs
    <2> QED
        BY <1>0, <2>1, <2>2, <2>3 DEF NInv, NoticesTyped, LoginsPend, FetchedWasSeen, Ids
<1>10. CASE UNCHANGED vars
    BY <1>0, <1>10 DEF vars, NInv, NoticesTyped, LoginsPend, FetchedWasSeen, ReadWasSeen, Ids
<1> QED
    BY <1>1, <1>2, <1>3, <1>4, <1>5, <1>6, <1>7, <1>8, <1>9, <1>10 DEF Next

\* For any finite number of clients: no interleaving of events, jobs,
\* lists and marks makes a notice read that its user was never shown.
THEOREM ReadWasSeenAlways ==
    ASSUME IsFiniteSet(Clients)
    PROVE  Spec => []ReadWasSeen
<1>1. NInv /\ [Next]_vars => NInv'
    BY NextNInv, IsFiniteSet(Clients)
<1>2. NInv => ReadWasSeen
    BY DEF NInv
<1> QED
    BY <1>1, <1>2, InitNInv, PTL DEF Spec

-----------------------------------------------------------------------------
(* The daily job. *)

\* A saved set is appended without repetition.
LEMMA SetToSeqIsBijection ==
    ASSUME NEW S, IsFiniteSet(S)
    PROVE  /\ Len(SetToSeq(S)) \in Nat
           /\ \A n \in S : \E i \in 1..Len(SetToSeq(S)) : SetToSeq(S)[i] = n
           /\ \A i, j \in 1..Len(SetToSeq(S)) : SetToSeq(S)[i] = SetToSeq(S)[j] => i = j
<1> DEFINE N == Cardinality(S)
           q == SetToSeq(S)
<1>1. N \in Nat /\ ExistsBijection(1..N, S)
    BY FS_CardinalityType
<1>2. PICK f : f \in Bijection(1..N, S)
    BY <1>1 DEF ExistsBijection
<1>3. f \in [1..N -> S] /\ IsInjective(f)
    BY <1>2 DEF Bijection, Injection, IsInjective
<1>4. q \in [1..N -> S] /\ IsInjective(q)
    BY <1>3 DEF SetToSeq
<1>5. IsFiniteSet(1..N) /\ Cardinality(1..N) = N
    BY <1>1, IntervalSize
<1>6. q \in Injection(1..N, S)
    BY <1>4 DEF Injection, IsInjective
<1>7. q \in Surjection(1..N, S)
    BY <1>5, <1>6, FS_Injection
<1>8. Len(q) = N
    BY <1>1, <1>4
<1> QED
    BY <1>1, <1>4, <1>7, <1>8 DEF Surjection, IsInjective

About(p) == [proposal |-> p.id, chain |-> p.chain]
Tells(n, u, p) ==
    /\ n.user = u /\ n.on = day
    /\ n.event = "START_VOTING_PERIOD" /\ n.subject = About(p)
Told(u, p) == {i \in 1..Len(notices) : Tells(notices[i], u, p)}
Once(u, p) == \E i \in 1..Len(notices) : Told(u, p) = {i}

\* The proposals the job of this day is to announce.
Open == {p \in Proposals : InVoting(p) /\ p.chain \notin job.missing}

\* Handlers announce no proposal, and nothing was written on a later day.
HandlersTellOther ==
    /\ \A i \in 1..Len(notices) : notices[i].on \in 0..day
    /\ \A call \in calls : \A n \in call : n.on \in 0..day /\ n.event # "START_VOTING_PERIOD"
\* Before the job saves, nothing is announced on its day.
NotYetTold ==
    /\ job.pc \in {"due", "read"} =>
           \A i \in 1..Len(notices) : notices[i].event = "START_VOTING_PERIOD" => notices[i].on # day
    /\ job.pc = "read" => job.proposals = Open
\* What is still to be saved is not announced, and what is not is, once.
ToldOrToBe ==
    job.pc \in {"save", "done"} /\ day > 0 =>
        /\ job.proposals \subseteq Open
        /\ job.pc = "done" => job.proposals = {}
        /\ \A p \in job.proposals : \A u \in 1..job.users : Told(u, p) = {}
        /\ \A p \in Open \ job.proposals : \A u \in 1..job.users : Once(u, p)

JInv == NInv /\ HandlersTellOther /\ NotYetTold /\ ToldOrToBe

LEMMA InitJInv == Init => JInv
    BY InitNInv DEF Init, JInv, JobDue, HandlersTellOther, NotYetTold, ToldOrToBe

\* A step that changes no notice but perhaps its status announces nothing.
LEMMA SameTold ==
    ASSUME UNCHANGED day, Len(notices') = Len(notices),
           \A i \in 1..Len(notices) :
               /\ notices'[i].user = notices[i].user /\ notices'[i].on = notices[i].on
               /\ notices'[i].event = notices[i].event
               /\ notices'[i].subject = notices[i].subject,
           NEW u, NEW p
    PROVE  Told(u, p)' = Told(u, p) /\ (Once(u, p) => Once(u, p)')
    BY DEF Told, Tells, Once

LEMMA SameJob ==
    ASSUME JInv, UNCHANGED <<day, job>>, Len(notices') = Len(notices),
           \A i \in 1..Len(notices) :
               /\ notices'[i].user = notices[i].user /\ notices'[i].on = notices[i].on
               /\ notices'[i].event = notices[i].event
               /\ notices'[i].subject = notices[i].subject
    PROVE  NotYetTold' /\ ToldOrToBe' /\ \A i \in 1..Len(notices') : notices'[i].on \in 0..day'
<1>1. \A u, p : Told(u, p)' = Told(u, p) /\ (Once(u, p) => Once(u, p)')
    BY SameTold
<1>2. Open' = Open
    BY DEF Open, InVoting
<1>3. NotYetTold'
    BY <1>2 DEF JInv, NotYetTold
<1>4. ToldOrToBe'
    BY <1>1, <1>2 DEF JInv, ToldOrToBe
<1> QED
    BY <1>3, <1>4 DEF JInv, HandlersTellOther

\* What is appended is what is announced.
LEMMA Appended ==
    ASSUME NInv, NEW S, Saveable(S), notices' = notices \o SetToSeq(S), UNCHANGED day
    PROVE  /\ \A i \in 1..Len(notices') :
                  \/ i \in 1..Len(notices) /\ notices'[i] = notices[i]
                  \/ i \notin 1..Len(notices) /\ notices'[i] \in S
           /\ \A u, p : (\A n \in S : ~Tells(n, u, p)) =>
                  Told(u, p)' = Told(u, p) /\ (Once(u, p) => Once(u, p)')
           /\ \A u, p : \A m \in S :
                  /\ Tells(m, u, p) /\ (\A n \in S : Tells(n, u, p) => n = m)
                  /\ Told(u, p) = {}
                  => Once(u, p)'
<1> DEFINE q == SetToSeq(S)
           L == Len(notices)
<1>1. notices \in Seq(Rows) /\ L \in Nat
    BY DEF NInv, NoticesTyped
<1>2. q \in Seq(S) /\ IsFiniteSet(S)
    BY SetToSeqIsSeq DEF Saveable
<1>3. /\ Len(q) \in Nat
      /\ \A n \in S : \E i \in 1..Len(q) : q[i] = n
      /\ \A i, j \in 1..Len(q) : q[i] = q[j] => i = j
    BY <1>2, SetToSeqIsBijection
<1> HIDE DEF q
<1>4. /\ Len(notices') = L + Len(q)
      /\ \A i \in 1..L : notices'[i] = notices[i]
      /\ \A i \in 1..Len(q) : notices'[L + i] = q[i]
      /\ \A i \in 1..Len(q) : q[i] \in S
    BY <1>1, <1>2 DEF q
<1>5. \A i \in 1..Len(notices') : i \in 1..L \/ \E j \in 1..Len(q) : i = L + j
    <2>1. ASSUME NEW i \in 1..Len(notices'), i \notin 1..L PROVE \E j \in 1..Len(q) : i = L + j
        <3>1. i - L \in 1..Len(q) /\ i = L + (i - L)
            BY <1>1, <1>3, <1>4, <2>1
        <3> QED
            BY <3>1
    <2> QED
        BY <2>1
<1>6. \A i \in 1..Len(notices') :
          \/ i \in 1..L /\ notices'[i] = notices[i]
          \/ i \notin 1..L /\ notices'[i] \in S
    <2>1. ASSUME NEW i \in 1..Len(notices'), i \notin 1..L PROVE notices'[i] \in S
        <3>1. PICK j \in 1..Len(q) : i = L + j
            BY <1>5, <2>1
        <3> QED
            BY <1>4, <3>1
    <2> QED
        BY <1>4, <2>1
<1>7. \A n, u, p : Tells(n, u, p)' <=> Tells(n, u, p)
    BY DEF Tells
<1>8. 1..L \subseteq 1..Len(notices')
    BY <1>1, <1>3, <1>4
<1>9. ASSUME NEW u, NEW p, \A n \in S : ~Tells(n, u, p)
      PROVE  Told(u, p)' = Told(u, p) /\ (Once(u, p) => Once(u, p)')
    <2>1. Told(u, p)' = Told(u, p)
        BY <1>6, <1>8, <1>9 DEF Told, Tells
    <2> QED
        BY <1>8, <2>1 DEF Once
<1>10. ASSUME NEW u, NEW p, NEW m \in S, Tells(m, u, p), \A n \in S : Tells(n, u, p) => n = m,
              Told(u, p) = {}
       PROVE  Once(u, p)'
    <2>1. PICK j \in 1..Len(q) : q[j] = m
        BY <1>3
    <2>2. L + j \in 1..Len(notices') /\ notices'[L + j] = m /\ L + j \notin 1..L
        BY <1>1, <1>3, <1>4, <2>1
    <2>3. ASSUME NEW i \in 1..Len(notices'), Tells(notices'[i], u, p) PROVE i = L + j
        <3>1. i \notin 1..L
            BY <1>4, <1>10, <2>3 DEF Told
        <3>2. PICK k \in 1..Len(q) : i = L + k
            BY <1>5, <3>1
        <3>3. q[k] = m
            BY <1>4, <1>10, <2>3, <3>2
        <3> QED
            BY <1>3, <2>1, <3>2, <3>3
    <2>4. Told(u, p)' = {L + j}
        BY <1>10, <2>2, <2>3 DEF Told, Tells
    <2> QED
        BY <2>2, <2>4 DEF Once
<1> QED
    BY <1>6, <1>9, <1>10

\* A handler's call tells nothing of proposals.
LEMMA SavingACall ==
    ASSUME JInv, NEW call \in calls, Save(call)
    PROVE  HandlersTellOther' /\ NotYetTold' /\ ToldOrToBe'
<1>1. /\ notices' = notices \o SetToSeq(call) /\ calls' \subseteq calls
      /\ UNCHANGED <<day, job>> /\ Saveable(call)
    BY DEF Save, staff, JInv, NInv, NoticesTyped
<1>2. \A n \in call : n.on \in 0..day /\ n.event # "START_VOTING_PERIOD"
    BY DEF JInv, HandlersTellOther
<1>3. \A i \in 1..Len(notices') :
          \/ i \in 1..Len(notices) /\ notices'[i] = notices[i]
          \/ i \notin 1..Len(notices) /\ notices'[i] \in call
    BY <1>1, Appended DEF JInv
<1>4. \A u, p : \A n \in call : ~Tells(n, u, p)
    BY <1>2 DEF Tells
<1>5. \A u, p : Told(u, p)' = Told(u, p) /\ (Once(u, p) => Once(u, p)')
    BY <1>1, <1>4, Appended DEF JInv
<1>6. Open' = Open
    BY <1>1 DEF Open, InVoting
<1>7. HandlersTellOther'
    BY <1>1, <1>2, <1>3 DEF JInv, HandlersTellOther
<1>8. NotYetTold'
    BY <1>1, <1>2, <1>3, <1>6 DEF JInv, NotYetTold
<1>9. ToldOrToBe'
    BY <1>1, <1>5, <1>6 DEF JInv, ToldOrToBe
<1> QED
    BY <1>7, <1>8, <1>9

\* The announcement of a proposal tells each user once of it and of no other.
LEMMA SavingAProposal ==
    ASSUME ProposalsAreNumbered, JInv, NEW p \in Proposals, SaveProposal(p)
    PROVE  HandlersTellOther' /\ NotYetTold' /\ ToldOrToBe'
<1> DEFINE S == Announcements(p)
<1>1. /\ notices' = notices \o SetToSeq(S) /\ UNCHANGED <<calls, day>> /\ Saveable(S)
      /\ job.pc = "save" /\ p \in job.proposals
      /\ job' = [job EXCEPT !.pc = IF job.proposals = {p} THEN "done" ELSE "save",
                            !.proposals = @ \ {p}]
    BY AnnouncementsAreSaveable DEF SaveProposal, staff, JInv
<1>2. /\ job \in Jobs /\ day \in Nat
    BY DEF JInv, NInv, NoticesTyped
<1>3. /\ job'.proposals = job.proposals \ {p} /\ job'.users = job.users
      /\ job'.missing = job.missing /\ job'.pc \in {"save", "done"}
      /\ job'.pc = "done" => job'.proposals = {}
    BY <1>1, <1>2 DEF Jobs
<1>4. \A n \in S : n.on = day /\ \E u \in 1..job.users : n = NewProposal(u, p)
    BY DEF Announcements, NewProposal, NewNotice
<1>5. \A u, q : \A n \in S : Tells(n, u, q) => About(q) = About(p) /\ n = NewProposal(u, p)
    BY DEF Announcements, NewProposal, NewNotice, Tells, About
<1>6. \A u \in 1..job.users : NewProposal(u, p) \in S /\ Tells(NewProposal(u, p), u, p)
    BY DEF Announcements, NewProposal, NewNotice, Tells, About
<1> HIDE DEF S
<1>7. \A q \in Proposals : About(q) = About(p) => q = p
    BY DEF About, ProposalsAreNumbered
<1>8. \A i \in 1..Len(notices') :
          \/ i \in 1..Len(notices) /\ notices'[i] = notices[i]
          \/ i \notin 1..Len(notices) /\ notices'[i] \in S
    BY <1>1, Appended DEF JInv
<1>9. Open' = Open
    BY <1>1, <1>3 DEF Open, InVoting
<1>10. HandlersTellOther'
    BY <1>1, <1>2, <1>4, <1>8 DEF JInv, HandlersTellOther
<1>11. ASSUME day > 0 PROVE ToldOrToBe'
    <2>1. /\ job.proposals \subseteq Open
          /\ \A q \in job.proposals : \A u \in 1..job.users : Told(u, q) = {}
          /\ \A q \in Open \ job.proposals : \A u \in 1..job.users : Once(u, q)
        BY <1>1, <1>11 DEF JInv, ToldOrToBe
    <2>2. ASSUME NEW q \in Proposals \ {p}, NEW u
          PROVE  Told(u, q)' = Told(u, q) /\ (Once(u, q) => Once(u, q)')
        <3>1. \A n \in S : ~Tells(n, u, q)
            BY <1>5, <1>7
        <3> QED
            BY <1>1, <3>1, Appended DEF JInv
    <2>3. ASSUME NEW u \in 1..job.users PROVE Once(u, p)'
        <3>1. NewProposal(u, p) \in S /\ Tells(NewProposal(u, p), u, p) /\ Told(u, p) = {}
            BY <1>1, <1>6, <2>1
        <3>2. \A n \in S : Tells(n, u, p) => n = NewProposal(u, p)
            BY <1>5
        <3> QED
            BY <1>1, <3>1, <3>2, Appended DEF JInv
    <2>4. \A q \in job'.proposals : \A u \in 1..job'.users : Told(u, q)' = {}
        BY <1>2, <1>3, <2>1, <2>2 DEF Jobs
    <2>5. \A q \in Open' \ job'.proposals : \A u \in 1..job'.users : Once(u, q)'
        BY <1>3, <1>9, <2>1, <2>2, <2>3 DEF Open
    <2> QED
        BY <1>3, <1>9, <2>1, <2>4, <2>5 DEF ToldOrToBe
<1>12. ToldOrToBe'
    BY <1>1, <1>11 DEF ToldOrToBe
<1> QED
    BY <1>3, <1>10, <1>12 DEF NotYetTold

LEMMA NextJInv ==
    ASSUME IsFiniteSet(Clients), ProposalsAreNumbered, JInv, [Next]_vars
    PROVE  JInv'
<1>0. NInv'
    BY NextNInv, IsFiniteSet(Clients) DEF JInv
<1>a. SUFFICES HandlersTellOther' /\ NotYetTold' /\ ToldOrToBe'
    BY <1>0 DEF JInv
<1>b. job \in Jobs /\ day \in Nat /\ notices \in Seq(Rows)
    BY DEF JInv, NInv, NoticesTyped
<1>c. ASSUME UNCHANGED <<notices, day, job>>
      PROVE  NotYetTold' /\ ToldOrToBe' /\ \A i \in 1..Len(notices') : notices'[i].on \in 0..day'
    BY <1>c, SameJob
<1>1. ASSUME UNCHANGED <<notices, calls, day, job>>
      PROVE  HandlersTellOther' /\ NotYetTold' /\ ToldOrToBe'
    BY <1>1, <1>c DEF JInv, HandlersTellOther
<1>2. ASSUME NEW c \in Clients, Auth(c) \/ CreateUser(c) \/ GetNotifications(c)
      PROVE  UNCHANGED <<notices, calls, day, job>>
    BY <1>2 DEF Auth, CreateUser, GetNotifications, desk
<1>3. ASSUME NEW c \in Clients, NEW ids \in SUBSET fetched[c], MarkAsRead(c, ids)
      PROVE  HandlersTellOther' /\ NotYetTold' /\ ToldOrToBe'
    <2>1. /\ notices' = [i \in 1..Len(notices) |->
                           IF i \in ids /\ notices[i].user = session[c]
                           THEN [notices[i] EXCEPT !.status = "READ"] ELSE notices[i]]
          /\ UNCHANGED <<calls, day, job>>
        BY <1>3 DEF MarkAsRead, staff
    <2>2. \A n \in Rows : LET m == [n EXCEPT !.status = "READ"]
                          IN  m.user = n.user /\ m.on = n.on /\ m.event = n.event /\ m.subject = n.subject
        BY DEF Rows
    <2>3. /\ Len(notices') = Len(notices)
          /\ \A i \in 1..Len(notices) :
                 /\ notices'[i].user = notices[i].user /\ notices'[i].on = notices[i].on
                 /\ notices'[i].event = notices[i].event
                 /\ notices'[i].subject = notices[i].subject
        BY <1>b, <2>1, <2>2
    <2> QED
        BY <2>1, <2>3, SameJob DEF JInv, HandlersTellOther
<1>4. ASSUME NEW event \in Events, Raise(event)
      PROVE  HandlersTellOther' /\ NotYetTold' /\ ToldOrToBe'
    <2>1. UNCHANGED <<notices, day, job>>
        BY <1>4 DEF Raise, staff
    <2>2. \A call \in calls' : call \in calls \/ \A n \in call : n.on = day /\ n.event \in Events
        BY <1>4 DEF Raise, Events, NotifyAllowSafe, NotifySafeCreated, NotifyNewTx,
                    NotifyExecutableTx, NotifyBroadcastedTx, NotifyDeletedTx,
                    NewWaitAllowSafe, NewSafeCreated, NewTx, NewTxExecutable,
                    NewTxBroadcasted, NewDeletedTx, NewNotice
    <2>3. HandlersTellOther'
        BY <1>b, <2>1, <2>2 DEF JInv, HandlersTellOther, Events
    <2> QED
        BY <1>c, <2>1, <2>3
<1>5. ASSUME NEW call \in calls, Save(call)
      PROVE  HandlersTellOther' /\ NotYetTold' /\ ToldOrToBe'
    BY <1>5, SavingACall
<1>6. CASE Midnight
    <2>1. /\ UNCHANGED <<notices, calls>> /\ day' = day + 1
          /\ job' = [JobDue EXCEPT !.users = Len(users)]
        BY <1>6 DEF Midnight, desk
    <2>2. job'.pc = "due"
        BY <2>1 DEF JobDue
    <2>3. HandlersTellOther' /\ \A i \in 1..Len(notices') : notices'[i].on # day'
        BY <1>b, <2>1 DEF JInv, HandlersTellOther
    <2> QED
        BY <2>2, <2>3 DEF NotYetTold, ToldOrToBe
<1>7. CASE ReadProposals
    <2>1. UNCHANGED <<notices, calls, day>> /\ job.pc = "due"
        BY <1>7 DEF ReadProposals, desk
    <2>2. PICK missing \in SUBSET Chains :
            LET found == {p \in Proposals : InVoting(p) /\ p.chain \notin missing}
            IN  job' = [job EXCEPT !.pc = IF found = {} THEN "done" ELSE "read",
                                   !.proposals = found, !.missing = missing]
        BY <1>7 DEF ReadProposals
    <2> DEFINE found == {p \in Proposals : InVoting(p) /\ p.chain \notin missing}
    <2>3. /\ job'.proposals = found /\ job'.missing = missing
          /\ job'.pc = IF found = {} THEN "done" ELSE "read"
        BY <1>b, <2>2 DEF Jobs
    <2>4. Open' = found
        BY <2>1, <2>3 DEF Open, InVoting
    <2> HIDE DEF found
    <2>5. NotYetTold'
        BY <2>1, <2>3, <2>4 DEF JInv, NotYetTold
    <2>6. ToldOrToBe'
        BY <2>3, <2>4 DEF ToldOrToBe
    <2>7. HandlersTellOther'
        BY <2>1 DEF JInv, HandlersTellOther
    <2> QED
        BY <2>5, <2>6, <2>7
<1>8. CASE ReadUsers
    <2>1. /\ UNCHANGED <<notices, calls, day>> /\ job.pc = "read"
          /\ job' = [job EXCEPT !.pc = "save", !.users = Len(users)]
        BY <1>8 DEF ReadUsers, desk
    <2>2. /\ job'.proposals = job.proposals /\ job'.missing = job.missing /\ job'.pc = "save"
        BY <1>b, <2>1 DEF Jobs
    <2>3. Open' = Open /\ job.proposals = Open
        BY <2>1, <2>2 DEF Open, InVoting, JInv, NotYetTold
    <2>4. \A u, p : Told(u, p)' = {}
        BY <2>1 DEF JInv, NotYetTold, Told, Tells
    <2>5. ToldOrToBe'
        BY <2>2, <2>3, <2>4 DEF ToldOrToBe
    <2>6. HandlersTellOther'
        BY <2>1 DEF JInv, HandlersTellOther
    <2> QED
        BY <2>2, <2>5, <2>6 DEF NotYetTold
<1>9. ASSUME NEW p \in Proposals, SaveProposal(p)
      PROVE  HandlersTellOther' /\ NotYetTold' /\ ToldOrToBe'
    BY <1>9, SavingAProposal
<1>10. CASE UNCHANGED vars
    BY <1>1, <1>10 DEF vars
<1> QED
    BY <1>1, <1>2, <1>3, <1>4, <1>5, <1>6, <1>7, <1>8, <1>9, <1>10 DEF Next

LEMMA JInvAnnounces ==
    ASSUME JInv
    PROVE  VotingIsAnnounced
<1> SUFFICES ASSUME job.pc = "done", day > 0, NEW u \in 1..job.users, NEW p \in Proposals,
                    p.start < day, day < p.end, p.chain \notin job.missing
             PROVE  Cardinality(Told(u, p)) = 1
    BY DEF VotingIsAnnounced, Told, Tells, About
<1>1. day \in Nat
    BY DEF JInv, NInv, NoticesTyped
<1>2. Once(u, p)
    BY <1>1 DEF JInv, ToldOrToBe, Open, InVoting
<1>3. PICK i : Told(u, p) = {i}
    BY <1>2 DEF Once
<1> QED
    BY <1>3, FS_Singleton

\* For any finite number of clients, any owners and any proposals, numbered per chain:
\* when the job of a day is done, each owner it found among the users has one notice of
\* the day for each proposal in voting on the chain of the safe, if that answered, and
\* no user has two of any proposal, however handlers, logins and marks interleave with
\* its saves.
THEOREM VotingIsAnnouncedAlways ==
    ASSUME IsFiniteSet(Clients), ProposalsAreNumbered
    PROVE  Spec => []VotingIsAnnounced
<1>0. Init => JInv
    BY InitJInv
<1>1. JInv /\ [Next]_vars => JInv'
    BY NextJInv, IsFiniteSet(Clients), ProposalsAreNumbered
<1>2. JInv => VotingIsAnnounced
    BY JInvAnnounces
<1> QED
    BY <1>0, <1>1, <1>2, PTL DEF Spec
-----------------------------------------------------------------------------
(* Types.  Rows of Notification are for users that exist when they are made, and *)
(* users are never removed.                                                      *)

HeldOK ==
    /\ logins \subseteq Clients /\ raised \subseteq Events /\ day \in 0..LastDay
    /\ \A call \in calls : \A n \in call : n.user \in 1..Len(users)
    /\ job.users \in 0..Len(users)
    /\ \A i \in 1..Len(notices) : notices[i].user \in 1..Len(users)
    /\ \A c \in Clients : fetched[c] \subseteq 1..Len(notices)

HInv == JInv /\ HeldOK

LEMMA InitHInv ==
    ASSUME LastDay \in Nat
    PROVE  Init => HInv
    BY InitJInv, LastDay \in Nat DEF Init, HInv, HeldOK, JobDue

LEMMA UsersGrow ==
    ASSUME UInv, [Next]_vars
    PROVE  Len(users) \in Nat /\ Len(users') \in Nat /\ Len(users) <= Len(users')
<1>1. users \in Seq(Addresses)
    BY DEF UInv, UsersTyped
<1>2. users' = users \/ \E a : users' = Append(users, a)
    BY UsersChange DEF UsersStep, LogsIn, Registers
<1>3. \A a : Len(Append(users, a)) = Len(users) + 1
    BY <1>1
<1> QED
    BY <1>1, <1>2, <1>3

LEMMA AppendedFrom ==
    ASSUME NInv, NEW S, Saveable(S), notices' = notices \o SetToSeq(S)
    PROVE  /\ Len(notices) \in Nat /\ Len(notices') \in Nat /\ Len(notices) <= Len(notices')
           /\ \A i \in 1..Len(notices') :
                  (i \in 1..Len(notices) /\ notices'[i] = notices[i]) \/ notices'[i] \in S
<1>1. SetToSeq(S) \in Seq(S)
    BY SetToSeqIsSeq DEF Saveable
<1>2. notices \in Seq(Rows)
    BY DEF NInv, NoticesTyped
<1> HIDE DEF NInv, Saveable
<1>3. ASSUME NEW i \in 1..Len(notices'), i \notin 1..Len(notices) PROVE notices'[i] \in S
    <2>1. /\ notices'[i] = SetToSeq(S)[i - Len(notices)]
          /\ i - Len(notices) \in 1..Len(SetToSeq(S))
        BY <1>1, <1>2, <1>3
    <2> QED
        BY <1>1, <2>1
<1>4. /\ Len(notices) \in Nat /\ Len(notices') \in Nat /\ Len(notices) <= Len(notices')
      /\ \A i \in 1..Len(notices) : notices'[i] = notices[i]
    BY <1>1, <1>2
<1> QED
    BY <1>3, <1>4

\* What the notify methods are about to save is for users that exist.
LEMMA RaisedForUsers ==
    ASSUME NEW event \in Events, Raise(event), NEW call \in calls' \ calls, NEW n \in call
    PROVE  n.user \in 1..Len(users)
<1>1. calls' = calls \union {NotifyAllowSafe} \/ calls' = calls \union {NotifySafeCreated}
      \/ calls' = calls \union {NotifyNewTx} \/ calls' = calls \union {NotifyExecutableTx}
      \/ calls' = calls \union {NotifyBroadcastedTx} \/ calls' = calls \union {NotifyDeletedTx}
    BY DEF Raise, Events
<1>2. \/ call = NotifyAllowSafe \/ call = NotifySafeCreated \/ call = NotifyNewTx
      \/ call = NotifyExecutableTx \/ call = NotifyBroadcastedTx \/ call = NotifyDeletedTx
    BY <1>1
<1>3. \E u \in UsersOf(Others) \union UsersOf(SafeOwners) : n.user = u
    BY <1>2
    DEF NotifyAllowSafe, NotifySafeCreated, NotifyNewTx, NotifyExecutableTx, NotifyBroadcastedTx,
        NotifyDeletedTx, NewWaitAllowSafe, NewSafeCreated, NewTx, NewTxExecutable,
        NewTxBroadcasted, NewDeletedTx, NewNotice
<1> QED
    BY <1>3 DEF UsersOf

LEMMA NextHeld ==
    ASSUME IsFiniteSet(Clients), LastDay \in Nat
    PROVE  HInv /\ [Next]_vars => HeldOK'
<1> SUFFICES ASSUME HInv, [Next]_vars PROVE HeldOK'
    OBVIOUS
<1>0. /\ NInv /\ UInv /\ HeldOK /\ day \in Nat /\ job \in Jobs /\ notices \in Seq(Rows)
      /\ fetched \in [Clients -> SUBSET Nat]
    BY DEF HInv, JInv, NInv, NoticesTyped
<1>1. Len(users) \in Nat /\ Len(users') \in Nat /\ Len(users) <= Len(users')
    BY <1>0, UsersGrow
<1>2. 1..Len(users) \subseteq 1..Len(users') /\ 0..Len(users) \subseteq 0..Len(users')
    BY <1>1
<1>3. ASSUME NEW c \in Clients, Auth(c) \/ CreateUser(c) PROVE HeldOK'
    <2>1. UNCHANGED <<notices, calls, raised, fetched, seen, day, job>> /\ logins' \subseteq Clients
        BY <1>0, <1>3 DEF Auth, CreateUser, desk, HeldOK
    <2> QED
        BY <1>0, <1>2, <2>1 DEF HeldOK
<1>4. ASSUME NEW c \in Clients, GetNotifications(c) PROVE HeldOK'
    <2>1. PICK mine \in SUBSET (1..Len(notices)) :
              /\ fetched' = [fetched EXCEPT ![c] = mine]
              /\ UNCHANGED <<staff, notices, calls, raised, day, job>>
        BY <1>4 DEF GetNotifications
    <2>2. \A d \in Clients : fetched'[d] \subseteq 1..Len(notices)
        BY <1>0, <2>1 DEF HeldOK
    <2> QED
        BY <1>0, <2>1, <2>2 DEF HeldOK, staff
<1>5. ASSUME NEW c \in Clients, NEW ids \in SUBSET fetched[c], MarkAsRead(c, ids) PROVE HeldOK'
    <2>1. UNCHANGED <<staff, calls, raised, fetched, seen, day, job>>
        BY <1>5 DEF MarkAsRead
    <2>2. Len(notices') = Len(notices) /\ \A i \in 1..Len(notices) : notices'[i].user = notices[i].user
        BY <1>0, <1>5 DEF MarkAsRead, Rows
    <2> QED
        BY <1>0, <2>1, <2>2 DEF HeldOK, staff
<1>6. ASSUME NEW event \in Events, Raise(event) PROVE HeldOK'
    <2>1. UNCHANGED <<staff, notices, fetched, seen, day, job>> /\ raised' = raised \union {event}
        BY <1>6 DEF Raise
    <2>2. \A call \in calls' : \A n \in call : n.user \in 1..Len(users)
        BY <1>0, <1>6, RaisedForUsers DEF HeldOK
    <2> QED
        BY <1>0, <2>1, <2>2 DEF HeldOK, staff
<1>7. ASSUME NEW call \in calls, Save(call) PROVE HeldOK'
    <2>1. /\ notices' = notices \o SetToSeq(call) /\ calls' \subseteq calls
          /\ UNCHANGED <<staff, raised, fetched, seen, day, job>>
        BY <1>7 DEF Save
    <2>2. Saveable(call)
        BY <1>0 DEF NInv, NoticesTyped
    <2>3. /\ Len(notices) \in Nat /\ Len(notices') \in Nat /\ Len(notices) <= Len(notices')
          /\ \A i \in 1..Len(notices') :
                 (i \in 1..Len(notices) /\ notices'[i] = notices[i]) \/ notices'[i] \in call
        BY <1>0, <2>1, <2>2, AppendedFrom
    <2>4. 1..Len(notices) \subseteq 1..Len(notices')
        BY <2>3
    <2>5. \A i \in 1..Len(notices') : notices'[i].user \in 1..Len(users)
        BY <1>0, <2>3 DEF HeldOK
    <2> QED
        BY <1>0, <2>1, <2>4, <2>5 DEF HeldOK, staff
<1>8. CASE Midnight
    <2>1. /\ day' = day + 1 /\ day < LastDay /\ job' = [JobDue EXCEPT !.users = Len(users)]
          /\ UNCHANGED <<staff, desk>>
        BY <1>8 DEF Midnight
    <2>2. job'.users = Len(users) /\ day' \in 0..LastDay
        BY <1>0, <2>1, LastDay \in Nat DEF JobDue
    <2> QED
        BY <1>0, <1>1, <2>1, <2>2 DEF HeldOK, staff, desk
<1>9. CASE ReadProposals \/ ReadUsers
    <2>1. UNCHANGED <<staff, desk, day>>
        BY <1>9 DEF ReadProposals, ReadUsers
    <2>2. job'.users = job.users \/ job'.users = Len(users)
        BY <1>0, <1>9 DEF ReadProposals, ReadUsers, Jobs
    <2>3. job'.users \in 0..Len(users)
        BY <1>0, <1>1, <2>2 DEF HeldOK
    <2> QED
        BY <1>0, <2>1, <2>3 DEF HeldOK, staff, desk
<1>10. ASSUME NEW p \in Proposals, SaveProposal(p) PROVE HeldOK'
    <2>1. /\ notices' = notices \o SetToSeq(Announcements(p))
          /\ UNCHANGED <<staff, calls, raised, fetched, seen, day>>
        BY <1>10 DEF SaveProposal
    <2>2. job'.users = job.users
        BY <1>0, <1>10 DEF SaveProposal, Jobs
    <2>3. Saveable(Announcements(p))
        BY <1>0, AnnouncementsAreSaveable
    <2>4. /\ Len(notices) \in Nat /\ Len(notices') \in Nat /\ Len(notices) <= Len(notices')
          /\ \A i \in 1..Len(notices') :
                 (i \in 1..Len(notices) /\ notices'[i] = notices[i]) \/ notices'[i] \in Announcements(p)
        BY <1>0, <2>1, <2>3, AppendedFrom
    <2>5. \A n \in Announcements(p) : n.user \in 1..Len(users)
        <3>1. 1..job.users \subseteq 1..Len(users)
            BY <1>0, <1>1 DEF HeldOK
        <3> QED
            BY <3>1 DEF Announcements, NewProposal, NewNotice
    <2>6. 1..Len(notices) \subseteq 1..Len(notices')
        BY <2>4
    <2>7. \A i \in 1..Len(notices') : notices'[i].user \in 1..Len(users)
        BY <1>0, <2>4, <2>5 DEF HeldOK
    <2> QED
        BY <1>0, <2>1, <2>2, <2>6, <2>7 DEF HeldOK, staff
<1>11. CASE UNCHANGED vars
    BY <1>0, <1>11 DEF vars, HeldOK
<1> QED
    BY <1>3, <1>4, <1>5, <1>6, <1>7, <1>8, <1>9, <1>10, <1>11 DEF Next

LEMMA NextHInv ==
    ASSUME IsFiniteSet(Clients), LastDay \in Nat, ProposalsAreNumbered
    PROVE  HInv /\ [Next]_vars => HInv'
    BY NextHeld, NextJInv, IsFiniteSet(Clients), LastDay \in Nat, ProposalsAreNumbered DEF HInv

LEMMA HInvTyped ==
    ASSUME IsFiniteSet(Clients), HInv
    PROVE  TypeOK
<1>1. /\ NInv /\ UInv /\ HeldOK /\ job \in Jobs /\ notices \in Seq(Rows)
      /\ fetched \in [Clients -> SUBSET Nat]
    BY DEF HInv, JInv, NInv, NoticesTyped
<1>2. Len(users) \in Nat /\ Cardinality(Clients) \in Nat /\ Len(users) <= Cardinality(Clients)
    BY <1>1, FewUsers, FS_CardinalityType, IsFiniteSet(Clients) DEF UInv, UsersTyped
<1>3. 1..Len(users) \subseteq Ids
    BY <1>2 DEF Ids
<1>4. session \in [Clients -> Ids \union {0}]
    BY <1>1, <1>3 DEF UInv, UsersTyped
<1>5. \A j \in 1..Len(notices) : notices[j].user \in Ids /\ notices[j].status \in {"UNREAD", "READ"}
    <2>1. \A j \in 1..Len(notices) : notices[j] \in Rows
        BY <1>1
    <2> QED
        BY <1>1, <1>3, <2>1 DEF HeldOK, Rows
<1>6. fetched \in [Clients -> SUBSET (1..Len(notices))]
    BY <1>1 DEF HeldOK
<1>7. job.pc \in {"due", "read", "save", "done"} /\ job.proposals \subseteq Proposals
    BY <1>1 DEF Jobs
<1> QED
    BY <1>1, <1>4, <1>5, <1>6, <1>7 DEF TypeOK, HeldOK, UInv, UsersTyped, Addresses
=============================================================================

--------------------------- MODULE Notifications ---------------------------
(***************************************************************************)
(* Users who log in, the notices the handlers and the daily job write for  *)
(* them, and the clients that list notices and mark them as read.          *)
(*                                                                         *)
(* auth and the notify methods look something up and save in a later       *)
(* await; a client marks the ids of the list it fetched last.  Of the      *)
(* handlers there is only what they notify: events of one safe, each       *)
(* raised once, in any order.                                              *)
(***************************************************************************)
EXTENDS Naturals, FiniteSets, Sequences, SequencesExt

CONSTANTS
    Clients,        \* browsers
    AddressOf,      \* the address each client logs in with
    SafeOwners,     \* addresses in table SafeOwner, users or not
    Creator,        \* the owner who created the safe and the transaction
    SafeChain,      \* the chain of the safe
    Chains,         \* supported chains
    Proposals,      \* [id, chain, start, end] of all chains, in days
    LastDay,        \* bound on the days
    MaxRaised       \* bound on the events

VARIABLES
    users,          \* table User: addresses in the order of their ids
    logins,         \* clients whose auth has not found the address
    session,        \* the user id in each client's token, 0 before login
    notices,        \* table Notification in the order of the ids
    calls,          \* notify calls that have read the users
    raised,         \* events whose handler ran
    fetched,        \* ids in the list each client fetched last
    seen,           \* history: the ids each user was ever shown
    day,            \* of new Date()
    job             \* the run of handleCron on this day

vars == <<users, logins, session, notices, calls, raised, fetched, seen, day, job>>
desk == <<notices, calls, raised, fetched, seen>>
staff == <<users, logins, session>>

Events == {"WAIT_ALLOW_SAFE", "SAFE_CREATED", "WAIT_CONFIRM_TX",
           "WAIT_EXECUTE_TX", "TX_BROADCASTED", "TX_DELETED"}
Ids == 1..Cardinality(Clients)

\* A chain numbers its proposals.
ProposalsAreNumbered ==
    \A p, q \in Proposals : p.id = q.id /\ p.chain = q.chain => p = q

JobDue == [pc |-> "due", proposals |-> {}, users |-> 0, missing |-> {}]

TypeOK ==
    /\ users \in Seq({AddressOf[c] : c \in Clients})
    /\ logins \subseteq Clients
    /\ session \in [Clients -> Ids \union {0}]
    /\ \A i \in 1..Len(notices) :
           notices[i].user \in Ids /\ notices[i].status \in {"UNREAD", "READ"}
    /\ raised \subseteq Events
    /\ fetched \in [Clients -> SUBSET (1..Len(notices))]
    /\ day \in 0..LastDay
    /\ job.pc \in {"due", "read", "save", "done"} /\ job.proposals \subseteq Proposals

Init ==
    /\ users = <<>>
    /\ logins = {}
    /\ session = [c \in Clients |-> 0]
    /\ notices = <<>>
    /\ calls = {}
    /\ raised = {}
    /\ fetched = [c \in Clients |-> {}]
    /\ seen = [u \in Ids |-> {}]
    /\ day = 0
    /\ job = [JobDue EXCEPT !.pc = "done"]

-----------------------------------------------------------------------------
(* auth, once its signature is verified. *)

IdOf(address) == CHOOSE i \in 1..Len(users) : users[i] = address
Known(address) == Contains(users, address)

\* createUserIfNotExists: findOne
Auth(c) ==
    /\ session[c] = 0 /\ c \notin logins
    /\ \/ /\ Known(AddressOf[c])
          /\ session' = [session EXCEPT ![c] = IdOf(AddressOf[c])]
          /\ UNCHANGED logins
       \/ /\ ~Known(AddressOf[c])
          /\ logins' = logins \union {c}
          /\ UNCHANGED session
    /\ UNCHANGED <<users, desk, day, job>>

MutantCreateUser(c) ==
    /\ c \in logins
    /\ logins' = logins \ {c}
    /\ users' = Append(users, AddressOf[c])
    /\ session' = [session EXCEPT ![c] = Len(users')]
    /\ UNCHANGED <<desk, day, job>>

\* ... and save, which the unique index of Address may refuse
CreateUser(c) ==
    /\ c \in logins
    /\ logins' = logins \ {c}
    /\ \/ Known(AddressOf[c]) /\ UNCHANGED <<users, session>>
       \/ /\ ~Known(AddressOf[c])
          /\ users' = Append(users, AddressOf[c])
          /\ session' = [session EXCEPT ![c] = Len(users')]
    /\ UNCHANGED <<desk, day, job>>

-----------------------------------------------------------------------------
(* The notices.  subject is what the builder stores of the event. *)

NewNotice(user, event, subject) ==
    [user |-> user, event |-> event, subject |-> subject, status |-> "UNREAD", on |-> day]

NewWaitAllowSafe(u, totalOwner) ==
    NewNotice(u, "WAIT_ALLOW_SAFE", [creator |-> Creator, totalOwner |-> totalOwner])
NewSafeCreated(u) == NewNotice(u, "SAFE_CREATED", [safe |-> 1])
NewTx(u, creator) == NewNotice(u, "WAIT_CONFIRM_TX", [txCreator |-> creator])
NewTxExecutable(u) == NewNotice(u, "WAIT_EXECUTE_TX", [safe |-> 1])
NewTxBroadcasted(u) == NewNotice(u, "TX_BROADCASTED", [safe |-> 1])
NewDeletedTx(u, creator) == NewNotice(u, "TX_DELETED", [txCreator |-> creator])
NewProposal(u, p) ==
    NewNotice(u, "START_VOTING_PERIOD", [proposal |-> p.id, chain |-> p.chain])

\* getUsersByListAddress
UsersOf(addresses) == {i \in 1..Len(users) : users[i] \in addresses}
Others == SafeOwners \ {Creator}

\* The notify methods: what each saves once it has read the users.
NotifyAllowSafe ==
    {NewWaitAllowSafe(u, Cardinality(UsersOf(Others)) + 1) : u \in UsersOf(Others)}
NotifySafeCreated == {NewSafeCreated(u) : u \in UsersOf(SafeOwners)}
NotifyNewTx == {NewTx(u, Creator) : u \in UsersOf(Others)}
NotifyExecutableTx == {NewTxExecutable(u) : u \in UsersOf(SafeOwners)}
NotifyBroadcastedTx == {NewTxBroadcasted(u) : u \in UsersOf(SafeOwners)}
NotifyDeletedTx == {NewDeletedTx(u, Creator) : u \in UsersOf(Others)}

Raise(event) ==
    /\ event \notin raised /\ Cardinality(raised) < MaxRaised
    /\ raised' = raised \union {event}
    /\ calls' = calls \union
         {CASE event = "WAIT_ALLOW_SAFE" -> NotifyAllowSafe
            [] event = "SAFE_CREATED" -> NotifySafeCreated
            [] event = "WAIT_CONFIRM_TX" -> NotifyNewTx
            [] event = "WAIT_EXECUTE_TX" -> NotifyExecutableTx
            [] event = "TX_BROADCASTED" -> NotifyBroadcastedTx
            [] event = "TX_DELETED" -> NotifyDeletedTx}
    /\ UNCHANGED <<staff, notices, fetched, seen, day, job>>

\* saveNotification, for an array that is not empty
Save(call) ==
    /\ call \in calls
    /\ calls' = calls \ {call}
    /\ notices' = notices \o SetToSeq(call)
    /\ UNCHANGED <<staff, raised, fetched, seen, day, job>>

\* getNotificationsByUser
GetNotifications(c) ==
    /\ session[c] # 0
    /\ LET mine == {i \in 1..Len(notices) : notices[i].user = session[c]}
       IN  /\ fetched' = [fetched EXCEPT ![c] = mine]
           /\ seen' = [seen EXCEPT ![session[c]] = @ \union mine]
    /\ UNCHANGED <<staff, notices, calls, raised, day, job>>

MutantMarkAsRead(c, ids) ==
    /\ session[c] # 0
    /\ ids # {} /\ ids \subseteq fetched[c]
    /\ notices' = [i \in 1..Len(notices) |->
                     IF notices[i].user = session[c]
                     THEN [notices[i] EXCEPT !.status = "READ"] ELSE notices[i]]
    /\ UNCHANGED <<staff, calls, raised, fetched, seen, day, job>>

\* markNotificationsAsRead
MarkAsRead(c, ids) ==
    /\ session[c] # 0
    /\ ids # {} /\ ids \subseteq fetched[c]
    /\ notices' = [i \in 1..Len(notices) |->
                     IF i \in ids /\ notices[i].user = session[c]
                     THEN [notices[i] EXCEPT !.status = "READ"] ELSE notices[i]]
    /\ UNCHANGED <<staff, calls, raised, fetched, seen, day, job>>

-----------------------------------------------------------------------------
(* handleCron.  job.users: users when the run started, then those it found;   *)
(* job.proposals: those to be saved.                                          *)

Midnight ==
    /\ job.pc = "done" /\ day < LastDay
    /\ day' = day + 1
    /\ job' = [JobDue EXCEPT !.users = Len(users)]
    /\ UNCHANGED <<staff, desk>>

MutantInVoting(p) == p.start < day /\ p.end > day + 1
InVoting(p) == p.start < day /\ p.end > day

\* getProposalsByChainId answers with none for a chain whose request fails.
ReadProposals ==
    /\ job.pc = "due"
    /\ \E missing \in SUBSET Chains :
         LET found == {p \in Proposals : InVoting(p) /\ p.chain \notin missing}
         IN  job' = [job EXCEPT !.pc = IF found = {} THEN "done" ELSE "read",
                                !.proposals = found, !.missing = missing]
    /\ UNCHANGED <<staff, desk, day>>

\* getAllUser
ReadUsers ==
    /\ job.pc = "read"
    /\ job' = [job EXCEPT !.pc = "save", !.users = Len(users)]
    /\ UNCHANGED <<staff, desk, day>>

Announcements(p) == {NewProposal(u, p) : u \in 1..job.users}

\* one save per proposal, all of them under way at once
SaveProposal(p) ==
    /\ job.pc = "save" /\ p \in job.proposals
    /\ notices' = notices \o SetToSeq(Announcements(p))
    /\ job' = [job EXCEPT !.pc = IF job.proposals = {p} THEN "done" ELSE "save",
                          !.proposals = @ \ {p}]
    /\ UNCHANGED <<staff, calls, raised, fetched, seen, day>>

Next ==
    \/ \E c \in Clients : Auth(c) \/ CreateUser(c) \/ GetNotifications(c)
                          \/ \E ids \in SUBSET fetched[c] : MarkAsRead(c, ids)
    \/ \E event \in Events : Raise(event)
    \/ \E call \in calls : Save(call)
    \/ Midnight \/ ReadProposals \/ ReadUsers \/ \E p \in Proposals : SaveProposal(p)

Spec == Init /\ [][Next]_vars

-----------------------------------------------------------------------------

\* Two logins with one address may both find no user, but one user and one id come
\* of it; a token never carries the id of another address.
OneUserPerAddress ==
    /\ \A i, j \in 1..Len(users) : users[i] = users[j] => i = j
    /\ \A c \in Clients : session[c] # 0 => users[session[c]] = AddressOf[c]

\* A notice is marked as read only when its user was shown it: one that arrives
\* between a client's list and its mark stays unread.
ReadWasSeen ==
    \A i \in 1..Len(notices) :
        notices[i].status = "READ" => i \in seen[notices[i].user]

\* notify-proposal.jobs.ts says both "Must send a notification to the safe owner by a
\* chain instead of reporting to all user" and "Notify to all users", which it does.
\* What either asks for: when the job of a day is done, each owner of the safe who was
\* a user when it started or whom it found has one notice of this day for each
\* proposal that is in its voting period on the safe's chain, if this chain answered,
\* and no user has two notices of a proposal, of whatever chain.
VotingIsAnnounced ==
    job.pc = "done" /\ day > 0 =>
        \A u \in 1..job.users, p \in Proposals :
            p.start < day /\ day < p.end /\ p.chain \notin job.missing =>
                LET told == {i \in 1..Len(notices) :
                        /\ notices[i].user = u /\ notices[i].on = day
                        /\ notices[i].event = "START_VOTING_PERIOD"
                        /\ notices[i].subject = [proposal |-> p.id, chain |-> p.chain]}
                IN  /\ Cardinality(told) <= 1
                    /\ users[u] \in SafeOwners /\ p.chain = SafeChain => Cardinality(told) = 1
=============================================================================

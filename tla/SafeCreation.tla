---------------------------- MODULE SafeCreation ----------------------------
(***************************************************************************)
(* The life of a safe up to its address: createMultisigWallet, confirm and *)
(* deletePending of SafeService, and the recovery of a safe that exists on *)
(* the chain but not in the database (SafeRepository.getSafeByAddress), at *)
(* the granularity of their awaits, as in TxHandlers.                      *)
(*                                                                         *)
(* A public key is its owner's address: every handler refuses a key that   *)
(* does not generate the address.  The address of a safe is the set of its *)
(* keys together with its threshold, since the keys are sorted before they *)
(* are hashed; keys = {} stands for no address yet.  The hash that finds   *)
(* duplicates is the set of owner addresses and the threshold.  Of         *)
(* recoveries this holds on chains whose addresses are derived by the      *)
(* cosmos rule; those of chains with 18 decimals are left out.             *)
(*                                                                         *)
(* A definition whose name starts with Mutant is the definition after it   *)
(* with a plausible bug, kept to check that the properties notice it.      *)
(***************************************************************************)
EXTENDS Integers, FiniteSets

CONSTANTS
    Users,          \* addresses that own safes
    Thresholds,     \* values of request.threshold, which no handler bounds
    Safes,          \* row ids of table Safe, given out in order
    Reqs,           \* requests, numbered in the order they arrive
    None,           \* stands for no user and no safe
    Ops,            \* the handlers that run
    MaxInFlight,    \* bound on the handlers that run at the same time
    MaxFailures     \* bound on the handlers that stop at an await

SafeCreationAssumption ==
    /\ IsFiniteSet(Users)
    /\ Thresholds \subseteq Nat \ {0}
    /\ Safes \subseteq Nat
    /\ Reqs \subseteq Nat
    /\ None \notin Users \union Safes
    /\ Ops \subseteq {"create", "confirm", "delete", "recover"}
    /\ MaxInFlight \in Nat
    /\ MaxFailures \in Nat

VARIABLES
    safes,      \* table Safe
    owners,     \* table SafeOwner: of each safe and user, is there a row, a key?
    pc,         \* the await each request reaches next
    job,        \* what each request asks for
    mem,        \* what each handler read and will use later
    failures    \* handlers that stopped at an await

vars == <<safes, owners, pc, job, mem, failures>>

-----------------------------------------------------------------------------

Live == {"pending", "created"}
Labels == {"idle", "insertSafe", "insertOwners", "readOwners", "saveKey", "saveCreated",
           "saveDeleted", "findHash", "insertRecovered", "recoverOwners", "done"}

NoSafe == [status |-> "none", creator |-> None, owners |-> {}, threshold |-> 0, keys |-> {}]
NoJob == [user |-> None, safe |-> None, owners |-> {}, threshold |-> 0]
NoMem == [row |-> NoSafe, listed |-> {}, signed |-> {}]

SafeRow == [status : Live \union {"none", "deleted"}, creator : Users \union {None},
            owners : SUBSET Users, threshold : Nat, keys : SUBSET Users]
Job == [user : Users \union {None}, safe : Safes \union {None},
        owners : SUBSET Users, threshold : Nat]
Mem == [row : SafeRow, listed : SUBSET Users, signed : SUBSET Users]

TypeOK ==
    /\ safes \in [Safes -> SafeRow]
    /\ owners \in [Safes -> [Users -> {"absent", "keyless", "signed"}]]
    /\ pc \in [Reqs -> Labels]
    /\ job \in [Reqs -> Job]
    /\ mem \in [Reqs -> Mem]
    /\ failures \in Nat

Init ==
    /\ safes = [s \in Safes |-> NoSafe]
    /\ owners = [s \in Safes |-> [u \in Users |-> "absent"]]
    /\ pc = [r \in Reqs |-> "idle"]
    /\ job = [r \in Reqs |-> NoJob]
    /\ mem = [r \in Reqs |-> NoMem]
    /\ failures = 0

-----------------------------------------------------------------------------

InFlight == {r \in Reqs : pc[r] \notin {"idle", "done"}}

At(r, label) == pc[r] = label
Goto(r, label) == pc' = [pc EXCEPT ![r] = label]
Finish(r) ==
    /\ Goto(r, "done")
    /\ job' = [job EXCEPT ![r] = NoJob]
    /\ mem' = [mem EXCEPT ![r] = NoMem]

Begin(r, op, j, label) ==
    /\ At(r, "idle")
    /\ \A q \in Reqs : q < r => ~At(q, "idle")
    /\ Cardinality(InFlight) < MaxInFlight
    /\ op \in Ops
    /\ Goto(r, label)
    /\ job' = [job EXCEPT ![r] = j]
    /\ UNCHANGED <<safes, owners, failures>>

\* createMultisigThresholdPubkey throws when the threshold exceeds the keys
CanBuild(keys, threshold) == threshold <= Cardinality(keys)

MutantDuplicate(O, k) ==
    \E s \in Safes : safes[s].status = "created" /\ safes[s].owners = O /\ safes[s].threshold = k

\* makeAddressHash and findDuplicateSafeHash
Duplicate(O, k) ==
    \E s \in Safes : safes[s].status \in Live /\ safes[s].owners = O /\ safes[s].threshold = k

NextRow(s) == safes[s].status = "none" /\ \A q \in Safes : q < s => safes[q].status # "none"

-----------------------------------------------------------------------------
(* createMultisigWallet *)

\* The query for a duplicate; buildSafe throws for a sole owner who asks for
\* more than one signature.
StartCreate(r, u, others, k) ==
    LET O == others \union {u} IN
    /\ ~Duplicate(O, k)
    /\ others = {} => CanBuild(O, k)
    /\ Begin(r, "create", [user |-> u, safe |-> None, owners |-> O, threshold |-> k], "insertSafe")
    /\ UNCHANGED mem

\* save(newSafe): a safe with a sole owner has its address at once
InsertSafe(r) ==
    LET j == job[r]
        sole == j.owners = {j.user}
    IN
    /\ At(r, "insertSafe")
    /\ \E s \in Safes :
        /\ NextRow(s)
        /\ safes' = [safes EXCEPT ![s] =
                        [status |-> IF sole THEN "created" ELSE "pending", creator |-> j.user,
                         owners |-> j.owners, threshold |-> j.threshold,
                         keys |-> IF sole THEN j.owners ELSE {}]]
        /\ job' = [job EXCEPT ![r].safe = s]
    /\ Goto(r, "insertOwners")
    /\ UNCHANGED <<owners, mem, failures>>

\* insertOwners saves all rows in one transaction; only the creator has a key
InsertOwners(r) ==
    LET j == job[r] IN
    /\ At(r, "insertOwners")
    /\ owners' = [owners EXCEPT ![j.safe] =
                    [u \in Users |-> IF u = j.user THEN "signed"
                                     ELSE IF u \in j.owners THEN "keyless" ELSE "absent"]]
    /\ Finish(r)
    /\ UNCHANGED <<safes, failures>>

-----------------------------------------------------------------------------
(* confirm *)

\* getPendingSafe
StartConfirm(r, u, s) ==
    /\ safes[s].status = "pending"
    /\ Begin(r, "confirm", [user |-> u, safe |-> s, owners |-> {}, threshold |-> 0], "readOwners")
    /\ mem' = [mem EXCEPT ![r].row = safes[s]]

MutantReadOwners(r) ==
    LET s == job[r].safe
        u == job[r].user
    IN
    /\ At(r, "readOwners")
    /\ \/ /\ owners[s][u] # "keyless"
          /\ Finish(r)
       \/ /\ owners[s][u] = "keyless"
          /\ mem' = [mem EXCEPT ![r].listed = {v \in Users : owners[s][v] # "absent"},
                                ![r].signed = {v \in Users : owners[s][v] = "signed"}]
          /\ Goto(r, "saveKey")
          /\ UNCHANGED job
    /\ UNCHANGED <<safes, owners, failures>>

\* getConfirmationStatus: an owner without a key gets the list of all owners,
\* in which updateSafeOwner then sets the key
ReadOwners(r) ==
    LET s == job[r].safe
        u == job[r].user
    IN
    /\ At(r, "readOwners")
    /\ \/ /\ owners[s][u] # "keyless"
          /\ Finish(r)
       \/ /\ owners[s][u] = "keyless"
          /\ mem' = [mem EXCEPT ![r].listed = {v \in Users : owners[s][v] # "absent"},
                                ![r].signed = {u} \union {v \in Users : owners[s][v] = "signed"}]
          /\ Goto(r, "saveKey")
          /\ UNCHANGED job
    /\ UNCHANGED <<safes, owners, failures>>

MutantSaveKey(r) ==
    LET m == mem[r] IN
    /\ At(r, "saveKey")
    /\ owners' = [owners EXCEPT ![job[r].safe][job[r].user] = "signed"]
    /\ \/ /\ Cardinality(m.signed) >= m.row.threshold
          /\ Goto(r, "saveCreated")
          /\ UNCHANGED <<job, mem>>
       \/ /\ Cardinality(m.signed) < m.row.threshold
          /\ Finish(r)
    /\ UNCHANGED <<safes, failures>>

\* updateSafeOwner; then the address is built if the list has no owner without a
\* key, and building it throws when the threshold is too high
SaveKey(r) ==
    LET m == mem[r]
        complete == m.listed \subseteq m.signed /\ CanBuild(m.listed, m.row.threshold)
    IN
    /\ At(r, "saveKey")
    /\ owners' = [owners EXCEPT ![job[r].safe][job[r].user] = "signed"]
    /\ \/ /\ complete
          /\ Goto(r, "saveCreated")
          /\ UNCHANGED <<job, mem>>
       \/ /\ ~complete
          /\ Finish(r)
    /\ UNCHANGED <<safes, failures>>

\* updateSafe saves the entity getPendingSafe returned
SaveCreated(r) ==
    /\ At(r, "saveCreated")
    /\ safes' = [safes EXCEPT ![job[r].safe] =
                    [mem[r].row EXCEPT !.status = "created", !.keys = mem[r].listed]]
    /\ Finish(r)
    /\ UNCHANGED <<owners, failures>>

-----------------------------------------------------------------------------
(* deletePending *)

MutantStartDelete(r, u, s) ==
    /\ safes[s].creator = u
    /\ safes[s].status # "deleted"
    /\ Begin(r, "delete", [user |-> u, safe |-> s, owners |-> {}, threshold |-> 0], "saveDeleted")
    /\ mem' = [mem EXCEPT ![r].row = safes[s]]

\* deletePendingSafe, up to its save
StartDelete(r, u, s) ==
    /\ safes[s].creator = u
    /\ safes[s].status = "pending"
    /\ Begin(r, "delete", [user |-> u, safe |-> s, owners |-> {}, threshold |-> 0], "saveDeleted")
    /\ mem' = [mem EXCEPT ![r].row = safes[s]]

\* ... which saves the entity it read
SaveDeleted(r) ==
    /\ At(r, "saveDeleted")
    /\ safes' = [safes EXCEPT ![job[r].safe] = [mem[r].row EXCEPT !.status = "deleted"]]
    /\ Finish(r)
    /\ UNCHANGED <<owners, failures>>

-----------------------------------------------------------------------------
(* getSafeByAddress of an address that only the chain knows *)

\* No row has the address; the indexer knows it as the multisig account of O with
\* threshold k, whose first key is u's.  The addresses of the owners are derived by the
\* cosmos rule whatever the chain is, so that on a chain with 18 decimals the rows
\* below would be those of other addresses; such a chain is not modelled.  (There
\* createMultisigThresholdPubkey throws for several keys.)
StartRecover(r, u, O, k) ==
    /\ u \in O
    /\ CanBuild(O, k)
    /\ ~\E s \in Safes : safes[s].keys = O /\ safes[s].threshold = k
    /\ Begin(r, "recover", [user |-> u, safe |-> None, owners |-> O, threshold |-> k], "findHash")
    /\ UNCHANGED mem

\* makeAddressHash throws when there is a safe with the hash
FindHash(r) ==
    /\ At(r, "findHash")
    /\ \/ /\ Duplicate(job[r].owners, job[r].threshold)
          /\ Finish(r)
       \/ /\ ~Duplicate(job[r].owners, job[r].threshold)
          /\ Goto(r, "insertRecovered")
          /\ UNCHANGED <<job, mem>>
    /\ UNCHANGED <<safes, owners, failures>>

\* recoverSafe
InsertRecovered(r) ==
    LET j == job[r] IN
    /\ At(r, "insertRecovered")
    /\ \E s \in Safes :
        /\ NextRow(s)
        /\ safes' = [safes EXCEPT ![s] =
                        [status |-> "created", creator |-> j.user, owners |-> j.owners,
                         threshold |-> j.threshold, keys |-> j.owners]]
        /\ job' = [job EXCEPT ![r].safe = s]
    /\ Goto(r, "recoverOwners")
    /\ UNCHANGED <<owners, mem, failures>>

\* recoverSafeOwner: the rows are inserted by statements that run in parallel
RecoverOwner(r) ==
    LET s == job[r].safe
        missing == {u \in job[r].owners : owners[s][u] = "absent"}
    IN
    /\ At(r, "recoverOwners")
    /\ \E u \in missing :
        /\ owners' = [owners EXCEPT ![s][u] = "signed"]
        /\ \/ missing # {u} /\ UNCHANGED <<pc, job, mem>>
           \/ missing = {u} /\ Finish(r)
    /\ UNCHANGED <<safes, failures>>

-----------------------------------------------------------------------------

\* An await throws, or the process stops there.
Fail(r) ==
    /\ r \in InFlight
    /\ failures < MaxFailures
    /\ failures' = failures + 1
    /\ Finish(r)
    /\ UNCHANGED <<safes, owners>>

Start(r) ==
    \E u \in Users :
        \/ \E others \in SUBSET (Users \ {u}), k \in Thresholds : StartCreate(r, u, others, k)
        \/ \E O \in SUBSET Users, k \in Thresholds : StartRecover(r, u, O, k)
        \/ \E s \in Safes : StartConfirm(r, u, s) \/ StartDelete(r, u, s)

Step(r) ==
    \/ InsertSafe(r) \/ InsertOwners(r)
    \/ ReadOwners(r) \/ SaveKey(r) \/ SaveCreated(r)
    \/ SaveDeleted(r)
    \/ FindHash(r) \/ InsertRecovered(r) \/ RecoverOwner(r)

Next == \E r \in Reqs : Start(r) \/ Step(r) \/ Fail(r)

Spec == Init /\ [][Next]_vars

-----------------------------------------------------------------------------
(* Properties *)

Quiet == InFlight = {}

\* A safe gets its address only from the keys of all its owners (confirm: "if all
\* owner confirmed => create safe"), however the confirmations interleave, and no
\* owner of a created safe is left without a key.
CreatedHasEveryKey ==
    \A s \in Safes : safes[s].status = "created" =>
        /\ safes[s].keys = safes[s].owners
        /\ \A u \in Users : owners[s][u] # "keyless"

\* confirm, "if all owner confirmed => create safe": when no handler runs or has
\* stopped, a safe all of whose owners have confirmed is not pending.  A safe that
\* asks for more signatures than it has owners has no address and is left out.
ConfirmedIsCreated ==
    Quiet /\ failures = 0 =>
        \A s \in Safes :
            /\ safes[s].status = "pending"
            /\ CanBuild(safes[s].owners, safes[s].threshold)
            => \E u \in Users : owners[s][u] = "keyless"

\* insertSafe and recoverSafe, "check duplicate with safe address hash": the same
\* owners and threshold have at most one safe that is not deleted.
OneSafePerHash ==
    \A s, q \in Safes :
        /\ safes[s].status \in Live /\ safes[q].status \in Live
        /\ safes[s].owners = safes[q].owners /\ safes[s].threshold = safes[q].threshold
        => s = q

\* SAFE_NOT_PENDING of confirm and deletePending: a safe that was created or
\* deleted stays what it is, with its address.
SettledStays ==
    \A s \in Safes : safes[s].status \in {"created", "deleted"} => safes'[s] = safes[s]
SettledIsFinal == [][SettledStays]_vars
=============================================================================

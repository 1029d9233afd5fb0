-------------------------- MODULE SafeCreationProofs --------------------------
(***************************************************************************)
(* Proofs about SafeCreation for any users, thresholds and safes, and for  *)
(* any number of handlers that run at the same time or stop halfway; and   *)
(* about what a client is shown of a safe (SafeViews) while they run.      *)
(***************************************************************************)
EXTENDS SafeViews, FiniteSetTheorems, TLAPS

Holding == {"insertOwners", "readOwners", "saveKey", "saveCreated", "saveDeleted",
            "recoverOwners"}
Inserting == {"insertOwners", "recoverOwners"}
Holds(s, state) == \E u \in Users : owners[s][u] = state

\* What a handler at l with request j that has read m may rely on.
HandlerOK(l, j, m) ==
    /\ l \notin {"idle", "done"} => j.user \in Users
    /\ l \in {"insertSafe", "insertOwners"} => j.user \in j.owners
    /\ l \in Holding => j.safe \in Safes /\ safes[j.safe].status # "none"
    /\ l \in Inserting => j.owners = safes[j.safe].owners
    /\ l = "insertOwners" =>
            /\ \A u \in Users : owners[j.safe][u] = "absent"
            /\ safes[j.safe].status = "created" => j.owners = {j.user}
    /\ l \in Holding \ Inserting => m.row.owners = safes[j.safe].owners
    /\ l \in {"saveKey", "saveCreated"} =>
            /\ m.listed = safes[j.safe].owners
            /\ owners[j.safe][j.user] # "absent"
    /\ l = "saveKey" => \A v \in m.signed : v = j.user \/ owners[j.safe][v] = "signed"
    /\ l = "saveCreated" => ~Holds(j.safe, "keyless")

HandlersOK == \A r \in Reqs : HandlerOK(pc[r], job[r], mem[r])

\* The rows of table SafeOwner fit the row of table Safe.
RowsFit(s) ==
    /\ safes[s].status = "none" => \A u \in Users : owners[s][u] = "absent"
    /\ Holds(s, "keyless") => \A u \in Users : owners[s][u] # "absent" <=> u \in safes[s].owners
    /\ safes[s].status = "created" => safes[s].keys = safes[s].owners /\ ~Holds(s, "keyless")

OneInserter ==
    \A r, q \in Reqs :
        pc[r] \in Inserting /\ pc[q] \in Inserting /\ job[r].safe = job[q].safe => r = q

CInv == TypeOK /\ HandlersOK /\ (\A s \in Safes : RowsFit(s)) /\ OneInserter

-----------------------------------------------------------------------------

LEMMA InitCInv ==
    ASSUME SafeCreationAssumption
    PROVE  Init => CInv
    BY SafeCreationAssumption
    DEF SafeCreationAssumption, Init, CInv, TypeOK, SafeRow, Job, Mem, Labels, Live, NoSafe,
        NoJob, NoMem, HandlersOK, HandlerOK, Holding, Inserting, RowsFit, Holds, OneInserter

\* The steps of one handler that leave both tables alone.
LEMMA ReadingCInv ==
    ASSUME CInv, NEW r \in Reqs, NEW l \in Labels \ Inserting, NEW j \in Job, NEW m \in Mem,
           Goto(r, l), job' = [job EXCEPT ![r] = j], mem' = [mem EXCEPT ![r] = m],
           UNCHANGED <<safes, owners>>, failures' \in Nat,
           HandlerOK(l, j, m)
    PROVE  CInv'
<1>1. TypeOK'
    BY DEF CInv, TypeOK, Goto
<1>2. HandlersOK'
    <2> SUFFICES ASSUME NEW q \in Reqs PROVE HandlerOK(pc[q], job[q], mem[q])'
        BY DEF HandlersOK
    <2>1. CASE q = r
        BY <2>1 DEF CInv, TypeOK, Goto, HandlerOK, Holds
    <2>2. CASE q # r
        BY <2>2 DEF CInv, TypeOK, Goto, HandlersOK, HandlerOK, Holds
    <2> QED
        BY <2>1, <2>2
<1>3. \A s \in Safes : RowsFit(s)'
    BY DEF CInv, RowsFit, Holds
<1>4. OneInserter'
    BY DEF CInv, TypeOK, OneInserter, Goto
<1> QED
    BY <1>1, <1>2, <1>3, <1>4 DEF CInv

LEMMA NoneType == NoJob \in Job /\ NoMem \in Mem /\ "done" \in Labels \ Inserting
    BY DEF NoJob, NoMem, NoSafe, Job, Mem, SafeRow, Labels, Inserting

LEMMA EndsCInv ==
    ASSUME CInv, NEW r \in Reqs, Finish(r), UNCHANGED <<safes, owners>>, failures' \in Nat
    PROVE  CInv'
<1>1. HandlerOK("done", NoJob, NoMem)
    BY DEF HandlerOK, Holding, Inserting
<1> QED
    BY <1>1, NoneType, ReadingCInv DEF Finish

LEMMA StartCInv ==
    ASSUME SafeCreationAssumption, CInv, NEW r \in Reqs, Start(r)
    PROVE  CInv'
<1>0. TypeOK /\ failures \in Nat /\ mem[r] \in Mem /\ mem = [mem EXCEPT ![r] = mem[r]]
    BY DEF CInv, TypeOK
<1>1. ASSUME NEW u \in Users, NEW others \in SUBSET (Users \ {u}), NEW k \in Thresholds,
             StartCreate(r, u, others, k)
      PROVE  CInv'
    <2> DEFINE j == [user |-> u, safe |-> None, owners |-> others \union {u}, threshold |-> k]
    <2>1. j \in Job /\ "insertSafe" \in Labels \ Inserting
        BY SafeCreationAssumption DEF SafeCreationAssumption, Job, Labels, Inserting
    <2>2. HandlerOK("insertSafe", j, mem[r])
        BY DEF HandlerOK, Holding, Inserting
    <2> HIDE DEF j
    <2> QED
        BY <1>0, <1>1, <2>1, <2>2, ReadingCInv DEF StartCreate, Begin, j
<1>2. ASSUME NEW u \in Users, NEW O \in SUBSET Users, NEW k \in Thresholds, StartRecover(r, u, O, k)
      PROVE  CInv'
    <2> DEFINE j == [user |-> u, safe |-> None, owners |-> O, threshold |-> k]
    <2>1. j \in Job /\ "findHash" \in Labels \ Inserting
        BY SafeCreationAssumption DEF SafeCreationAssumption, Job, Labels, Inserting
    <2>2. HandlerOK("findHash", j, mem[r])
        BY DEF HandlerOK, Holding, Inserting
    <2> HIDE DEF j
    <2> QED
        BY <1>0, <1>2, <2>1, <2>2, ReadingCInv DEF StartRecover, Begin, j
<1>3. ASSUME NEW u \in Users, NEW s \in Safes, StartConfirm(r, u, s) \/ StartDelete(r, u, s)
      PROVE  CInv'
    <2> DEFINE j == [user |-> u, safe |-> s, owners |-> {}, threshold |-> 0]
               m == [mem[r] EXCEPT !.row = safes[s]]
    <2>1. j \in Job /\ m \in Mem /\ m.row = safes[s] /\ mem' = [mem EXCEPT ![r] = m]
        BY <1>0, <1>3 DEF TypeOK, Job, Mem, StartConfirm, StartDelete
    <2>2. PICK l \in {"readOwners", "saveDeleted"} :
              Goto(r, l) /\ job' = [job EXCEPT ![r] = j] /\ UNCHANGED <<safes, owners, failures>>
        BY <1>3 DEF StartConfirm, StartDelete, Begin
    <2>3. safes[s].status = "pending" /\ l \in Labels \ Inserting
        BY <1>3 DEF StartConfirm, StartDelete, Labels, Inserting
    <2>4. HandlerOK(l, j, m)
        BY <2>1, <2>3 DEF HandlerOK, Holding, Inserting
    <2> HIDE DEF j, m
    <2> QED
        BY <1>0, <2>1, <2>2, <2>3, <2>4, ReadingCInv
<1> QED
    BY <1>1, <1>2, <1>3 DEF Start

\* InsertSafe and InsertRecovered: a row for a safe that had none.
LEMMA InsertCInv ==
    ASSUME CInv, NEW r \in Reqs, NEW s \in Safes, NEW l \in Inserting, NEW row \in SafeRow,
           pc[r] \in {"insertSafe", "insertRecovered"},
           safes[s].status = "none",
           safes' = [safes EXCEPT ![s] = row], row.status # "none", row.owners = job[r].owners,
           row.status = "created" => row.keys = row.owners,
           l = "insertOwners" /\ row.status = "created" => row.owners = {job[r].user},
           l = "insertOwners" => pc[r] = "insertSafe",
           job' = [job EXCEPT ![r].safe = s], Goto(r, l),
           UNCHANGED <<owners, mem, failures>>
    PROVE  CInv'
<1>0. /\ TypeOK /\ HandlerOK(pc[r], job[r], mem[r])
      /\ \A u \in Users : owners[s][u] = "absent"
      /\ \A q \in Reqs : pc[q] \in Holding => job[q].safe # s
    BY DEF CInv, HandlersOK, HandlerOK, RowsFit
<1>1. TypeOK'
    BY ZenonT(40), <1>0 DEF TypeOK, Goto, Job, Labels, Inserting
<1>2. HandlersOK'
    <2> SUFFICES ASSUME NEW q \in Reqs PROVE HandlerOK(pc[q], job[q], mem[q])'
        BY DEF HandlersOK
    <2>1. CASE q = r
        <3>1. pc'[q] = l /\ job'[q].safe = s /\ job'[q].user = job[r].user
                  /\ job'[q].owners = job[r].owners /\ safes'[s] = row
            BY <1>0, <2>1 DEF TypeOK, Goto, Job
        <3> QED
            BY <1>0, <2>1, <3>1 DEF HandlerOK, Holding, Inserting, Holds
    <2>2. CASE q # r
        <3>1. pc'[q] = pc[q] /\ job'[q] = job[q] /\ mem'[q] = mem[q]
                  /\ (pc[q] \in Holding => safes'[job[q].safe] = safes[job[q].safe])
            BY <1>0, <2>2 DEF TypeOK, Goto, CInv, HandlersOK, HandlerOK
        <3> QED
            BY <3>1 DEF CInv, HandlersOK, HandlerOK, Holding, Inserting, Holds
    <2> QED
        BY <2>1, <2>2
<1>3. \A q \in Safes : RowsFit(q)'
    BY <1>0 DEF CInv, TypeOK, RowsFit, Holds
<1>4. OneInserter'
    BY <1>0 DEF CInv, TypeOK, OneInserter, Goto, Holding, Inserting, Job
<1> QED
    BY <1>1, <1>2, <1>3, <1>4 DEF CInv

\* SaveCreated and SaveDeleted: a row is written as it was read, with a new status.
LEMMA SaveCInv ==
    ASSUME CInv, NEW r \in Reqs, pc[r] \in {"saveCreated", "saveDeleted"},
           NEW row \in SafeRow, safes' = [safes EXCEPT ![job[r].safe] = row],
           row.owners = mem[r].row.owners,
           \/ row.status = "deleted"
           \/ pc[r] = "saveCreated" /\ row.status = "created" /\ row.keys = mem[r].listed,
           Finish(r), UNCHANGED <<owners, failures>>
    PROVE  CInv'
<1> DEFINE s == job[r].safe
<1>0. /\ TypeOK /\ HandlerOK(pc[r], job[r], mem[r])
      /\ s \in Safes /\ row.owners = safes[s].owners /\ safes[s].status # "none"
      /\ safes'[s] = row
    BY DEF CInv, TypeOK, HandlersOK, HandlerOK, Holding, Inserting
<1>1. TypeOK'
    BY <1>0, NoneType DEF TypeOK, Finish, Goto
<1>2. HandlersOK'
    <2> SUFFICES ASSUME NEW q \in Reqs PROVE HandlerOK(pc[q], job[q], mem[q])'
        BY DEF HandlersOK
    <2>1. CASE q = r
        BY <1>0, <2>1 DEF TypeOK, Finish, Goto, HandlerOK, Holding, Inserting
    <2>2. CASE q # r
        <3>1. pc'[q] = pc[q] /\ job'[q] = job[q] /\ mem'[q] = mem[q]
                  /\ HandlerOK(pc[q], job[q], mem[q])
            BY <1>0, <2>2 DEF TypeOK, Finish, Goto, CInv, HandlersOK
        <3>2. pc[q] = "insertOwners" /\ job[q].safe = s => row.status = "deleted"
            BY <1>0, <3>1 DEF HandlerOK
        <3>3. pc[q] \in Holding => job[q].safe \in Safes
                  /\ safes'[job[q].safe].owners = safes[job[q].safe].owners
                  /\ safes'[job[q].safe].status # "none"
            BY <1>0, <3>1 DEF TypeOK, HandlerOK
        <3>4. pc[q] = "insertOwners" /\ job[q].safe # s => safes'[job[q].safe] = safes[job[q].safe]
            BY <1>0, <3>1 DEF TypeOK, HandlerOK, Holding
        <3> QED
            BY <1>0, <3>1, <3>2, <3>3, <3>4 DEF HandlerOK, Holding, Inserting, Holds
    <2> QED
        BY <2>1, <2>2
<1>3. \A q \in Safes : RowsFit(q)'
    BY <1>0 DEF CInv, TypeOK, RowsFit, Holds, HandlerOK
<1>4. OneInserter'
    BY <1>0 DEF CInv, TypeOK, OneInserter, Finish, Goto, Inserting
<1> QED
    BY <1>1, <1>2, <1>3, <1>4 DEF CInv
\* SaveKey and RecoverOwner: a row of SafeOwner gets its key.
LEMMA KeyCInv ==
    ASSUME CInv, NEW r \in Reqs, NEW u \in Users,
           owners' = [owners EXCEPT ![job[r].safe][u] = "signed"],
           \/ pc[r] = "saveKey" /\ u = job[r].user
           \/ pc[r] = "recoverOwners" /\ u \in job[r].owners,
           UNCHANGED <<safes, failures>>,
           \/ Finish(r)
           \/ UNCHANGED <<pc, job, mem>> /\ pc[r] = "recoverOwners"
           \/ /\ Goto(r, "saveCreated") /\ UNCHANGED <<job, mem>>
              /\ pc[r] = "saveKey" /\ mem[r].listed \subseteq mem[r].signed
    PROVE  CInv'
<1>s. PICK s \in Safes : s = job[r].safe
    BY DEF CInv, HandlersOK, HandlerOK, Holding
<1>0. /\ TypeOK /\ HandlerOK(pc[r], job[r], mem[r]) /\ RowsFit(s)
      /\ s \in Safes /\ safes[s].status # "none" /\ s = job[r].safe
    BY <1>s DEF CInv, HandlersOK, HandlerOK, Holding
<1>1. /\ owners' \in [Safes -> [Users -> {"absent", "keyless", "signed"}]]
      /\ owners'[s][u] = "signed"
      /\ \A v \in Users : v # u => owners'[s][v] = owners[s][v]
      /\ \A q \in Safes : q # s => owners'[q] = owners[q]
    BY <1>0 DEF TypeOK
<1>2. TypeOK'
    BY SMTT(40), <1>0, <1>1, NoneType DEF TypeOK, Finish, Goto, Labels
<1>3. RowsFit(s)'
    <2>1. CASE pc[r] = "saveKey"
        <3>1. owners[s][u] # "absent"
            BY <1>0, <2>1 DEF HandlerOK
        <3> QED
            BY <1>0, <1>1, <3>1 DEF RowsFit, Holds
    <2>2. CASE pc[r] = "recoverOwners"
        <3>1. u \in safes[s].owners
            BY <1>0, <2>2 DEF HandlerOK, Inserting
        <3> QED
            BY <1>0, <1>1, <3>1 DEF RowsFit, Holds
    <2> QED
        BY <2>1, <2>2
<1>4. \A q \in Safes : RowsFit(q)'
    <2> SUFFICES ASSUME NEW q \in Safes, q # s PROVE RowsFit(q)'
        BY <1>3
    <2> QED
        BY <1>1 DEF CInv, RowsFit, Holds
<1>5. HandlersOK'
    <2> SUFFICES ASSUME NEW q \in Reqs PROVE HandlerOK(pc[q], job[q], mem[q])'
        BY DEF HandlersOK
    <2>1. HandlerOK(pc[q], job[q], mem[q])
        BY DEF CInv, HandlersOK
    <2>2. ASSUME pc'[q] = pc[q], job'[q] = job[q], mem'[q] = mem[q],
                 pc[q] = "insertOwners" => job[q].safe # s
          PROVE  HandlerOK(pc[q], job[q], mem[q])'
        <3>1. pc[q] \in Holding => job[q].safe \in Safes
            BY <2>1 DEF HandlerOK
        <3>2. CASE pc[q] \notin Holding \/ job[q].safe # s
            <4>1. pc[q] \in Holding => owners'[job[q].safe] = owners[job[q].safe]
                BY <1>1, <3>1, <3>2
            <4> QED
                BY <2>1, <2>2, <4>1 DEF HandlerOK, Holding, Inserting, Holds
        <3>3. CASE pc[q] \in Holding /\ job[q].safe = s
            BY <1>1, <2>1, <2>2, <3>3 DEF HandlerOK, Holding, Inserting, Holds
        <3> QED
            BY <3>2, <3>3
    <2>3. CASE q # r
        <3>1. pc[q] = "insertOwners" => job[q].safe # s
            BY <1>0, <2>1, <2>3 DEF HandlerOK, CInv, OneInserter, Inserting
        <3>2. pc'[q] = pc[q] /\ job'[q] = job[q] /\ mem'[q] = mem[q]
            BY <1>0, <2>3 DEF TypeOK, Finish, Goto
        <3> QED
            BY <2>2, <3>1, <3>2
    <2>4. CASE q = r
        <3>1. CASE Finish(r)
            BY <1>0, <2>4, <3>1 DEF TypeOK, Finish, Goto, HandlerOK, Holding, Inserting
        <3>2. CASE UNCHANGED <<pc, job, mem>> /\ pc[r] = "recoverOwners"
            BY <2>2, <2>4, <3>2
        <3>3. CASE /\ Goto(r, "saveCreated") /\ UNCHANGED <<job, mem>>
                   /\ pc[r] = "saveKey" /\ mem[r].listed \subseteq mem[r].signed
            <4>1. /\ u = job[r].user
                  /\ mem[r].row.owners = safes[s].owners /\ mem[r].listed = safes[s].owners
                  /\ \A v \in mem[r].signed : v = u \/ owners[s][v] = "signed"
                BY <1>0, <3>3 DEF HandlerOK, Holding, Inserting
            <4>2. ~Holds(s, "keyless")'
                <5> SUFFICES ASSUME NEW v \in Users, owners'[s][v] = "keyless" PROVE FALSE
                    BY DEF Holds
                <5>1. v # u /\ owners[s][v] = "keyless"
                    BY <1>1
                <5>2. v \in safes[s].owners
                    BY <1>0, <5>1 DEF RowsFit, Holds
                <5> QED
                    BY <3>3, <4>1, <5>1, <5>2
            <4>3. pc'[r] = "saveCreated" /\ job'[r] = job[r] /\ mem'[r] = mem[r]
                BY <1>0, <3>3 DEF TypeOK, Goto
            <4> QED
                BY ZenonT(40), <1>0, <1>1, <2>1, <2>4, <4>1, <4>2, <4>3
                DEF HandlerOK, Holding, Inserting, Holds
        <3> QED
            BY <3>1, <3>2, <3>3
    <2> QED
        BY <2>3, <2>4
<1>6. OneInserter'
    BY <1>0 DEF CInv, TypeOK, OneInserter, Finish, Goto, Inserting
<1> QED
    BY <1>2, <1>4, <1>5, <1>6 DEF CInv

LEMMA InsertOwnersCInv ==
    ASSUME CInv, NEW r \in Reqs, InsertOwners(r)
    PROVE  CInv'
<1>s. PICK s \in Safes : s = job[r].safe
    BY DEF CInv, HandlersOK, HandlerOK, Holding, InsertOwners, At
<1>0. /\ TypeOK /\ HandlerOK("insertOwners", job[r], mem[r]) /\ RowsFit(s)
      /\ pc[r] = "insertOwners" /\ s = job[r].safe
    BY <1>s DEF CInv, HandlersOK, HandlerOK, Holding, InsertOwners, At
<1>1. /\ s \in Safes /\ safes[s].status # "none" /\ job[r].user \in job[r].owners
      /\ job[r].owners = safes[s].owners
      /\ \A u \in Users : owners[s][u] = "absent"
      /\ safes[s].status = "created" => job[r].owners = {job[r].user}
    BY <1>0 DEF HandlerOK, Holding, Inserting
<1>2. /\ owners' \in [Safes -> [Users -> {"absent", "keyless", "signed"}]]
      /\ \A u \in Users : owners'[s][u] = IF u = job[r].user THEN "signed"
                                  ELSE IF u \in job[r].owners THEN "keyless" ELSE "absent"
      /\ \A q \in Safes : q # s => owners'[q] = owners[q]
    BY <1>0, <1>1 DEF TypeOK, InsertOwners
<1>3. Finish(r) /\ UNCHANGED <<safes, failures>>
    BY DEF InsertOwners
<1>4. TypeOK'
    BY <1>0, <1>2, <1>3, NoneType DEF TypeOK, Finish, Goto
<1>5. RowsFit(s)'
    BY <1>0, <1>1, <1>2, <1>3 DEF RowsFit, Holds
<1>6. \A q \in Safes : RowsFit(q)'
    <2> SUFFICES ASSUME NEW q \in Safes, q # s PROVE RowsFit(q)'
        BY <1>5
    <2> QED
        BY <1>2, <1>3 DEF CInv, RowsFit, Holds
<1>7. HandlersOK'
    <2> SUFFICES ASSUME NEW q \in Reqs PROVE HandlerOK(pc[q], job[q], mem[q])'
        BY DEF HandlersOK
    <2>1. CASE q = r
        BY <1>0, <1>3, <2>1 DEF TypeOK, Finish, Goto, HandlerOK, Holding, Inserting
    <2>2. CASE q # r
        <3>1. pc'[q] = pc[q] /\ job'[q] = job[q] /\ mem'[q] = mem[q]
                  /\ HandlerOK(pc[q], job[q], mem[q])
            BY <1>0, <1>3, <2>2 DEF TypeOK, Finish, Goto, CInv, HandlersOK
        <3>2. pc[q] = "insertOwners" => job[q].safe # s
            BY <1>0, <2>2 DEF CInv, OneInserter, Inserting
        <3>3. pc[q] \in {"saveKey", "saveCreated"} => job[q].user \in Users
            BY <3>1 DEF HandlerOK
        <3>4. pc[q] \in {"saveKey", "saveCreated"} => job[q].safe # s
            BY <1>1, <3>1, <3>3 DEF HandlerOK
        <3>5. pc[q] \in {"insertOwners", "saveKey", "saveCreated"} =>
                  owners'[job[q].safe] = owners[job[q].safe]
            BY <1>2, <3>1, <3>2, <3>4 DEF HandlerOK, Holding
        <3> QED
            BY <1>3, <3>1, <3>5 DEF HandlerOK, Holding, Inserting, Holds
    <2> QED
        BY <2>1, <2>2
<1>8. OneInserter'
    BY <1>0, <1>3 DEF CInv, TypeOK, OneInserter, Finish, Goto, Inserting
<1> QED
    BY <1>4, <1>6, <1>7, <1>8 DEF CInv

LEMMA ReadOwnersCInv ==
    ASSUME CInv, NEW r \in Reqs, ReadOwners(r)
    PROVE  CInv'
<1> DEFINE s == job[r].safe
           L == {v \in Users : owners[s][v] # "absent"}
           D == {job[r].user} \union {v \in Users : owners[s][v] = "signed"}
           m == [mem[r] EXCEPT !.listed = L, !.signed = D]
<1>0. /\ TypeOK /\ HandlerOK("readOwners", job[r], mem[r]) /\ failures' \in Nat
      /\ job = [job EXCEPT ![r] = job[r]] /\ job[r] \in Job /\ mem[r] \in Mem
      /\ UNCHANGED <<safes, owners>>
    BY DEF CInv, TypeOK, HandlersOK, ReadOwners, At
<1>1. CASE Finish(r)
    BY <1>0, <1>1, EndsCInv
<1>2. CASE ~Finish(r)
    <2>1. /\ owners[s][job[r].user] = "keyless" /\ Goto(r, "saveKey") /\ job' = job
          /\ mem' = [mem EXCEPT ![r] = m]
        BY <1>0, <1>2 DEF ReadOwners, TypeOK
    <2>2. s \in Safes /\ job[r].user \in Users /\ RowsFit(s) /\ safes[s].status # "none"
              /\ mem[r].row.owners = safes[s].owners
        BY <1>0 DEF HandlerOK, Holding, Inserting, CInv
    <2>3. m \in Mem /\ m.listed = L /\ m.signed = D /\ m.row = mem[r].row
        BY <1>0, <2>2 DEF Mem
    <2>4. L = safes[s].owners
        BY <1>0, <2>1, <2>2 DEF RowsFit, Holds, TypeOK, SafeRow
    <2>5. HandlerOK("saveKey", job[r], m)
        BY <2>1, <2>2, <2>3, <2>4 DEF HandlerOK, Holding, Inserting
    <2>6. "saveKey" \in Labels \ Inserting
        BY DEF Labels, Inserting
    <2> HIDE DEF m
    <2> QED
        BY <1>0, <2>1, <2>3, <2>5, <2>6, ReadingCInv
<1> QED
    BY <1>1, <1>2

LEMMA StepCInv ==
    ASSUME CInv, NEW r \in Reqs, Step(r)
    PROVE  CInv'
<1>0. TypeOK /\ HandlerOK(pc[r], job[r], mem[r]) /\ job[r] \in Job /\ mem[r] \in Mem
      /\ failures \in Nat
    BY DEF CInv, TypeOK, HandlersOK
<1>1. CASE InsertSafe(r)
    <2> DEFINE sole == job[r].owners = {job[r].user}
               row == [status |-> IF sole THEN "created" ELSE "pending", creator |-> job[r].user,
                       owners |-> job[r].owners, threshold |-> job[r].threshold,
                       keys |-> IF sole THEN job[r].owners ELSE {}]
    <2>1. PICK s \in Safes : /\ safes[s].status = "none"
                            /\ safes' = [safes EXCEPT ![s] = row]
                            /\ job' = [job EXCEPT ![r].safe = s]
        BY <1>1 DEF InsertSafe, NextRow
    <2>2. row \in SafeRow
        BY <1>0 DEF Job, SafeRow, Live
    <2>3. pc[r] = "insertSafe" /\ Goto(r, "insertOwners") /\ UNCHANGED <<owners, mem, failures>>
        BY <1>1 DEF InsertSafe, At
    <2> QED
        BY <2>1, <2>2, <2>3, InsertCInv DEF Inserting
<1>2. CASE InsertRecovered(r)
    <2> DEFINE row == [status |-> "created", creator |-> job[r].user, owners |-> job[r].owners,
                       threshold |-> job[r].threshold, keys |-> job[r].owners]
    <2>1. PICK s \in Safes : /\ safes[s].status = "none"
                            /\ safes' = [safes EXCEPT ![s] = row]
                            /\ job' = [job EXCEPT ![r].safe = s]
        BY <1>2 DEF InsertRecovered, NextRow
    <2>2. row \in SafeRow
        BY <1>0 DEF Job, SafeRow, Live
    <2>3. pc[r] = "insertRecovered" /\ Goto(r, "recoverOwners") /\ UNCHANGED <<owners, mem, failures>>
        BY <1>2 DEF InsertRecovered, At
    <2> QED
        BY <2>1, <2>2, <2>3, InsertCInv DEF Inserting
<1>3. CASE InsertOwners(r)
    BY <1>3, InsertOwnersCInv
<1>4. CASE ReadOwners(r)
    BY <1>4, ReadOwnersCInv
<1>5. CASE SaveKey(r)
    <2>1. pc[r] = "saveKey" /\ job[r].user \in Users
        BY <1>0, <1>5 DEF SaveKey, At, HandlerOK
    <2> QED
        BY <1>5, <2>1, KeyCInv DEF SaveKey
<1>6. CASE SaveCreated(r)
    <2> DEFINE row == [mem[r].row EXCEPT !.status = "created", !.keys = mem[r].listed]
    <2>1. row \in SafeRow /\ row.owners = mem[r].row.owners /\ row.status = "created"
              /\ row.keys = mem[r].listed
        BY <1>0 DEF Mem, SafeRow, Live
    <2>2. /\ pc[r] = "saveCreated" /\ safes' = [safes EXCEPT ![job[r].safe] = row]
          /\ Finish(r) /\ UNCHANGED <<owners, failures>>
        BY <1>6 DEF SaveCreated, At
    <2> HIDE DEF row
    <2> QED
        BY <2>1, <2>2, SaveCInv
<1>7. CASE SaveDeleted(r)
    <2> DEFINE row == [mem[r].row EXCEPT !.status = "deleted"]
    <2>1. row \in SafeRow /\ row.owners = mem[r].row.owners /\ row.status = "deleted"
        BY <1>0 DEF Mem, SafeRow
    <2>2. /\ pc[r] = "saveDeleted" /\ safes' = [safes EXCEPT ![job[r].safe] = row]
          /\ Finish(r) /\ UNCHANGED <<owners, failures>>
        BY <1>7 DEF SaveDeleted, At
    <2> HIDE DEF row
    <2> QED
        BY <2>1, <2>2, SaveCInv
<1>8. CASE FindHash(r)
    <2>1. CASE Finish(r)
        BY <1>0, <1>8, <2>1, EndsCInv DEF FindHash
    <2>2. CASE ~Finish(r)
        <3>1. /\ pc[r] = "findHash" /\ Goto(r, "insertRecovered")
              /\ job' = [job EXCEPT ![r] = job[r]] /\ mem' = [mem EXCEPT ![r] = mem[r]]
              /\ UNCHANGED <<safes, owners, failures>>
            BY <1>0, <1>8, <2>2 DEF FindHash, At, TypeOK
        <3>2. HandlerOK("insertRecovered", job[r], mem[r])
            BY <1>0, <3>1 DEF HandlerOK, Holding, Inserting
        <3>3. "insertRecovered" \in Labels \ Inserting
            BY DEF Labels, Inserting
        <3> QED
            BY <1>0, <3>1, <3>2, <3>3, ReadingCInv
    <2> QED
        BY <2>1, <2>2
<1>9. CASE RecoverOwner(r)
    <2>1. PICK u \in job[r].owners :
              /\ owners' = [owners EXCEPT ![job[r].safe][u] = "signed"]
              /\ UNCHANGED <<pc, job, mem>> \/ Finish(r)
        BY <1>9 DEF RecoverOwner
    <2>2. pc[r] = "recoverOwners" /\ u \in Users /\ UNCHANGED <<safes, failures>>
        BY <1>0, <1>9 DEF RecoverOwner, At, Job
    <2> QED
        BY <2>1, <2>2, KeyCInv
<1> QED
    BY <1>1, <1>2, <1>3, <1>4, <1>5, <1>6, <1>7, <1>8, <1>9 DEF Step

LEMMA NextCInv ==
    ASSUME SafeCreationAssumption
    PROVE  CInv /\ [Next]_vars => CInv'
<1> SUFFICES ASSUME CInv, [Next]_vars PROVE CInv'
    OBVIOUS
<1>1. CASE UNCHANGED vars
    BY <1>1 DEF vars, CInv, TypeOK, HandlersOK, HandlerOK, RowsFit, Holds, OneInserter
<1>2. ASSUME NEW r \in Reqs, Fail(r) PROVE CInv'
    <2>1. failures' \in Nat
        BY <1>2 DEF Fail, CInv, TypeOK
    <2> QED
        BY <1>2, <2>1, EndsCInv DEF Fail
<1> QED
    BY SafeCreationAssumption, <1>1, <1>2, StartCInv, StepCInv DEF Next

LEMMA AlwaysCInv ==
    ASSUME SafeCreationAssumption
    PROVE  Spec => []CInv
    BY SafeCreationAssumption, InitCInv, NextCInv, PTL DEF Spec

\* Rows of Safe and SafeOwner keep their types; in particular a safe is created,
\* pending or deleted, whichever entity a late save writes.
THEOREM SafeTypeCorrect ==
    ASSUME SafeCreationAssumption
    PROVE  Spec => []TypeOK
<1>1. CInv => TypeOK
    BY DEF CInv
<1> QED
    BY SafeCreationAssumption, <1>1, AlwaysCInv, PTL

LEMMA CInvKeys == CInv => CreatedHasEveryKey
    BY DEF CInv, RowsFit, Holds, CreatedHasEveryKey

\* The address of a safe is built from the keys of exactly its owners, and no owner
\* of a created safe is without a key, also when confirmations, deletions and
\* recoveries run concurrently or stop halfway.
THEOREM CreatedHasEveryKeyAlways ==
    ASSUME SafeCreationAssumption
    PROVE  Spec => []CreatedHasEveryKey
    BY SafeCreationAssumption, CInvKeys, AlwaysCInv, PTL

-----------------------------------------------------------------------------
(* What a client is shown of a safe.  The row of the safe is read before its *)
(* owners, so the proof follows what a row that was once pending, or once    *)
(* created, says of the rows of SafeOwner from then on.                      *)

\* Who inserts the owners is the creator, and a late save keeps who that is.
CreatorOK(l, j, m) ==
    /\ l = "insertOwners" => safes[j.safe].creator = j.user
    /\ l \in Holding \ Inserting => m.row.creator = safes[j.safe].creator
Creators == \A r \in Reqs : CreatorOK(pc[r], job[r], mem[r])

\* The owners of a safe that is being created or was: none, or all of them with the
\* creator's key.
Unlisted(s) == \A u \in Users : owners[s][u] = "absent"
Listed(s) ==
    /\ safes[s].creator \in Users /\ owners[s][safes[s].creator] = "signed"
    /\ \A u \in Users : owners[s][u] # "absent" <=> u \in safes[s].owners

WasPending(s) ==
    /\ safes[s].status # "none"
    /\ \A r \in Reqs : pc[r] = "recoverOwners" => job[r].safe # s
    /\ Unlisted(s) \/ Listed(s)

WasCreated(s) ==
    /\ safes[s].status # "none"
    /\ \A r \in Reqs : pc[r] = "insertOwners" /\ job[r].safe = s => job[r].owners = {job[r].user}
    /\ ~Holds(s, "keyless")

PInv ==
    /\ CInv /\ Creators
    /\ \A s \in Safes : safes[s].status = "pending" => WasPending(s)

-----------------------------------------------------------------------------
(* What one step does. *)

Steps(r) == Start(r) \/ Step(r) \/ Fail(r)

LEMMA OtherHandlersStay ==
    ASSUME TypeOK, NEW r \in Reqs, Steps(r), NEW q \in Reqs \ {r}
    PROVE  pc'[q] = pc[q] /\ job'[q] = job[q] /\ mem'[q] = mem[q]
<1>1. CASE Start(r)
    BY ZenonT(40), <1>1 DEF Start, StartCreate, StartRecover, StartConfirm, StartDelete, Begin, Goto, TypeOK
<1>2. CASE Fail(r)
    BY <1>2 DEF Fail, Finish, Goto, TypeOK
<1>3. CASE InsertSafe(r) \/ InsertOwners(r) \/ InsertRecovered(r)
    BY <1>3 DEF InsertSafe, InsertOwners, InsertRecovered, Finish, Goto, TypeOK
<1>4. CASE ReadOwners(r) \/ FindHash(r) \/ RecoverOwner(r)
    BY <1>4 DEF ReadOwners, FindHash, RecoverOwner, Finish, Goto, TypeOK
<1>5. CASE SaveKey(r) \/ SaveCreated(r) \/ SaveDeleted(r)
    BY <1>5 DEF SaveKey, SaveCreated, SaveDeleted, Finish, Goto, TypeOK
<1> QED
    BY <1>1, <1>2, <1>3, <1>4, <1>5 DEF Steps, Step

Inserts(r, s) ==
    /\ safes[s].status = "none"
    /\ InsertSafe(r) \/ InsertRecovered(r)
    /\ job'[r].safe = s
    /\ InsertRecovered(r) => safes'[s].status = "created"
    /\ safes'[s].creator = job'[r].user

Keeps(s) ==
    /\ safes[s].status # "none" /\ safes'[s].status \in {"created", "deleted"}
    /\ safes'[s].creator = safes[s].creator /\ safes'[s].owners = safes[s].owners

\* Rows of Safe are inserted, and saved by handlers that have read them.
LEMMA RowsChange ==
    ASSUME PInv, NEW r \in Reqs, Steps(r), NEW s \in Safes
    PROVE  safes'[s] = safes[s] \/ Inserts(r, s) \/ Keeps(s)
<1>0. /\ TypeOK /\ HandlerOK(pc[r], job[r], mem[r]) /\ CreatorOK(pc[r], job[r], mem[r])
      /\ job[r] \in Job /\ mem[r] \in Mem
    BY DEF PInv, CInv, TypeOK, HandlersOK, Creators
<1>1. CASE InsertSafe(r)
    <2> DEFINE sole == job[r].owners = {job[r].user}
               row == [status |-> IF sole THEN "created" ELSE "pending", creator |-> job[r].user,
                       owners |-> job[r].owners, threshold |-> job[r].threshold,
                       keys |-> IF sole THEN job[r].owners ELSE {}]
    <2>1. PICK t \in Safes :
              /\ safes[t].status = "none"
              /\ safes' = [safes EXCEPT ![t] = row] /\ job' = [job EXCEPT ![r].safe = t]
        BY <1>1 DEF InsertSafe, NextRow
    <2>2. job'[r].safe = t /\ job'[r].user = job[r].user
        BY <1>0, <2>1 DEF TypeOK, Job
    <2>3. row.creator = job[r].user
        OBVIOUS
    <2> HIDE DEF row
    <2>4. safes'[s] = IF s = t THEN row ELSE safes[s]
        BY <1>0, <2>1 DEF TypeOK
    <2>5. ~InsertRecovered(r)
        BY <1>1 DEF InsertSafe, InsertRecovered, At
    <2> QED
        BY <1>1, <2>1, <2>2, <2>3, <2>4, <2>5 DEF Inserts
<1>2. CASE InsertRecovered(r)
    <2> DEFINE row == [status |-> "created", creator |-> job[r].user, owners |-> job[r].owners,
                       threshold |-> job[r].threshold, keys |-> job[r].owners]
    <2>1. PICK t \in Safes :
              /\ safes[t].status = "none"
              /\ safes' = [safes EXCEPT ![t] = row] /\ job' = [job EXCEPT ![r].safe = t]
        BY <1>2 DEF InsertRecovered, NextRow
    <2>2. job'[r].safe = t /\ job'[r].user = job[r].user
        BY <1>0, <2>1 DEF TypeOK, Job
    <2>3. row.creator = job[r].user /\ row.status = "created"
        OBVIOUS
    <2> HIDE DEF row
    <2>4. safes'[s] = IF s = t THEN row ELSE safes[s]
        BY <1>0, <2>1 DEF TypeOK
    <2> QED
        BY <1>2, <2>1, <2>2, <2>3, <2>4 DEF Inserts
<1>3. CASE SaveCreated(r) \/ SaveDeleted(r)
    <2>1. PICK row : /\ safes' = [safes EXCEPT ![job[r].safe] = row]
                     /\ row.status \in {"created", "deleted"}
                     /\ row.creator = mem[r].row.creator /\ row.owners = mem[r].row.owners
        <3>1. mem[r].row \in SafeRow
            BY <1>0 DEF Mem
        <3>2. CASE SaveCreated(r)
            <4> DEFINE row == [mem[r].row EXCEPT !.status = "created", !.keys = mem[r].listed]
            <4>1. row.status = "created" /\ row.creator = mem[r].row.creator /\ row.owners = mem[r].row.owners
                BY <3>1 DEF SafeRow
            <4>2. safes' = [safes EXCEPT ![job[r].safe] = row]
                BY <3>2 DEF SaveCreated
            <4> HIDE DEF row
            <4> QED
                BY <4>1, <4>2
        <3>3. CASE SaveDeleted(r)
            <4> DEFINE row == [mem[r].row EXCEPT !.status = "deleted"]
            <4>1. row.status = "deleted" /\ row.creator = mem[r].row.creator /\ row.owners = mem[r].row.owners
                BY <3>1 DEF SafeRow
            <4>2. safes' = [safes EXCEPT ![job[r].safe] = row]
                BY <3>3 DEF SaveDeleted
            <4> HIDE DEF row
            <4> QED
                BY <4>1, <4>2
        <3> QED
            BY <1>3, <3>2, <3>3
    <2>2. pc[r] \in Holding \ Inserting
        BY <1>3 DEF SaveCreated, SaveDeleted, At, Holding, Inserting
    <2>3. safes'[s] = IF s = job[r].safe THEN row ELSE safes[s]
        BY <1>0, <2>1 DEF TypeOK
    <2>4. s = job[r].safe => /\ safes[s].status # "none"
                             /\ row.creator = safes[s].creator /\ row.owners = safes[s].owners
        BY <1>0, <2>1, <2>2 DEF HandlerOK, CreatorOK
    <2> QED
        BY <2>1, <2>3, <2>4 DEF Keeps
<1>4. CASE InsertOwners(r) \/ ReadOwners(r) \/ SaveKey(r) \/ FindHash(r) \/ RecoverOwner(r)
    BY <1>4 DEF InsertOwners, ReadOwners, SaveKey, FindHash, RecoverOwner
<1>5. CASE Start(r) \/ Fail(r)
    BY <1>5 DEF Start, StartCreate, StartRecover, StartConfirm, StartDelete, Begin, Fail
<1> QED
    BY <1>1, <1>2, <1>3, <1>4, <1>5 DEF Steps, Step

\* Who comes to insert owners has just inserted the row of the safe.
LEMMA ComesToInsert ==
    ASSUME PInv, NEW r \in Reqs, Steps(r)
    PROVE  /\ pc'[r] = "insertOwners" => InsertSafe(r)
           /\ pc'[r] = "recoverOwners" =>
                  InsertRecovered(r) \/ (pc[r] = "recoverOwners" /\ job'[r] = job[r])
<1>0. TypeOK
    BY DEF PInv, CInv
<1>1. CASE Start(r)
    BY <1>0, <1>1 DEF Start, StartCreate, StartRecover, StartConfirm, StartDelete, Begin, Goto, TypeOK
<1>2. CASE Fail(r)
    BY <1>0, <1>2 DEF Fail, Finish, Goto, TypeOK
<1>3. CASE InsertSafe(r) \/ InsertRecovered(r)
    BY <1>0, <1>3 DEF InsertSafe, InsertRecovered, Goto, TypeOK
<1>4. CASE RecoverOwner(r)
    BY <1>0, <1>4 DEF RecoverOwner, At, Finish, Goto, TypeOK
<1>5. CASE InsertOwners(r) \/ ReadOwners(r) \/ SaveKey(r) \/ SaveCreated(r) \/ SaveDeleted(r) \/ FindHash(r)
    BY <1>0, <1>5 DEF InsertOwners, ReadOwners, SaveKey, SaveCreated, SaveDeleted, FindHash,
                      Finish, Goto, TypeOK
<1> QED
    BY <1>1, <1>2, <1>3, <1>4, <1>5 DEF Steps, Step

\* Rows of SafeOwner are inserted once for all owners, or get a key.
GetsKey(r, s, u) ==
    /\ owners'[s] = [owners[s] EXCEPT ![u] = "signed"]
    /\ \/ pc[r] = "recoverOwners"
       \/ pc[r] = "saveKey" /\ owners[s][u] # "absent"
GetsRows(r, s) ==
    /\ pc[r] = "insertOwners" /\ job[r].user \in Users
    /\ job[r].owners = safes[s].owners /\ safes'[s] = safes[s] /\ safes[s].creator = job[r].user
    /\ job[r].user \in job[r].owners
    /\ \A u \in Users : owners'[s][u] = IF u = job[r].user THEN "signed"
                                        ELSE IF u \in job[r].owners THEN "keyless" ELSE "absent"

LEMMA OwnersChange ==
    ASSUME PInv, NEW r \in Reqs, Steps(r), NEW s \in Safes
    PROVE  \/ owners'[s] = owners[s]
           \/ job[r].safe = s /\ (GetsRows(r, s) \/ \E u \in Users : GetsKey(r, s, u))
<1>0. /\ TypeOK /\ HandlerOK(pc[r], job[r], mem[r]) /\ CreatorOK(pc[r], job[r], mem[r])
      /\ job[r] \in Job /\ mem[r] \in Mem
    BY DEF PInv, CInv, TypeOK, HandlersOK, Creators
<1>1. CASE InsertOwners(r)
    <2>1. /\ pc[r] = "insertOwners" /\ job[r].safe \in Safes /\ UNCHANGED safes
          /\ job[r].owners = safes[job[r].safe].owners /\ safes[job[r].safe].creator = job[r].user
          /\ job[r].user \in job[r].owners /\ job[r].user \in Users
        BY <1>0, <1>1 DEF InsertOwners, At, HandlerOK, CreatorOK, Holding, Inserting
    <2>2. \/ job[r].safe # s /\ owners'[s] = owners[s]
          \/ /\ job[r].safe = s
             /\ \A u \in Users : owners'[s][u] = IF u = job[r].user THEN "signed"
                                        ELSE IF u \in job[r].owners THEN "keyless" ELSE "absent"
        BY <1>0, <1>1, <2>1 DEF InsertOwners, TypeOK
    <2> QED
        BY <2>1, <2>2 DEF GetsRows
<1>2. CASE SaveKey(r)
    <2>1. /\ pc[r] = "saveKey" /\ job[r].safe \in Safes /\ job[r].user \in Users
          /\ owners[job[r].safe][job[r].user] # "absent"
        BY <1>0, <1>2 DEF SaveKey, At, HandlerOK, Holding
    <2>2. owners' = [owners EXCEPT ![job[r].safe][job[r].user] = "signed"]
        BY <1>2 DEF SaveKey
    <2> QED
        BY <1>0, <2>1, <2>2 DEF GetsKey, TypeOK
<1>3. CASE RecoverOwner(r)
    <2>1. pc[r] = "recoverOwners" /\ job[r].safe \in Safes
        BY <1>0, <1>3 DEF RecoverOwner, At, HandlerOK, Holding
    <2>2. PICK u \in job[r].owners : owners' = [owners EXCEPT ![job[r].safe][u] = "signed"]
        BY <1>3 DEF RecoverOwner
    <2>3. u \in Users
        BY <1>0 DEF Job
    <2> QED
        BY <1>0, <2>1, <2>2, <2>3 DEF GetsKey, TypeOK
<1>4. CASE InsertSafe(r) \/ InsertRecovered(r) \/ ReadOwners(r) \/ SaveCreated(r) \/ SaveDeleted(r) \/ FindHash(r)
    BY <1>4 DEF InsertSafe, InsertRecovered, ReadOwners, SaveCreated, SaveDeleted, FindHash
<1>5. CASE Start(r) \/ Fail(r)
    BY <1>5 DEF Start, StartCreate, StartRecover, StartConfirm, StartDelete, Begin, Fail
<1> QED
    BY <1>1, <1>2, <1>3, <1>4, <1>5 DEF Steps, Step

-----------------------------------------------------------------------------
(* What stays true of a safe. *)

LEMMA RowStays ==
    ASSUME PInv, NEW r \in Reqs, Steps(r), NEW s \in Safes, safes[s].status # "none"
    PROVE  /\ safes'[s].status # "none"
           /\ safes'[s].creator = safes[s].creator /\ safes'[s].owners = safes[s].owners
    BY RowsChange DEF Inserts, Keeps

LEMMA WasPendingStays ==
    ASSUME PInv, NEW r \in Reqs, Steps(r), NEW s \in Safes, WasPending(s)
    PROVE  WasPending(s)'
<1>0. TypeOK /\ safes[s].status # "none"
    BY DEF PInv, CInv, WasPending
<1>1. /\ safes'[s].status # "none"
      /\ safes'[s].creator = safes[s].creator /\ safes'[s].owners = safes[s].owners
    BY <1>0, RowStays
<1>2. ASSUME NEW q \in Reqs, pc'[q] = "recoverOwners" PROVE job'[q].safe # s
    <2>1. CASE q = r /\ InsertRecovered(r)
        <3>1. PICK t \in Safes : safes[t].status = "none" /\ job' = [job EXCEPT ![r].safe = t]
            BY <2>1 DEF InsertRecovered, NextRow
        <3> QED
            BY <1>0, <2>1, <3>1 DEF TypeOK, Job
    <2>2. CASE q # r \/ (pc[r] = "recoverOwners" /\ job'[r] = job[r])
        <3>1. pc[q] = "recoverOwners" /\ job'[q] = job[q]
            BY <1>0, <1>2, <2>2, OtherHandlersStay, ComesToInsert
        <3> QED
            BY <3>1 DEF WasPending
    <2> QED
        BY <1>2, <2>1, <2>2, ComesToInsert
<1>3. Unlisted(s)' \/ Listed(s)'
    <2>1. CASE owners'[s] = owners[s]
        BY <1>1, <2>1 DEF WasPending, Unlisted, Listed
    <2>2. CASE GetsRows(r, s)
        BY <1>1, <2>2 DEF GetsRows, Listed
    <2>3. ASSUME NEW u \in Users, job[r].safe = s, GetsKey(r, s, u) PROVE Listed(s)'
        <3>1. owners[s][u] # "absent" /\ owners'[s] = [owners[s] EXCEPT ![u] = "signed"]
            BY <2>3 DEF GetsKey, WasPending
        <3>2. Listed(s)
            BY <3>1 DEF WasPending, Unlisted
        <3> QED
            BY <1>0, <1>1, <3>1, <3>2 DEF Listed, TypeOK
    <2> QED
        BY <2>1, <2>2, <2>3, OwnersChange
<1> QED
    BY <1>1, <1>2, <1>3 DEF WasPending

LEMMA WasCreatedStays ==
    ASSUME PInv, NEW r \in Reqs, Steps(r), NEW s \in Safes, WasCreated(s)
    PROVE  WasCreated(s)'
<1>0. TypeOK /\ safes[s].status # "none"
    BY DEF PInv, CInv, WasCreated
<1>1. safes'[s].status # "none"
    BY <1>0, RowStays
<1>2. ASSUME NEW q \in Reqs, pc'[q] = "insertOwners", job'[q].safe = s
      PROVE  job'[q].owners = {job'[q].user}
    <2>1. CASE q = r
        <3>1. PICK t \in Safes : safes[t].status = "none" /\ job' = [job EXCEPT ![r].safe = t]
            BY <1>2, <2>1, ComesToInsert DEF InsertSafe, NextRow
        <3> QED
            BY <1>0, <1>2, <2>1, <3>1 DEF TypeOK, Job
    <2>2. CASE q # r
        BY <1>0, <1>2, <2>2, OtherHandlersStay DEF WasCreated
    <2> QED
        BY <2>1, <2>2
<1>3. ~Holds(s, "keyless")'
    <2>1. CASE owners'[s] = owners[s]
        BY <2>1 DEF WasCreated, Holds
    <2>2. CASE job[r].safe = s /\ GetsRows(r, s)
        BY <2>2 DEF GetsRows, WasCreated, Holds
    <2>3. ASSUME NEW u \in Users, job[r].safe = s, GetsKey(r, s, u) PROVE ~Holds(s, "keyless")'
        BY <1>0, <2>3 DEF GetsKey, WasCreated, Holds, TypeOK
    <2> QED
        BY <2>1, <2>2, <2>3, OwnersChange
<1> QED
    BY <1>1, <1>2, <1>3 DEF WasCreated

LEMMA CreatedIsCreated ==
    ASSUME CInv, NEW s \in Safes, safes[s].status = "created"
    PROVE  WasCreated(s)
    BY DEF CInv, HandlersOK, HandlerOK, RowsFit, WasCreated, Holds, Inserting

-----------------------------------------------------------------------------
(* The invariant of the two tables. *)

LEMMA InitPInv ==
    ASSUME SafeCreationAssumption
    PROVE  Init => PInv
<1> SUFFICES ASSUME Init PROVE PInv
    OBVIOUS
<1>1. Creators
    BY DEF Init, Creators, CreatorOK, Holding, Inserting
<1>2. \A s \in Safes : safes[s].status # "pending"
    BY DEF Init, NoSafe
<1> QED
    BY SafeCreationAssumption, <1>1, <1>2, InitCInv DEF PInv

LEMMA CreatorsStay ==
    ASSUME PInv, NEW r \in Reqs, Steps(r)
    PROVE  Creators'
<1>0. /\ TypeOK /\ HandlersOK /\ Creators /\ HandlerOK(pc[r], job[r], mem[r])
      /\ CreatorOK(pc[r], job[r], mem[r]) /\ job[r] \in Job /\ mem[r] \in Mem
    BY DEF PInv, CInv, TypeOK, HandlersOK, Creators
<1> SUFFICES ASSUME NEW q \in Reqs PROVE CreatorOK(pc[q], job[q], mem[q])'
    BY DEF Creators
<1>1. CASE q # r
    <2>1. pc'[q] = pc[q] /\ job'[q] = job[q] /\ mem'[q] = mem[q]
        BY <1>0, <1>1, OtherHandlersStay
    <2>2. HandlerOK(pc[q], job[q], mem[q]) /\ CreatorOK(pc[q], job[q], mem[q])
        BY <1>0 DEF HandlersOK, Creators
    <2>3. pc[q] \in Holding => safes'[job[q].safe].creator = safes[job[q].safe].creator
        BY <2>2, RowStays DEF HandlerOK
    <2>4. "insertOwners" \in Holding
        BY DEF Holding
    <2> QED
        BY <2>1, <2>2, <2>3, <2>4 DEF CreatorOK
<1>2. CASE q = r
    <2>1. pc'[r] = "insertOwners" => safes'[job'[r].safe].creator = job'[r].user
        <3>1. ASSUME InsertSafe(r) PROVE safes'[job'[r].safe].creator = job'[r].user
            <4> DEFINE sole == job[r].owners = {job[r].user}
                       row == [status |-> IF sole THEN "created" ELSE "pending",
                               creator |-> job[r].user, owners |-> job[r].owners,
                               threshold |-> job[r].threshold,
                               keys |-> IF sole THEN job[r].owners ELSE {}]
            <4>1. PICK t \in Safes : safes' = [safes EXCEPT ![t] = row]
                                     /\ job' = [job EXCEPT ![r].safe = t]
                BY <3>1 DEF InsertSafe
            <4>2. row.creator = job[r].user
                OBVIOUS
            <4> HIDE DEF row
            <4> QED
                BY <1>0, <4>1, <4>2 DEF TypeOK, Job
        <3> QED
            BY <3>1, ComesToInsert
    <2>2. pc'[r] \in Holding \ Inserting => mem'[r].row.creator = safes'[job'[r].safe].creator
        <3>1. CASE Start(r)
            <4>1. ASSUME NEW u \in Users, NEW s \in Safes, StartConfirm(r, u, s) \/ StartDelete(r, u, s)
                  PROVE  mem'[r].row.creator = safes'[job'[r].safe].creator
                <5>1. /\ mem' = [mem EXCEPT ![r].row = safes[s]] /\ UNCHANGED safes
                      /\ job' = [job EXCEPT ![r] = [user |-> u, safe |-> s, owners |-> {}, threshold |-> 0]]
                    BY <4>1 DEF StartConfirm, StartDelete, Begin
                <5>2. mem'[r].row = safes[s] /\ job'[r].safe = s
                    BY <1>0, <5>1 DEF TypeOK, Mem
                <5> QED
                    BY <5>1, <5>2
            <4>2. ASSUME NEW u \in Users, NEW O, NEW k,
                         StartCreate(r, u, O, k) \/ StartRecover(r, u, O, k)
                  PROVE  pc'[r] \notin Holding
                BY <1>0, <4>2 DEF StartCreate, StartRecover, Begin, Goto, TypeOK, Holding
            <4> QED
                BY <3>1, <4>1, <4>2 DEF Start
        <3>2. CASE ReadOwners(r) \/ SaveKey(r)
            <4>1. CASE Finish(r)
                BY <1>0, <4>1 DEF Finish, Goto, TypeOK, Holding
            <4>2. CASE ~Finish(r)
                <5>1. UNCHANGED <<safes, job>> /\ pc[r] \in Holding \ Inserting
                    BY <3>2, <4>2 DEF ReadOwners, SaveKey, At, Holding, Inserting
                <5>2. mem'[r].row = mem[r].row
                    BY <1>0, <3>2, <4>2 DEF ReadOwners, SaveKey, TypeOK, Mem
                <5> QED
                    BY <1>0, <5>1, <5>2 DEF CreatorOK
            <4> QED
                BY <4>1, <4>2
        <3>3. CASE InsertSafe(r) \/ InsertRecovered(r) \/ FindHash(r)
            BY <1>0, <3>3 DEF InsertSafe, InsertRecovered, FindHash, Finish, Goto, TypeOK, Holding, Inserting
        <3>4. CASE InsertOwners(r) \/ SaveCreated(r) \/ SaveDeleted(r) \/ Fail(r)
            BY <1>0, <3>4 DEF InsertOwners, SaveCreated, SaveDeleted, Fail, Finish, Goto, TypeOK, Holding
        <3>5. CASE RecoverOwner(r)
            BY <1>0, <3>5 DEF RecoverOwner, At, Finish, Goto, TypeOK, Holding, Inserting
        <3> QED
            BY <3>1, <3>2, <3>3, <3>4, <3>5 DEF Steps, Step
    <2> QED
        BY <1>2, <2>1, <2>2 DEF CreatorOK
<1> QED
    BY <1>1, <1>2

\* A row that is new and pending has no owners yet, and nobody recovers it.
LEMMA NewIsPending ==
    ASSUME PInv, NEW r \in Reqs, Steps(r), NEW s \in Safes, Inserts(r, s),
           safes'[s].status = "pending"
    PROVE  WasPending(s)'
<1>0. TypeOK /\ InsertSafe(r) /\ safes[s].status = "none"
    BY DEF PInv, CInv, Inserts
<1>1. \A u \in Users : owners[s][u] = "absent"
    BY <1>0 DEF PInv, CInv, RowsFit
<1>2. UNCHANGED owners /\ pc'[r] = "insertOwners"
    BY <1>0 DEF InsertSafe, Goto, TypeOK
<1>3. ASSUME NEW q \in Reqs, pc'[q] = "recoverOwners" PROVE job'[q].safe # s
    <2>1. pc[q] = "recoverOwners" /\ job'[q] = job[q]
        BY <1>0, <1>2, <1>3, OtherHandlersStay
    <2>2. HandlerOK(pc[q], job[q], mem[q])
        BY DEF PInv, CInv, HandlersOK
    <2> QED
        BY <1>0, <2>1, <2>2 DEF HandlerOK, Holding
<1> QED
    BY <1>1, <1>2, <1>3 DEF WasPending, Unlisted

LEMMA NextPInv ==
    ASSUME SafeCreationAssumption
    PROVE  PInv /\ [Next]_vars => PInv'
<1> SUFFICES ASSUME PInv, [Next]_vars PROVE PInv'
    OBVIOUS
<1>0. CInv'
    BY SafeCreationAssumption, NextCInv DEF PInv
<1>1. CASE UNCHANGED vars
    BY <1>0, <1>1 DEF vars, PInv, Creators, CreatorOK, WasPending, Unlisted, Listed
<1>2. ASSUME NEW r \in Reqs, Steps(r) PROVE PInv'
    <2>1. ASSUME NEW s \in Safes, safes'[s].status = "pending" PROVE WasPending(s)'
        <3>1. CASE safes'[s] = safes[s]
            <4>1. WasPending(s)
                BY <2>1, <3>1 DEF PInv
            <4> QED
                BY <1>2, <4>1, WasPendingStays
        <3>2. CASE Inserts(r, s)
            BY <1>2, <2>1, <3>2, NewIsPending
        <3>3. ~Keeps(s)
            BY <2>1 DEF Keeps
        <3> QED
            BY <1>2, <3>1, <3>2, <3>3, RowsChange
    <2> QED
        BY <1>0, <1>2, <2>1, CreatorsStay DEF PInv
<1> QED
    BY <1>1, <1>2 DEF Next, Steps

-----------------------------------------------------------------------------
(* The answer. *)

Sights == [at : {"none", "owners", "balance", "answered", "error"},
           safe : Safes \union {None}, row : SafeRow, owners : SUBSET Users,
           confirms : SUBSET Users, balance : Balances \union {{}, {"0"}, {"-1"}}]

\* The row says what is still true of the safe.
RowHolds(s, row) ==
    /\ s \in Safes
    /\ row.status = "created" => WasCreated(s)
    /\ row.status = "pending" =>
          WasPending(s) /\ row.creator = safes[s].creator /\ row.owners = safes[s].owners

Explained(a) ==
    /\ a.row.status = "created" => a.confirms = a.owners
    /\ a.row.status = "pending" => a.owners = a.row.owners /\ a.row.creator \in a.confirms

VInv ==
    /\ PInv /\ sight \in Sights
    /\ sight.at = "owners" => RowHolds(sight.safe, sight.row)
    /\ sight.at \in {"balance", "answered"} => Explained(sight)

\* Owners that are read later, and are there, explain the row.
LEMMA OwnersExplain ==
    ASSUME PInv, NEW s, NEW row, RowHolds(s, row), Present(s) # {}
    PROVE  /\ row.status = "created" => Signed(s) = Present(s)
           /\ row.status = "pending" => Present(s) = row.owners /\ row.creator \in Signed(s)
<1>0. s \in Safes /\ TypeOK
    BY DEF RowHolds, PInv, CInv
<1>1. ASSUME row.status = "created" PROVE Signed(s) = Present(s)
    BY <1>0, <1>1 DEF RowHolds, WasCreated, Holds, Signed, Present, TypeOK
<1>2. ASSUME row.status = "pending" PROVE Present(s) = row.owners /\ row.creator \in Signed(s)
    <2>1. Listed(s) /\ row.creator = safes[s].creator /\ row.owners = safes[s].owners
        BY <1>2 DEF RowHolds, WasPending, Unlisted, Present
    <2>2. safes[s].owners \subseteq Users
        BY <1>0 DEF TypeOK, SafeRow
    <2> QED
        BY <2>1, <2>2 DEF Listed, Signed, Present
<1> QED
    BY <1>1, <1>2

LEMMA LookVInv ==
    ASSUME VInv, Look
    PROVE  VInv'
<1>0. UNCHANGED vars
    BY DEF Look, OpenSafe, ReadSafeOwners, ReadBalance, CloseSafe, OpenList
<1>1. PInv'
    BY <1>0 DEF VInv, PInv, CInv, vars, TypeOK, HandlersOK, HandlerOK, RowsFit, Holds, OneInserter,
                Creators, CreatorOK, WasPending, Unlisted, Listed
<1>2. \A s, row : RowHolds(s, row) <=> RowHolds(s, row)'
    BY <1>0 DEF vars, RowHolds, WasPending, WasCreated, Unlisted, Listed, Holds
<1>3. ASSUME NEW s \in Safes, OpenSafe(s) PROVE VInv'
    <2>1. safes[s] \in SafeRow /\ NoSight \in Sights
        BY DEF VInv, PInv, CInv, TypeOK, NoSight, NoSafe, SafeRow, Sights
    <2>2. sight' = [NoSight EXCEPT !.at = "owners", !.safe = s, !.row = safes[s]]
        BY <1>3 DEF OpenSafe
    <2>3. sight' \in Sights /\ sight'.at = "owners" /\ sight'.safe = s /\ sight'.row = safes[s]
        BY <2>1, <2>2 DEF Sights
    <2>4. RowHolds(s, safes[s])
        BY CreatedIsCreated DEF RowHolds, VInv, PInv
    <2> QED
        BY <1>1, <1>2, <2>3, <2>4 DEF VInv
<1>4. CASE ReadSafeOwners
    <2> DEFINE s == sight.safe
               at == IF Present(s) = {} THEN "error" ELSE "balance"
    <2>1. sight' = [sight EXCEPT !.owners = Present(s), !.confirms = Signed(s), !.at = at]
        BY <1>4 DEF ReadSafeOwners
    <2>2. Present(s) \in SUBSET Users /\ Signed(s) \in SUBSET Users
        BY DEF Present, Signed
    <2>3. /\ sight' \in Sights /\ sight'.owners = Present(s) /\ sight'.confirms = Signed(s)
          /\ sight'.at = at /\ sight'.row = sight.row
        BY <2>1, <2>2 DEF VInv, Sights
    <2>4. at = "balance" => Explained(sight')
        <3>1. RowHolds(s, sight.row)
            BY <1>4 DEF ReadSafeOwners, VInv
        <3> QED
            BY <2>3, <3>1, OwnersExplain DEF VInv, Explained
    <2> QED
        BY <1>1, <2>3, <2>4 DEF VInv, Explained
<1>5. CASE ReadBalance
    <2>1. PICK coins \in Balances \union {{}, {"0"}, {"-1"}} :
              sight' = [sight EXCEPT !.at = "answered", !.balance = coins]
        <3>1. CASE sight' = [sight EXCEPT !.at = "answered"]
            <4>1. sight' = [sight EXCEPT !.at = "answered", !.balance = sight.balance]
                BY <3>1 DEF VInv, Sights
            <4> QED
                BY <4>1 DEF VInv, Sights
        <3>2. CASE \E coins \in Balances \union {{"-1"}} :
                     sight' = [sight EXCEPT !.at = "answered",
                                            !.balance = IF coins = {} THEN {"0"} ELSE coins]
            BY <3>2
        <3> QED
            BY <1>5, <3>1, <3>2 DEF ReadBalance
    <2>2. /\ sight' \in Sights /\ sight'.at = "answered" /\ sight'.row = sight.row
          /\ sight'.owners = sight.owners /\ sight'.confirms = sight.confirms
        BY <2>1 DEF VInv, Sights
    <2>3. Explained(sight)
        BY <1>5 DEF ReadBalance, VInv
    <2> QED
        BY <1>1, <2>2, <2>3 DEF VInv, Explained
<1>6. CASE CloseSafe
    <2>1. NoSight \in Sights
        BY DEF NoSight, NoSafe, SafeRow, Sights
    <2> QED
        BY <1>1, <1>6, <2>1 DEF CloseSafe, VInv, NoSight
<1>7. ASSUME NEW u \in Users, OpenList(u) PROVE VInv'
    <2>1. UNCHANGED sight
        BY <1>7 DEF OpenList
    <2> QED
        BY <1>1, <1>2, <2>1 DEF VInv, Explained
<1> QED
    BY <1>3, <1>4, <1>5, <1>6, <1>7 DEF Look

\* While handlers run, what the row says stays true of the safe.
LEMMA HandlersVInv ==
    ASSUME SafeCreationAssumption, VInv, [Next]_vars, UNCHANGED sight
    PROVE  VInv'
<1>1. PInv'
    BY SafeCreationAssumption, NextPInv DEF VInv
<1>2. ASSUME NEW s, NEW row, RowHolds(s, row) PROVE RowHolds(s, row)'
    <2>1. CASE UNCHANGED vars
        BY <1>2, <2>1 DEF vars, RowHolds, WasPending, WasCreated, Unlisted, Listed, Holds
    <2>2. ASSUME NEW r \in Reqs, Steps(r) PROVE RowHolds(s, row)'
        <3>1. PInv /\ s \in Safes
            BY <1>2 DEF VInv, RowHolds
        <3>2. row.status = "created" => WasCreated(s)'
            BY <1>2, <2>2, <3>1, WasCreatedStays DEF RowHolds
        <3>3. row.status = "pending" =>
                  WasPending(s)' /\ row.creator = safes'[s].creator /\ row.owners = safes'[s].owners
            BY <1>2, <2>2, <3>1, WasPendingStays, RowStays DEF RowHolds, WasPending
        <3> QED
            BY <3>1, <3>2, <3>3 DEF RowHolds
    <2> QED
        BY <2>1, <2>2 DEF Next, Steps
<1> QED
    BY <1>1, <1>2 DEF VInv, Explained

LEMMA InitVInv ==
    ASSUME SafeCreationAssumption
    PROVE  ViewInit => VInv
<1>1. NoSight \in Sights
    BY DEF NoSight, NoSafe, SafeRow, Sights
<1> QED
    BY SafeCreationAssumption, <1>1, InitPInv DEF ViewInit, VInv, NoSight

LEMMA NextVInv ==
    ASSUME SafeCreationAssumption
    PROVE  VInv /\ [ViewNext]_allVars => VInv'
    BY SafeCreationAssumption, LookVInv, HandlersVInv DEF ViewNext, allVars

LEMMA VInvExplains == VInv => ShownCreatedIsConfirmed
    BY DEF VInv, Explained, ShownCreatedIsConfirmed

\* However many handlers run between the queries of an answer: a safe that is shown
\* as created is shown with no owner who has not confirmed, and one that is shown
\* as pending with all its owners and its creator's confirmation.
THEOREM ShownCreatedIsConfirmedAlways ==
    ASSUME SafeCreationAssumption
    PROVE  ViewSpec => []ShownCreatedIsConfirmed
    BY SafeCreationAssumption, InitVInv, NextVInv, VInvExplains, PTL DEF ViewSpec

-----------------------------------------------------------------------------
(* The types of the answers. *)

\* The list shows no safe that is not there.
ListTyped == list \subseteq [safe : Safes, status : {"pending", "created", "deleted",
                                                     "needConfirm", "confirmed"}]

LEMMA ListStays == VInv /\ ListTyped /\ [ViewNext]_allVars => ListTyped'
<1> SUFFICES ASSUME VInv, ListTyped, [ViewNext]_allVars PROVE ListTyped'
    OBVIOUS
<1> DEFINE Statuses == {"pending", "created", "deleted", "needConfirm", "confirmed"}
<1>1. ASSUME NEW u \in Users, OpenList(u) PROVE ListTyped'
    <2>1. ASSUME NEW s \in Safes, u \in Present(s) PROVE ListStatus(s, u) \in Statuses
        <3>1. safes[s].status # "none" /\ safes[s] \in SafeRow
            BY <2>1 DEF VInv, PInv, CInv, TypeOK, RowsFit, Present
        <3>2. safes[s].status \in {"pending", "created", "deleted"}
            BY <3>1 DEF SafeRow, Live
        <3> QED
            BY <3>2 DEF ListStatus
    <2> HIDE DEF Statuses
    <2>2. \A row \in list' : \E s \in Safes :
              u \in Present(s) /\ row = [safe |-> s, status |-> ListStatus(s, u)]
        BY <1>1 DEF OpenList
    <2>3. \A row \in list' : row \in [safe : Safes, status : Statuses]
        BY <2>1, <2>2
    <2> QED
        BY <2>3 DEF ListTyped, Statuses
<1>2. CASE UNCHANGED list
    BY <1>2 DEF ListTyped
<1>3. UNCHANGED list \/ \E u \in Users : OpenList(u)
    BY DEF ViewNext, Look, OpenSafe, ReadSafeOwners, ReadBalance, CloseSafe, allVars
<1> QED
    BY <1>1, <1>2, <1>3

AnswersInv == VInv /\ ListTyped

LEMMA InitAnswers ==
    ASSUME SafeCreationAssumption
    PROVE  ViewInit => AnswersInv
    BY SafeCreationAssumption, InitVInv DEF ViewInit, AnswersInv, ListTyped

LEMMA NextAnswers ==
    ASSUME SafeCreationAssumption
    PROVE  AnswersInv /\ [ViewNext]_allVars => AnswersInv'
    BY SafeCreationAssumption, NextVInv, ListStays DEF AnswersInv

LEMMA AnswersTyped == AnswersInv => TypeOK /\ SightTypeOK
    BY DEF AnswersInv, VInv, PInv, CInv, Sights, ListTyped, SightTypeOK

-----------------------------------------------------------------------------
(* Requests that do not overlap on what they are about.  Handlers decide by *)
(* rows they have read, so the rest of this module names the overlap that   *)
(* each of its theorems excludes; handlers may still stop anywhere.         *)

\* No safe has two requests running.
OneRequestPerSafe ==
    \A q, r \in InFlight : job[q].safe \in Safes /\ job[q].safe = job[r].safe => q = r

\* No two requests are choosing a safe with the same owners and threshold.
Choosing == {"insertSafe", "findHash", "insertRecovered"}
OneRequestPerHash ==
    \A q, r \in Reqs :
        /\ pc[q] \in Choosing /\ pc[r] \in Choosing
        /\ job[q].owners = job[r].owners /\ job[q].threshold = job[r].threshold
        => q = r

Saving == {"saveCreated", "saveDeleted"}

NewRow(r, s) ==
    /\ safes[s].status = "none" /\ safes'[s].status \in Live
    /\ safes'[s].owners = job[r].owners /\ safes'[s].threshold = job[r].threshold
    /\ safes'[s].status = "pending" =>
          pc'[r] = "insertOwners" /\ job[r].owners # {job[r].user}
    /\ pc[r] \in {"insertSafe", "insertRecovered"} /\ job'[r].safe = s
    /\ job'[r].user = job[r].user /\ job'[r].owners = job[r].owners

Wrote(r, s) ==
    /\ pc[r] \in Saving /\ job[r].safe = s
    /\ safes'[s].owners = mem[r].row.owners /\ safes'[s].threshold = mem[r].row.threshold
    /\ safes'[s].status = IF pc[r] = "saveCreated" THEN "created" ELSE "deleted"

LEMMA RowsWritten ==
    ASSUME CInv, NEW r \in Reqs, Steps(r), NEW s \in Safes
    PROVE  safes'[s] = safes[s] \/ NewRow(r, s) \/ Wrote(r, s)
<1>0. TypeOK /\ job[r] \in Job /\ mem[r] \in Mem
    BY DEF CInv, TypeOK
<1>1. CASE InsertSafe(r)
    <2> DEFINE sole == job[r].owners = {job[r].user}
               row == [status |-> IF sole THEN "created" ELSE "pending", creator |-> job[r].user,
                       owners |-> job[r].owners, threshold |-> job[r].threshold,
                       keys |-> IF sole THEN job[r].owners ELSE {}]
    <2>1. PICK t \in Safes :
              /\ safes[t].status = "none"
              /\ safes' = [safes EXCEPT ![t] = row] /\ job' = [job EXCEPT ![r].safe = t]
        BY <1>1 DEF InsertSafe, NextRow
    <2>2. /\ pc[r] = "insertSafe" /\ pc'[r] = "insertOwners"
          /\ job'[r].safe = t /\ job'[r].user = job[r].user /\ job'[r].owners = job[r].owners
        BY <1>0, <1>1, <2>1 DEF InsertSafe, At, Goto, TypeOK, Job
    <2>3. /\ row.owners = job[r].owners /\ row.threshold = job[r].threshold /\ row.status \in Live
          /\ row.status = "pending" => job[r].owners # {job[r].user}
        BY DEF Live
    <2> HIDE DEF row
    <2>4. safes'[s] = IF s = t THEN row ELSE safes[s]
        BY <1>0, <2>1 DEF TypeOK
    <2> QED
        BY <2>1, <2>2, <2>3, <2>4 DEF NewRow
<1>2. CASE InsertRecovered(r)
    <2> DEFINE row == [status |-> "created", creator |-> job[r].user, owners |-> job[r].owners,
                       threshold |-> job[r].threshold, keys |-> job[r].owners]
    <2>1. PICK t \in Safes :
              /\ safes[t].status = "none"
              /\ safes' = [safes EXCEPT ![t] = row] /\ job' = [job EXCEPT ![r].safe = t]
        BY <1>2 DEF InsertRecovered, NextRow
    <2>2. /\ pc[r] = "insertRecovered"
          /\ job'[r].safe = t /\ job'[r].user = job[r].user /\ job'[r].owners = job[r].owners
        BY <1>0, <1>2, <2>1 DEF InsertRecovered, At, TypeOK, Job
    <2>3. row.owners = job[r].owners /\ row.threshold = job[r].threshold /\ row.status = "created"
        OBVIOUS
    <2> HIDE DEF row
    <2>4. safes'[s] = IF s = t THEN row ELSE safes[s]
        BY <1>0, <2>1 DEF TypeOK
    <2> QED
        BY <2>1, <2>2, <2>3, <2>4 DEF NewRow, Live
<1>3. CASE SaveCreated(r)
    <2> DEFINE row == [mem[r].row EXCEPT !.status = "created", !.keys = mem[r].listed]
    <2>1. row.status = "created" /\ row.owners = mem[r].row.owners /\ row.threshold = mem[r].row.threshold
        BY <1>0 DEF Mem, SafeRow
    <2>2. pc[r] = "saveCreated" /\ safes' = [safes EXCEPT ![job[r].safe] = row]
        BY <1>3 DEF SaveCreated, At
    <2> HIDE DEF row
    <2> QED
        BY <1>0, <2>1, <2>2 DEF TypeOK, Wrote, Saving
<1>4. CASE SaveDeleted(r)
    <2> DEFINE row == [mem[r].row EXCEPT !.status = "deleted"]
    <2>1. row.status = "deleted" /\ row.owners = mem[r].row.owners /\ row.threshold = mem[r].row.threshold
        BY <1>0 DEF Mem, SafeRow
    <2>2. pc[r] = "saveDeleted" /\ safes' = [safes EXCEPT ![job[r].safe] = row]
        BY <1>4 DEF SaveDeleted, At
    <2> HIDE DEF row
    <2> QED
        BY <1>0, <2>1, <2>2 DEF TypeOK, Wrote, Saving
<1>5. CASE InsertOwners(r) \/ ReadOwners(r) \/ SaveKey(r) \/ FindHash(r) \/ RecoverOwner(r)
    BY <1>5 DEF InsertOwners, ReadOwners, SaveKey, FindHash, RecoverOwner
<1>6. CASE Start(r) \/ Fail(r)
    BY <1>6 DEF Start, StartCreate, StartRecover, StartConfirm, StartDelete, Begin, Fail
<1> QED
    BY <1>1, <1>2, <1>3, <1>4, <1>5, <1>6 DEF Steps, Step

\* What a handler has found out when it reaches an await.
Finds(r) ==
    /\ pc'[r] \in {"insertSafe", "insertRecovered"} =>
          ~Duplicate(job'[r].owners, job'[r].threshold)
    /\ pc'[r] \in {"readOwners", "saveDeleted"} =>
          /\ job'[r].safe \in Safes
          /\ safes[job'[r].safe] = mem'[r].row /\ mem'[r].row.status = "pending"
    /\ pc'[r] = "saveKey" =>
          /\ pc[r] = "readOwners" /\ job'[r] = job[r] /\ mem'[r].row = mem[r].row
          /\ mem'[r].signed =
                {job[r].user} \union {u \in Users : owners[job[r].safe][u] = "signed"}
    /\ pc'[r] = "saveCreated" => pc[r] = "saveKey" /\ job'[r] = job[r] /\ mem'[r] = mem[r]
    /\ pc'[r] \in Choosing \union {"readOwners", "saveKey"} \union Saving => UNCHANGED safes
    /\ pc'[r] \in {"readOwners", "saveKey", "saveDeleted"} => UNCHANGED owners

LEMMA StepFinds ==
    ASSUME CInv, NEW r \in Reqs, Steps(r)
    PROVE  Finds(r)
<1>0. TypeOK /\ job[r] \in Job /\ mem[r] \in Mem
    BY DEF CInv, TypeOK
<1> USE DEF Choosing, Saving
<1>1. CASE Start(r)
    <2>1. ASSUME NEW u \in Users, NEW others \in SUBSET (Users \ {u}), NEW k \in Thresholds,
                 StartCreate(r, u, others, k)
          PROVE  Finds(r)
        BY <1>0, <2>1 DEF StartCreate, Begin, Goto, TypeOK, Finds
    <2>2. ASSUME NEW u \in Users, NEW O \in SUBSET Users, NEW k \in Thresholds,
                 StartRecover(r, u, O, k)
          PROVE  Finds(r)
        BY <1>0, <2>2 DEF StartRecover, Begin, Goto, TypeOK, Finds
    <2>3. ASSUME NEW u \in Users, NEW s \in Safes, StartConfirm(r, u, s) \/ StartDelete(r, u, s)
          PROVE  Finds(r)
        <3>1. /\ mem' = [mem EXCEPT ![r].row = safes[s]] /\ UNCHANGED <<safes, owners>>
              /\ job' = [job EXCEPT ![r] = [user |-> u, safe |-> s, owners |-> {}, threshold |-> 0]]
              /\ Goto(r, "readOwners") \/ Goto(r, "saveDeleted")
              /\ safes[s].status = "pending"
            BY <2>3 DEF StartConfirm, StartDelete, Begin
        <3>2. mem'[r].row = safes[s] /\ job'[r].safe = s
            BY <1>0, <3>1 DEF TypeOK, Mem
        <3>3. pc'[r] \in {"readOwners", "saveDeleted"}
            BY <1>0, <3>1 DEF TypeOK, Goto
        <3> QED
            BY <3>1, <3>2, <3>3 DEF Finds
    <2> QED
        BY <1>1, <2>1, <2>2, <2>3 DEF Start
<1>2. CASE ReadOwners(r)
    <2>1. CASE Finish(r)
        BY <1>0, <2>1 DEF Finish, Goto, TypeOK, Finds
    <2>2. CASE ~Finish(r)
        <3> DEFINE s == job[r].safe
                   signed == {job[r].user} \union {v \in Users : owners[s][v] = "signed"}
                   listed == {v \in Users : owners[s][v] # "absent"}
        <3>1. /\ pc[r] = "readOwners" /\ Goto(r, "saveKey") /\ UNCHANGED <<safes, owners, job>>
              /\ mem' = [mem EXCEPT ![r].listed = listed, ![r].signed = signed]
            BY <1>2, <2>2 DEF ReadOwners, At
        <3> HIDE DEF signed, listed
        <3>2. mem'[r].row = mem[r].row /\ mem'[r].signed = signed
            BY <1>0, <3>1 DEF TypeOK, Mem
        <3> QED
            BY <1>0, <3>1, <3>2 DEF Goto, TypeOK, Finds, signed
    <2> QED
        BY <2>1, <2>2
<1>3. CASE SaveKey(r)
    BY <1>0, <1>3 DEF SaveKey, At, Finish, Goto, TypeOK, Finds
<1>4. CASE FindHash(r)
    BY <1>0, <1>4 DEF FindHash, At, Finish, Goto, TypeOK, Finds
<1>5. CASE InsertSafe(r) \/ InsertOwners(r) \/ InsertRecovered(r) \/ RecoverOwner(r)
    BY <1>0, <1>5 DEF InsertSafe, InsertOwners, InsertRecovered, RecoverOwner, At, Finish, Goto,
                      TypeOK, Finds
<1>6. CASE SaveCreated(r) \/ SaveDeleted(r) \/ Fail(r)
    BY <1>0, <1>6 DEF SaveCreated, SaveDeleted, Fail, Finish, Goto, TypeOK, Finds
<1> QED
    BY <1>1, <1>2, <1>3, <1>4, <1>5, <1>6 DEF Steps, Step

\* What confirm and deletePending will save is still the row, and is pending.
Reading == {"readOwners", "saveKey"} \union Saving
HeldRow ==
    \A r \in Reqs : pc[r] \in Reading =>
        safes[job[r].safe] = mem[r].row /\ mem[r].row.status = "pending"

KInv == PInv /\ HeldRow

\* A row that is saved, or whose owners change, has no other handler.
LEMMA OthersKeepRow ==
    ASSUME KInv, OneRequestPerSafe, NEW r \in Reqs, Steps(r),
           NEW q \in Reqs, q # r, pc[q] \in Holding
    PROVE  /\ pc[q] \in Reading => safes'[job[q].safe] = safes[job[q].safe]
           /\ owners'[job[q].safe] = owners[job[q].safe]
<1>0. PICK s \in Safes : s = job[q].safe /\ safes[s].status # "none"
    BY DEF KInv, PInv, CInv, HandlersOK, HandlerOK
<1>1. q \in InFlight
    BY DEF InFlight, Holding
<1>2. ~Wrote(r, s)
    BY <1>0, <1>1 DEF Wrote, Saving, OneRequestPerSafe, InFlight
<1>3. safes'[s] = safes[s]
    BY <1>0, <1>2, RowsWritten DEF NewRow, KInv, PInv
<1>4. owners'[s] = owners[s]
    BY <1>0, <1>1, OwnersChange DEF GetsRows, GetsKey, OneRequestPerSafe, InFlight, KInv
<1> QED
    BY <1>0, <1>3, <1>4

LEMMA NextKInv ==
    ASSUME SafeCreationAssumption
    PROVE  KInv /\ OneRequestPerSafe /\ [Next]_vars => KInv'
<1> SUFFICES ASSUME KInv, OneRequestPerSafe, [Next]_vars PROVE KInv'
    OBVIOUS
<1>1. PInv'
    BY SafeCreationAssumption, NextPInv DEF KInv
<1>2. CASE UNCHANGED vars
    BY <1>1, <1>2 DEF vars, KInv, HeldRow
<1>3. ASSUME NEW r \in Reqs, Steps(r), NEW q \in Reqs, pc'[q] \in Reading
      PROVE  safes'[job'[q].safe] = mem'[q].row /\ mem'[q].row.status = "pending"
    <2>0. TypeOK /\ CInv
        BY DEF KInv, PInv, CInv
    <2>1. CASE q # r
        <3>1. pc'[q] = pc[q] /\ job'[q] = job[q] /\ mem'[q] = mem[q]
            BY <1>3, <2>0, <2>1, OtherHandlersStay
        <3>2. pc[q] \in Holding
            BY <1>3, <3>1 DEF Reading, Saving, Holding
        <3> QED
            BY <1>3, <2>1, <3>1, <3>2, OthersKeepRow DEF KInv, HeldRow
    <2>2. CASE q = r
        BY <1>3, <2>0, <2>2, StepFinds DEF Finds, Reading, Saving, KInv, HeldRow
    <2> QED
        BY <2>1, <2>2
<1> QED
    BY <1>1, <1>2, <1>3 DEF Next, Steps, KInv, HeldRow

LEMMA InitKInv ==
    ASSUME SafeCreationAssumption
    PROVE  Init => KInv
    BY SafeCreationAssumption, InitPInv DEF Init, KInv, HeldRow, Reading, Saving

\* As long as no safe has two requests running, a safe that was created or deleted
\* stays what it is, although confirm and deletePending check the status awaits
\* before they save the whole row.
THEOREM SettledIsFinalAlways ==
    ASSUME SafeCreationAssumption
    PROVE  Spec /\ []OneRequestPerSafe => SettledIsFinal
<1>1. KInv /\ [Next]_vars => [SettledStays]_vars
    <2> SUFFICES ASSUME KInv, NEW r \in Reqs, Steps(r), NEW s \in Safes,
                        safes[s].status \in {"created", "deleted"}
                 PROVE  safes'[s] = safes[s]
        BY DEF Next, Steps, SettledStays
    <2>1. ~Wrote(r, s)
        BY DEF Wrote, KInv, HeldRow, Reading
    <2> QED
        BY <2>1, RowsWritten DEF NewRow, KInv, PInv
<1> QED
    BY SafeCreationAssumption, <1>1, InitKInv, NextKInv, PTL DEF Spec, SettledIsFinal

-----------------------------------------------------------------------------
(* One safe for the same owners and threshold. *)

FreeHash ==
    \A r \in Reqs : pc[r] \in {"insertSafe", "insertRecovered"} =>
        ~Duplicate(job[r].owners, job[r].threshold)

DInv == KInv /\ FreeHash /\ OneSafePerHash

\* A live safe was one before, or is the one that was just inserted.
LEMMA LiveBefore ==
    ASSUME KInv, NEW r \in Reqs, Steps(r), NEW s \in Safes, safes'[s].status \in Live
    PROVE  \/ /\ safes[s].status \in Live /\ safes'[s].owners = safes[s].owners
              /\ safes'[s].threshold = safes[s].threshold
           \/ NewRow(r, s)
<1>1. CASE Wrote(r, s)
    BY <1>1 DEF Wrote, KInv, HeldRow, Reading, Live
<1> QED
    BY <1>1, RowsWritten DEF KInv, PInv

LEMMA FreeHashNext ==
    ASSUME DInv, OneRequestPerHash, NEW r \in Reqs, Steps(r)
    PROVE  FreeHash'
<1> SUFFICES ASSUME NEW q \in Reqs, pc'[q] \in {"insertSafe", "insertRecovered"}
             PROVE  ~\E s \in Safes : /\ safes'[s].status \in Live
                                      /\ safes'[s].owners = job'[q].owners
                                      /\ safes'[s].threshold = job'[q].threshold
    BY DEF FreeHash, Duplicate
<1>0. KInv /\ TypeOK /\ CInv
    BY DEF DInv, KInv, PInv, CInv
<1>1. CASE q = r
    BY <1>0, <1>1, StepFinds DEF Finds, Duplicate, Choosing
<1>2. CASE q # r
    <2>1. pc'[q] = pc[q] /\ job'[q] = job[q]
        BY <1>0, <1>2, OtherHandlersStay
    <2>2. ~Duplicate(job[q].owners, job[q].threshold)
        BY <2>1 DEF DInv, FreeHash
    <2>3. ASSUME NEW s \in Safes, NewRow(r, s)
          PROVE  ~(safes'[s].owners = job[q].owners /\ safes'[s].threshold = job[q].threshold)
        BY <1>2, <2>1, <2>3 DEF NewRow, OneRequestPerHash, Choosing
    <2> QED
        BY <1>0, <2>1, <2>2, <2>3, LiveBefore DEF Duplicate
<1> QED
    BY <1>1, <1>2

LEMMA OneSafeNext ==
    ASSUME DInv, NEW r \in Reqs, Steps(r)
    PROVE  OneSafePerHash'
<1> SUFFICES ASSUME NEW s \in Safes, NEW q \in Safes,
                    safes'[s].status \in Live, safes'[q].status \in Live,
                    safes'[s].owners = safes'[q].owners, safes'[s].threshold = safes'[q].threshold
             PROVE  s = q
    BY DEF OneSafePerHash
<1>0. KInv
    BY DEF DInv
<1>1. ASSUME NEW t \in Safes, NewRow(r, t)
      PROVE  ~Duplicate(safes'[t].owners, safes'[t].threshold) /\ job'[r].safe = t
    BY <1>1 DEF NewRow, DInv, FreeHash
<1>2. CASE NewRow(r, s) /\ NewRow(r, q)
    BY <1>1, <1>2
<1>3. CASE NewRow(r, s) /\ ~NewRow(r, q)
    BY <1>0, <1>1, <1>3, LiveBefore DEF Duplicate
<1>4. CASE ~NewRow(r, s) /\ NewRow(r, q)
    BY <1>0, <1>1, <1>4, LiveBefore DEF Duplicate
<1>5. CASE ~NewRow(r, s) /\ ~NewRow(r, q)
    BY <1>0, <1>5, LiveBefore DEF DInv, OneSafePerHash
<1> QED
    BY <1>2, <1>3, <1>4, <1>5

LEMMA NextDInv ==
    ASSUME SafeCreationAssumption
    PROVE  DInv /\ OneRequestPerSafe /\ OneRequestPerHash /\ [Next]_vars => DInv'
<1> SUFFICES ASSUME DInv, OneRequestPerSafe, OneRequestPerHash, [Next]_vars PROVE DInv'
    OBVIOUS
<1>1. KInv'
    BY SafeCreationAssumption, NextKInv DEF DInv
<1>2. CASE UNCHANGED vars
    BY <1>1, <1>2 DEF vars, DInv, FreeHash, Duplicate, OneSafePerHash
<1>3. ASSUME NEW r \in Reqs, Steps(r) PROVE DInv'
    BY <1>1, <1>3, FreeHashNext, OneSafeNext DEF DInv
<1> QED
    BY <1>2, <1>3 DEF Next, Steps

\* As long as no safe has two requests running, and none is created or recovered
\* twice at the same time, the same owners and threshold have one safe that is not
\* deleted, although the hash is looked up an await before the row is inserted and
\* the table has no unique key on it.
THEOREM OneSafePerHashAlways ==
    ASSUME SafeCreationAssumption
    PROVE  Spec /\ []OneRequestPerSafe /\ []OneRequestPerHash => []OneSafePerHash
<1>1. Init => DInv
    BY SafeCreationAssumption, InitKInv DEF Init, DInv, FreeHash, OneSafePerHash, NoSafe, Live
<1>2. DInv => OneSafePerHash
    BY DEF DInv
<1> QED
    BY SafeCreationAssumption, <1>1, <1>2, NextDInv, PTL DEF Spec

-----------------------------------------------------------------------------
(* The last confirmation creates the safe. *)

\* The keys a confirm has read, and its own, are those in the database.
ReadKeys ==
    \A r \in Reqs : pc[r] = "saveKey" =>
        mem[r].signed = {job[r].user} \union {u \in Users : owners[job[r].safe][u] = "signed"}

\* A safe that is inserted as pending has an owner beside its creator.
SharedInserts ==
    \A r \in Reqs : pc[r] = "insertOwners" /\ safes[job[r].safe].status = "pending" =>
        job[r].owners # {job[r].user}

\* A handler is about to insert keyless owners, or to save the safe as created.
Finishing(s) == \E r \in Reqs : job[r].safe = s /\ pc[r] \in {"insertOwners", "saveCreated"}
Waits(s) == safes[s].status = "pending" /\ CanBuild(safes[s].owners, safes[s].threshold)
Completing == failures = 0 => \A s \in Safes : Waits(s) => Finishing(s) \/ Holds(s, "keyless")

GInv == KInv /\ ReadKeys /\ SharedInserts /\ Completing

LEMMA ReadKeysNext ==
    ASSUME GInv, OneRequestPerSafe, NEW r \in Reqs, Steps(r)
    PROVE  ReadKeys'
<1> SUFFICES ASSUME NEW q \in Reqs, pc'[q] = "saveKey"
             PROVE  mem'[q].signed =
                        {job'[q].user} \union {u \in Users : owners'[job'[q].safe][u] = "signed"}
    BY DEF ReadKeys
<1>0. KInv /\ TypeOK /\ CInv
    BY DEF GInv, KInv, PInv, CInv
<1>1. CASE q = r
    BY <1>0, <1>1, StepFinds DEF Finds
<1>2. CASE q # r
    <2>1. pc'[q] = pc[q] /\ job'[q] = job[q] /\ mem'[q] = mem[q]
        BY <1>0, <1>2, OtherHandlersStay
    <2>2. owners'[job[q].safe] = owners[job[q].safe]
        BY <1>0, <1>2, <2>1, OthersKeepRow DEF Holding
    <2> QED
        BY <2>1, <2>2 DEF GInv, ReadKeys
<1> QED
    BY <1>1, <1>2

LEMMA SharedInsertsNext ==
    ASSUME GInv, NEW r \in Reqs, Steps(r)
    PROVE  SharedInserts'
<1> SUFFICES ASSUME NEW q \in Reqs, pc'[q] = "insertOwners", safes'[job'[q].safe].status = "pending"
             PROVE  job'[q].owners # {job'[q].user}
    BY DEF SharedInserts
<1>0. PInv /\ TypeOK /\ CInv
    BY DEF GInv, KInv, PInv, CInv
<1>1. CASE q = r
    <2>1. PICK t \in Safes : safes[t].status = "none" /\ job' = [job EXCEPT ![r].safe = t]
                             /\ safes'[t] # safes[t] /\ pc[r] = "insertSafe"
        <3>0. InsertSafe(r)
            BY <1>0, <1>1, ComesToInsert
        <3>1. PICK t \in Safes :
                /\ safes[t].status = "none" /\ job' = [job EXCEPT ![r].safe = t]
                /\ safes' = [safes EXCEPT ![t] =
                    [status |-> IF job[r].owners = {job[r].user} THEN "created" ELSE "pending",
                     creator |-> job[r].user, owners |-> job[r].owners,
                     threshold |-> job[r].threshold,
                     keys |-> IF job[r].owners = {job[r].user} THEN job[r].owners ELSE {}]]
            BY <3>0 DEF InsertSafe, NextRow
        <3>2. safes'[t].status # "none"
            BY <1>0, <3>1 DEF TypeOK
        <3> QED
            BY <3>0, <3>1, <3>2 DEF InsertSafe, At
    <2>2. job'[r].safe = t
        BY <1>0, <2>1 DEF TypeOK, Job
    <2>3. NewRow(r, t)
        BY <1>0, <2>1, RowsWritten DEF Wrote, Saving
    <2> QED
        BY <1>1, <2>2, <2>3 DEF NewRow
<1>2. CASE q # r
    <2>1. pc[q] = "insertOwners" /\ job'[q] = job[q]
        BY <1>0, <1>2, OtherHandlersStay
    <2>2. PICK s \in Safes : s = job[q].safe /\ safes[s].status # "none"
        BY <1>0, <2>1 DEF CInv, HandlersOK, HandlerOK, Holding
    <2>3. safes'[s] = safes[s]
        BY <1>0, <2>1, <2>2, RowsWritten DEF NewRow, Wrote
    <2> QED
        BY <2>1, <2>2, <2>3 DEF GInv, SharedInserts
<1> QED
    BY <1>1, <1>2

\* The insert of the owners leaves those keyless who are not the creator.
LEMMA InsertLeavesKeyless ==
    ASSUME GInv, NEW r \in Reqs, InsertOwners(r), NEW s \in Safes, job[r].safe = s, Waits(s)
    PROVE  Holds(s, "keyless")'
<1>0. /\ TypeOK /\ HandlerOK("insertOwners", job[r], mem[r]) /\ pc[r] = "insertOwners"
    BY DEF GInv, KInv, PInv, CInv, HandlersOK, InsertOwners, At
<1>1. /\ job[r].owners = safes[s].owners /\ job[r].user \in job[r].owners
      /\ job[r].owners # {job[r].user} /\ safes[s].owners \subseteq Users
    BY <1>0 DEF HandlerOK, Inserting, GInv, SharedInserts, Waits, TypeOK, SafeRow
<1>2. PICK u \in Users : u \in job[r].owners /\ u # job[r].user
    BY <1>1
<1>3. owners'[s][u] = "keyless"
    BY <1>0, <1>2 DEF InsertOwners, TypeOK
<1> QED
    BY <1>3 DEF Holds

\* The confirm that saves the last key goes on to create the safe.
LEMMA LastKeyGoesOn ==
    ASSUME GInv, NEW r \in Reqs, SaveKey(r), NEW s \in Safes, job[r].safe = s, Waits(s),
           Holds(s, "keyless")
    PROVE  Holds(s, "keyless")' \/ (pc'[r] = "saveCreated" /\ job'[r] = job[r])
<1>0. /\ TypeOK /\ pc[r] = "saveKey" /\ HandlerOK("saveKey", job[r], mem[r]) /\ RowsFit(s)
    BY DEF GInv, KInv, PInv, CInv, HandlersOK, SaveKey, At
<1>1. /\ mem[r].listed = safes[s].owners /\ mem[r].row = safes[s]
      /\ mem[r].signed = {job[r].user} \union {u \in Users : owners[s][u] = "signed"}
    BY <1>0 DEF HandlerOK, GInv, KInv, HeldRow, Reading, ReadKeys
<1>2. \A u \in Users : u # job[r].user => owners'[s][u] = owners[s][u]
    BY <1>0 DEF SaveKey, TypeOK
<1>3. CASE mem[r].listed \subseteq mem[r].signed
    BY <1>0, <1>1, <1>3 DEF SaveKey, Waits, Goto, TypeOK
<1>4. CASE ~(mem[r].listed \subseteq mem[r].signed)
    <2>1. PICK u \in safes[s].owners : u # job[r].user /\ ~(u \in Users /\ owners[s][u] = "signed")
        BY <1>1, <1>4
    <2>2. u \in Users /\ owners[s][u] \in {"absent", "keyless"}
        BY <1>0, <2>1 DEF TypeOK, SafeRow
    <2>3. owners[s][u] = "keyless"
        BY <1>0, <2>1, <2>2 DEF RowsFit
    <2>4. owners'[s][u] = "keyless"
        BY <1>2, <2>1, <2>2, <2>3
    <2>5. Holds(s, "keyless")'
        BY <2>2, <2>4 DEF Holds
    <2> QED
        BY <2>5
<1> QED
    BY <1>3, <1>4

LEMMA CompletingNext ==
    ASSUME GInv, OneRequestPerSafe, NEW r \in Reqs, Steps(r)
    PROVE  Completing'
<1>0. PInv /\ KInv /\ TypeOK /\ CInv /\ failures \in Nat
    BY DEF GInv, KInv, PInv, CInv, TypeOK
<1> SUFFICES ASSUME failures' = 0, NEW s \in Safes, Waits(s)'
             PROVE  Finishing(s)' \/ Holds(s, "keyless")'
    BY DEF Completing
<1>1. failures = 0 /\ ~Fail(r)
    <2>1. ~Fail(r)
        BY <1>0 DEF Fail
    <2>2. ASSUME Start(r) PROVE failures' = failures
        BY <2>2 DEF Start, StartCreate, StartRecover, StartConfirm, StartDelete, Begin
    <2>3. ASSUME Step(r) PROVE failures' = failures
        BY <2>3
        DEF Step, InsertSafe, InsertOwners, ReadOwners, SaveKey, SaveCreated, SaveDeleted,
            FindHash, InsertRecovered, RecoverOwner
    <2> QED
        BY <2>1, <2>2, <2>3 DEF Steps
<1>2. CASE NewRow(r, s)
    BY <1>2 DEF NewRow, Waits, Finishing
<1>3. CASE safes'[s] = safes[s]
    <2>0. Waits(s) /\ (Finishing(s) \/ Holds(s, "keyless"))
        BY <1>1, <1>3 DEF Waits, GInv, Completing
    <2>1. ASSUME NEW q \in Reqs \ {r}, job[q].safe = s, pc[q] \in {"insertOwners", "saveCreated"}
          PROVE  Finishing(s)'
        BY <1>0, <2>1, OtherHandlersStay DEF Finishing
    <2>2. CASE job[r].safe = s /\ pc[r] = "insertOwners"
        <3>1. InsertOwners(r)
            BY <1>1, <2>2
            DEF Steps, Step, Start, StartCreate, StartRecover, StartConfirm, StartDelete, Begin, At,
                InsertSafe, ReadOwners, SaveKey, SaveCreated, SaveDeleted, FindHash,
                InsertRecovered, RecoverOwner
        <3> QED
            BY <2>0, <2>2, <3>1, InsertLeavesKeyless
    <2>3. CASE job[r].safe = s /\ pc[r] = "saveCreated"
        <3>1. SaveCreated(r)
            BY <1>1, <2>3
            DEF Steps, Step, Start, StartCreate, StartRecover, StartConfirm, StartDelete, Begin, At,
                InsertSafe, InsertOwners, ReadOwners, SaveKey, SaveDeleted, FindHash,
                InsertRecovered, RecoverOwner
        <3>2. mem[r] \in Mem /\ safes' = [safes EXCEPT ![s] =
                    [mem[r].row EXCEPT !.status = "created", !.keys = mem[r].listed]]
            BY <1>0, <2>3, <3>1 DEF SaveCreated, TypeOK
        <3>3. safes'[s].status = "created"
            BY <1>0, <3>2 DEF TypeOK, Mem, SafeRow
        <3> QED
            BY <1>3, <2>0, <3>3 DEF Waits
    <2>4. CASE Holds(s, "keyless") /\ ~(job[r].safe = s /\ pc[r] = "insertOwners")
        <3>1. CASE owners'[s] = owners[s]
            BY <2>4, <3>1 DEF Holds
        <3>2. ASSUME NEW u \in Users, job[r].safe = s, GetsKey(r, s, u)
              PROVE  Finishing(s)' \/ Holds(s, "keyless")'
            <4>1. pc[r] = "saveKey"
                BY <1>0, <2>0, <3>2 DEF GetsKey, PInv, WasPending, Waits
            <4>2. SaveKey(r)
                BY <1>1, <4>1
                DEF Steps, Step, Start, StartCreate, StartRecover, StartConfirm, StartDelete, Begin,
                    At, InsertSafe, InsertOwners, ReadOwners, SaveCreated, SaveDeleted, FindHash,
                    InsertRecovered, RecoverOwner
            <4> QED
                BY <2>0, <2>4, <3>2, <4>2, LastKeyGoesOn DEF Finishing
        <3> QED
            BY <1>0, <2>4, <3>1, <3>2, OwnersChange DEF GetsRows
    <2> QED
        BY <2>0, <2>1, <2>2, <2>3, <2>4 DEF Finishing
<1>4. ~Wrote(r, s)
    BY DEF Wrote, Waits
<1> QED
    BY <1>0, <1>2, <1>3, <1>4, RowsWritten

LEMMA NextGInv ==
    ASSUME SafeCreationAssumption
    PROVE  GInv /\ OneRequestPerSafe /\ [Next]_vars => GInv'
<1> SUFFICES ASSUME GInv, OneRequestPerSafe, [Next]_vars PROVE GInv'
    OBVIOUS
<1>1. KInv'
    BY SafeCreationAssumption, NextKInv DEF GInv
<1>2. CASE UNCHANGED vars
    BY <1>1, <1>2
    DEF vars, GInv, ReadKeys, SharedInserts, Completing, Finishing, Waits, Holds
<1>3. ASSUME NEW r \in Reqs, Steps(r) PROVE GInv'
    BY <1>1, <1>3, ReadKeysNext, SharedInsertsNext, CompletingNext DEF GInv
<1> QED
    BY <1>2, <1>3 DEF Next, Steps

\* As long as no safe has two requests running and no handler stops halfway, a
\* safe all of whose owners have confirmed is created when its handlers are done:
\* confirm decides by the list of owners it read before it saved its own key.
THEOREM ConfirmedIsCreatedAlways ==
    ASSUME SafeCreationAssumption
    PROVE  Spec /\ []OneRequestPerSafe => []ConfirmedIsCreated
<1>1. Init => GInv
    BY SafeCreationAssumption, InitKInv
    DEF Init, GInv, ReadKeys, SharedInserts, Completing, Waits, NoSafe
<1>2. GInv => ConfirmedIsCreated
    <2> SUFFICES ASSUME GInv, Quiet, failures = 0, NEW s \in Safes, Waits(s)
                 PROVE  \E u \in Users : owners[s][u] = "keyless"
        BY DEF ConfirmedIsCreated, Waits
    <2>1. ~Finishing(s)
        BY DEF Finishing, Quiet, InFlight
    <2> QED
        BY <2>1 DEF GInv, Completing, Holds
<1> QED
    BY SafeCreationAssumption, <1>1, <1>2, NextGInv, PTL DEF Spec

-----------------------------------------------------------------------------

\* Requests that are handled one at a time do not overlap on a safe or a hash, and
\* the bound on the handlers that run says that they are: all of the above then
\* holds of the specification itself, also when handlers stop halfway.
THEOREM SerialSafes ==
    ASSUME SafeCreationAssumption, MaxInFlight <= 1, IsFiniteSet(Reqs)
    PROVE  Spec => SettledIsFinal /\ []OneSafePerHash /\ []ConfirmedIsCreated
<1> DEFINE OneAtATime == \A q, r \in InFlight : q = r
<1>1. Init => OneAtATime
    BY DEF Init, InFlight
<1>2. CInv /\ OneAtATime /\ [Next]_vars => OneAtATime'
    <2> SUFFICES ASSUME CInv, OneAtATime, [Next]_vars PROVE OneAtATime'
        OBVIOUS
    <2>0. TypeOK
        BY DEF CInv
    <2>1. CASE UNCHANGED vars
        BY <2>1 DEF vars, InFlight
    <2>2. ASSUME NEW r \in Reqs, Start(r) PROVE OneAtATime'
        <3>1. Cardinality(InFlight) < MaxInFlight
            BY <2>2 DEF Start, StartCreate, StartRecover, StartConfirm, StartDelete, Begin
        <3>2. IsFiniteSet(InFlight)
            BY FS_Subset DEF InFlight
        <3>3. InFlight = {}
            BY <3>1, <3>2, FS_CardinalityType, FS_EmptySet, SafeCreationAssumption
            DEF SafeCreationAssumption
        <3>4. \A q \in Reqs : q # r => pc'[q] = pc[q]
            BY <2>0, <2>2, OtherHandlersStay DEF Steps
        <3> QED
            BY <3>3, <3>4 DEF InFlight
    <2>3. ASSUME NEW r \in Reqs, Step(r) \/ Fail(r) PROVE OneAtATime'
        <3>1. \A q \in Reqs : q # r => pc'[q] = pc[q]
            BY <2>0, <2>3, OtherHandlersStay DEF Steps
        <3>2. r \in InFlight
            BY <2>3
            DEF Step, Fail, InsertSafe, InsertOwners, ReadOwners, SaveKey, SaveCreated, SaveDeleted,
                FindHash, InsertRecovered, RecoverOwner, At, InFlight
        <3> QED
            BY <3>1, <3>2 DEF InFlight
    <2> QED
        BY <2>1, <2>2, <2>3 DEF Next
<1>3. OneAtATime => OneRequestPerSafe /\ OneRequestPerHash
    BY DEF OneRequestPerSafe, OneRequestPerHash, InFlight, Choosing
<1> HIDE DEF OneAtATime
<1>4. Spec => []OneRequestPerSafe /\ []OneRequestPerHash
    BY SafeCreationAssumption, <1>1, <1>2, <1>3, AlwaysCInv, PTL DEF Spec
<1> QED
    BY SafeCreationAssumption, <1>4, SettledIsFinalAlways, OneSafePerHashAlways,
       ConfirmedIsCreatedAlways, PTL
=============================================================================

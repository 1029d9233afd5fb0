----------------------------- MODULE SafeViews -----------------------------
(***************************************************************************)
(* A client that looks at a safe (getMultisigWallet) and at the list of    *)
(* its safes (getMultisigWalletsByOwner) while the handlers of             *)
(* SafeCreation run.  The answer about a safe takes three awaits.  For an  *)
(* address that no row has, the first of them is the recovery that         *)
(* SafeCreation models.                                                    *)
(***************************************************************************)
EXTENDS SafeCreation

CONSTANT Balances   \* external: coins the indexer may report, {} among them

VARIABLES
    sight,      \* the answer about a safe that is being built
    list        \* the last list, of one owner: safe and status

allVars == <<vars, sight, list>>

NoSight == [at |-> "none", safe |-> None, row |-> NoSafe, owners |-> {},
            confirms |-> {}, balance |-> {}]

SightTypeOK ==
    /\ sight \in [at : {"none", "owners", "balance", "answered", "error"},
                  safe : Safes \union {None}, row : SafeRow, owners : SUBSET Users,
                  confirms : SUBSET Users, balance : Balances \union {{}, {"0"}, {"-1"}}]
    /\ list \subseteq [safe : Safes, status : {"pending", "created", "deleted",
                                               "needConfirm", "confirmed"}]

Present(s) == {u \in Users : owners[s][u] # "absent"}
Signed(s) == {u \in Users : owners[s][u] = "signed"}

-----------------------------------------------------------------------------

\* getSafeById
OpenSafe(s) ==
    /\ sight.at = "none" /\ safes[s].status # "none"
    /\ sight' = [NoSight EXCEPT !.at = "owners", !.safe = s, !.row = safes[s]]
    /\ UNCHANGED <<vars, list>>

MutantReadSafeOwners ==
    /\ sight.at = "owners"
    /\ sight' = [sight EXCEPT !.owners = Present(sight.safe),
                              !.confirms = Signed(sight.safe) \ {sight.row.creator},
                              !.at = IF Present(sight.safe) = {} THEN "error" ELSE "balance"]
    /\ UNCHANGED <<vars, list>>

\* getSafeOwnersWithError; the confirmed ones have a key
ReadSafeOwners ==
    /\ sight.at = "owners"
    /\ sight' = [sight EXCEPT !.owners = Present(sight.safe),
                              !.confirms = Signed(sight.safe),
                              !.at = IF Present(sight.safe) = {} THEN "error" ELSE "balance"]
    /\ UNCHANGED <<vars, list>>

\* The indexer is asked only about a safe with an address; if it fails, the answer
\* shows -1, and without coins it shows 0.
ReadBalance ==
    /\ sight.at = "balance"
    /\ \/ /\ sight.row.keys = {}
          /\ sight' = [sight EXCEPT !.at = "answered"]
       \/ /\ sight.row.keys # {}
          /\ \E coins \in Balances \union {{"-1"}} :
                sight' = [sight EXCEPT !.at = "answered",
                                       !.balance = IF coins = {} THEN {"0"} ELSE coins]
    /\ UNCHANGED <<vars, list>>

CloseSafe ==
    /\ sight.at \in {"answered", "error"}
    /\ sight' = NoSight
    /\ UNCHANGED <<vars, list>>

\* getMultisigWalletsByOwner: for owners other than the creator, the status of a
\* pending safe says whether they have confirmed
ListStatus(s, u) ==
    IF safes[s].status = "pending" /\ safes[s].creator # u
    THEN IF u \in Signed(s) THEN "confirmed" ELSE "needConfirm"
    ELSE safes[s].status
OpenList(u) ==
    /\ list' = {[safe |-> s, status |-> ListStatus(s, u)] : s \in {q \in Safes : u \in Present(q)}}
    /\ UNCHANGED <<vars, sight>>

Look ==
    \/ \E s \in Safes : OpenSafe(s)
    \/ ReadSafeOwners \/ ReadBalance \/ CloseSafe
    \/ \E u \in Users : OpenList(u)

ViewInit == Init /\ sight = NoSight /\ list = {}
ViewNext == Look \/ (Next /\ UNCHANGED <<sight, list>>)
ViewSpec == ViewInit /\ [][ViewNext]_allVars

-----------------------------------------------------------------------------

\* The row of a safe and its owners are read at different times, and are inserted
\* and confirmed at different times.  Still an answer that says created shows no
\* owner who has not confirmed, and one that says pending is not without owners.
ShownCreatedIsConfirmed ==
    sight.at = "answered" =>
        /\ sight.row.status = "created" => sight.confirms = sight.owners
        /\ sight.row.status = "pending" =>
               sight.owners = sight.row.owners /\ sight.row.creator \in sight.confirms
=============================================================================

----------------------------- MODULE Simulation -----------------------------
(***************************************************************************)
(* Requests for the gas of a transaction (simulate) and for the addresses  *)
(* of the system's own safes (getSimulateAddresses), up to the point where *)
(* both need the wallet of a chain.  The service is one object for all     *)
(* requests, with one wallet per chain and a current one; every await lets *)
(* another request at them.                                                *)
(*                                                                         *)
(* What the two do with a current wallet is not modelled: the program does *)
(* not get there, which is what SimulationAnswers is about.                *)
(***************************************************************************)
EXTENDS FiniteSets

CONSTANTS
    Reqs,
    Chains,
    Safes,          \* [chain, status] of the safes requests are about
    Undefined       \* JavaScript's

VARIABLES
    chainWalletMap, \* the wallet of each chain, as SimulateService keeps it
    currentWallet,
    call            \* each request: [pc, chain, safe, wallet, answer]

vars == <<chainWalletMap, currentWallet, call>>

Wallet(chain) == [chain |-> chain, owners |-> "twenty"]
Idle == [pc |-> "idle", chain |-> Undefined, safe |-> Undefined, wallet |-> Undefined,
         answer |-> Undefined]

Init ==
    /\ chainWalletMap = [c \in Chains |-> Undefined]
    /\ currentWallet = Undefined
    /\ call = [r \in Reqs |-> Idle]

Goto(r, label, changes) == call' = [call EXCEPT ![r] = [changes EXCEPT !.pc = label]]
Answer(r, what) == Goto(r, "done", [call[r] EXCEPT !.answer = what])

\* simulate: getSafeById, findChain
Simulate(r, safe) ==
    /\ call[r] = Idle
    /\ call' = [call EXCEPT ![r] =
                  [Idle EXCEPT !.safe = safe, !.chain = safe.chain,
                               !.pc = IF safe.status = "CREATED" THEN "lookup" ELSE "done",
                               !.answer = IF safe.status = "CREATED" THEN @ ELSE "error"]]
    /\ UNCHANGED <<chainWalletMap, currentWallet>>

\* getSimulateAddresses
GetSimulateAddresses(r, chain) ==
    /\ call[r] = Idle
    /\ Goto(r, "lookup", [Idle EXCEPT !.chain = chain])
    /\ UNCHANGED <<chainWalletMap, currentWallet>>

\* simulateWithChain: new WalletSimulate and its initialize, if the chain has none
Lookup(r) ==
    /\ call[r].pc = "lookup"
    /\ IF chainWalletMap[call[r].chain] = Undefined
       THEN Goto(r, "generate", [call[r] EXCEPT !.wallet = Wallet(call[r].chain)])
            /\ UNCHANGED currentWallet
       ELSE Goto(r, "ready", call[r])
            /\ currentWallet' = chainWalletMap[call[r].chain]
    /\ UNCHANGED chainWalletMap

\* generateSimulateSafe reads chain and owners of the current wallet, not of the one
\* that was just made: of undefined, a TypeError.
GenerateSimulateSafe(r) ==
    /\ call[r].pc = "generate" /\ currentWallet = Undefined
    /\ Answer(r, "error")
    /\ UNCHANGED <<chainWalletMap, currentWallet>>

Next ==
    \E r \in Reqs :
        \/ \E safe \in Safes : Simulate(r, safe)
        \/ \E chain \in Chains : GetSimulateAddresses(r, chain)
        \/ Lookup(r) \/ GenerateSimulateSafe(r)

Spec == Init /\ [][Next]_vars

-----------------------------------------------------------------------------

\* "Support Pyxis Safe which has up to 20 owners. Return how much gas will pay for
\* the transaction." and "get all simulate address by call api": a request about a
\* created safe or a supported chain does not end in an error before anything
\* outside the service was even asked.
SimulationAnswers ==
    \A r \in Reqs :
        call[r].answer = "error" => call[r].safe # Undefined /\ call[r].safe.status # "CREATED"
=============================================================================

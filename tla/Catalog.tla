------------------------------ MODULE Catalog ------------------------------
(***************************************************************************)
(* The table of chains: written from chains.json by every instance that    *)
(* starts, listed to clients, and looked up by the id of the list in every *)
(* later request.  A find and the save that relies on it are two awaits,   *)
(* and nothing in the table says that a chainId is unique.                 *)
(***************************************************************************)
EXTENDS Naturals, FiniteSets, FiniteSetsExt, Sequences, SequencesExt

CONSTANTS
    Instances,
    Files,          \* contents of chains.json: sequences of [chainId, prefix]
    GasOf,          \* external: rows of table Gas of each chainId
    Explored        \* external: chainIds whose row has a contractAPI

\* chains.json lists every chain once.
CatalogAssumption ==
    /\ IsFiniteSet(Instances)
    /\ \A f \in Files : /\ f \in Seq(Range(f))
                       /\ \A i, j \in 1..Len(f) : f[i].chainId = f[j].chainId => i = j

VARIABLES
    file,       \* external: chains.json
    table,      \* table Chain in the order of the ids
    boot,       \* each instance: [pc, infos, found, db]
    overlapped, \* history: two instances were ever seeding at once
    networks,   \* what a client was listed last
    request     \* the request of this client

vars == <<file, table, boot, overlapped, networks, request>>

NoChain == [chainId |-> "", prefix |-> ""]
Off == [pc |-> "off", infos |-> <<>>, found |-> {}, db |-> FALSE]
NoRequest == [pc |-> "idle", what |-> "", network |-> [id |-> 0, chainId |-> "", gas |-> {}],
              prefix |-> "", chain |-> NoChain, answer |-> ""]
Ids == 1..Len(table)

\* What a client is told of a row.
Network(id) == [id |-> id, chainId |-> table[id].chainId, gas |-> GasOf[table[id].chainId]]

TypeOK ==
    /\ file \in Files
    /\ table \in Seq(UNION {Range(f) : f \in Files})
    /\ \A i \in Instances : /\ boot[i].pc \in {"off", "find", "save", "serving"}
                            /\ boot[i].infos \in Files \union {<<>>} /\ boot[i].found \subseteq Ids
    /\ overlapped \in BOOLEAN
    /\ \A n \in networks : n.id \in Ids
    /\ request.pc \in {"idle", "find", "ask", "done"} /\ request.network.id \in Ids \union {0}

Init ==
    /\ file \in Files
    /\ table = <<>>
    /\ boot = [i \in Instances |-> Off]
    /\ overlapped = FALSE
    /\ networks = {}
    /\ request = NoRequest

-----------------------------------------------------------------------------
(* bootstrap and the seeder. *)

\* External: the operator edits chains.json.
EditFile(f) ==
    /\ file' = f
    /\ UNCHANGED <<table, boot, overlapped, networks, request>>

Boot(i, b) ==
    /\ boot' = [boot EXCEPT ![i] = b]
    /\ overlapped' = (overlapped \/ Cardinality({j \in Instances : boot'[j].pc = "save"}) > 1)
    /\ UNCHANGED <<file, networks, request>>

\* seedChain: jsonReader and validate, whose verdict is the library's.  If seeding
\* fails, bootstrap closes the application, and then listens all the same.
Start(i) ==
    /\ boot[i].pc = "off"
    /\ \/ Boot(i, [Off EXCEPT !.pc = "find", !.infos = file])
       \/ Boot(i, [Off EXCEPT !.pc = "serving"])
    /\ UNCHANGED table

\* createOrUpdate: find
FindChains(i) ==
    /\ boot[i].pc = "find"
    /\ LET chainIds == {info.chainId : info \in Range(boot[i].infos)}
       IN  Boot(i, [boot[i] EXCEPT !.pc = "save",
                      !.found = {id \in Ids : table[id].chainId \in chainIds}])
    /\ UNCHANGED table

\* by position instead of by chainId
MutantSaveChain(rows, info, found) ==
    IF found = {} THEN Append(rows, info) ELSE [rows EXCEPT ![Min(found)] = info]

\* One chainInfo: into the first row that was found with its chainId, or a new one.
SaveChain(rows, info, found) ==
    LET same == {id \in found : table[id].chainId = info.chainId}
    IN  IF same = {} THEN Append(rows, info) ELSE [rows EXCEPT ![Min(same)] = info]

\* ... and save, then listen
SaveChains(i) ==
    /\ boot[i].pc = "save"
    /\ table' = FoldLeft(LAMBDA rows, info : SaveChain(rows, info, boot[i].found),
                         table, boot[i].infos)
    /\ Boot(i, [Off EXCEPT !.pc = "serving", !.db = TRUE])

Stop(i) == boot[i].pc # "off" /\ Boot(i, Off) /\ UNCHANGED table

-----------------------------------------------------------------------------
(* Requests, to any instance that listens. *)

Serving(db) == \E i \in Instances : boot[i].pc = "serving" /\ boot[i].db = db
Reply(answer) == request' = [request EXCEPT !.pc = "done", !.answer = answer]
                 /\ UNCHANGED <<file, table, boot, overlapped, networks>>

\* showNetworkList, with the gas of each chain
ShowNetworkList ==
    /\ request.pc = "idle" /\ Serving(TRUE)
    /\ networks' = {Network(id) : id \in Ids}
    /\ UNCHANGED <<file, table, boot, overlapped, request>>

\* A request of another kind names a chain by the id in the list.
Ask(what, network, prefix) ==
    /\ request.pc = "idle" /\ \E i \in Instances : boot[i].pc = "serving"
    /\ request' = [NoRequest EXCEPT !.pc = "find", !.what = what, !.network = network,
                                    !.prefix = prefix]
    /\ UNCHANGED <<file, table, boot, overlapped, networks>>
GetAccountOnchain(network) == Ask("account", network, "")
GetContractStatus(network, prefix) == Ask("contract", network, prefix)

\* findChain
FindChain ==
    /\ request.pc = "find"
    /\ \/ Serving(FALSE) /\ Reply("error")
       \/ Serving(TRUE) /\ request.network.id \notin Ids /\ Reply("CHAIN_ID_NOT_EXIST")
       \/ /\ Serving(TRUE) /\ request.network.id \in Ids
          /\ request' = [request EXCEPT !.pc = "ask", !.chain = table[request.network.id]]
          /\ UNCHANGED <<file, table, boot, overlapped, networks>>

\* getAccountNumberAndSequence: an account without account_auth is an error
AnswerAccount ==
    /\ request.pc = "ask" /\ request.what = "account"
    /\ \/ Reply("account")
       \/ Reply("error")

\* The explorer of the chain, if it has one, is asked about a contract of the chain.
AnswerContract ==
    /\ request.pc = "ask" /\ request.what = "contract"
    /\ \/ request.prefix # request.chain.prefix /\ Reply("INVALID_CONTRACT_ADDRESS")
       \/ /\ request.prefix = request.chain.prefix
          /\ \/ Reply("unverified")
             \/ request.chain.chainId \in Explored /\ \E a \in {"verified", "error"} : Reply(a)

Close ==
    /\ request.pc = "done"
    /\ request' = NoRequest
    /\ UNCHANGED <<file, table, boot, overlapped, networks>>

KnownPrefixes == {info.prefix : info \in UNION {Range(f) : f \in Files}}

Next ==
    \/ \E f \in Files : EditFile(f)
    \/ \E i \in Instances : Start(i) \/ FindChains(i) \/ SaveChains(i) \/ Stop(i)
    \/ ShowNetworkList \/ FindChain \/ AnswerAccount \/ AnswerContract \/ Close
    \/ \E n \in networks : \/ GetAccountOnchain(n)
                           \/ \E prefix \in KnownPrefixes : GetContractStatus(n, prefix)

Spec == Init /\ [][Next]_vars

-----------------------------------------------------------------------------

\* The id a client was listed under leads to the chain it was listed for, however
\* often instances were started with other files since; and unless two of them were
\* seeding at the same time, no chain is listed twice.
ListedChainIsFound ==
    /\ request.pc \in {"ask", "done"} /\ request.answer # "error" =>
           request.chain.chainId = request.network.chainId
    /\ overlapped \/ \A m, n \in networks : m.chainId = n.chainId => m = n
=============================================================================

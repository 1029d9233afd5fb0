---------------------------- MODULE Distribution ----------------------------
(***************************************************************************)
(* Validators and delegations as DistributionService shows them.  Its one  *)
(* piece of state is the cache of pictures, filled by concurrent requests  *)
(* to keybase; all else is put together from answers of the indexer while  *)
(* the account's stake changes.                                            *)
(***************************************************************************)
EXTENDS Amounts, FiniteSets

CONSTANTS
    Reqs,
    Validators,     \* numbers, in the order of the indexer
    IdentityOf,     \* description.identity of each, NoIdentity if empty
    Pictures,       \* urls
    NoIdentity, Undefined,
    Default,        \* DEFAULT_VALIDATOR_IMG
    MaxStake,       \* bound on a delegation
    MaxChanges      \* bound on what happens outside

VARIABLES
    validatorsPicture,  \* the cache, with its keys
    keybase,            \* external: the picture of each identity, Default for none
    account,            \* external: stake, reward and unbonding of the delegator
    changes,
    call                \* the requests

vars == <<validatorsPicture, keybase, account, changes, call>>

DistributionAssumption ==
    /\ AmountsAssumption
    /\ IsFiniteSet(Validators) /\ Validators \subseteq Nat
    /\ MaxStake \in Nat /\ MaxChanges \in Nat

Identities == {IdentityOf[v] : v \in Validators} \ {NoIdentity}
Idle == [kind |-> "idle", todo |-> {}, asked |-> {}, shown |-> {}]

TypeOK ==
    /\ validatorsPicture \in [DOMAIN validatorsPicture -> Pictures \union {Default}]
    /\ DOMAIN validatorsPicture \subseteq Identities
    /\ keybase \in [Identities -> Pictures \union {Default}]
    /\ account \in [stake : [Validators -> 0..MaxStake], reward : [Validators -> 0..1],
                    unbonding : SUBSET (Validators \X (1..MaxStake) \X (1..MaxChanges))]
    /\ \A r \in Reqs : call[r].kind \in {"idle", "pictures", "delegation", "delegations",
                                         "undelegations"}

Init ==
    /\ validatorsPicture = [i \in {} |-> Default]
    /\ keybase \in [Identities -> Pictures \union {Default}]
    /\ account = [stake |-> [v \in Validators |-> 0], reward |-> [v \in Validators |-> 0],
                  unbonding |-> {}]
    /\ changes = 0
    /\ call = [r \in Reqs |-> Idle]

-----------------------------------------------------------------------------
(* External. *)

Change == changes < MaxChanges /\ changes' = changes + 1

ChangePicture(i, url) ==
    /\ Change
    /\ keybase' = [keybase EXCEPT ![i] = url]
    /\ UNCHANGED <<validatorsPicture, account, call>>

Delegate(v) ==
    /\ Change /\ account.stake[v] < MaxStake
    /\ account' = [account EXCEPT !.stake[v] = @ + 1, !.reward[v] = 0]
    /\ UNCHANGED <<validatorsPicture, keybase, call>>

Undelegate(v, amount) ==
    /\ Change /\ amount <= account.stake[v]
    /\ account' = [account EXCEPT !.stake[v] = @ - amount, !.reward[v] = 0,
                                  !.unbonding = @ \union {<<v, amount, changes'>>}]
    /\ UNCHANGED <<validatorsPicture, keybase, call>>

Accrue(v) ==
    /\ Change /\ account.stake[v] > 0
    /\ account' = [account EXCEPT !.reward[v] = 1]
    /\ UNCHANGED <<validatorsPicture, keybase, call>>

-----------------------------------------------------------------------------
(* Pictures. *)

\* getValidatorInfo (one validator) and getValidators (all of them)
GetValidators(r, validators) ==
    /\ call[r].kind = "idle"
    /\ call' = [call EXCEPT ![r] = [Idle EXCEPT !.kind = "pictures", !.todo = validators]]
    /\ UNCHANGED <<validatorsPicture, keybase, account, changes>>

Picture(r, v, url) ==
    call' = [call EXCEPT ![r].todo = @ \ {v}, ![r].asked = @ \ {v},
                         ![r].shown = @ \union {<<v, url>>}]

\* getValidatorPicture without a request
PictureInCache(r, v) ==
    LET identity == IdentityOf[v]
    IN  /\ call[r].kind = "pictures" /\ v \in call[r].todo
        /\ \/ identity = NoIdentity /\ Picture(r, v, Default)
           \/ /\ identity \in DOMAIN validatorsPicture
              /\ Picture(r, v, validatorsPicture[identity])
        /\ UNCHANGED <<validatorsPicture, keybase, account, changes>>

MutantAskKeybase(r, v) ==
    /\ call[r].kind = "pictures" /\ v \in call[r].todo
    /\ IdentityOf[v] # NoIdentity
    /\ call' = [call EXCEPT ![r].todo = @ \ {v}, ![r].asked = @ \union {v}]
    /\ UNCHANGED <<validatorsPicture, keybase, account, changes>>

\* Several requests may find the same picture missing, and each fills it.
AskKeybase(r, v) ==
    /\ call[r].kind = "pictures" /\ v \in call[r].todo
    /\ IdentityOf[v] \notin DOMAIN validatorsPicture \union {NoIdentity}
    /\ call' = [call EXCEPT ![r].todo = @ \ {v}, ![r].asked = @ \union {v}]
    /\ UNCHANGED <<validatorsPicture, keybase, account, changes>>

Store(identity, url) ==
    validatorsPicture' = [i \in DOMAIN validatorsPicture \union {identity} |->
                             IF i = identity THEN url ELSE validatorsPicture[i]]

\* A body without a picture, which can also be that of an error, stores the default.
AnswerOfKeybase(r, v, url) ==
    /\ v \in call[r].asked /\ url \in {keybase[IdentityOf[v]], Default}
    /\ Store(IdentityOf[v], url)
    /\ Picture(r, v, url)
    /\ UNCHANGED <<keybase, account, changes>>

\* A request that throws, or an entry without pictures, which makes the code throw,
\* stores nothing.
ErrorOfKeybase(r, v) ==
    /\ v \in call[r].asked
    /\ Picture(r, v, Default)
    /\ UNCHANGED <<validatorsPicture, keybase, account, changes>>

-----------------------------------------------------------------------------
(* Delegations: one answer of the indexer each. *)

Show(r, kind, rows) ==
    /\ call[r].kind = "idle"
    /\ call' = [call EXCEPT ![r] = [Idle EXCEPT !.kind = kind, !.shown = rows]]
    /\ UNCHANGED <<validatorsPicture, keybase, account, changes>>
Row(v) == [validator |-> v, balance |-> account.stake[v], reward |-> account.reward[v]]

\* getDelegation: a balance or reward that is not there is undefined
GetDelegation(r, v) == Show(r, "delegation", {Row(v)})

\* getDelegations: the delegations with a balance
Listed == {v \in Validators : account.stake[v] > 0}
CalculateTotalStaked == NumberSum([v \in Listed |-> account.stake[v]])

\* total.reward is the indexer's.  total.staked is a JavaScript number, which is shown
\* as toString writes it: not a number of digits from 10^21 on.
GetDelegations(r) ==
    Show(r, "delegations",
         [list |-> {Row(v) : v \in Listed},
          staked |-> IF Listed = {} THEN Undefined ELSE CalculateTotalStaked,
          reward |-> MapThenSumSet(LAMBDA v : account.reward[v], Validators)])

\* getUndelegations: every entry of every validator
GetUndelegations(r) == Show(r, "undelegations", account.unbonding)

Answer(r) ==
    /\ call[r].kind # "idle" /\ call[r].todo \union call[r].asked = {}
    /\ call' = [call EXCEPT ![r] = Idle]
    /\ UNCHANGED <<validatorsPicture, keybase, account, changes>>

Next ==
    \/ \E i \in Identities, url \in Pictures \union {Default} : ChangePicture(i, url)
    \/ \E v \in Validators : \/ Delegate(v) \/ Accrue(v)
                             \/ \E amount \in 1..MaxStake : Undelegate(v, amount)
    \/ \E r \in Reqs :
         \/ GetValidators(r, Validators) \/ GetDelegations(r) \/ GetUndelegations(r) \/ Answer(r)
         \/ \E v \in Validators :
              \/ GetValidators(r, {v}) \/ GetDelegation(r, v)
              \/ PictureInCache(r, v) \/ AskKeybase(r, v)
              \/ \E url \in Pictures \union {Default} : AnswerOfKeybase(r, v, url)
              \/ ErrorOfKeybase(r, v)

Spec == Init /\ [][Next]_vars

-----------------------------------------------------------------------------

\* Once the cache has a picture and no request is out that found it missing, the
\* picture stays as it is: no request, failure or answer of keybase changes it, the
\* default that a single bad answer left in it included.  Until then the answers to
\* concurrent requests overwrite each other, in any order.
Settled(i) ==
    /\ i \in DOMAIN validatorsPicture
    /\ \A r \in Reqs : \A v \in call[r].asked : IdentityOf[v] # i
SettledStays ==
    \A i \in Identities :
        Settled(i) => Settled(i)' /\ validatorsPicture'[i] = validatorsPicture[i]
SettledPictureStays == [][SettledStays]_vars
=============================================================================

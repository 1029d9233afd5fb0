------------------------ MODULE DistributionProofs ------------------------
(***************************************************************************)
(* A picture in the cache stays for any number of requests that fill it at *)
(* the same time, any validators and any identities.                       *)
(***************************************************************************)
EXTENDS Distribution, FoldProofs

\* Each request has the fields of Idle.
Fields(c) == [kind |-> c.kind, todo |-> c.todo, asked |-> c.asked, shown |-> c.shown]
CallShape ==
    /\ DOMAIN call = Reqs
    /\ \A r \in Reqs : call[r] = Fields(call[r])

\* Keybase is asked only about validators that have an identity.
AskedHaveIdentity ==
    \A r \in Reqs : /\ call[r].todo \subseteq Validators
                    /\ \A v \in call[r].asked : IdentityOf[v] \in Identities

\* The inductive invariant.
DInv ==
    /\ CallShape
    /\ AskedHaveIdentity
    /\ DOMAIN validatorsPicture \subseteq Identities

LEMMA InitDInv == Init => DInv
    BY DEF Init, DInv, CallShape, Fields, Idle, AskedHaveIdentity

-----------------------------------------------------------------------------

\* What a request is set to when it starts.
LEMMA IdleExcept ==
    ASSUME NEW kind, NEW todo, NEW shown
    PROVE  /\ [Idle EXCEPT !.kind = kind, !.todo = todo] =
                  [kind |-> kind, todo |-> todo, asked |-> {}, shown |-> {}]
           /\ [Idle EXCEPT !.kind = kind, !.shown = shown] =
                  [kind |-> kind, todo |-> {}, asked |-> {}, shown |-> shown]
<1> DEFINE Names == {"kind", "todo", "asked", "shown"}
           pictures == [Idle EXCEPT !.kind = kind, !.todo = todo]
           rows == [Idle EXCEPT !.kind = kind, !.shown = shown]
<1>1. pictures = [f \in Names |-> CASE f = "kind" -> kind [] f = "todo" -> todo [] OTHER -> {}]
    <2>1. /\ pictures = [f \in Names |-> pictures[f]]
          /\ pictures.kind = kind /\ pictures.todo = todo
          /\ pictures.asked = {} /\ pictures.shown = {}
        BY DEF Idle
    <2> QED
        BY <2>1
<1>2. rows = [f \in Names |-> CASE f = "kind" -> kind [] f = "shown" -> shown [] OTHER -> {}]
    <2>1. /\ rows = [f \in Names |-> rows[f]]
          /\ rows.kind = kind /\ rows.shown = shown
          /\ rows.asked = {} /\ rows.todo = {}
        BY DEF Idle
    <2> QED
        BY <2>1
<1>3. pictures = [kind |-> kind, todo |-> todo, asked |-> {}, shown |-> {}]
    BY <1>1
<1>4. rows = [kind |-> kind, todo |-> {}, asked |-> {}, shown |-> shown]
    BY <1>2
<1> QED
    BY <1>3, <1>4

\* Whatever a request does next, it asks only for what it had to do.
LEMMA PictureAsks ==
    ASSUME DInv, NEW r \in Reqs, NEW v, NEW url, Picture(r, v, url)
    PROVE  CallShape' /\ AskedHaveIdentity'
<1>1. \A q \in Reqs : /\ call'[q].todo \subseteq call[q].todo
                      /\ call'[q].asked \subseteq call[q].asked
    BY DEF DInv, CallShape, Fields, Picture
<1>2. CallShape'
    BY DEF DInv, CallShape, Fields, Picture
<1> QED
    BY <1>1, <1>2 DEF DInv, AskedHaveIdentity, Identities

\* A request that starts, or ends, has asked for nothing yet.
LEMMA NewCallAsks ==
    ASSUME DInv, NEW r \in Reqs, NEW kind, NEW todo \in SUBSET Validators, NEW shown,
           call' = [call EXCEPT ![r] = [kind |-> kind, todo |-> todo, asked |-> {},
                                        shown |-> shown]]
    PROVE  CallShape' /\ AskedHaveIdentity'
    BY DEF DInv, CallShape, Fields, AskedHaveIdentity, Identities

CacheStays == UNCHANGED validatorsPicture

LEMMA CacheStaysInv ==
    ASSUME DInv, CacheStays, CallShape', AskedHaveIdentity'
    PROVE  DInv'
    BY DEF DInv, CacheStays

LEMMA NextDInv == DInv /\ [Next]_vars => DInv'
<1> SUFFICES ASSUME DInv, [Next]_vars PROVE DInv'
    OBVIOUS
<1>1. ASSUME NEW i \in Identities, NEW url, ChangePicture(i, url) PROVE DInv'
    BY <1>1, CacheStaysInv DEF ChangePicture, CacheStays, DInv, AskedHaveIdentity, Identities, CallShape, Fields
<1>2. ASSUME NEW v \in Validators,
             Delegate(v) \/ Accrue(v) \/ \E amount \in 1..MaxStake : Undelegate(v, amount)
      PROVE  DInv'
    <2>1. CacheStays /\ UNCHANGED call
        BY <1>2 DEF Delegate, Accrue, Undelegate, CacheStays
    <2> QED
        BY <2>1, CacheStaysInv DEF DInv, AskedHaveIdentity, Identities, CallShape, Fields
<1>3. ASSUME NEW r \in Reqs, NEW todo \in SUBSET Validators, GetValidators(r, todo) PROVE DInv'
    <2>1. [Idle EXCEPT !.kind = "pictures", !.todo = todo] =
              [kind |-> "pictures", todo |-> todo, asked |-> {}, shown |-> {}]
        BY IdleExcept
    <2>2. call' = [call EXCEPT ![r] = [kind |-> "pictures", todo |-> todo, asked |-> {},
                                       shown |-> {}]]
        BY <1>3, <2>1 DEF GetValidators
    <2>3. CallShape' /\ AskedHaveIdentity'
        BY <2>2, NewCallAsks
    <2>4. CacheStays
        BY <1>3 DEF GetValidators, CacheStays
    <2> QED
        BY <2>3, <2>4, CacheStaysInv
<1>4. ASSUME NEW r \in Reqs, NEW kind, NEW rows, Show(r, kind, rows) PROVE DInv'
    <2>1. [Idle EXCEPT !.kind = kind, !.shown = rows] =
              [kind |-> kind, todo |-> {}, asked |-> {}, shown |-> rows]
        BY IdleExcept
    <2>2. call' = [call EXCEPT ![r] = [kind |-> kind, todo |-> {}, asked |-> {},
                                       shown |-> rows]]
        BY <1>4, <2>1 DEF Show
    <2>3. CallShape' /\ AskedHaveIdentity'
        BY <2>2, NewCallAsks
    <2>4. CacheStays
        BY <1>4 DEF Show, CacheStays
    <2> QED
        BY <2>3, <2>4, CacheStaysInv
<1>5. ASSUME NEW r \in Reqs, Answer(r) PROVE DInv'
    <2>1. call' = [call EXCEPT ![r] = [kind |-> "idle", todo |-> {}, asked |-> {},
                                       shown |-> {}]]
        BY <1>5 DEF Answer, Idle
    <2> QED
        BY <1>5, <2>1, NewCallAsks, CacheStaysInv DEF Answer, CacheStays
<1>6. ASSUME NEW r \in Reqs, NEW v \in Validators, PictureInCache(r, v) PROVE DInv'
    <2>1. PICK url : Picture(r, v, url)
        BY <1>6 DEF PictureInCache
    <2>2. CacheStays
        BY <1>6 DEF PictureInCache, CacheStays
    <2> QED
        BY <2>1, <2>2, PictureAsks, CacheStaysInv
<1>7. ASSUME NEW r \in Reqs, NEW v \in Validators, AskKeybase(r, v) PROVE DInv'
    <2>1. CacheStays
        BY <1>7 DEF AskKeybase, CacheStays
    <2>2. IdentityOf[v] \in Identities
        BY <1>7 DEF AskKeybase, Identities
    <2>3. CallShape'
        BY <1>7 DEF AskKeybase, DInv, CallShape, Fields
    <2>4. \A q \in Reqs : /\ call'[q].todo \subseteq call[q].todo
                          /\ call'[q].asked \subseteq call[q].asked \union {v}
        BY <1>7 DEF AskKeybase, DInv, CallShape, Fields
    <2>5. AskedHaveIdentity'
        BY <2>2, <2>4 DEF DInv, AskedHaveIdentity, Identities
    <2> QED
        BY <2>1, <2>3, <2>5, CacheStaysInv
<1>8. ASSUME NEW r \in Reqs, NEW v \in Validators, NEW url, AnswerOfKeybase(r, v, url) PROVE DInv'
    <2>1. IdentityOf[v] \in Identities
        BY <1>8 DEF AnswerOfKeybase, DInv, AskedHaveIdentity
    <2>2. DOMAIN validatorsPicture' = DOMAIN validatorsPicture \union {IdentityOf[v]}
        BY <1>8 DEF AnswerOfKeybase, Store
    <2>3. DOMAIN validatorsPicture' \subseteq Identities
        BY <2>1, <2>2 DEF DInv, Identities
    <2> QED
        BY <1>8, <2>3, PictureAsks DEF AnswerOfKeybase, DInv
<1>9. ASSUME NEW r \in Reqs, NEW v \in Validators, ErrorOfKeybase(r, v) PROVE DInv'
    BY <1>9, PictureAsks, CacheStaysInv DEF ErrorOfKeybase, CacheStays
<1>10. CASE UNCHANGED vars
    BY <1>10, CacheStaysInv DEF vars, CacheStays, DInv, AskedHaveIdentity, Identities, CallShape, Fields
<1>11. CASE Next
    BY <1>1, <1>2, <1>3, <1>4, <1>5, <1>6, <1>7, <1>8, <1>9, <1>11
    DEF Next, GetDelegation, GetDelegations, GetUndelegations
<1> QED
    BY <1>10, <1>11

-----------------------------------------------------------------------------

\* Only the answer to a request that is out writes the cache, and a request is sent
\* only for what the cache does not have.
LEMMA NextSettled == DInv /\ [Next]_vars => SettledStays
<1> SUFFICES ASSUME DInv, [Next]_vars, NEW i \in Identities, Settled(i)
             PROVE  Settled(i)' /\ validatorsPicture'[i] = validatorsPicture[i]
    BY DEF SettledStays
<1>0. i \in DOMAIN validatorsPicture /\ \A r \in Reqs : \A v \in call[r].asked : IdentityOf[v] # i
    BY DEF Settled
<1>a. ASSUME CacheStays, \A r \in Reqs : call'[r].asked \subseteq call[r].asked
      PROVE  Settled(i)' /\ validatorsPicture'[i] = validatorsPicture[i]
    BY <1>0, <1>a DEF Settled, CacheStays
<1>1. ASSUME NEW r \in Reqs, NEW f, call' = [call EXCEPT ![r] = f], f.asked = {}
      PROVE  \A q \in Reqs : call'[q].asked \subseteq call[q].asked
    BY <1>1 DEF DInv, CallShape
<1>2. ASSUME NEW r \in Reqs, NEW v, NEW url, Picture(r, v, url)
      PROVE  \A q \in Reqs : call'[q].asked \subseteq call[q].asked
    BY <1>2 DEF Picture, DInv, CallShape, Fields
<1>3. ASSUME UNCHANGED <<validatorsPicture, call>>
      PROVE  Settled(i)' /\ validatorsPicture'[i] = validatorsPicture[i]
    BY <1>3, <1>a DEF CacheStays
<1>4. ASSUME NEW r \in Reqs, NEW todo, GetValidators(r, todo)
      PROVE  Settled(i)' /\ validatorsPicture'[i] = validatorsPicture[i]
    <2>1. [Idle EXCEPT !.kind = "pictures", !.todo = todo].asked = {}
        BY IdleExcept
    <2> QED
        BY <1>1, <1>4, <1>a, <2>1 DEF GetValidators, CacheStays
<1>5. ASSUME NEW r \in Reqs, NEW kind, NEW rows, Show(r, kind, rows)
      PROVE  Settled(i)' /\ validatorsPicture'[i] = validatorsPicture[i]
    <2>1. [Idle EXCEPT !.kind = kind, !.shown = rows].asked = {}
        BY IdleExcept
    <2> QED
        BY <1>1, <1>5, <1>a, <2>1 DEF Show, CacheStays
<1>6. ASSUME NEW r \in Reqs, Answer(r)
      PROVE  Settled(i)' /\ validatorsPicture'[i] = validatorsPicture[i]
    BY <1>1, <1>6, <1>a DEF Answer, Idle, CacheStays
<1>7. ASSUME NEW r \in Reqs, NEW v \in Validators, PictureInCache(r, v) \/ ErrorOfKeybase(r, v)
      PROVE  Settled(i)' /\ validatorsPicture'[i] = validatorsPicture[i]
    BY <1>2, <1>7, <1>a DEF PictureInCache, ErrorOfKeybase, CacheStays
<1>8. ASSUME NEW r \in Reqs, NEW v \in Validators, AskKeybase(r, v)
      PROVE  Settled(i)' /\ validatorsPicture'[i] = validatorsPicture[i]
    <2>1. IdentityOf[v] # i
        BY <1>0, <1>8 DEF AskKeybase
    <2>2. \A q \in Reqs : call'[q].asked \subseteq call[q].asked \union {v}
        BY <1>8 DEF AskKeybase, DInv, CallShape, Fields
    <2>3. validatorsPicture' = validatorsPicture
        BY <1>8 DEF AskKeybase
    <2> QED
        BY <1>0, <2>1, <2>2, <2>3 DEF Settled
<1>9. ASSUME NEW r \in Reqs, NEW v \in Validators, NEW url, AnswerOfKeybase(r, v, url)
      PROVE  Settled(i)' /\ validatorsPicture'[i] = validatorsPicture[i]
    <2>1. IdentityOf[v] # i
        BY <1>0, <1>9 DEF AnswerOfKeybase
    <2>2. i \in DOMAIN validatorsPicture' /\ validatorsPicture'[i] = validatorsPicture[i]
        BY <1>0, <1>9, <2>1 DEF AnswerOfKeybase, Store
    <2>3. \A q \in Reqs : call'[q].asked \subseteq call[q].asked
        BY <1>2, <1>9 DEF AnswerOfKeybase
    <2> QED
        BY <1>0, <2>2, <2>3 DEF Settled
<1>10. ASSUME NEW j \in Identities, NEW url, ChangePicture(j, url)
       PROVE  Settled(i)' /\ validatorsPicture'[i] = validatorsPicture[i]
    BY <1>3, <1>10 DEF ChangePicture
<1>11. ASSUME NEW v \in Validators,
              Delegate(v) \/ Accrue(v) \/ \E amount \in 1..MaxStake : Undelegate(v, amount)
       PROVE  Settled(i)' /\ validatorsPicture'[i] = validatorsPicture[i]
    BY <1>3, <1>11 DEF Delegate, Accrue, Undelegate
<1>12. CASE UNCHANGED vars
    BY <1>3, <1>12 DEF vars
<1>13. CASE Next
    BY <1>4, <1>5, <1>6, <1>7, <1>8, <1>9, <1>10, <1>11, <1>13
    DEF Next, GetDelegation, GetDelegations, GetUndelegations
<1> QED
    BY <1>12, <1>13

\* Whatever the number of requests, and in whatever order the answers and errors of
\* keybase arrive, a cached picture that nobody is asking keybase for stays.
THEOREM SettledPictureStaysAlways == Spec => SettledPictureStays
<1>1. DInv /\ [Next]_vars => [SettledStays]_vars
    BY NextSettled
<1> QED
    BY <1>1, InitDInv, NextDInv, PTL DEF Spec, SettledPictureStays

-----------------------------------------------------------------------------
(* Types. *)

KindsOK ==
    \A r \in Reqs : call[r].kind \in {"idle", "pictures", "delegation", "delegations",
                                      "undelegations"}
TypedInv == DInv /\ TypeOK /\ changes \in Nat

LEMMA InitTypedInv ==
    ASSUME DistributionAssumption
    PROVE  Init => TypedInv
    BY InitDInv DEF Init, TypedInv, TypeOK, Idle, DistributionAssumption

LEMMA ShowKinds ==
    ASSUME DInv, KindsOK, NEW r \in Reqs,
           NEW kind \in {"idle", "pictures", "delegation", "delegations", "undelegations"},
           NEW todo, NEW asked, NEW shown,
           call' = [call EXCEPT ![r] = [kind |-> kind, todo |-> todo, asked |-> asked,
                                        shown |-> shown]]
    PROVE  KindsOK'
<1>1. \A q \in Reqs : call'[q].kind = kind \/ call'[q] = call[q]
    BY DEF DInv, CallShape
<1> QED
    BY <1>1 DEF KindsOK

LEMMA AccountTyped ==
    ASSUME DistributionAssumption, TypedInv, NEW v \in Validators,
           Delegate(v) \/ Accrue(v) \/ \E amount \in 1..MaxStake : Undelegate(v, amount)
    PROVE  TypeOK' /\ changes' \in Nat
<1> DEFINE Accounts == [stake : [Validators -> 0..MaxStake], reward : [Validators -> 0..1],
                        unbonding : SUBSET (Validators \X (1..MaxStake) \X (1..MaxChanges))]
<1>1. account \in Accounts /\ changes \in Nat /\ MaxStake \in Nat /\ MaxChanges \in Nat
    BY DEF TypedInv, TypeOK, DistributionAssumption
<1>2. changes' = changes + 1 /\ changes' \in 1..MaxChanges
    <2>1. changes < MaxChanges /\ changes' = changes + 1
        BY Zenon DEF Delegate, Accrue, Undelegate, Change
    <2> QED
        BY <1>1, <2>1
<1>3. UNCHANGED <<validatorsPicture, keybase, call>>
    BY DEF Delegate, Accrue, Undelegate
<1>4. account' \in Accounts
    <2> DEFINE a == account
    <2>0. /\ a.stake \in [Validators -> 0..MaxStake] /\ a.reward \in [Validators -> 0..1]
          /\ a.unbonding \subseteq Validators \X (1..MaxStake) \X (1..MaxChanges)
          /\ a = [stake |-> a.stake, reward |-> a.reward, unbonding |-> a.unbonding]
        BY <1>1
    <2>1. CASE Delegate(v)
        <3>1. account.stake[v] + 1 \in 0..MaxStake
            BY <1>1, <2>0, <2>1 DEF Delegate
        <3>2. account' = [stake |-> [a.stake EXCEPT ![v] = @ + 1],
                          reward |-> [a.reward EXCEPT ![v] = 0], unbonding |-> a.unbonding]
            BY <2>0, <2>1 DEF Delegate
        <3> QED
            BY <2>0, <3>1, <3>2
    <2>2. CASE Accrue(v)
        <3>1. account' = [stake |-> a.stake, reward |-> [a.reward EXCEPT ![v] = 1],
                          unbonding |-> a.unbonding]
            BY <2>0, <2>2 DEF Accrue
        <3> QED
            BY <2>0, <3>1
    <2>3. ASSUME NEW amount \in 1..MaxStake, Undelegate(v, amount) PROVE account' \in Accounts
        <3>0. a.stake[v] \in 0..MaxStake /\ amount <= a.stake[v]
            BY <2>0, <2>3 DEF Undelegate
        <3>1. a.stake[v] - amount \in 0..MaxStake
            BY <1>1, <3>0
        <3>2. <<v, amount, changes'>> \in Validators \X (1..MaxStake) \X (1..MaxChanges)
            BY <1>2
        <3>3. account' = [stake |-> [a.stake EXCEPT ![v] = @ - amount],
                          reward |-> [a.reward EXCEPT ![v] = 0],
                          unbonding |-> a.unbonding \union {<<v, amount, changes'>>}]
            BY <2>0, <2>3 DEF Undelegate
        <3> QED
            BY <2>0, <3>1, <3>2, <3>3
    <2> QED
        BY <2>1, <2>2, <2>3
<1> QED
    BY <1>2, <1>3, <1>4 DEF TypedInv, TypeOK

LEMMA PicturesTyped ==
    ASSUME TypedInv, NEW r \in Reqs, NEW v \in Validators,
           PictureInCache(r, v) \/ AskKeybase(r, v) \/ ErrorOfKeybase(r, v)
               \/ \E url \in Pictures \union {Default} : AnswerOfKeybase(r, v, url)
    PROVE  TypeOK' /\ changes' \in Nat
<1> DEFINE Urls == Pictures \union {Default}
           i == IdentityOf[v]
<1>1. UNCHANGED <<keybase, account, changes>>
    BY DEF PictureInCache, AskKeybase, AnswerOfKeybase, ErrorOfKeybase
<1>2. KindsOK'
    <2>1. DOMAIN call = Reqs /\ call[r] = Fields(call[r])
        BY DEF TypedInv, DInv, CallShape
    <2>2. CASE AskKeybase(r, v)
        <3>1. \A q \in Reqs : call'[q].kind = call[q].kind
            BY <2>1, <2>2 DEF AskKeybase, Fields
        <3> QED
            BY <3>1 DEF KindsOK, TypedInv, TypeOK
    <2>3. CASE PictureInCache(r, v) \/ ErrorOfKeybase(r, v) \/ \E url : AnswerOfKeybase(r, v, url)
        <3>1. PICK url : Picture(r, v, url)
            BY <2>3 DEF PictureInCache, AnswerOfKeybase, ErrorOfKeybase
        <3>2. \A q \in Reqs : call'[q].kind = call[q].kind
            BY <2>1, <3>1 DEF Picture, Fields
        <3> QED
            BY <3>2 DEF KindsOK, TypedInv, TypeOK
    <2> QED
        BY <2>2, <2>3
<1>3. /\ validatorsPicture' \in [DOMAIN validatorsPicture' -> Urls]
      /\ DOMAIN validatorsPicture' \subseteq Identities
    <2>1. CASE UNCHANGED validatorsPicture
        BY <2>1 DEF TypedInv, TypeOK
    <2>2. ASSUME NEW url \in Pictures \union {Default}, AnswerOfKeybase(r, v, url)
          PROVE  /\ validatorsPicture' \in [DOMAIN validatorsPicture' -> Urls]
                 /\ DOMAIN validatorsPicture' \subseteq Identities
        <3>1. i \in Identities /\ url \in Urls
            BY <2>2 DEF AnswerOfKeybase, TypedInv, DInv, AskedHaveIdentity
        <3>2. validatorsPicture' = [j \in DOMAIN validatorsPicture \union {i} |->
                                       IF j = i THEN url ELSE validatorsPicture[j]]
            BY <2>2 DEF AnswerOfKeybase, Store
        <3> QED
            BY <3>1, <3>2 DEF TypedInv, TypeOK
    <2> QED
        BY <2>1, <2>2 DEF PictureInCache, AskKeybase, ErrorOfKeybase
<1> QED
    BY <1>1, <1>2, <1>3 DEF TypedInv, TypeOK, KindsOK

LEMMA NextTypedInv ==
    ASSUME DistributionAssumption
    PROVE  TypedInv /\ [Next]_vars => TypedInv'
<1> SUFFICES ASSUME TypedInv, [Next]_vars PROVE TypeOK' /\ changes' \in Nat
    BY NextDInv DEF TypedInv
<1>1. KindsOK /\ DInv
    BY DEF TypedInv, TypeOK, KindsOK, DInv
<1>2. ASSUME NEW i \in Identities, NEW url \in Pictures \union {Default}, ChangePicture(i, url)
      PROVE  TypeOK' /\ changes' \in Nat
    BY <1>2 DEF ChangePicture, Change, TypedInv, TypeOK
<1>3. ASSUME UNCHANGED <<validatorsPicture, keybase, account, changes>>, KindsOK'
      PROVE  TypeOK' /\ changes' \in Nat
    BY <1>3 DEF TypedInv, TypeOK, KindsOK
<1>4. ASSUME NEW r \in Reqs, NEW todo \in SUBSET Validators, GetValidators(r, todo)
      PROVE  TypeOK' /\ changes' \in Nat
    <2>1. [Idle EXCEPT !.kind = "pictures", !.todo = todo] =
              [kind |-> "pictures", todo |-> todo, asked |-> {}, shown |-> {}]
        BY IdleExcept
    <2> QED
        BY <1>1, <1>3, <1>4, <2>1, ShowKinds DEF GetValidators
<1>5. ASSUME NEW r \in Reqs, NEW kind \in {"delegation", "delegations", "undelegations"}, NEW rows,
             Show(r, kind, rows)
      PROVE  TypeOK' /\ changes' \in Nat
    <2>1. [Idle EXCEPT !.kind = kind, !.shown = rows] =
              [kind |-> kind, todo |-> {}, asked |-> {}, shown |-> rows]
        BY IdleExcept
    <2>2. call' = [call EXCEPT ![r] = [kind |-> kind, todo |-> {}, asked |-> {},
                                       shown |-> rows]]
        BY <1>5, <2>1 DEF Show
    <2>3. KindsOK'
        BY <1>1, <2>2, ShowKinds
    <2> QED
        BY <1>3, <1>5, <2>3 DEF Show
<1>6. ASSUME NEW r \in Reqs, Answer(r) PROVE TypeOK' /\ changes' \in Nat
    BY <1>1, <1>3, <1>6, ShowKinds DEF Answer, Idle
<1>7. ASSUME NEW r \in Reqs, NEW v \in Validators, GetDelegation(r, v)
      PROVE  TypeOK' /\ changes' \in Nat
    BY <1>5, <1>7 DEF GetDelegation
<1>8. ASSUME NEW r \in Reqs, GetDelegations(r) \/ GetUndelegations(r)
      PROVE  TypeOK' /\ changes' \in Nat
    BY <1>5, <1>8 DEF GetDelegations, GetUndelegations
<1>9. CASE UNCHANGED vars
    BY <1>9 DEF vars, TypedInv, TypeOK
<1>10. CASE Next
    BY <1>2, <1>4, <1>6, <1>7, <1>8, <1>10, AccountTyped, PicturesTyped DEF Next
<1> QED
    BY <1>9, <1>10
=============================================================================

----------------------------- MODULE PartsProofs -----------------------------
(***************************************************************************)
(* The inductive invariants of the components of Parts, and that each of   *)
(* them implies the properties of its component.                           *)
(***************************************************************************)
EXTENDS Parts, FoldProofs, TLAPS

-----------------------------------------------------------------------------
(* Governance. *)

K == TallyKeys

LEMMA KeysAre ==
    /\ Len(K) = 4 /\ DOMAIN K = 1..4 /\ 1..4 = {1, 2, 3, 4}
    /\ Gov!Keys = {K[1], K[2], K[3], K[4]}
    /\ K[1] = "yes" /\ K[2] = "abstain" /\ K[3] = "no" /\ K[4] = "no_with_veto"
    /\ \A i \in 1..4 : K[i] \in Gov!Keys
<1>1. 1..4 = {1, 2, 3, 4}
    OBVIOUS
<1>2. Len(K) = 4 /\ DOMAIN K = 1..4 /\ K[1] = "yes" /\ K[2] = "abstain" /\ K[3] = "no"
      /\ K[4] = "no_with_veto"
    BY DEF K, TallyKeys
<1>3. Gov!Keys = {K[i] : i \in 1..4}
    BY <1>2 DEF Gov!Keys, K
<1> QED
    BY <1>1, <1>2, <1>3

LEMMA TallySum ==
    ASSUME NEW tally \in [Gov!Keys -> Nat]
    PROVE  Gov!Sum(tally) = tally["yes"] + tally["abstain"] + tally["no"] + tally["no_with_veto"]
<1> DEFINE f == [i \in 1..Len(K) |-> tally[K[i]]]
<1>1. Gov!Sum(tally) = SumOf(f, DOMAIN f)
    BY DEF Gov!Sum, Gov!FoldSeq, Gov!FoldFunction, Gov!FoldFunctionOnSet, Gov!MapThenFoldSet,
           SumOf, IsSum, Pick, K
<1>2. f \in [1..4 -> Int] /\ DOMAIN f = 1..4
      /\ f[1] = tally["yes"] /\ f[2] = tally["abstain"] /\ f[3] = tally["no"]
      /\ f[4] = tally["no_with_veto"]
    BY KeysAre
<1> HIDE DEF f
<1> QED
    BY <1>1, <1>2, SumOfFour DEF Ints

\* The variables of Governance: v1 is proposal, v2 bonded, v3 votes and v4 page.
Tallies == [Gov!Keys -> Nat]
Proposed(statuses) == [status : statuses, tally : Tallies, final : Tallies]
Statuses == {"VOTING_PERIOD", "PASSED", "REJECTED"}

\* A proposal that is not voted on any more has the tally it had as its final one.
Settled(p) == p.status # "VOTING_PERIOD" => p.final = p.tally

GInv ==
    /\ v1 \in Proposed(Statuses) /\ Settled(v1)
    /\ v2 \in Bonds /\ v3 \in 0..MaxVotes
    /\ v4 \in [read : {"nothing", "proposals", "proposal", "network"},
               proposal : Proposed(Statuses \union {""}), bonded : Nat]
    /\ Settled(v4.proposal)
    /\ v4.read = "network" => v4.bonded \in Bonds

LEMMA NoPageIs ==
    /\ Gov!NoTally \in Tallies
    /\ Gov!NoPage \in [read : {"nothing", "proposals", "proposal", "network"},
                       proposal : Proposed(Statuses \union {""}), bonded : Nat]
    /\ Settled(Gov!NoPage.proposal) /\ Gov!NoPage.read = "nothing" /\ Gov!NoPage.bonded = 0
    BY DEF Gov!NoTally, Gov!NoPage, Tallies, Proposed, Settled

LEMMA InitGInv == Gov!Init => GInv
<1> SUFFICES ASSUME Gov!Init PROVE GInv
    OBVIOUS
<1>1. v1 = [status |-> "VOTING_PERIOD", tally |-> Gov!NoTally, final |-> Gov!NoTally]
      /\ v2 \in Bonds /\ v3 = 0 /\ v4 = Gov!NoPage
    BY DEF Gov!Init
<1>2. MaxVotes \in Nat
    BY PartsAssumption DEF Gov!GovernanceAssumption
<1>3. v1 \in Proposed(Statuses) /\ Settled(v1)
    BY <1>1, NoPageIs DEF Proposed, Statuses, Settled
<1>4. v3 \in 0..MaxVotes
    BY <1>1, <1>2
<1> QED
    BY <1>1, <1>3, <1>4, NoPageIs DEF GInv

LEMMA NextGInv == GInv /\ [Gov!Next]_(Gov!vars) => GInv'
<1> SUFFICES ASSUME GInv, [Gov!Next]_(Gov!vars) PROVE GInv'
    OBVIOUS
<1>0. Powers \subseteq Nat /\ Bonds \subseteq Nat \ {0} /\ MaxVotes \in Nat
    BY PartsAssumption DEF Gov!GovernanceAssumption
<1> USE DEF GInv
<1>1. ASSUME NEW key \in Gov!Keys, NEW power \in Powers, Gov!Vote(key, power) PROVE GInv'
    <2>1. v1.status = "VOTING_PERIOD" /\ v3 < MaxVotes /\ v3' = v3 + 1
          /\ v1' = [v1 EXCEPT !.tally[key] = @ + power] /\ v2' = v2 /\ v4' = v4
        BY <1>1 DEF Gov!Vote
    <2>2. v1.tally \in Tallies /\ v1.final \in Tallies /\ v1.status \in Statuses
        BY DEF Proposed
    <2>3. [v1.tally EXCEPT ![key] = @ + power] \in Tallies
        <3>1. power \in Nat /\ v1.tally[key] \in Nat
            BY <1>0, <2>2 DEF Tallies
        <3> HIDE DEF GInv
        <3>2. v1.tally[key] + power \in Nat
            BY <3>1
        <3> QED
            BY <2>2, <3>2 DEF Tallies
    <2>4. v1' = [v1 EXCEPT !.tally = [v1.tally EXCEPT ![key] = @ + power]]
        BY <2>1
    <2>5. v1' \in Proposed(Statuses)
        BY <2>2, <2>3, <2>4 DEF Proposed
    <2>6. v1'.status = "VOTING_PERIOD"
        BY <2>1, <2>4 DEF Proposed
    <2>7. v3' \in 0..MaxVotes
        <3>1. v3 \in 0..MaxVotes
            OBVIOUS
        <3> HIDE DEF GInv
        <3> QED
            BY <1>0, <2>1, <3>1
    <2> QED
        BY <2>1, <2>5, <2>6, <2>7 DEF Settled
<1>2. ASSUME Gov!EndVoting PROVE GInv'
    <2>1. PICK status \in {"PASSED", "REJECTED"} :
              v1' = [v1 EXCEPT !.final = v1.tally, !.status = status]
        BY <1>2 DEF Gov!EndVoting
    <2>2. v1' \in Proposed(Statuses) /\ v1'.final = v1'.tally
        BY <2>1 DEF Proposed, Statuses
    <2>3. v2' = v2 /\ v3' = v3 /\ v4' = v4
        BY <1>2 DEF Gov!EndVoting
    <2> QED
        BY <2>2, <2>3 DEF Settled
<1>3. ASSUME Gov!ChangeBonded PROVE GInv'
    BY <1>3 DEF Gov!ChangeBonded
<1>4. ASSUME Gov!GetProposals \/ Gov!GetProposalById PROVE GInv'
    <2>1. PICK read \in {"proposals", "proposal"} :
              v4' = [Gov!NoPage EXCEPT !.read = read, !.proposal = v1]
        BY <1>4 DEF Gov!GetProposals, Gov!GetProposalById
    <2>2. v1' = v1 /\ v2' = v2 /\ v3' = v3
        BY <1>4 DEF Gov!GetProposals, Gov!GetProposalById
    <2>3. v1 \in Proposed(Statuses \union {""})
        BY DEF Proposed
    <2>4. v4'.read = read /\ v4'.proposal = v1
          /\ v4' \in [read : {"nothing", "proposals", "proposal", "network"},
                      proposal : Proposed(Statuses \union {""}), bonded : Nat]
        BY <2>1, <2>3, NoPageIs
    <2> QED
        BY <2>2, <2>4
<1>5. ASSUME Gov!GetNetwork PROVE GInv'
    <2>1. v4' = [v4 EXCEPT !.read = "network", !.bonded = v2]
          /\ v1' = v1 /\ v2' = v2 /\ v3' = v3
        BY <1>5 DEF Gov!GetNetwork
    <2>2. v2 \in Nat
        BY <1>0
    <2>3. v4'.bonded = v2 /\ v4'.proposal = v4.proposal
          /\ v4' \in [read : {"nothing", "proposals", "proposal", "network"},
                      proposal : Proposed(Statuses \union {""}), bonded : Nat]
        BY <2>1, <2>2
    <2> QED
        BY <2>1, <2>3
<1>6. ASSUME Gov!Answer PROVE GInv'
    BY <1>6, NoPageIs DEF Gov!Answer
<1>7. ASSUME UNCHANGED Gov!vars PROVE GInv'
    BY <1>7 DEF Gov!vars
<1> QED
    BY <1>1, <1>2, <1>3, <1>4, <1>5, <1>6, <1>7 DEF Gov!Next

\* A key that nothing exceeds, of those the fold has seen; Options[1] before any.
LEMMA MostVotedIsMost ==
    ASSUME NEW tally \in Tallies
    PROVE  /\ Gov!MostVoted(tally) \in Gov!Keys
           /\ \A k \in Gov!Keys : tally[k] <= tally[Gov!MostVoted(tally)]
<1> DEFINE I == 1..4
           More(k, best) == IF tally[k] > tally[best] THEN k ELSE best
           Most(it) == it = [s \in SUBSET I |-> IF s = {} THEN K[1]
                                                ELSE More(K[Max(s)], it[s \ {Max(s)}])]
           last == [s \in SUBSET I |-> Max(s)]
           g == [p \in I \X Gov!Keys |-> More(K[p[1]], p[2])]
<1>1. Gov!MostVoted(tally) = (CHOOSE it : Most(it))[I]
    <2>1. DOMAIN K = I
        BY KeysAre
    <2> QED
        BY <2>1 DEF Gov!MostVoted, Gov!FoldLeft, Gov!MapThenFoldSet, Gov!Max, Max, K
<1>2. IsFiniteSet(I)
    <2>1. Upto(I, 4) /\ 4 \in Nat
        BY DEF Upto
    <2> HIDE DEF I
    <2> QED
        BY <2>1, UptoIsFinite
<1>3. \A s \in SUBSET I : s # {} => last[s] \in s
    <2>1. 4 \in Nat
        OBVIOUS
    <2> QED
        BY <2>1, MaxIsMember
<1>4. K[1] \in Gov!Keys /\ \A x \in I : K[x] \in Gov!Keys
    BY KeysAre
<1>5. \A x \in I, v \in Gov!Keys : g[<<x, v>>] = More(K[x], v) /\ g[<<x, v>>] \in Gov!Keys
    BY <1>4
<1>6. \E it : Most(it)
    <2> HIDE DEF g, last, I
    <2>1. PICK it \in [SUBSET I -> Gov!Keys] : IsFold(it, g, K[1], last, I)
        BY <1>2, <1>3, <1>4, <1>5, FoldExists
    <2>2. \A s \in SUBSET I : s # {} =>
              last[s] = Max(s) /\ Max(s) \in I /\ s \ {Max(s)} \in SUBSET I
        BY <1>3 DEF last
    <2>3. \A s \in SUBSET I : s # {} =>
              g[<<last[s], it[s \ {last[s]}]>>] = More(K[Max(s)], it[s \ {Max(s)}])
        <3> SUFFICES ASSUME NEW s \in SUBSET I, s # {}
                     PROVE  g[<<last[s], it[s \ {last[s]}]>>] = More(K[Max(s)], it[s \ {Max(s)}])
            OBVIOUS
        <3>1. last[s] = Max(s) /\ Max(s) \in I /\ it[s \ {Max(s)}] \in Gov!Keys
            BY <2>1, <2>2
        <3> HIDE DEF More
        <3> QED
            BY <1>5, <3>1
    <2> HIDE DEF More
    <2>4. Most(it)
        BY <2>1, <2>3 DEF IsFold
    <2> QED
        BY <2>4
<1>7. PICK it : Most(it) /\ Gov!MostVoted(tally) = it[I]
    BY <1>1, <1>6
<1>8. it[{}] = K[1]
    BY <1>7
<1>9. \A k \in I : it[1..k] = More(K[k], it[1..(k - 1)])
    <2> SUFFICES ASSUME NEW k \in I PROVE it[1..k] = More(K[k], it[1..(k - 1)])
        OBVIOUS
    <2>1. Max(1..k) = k /\ (1..k) \ {k} = 1..(k - 1)
        BY MaxOfPrefix
    <2>2. 1..k \in SUBSET I /\ 1..k # {}
        OBVIOUS
    <2>3. Most(it)
        BY <1>7
    <2> HIDE DEF More, I
    <2>4. \A s \in SUBSET I : s # {} => it[s] = More(K[Max(s)], it[s \ {Max(s)}])
        BY <2>3
    <2> QED
        BY <2>1, <2>2, <2>4
<1>10. \A k, m \in Gov!Keys : /\ More(k, m) \in Gov!Keys
                              /\ tally[k] <= tally[More(k, m)] /\ tally[m] <= tally[More(k, m)]
    <2>1. \A k \in Gov!Keys : tally[k] \in Nat
        BY DEF Tallies
    <2> QED
        BY <2>1
<1> DEFINE Best(k) == it[1..k] \in Gov!Keys /\ \A j \in 1..k : tally[K[j]] <= tally[it[1..k]]
<1>11. it[1..0] = K[1]
    <2>1. 1..0 = {}
        OBVIOUS
    <2> QED
        BY <1>8, <2>1
<1>12. \A k \in I : it[1..(k - 1)] \in Gov!Keys => it[1..k] \in Gov!Keys
    BY <1>4, <1>9, <1>10
<1>13. ASSUME NEW k \in I, Best(k - 1), it[1..(k - 1)] \in Gov!Keys PROVE Best(k)
    <2> DEFINE m == it[1..(k - 1)]
               n == it[1..k]
    <2>1. n \in Gov!Keys /\ tally[K[k]] <= tally[n] /\ tally[m] <= tally[n]
        BY <1>4, <1>9, <1>10, <1>13
    <2>2. \A j \in 1..(k - 1) : tally[K[j]] <= tally[m] /\ j \in I
        BY <1>13
    <2>3. \A j \in I : tally[K[j]] \in Nat
        BY <1>4 DEF Tallies
    <2>4. tally[m] \in Nat /\ tally[n] \in Nat
        BY <1>13, <2>1 DEF Tallies
    <2>5. \A j \in 1..k : j = k \/ j \in 1..(k - 1)
        OBVIOUS
    <2> HIDE DEF m, n, I
    <2>6. \A j \in 1..(k - 1) : tally[K[j]] <= tally[n]
        BY <2>1, <2>2, <2>3, <2>4
    <2>7. \A j \in 1..k : tally[K[j]] <= tally[n]
        BY <2>1, <2>5, <2>6
    <2> QED
        BY <2>1, <2>7 DEF n
<1> HIDE DEF More, Most
<1>14. Best(0)
    BY <1>4, <1>11
<1>15. Best(4)
    <2> HIDE DEF Best
    <2>1. \A k \in I : Best(k - 1) => Best(k)
        BY <1>13 DEF Best
    <2>2. Best(1) /\ (Best(1) => Best(2)) /\ (Best(2) => Best(3)) /\ (Best(3) => Best(4))
        BY <1>14, <2>1
    <2> QED
        BY <2>2
<1> QED
    BY <1>7, <1>15, KeysAre

LEMMA PercentIsShare ==
    ASSUME NEW v \in Nat, NEW t \in Nat \ {0}
    PROVE  Gov!GetPercentage(v, t) = Share(v, t) /\ Share(v, t) \in Nat
<1>1. ShareIs(Share(v, t), v, t)
    BY ShareBounds
<1>2. Share(v, t) \in Nat
    BY <1>1 DEF ShareIs
<1>3. CASE v = 0
    <2>1. ASSUME NEW q \in Nat, 2 * (t * q) <= t PROVE q = 0
        <3>1. t * (2 * q) < t * 2
            BY <2>1
        <3>2. 2 * q < 2
            BY <3>1, LessFactor
        <3> QED
            BY <3>2
    <2>2. 2 * (t * Share(v, t)) <= t
        BY <1>1, <1>3 DEF ShareIs
    <2>3. Share(v, t) = 0
        BY <1>2, <2>1, <2>2
    <2> QED
        BY <1>3, <2>3 DEF Gov!GetPercentage
<1>4. CASE v # 0
    BY <1>2, <1>4 DEF Gov!GetPercentage, Share
<1> QED
    BY <1>3, <1>4

LEMMA NearIsSum ==
    ASSUME NEW s
    PROVE  Gov!Near100(s) <=> SumOf(s, DOMAIN s) \in 9998..10002
    BY DEF Gov!Near100, Gov!FoldSeq, Gov!FoldFunction, Gov!FoldFunctionOnSet, Gov!MapThenFoldSet,
           SumOf, IsSum, Pick

LEMMA TallyShown ==
    ASSUME NEW p, p.tally \in Tallies, p.final \in Tallies
    PROVE  LET tally == Gov!TallyOf(p) IN
           /\ tally \in Tallies
           /\ Gov!MapProposal(p).tally.percent
                  = [k \in Gov!Keys |-> Gov!GetPercentage(tally[k], Gov!Sum(tally))]
           /\ Gov!MapProposal(p).tally.mostVotedOn = Gov!MostVoted(tally)
    BY DEF Gov!TallyOf, Gov!MapProposal, Gov!CalculateProposalTally

LEMMA SumOfTally ==
    ASSUME NEW tally \in Tallies
    PROVE  /\ \A k \in Gov!Keys : tally[k] \in Nat /\ tally[k] <= Gov!Sum(tally)
           /\ Gov!Sum(tally) \in Nat
<1>1. \A k \in Gov!Keys : tally[k] \in Nat
    BY DEF Tallies
<1>2. tally["yes"] \in Nat /\ tally["abstain"] \in Nat /\ tally["no"] \in Nat
      /\ tally["no_with_veto"] \in Nat
    BY <1>1, KeysAre
<1>3. Gov!Sum(tally) = tally["yes"] + tally["abstain"] + tally["no"] + tally["no_with_veto"]
    BY TallySum DEF Tallies
<1>4. \A k \in Gov!Keys : k \in {"yes", "abstain", "no", "no_with_veto"}
    BY KeysAre
<1> HIDE DEF Tallies
<1>5. Gov!Sum(tally) \in Nat
    BY <1>2, <1>3
<1>6. tally["yes"] <= Gov!Sum(tally) /\ tally["abstain"] <= Gov!Sum(tally)
      /\ tally["no"] <= Gov!Sum(tally) /\ tally["no_with_veto"] <= Gov!Sum(tally)
    BY <1>2, <1>3
<1> QED
    BY <1>1, <1>4, <1>5, <1>6

LEMMA PercentsAddUp ==
    ASSUME NEW tally \in Tallies, NEW total \in Nat \ {0}, total = Gov!Sum(tally),
           NEW percents, percents = [i \in 1..4 |-> Gov!GetPercentage(tally[K[i]], total)]
    PROVE  Gov!Near100(percents)
<1> DEFINE S(k) == Share(tally[k], total)
<1>1. \A k \in Gov!Keys : tally[k] \in Nat
    BY SumOfTally
<1>2. tally["yes"] \in Nat /\ tally["abstain"] \in Nat /\ tally["no"] \in Nat
      /\ tally["no_with_veto"] \in Nat
    BY <1>1, KeysAre
<1>3. tally["yes"] + tally["abstain"] + tally["no"] + tally["no_with_veto"] = total
    BY TallySum DEF Tallies
<1>4. S("yes") + S("abstain") + S("no") + S("no_with_veto") \in 9998..10002
    <2> DEFINE a == tally["yes"]
               b == tally["abstain"]
               c == tally["no"]
               d == tally["no_with_veto"]
    <2>1. a \in Nat /\ b \in Nat /\ c \in Nat /\ d \in Nat /\ a + b + c + d = total
        BY <1>2, <1>3
    <2> HIDE DEF a, b, c, d
    <2>2. Share(a, total) + Share(b, total) + Share(c, total) + Share(d, total) \in 9998..10002
        BY <2>1, FourShares
    <2> QED
        BY <2>2 DEF a, b, c, d
<1>5. \A k \in Gov!Keys : Gov!GetPercentage(tally[k], total) = S(k) /\ S(k) \in Nat
    BY <1>1, PercentIsShare
<1> HIDE DEF S
<1>6. Ints(percents, 4) /\ DOMAIN percents = 1..4
    BY <1>5, KeysAre DEF Ints
<1>7. percents[1] = S("yes") /\ percents[2] = S("abstain") /\ percents[3] = S("no")
      /\ percents[4] = S("no_with_veto")
    BY <1>5, KeysAre
<1>8. SumOf(percents, DOMAIN percents) \in 9998..10002
    BY <1>4, <1>6, <1>7, SumOfFour
<1> QED
    BY <1>8, NearIsSum

LEMMA GInvAddsUp == GInv => Gov!TallyAddsUp
<1> SUFFICES ASSUME GInv PROVE Gov!TallyAddsUp
    OBVIOUS
<1> DEFINE tally == Gov!TallyOf(v4.proposal)
           total == Gov!Sum(tally)
           percent == [k \in Gov!Keys |-> Gov!GetPercentage(tally[k], total)]
           percents == [i \in 1..Len(K) |-> percent[K[i]]]
           most == Gov!MostVoted(tally)
<1>1. v4.proposal.tally \in Tallies /\ v4.proposal.final \in Tallies
    BY DEF GInv, Proposed
<1>2. /\ tally \in Tallies
      /\ Gov!MapProposal(v4.proposal).tally.percent = percent
      /\ Gov!MapProposal(v4.proposal).tally.mostVotedOn = most
    BY <1>1, TallyShown
<1> HIDE DEF tally
<1>3. most \in Gov!Keys /\ \A k \in Gov!Keys : tally[k] <= tally[most]
    BY <1>2, MostVotedIsMost
<1>4. total \in Nat /\ \A k \in Gov!Keys : tally[k] \in Nat /\ tally[k] <= total
    BY <1>2, SumOfTally
<1> HIDE DEF most, total
<1>5. \A k \in Gov!Keys : percent[k] = Gov!GetPercentage(tally[k], total)
    OBVIOUS
<1>6. CASE total = 0
    <2>1. \A k \in Gov!Keys : tally[k] = 0
        BY <1>4, <1>6
    <2>2. \A k \in Gov!Keys : percent[k] = 0
        BY <1>5, <2>1 DEF Gov!GetPercentage
    <2>3. percent[most] = 0
        BY <1>3, <2>2
    <2> HIDE DEF percent
    <2> QED
        BY <1>2, <2>2, <2>3 DEF Gov!TallyAddsUp
<1>7. CASE total # 0
    <2>0. total \in Nat \ {0}
        BY <1>4, <1>7
    <2>1. percents = [i \in 1..4 |-> Gov!GetPercentage(tally[K[i]], total)]
        BY <1>5, KeysAre
    <2>2. Gov!Near100(percents)
        BY <1>2, <2>0, <2>1, PercentsAddUp DEF total
    <2>3. ASSUME NEW k \in Gov!Keys PROVE percent[k] <= percent[most]
        <3>1. percent[k] = Share(tally[k], total) /\ percent[most] = Share(tally[most], total)
            BY <1>3, <1>4, <1>5, <2>0, PercentIsShare
        <3> QED
            BY <1>3, <1>4, <2>0, <3>1, ShareGrows
    <2> HIDE DEF percent
    <2> QED
        BY <1>2, <2>2, <2>3 DEF Gov!TallyAddsUp, K
<1> QED
    BY <1>6, <1>7

LEMMA TurnoutAddsUp ==
    ASSUME NEW a \in Nat, NEW b \in Nat, NEW c \in Nat, NEW t \in Nat \ {0}
    PROVE  a + b + c = t =>
               Gov!Near100(<<Gov!GetPercentage(a, t), Gov!GetPercentage(b, t),
                             Gov!GetPercentage(c, t)>>)
<1> DEFINE percent == <<Gov!GetPercentage(a, t), Gov!GetPercentage(b, t),
                        Gov!GetPercentage(c, t)>>
<1>1. a + b + c = t => Share(a, t) + Share(b, t) + Share(c, t) \in 9998..10002
    <2>1. ThreeAddUp(a, b, c, t)
        BY ThreeShares
    <2> QED
        BY <2>1 DEF ThreeAddUp
<1>2. /\ Gov!GetPercentage(a, t) = Share(a, t) /\ Share(a, t) \in Nat
      /\ Gov!GetPercentage(b, t) = Share(b, t) /\ Share(b, t) \in Nat
      /\ Gov!GetPercentage(c, t) = Share(c, t) /\ Share(c, t) \in Nat
    BY PercentIsShare
<1>3. /\ DOMAIN percent = 1..3 /\ percent[1] = Share(a, t)
      /\ percent[2] = Share(b, t) /\ percent[3] = Share(c, t)
    BY <1>2
<1>4. Ints(percent, 3)
    BY <1>2 DEF Ints
<1> HIDE DEF percent
<1>5. SumOf(percent, DOMAIN percent) = Share(a, t) + Share(b, t) + Share(c, t)
    BY <1>3, <1>4, SumOfThree
<1>6. a + b + c = t => Gov!Near100(percent)
    BY <1>1, <1>5, NearIsSum
<1> QED
    BY <1>6 DEF percent

LEMMA GInvIsComplete == GInv => Gov!TurnoutIsComplete
<1> DEFINE p == v4.proposal
           tally == Gov!TallyOf(p)
           total == v4.bonded
           voted == tally["yes"] + tally["no"] + tally["no_with_veto"]
           abstain == tally["abstain"]
           rest == total - voted - abstain
           percent == <<Gov!GetPercentage(voted, total), Gov!GetPercentage(abstain, total),
                        Gov!GetPercentage(rest, total)>>
<1> SUFFICES ASSUME GInv, v4.read = "network", Gov!Sum(tally) <= total
             PROVE  voted + abstain = Gov!Sum(p.tally) /\ Gov!Near100(percent)
    BY DEF Gov!TurnoutIsComplete, Gov!ProposalDetail, Gov!CalculateProposalTurnout
<1>1. p.tally \in Tallies /\ p.final \in Tallies /\ Settled(p)
    BY DEF GInv, Proposed
<1>2. tally = p.tally
    BY <1>1 DEF Gov!TallyOf, Settled
<1>3. total \in Nat \ {0}
    BY PartsAssumption DEF GInv, Gov!GovernanceAssumption
<1> HIDE DEF tally, total, p
<1>4. tally \in Tallies
    BY <1>1, <1>2
<1>5. \A k \in Gov!Keys : tally[k] \in Nat
    BY <1>4, SumOfTally
<1>6. tally["yes"] \in Nat /\ abstain \in Nat /\ tally["no"] \in Nat
      /\ tally["no_with_veto"] \in Nat
    BY <1>5, KeysAre
<1>7. Gov!Sum(tally) = tally["yes"] + abstain + tally["no"] + tally["no_with_veto"]
    BY <1>4, TallySum DEF Tallies
<1>8. voted \in Nat /\ voted + abstain = Gov!Sum(tally)
    BY <1>6, <1>7
<1> HIDE DEF abstain, voted
<1>9. rest \in Nat /\ voted + abstain + rest = total
    BY <1>3, <1>6, <1>8
<1> HIDE DEF rest
<1> HIDE DEF percent
<1>10. Gov!Near100(percent)
    BY <1>3, <1>6, <1>8, <1>9, TurnoutAddsUp DEF percent
<1> QED
    BY <1>2, <1>8, <1>10

LEMMA GInvTyped == GInv => Gov!TypeOK
    BY DEF GInv, Proposed, Tallies, Statuses, Gov!TypeOK

-----------------------------------------------------------------------------
(* The table of chains. *)

\* createOrUpdate: rows and found are what the fold has of the table, table is the table
\* that was found in.
Put(table, rows, info, found) ==
    LET same == {id \in found : table[id].chainId = info.chainId}
    IN  IF same = {} THEN Append(rows, info) ELSE [rows EXCEPT ![Min(same)] = info]

IsSeeding(it, table, infos, found) ==
    it = [s \in SUBSET (DOMAIN infos) |->
              IF s = {} THEN table
              ELSE Put(table, it[s \ {Max(s)}], infos[Max(s)], found)]
Seeding(table, infos, found) ==
    (CHOOSE it : IsSeeding(it, table, infos, found))[DOMAIN infos]

\* The rows a table had are still about the same chains.
Extends(rows, table, V) ==
    /\ rows \in Seq(V) /\ Len(rows) >= Len(table)
    /\ \A id \in 1..Len(table) : rows[id].chainId = table[id].chainId

LEMMA PutExtends ==
    ASSUME NEW V, NEW table \in Seq(V), NEW rows, Extends(rows, table, V), NEW info \in V,
           NEW found \in SUBSET (1..Len(table))
    PROVE  /\ Extends(Put(table, rows, info, found), table, V)
           /\ \/ /\ \A id \in found : table[id].chainId # info.chainId
                 /\ Put(table, rows, info, found) = Append(rows, info)
              \/ /\ Len(Put(table, rows, info, found)) = Len(rows)
                 /\ \A id \in 1..Len(rows) :
                        \/ Put(table, rows, info, found)[id] = rows[id]
                        \/ /\ Put(table, rows, info, found)[id].chainId = table[id].chainId
                           /\ id <= Len(table)
<1> DEFINE same == {id \in found : table[id].chainId = info.chainId}
           new == Put(table, rows, info, found)
<1>1. rows \in Seq(V) /\ Len(rows) \in Nat /\ Len(table) \in Nat /\ Len(rows) >= Len(table)
      /\ \A id \in 1..Len(table) : rows[id].chainId = table[id].chainId
    BY DEF Extends
<1>2. CASE same = {}
    <2>1. new = Append(rows, info)
        BY <1>2 DEF Put
    <2>2. new \in Seq(V) /\ Len(new) = Len(rows) + 1 /\ \A id \in 1..Len(rows) : new[id] = rows[id]
        BY <1>1, <2>1
    <2>3. Len(new) >= Len(table) /\ \A id \in 1..Len(table) : id \in 1..Len(rows)
        BY <1>1, <2>2
    <2>4. Extends(new, table, V)
        BY <1>1, <2>2, <2>3 DEF Extends
    <2> QED
        BY <1>2, <2>1, <2>4
<1>3. CASE same # {}
    <2>1. same \in SUBSET Nat
        <3>1. same \subseteq 1..Len(table)
            OBVIOUS
        <3>2. \A id \in 1..Len(table) : id \in Nat
            OBVIOUS
        <3> HIDE DEF same
        <3> QED
            BY <3>1, <3>2
    <2> DEFINE m == Min(same)
    <2>2. m \in same
        BY <1>3, <2>1, MinIsMember
    <2>3. new = [rows EXCEPT ![m] = info]
        BY <1>3 DEF Put
    <2> HIDE DEF m
    <2>4. m \in 1..Len(table) /\ table[m].chainId = info.chainId
        BY <2>2
    <2>5. m \in 1..Len(rows) /\ \A id \in 1..Len(table) : id \in 1..Len(rows)
        BY <1>1, <2>4
    <2>6. new \in Seq(V) /\ Len(new) = Len(rows) /\ new[m] = info
          /\ \A id \in 1..Len(rows) : id # m => new[id] = rows[id]
        BY <1>1, <2>3, <2>5
    <2> HIDE DEF new, same
    <2>7. Extends(new, table, V)
        BY <1>1, <2>4, <2>5, <2>6 DEF Extends
    <2>8. \A id \in 1..Len(rows) :
              new[id] = rows[id] \/ (new[id].chainId = table[id].chainId /\ id <= Len(table))
        BY <2>4, <2>6
    <2> QED
        BY <2>6, <2>7, <2>8 DEF new
<1> QED
    BY <1>2, <1>3

\* The fold, one of the infos after the other.
LEMMA SeedingSteps ==
    ASSUME NEW V, NEW table \in Seq(V), NEW infos \in Seq(V), NEW found \in SUBSET (1..Len(table))
    PROVE  \E at : /\ at[0] = table /\ at[Len(infos)] = Seeding(table, infos, found)
                   /\ \A k \in 1..Len(infos) : at[k] = Put(table, at[k - 1], infos[k], found)
<1> DEFINE I == DOMAIN infos
           n == Len(infos)
           W == {rows \in Seq(V) : Extends(rows, table, V)}
           last == [s \in SUBSET I |-> Max(s)]
           g == [p \in I \X W |-> Put(table, p[2], infos[p[1]], found)]
<1>0. n \in Nat /\ I = 1..n /\ \A x \in I : infos[x] \in V
    OBVIOUS
<1>1. IsFiniteSet(I)
    <2>1. Upto(I, n)
        BY <1>0 DEF Upto
    <2> HIDE DEF I, n
    <2> QED
        BY <1>0, <2>1, UptoIsFinite
<1>2. \A s \in SUBSET I : s # {} => Max(s) \in s /\ last[s] = Max(s)
    <2> HIDE DEF n, I
    <2>1. \A s \in SUBSET I : s # {} => Max(s) \in s
        BY <1>0, MaxIsMember
    <2> QED
        BY <2>1
<1>3. table \in W
    BY DEF Extends
<1>4. ASSUME NEW x \in I, NEW rows \in W
      PROVE  g[<<x, rows>>] = Put(table, rows, infos[x], found) /\ g[<<x, rows>>] \in W
    <2>1. Extends(Put(table, rows, infos[x], found), table, V)
        BY <1>0, PutExtends
    <2>2. Put(table, rows, infos[x], found) \in W
        BY <2>1 DEF Extends
    <2> QED
        BY <2>2
<1> HIDE DEF I, W, g, last
<1>5. \E it : IsSeeding(it, table, infos, found)
    <2>1. PICK it \in [SUBSET I -> W] : IsFold(it, g, table, last, I)
        <3>1. \A s \in SUBSET I : s # {} => last[s] \in s
            BY <1>2
        <3>2. \A x \in I, rows \in W : g[<<x, rows>>] \in W
            BY <1>4
        <3> QED
            BY <1>1, <1>3, <3>1, <3>2, FoldExists
    <2>2. ASSUME NEW s \in SUBSET I, s # {}
          PROVE  g[<<last[s], it[s \ {last[s]}]>>]
                     = Put(table, it[s \ {Max(s)}], infos[Max(s)], found)
        <3>1. last[s] = Max(s) /\ Max(s) \in I /\ it[s \ {Max(s)}] \in W
            BY <1>2, <2>1, <2>2
        <3> QED
            BY <1>4, <3>1
    <2>3. IsSeeding(it, table, infos, found)
        BY <2>1, <2>2 DEF IsFold, IsSeeding, I
    <2> QED
        BY <2>3
<1>6. PICK it : IsSeeding(it, table, infos, found) /\ Seeding(table, infos, found) = it[I]
    BY <1>5 DEF Seeding, I
<1>7. it[{}] = table /\ \A s \in SUBSET I : s # {} =>
          it[s] = Put(table, it[s \ {Max(s)}], infos[Max(s)], found)
    BY <1>6 DEF IsSeeding, I
<1> DEFINE at == [k \in 0..n |-> it[1..k]]
<1>8. at[0] = table
    <2>1. 1..0 = {} /\ 0 \in 0..n
        BY <1>0
    <2> QED
        BY <1>7, <2>1
<1>9. at[n] = it[I]
    BY <1>0
<1>10. ASSUME NEW k \in 1..n PROVE at[k] = Put(table, at[k - 1], infos[k], found)
    <2>1. k \in Nat \ {0} /\ k \in 0..n /\ k - 1 \in 0..n /\ 1..k \in SUBSET I /\ k \in 1..k
        BY <1>0
    <2>2. Max(1..k) = k /\ (1..k) \ {k} = 1..(k - 1)
        BY <2>1, MaxOfPrefix
    <2>3. at[k] = it[1..k] /\ at[k - 1] = it[1..(k - 1)]
        BY <2>1
    <2> HIDE DEF at
    <2> QED
        BY <1>7, <2>1, <2>2, <2>3
<1> HIDE DEF at
<1> QED
    BY <1>6, <1>8, <1>9, <1>10

LEMMA SeedingExtends ==
    ASSUME NEW V, NEW table \in Seq(V), NEW infos \in Seq(V), NEW found \in SUBSET (1..Len(table))
    PROVE  Extends(Seeding(table, infos, found), table, V)
<1> DEFINE n == Len(infos)
<1>0. n \in Nat /\ \A x \in 1..n : infos[x] \in V
    OBVIOUS
<1>1. PICK at : /\ at[0] = table /\ at[n] = Seeding(table, infos, found)
                /\ \A k \in 1..n : at[k] = Put(table, at[k - 1], infos[k], found)
    BY SeedingSteps
<1> HIDE DEF n
<1> DEFINE P == {k \in Nat : k <= n => Extends(at[k], table, V)}
<1>2. 0 \in P
    BY <1>1 DEF Extends
<1>3. ASSUME NEW k \in P PROVE k + 1 \in P
    <2>1. CASE k + 1 <= n
        <3>1. k + 1 \in 1..n /\ (k + 1) - 1 = k /\ k <= n
            BY <1>0, <2>1
        <3>2. Extends(at[k], table, V) /\ at[k + 1] = Put(table, at[k], infos[k + 1], found)
            BY <1>1, <3>1
        <3>3. infos[k + 1] \in V
            BY <1>0, <3>1
        <3> HIDE DEF P
        <3>4. Extends(at[k + 1], table, V)
            BY <3>2, <3>3, PutExtends
        <3> QED
            BY <3>4 DEF P
    <2> QED
        BY <2>1
<1>4. P = Nat
    <2>1. P \in SUBSET Nat
        OBVIOUS
    <2> HIDE DEF P
    <2> QED
        BY <1>2, <1>3, <2>1, NatInductionInSet
<1> QED
    BY <1>0, <1>1, <1>4

Unique(rows) == \A a, b \in 1..Len(rows) : rows[a].chainId = rows[b].chainId => a = b
Named(infos) == {infos[x].chainId : x \in 1..Len(infos)}

FoundAre(found, table, infos) ==
    found = {id \in 1..Len(table) : table[id].chainId \in Named(infos)}

\* Saved while nobody else saves, a file leaves each chain in one row.
LEMMA SeedingIsUnique ==
    ASSUME NEW V, NEW table \in Seq(V), NEW infos \in Seq(V), Unique(table), Unique(infos),
           NEW found, FoundAre(found, table, infos)
    PROVE  Unique(Seeding(table, infos, found))
<1> DEFINE n == Len(infos)
           len == Len(table)
           Good(k, rows) ==
               /\ Extends(rows, table, V) /\ Unique(rows)
               /\ \A a \in (len + 1)..Len(rows) : \E m \in 1..k : rows[a].chainId = infos[m].chainId
<1>0. n \in Nat /\ len \in Nat /\ \A x \in 1..n : infos[x] \in V
    OBVIOUS
<1>a. found \in SUBSET (1..Len(table))
    BY DEF FoundAre
<1>1. PICK at : /\ at[0] = table /\ at[n] = Seeding(table, infos, found)
                /\ \A k \in 1..n : at[k] = Put(table, at[k - 1], infos[k], found)
    <2> HIDE DEF n, len, Good
    <2> QED
        BY <1>a, SeedingSteps DEF n
<1>2. \A x \in 1..n, id \in 1..len : table[id].chainId = infos[x].chainId => id \in found
    BY DEF FoundAre, Named
<1>3. \A x, m \in 1..n : infos[x].chainId = infos[m].chainId => x = m
    BY DEF Unique
<1> HIDE DEF n, len
<1>4. ASSUME NEW k \in Nat, k + 1 <= n, NEW rows, Good(k, rows)
      PROVE  Good(k + 1, Put(table, rows, infos[k + 1], found))
    <2> DEFINE info == infos[k + 1]
               new == Put(table, rows, info, found)
    <2>1. k + 1 \in 1..n /\ info \in V /\ 1..k \subseteq 1..n /\ k + 1 \notin 1..k
          /\ k + 1 \in 1..(k + 1) /\ 1..k \subseteq 1..(k + 1)
        BY <1>0, <1>4
    <2>2. /\ Extends(new, table, V)
          /\ \/ (\A id \in found : table[id].chainId # info.chainId) /\ new = Append(rows, info)
             \/ /\ Len(new) = Len(rows)
                /\ \A id \in 1..Len(rows) :
                       \/ new[id] = rows[id]
                       \/ new[id].chainId = table[id].chainId /\ id <= len
        <3>1. Extends(rows, table, V)
            BY <1>4
        <3> HIDE DEF new, Good, info
        <3>2. /\ Extends(Put(table, rows, info, found), table, V)
              /\ \/ /\ \A id \in found : table[id].chainId # info.chainId
                    /\ Put(table, rows, info, found) = Append(rows, info)
                 \/ /\ Len(Put(table, rows, info, found)) = Len(rows)
                    /\ \A id \in 1..Len(rows) :
                           \/ Put(table, rows, info, found)[id] = rows[id]
                           \/ /\ Put(table, rows, info, found)[id].chainId = table[id].chainId
                              /\ id <= Len(table)
            BY <1>a, <2>1, <3>1, PutExtends
        <3> QED
            BY <3>2 DEF new, len
    <2>3. /\ rows \in Seq(V) /\ Len(rows) \in Nat /\ Len(rows) >= len
          /\ \A id \in 1..len : rows[id].chainId = table[id].chainId
        BY <1>4 DEF Extends, len
    <2>4. Unique(rows)
          /\ \A a \in (len + 1)..Len(rows) : \E m \in 1..k : rows[a].chainId = infos[m].chainId
        BY <1>4
    <2> HIDE DEF new, Good
    <2>5. CASE (\A id \in found : table[id].chainId # info.chainId) /\ new = Append(rows, info)
        <3>1. /\ Len(new) = Len(rows) + 1 /\ new[Len(rows) + 1] = info
              /\ \A id \in 1..Len(rows) : new[id] = rows[id]
            BY <2>1, <2>3, <2>5
        <3>2. ASSUME NEW id \in 1..Len(rows) PROVE rows[id].chainId # info.chainId
            <4>1. CASE id \in 1..len
                BY <1>2, <2>1, <2>3, <2>5, <4>1
            <4>2. CASE id \in (len + 1)..Len(rows)
                <5>1. PICK m \in 1..k : rows[id].chainId = infos[m].chainId
                    BY <2>4, <4>2
                <5> QED
                    BY <1>3, <2>1, <5>1
            <4>3. id \in 1..len \/ id \in (len + 1)..Len(rows)
                BY <1>0, <2>3
            <4> QED
                BY <4>1, <4>2, <4>3
        <3>3. \A a \in 1..Len(new) : a \in 1..Len(rows) \/ a = Len(rows) + 1
            BY <2>3, <3>1
        <3>4. Unique(new)
            BY <2>4, <3>1, <3>2, <3>3 DEF Unique
        <3>5. ASSUME NEW a \in (len + 1)..Len(new)
              PROVE  \E m \in 1..(k + 1) : new[a].chainId = infos[m].chainId
            <4>1. CASE a \in (len + 1)..Len(rows)
                <5>1. new[a] = rows[a]
                    BY <1>0, <3>1, <4>1
                <5> QED
                    BY <2>1, <2>4, <4>1, <5>1
            <4>2. CASE a = Len(rows) + 1
                BY <2>1, <3>1, <4>2
            <4>3. a \in (len + 1)..Len(rows) \/ a = Len(rows) + 1
                BY <1>0, <2>3, <3>1
            <4> QED
                BY <4>1, <4>2, <4>3
        <3> QED
            BY <2>2, <3>4, <3>5 DEF Good, new
    <2>6. CASE /\ Len(new) = Len(rows)
               /\ \A id \in 1..Len(rows) : \/ new[id] = rows[id]
                                           \/ new[id].chainId = table[id].chainId /\ id <= len
        <3>1. \A id \in 1..Len(rows) : id <= len => id \in 1..len
            BY <1>0
        <3>2. \A id \in 1..Len(rows) : new[id].chainId = rows[id].chainId
            BY <2>3, <2>6, <3>1
        <3>3. Unique(new)
            BY <2>4, <2>6, <3>2 DEF Unique
        <3>4. ASSUME NEW a \in (len + 1)..Len(new)
              PROVE  \E m \in 1..(k + 1) : new[a].chainId = infos[m].chainId
            <4>1. a \in 1..Len(rows) /\ a \in (len + 1)..Len(rows)
                BY <1>0, <2>3, <2>6
            <4> QED
                BY <2>1, <2>4, <3>2, <4>1
        <3> QED
            BY <2>2, <3>3, <3>4 DEF Good, new
    <2> QED
        BY <2>2, <2>5, <2>6
<1>5. Good(0, table)
    <2>1. (len + 1)..Len(table) = {}
        BY <1>0 DEF len
    <2>2. Extends(table, table, V)
        BY <1>0 DEF Extends, len
    <2> QED
        BY <2>1, <2>2
<1> HIDE DEF Good
<1> DEFINE P == {k \in Nat : k <= n => Good(k, at[k])}
<1>6. 0 \in P
    BY <1>1, <1>5
<1>7. ASSUME NEW k \in P PROVE k + 1 \in P
    <2>1. CASE k + 1 <= n
        <3>1. k + 1 \in 1..n /\ (k + 1) - 1 = k /\ k <= n /\ k \in Nat
            BY <1>0, <2>1
        <3>2. Good(k, at[k]) /\ at[k + 1] = Put(table, at[k], infos[k + 1], found)
            BY <1>1, <3>1
        <3> HIDE DEF P
        <3>3. Good(k + 1, at[k + 1])
            BY <1>4, <2>1, <3>1, <3>2
        <3> QED
            BY <3>1, <3>3 DEF P
    <2> QED
        BY <2>1
<1>8. P = Nat
    <2>1. P \in SUBSET Nat
        OBVIOUS
    <2> HIDE DEF P
    <2> QED
        BY <1>6, <1>7, <2>1, NatInductionInSet
<1>9. Good(n, at[n])
    BY <1>0, <1>8
<1> QED
    BY <1>1, <1>9 DEF Good

\* The variables of Catalog: v1 is file, v2 table, v3 boot, v4 overlapped, v5 networks
\* and v6 request.
Rowed == UNION {{f[x] : x \in 1..Len(f)} : f \in Files}
Boots == [pc : {"off", "find", "save", "serving"}, infos : Files \union {<<>>},
          found : SUBSET Nat, db : BOOLEAN]
Saving(i) == v3[i].pc = "save"
Known(network) ==
    network.id \in 1..Len(v2) /\ network.chainId = v2[network.id].chainId
Asked(r) == [pc |-> r.pc, what |-> r.what, network |-> r.network, prefix |-> r.prefix,
             chain |-> r.chain, answer |-> r.answer]

BootInv ==
    /\ v3 \in [Instances -> Boots]
    /\ \A i \in Instances :
           /\ v3[i].pc \in {"find", "save"} => v3[i].infos \in Files
           /\ Saving(i) => v3[i].found \in SUBSET (1..Len(v2))

\* While no two instances are seeding, what one has found is still all there is.
SeedInv ==
    v4 = FALSE =>
        /\ Unique(v2)
        /\ \A i \in Instances : Saving(i) => FoundAre(v3[i].found, v2, v3[i].infos)
        /\ \A i, j \in Instances : Saving(i) /\ Saving(j) => i = j

ListInv ==
    /\ \A n \in v5 : n.id \in 1..Len(v2) /\ n = Table!Network(n.id)
    /\ v6 = Asked(v6)
    /\ v6.pc # "idle" => Known(v6.network)
    /\ v6.pc = "ask" \/ (v6.pc = "done" /\ v6.answer # "error") =>
           v6.chain.chainId = v6.network.chainId

CInv == v1 \in Files /\ v2 \in Seq(Rowed) /\ v4 \in BOOLEAN /\ BootInv /\ SeedInv /\ ListInv

LEMMA FilesAre ==
    ASSUME NEW f \in Files
    PROVE  f \in Seq(Rowed) /\ Unique(f) /\ Named(f) = {info.chainId : info \in Table!Range(f)}
<1>1. f \in Seq(Table!Range(f)) /\ \A i, j \in 1..Len(f) : f[i].chainId = f[j].chainId => i = j
    BY PartsAssumption DEF Table!CatalogAssumption
<1>2. DOMAIN f = 1..Len(f) /\ Table!Range(f) = {f[x] : x \in 1..Len(f)}
    BY <1>1 DEF Table!Range
<1>3. \A x \in 1..Len(f) : f[x] \in Rowed
    BY DEF Rowed
<1>4. f = [x \in 1..Len(f) |-> f[x]] /\ Len(f) \in Nat
    BY <1>1, <1>2
<1>5. f \in Seq(Rowed)
    BY <1>3, <1>4
<1> QED
    BY <1>1, <1>2, <1>5 DEF Unique, Named

LEMMA CInvFinds == CInv => Table!ListedChainIsFound
<1> SUFFICES ASSUME CInv PROVE Table!ListedChainIsFound
    OBVIOUS
<1>1. v6.pc \in {"ask", "done"} /\ v6.answer # "error" => v6.chain.chainId = v6.network.chainId
    BY DEF CInv, ListInv
<1>2. ASSUME v4 = FALSE, NEW m \in v5, NEW n \in v5, m.chainId = n.chainId PROVE m = n
    <2>1. m.id \in 1..Len(v2) /\ n.id \in 1..Len(v2) /\ m = Table!Network(m.id)
          /\ n = Table!Network(n.id)
        BY DEF CInv, ListInv
    <2>2. m.chainId = v2[m.id].chainId /\ n.chainId = v2[n.id].chainId
        BY <2>1 DEF Table!Network
    <2>3. m.id = n.id
        BY <1>2, <2>1, <2>2 DEF CInv, SeedInv, Unique
    <2> QED
        BY <2>1, <2>3
<1>3. v4 \in BOOLEAN
    BY DEF CInv
<1> QED
    BY <1>1, <1>2, <1>3 DEF Table!ListedChainIsFound

LEMMA InitCInv == Table!Init => CInv
<1> SUFFICES ASSUME Table!Init PROVE CInv
    OBVIOUS
<1>1. v1 \in Files /\ v2 = <<>> /\ v3 = [i \in Instances |-> Table!Off] /\ v4 = FALSE /\ v5 = {}
      /\ v6 = Table!NoRequest
    BY DEF Table!Init
<1>2. Table!Off \in Boots /\ Table!Off.pc = "off"
    BY DEF Table!Off, Boots
<1>3. v3 \in [Instances -> Boots] /\ \A i \in Instances : v3[i].pc = "off"
    BY <1>1, <1>2
<1>4. BootInv
    BY <1>3 DEF BootInv, Saving
<1>5. Unique(v2) /\ v2 \in Seq(Rowed)
    BY <1>1 DEF Unique
<1>6. SeedInv
    BY <1>3, <1>5 DEF SeedInv, Saving
<1>7. v6 = Asked(v6) /\ v6.pc = "idle"
    BY <1>1 DEF Table!NoRequest, Asked
<1>8. ListInv
    BY <1>1, <1>7 DEF ListInv
<1> QED
    BY <1>1, <1>4, <1>5, <1>6, <1>8 DEF CInv

\* A history that says no overlap had none before, and at most one instance saves now.
LEMMA OneSaver ==
    ASSUME NEW i \in Instances, NEW b, Table!Boot(i, b), v4 \in BOOLEAN
    PROVE  /\ v4' \in BOOLEAN
           /\ v4' = FALSE => /\ v4 = FALSE
                             /\ \A j, k \in Instances :
                                    Saving(j)' /\ Saving(k)' => j = k
<1> DEFINE S == {j \in Instances : v3'[j].pc = "save"}
<1>1. v4' = (v4 \/ Cardinality(S) > 1)
    BY DEF Table!Boot, Cardinality, Table!Cardinality
<1>2. IsFiniteSet(Instances)
    BY PartsAssumption DEF Table!CatalogAssumption, IsFiniteSet, Table!IsFiniteSet
<1>3. IsFiniteSet(S) /\ Cardinality(S) \in Nat
    BY <1>2, FS_Subset, FS_CardinalityType
<1>4. ASSUME NEW j \in S, NEW k \in S, j # k PROVE Cardinality(S) > 1
    <2> HIDE DEF S
    <2>1. IsFiniteSet({j}) /\ Cardinality({j}) = 1
        BY FS_Singleton
    <2>2. IsFiniteSet({j} \union {k}) /\ Cardinality({j} \union {k}) = Cardinality({j}) + 1
        BY <1>4, <2>1, FS_AddElement
    <2>3. {j} \union {k} \subseteq S
        BY <1>4
    <2>4. Cardinality({j} \union {k}) <= Cardinality(S)
        BY <1>3, <2>3, FS_Subset
    <2> QED
        BY <1>3, <2>1, <2>2, <2>4
<1>5. v4' = FALSE => v4 = FALSE /\ ~(Cardinality(S) > 1)
    BY <1>1
<1>6. \A j \in Instances : Saving(j)' => j \in S
    BY DEF Saving
<1> HIDE DEF S
<1> QED
    BY <1>1, <1>4, <1>5, <1>6

\* A step that boots or stops an instance and leaves the table alone.
LEMMA BootKeeps ==
    ASSUME CInv, NEW i \in Instances, NEW b \in Boots, Table!Boot(i, b), v2' = v2,
           b.pc \in {"find", "save"} => b.infos \in Files,
           b.pc = "save" => FoundAre(b.found, v2, b.infos)
    PROVE  CInv'
<1>1. v3' = [v3 EXCEPT ![i] = b] /\ v1' = v1 /\ v5' = v5 /\ v6' = v6
    BY DEF Table!Boot
<1>2. v3' \in [Instances -> Boots] /\ v3'[i] = b /\ \A j \in Instances : j # i => v3'[j] = v3[j]
    BY <1>1 DEF CInv, BootInv
<1>3. b.pc = "save" => b.found \in SUBSET (1..Len(v2))
    BY DEF FoundAre
<1>4. BootInv'
    BY <1>2, <1>3 DEF CInv, BootInv, Saving
<1>5. v4' \in BOOLEAN /\ (v4' = FALSE =>
          v4 = FALSE /\ \A j, k \in Instances : Saving(j)' /\ Saving(k)' => j = k)
    BY OneSaver DEF CInv
<1>6. SeedInv'
    <2> SUFFICES ASSUME v4' = FALSE
                 PROVE  /\ Unique(v2)
                        /\ \A j \in Instances :
                               Saving(j)' => FoundAre(v3'[j].found, v2, v3'[j].infos)
                        /\ \A j, k \in Instances : Saving(j)' /\ Saving(k)' => j = k
        BY DEF SeedInv, Unique, FoundAre, Named
    <2>1. /\ Unique(v2)
          /\ \A j \in Instances : Saving(j) => FoundAre(v3[j].found, v2, v3[j].infos)
        BY <1>5 DEF CInv, SeedInv
    <2> QED
        BY <1>2, <1>5, <2>1 DEF Saving
<1>7. ListInv'
    BY <1>1 DEF CInv, ListInv, Known, Asked, Table!Network
<1> QED
    BY <1>1, <1>4, <1>5, <1>6, <1>7 DEF CInv

\* The rows that a seeding saves extend the table.
LEMMA SavingExtends ==
    ASSUME CInv, NEW i \in Instances, Table!SaveChains(i)
    PROVE  /\ v2' = Seeding(v2, v3[i].infos, v3[i].found)
           /\ Extends(v2', v2, Rowed)
<1>1. Saving(i)
    BY DEF Table!SaveChains, Saving
<1>2. v2' = Seeding(v2, v3[i].infos, v3[i].found)
    BY DEF Table!SaveChains, Table!FoldLeft, Table!MapThenFoldSet, Table!SaveChain, Table!Max,
           Table!Min, Max, Min, Seeding, IsSeeding, Put
<1>3. v3[i].infos \in Files /\ v3[i].found \in SUBSET (1..Len(v2)) /\ v2 \in Seq(Rowed)
    BY <1>1 DEF CInv, BootInv, Saving
<1>4. v3[i].infos \in Seq(Rowed)
    BY <1>3, FilesAre
<1> QED
    BY <1>2, <1>3, <1>4, SeedingExtends

LEMMA SavingKeeps ==
    ASSUME CInv, NEW i \in Instances, Table!SaveChains(i)
    PROVE  CInv'
<1> DEFINE infos == v3[i].infos
           found == v3[i].found
           b == [Table!Off EXCEPT !.pc = "serving", !.db = TRUE]
<1>1. Saving(i) /\ Table!Boot(i, b)
    BY DEF Table!SaveChains, Saving
<1>2. v2' = Seeding(v2, infos, found)
    BY SavingExtends
<1>3. infos \in Files /\ found \in SUBSET (1..Len(v2)) /\ v2 \in Seq(Rowed)
    BY <1>1 DEF CInv, BootInv, Saving
<1>4. infos \in Seq(Rowed) /\ Unique(infos)
    BY <1>3, FilesAre
<1>5. Extends(v2', v2, Rowed)
    BY SavingExtends
<1>6. v4 = FALSE => Unique(v2')
    <2>1. v4 = FALSE => Unique(v2) /\ FoundAre(found, v2, infos)
        BY <1>1 DEF CInv, SeedInv
    <2> QED
        BY <1>2, <1>3, <1>4, <2>1, SeedingIsUnique
<1>7. v3' = [v3 EXCEPT ![i] = b] /\ v1' = v1 /\ v5' = v5 /\ v6' = v6
    BY <1>1 DEF Table!Boot
<1>8. b \in Boots /\ b.pc = "serving"
    BY DEF Table!Off, Boots
<1> HIDE DEF b, infos, found
<1>9. v3' \in [Instances -> Boots] /\ v3'[i] = b /\ \A j \in Instances : j # i => v3'[j] = v3[j]
    BY <1>7, <1>8 DEF CInv, BootInv
<1>10. /\ v2' \in Seq(Rowed) /\ Len(v2) \in Nat /\ Len(v2') \in Nat /\ Len(v2) <= Len(v2')
       /\ \A id \in 1..Len(v2) : id \in 1..Len(v2') /\ v2'[id].chainId = v2[id].chainId
    <2>1. v2' \in Seq(Rowed) /\ Len(v2) \in Nat /\ Len(v2') \in Nat /\ Len(v2') >= Len(v2)
          /\ \A id \in 1..Len(v2) : v2'[id].chainId = v2[id].chainId
        BY <1>3, <1>5 DEF Extends
    <2> QED
        BY <2>1
<1>11. BootInv'
    BY <1>8, <1>9, <1>10 DEF CInv, BootInv, Saving
<1>12. v4' \in BOOLEAN /\ (v4' = FALSE =>
          v4 = FALSE /\ \A j, k \in Instances : Saving(j)' /\ Saving(k)' => j = k)
    BY <1>1, OneSaver DEF CInv
<1>13. v4 = FALSE => \A j \in Instances : Saving(j) => j = i
    BY <1>1 DEF CInv, SeedInv
<1>14. \A j \in Instances : Saving(j)' => Saving(j) /\ j # i
    BY <1>8, <1>9 DEF Saving
<1>15. SeedInv'
    <2>1. v4' = FALSE => Unique(v2')
        BY <1>6, <1>12
    <2>2. v4' = FALSE => \A j \in Instances : ~Saving(j)'
        BY <1>12, <1>13, <1>14
    <2> QED
        BY <2>1, <2>2 DEF SeedInv, Unique
<1>16. \A id \in 1..Len(v2) : Table!Network(id)' = Table!Network(id)
    BY <1>10 DEF Table!Network
<1>17. ListInv'
    <2>1. \A n \in v5' : n.id \in 1..Len(v2') /\ n = Table!Network(n.id)'
        BY <1>7, <1>10, <1>16 DEF CInv, ListInv
    <2>2. Known(v6.network) => Known(v6.network)'
        BY <1>7, <1>10 DEF Known
    <2> QED
        BY <1>7, <2>1, <2>2 DEF CInv, ListInv, Asked
<1> QED
    BY <1>7, <1>10, <1>11, <1>12, <1>15, <1>17 DEF CInv

\* A step that only lists or asks.
LEMMA AskingKeeps ==
    ASSUME CInv, v1' = v1 \/ v1' \in Files, UNCHANGED <<v2, v3, v4>>, ListInv'
    PROVE  CInv'
    BY DEF CInv, BootInv, SeedInv, Saving, Unique, FoundAre, Named

LEMMA NextCInv == CInv /\ [Table!Next]_(Table!vars) => CInv'
<1> SUFFICES ASSUME CInv, [Table!Next]_(Table!vars) PROVE CInv'
    OBVIOUS
<1>0. /\ v6 = Asked(v6) /\ (v6.pc # "idle" => Known(v6.network))
      /\ (v6.pc = "ask" \/ (v6.pc = "done" /\ v6.answer # "error") =>
             v6.chain.chainId = v6.network.chainId)
      /\ \A n \in v5 : n.id \in 1..Len(v2) /\ n = Table!Network(n.id)
    BY DEF CInv, ListInv
<1>1. ASSUME NEW f \in Files, Table!EditFile(f) PROVE CInv'
    <2>1. v1' \in Files /\ UNCHANGED <<v2, v3, v4, v5, v6>>
        BY <1>1 DEF Table!EditFile
    <2>2. ListInv'
        BY <2>1 DEF CInv, ListInv, Known, Asked, Table!Network
    <2> QED
        BY <2>1, <2>2, AskingKeeps
<1>2. ASSUME NEW i \in Instances, Table!Start(i) PROVE CInv'
    <2>1. PICK b \in {[Table!Off EXCEPT !.pc = "find", !.infos = v1],
                      [Table!Off EXCEPT !.pc = "serving"]} : Table!Boot(i, b)
        BY <1>2 DEF Table!Start
    <2>2. b \in Boots /\ b.pc # "save" /\ (b.pc = "find" => b.infos \in Files)
        BY DEF CInv, Table!Off, Boots
    <2>3. v2' = v2
        BY <1>2 DEF Table!Start
    <2> QED
        BY <2>1, <2>2, <2>3, BootKeeps
<1>3. ASSUME NEW i \in Instances, Table!FindChains(i) PROVE CInv'
    <2> DEFINE ids == {info.chainId : info \in Table!Range(v3[i].infos)}
               rows == {id \in Table!Ids : v2[id].chainId \in ids}
               b == [v3[i] EXCEPT !.pc = "save", !.found = rows]
    <2>1. v3[i].pc = "find" /\ Table!Boot(i, b) /\ v2' = v2
        BY <1>3 DEF Table!FindChains
    <2>2. v3[i] \in Boots /\ v3[i].infos \in Files
        BY <2>1 DEF CInv, BootInv
    <2>3. ids = Named(v3[i].infos)
        BY <2>2, FilesAre
    <2>4. FoundAre(rows, v2, v3[i].infos)
        BY <2>3 DEF FoundAre, Table!Ids
    <2>5. rows \in SUBSET Nat
        BY DEF Table!Ids, CInv
    <2> HIDE DEF rows
    <2>6. b \in Boots /\ b.pc = "save" /\ b.found = rows /\ b.infos = v3[i].infos
        BY <2>2, <2>5 DEF Boots
    <2> HIDE DEF b
    <2> QED
        BY <2>1, <2>2, <2>4, <2>6, BootKeeps
<1>4. ASSUME NEW i \in Instances, Table!SaveChains(i) PROVE CInv'
    BY <1>4, SavingKeeps
<1>5. ASSUME NEW i \in Instances, Table!Stop(i) PROVE CInv'
    <2>1. Table!Boot(i, Table!Off) /\ v2' = v2
        BY <1>5 DEF Table!Stop
    <2>2. Table!Off \in Boots /\ Table!Off.pc = "off"
        BY DEF Table!Off, Boots
    <2> QED
        BY <2>1, <2>2, BootKeeps
<1>6. ASSUME Table!ShowNetworkList PROVE CInv'
    <2>1. v5' = {Table!Network(id) : id \in 1..Len(v2)} /\ UNCHANGED <<v1, v2, v3, v4, v6>>
        BY <1>6 DEF Table!ShowNetworkList, Table!Ids
    <2>2. \A id \in 1..Len(v2) : Table!Network(id).id = id
        BY DEF Table!Network
    <2>3. ListInv'
        BY <1>0, <2>1, <2>2 DEF ListInv, Known, Asked, Table!Network
    <2> QED
        BY <2>1, <2>3, AskingKeeps
<1>7. ASSUME Table!FindChain PROVE CInv'
    <2>1. UNCHANGED <<v1, v2, v3, v4, v5>> /\ v6.pc = "find" /\ Known(v6.network)
        BY <1>0, <1>7 DEF Table!FindChain, Table!Reply
    <2>2. v6.network.id \in Table!Ids
        BY <2>1 DEF Known, Table!Ids
    <2>3. \/ v6' = [v6 EXCEPT !.pc = "done", !.answer = "error"]
          \/ v6' = [v6 EXCEPT !.pc = "ask", !.chain = v2[v6.network.id]]
        BY <1>7, <2>2 DEF Table!FindChain, Table!Reply
    <2>4. /\ v6' = Asked(v6)' /\ v6'.network = v6.network
          /\ \/ v6'.answer = "error" /\ v6'.pc = "done"
             \/ v6'.pc = "ask" /\ v6'.chain = v2[v6.network.id]
        <3>1. CASE v6' = [v6 EXCEPT !.pc = "done", !.answer = "error"]
            BY <1>0, <3>1 DEF Asked
        <3>2. CASE v6' = [v6 EXCEPT !.pc = "ask", !.chain = v2[v6.network.id]]
            BY <1>0, <3>2 DEF Asked
        <3> QED
            BY <2>3, <3>1, <3>2
    <2>5. ListInv'
        BY <1>0, <2>1, <2>4 DEF ListInv, Known, Table!Network
    <2> QED
        BY <2>1, <2>5, AskingKeeps
<1>8. ASSUME Table!AnswerAccount \/ Table!AnswerContract PROVE CInv'
    <2>1. PICK answer : v6.pc = "ask" /\ Table!Reply(answer)
        BY <1>8 DEF Table!AnswerAccount, Table!AnswerContract
    <2>2. UNCHANGED <<v1, v2, v3, v4, v5>> /\ v6' = [v6 EXCEPT !.pc = "done", !.answer = answer]
        BY <2>1 DEF Table!Reply
    <2>3. v6' = Asked(v6)' /\ v6'.network = v6.network /\ v6'.chain = v6.chain /\ v6'.pc = "done"
          /\ v6'.answer = answer
        BY <1>0, <2>2 DEF Asked
    <2>4. v6.chain.chainId = v6.network.chainId
        BY <1>0, <2>1
    <2>5. ListInv'
        BY <1>0, <2>1, <2>2, <2>3, <2>4 DEF ListInv, Known, Table!Network
    <2> QED
        BY <2>2, <2>5, AskingKeeps
<1>9. ASSUME Table!Close PROVE CInv'
    <2>1. UNCHANGED <<v1, v2, v3, v4, v5>> /\ v6' = Table!NoRequest
        BY <1>9 DEF Table!Close
    <2>2. v6' = Asked(v6)' /\ v6'.pc = "idle"
        BY <2>1 DEF Asked, Table!NoRequest
    <2>3. ListInv'
        BY <1>0, <2>1, <2>2 DEF ListInv, Known, Table!Network
    <2> QED
        BY <2>1, <2>3, AskingKeeps
<1>10. ASSUME NEW n \in v5, NEW what, NEW prefix, Table!Ask(what, n, prefix) PROVE CInv'
    <2>1. UNCHANGED <<v1, v2, v3, v4, v5>>
          /\ v6' = [Table!NoRequest EXCEPT !.pc = "find", !.what = what, !.network = n,
                                            !.prefix = prefix]
        BY <1>10 DEF Table!Ask
    <2>2. v6' = Asked(v6)' /\ v6'.pc = "find" /\ v6'.network = n
        BY <2>1 DEF Asked, Table!NoRequest
    <2>3. Known(n)
        BY <1>0 DEF Known, Table!Network
    <2>4. ListInv'
        BY <1>0, <2>1, <2>2, <2>3 DEF ListInv, Known, Table!Network
    <2> QED
        BY <2>1, <2>4, AskingKeeps
<1>11. ASSUME UNCHANGED Table!vars PROVE CInv'
    <2>1. UNCHANGED <<v1, v2, v3, v4, v5, v6>>
        BY <1>11 DEF Table!vars
    <2>2. ListInv'
        BY <2>1 DEF CInv, ListInv, Known, Asked, Table!Network
    <2> QED
        BY <2>1, <2>2, AskingKeeps
<1> QED
    BY <1>1, <1>2, <1>3, <1>4, <1>5, <1>6, <1>7, <1>8, <1>9, <1>10, <1>11
       DEF Table!Next, Table!GetAccountOnchain, Table!GetContractStatus

\* Ids of rows stay ids of rows.
IdsOK ==
    /\ \A i \in Instances : v3[i].found \subseteq 1..Len(v2)
    /\ v6.pc \in {"idle", "find", "ask", "done"} /\ v6.network.id \in 0..Len(v2)

\* What an instance has found when it boots, looks, saves or stops.
LEMMA FoundIsKnown ==
    ASSUME CInv, NEW i \in Instances,
           Table!Start(i) \/ Table!FindChains(i) \/ Table!SaveChains(i) \/ Table!Stop(i)
    PROVE  /\ v6' = v6 /\ Len(v2) \in Nat /\ Len(v2') \in Nat /\ Len(v2) <= Len(v2')
           /\ \A j \in Instances : v3'[j] = v3[j] \/ v3'[j].found \subseteq 1..Len(v2)
<1>1. PICK b : Table!Boot(i, b) /\ b.found \subseteq 1..Len(v2)
    <2>1. CASE Table!FindChains(i)
        <3> DEFINE ids == {info.chainId : info \in Table!Range(v3[i].infos)}
                   rows == {id \in Table!Ids : v2[id].chainId \in ids}
        <3>1. Table!Boot(i, [v3[i] EXCEPT !.pc = "save", !.found = rows])
            BY <2>1 DEF Table!FindChains
        <3>2. v3[i] \in Boots /\ rows \subseteq 1..Len(v2)
            BY DEF CInv, BootInv, Table!Ids
        <3> HIDE DEF rows
        <3>3. [v3[i] EXCEPT !.pc = "save", !.found = rows].found = rows
            BY <3>2 DEF Boots
        <3> QED
            BY <3>1, <3>2, <3>3
    <2>2. CASE Table!Start(i)
        <3>1. PICK b \in {[Table!Off EXCEPT !.pc = "find", !.infos = v1],
                          [Table!Off EXCEPT !.pc = "serving"]} : Table!Boot(i, b)
            BY <2>2 DEF Table!Start
        <3>2. b.found = {}
            BY DEF Table!Off
        <3> QED
            BY <3>1, <3>2
    <2>3. CASE Table!SaveChains(i)
        <3> DEFINE b == [Table!Off EXCEPT !.pc = "serving", !.db = TRUE]
        <3>1. Table!Boot(i, b)
            BY <2>3 DEF Table!SaveChains
        <3>2. b.found = {}
            BY DEF Table!Off
        <3> HIDE DEF b
        <3> QED
            BY <3>1, <3>2
    <2>4. CASE Table!Stop(i)
        <3>1. Table!Boot(i, Table!Off) /\ Table!Off.found = {}
            BY <2>4 DEF Table!Stop, Table!Off
        <3> QED
            BY <3>1
    <2> QED
        BY <2>1, <2>2, <2>3, <2>4
<1>2. v3' = [v3 EXCEPT ![i] = b] /\ v6' = v6
    BY <1>1 DEF Table!Boot
<1>3. \A j \in Instances : v3'[j] = v3[j] \/ v3'[j].found \subseteq 1..Len(v2)
    BY <1>1, <1>2 DEF CInv, BootInv
<1>4. Len(v2) \in Nat /\ Len(v2') \in Nat /\ Len(v2) <= Len(v2')
    <2>1. Len(v2) \in Nat
        BY DEF CInv
    <2>2. CASE Table!SaveChains(i)
        <3>1. Extends(v2', v2, Rowed)
            BY <2>2, SavingExtends
        <3> QED
            BY <2>1, <3>1 DEF Extends
    <2>3. CASE v2' = v2
        BY <2>1, <2>3
    <2> QED
        BY <2>2, <2>3 DEF Table!Start, Table!FindChains, Table!Stop
<1> QED
    BY <1>2, <1>3, <1>4

LEMMA NextIds == CInv /\ CInv' /\ IdsOK /\ [Table!Next]_(Table!vars) => IdsOK'
<1> SUFFICES ASSUME CInv, CInv', IdsOK, [Table!Next]_(Table!vars) PROVE IdsOK'
    OBVIOUS
<1>1. ASSUME NEW i \in Instances,
             Table!Start(i) \/ Table!FindChains(i) \/ Table!SaveChains(i) \/ Table!Stop(i)
      PROVE  IdsOK'
    <2>1. /\ v6' = v6 /\ Len(v2) \in Nat /\ Len(v2') \in Nat /\ Len(v2) <= Len(v2')
          /\ \A j \in Instances : v3'[j] = v3[j] \/ v3'[j].found \subseteq 1..Len(v2)
        BY <1>1, FoundIsKnown
    <2>2. 1..Len(v2) \subseteq 1..Len(v2') /\ 0..Len(v2) \subseteq 0..Len(v2')
        BY <2>1
    <2> QED
        BY <2>1, <2>2 DEF IdsOK
<1>2. ASSUME UNCHANGED <<v2, v3>>, v6' = v6 \/ v6' = Table!NoRequest \/ v6'.pc \in {"find", "ask", "done"}
      PROVE  IdsOK'
    <2>1. Len(v2) \in Nat
        BY DEF CInv
    <2>2. CASE v6' = Table!NoRequest
        <3>1. v6'.pc = "idle" /\ v6'.network.id = 0
            BY <2>2 DEF Table!NoRequest
        <3> QED
            BY <1>2, <2>1, <3>1 DEF IdsOK
    <2>3. CASE v6'.pc \in {"find", "ask", "done"}
        <3>1. v6'.network.id \in 1..Len(v2)
            BY <1>2, <2>3 DEF CInv, ListInv, Known
        <3> QED
            BY <1>2, <2>1, <2>3, <3>1 DEF IdsOK
    <2> QED
        BY <1>2, <2>2, <2>3 DEF IdsOK
<1>3. v6 = Asked(v6)
    BY DEF CInv, ListInv
<1>4. \A answer : Table!Reply(answer) => UNCHANGED <<v2, v3>> /\ v6'.pc = "done"
    BY <1>3 DEF Table!Reply, Asked
<1>5. CASE Table!FindChain
    <2>1. CASE \E answer : Table!Reply(answer)
        BY <1>2, <1>4, <2>1
    <2>2. CASE v6' = [v6 EXCEPT !.pc = "ask", !.chain = v2[v6.network.id]] /\ UNCHANGED <<v2, v3>>
        BY <1>2, <1>3, <2>2 DEF Asked
    <2> QED
        BY <1>5, <2>1, <2>2 DEF Table!FindChain
<1>6. CASE Table!AnswerAccount \/ Table!AnswerContract
    <2>1. \E answer : Table!Reply(answer)
        BY <1>6 DEF Table!AnswerAccount, Table!AnswerContract
    <2> QED
        BY <1>2, <1>4, <2>1
<1>7. ASSUME NEW n, NEW what, NEW prefix, Table!Ask(what, n, prefix) PROVE IdsOK'
    BY <1>2, <1>7 DEF Table!Ask, Table!NoRequest
<1>8. CASE Table!ShowNetworkList \/ Table!Close \/ UNCHANGED Table!vars \/ \E f \in Files : Table!EditFile(f)
    BY <1>2, <1>8 DEF Table!ShowNetworkList, Table!Close, Table!vars, Table!EditFile
<1> QED
    BY <1>1, <1>5, <1>6, <1>7, <1>8
       DEF Table!Next, Table!GetAccountOnchain, Table!GetContractStatus

LEMMA InitIds == Table!Init => IdsOK
<1> SUFFICES ASSUME Table!Init PROVE IdsOK
    OBVIOUS
<1>1. \A i \in Instances : v3[i].found = {}
    BY DEF Table!Init, Table!Off
<1>2. v6.pc = "idle" /\ v6.network.id = 0
    BY DEF Table!Init, Table!NoRequest
<1>3. Len(v2) = 0
    BY DEF Table!Init
<1> QED
    BY <1>1, <1>2, <1>3 DEF IdsOK

TableInv == CInv /\ IdsOK

LEMMA InitTableInv == Table!Init => TableInv
    BY InitCInv, InitIds DEF TableInv

LEMMA NextTableInv == TableInv /\ [Table!Next]_(Table!vars) => TableInv'
    BY NextCInv, NextIds DEF TableInv

LEMMA TableTyped == TableInv => Table!TypeOK
<1> SUFFICES ASSUME CInv, IdsOK PROVE Table!TypeOK
    BY DEF TableInv
<1>1. Rowed = UNION {Table!Range(f) : f \in Files}
    <2>1. \A f \in Files : {f[x] : x \in 1..Len(f)} = Table!Range(f)
        BY FilesAre DEF Table!Range
    <2> QED
        BY <2>1 DEF Rowed
<1>2. v2 \in Seq(UNION {Table!Range(f) : f \in Files})
    BY <1>1 DEF CInv
<1>3. \A i \in Instances : v3[i].pc \in {"off", "find", "save", "serving"}
                            /\ v3[i].infos \in Files \union {<<>>} /\ v3[i].found \subseteq 1..Len(v2)
    BY DEF CInv, BootInv, Boots, IdsOK
<1>4. \A n \in v5 : n.id \in 1..Len(v2)
    BY DEF CInv, ListInv
<1>5. v6.network.id \in (1..Len(v2)) \union {0}
    <2>1. Len(v2) \in Nat /\ v6.network.id \in 0..Len(v2)
        BY DEF CInv, IdsOK
    <2> QED
        BY <2>1
<1> QED
    BY <1>2, <1>3, <1>4, <1>5 DEF CInv, IdsOK, Table!TypeOK, Table!Ids

-----------------------------------------------------------------------------
(* Numbers of JavaScript. *)

LEMMA DoublesAre ==
    /\ Doubles \subseteq Nat /\ MaxSafe \in Nat /\ 0 \in Doubles
    /\ \A n \in Nat : n <= MaxSafe => n \in Doubles
    BY PartsAssumption DEF Money!TxMessagesAssumption, Money!AmountsAssumption

\* There is a nearest one.
LEMMA NumberIsNat ==
    ASSUME NEW n \in Nat
    PROVE  Money!Number(n) \in Nat /\ (n <= MaxSafe => Money!Number(n) = n)
<1> DEFINE far == {Money!Distance(d, n) : d \in Doubles}
<1>1. \A d \in Doubles : Money!Distance(d, n) \in Nat
    BY DoublesAre DEF Money!Distance
<1>2. far \in SUBSET Nat /\ far # {}
    BY <1>1, DoublesAre
<1>3. PICK least \in far : \A y \in far : <<y, least>> \notin OpToRel(<, Nat)
    <2> HIDE DEF far
    <2> QED
        BY <1>2, NatLessThanWellFounded, WFMin
<1>4. \A y \in far : least <= y
    <2> HIDE DEF far
    <2>1. \A y \in far : ~(y < least)
        BY <1>2, <1>3 DEF OpToRel
    <2> QED
        BY <1>2, <2>1
<1>5. PICK d \in Doubles : least = Money!Distance(d, n)
    BY <1>3
<1>6. \A e \in Doubles : Money!Distance(d, n) <= Money!Distance(e, n)
    BY <1>4, <1>5
<1>7. Money!Number(n) \in Doubles
    BY <1>6 DEF Money!Number
<1> QED
    BY <1>7, DoublesAre DEF Money!Number

LEMMA SigningNumbers == \A n : Sign!Number(n) = Money!Number(n)
    BY DEF Sign!Number, Money!Number, Sign!Distance, Money!Distance

IsNumberSum(it, f, S) ==
    it = [s \in SUBSET S |-> IF s = {} THEN 0
                             ELSE Money!Number(it[s \ {Max(s)}] + Money!Number(f[Max(s)]))]

\* A sum of numbers is one; and while the exact sum is small enough it is that.
LEMMA NumberSumIs ==
    ASSUME NEW n \in Nat, NEW f, DOMAIN f \in SUBSET (1..n), \A x \in DOMAIN f : f[x] \in Nat
    PROVE  /\ Money!NumberSum(f) \in Nat
           /\ SumOf(f, DOMAIN f) <= MaxSafe => Money!NumberSum(f) = SumOf(f, DOMAIN f)
<1> DEFINE S == DOMAIN f
           last == [s \in SUBSET S |-> Max(s)]
           g == [d \in S \X Nat |-> Money!Number(d[2] + Money!Number(f[d[1]]))]
<1>0. \A T : Money!Max(T) = Max(T)
    BY DEF Money!Max, Max
<1>1. Money!NumberSum(f) = (CHOOSE it : IsNumberSum(it, f, S))[S]
    BY <1>0 DEF Money!NumberSum, Money!MapThenFoldSet, IsNumberSum
<1>2. IsFiniteSet(S)
    BY UptoIsFinite, FS_Subset DEF Upto
<1>3. \A s \in SUBSET S : s # {} => Max(s) \in s
    BY MaxIsMember
<1>4. \A x \in S, v \in Nat :
          /\ Money!Number(f[x]) \in Nat /\ Money!Number(v + Money!Number(f[x])) \in Nat
          /\ v + f[x] <= MaxSafe => Money!Number(v + Money!Number(f[x])) = v + f[x]
    <2> SUFFICES ASSUME NEW x \in S, NEW v \in Nat
                 PROVE  /\ Money!Number(f[x]) \in Nat /\ Money!Number(v + Money!Number(f[x])) \in Nat
                        /\ v + f[x] <= MaxSafe => Money!Number(v + Money!Number(f[x])) = v + f[x]
        OBVIOUS
    <2> DEFINE a == f[x]
               b == Money!Number(a)
               c == v + b
               e == Money!Number(c)
    <2>1. a \in Nat
        OBVIOUS
    <2> HIDE DEF a
    <2>2. b \in Nat /\ (a <= MaxSafe => b = a)
        BY <2>1, NumberIsNat
    <2> HIDE DEF b
    <2>3. c \in Nat
        BY <2>2
    <2>4. c = v + b
        OBVIOUS
    <2> HIDE DEF c
    <2>5. e \in Nat /\ (c <= MaxSafe => e = c)
        BY <2>3, NumberIsNat
    <2> HIDE DEF e
    <2>6. v + a <= MaxSafe => e = v + a
        BY <2>1, <2>2, <2>4, <2>5, DoublesAre
    <2> QED
        BY <2>2, <2>5, <2>6 DEF a, b, c, e
<1>5. \A x \in S, v \in Nat : g[<<x, v>>] = Money!Number(v + Money!Number(f[x]))
    OBVIOUS
<1>6. \E it : it \in [SUBSET S -> Nat] /\ IsNumberSum(it, f, S)
    <2>1. \A s \in SUBSET S : s # {} => last[s] \in s
        BY <1>3
    <2>2. \A x \in S, v \in Nat : g[<<x, v>>] \in Nat
        BY <1>4, <1>5
    <2> HIDE DEF g, last, S
    <2>3. PICK it \in [SUBSET S -> Nat] : IsFold(it, g, 0, last, S)
        BY <1>2, <2>1, <2>2, FoldExists
    <2>4. ASSUME NEW s \in SUBSET S
          PROVE  it[s] = IF s = {} THEN 0
                         ELSE Money!Number(it[s \ {Max(s)}] + Money!Number(f[Max(s)]))
        <3>1. CASE s = {}
            BY <2>3, <3>1 DEF IsFold
        <3>2. CASE s # {}
            <4>1. last[s] = Max(s) /\ Max(s) \in S /\ s \ {Max(s)} \in SUBSET S
                BY <1>3, <3>2 DEF last
            <4>2. it[s \ {Max(s)}] \in Nat
                BY <2>3, <4>1
            <4>3. it[s] = g[<<Max(s), it[s \ {Max(s)}]>>]
                BY <2>3, <3>2, <4>1 DEF IsFold
            <4> QED
                BY <1>5, <3>2, <4>1, <4>2, <4>3
        <3> QED
            BY <3>1, <3>2
    <2>5. IsNumberSum(it, f, S)
        BY <2>3, <2>4 DEF IsNumberSum
    <2> QED
        BY <2>3, <2>5
<1> DEFINE it == CHOOSE it : IsNumberSum(it, f, S)
<1>7. IsNumberSum(it, f, S)
    BY <1>6
<1> HIDE DEF it
<1>8. /\ it[{}] = 0
      /\ \A s \in SUBSET S : s # {} =>
             it[s] = Money!Number(it[s \ {Max(s)}] + Money!Number(f[Max(s)]))
    BY <1>7 DEF IsNumberSum
<1>9. PICK total : IsSum(total, f, S) /\ SumOf(f, S) = total[S]
    BY <1>2, SumSolves
<1>10. \A s \in SUBSET S : total[s] \in Nat
    BY <1>2, <1>9, SumsAreNat
<1> DEFINE P == {s \in SUBSET S : it[s] \in Nat /\ (total[s] <= MaxSafe => it[s] = total[s])}
<1>11. ASSUME NEW s \in SUBSET S, \A x \in s : s \ {x} \in P PROVE s \in P
    <2>1. CASE s = {}
        BY <1>2, <1>8, <1>9, <2>1, SumStep
    <2>2. CASE s # {}
        <3> DEFINE x == Max(s)
                   rest == s \ {x}
        <3>1. x \in s /\ rest \in P /\ it[s] = Money!Number(it[rest] + Money!Number(f[x]))
            BY <1>3, <1>8, <1>11, <2>2
        <3> HIDE DEF x
        <3>2. total[s] = f[x] + total[rest]
            BY <1>2, <1>9, <3>1, SumStep
        <3>3. /\ it[rest] \in Nat /\ (total[rest] <= MaxSafe => it[rest] = total[rest])
              /\ total[rest] \in Nat /\ f[x] \in Nat /\ x \in S
            BY <1>10, <3>1
        <3> HIDE DEF P
        <3>4. it[s] \in Nat /\ (it[rest] + f[x] <= MaxSafe => it[s] = it[rest] + f[x])
            BY <1>4, <3>1, <3>3
        <3>5. total[s] <= MaxSafe => it[s] = total[s]
            BY <3>2, <3>3, <3>4, DoublesAre
        <3> QED
            BY <3>4, <3>5 DEF P
    <2> QED
        BY <2>1, <2>2
<1>12. P = SUBSET S
    <2>1. P \in SUBSET (SUBSET S)
        OBVIOUS
    <2> HIDE DEF P
    <2> QED
        BY <1>2, <1>11, <2>1, SubsetInductionInSet
<1> QED
    BY <1>1, <1>9, <1>12 DEF it

-----------------------------------------------------------------------------
(* Signatures and assembly.  The variables of Signing: v1 is chain, v2 safe, v3 tx, *)
(* v4 confirms, v5 creating and v6 sent.                                            *)

LEMMA SignCardinality == \A S : Sign!Cardinality(S) = Cardinality(S)
    BY DEF Cardinality, Sign!Cardinality, Bijection, Sign!Bijection

LEMMA SignFacts ==
    /\ KeyOwners \subseteq Nat \ {0} /\ IsFiniteSet(KeyOwners)
    /\ SigningThreshold \in Nat \ {0}
    /\ Account \in [number : Nat, sequence : Nat]
    /\ \A fee \in Fees : fee # <<>> => fee[1].amount \in Nat
    BY PartsAssumption DEF Sign!SigningAssumption, Sign!IsFiniteSet, IsFiniteSet

Families == {"cosmos", "ethermint"}
Docs == [body : SignedBodies, fee : Fees, seq : Seqs, number : Nat]
Signatures == [key : KeyOwners, family : Families, doc : Docs]
Confirmations == [owner : KeyOwners, body : SignedBodies, signature : Signatures]

\* A confirmation that was verified: its owner signed the body that came with it, with
\* the algorithm of the chain, which then is the one coinDecimals stands for.
Genuine(c) ==
    /\ c.signature.key = c.owner /\ c.signature.doc.body = c.body
    /\ c.signature.family = v1.kind /\ v1.kind = Sign!FamilyByDecimals

LEMMA VerifiedIsGenuine ==
    ASSUME NEW q \in Sign!Requests, NEW number, Sign!Verified(q, number)
    PROVE  Sign!NewConfirm(q) \in Confirmations /\ Genuine(Sign!NewConfirm(q))
<1> DEFINE sig == Sign!SignatureOf(q)
           doc == Sign!SignDoc(q.body, q.fee, q.seq, number)
<1>0. /\ q.user \in KeyOwners /\ q.body \in SignedBodies /\ q.signed \in SignedBodies
      /\ q.fee \in Fees /\ q.seq \in Seqs /\ q.user # 0 /\ Account.number \in Nat
    BY SignFacts DEF Sign!Requests
<1>1. sig = [key |-> q.user, family |-> v1.kind, doc |-> Sign!SignDoc(q.signed, q.fee, q.seq, Account.number)]
    BY DEF Sign!SignatureOf
<1>2. sig.doc = doc /\ sig.family = Sign!FamilyByDecimals
    <2>1. CASE v1.coinDecimals = 18
        <3>1. Sign!VerifySignature(sig, doc, Sign!UserAddress(q.user))
            BY <2>1 DEF Sign!Verified
        <3>2. (IF sig.family = "ethermint" /\ sig.doc = doc THEN sig.key ELSE 0) = q.user
            BY <3>1 DEF Sign!VerifySignature, Sign!UserAddress, Sign!Address
        <3> QED
            BY <1>0, <2>1, <3>2 DEF Sign!FamilyByDecimals
    <2>2. CASE v1.coinDecimals # 18
        BY <2>2 DEF Sign!Verified, Sign!VerifyCosmosSig, Sign!FamilyByDecimals
    <2> QED
        BY <2>1, <2>2
<1>3. q.signed = q.body
    BY <1>1, <1>2 DEF Sign!SignDoc
<1>4. sig.key = q.user /\ sig.family = v1.kind /\ v1.kind \in Families
    BY <1>1, <1>2 DEF Sign!FamilyByDecimals, Families
<1>5. sig.doc \in Docs /\ sig.doc.body = q.body
    BY <1>0, <1>1, <1>3 DEF Sign!SignDoc, Docs
<1>6. sig \in Signatures
    BY <1>0, <1>1, <1>4, <1>5 DEF Signatures
<1> HIDE DEF sig
<1>7. Sign!NewConfirm(q) = [owner |-> q.user, body |-> q.body, signature |-> sig]
    BY DEF Sign!NewConfirm, sig
<1> QED
    BY <1>0, <1>2, <1>4, <1>5, <1>6, <1>7 DEF Confirmations, Genuine

MaybeNumber == Nat \union {Null, Undefined}
SafeColumns == [accountNumber : MaybeNumber, nextQueueSeq : MaybeNumber]

SignTyped ==
    /\ v1 \in SigningChains /\ v2 \in SafeColumns
    /\ v3 \in [seq : Nat, fee : Nat, msgs : SignedBodies \union {<<>>},
               creator : KeyOwners \union {0}]
    /\ v4 \in Seq(Confirmations)
    /\ v5 \in Confirmations \union {Sign!NoConfirm}
    /\ v6 \in [body : SignedBodies \union {<<>>}, signers : SUBSET KeyOwners,
               result : {"none", "executed", "refused"}]

\* Only verified confirmations, one per owner, after the transaction; and what was
\* assembled has signatures of owners who confirmed.
SignInv ==
    /\ SignTyped
    /\ v3 = Sign!NoTx => v4 = <<>> /\ v5 = Sign!NoConfirm /\ v6 = Sign!NotSent
    /\ \A i \in 1..Len(v4) : Genuine(v4[i])
    /\ v5 # Sign!NoConfirm => Genuine(v5)
    /\ \A i, j \in 1..Len(v4) : v4[i].owner = v4[j].owner => i = j
    /\ \A u \in v6.signers : Sign!HasSigned(u)
    /\ Sign!ExecutedIsShown /\ Sign!AgreeingIsExecutable

LEMMA InitSignInv == Sign!Init => SignInv
<1> SUFFICES ASSUME Sign!Init PROVE SignInv
    OBVIOUS
<1>1. /\ v1 \in SigningChains /\ v2 \in SafeRows /\ v3 = Sign!NoTx /\ v4 = <<>>
      /\ v5 = Sign!NoConfirm /\ v6 = Sign!NotSent
    BY DEF Sign!Init
<1>2. v2 \in SafeColumns
    BY <1>1, PartsAssumption DEF Sign!SigningAssumption, SafeColumns, MaybeNumber
<1>3. SignTyped
    BY <1>1, <1>2 DEF SignTyped, Sign!NoTx, Sign!NotSent
<1>4. v6.result = "none" /\ v6.signers = {}
    BY <1>1 DEF Sign!NotSent
<1> QED
    BY <1>1, <1>3, <1>4 DEF SignInv, Sign!ExecutedIsShown, Sign!AgreeingIsExecutable

LEMMA StoredTyped == SignTyped => Sign!Stored \in SafeColumns
    BY DEF SignTyped, Sign!Stored, SafeColumns, MaybeNumber

\* What else may change while transaction, confirmations and answer stay.
LEMMA SignSame ==
    ASSUME SignInv, UNCHANGED <<v1, v3, v4, v5, v6>>, v2' \in SafeColumns
    PROVE  SignInv'
<1>1. SignTyped'
    BY DEF SignInv, SignTyped
<1>2. \A c : Genuine(c)' = Genuine(c)
    BY DEF Genuine, Sign!FamilyByDecimals
<1>3. /\ \A u : Sign!HasSigned(u)' = Sign!HasSigned(u)
      /\ Sign!ExecutedIsShown' = Sign!ExecutedIsShown
      /\ Sign!AgreeingIsExecutable' = Sign!AgreeingIsExecutable
    BY DEF Sign!HasSigned, Sign!ExecutedIsShown, Sign!AgreeingIsExecutable,
           Sign!FamilyByDecimals, Sign!FamilyByPrefix
<1> QED
    BY <1>1, <1>2, <1>3 DEF SignInv

LEMMA RefuseSigns == SignInv /\ Sign!Refuse => SignInv'
    BY SignSame, StoredTyped DEF SignInv, Sign!Refuse

LEMMA CreateSigns ==
    ASSUME SignInv, NEW q \in Sign!Requests, Sign!Create(q)
    PROVE  SignInv'
<1> DEFINE info == Sign!AccountInfoWithNewSeq(q.ask)
           fee == Sign!Number(q.fee[1].amount)
<1>1. CASE Sign!Refuse
    BY <1>1, RefuseSigns
<1>2. CASE ~Sign!Refuse
    <2>1. /\ v3 = Sign!NoTx /\ Sign!Verified(q, info.number) /\ q.fee # <<>>
          /\ v3' = [seq |-> info.sequence, fee |-> fee, msgs |-> q.body, creator |-> q.user]
          /\ v5' = Sign!NewConfirm(q) /\ v2' = Sign!Stored /\ UNCHANGED <<v1, v4, v6>>
        BY <1>2 DEF Sign!Create
    <2>2. /\ q.user \in KeyOwners /\ q.user # 0 /\ q.body \in SignedBodies /\ q.fee[1].amount \in Nat
          /\ q.ask \in Nat \union {Undefined}
        BY <2>1, SignFacts, PartsAssumption DEF Sign!Requests, Sign!SigningAssumption
    <2>0. fee \in Nat
        BY <2>2, NumberIsNat, SigningNumbers
    <2>3. info.sequence \in Nat
        <3> DEFINE row == Sign!Stored
        <3>1. row \in SafeColumns
            BY StoredTyped DEF SignInv
        <3>2. info = IF row.accountNumber # Undefined /\ row.nextQueueSeq # Undefined
                     THEN [number |-> Sign!ToNumber(row.accountNumber),
                           sequence |-> IF q.ask \in {0, Undefined} THEN Sign!ToNumber(row.nextQueueSeq)
                                        ELSE q.ask]
                     ELSE Account
            BY DEF Sign!AccountInfoWithNewSeq
        <3> HIDE DEF row, info
        <3> QED
            BY <2>2, <3>1, <3>2, SignFacts DEF SafeColumns, MaybeNumber, Sign!ToNumber
    <2>4. Sign!NewConfirm(q) \in Confirmations /\ Genuine(Sign!NewConfirm(q))
        BY <2>1, VerifiedIsGenuine
    <2> HIDE DEF info, fee
    <2>5. SignTyped'
        BY <2>0, <2>1, <2>2, <2>3, <2>4, StoredTyped DEF SignInv, SignTyped
    <2>6. v3' # Sign!NoTx /\ v4 = <<>> /\ v6 = Sign!NotSent
        BY <2>1, <2>2 DEF SignInv, Sign!NoTx
    <2>7. \A c : Genuine(c)' = Genuine(c)
        BY <2>1 DEF Genuine, Sign!FamilyByDecimals
    <2>8. v4' = <<>> /\ v6'.signers = {} /\ v6'.result = "none"
        BY <2>1, <2>6 DEF Sign!NotSent
    <2> QED
        BY <2>1, <2>4, <2>5, <2>6, <2>7, <2>8
        DEF SignInv, Sign!ExecutedIsShown, Sign!AgreeingIsExecutable
<1> QED
    BY <1>1, <1>2

\* A verified confirmation of an owner who had none changes nothing of what was sent.
LEMMA ConfirmedSigns ==
    ASSUME SignInv, NEW c \in Confirmations, Genuine(c), ~Sign!HasSigned(c.owner),
           v3 # Sign!NoTx, v4' = Append(v4, c), v2' \in SafeColumns,
           v5' \in {v5, Sign!NoConfirm}, UNCHANGED <<v1, v3, v6>>
    PROVE  SignInv'
<1>0. v4 \in Seq(Confirmations) /\ Len(v4) \in Nat
    BY DEF SignInv, SignTyped
<1>1. SignTyped'
    BY DEF SignInv, SignTyped
<1>2. Len(v4') = Len(v4) + 1 /\ v4'[Len(v4) + 1] = c /\ \A i \in 1..Len(v4) : v4'[i] = v4[i]
    BY <1>0
<1>3. \A d : Genuine(d)' = Genuine(d)
    BY DEF Genuine, Sign!FamilyByDecimals
<1>4. \A i \in 1..Len(v4') : i \in 1..Len(v4) \/ v4'[i] = c
    BY <1>0, <1>2
<1>5. \A u : Sign!HasSigned(u) => Sign!HasSigned(u)'
    BY <1>0, <1>2 DEF Sign!HasSigned
<1>6. \A i, j \in 1..Len(v4') : v4'[i].owner = v4'[j].owner => i = j
    <2>1. \A i \in 1..Len(v4) : v4[i].owner # c.owner
        BY DEF Sign!HasSigned
    <2>2. \A i \in 1..Len(v4') : i \in 1..Len(v4) \/ i = Len(v4) + 1
        BY <1>0, <1>2
    <2>3. \A i, j \in 1..Len(v4) : v4[i].owner = v4[j].owner => i = j
        BY DEF SignInv
    <2> QED
        BY <1>2, <2>1, <2>2, <2>3
<1>7. Sign!ExecutedIsShown'
    <2> SUFFICES ASSUME v6.result = "executed", NEW i \in 1..Len(v4'),
                        v4'[i].owner \in v6.signers, v4'[i].body = v3.msgs
                 PROVE  v6.body = v3.msgs
        BY DEF Sign!ExecutedIsShown
    <2>1. Sign!HasSigned(v4'[i].owner)
        BY DEF SignInv
    <2>2. i \in 1..Len(v4) /\ v4'[i] = v4[i]
        BY <1>2, <1>4, <2>1
    <2> QED
        BY <2>2 DEF SignInv, Sign!ExecutedIsShown
<1>8. Sign!AgreeingIsExecutable'
    <2>1. \A d : (\A i \in 1..Len(v4') : v4'[i].signature.doc = d)
                    => \A i \in 1..Len(v4) : v4[i].signature.doc = d
        BY <1>0, <1>2
    <2>2. Sign!AgreeingIsExecutable
        BY DEF SignInv
    <2> QED
        BY <2>1, <2>2 DEF Sign!AgreeingIsExecutable, Sign!FamilyByDecimals, Sign!FamilyByPrefix
<1>9. (\A i \in 1..Len(v4') : Genuine(v4'[i])) /\ (v5' # Sign!NoConfirm => Genuine(v5'))
    BY <1>2, <1>4 DEF SignInv
<1> QED
    BY <1>1, <1>3, <1>5, <1>6, <1>7, <1>8, <1>9 DEF SignInv

LEMMA ConfirmSigns ==
    ASSUME SignInv, NEW q \in Sign!Requests, Sign!Confirm(q)
    PROVE  SignInv'
<1>1. CASE Sign!Refuse
    BY <1>1, RefuseSigns
<1>2. CASE ~Sign!Refuse
    <2>1. /\ v3 # Sign!NoTx /\ Sign!Verified(q, Sign!AccountInfoWithNewSeq(q.ask).number)
          /\ ~Sign!HasSigned(q.user) /\ v4' = Append(v4, Sign!NewConfirm(q))
          /\ v2' = Sign!Stored /\ UNCHANGED <<v1, v3, v5, v6>>
        BY <1>2 DEF Sign!Confirm
    <2>2. Sign!NewConfirm(q) \in Confirmations /\ Genuine(Sign!NewConfirm(q))
        BY <2>1, VerifiedIsGenuine
    <2>3. Sign!NewConfirm(q).owner = q.user
        BY DEF Sign!NewConfirm
    <2> QED
        BY <2>1, <2>2, <2>3, ConfirmedSigns, StoredTyped DEF SignInv
<1> QED
    BY <1>1, <1>2

LEMMA SuggestedIsNat ==
    ASSUME NEW start \in Nat, NEW n \in Nat
    PROVE  Sign!NextQueueSeq(start, {n}) \in Nat
<1> DEFINE N == Cardinality({n})
           W == {k \in 1..N : Sign!WalkPasses(start, {n}, k)}
<1>1. Sign!NextQueueSeq(start, {n}) = start + Cardinality(W)
    BY SignCardinality DEF Sign!NextQueueSeq
<1>2. N = 1
    BY FS_Singleton
<1> HIDE DEF N
<1>3. IsFiniteSet(1..1)
    BY FS_Interval, 1 \in Int
<1>4. Cardinality(W) \in Nat
    BY <1>2, <1>3, FS_Subset, FS_CardinalityType
<1> QED
    BY <1>1, <1>4

LEMMA ConfirmCreatedSigns == SignInv /\ Sign!ConfirmCreated => SignInv'
<1> SUFFICES ASSUME SignInv, Sign!ConfirmCreated PROVE SignInv'
    OBVIOUS
<1>0. v5 # Sign!NoConfirm /\ v5 \in Confirmations /\ Genuine(v5) /\ v3 # Sign!NoTx
      /\ v5' = Sign!NoConfirm /\ UNCHANGED <<v1, v3, v6>>
    BY DEF SignInv, SignTyped, Sign!ConfirmCreated
<1>1. CASE Sign!HasSigned(v5.owner)
    <2>1. UNCHANGED <<v2, v4>>
        BY <1>1 DEF Sign!ConfirmCreated
    <2>2. SignTyped'
        BY <1>0, <2>1 DEF SignInv, SignTyped
    <2>3. \A c : Genuine(c)' = Genuine(c)
        BY <1>0 DEF Genuine, Sign!FamilyByDecimals
    <2>4. /\ \A u : Sign!HasSigned(u)' = Sign!HasSigned(u)
          /\ Sign!ExecutedIsShown' = Sign!ExecutedIsShown
          /\ Sign!AgreeingIsExecutable' = Sign!AgreeingIsExecutable
        BY <1>0, <2>1 DEF Sign!HasSigned, Sign!ExecutedIsShown, Sign!AgreeingIsExecutable,
               Sign!FamilyByDecimals, Sign!FamilyByPrefix
    <2> QED
        BY <1>0, <2>1, <2>2, <2>3, <2>4 DEF SignInv
<1>2. CASE ~Sign!HasSigned(v5.owner)
    <2>1. v4' = Append(v4, v5)
          /\ v2' = [accountNumber |-> Account.number,
                    nextQueueSeq |-> Sign!NextQueueSeq(Account.sequence, {v3.seq})]
        BY <1>2 DEF Sign!ConfirmCreated
    <2>2. Account.number \in Nat /\ Account.sequence \in Nat /\ v3.seq \in Nat
        BY SignFacts DEF SignInv, SignTyped
    <2>3. v2' \in SafeColumns
        BY <2>1, <2>2, SuggestedIsNat DEF SafeColumns, MaybeNumber
    <2> QED
        BY <1>0, <1>2, <2>1, <2>3, ConfirmedSigns
<1> QED
    BY <1>1, <1>2

SortBefore(family) == {d \in Nat \X Nat : Sign!RawBefore(family, d[1], d[2])}

LEMMA KeysAreSorted ==
    ASSUME NEW family
    PROVE  /\ Sign!SortKeys(family, KeyOwners) \in [1..Cardinality(KeyOwners) -> KeyOwners]
           /\ \A u \in KeyOwners : \E p \in 1..Cardinality(KeyOwners) :
                  Sign!SortKeys(family, KeyOwners)[p] = u
<1> DEFINE R == SortBefore(family)
           N == Cardinality(KeyOwners)
           s == Sign!SortKeys(family, KeyOwners)
<1>0. KeyOwners \subseteq Nat /\ IsFiniteSet(KeyOwners)
    BY SignFacts
<1>1. \A a, b \in KeyOwners : <<a, b>> \in R <=> Sign!RawBefore(family, a, b)
    BY <1>0 DEF SortBefore
<1>2. Orders(R, KeyOwners)
    <2>1. /\ \A a \in Nat : ~Sign!RawBefore(family, a, a)
          /\ \A a, b \in Nat : a # b => Sign!RawBefore(family, a, b) \/ Sign!RawBefore(family, b, a)
          /\ \A a, b, c \in Nat : Sign!RawBefore(family, a, b) /\ Sign!RawBefore(family, b, c)
                                      => Sign!RawBefore(family, a, c)
        BY DEF Sign!RawBefore
    <2> QED
        BY <1>0, <1>1, <2>1 DEF Orders
<1>3. \A q : Sorts(q, R, KeyOwners) <=>
          /\ q \in [1..N -> KeyOwners]
          /\ \A i, j \in 1..N : i < j => Sign!RawBefore(family, q[i], q[j])
    BY <1>1 DEF Sorts
<1>4. s = CHOOSE q \in [1..N -> KeyOwners] :
              \A i, j \in 1..N : i < j => Sign!RawBefore(family, q[i], q[j])
    BY SignCardinality DEF Sign!SortKeys
<1>5. PICK q : Sorts(q, R, KeyOwners)
    BY <1>0, <1>2, SortExists
<1>6. /\ s \in [1..N -> KeyOwners]
      /\ \A i, j \in 1..N : i < j => Sign!RawBefore(family, s[i], s[j])
    BY <1>3, <1>4, <1>5
<1> HIDE DEF s, R
<1>7. Sorts(s, R, KeyOwners)
    BY <1>3, <1>6
<1>8. \A u \in KeyOwners : \E p \in 1..Cardinality(KeyOwners) : s[p] = u
    <2> HIDE DEF N
    <2> QED
        BY <1>0, <1>2, <1>7, SortedHasAll
<1> QED
    BY <1>6, <1>8 DEF s

\* The confirmation that belongs to a bit is the one of the key's owner.
LEMMA BitHasOneRow ==
    ASSUME SignInv, NEW family, NEW key, Sign!RowsOf(family, key) # {}
    PROVE  /\ Sign!Max(Sign!RowsOf(family, key)) \in 1..Len(v4)
           /\ \A n \in 1..Len(v4) :
                  v4[n].owner = key => n = Sign!Max(Sign!RowsOf(family, key))
           /\ v4[Sign!Max(Sign!RowsOf(family, key))].owner = key
<1> DEFINE rows == Sign!RowsOf(family, key)
           m == Max(rows)
<1>0. Len(v4) \in Nat
    BY DEF SignInv, SignTyped
<1>1. rows \in SUBSET (1..Len(v4)) /\ \A n \in rows : v4[n].owner = key
    BY DEF Sign!RowsOf, Sign!UserAddress, Sign!Address
<1>2. m = Sign!Max(rows)
    BY DEF Max, Sign!Max
<1> HIDE DEF rows
<1>3. m \in rows
    BY <1>0, <1>1, MaxIsMember DEF rows
<1>4. \A i, j \in 1..Len(v4) : v4[i].owner = v4[j].owner => i = j
    BY DEF SignInv
<1> HIDE DEF m
<1> QED
    BY <1>1, <1>2, <1>3, <1>4 DEF rows

LEMMA OwnersConfirmed ==
    v4 \in Seq(Confirmations) => Len(v4) \in Nat /\ \A n \in 1..Len(v4) : v4[n].owner \in KeyOwners
<1>1. \A c \in Confirmations : c.owner \in KeyOwners
    BY DEF Confirmations
<1> QED
    BY <1>1

LEMMA IntervalOfLength ==
    ASSUME NEW n \in Nat
    PROVE  IsFiniteSet(1..n) /\ Cardinality(1..n) = n
<1>1. 1 \in Int /\ n \in Int
    OBVIOUS
<1>2. IsFiniteSet(1..n) /\ Cardinality(1..n) = IF 1 > n THEN 0 ELSE n - 1 + 1
    BY <1>1, FS_Interval
<1> QED
    BY <1>2

\* Every owner who confirmed has a bit when both ways to tell the family agree.
LEMMA EnoughBits ==
    ASSUME SignInv, Sign!FamilyByPrefix = Sign!FamilyByDecimals
    PROVE  /\ IsFiniteSet(Sign!SignedBits)
           /\ Cardinality(Sign!SignedBits) >= Len(v4)
<1> DEFINE N == Cardinality(KeyOwners)
           keys == Sign!SafePubkey.pubkeys
           bits == Sign!SignedBits
           f == [n \in 1..Len(v4) |-> CHOOSE p \in 1..N : keys[p] = v4[n].owner]
<1>0. Len(v4) \in Nat /\ N \in Nat /\ \A n \in 1..Len(v4) : v4[n].owner \in KeyOwners
    <2>1. N \in Nat
        BY SignFacts, FS_CardinalityType
    <2>2. v4 \in Seq(Confirmations)
        BY DEF SignInv, SignTyped
    <2> QED
        BY <2>1, <2>2, OwnersConfirmed
<1>1. \A u \in KeyOwners : \E p \in 1..N : keys[p] = u
    BY KeysAreSorted DEF Sign!SafePubkey
<1>2. Sign!AssemblyFamily = Sign!FamilyByDecimals
    BY DEF Sign!AssemblyFamily, Sign!SafePubkey, Sign!FamilyByDecimals
<1>3. bits = {p \in 1..N : Sign!RowsOf(Sign!FamilyByDecimals, keys[p]) # {}}
    BY <1>2, SignCardinality DEF Sign!SignedBits
<1>4. \A n \in 1..Len(v4), p \in 1..N : keys[p] = v4[n].owner => p \in bits
    BY <1>3 DEF Sign!RowsOf, Sign!UserAddress
<1> HIDE DEF N, keys, bits
<1>5. \A n \in 1..Len(v4) : f[n] \in 1..N /\ keys[f[n]] = v4[n].owner
    BY <1>0, <1>1
<1>6. \A i, j \in 1..Len(v4) : v4[i].owner = v4[j].owner => i = j
    BY DEF SignInv
<1>7. f \in [1..Len(v4) -> bits] /\ \A i, j \in 1..Len(v4) : f[i] = f[j] => i = j
    BY <1>4, <1>5, <1>6
<1>8. f \in Injection(1..Len(v4), bits)
    BY <1>7 DEF Injection, IsInjective
<1>9. IsFiniteSet(1..N) /\ IsFiniteSet(1..Len(v4)) /\ Cardinality(1..Len(v4)) = Len(v4)
    BY <1>0, IntervalOfLength
<1>10. IsFiniteSet(bits)
    BY <1>3, <1>9, FS_Subset DEF bits, N, keys
<1>11. Cardinality(1..Len(v4)) <= Cardinality(bits)
    BY <1>8, <1>9, <1>10, FS_Injection
<1>12. Cardinality(bits) \in Nat
    BY <1>10, FS_CardinalityType
<1> QED
    BY <1>0, <1>9, <1>10, <1>11, <1>12 DEF bits

LEMMA SendShows ==
    ASSUME SignInv, NEW t, t = Sign!MakeTx, Sign!NodeAccepts(t), NEW i \in 1..Len(v4),
           v4[i].owner \in {t.pubkey.pubkeys[p] : p \in t.bits}, v4[i].body = v3.msgs
    PROVE  t.body = v3.msgs
<1> DEFINE keys == Sign!SafePubkey.pubkeys
<1>1. /\ t.bits = Sign!SignedBits /\ t.pubkey = Sign!SafePubkey
      /\ \A p \in t.bits : t.signatures[p] =
             v4[Sign!Max(Sign!RowsOf(Sign!AssemblyFamily, keys[p]))].signature
    BY DEF Sign!MakeTx, Sign!MultisignedTx
<1>2. PICK p \in t.bits : v4[i].owner = keys[p]
    BY <1>1
<1>3. Sign!RowsOf(Sign!AssemblyFamily, keys[p]) # {}
    BY <1>1 DEF Sign!SignedBits
<1>4. t.signatures[p] = v4[i].signature
    BY <1>1, <1>2, <1>3, BitHasOneRow
<1>5. t.signatures[p].doc.body = t.body
    <2>1. t.signatures[p] = [key |-> t.pubkey.pubkeys[p], family |-> v1.kind,
                             doc |-> Sign!SignDoc(t.body, t.fee, t.seq, Account.number)]
        BY DEF Sign!NodeAccepts
    <2>2. t.signatures[p].doc = Sign!SignDoc(t.body, t.fee, t.seq, Account.number)
        BY <2>1
    <2> QED
        BY <2>2 DEF Sign!SignDoc
<1>6. v4[i].signature.doc.body = v4[i].body
    BY DEF SignInv, Genuine
<1> QED
    BY <1>4, <1>5, <1>6

\* When all owners signed what the row says, the node takes what is assembled.
LEMMA AgreedIsAccepted ==
    ASSUME SignInv, Len(v4) >= SigningThreshold, Sign!FamilyByPrefix = Sign!FamilyByDecimals,
           NEW doc,
           doc = Sign!SignDoc(v3.msgs, <<[denom |-> "own", amount |-> v3.fee]>>,
                              v3.seq, Account.number),
           \A i \in 1..Len(v4) : v4[i].signature.doc = doc, v3.seq = Account.sequence
    PROVE  Sign!NodeAccepts(Sign!MakeTx)
<1> DEFINE t == Sign!MakeTx
           keys == Sign!SafePubkey.pubkeys
<1>0. Len(v4) \in Nat /\ v4 \in Seq(Confirmations) /\ 1 \in 1..Len(v4)
    BY SignFacts DEF SignInv, SignTyped
<1>1. \A i \in 1..Len(v4) : v4[i] \in Confirmations /\ Genuine(v4[i])
    BY <1>0 DEF SignInv
<1>2. v1.kind = Sign!FamilyByPrefix /\ Sign!AssemblyFamily = v1.kind
    BY <1>0, <1>1 DEF Genuine, Sign!AssemblyFamily, Sign!SafePubkey, Sign!FamilyByDecimals
<1>3. v4[1].body = v3.msgs
    BY <1>0, <1>1 DEF Genuine, Sign!SignDoc
<1>4. /\ t.bits = Sign!SignedBits /\ t.pubkey = Sign!SafePubkey /\ t.seq = v3.seq
      /\ t.body = v3.msgs /\ t.fee = <<[denom |-> "own", amount |-> v3.fee]>>
      /\ \A p \in t.bits : t.signatures[p] =
             v4[Sign!Max(Sign!RowsOf(Sign!AssemblyFamily, keys[p]))].signature
    BY <1>3 DEF Sign!MakeTx, Sign!MultisignedTx
<1>5. t.pubkey = [type |-> v1.kind, pubkeys |-> Sign!SortKeys(v1.kind, KeyOwners)]
    BY <1>2, <1>4 DEF Sign!SafePubkey
<1> HIDE DEF t
<1>6. Sign!Cardinality(t.bits) >= SigningThreshold
    <2>1. Cardinality(t.bits) \in Nat /\ Cardinality(t.bits) >= Len(v4)
        BY <1>4, EnoughBits, FS_CardinalityType
    <2>2. SigningThreshold \in Nat
        BY SignFacts
    <2>3. Cardinality(t.bits) >= SigningThreshold
        BY <1>0, <2>1, <2>2
    <2> QED
        BY <2>3, SignCardinality
<1>7. ASSUME NEW p \in t.bits
      PROVE  t.signatures[p] = [key |-> t.pubkey.pubkeys[p], family |-> v1.kind, doc |-> doc]
    <2> DEFINE m == Sign!Max(Sign!RowsOf(Sign!AssemblyFamily, keys[p]))
    <2>1. Sign!RowsOf(Sign!AssemblyFamily, keys[p]) # {}
        BY <1>4 DEF Sign!SignedBits
    <2>2. m \in 1..Len(v4) /\ v4[m].owner = keys[p]
        BY <2>1, BitHasOneRow
    <2> HIDE DEF m
    <2>3. v4[m].signature \in Signatures /\ v4[m].signature.key = keys[p]
          /\ v4[m].signature.family = v1.kind /\ v4[m].signature.doc = doc
        BY <1>1, <2>2 DEF Confirmations, Genuine
    <2>4. v4[m].signature = [key |-> keys[p], family |-> v1.kind, doc |-> doc]
        BY <2>3 DEF Signatures
    <2> QED
        BY <1>4, <2>4 DEF m
<1>8. doc = Sign!SignDoc(t.body, t.fee, t.seq, Account.number)
    BY <1>4
<1> QED
    BY <1>4, <1>5, <1>6, <1>7, <1>8 DEF Sign!NodeAccepts, t

LEMMA SendSigns == SignInv /\ Sign!Send => SignInv'
<1> SUFFICES ASSUME SignInv, Sign!Send PROVE SignInv'
    OBVIOUS
<1> DEFINE t == Sign!MakeTx
           signing == {t.pubkey.pubkeys[p] : p \in t.bits}
<1>0. /\ Len(v4) >= SigningThreshold /\ UNCHANGED <<v1, v2, v3, v4, v5>>
      /\ v6' = [body |-> t.body, signers |-> signing,
                result |-> IF Sign!NodeAccepts(t) THEN "executed" ELSE "refused"]
    BY DEF Sign!Send
<1>1. Len(v4) \in Nat /\ v4 \in Seq(Confirmations) /\ 1 \in 1..Len(v4)
    BY <1>0, SignFacts DEF SignInv, SignTyped
<1>2. t.body \in SignedBodies
    <2>1. v4[1] \in Confirmations /\ t.body = v4[1].body
        BY <1>1 DEF Sign!MakeTx, Sign!MultisignedTx
    <2> QED
        BY <2>1 DEF Confirmations
<1>3. \A u \in signing : \E n \in 1..Len(v4) : v4[n].owner = u
    <2> SUFFICES ASSUME NEW p \in t.bits
                 PROVE  \E n \in 1..Len(v4) : v4[n].owner = t.pubkey.pubkeys[p]
        OBVIOUS
    <2>1. t.pubkey = Sign!SafePubkey /\ t.bits = Sign!SignedBits
        BY DEF Sign!MakeTx, Sign!MultisignedTx
    <2>2. Sign!RowsOf(Sign!AssemblyFamily, t.pubkey.pubkeys[p]) # {}
        BY <2>1 DEF Sign!SignedBits
    <2> QED
        BY <2>2, BitHasOneRow
<1>4. signing \in SUBSET KeyOwners
    <2>1. \A n \in 1..Len(v4) : v4[n].owner \in KeyOwners
        BY <1>1, OwnersConfirmed
    <2> HIDE DEF signing
    <2> QED
        BY <1>3, <2>1
<1>5. \A i \in 1..Len(v4) : Sign!NodeAccepts(t) /\ v4[i].owner \in signing /\ v4[i].body = v3.msgs
          => t.body = v3.msgs
    BY SendShows
<1>6. /\ Sign!FamilyByPrefix = Sign!FamilyByDecimals
      /\ \A i \in 1..Len(v4) : v4[i].signature.doc =
             Sign!SignDoc(v3.msgs, <<[denom |-> "own", amount |-> v3.fee]>>, v3.seq, Account.number)
      /\ v3.seq = Account.sequence
      => Sign!NodeAccepts(t)
    BY <1>0, AgreedIsAccepted
<1> HIDE DEF t, signing
<1>7. /\ v6'.body = t.body /\ v6'.signers = signing
      /\ v6'.result = IF Sign!NodeAccepts(t) THEN "executed" ELSE "refused"
    BY <1>0
<1>8. SignTyped'
    BY <1>0, <1>2, <1>4 DEF SignInv, SignTyped
<1>9. Sign!ExecutedIsShown'
    BY <1>0, <1>5, <1>7 DEF Sign!ExecutedIsShown
<1>10. Sign!AgreeingIsExecutable'
    <2>1. Sign!FamilyByPrefix' = Sign!FamilyByPrefix /\ Sign!FamilyByDecimals' = Sign!FamilyByDecimals
        BY <1>0 DEF Sign!FamilyByPrefix, Sign!FamilyByDecimals
    <2> QED
        BY <1>0, <1>6, <1>7, <2>1 DEF Sign!AgreeingIsExecutable
<1>11. \A c : Genuine(c)' = Genuine(c)
    BY <1>0 DEF Genuine, Sign!FamilyByDecimals
<1>12. \A u \in v6'.signers : Sign!HasSigned(u)'
    BY <1>0, <1>3, <1>7 DEF Sign!HasSigned
<1>13. v3' # Sign!NoTx
    BY <1>0, <1>1 DEF SignInv
<1> QED
    BY <1>0, <1>8, <1>9, <1>10, <1>11, <1>12, <1>13 DEF SignInv

LEMMA NextSigns == SignInv /\ Sign!Next => SignInv'
    BY CreateSigns, ConfirmSigns, ConfirmCreatedSigns, SendSigns DEF Sign!Next


LEMMA SignInvTyped == SignInv => Sign!TypeOK
<1> SUFFICES ASSUME SignInv PROVE Sign!TypeOK
    OBVIOUS
<1>1. \A k \in 1..Len(v4) : v4[k].owner \in KeyOwners /\ v4[k].body \in SignedBodies
    <2>1. \A k \in 1..Len(v4) : v4[k] \in Confirmations
        BY DEF SignInv, SignTyped
    <2> QED
        BY <2>1 DEF Confirmations
<1> QED
    BY <1>1 DEF SignInv, SignTyped, SafeColumns, MaybeNumber, Sign!TypeOK

-----------------------------------------------------------------------------
(* Messages and amounts.  The variables of TxMessages: v1 is tx, v2 auraTxs, v3       *)
(* messages, v4 paid and v5 page.                                                     *)

LEMMA MoneySum == \A f : Money!Sum(f) = SumOf(f, DOMAIN f)
    BY DEF Money!Sum, Money!FoldFunction, Money!FoldFunctionOnSet, Money!MapThenFoldSet,
           SumOf, IsSum, Pick

MaybeAmounts == Nat \union {Undefined}
Moving == [type : STRING, amounts : Seq(Nat), validator : STRING]
MessageRows == [txId : 0..2, auraTxId : 0..2, typeUrl : STRING \union {"send"}, fromAddress : STRING \union {Undefined},
                validatorAddress : STRING \union {Undefined}, amount : MaybeAmounts, outputs : Seq(Nat)]
OfTx == {m \in MessageRows : m.txId = 1}
OfAura == {m \in MessageRows : m.auraTxId = 1}
Found(rows, which) == {i \in 1..Len(rows) : rows[i] \in which}

LEMMA BodiesAre ==
    ASSUME NEW body \in MovingBodies
    PROVE  /\ body \in Seq(Moving) /\ Len(body) \in Nat \ {0}
           /\ \A i \in 1..Len(body) :
                  /\ body[i] \in Moving /\ Money!Moved(body[i]) \in Nat
                  /\ body[i].type \in Money!Staking \union {"send"} =>
                         body[i].amounts[1] \in Nat /\ Money!Moved(body[i]) = body[i].amounts[1]
                  /\ Money!AmountOf(body[i]) \in Nat
                  /\ Money!Moved(body[i]) <= MaxSafe => Money!AmountOf(body[i]) = Money!Moved(body[i])
<1>1. body \in Seq(Moving) \ {<<>>}
    BY PartsAssumption DEF Money!TxMessagesAssumption, Money!Staking, Moving
<1>2. Len(body) \in Nat \ {0}
    BY <1>1
<1>3. ASSUME NEW i \in 1..Len(body)
      PROVE  /\ body[i] \in Moving /\ Money!Moved(body[i]) \in Nat
             /\ body[i].type \in Money!Staking \union {"send"} =>
                    body[i].amounts[1] \in Nat /\ Money!Moved(body[i]) = body[i].amounts[1]
             /\ Money!AmountOf(body[i]) \in Nat
             /\ Money!Moved(body[i]) <= MaxSafe => Money!AmountOf(body[i]) = Money!Moved(body[i])
    <2>0. body[i] \in Moving
        BY <1>1
    <2>1. body[i] \in Moving /\ body[i].amounts \in Seq(Nat)
        BY <2>0 DEF Moving
    <2>2. CASE body[i].type \in Money!Staking \union {"send"}
        <3>1. body[i].amounts # <<>>
            BY <2>2, PartsAssumption DEF Money!TxMessagesAssumption
        <3>2. body[i].amounts[1] \in Nat
            BY <2>1, <3>1
        <3>3. /\ Money!Moved(body[i]) = body[i].amounts[1]
              /\ Money!AmountOf(body[i]) = body[i].amounts[1]
            BY <2>2 DEF Money!Moved, Money!AmountOf, Money!Staking
        <3> QED
            BY <2>1, <3>2, <3>3
    <2>3. CASE body[i].type = "multisend"
        <3> DEFINE a == body[i].amounts
        <3>1. Money!Moved(body[i]) = SumOf(a, DOMAIN a) /\ Money!AmountOf(body[i]) = Money!NumberSum(a)
            BY <2>3, MoneySum DEF Money!Moved, Money!AmountOf, Money!Staking
        <3>2. Len(a) \in Nat /\ DOMAIN a = 1..Len(a) /\ \A j \in 1..Len(a) : a[j] \in Nat
            BY <2>1
        <3> HIDE DEF a
        <3>3. SumOf(a, DOMAIN a) \in Nat
            BY <3>2, IntervalOfLength, SumIsNat
        <3>4. /\ Money!NumberSum(a) \in Nat
              /\ SumOf(a, DOMAIN a) <= MaxSafe => Money!NumberSum(a) = SumOf(a, DOMAIN a)
            BY <3>2, NumberSumIs
        <3> QED
            BY <2>1, <2>3, <3>1, <3>3, <3>4 DEF Money!Staking
    <2>4. CASE body[i].type \notin Money!Staking \union {"send", "multisend"}
        <3>1. Money!Moved(body[i]) = 0 /\ Money!AmountOf(body[i]) = 0
            BY <2>4 DEF Money!Moved, Money!AmountOf
        <3> QED
            BY <2>1, <2>4, <3>1
    <2> QED
        BY <2>2, <2>3, <2>4
<1> QED
    BY <1>1, <1>2, <1>3

\* The amount of the list is a number, and the total while that is small enough.
LEMMA TotalIs ==
    ASSUME NEW body \in MovingBodies
    PROVE  /\ Money!CalculateAmount(body) \in Nat
           /\ Money!Total(body) <= MaxSafe => Money!CalculateAmount(body) = Money!Total(body)
<1> DEFINE n == Len(body)
           f == [i \in 1..n |-> Money!AmountOf(body[i])]
           moved == [i \in 1..n |-> Money!Moved(body[i])]
<1>1. Money!CalculateAmount(body) = Money!NumberSum(f) /\ Money!Total(body) = SumOf(moved, 1..n)
    BY MoneySum DEF Money!CalculateAmount, Money!Total
<1>2. \A i \in 1..n : /\ f[i] \in Nat /\ moved[i] \in Nat
                      /\ moved[i] <= MaxSafe => f[i] = moved[i]
    BY BodiesAre
<1>3. n \in Nat /\ IsFiniteSet(1..n)
    BY BodiesAre, IntervalOfLength
<1>4. f = [i \in 1..n |-> f[i]] /\ moved = [i \in 1..n |-> moved[i]] /\ DOMAIN f = 1..n
    OBVIOUS
<1> HIDE DEF f, moved, n
<1>5. Money!NumberSum(f) \in Nat /\ (SumOf(f, 1..n) <= MaxSafe => Money!NumberSum(f) = SumOf(f, 1..n))
    BY <1>2, <1>3, <1>4, NumberSumIs
<1>6. SumOf(moved, 1..n) \in Nat /\ \A i \in 1..n : moved[i] <= SumOf(moved, 1..n)
    BY <1>2, <1>3, SumIsNat
<1>7. ASSUME SumOf(moved, 1..n) <= MaxSafe PROVE f = moved
    <2>1. ASSUME NEW i \in 1..n PROVE f[i] = moved[i]
        <3>1. moved[i] <= MaxSafe
            BY <1>2, <1>6, <1>7, DoublesAre
        <3> QED
            BY <1>2, <3>1
    <2> QED
        BY <1>4, <2>1
<1> QED
    BY <1>1, <1>5, <1>7

\* What createMultisigTransaction stores of a message, and the synchronisation of an
\* executed one.
LEMMA RowBuilt ==
    ASSUME NEW body \in MovingBodies, NEW i \in 1..Len(body)
    PROVE  /\ Money!BuildMsg(body[i]) \in OfTx /\ Money!BuildMsg(body[i]) \notin OfAura
           /\ Money!BuildMsg(body[i]).auraTxId = 0
           /\ Money!BuildMsg(body[i]).typeUrl = body[i].type
           /\ Money!BuildMsg(body[i]).validatorAddress = body[i].validator
           /\ Money!BuildMsg(body[i]).amount =
                  IF body[i].type \in Money!Staking \union {"send"} THEN body[i].amounts[1] ELSE Undefined
           /\ Money!BuildMsg(body[i]).outputs =
                  IF body[i].type = "multisend" THEN body[i].amounts ELSE <<>>
<1> DEFINE amount == IF body[i].type \in Money!Staking \union {"send"} THEN body[i].amounts[1] ELSE Undefined
           outputs == IF body[i].type = "multisend" THEN body[i].amounts ELSE <<>>
           row == Money!BuildMsg(body[i])
<1>1. body[i] \in Moving /\ amount \in MaybeAmounts
    BY BodiesAre DEF MaybeAmounts
<1>2. outputs \in Seq(Nat)
    BY <1>1 DEF Moving
<1>3. row = [txId |-> 1, auraTxId |-> 0, typeUrl |-> body[i].type, fromAddress |-> Undefined,
             validatorAddress |-> body[i].validator, amount |-> amount, outputs |-> outputs]
    <2>1. row = [Money!NewMessage(body[i].type, amount, outputs)
                 EXCEPT !.txId = 1, !.validatorAddress = body[i].validator]
        BY DEF Money!BuildMsg
    <2> HIDE DEF amount, outputs, row
    <2> QED
        BY <2>1 DEF Money!NewMessage
<1> HIDE DEF amount, outputs, row
<1>4. row \in MessageRows
    BY <1>1, <1>2, <1>3 DEF MessageRows, Moving
<1> QED
    BY <1>3, <1>4 DEF OfTx, OfAura, amount, outputs, row

LEMMA RowExecuted ==
    ASSUME NEW body \in MovingBodies, NEW i \in 1..Len(body), NEW reward \in Rewards
    PROVE  /\ Money!Executed(body[i], reward) \in OfAura /\ Money!Executed(body[i], reward) \notin OfTx
           /\ Money!Executed(body[i], reward).typeUrl = body[i].type
           /\ Money!Executed(body[i], reward).fromAddress = body[i].validator
           /\ Money!Executed(body[i], reward).amount =
                  IF Money!Rewarding(body[i]) THEN reward ELSE Money!Moved(body[i])
           /\ Money!Executed(body[i], reward).amount \in Nat
<1> DEFINE amount == IF Money!Rewarding(body[i]) THEN reward ELSE Money!Moved(body[i])
           row == Money!Executed(body[i], reward)
<1>1. body[i] \in Moving /\ amount \in Nat
    BY BodiesAre, PartsAssumption DEF Money!TxMessagesAssumption
<1>2. row = [txId |-> 0, auraTxId |-> 1, typeUrl |-> body[i].type, fromAddress |-> body[i].validator,
             validatorAddress |-> Undefined, amount |-> amount, outputs |-> <<>>]
    <2>1. row = [Money!NewMessage(body[i].type, amount, <<>>)
                 EXCEPT !.auraTxId = 1, !.fromAddress = body[i].validator]
        BY DEF Money!Executed
    <2> HIDE DEF amount, row
    <2> QED
        BY <2>1 DEF Money!NewMessage
<1> HIDE DEF amount, row
<1>3. row \in MessageRows
    BY <1>1, <1>2 DEF MessageRows, Moving, MaybeAmounts
<1> QED
    BY <1>1, <1>2, <1>3 DEF OfTx, OfAura, amount, row

-----------------------------------------------------------------------------

\* new is old with k rows more, which are f[1], ..., f[k].
Grows(old, new, k, f) ==
    /\ Len(old) \in Nat /\ k \in Nat /\ Len(new) = Len(old) + k
    /\ \A i \in 1..Len(old) : new[i] = old[i]
    /\ \A j \in 1..k : new[Len(old) + j] = f[j]

LEMMA OthersGrow ==
    ASSUME NEW old, NEW new, NEW k, NEW f, NEW which, Grows(old, new, k, f),
           \A j \in 1..k : f[j] \notin which
    PROVE  Found(new, which) = Found(old, which)
<1>1. \A i \in 1..Len(new) : i \in 1..Len(old) \/ \E j \in 1..k : i = Len(old) + j
    <2> SUFFICES ASSUME NEW i \in 1..Len(new), ~(i \in 1..Len(old))
                 PROVE  \E j \in 1..k : i = Len(old) + j
        OBVIOUS
    <2>1. i - Len(old) \in 1..k /\ i = Len(old) + (i - Len(old))
        BY DEF Grows
    <2> QED
        BY <2>1
<1>2. \A i \in 1..Len(old) : i \in 1..Len(new)
    BY DEF Grows
<1> QED
    BY <1>1, <1>2 DEF Grows, Found

LEMMA TheseGrow ==
    ASSUME NEW old, NEW new, NEW k, NEW f, NEW which, Grows(old, new, k, f),
           \A j \in 1..k : f[j] \in which, Found(old, which) = {}
    PROVE  Found(new, which) = {Len(old) + j : j \in 1..k}
<1>1. \A i \in 1..Len(new) : i \in 1..Len(old) \/ \E j \in 1..k : i = Len(old) + j
    <2> SUFFICES ASSUME NEW i \in 1..Len(new), ~(i \in 1..Len(old))
                 PROVE  \E j \in 1..k : i = Len(old) + j
        OBVIOUS
    <2>1. i - Len(old) \in 1..k /\ i = Len(old) + (i - Len(old))
        BY DEF Grows
    <2> QED
        BY <2>1
<1>2. \A i \in 1..Len(old) : i \in 1..Len(new) /\ new[i] \notin which
    BY DEF Grows, Found
<1>3. \A j \in 1..k : Len(old) + j \in 1..Len(new) /\ new[Len(old) + j] \in which
    <2> SUFFICES ASSUME NEW j \in 1..k PROVE Len(old) + j \in 1..Len(new) /\ new[Len(old) + j] \in which
        OBVIOUS
    <2>1. new[Len(old) + j] = f[j] /\ f[j] \in which
        BY DEF Grows
    <2>2. Len(old) + j \in 1..Len(new)
        BY DEF Grows
    <2> QED
        BY <2>1, <2>2
<1> QED
    BY <1>1, <1>2, <1>3 DEF Found

-----------------------------------------------------------------------------

Body == v1.body
SavedAt(o) ==
    /\ Found(v3, OfTx) = {o + i : i \in 1..Len(Body)}
    /\ \A i \in 1..Len(Body) : v3[o + i] = Money!BuildMsg(Body[i])
PaidAt(p, reward) ==
    /\ \A i \in 1..Len(Body) : reward[i] \in Rewards
    /\ Found(v3, OfAura) = {p + i : i \in 1..Len(Body)}
    /\ \A i \in 1..Len(Body) : v3[p + i] = Money!Executed(Body[i], reward[i])
    /\ v4 = Money!Sum([i \in 1..Len(Body) |-> IF Money!Rewarding(Body[i]) THEN reward[i] ELSE 0])

Paged(p) == [auraTxId |-> p.auraTxId, own |-> p.own, todo |-> p.todo, messages |-> p.messages,
             autoClaim |-> p.autoClaim]
Todo(p) == \/ p.own = TRUE /\ p.todo \in {<<>>, <<"messages", "autoClaim">>, <<"autoClaim">>}
           \/ p.own = FALSE /\ p.todo \in {<<>>, <<"received">>}

MoneyTyped ==
    /\ v1 \in [state : {"none", "inserted", "saved", "executed"}, body : MovingBodies \union {<<>>},
               amount : MaybeAmounts, typeUrl : STRING \union {Undefined}, hash : BOOLEAN]
    /\ \A row \in v2 : row.id \in {1, 2} /\ row.rewardAmount \in Nat
    /\ v3 \in Seq(MessageRows)
    /\ \A i \in 1..Len(v3) : v3[i].auraTxId # 0 => v3[i].amount \in Nat
    /\ v4 \in Nat
    /\ v5 = Paged(v5) /\ v5.auraTxId \in 0..2 /\ Todo(v5) /\ v5.autoClaim \in Nat

\* What tables and transaction say of each other in its states.
RowsInv ==
    /\ v1.state # "none" => Body \in MovingBodies
    /\ v1.amount # Undefined => v1.amount = Money!CalculateAmount(Body) /\ v1.amount > 0
    /\ v1.state \in {"none", "inserted"} => Found(v3, OfTx) = {}
    /\ v1.state # "executed" => Found(v3, OfAura) = {}
    /\ v1.state \in {"saved", "executed"} => \E o \in Nat : SavedAt(o)
    /\ v1.state = "executed" => \E p \in Nat : \E reward : PaidAt(p, reward)

Claims == Money!MsgsByAuraTxId(v5.auraTxId)

\* A page read before the messages were saved has none of them; any other shows what the
\* tables still say.
PageReads ==
    \/ v5.auraTxId = 0 /\ DOMAIN v5.messages = {}
    \/ v1.state \in {"saved", "executed"} /\ v5.messages = Money!MsgsByTxId
PageIsRead ==
    \/ v5.auraTxId = 0 /\ DOMAIN v5.messages = {}
    \/ /\ v1.state \in {"saved", "executed"}
       /\ v5.messages = Money!BuildMessages(Money!MsgsByTxId, Claims)
       /\ v5.autoClaim = Money!CalculateAutoClaimAmount(Claims)

PageInv ==
    v5.own =>
        /\ v1.state # "none" /\ v5.auraTxId \in {0, 1} /\ (v5.auraTxId = 1 => v1.state = "executed")
        /\ v5.todo = <<"autoClaim">> => PageReads
        /\ v5.todo = <<>> => PageIsRead

PayInv == MoneyTyped /\ RowsInv /\ PageInv

LEMMA UndefinedIsNone == Undefined \notin Nat
    BY PartsAssumption DEF Money!TxMessagesAssumption

LEMMA InitPayInv == Money!Init => PayInv
<1> SUFFICES ASSUME Money!Init PROVE PayInv
    OBVIOUS
<1>1. v1 = Money!NoTx /\ v2 = {} /\ v3 = <<>> /\ v4 = 0 /\ v5 = Money!NoPage
    BY DEF Money!Init
<1>2. v5.own = FALSE /\ v5.todo = <<>> /\ v5.auraTxId = 0 /\ v5.autoClaim = 0 /\ v5 = Paged(v5)
    BY <1>1 DEF Money!NoPage, Paged
<1>3. v1.state = "none" /\ v1.amount = Undefined
    BY <1>1 DEF Money!NoTx
<1>4. v1 \in [state : {"none", "inserted", "saved", "executed"}, body : MovingBodies \union {<<>>},
              amount : MaybeAmounts, typeUrl : STRING \union {Undefined}, hash : BOOLEAN]
    BY <1>1 DEF Money!NoTx, MaybeAmounts
<1>5. MoneyTyped
    BY <1>1, <1>2, <1>4 DEF MoneyTyped, Todo
<1>6. Found(v3, OfTx) = {} /\ Found(v3, OfAura) = {}
    BY <1>1 DEF Found
<1>7. RowsInv
    BY <1>3, <1>6 DEF RowsInv
<1> QED
    BY <1>2, <1>5, <1>7 DEF PayInv, PageInv

\* The answers that the page keeps do not change with rows of others.
LEMMA AnswersStay ==
    ASSUME MoneyTyped, v3' \in Seq(MessageRows), NEW k, NEW f, Grows(v3, v3', k, f)
    PROVE  /\ (\A j \in 1..k : f[j] \notin OfTx) => Money!MsgsByTxId' = Money!MsgsByTxId
           /\ Money!MsgsByAuraTxId(0)' = Money!MsgsByAuraTxId(0)
           /\ (\A j \in 1..k : f[j] \notin OfAura) =>
                  Money!MsgsByAuraTxId(1)' = Money!MsgsByAuraTxId(1)
<1>1. /\ \A i \in 1..Len(v3) : v3[i] \in MessageRows
      /\ \A i \in 1..Len(v3') : v3'[i] \in MessageRows
    BY DEF MoneyTyped
<1>2. /\ {i \in 1..Len(v3) : v3[i].txId = 1} = Found(v3, OfTx)
      /\ {i \in 1..Len(v3') : v3'[i].txId = 1} = Found(v3', OfTx)
    BY <1>1 DEF Found, OfTx
<1>3. /\ {i \in 1..Len(v3) : 1 # 0 /\ v3[i].auraTxId = 1} = Found(v3, OfAura)
      /\ {i \in 1..Len(v3') : 1 # 0 /\ v3'[i].auraTxId = 1} = Found(v3', OfAura)
    BY <1>1 DEF Found, OfAura
<1>4. \A which : \A i \in Found(v3, which) : v3'[i] = v3[i]
    BY DEF Found, Grows
<1>5. ASSUME \A j \in 1..k : f[j] \notin OfTx PROVE Money!MsgsByTxId' = Money!MsgsByTxId
    <2>1. Found(v3', OfTx) = Found(v3, OfTx)
        BY <1>5, OthersGrow
    <2> QED
        BY <1>2, <1>4, <2>1 DEF Money!MsgsByTxId, Money!TxMessage
<1>6. ASSUME \A j \in 1..k : f[j] \notin OfAura
      PROVE  Money!MsgsByAuraTxId(1)' = Money!MsgsByAuraTxId(1)
    <2>1. Found(v3', OfAura) = Found(v3, OfAura)
        BY <1>6, OthersGrow
    <2> QED
        BY <1>3, <1>4, <2>1 DEF Money!MsgsByAuraTxId, Money!TxMessage
<1>7. Money!MsgsByAuraTxId(0)' = Money!MsgsByAuraTxId(0)
    <2>1. /\ {i \in 1..Len(v3) : 0 # 0 /\ v3[i].auraTxId = 0} = {}
          /\ {i \in 1..Len(v3') : 0 # 0 /\ v3'[i].auraTxId = 0} = {}
        OBVIOUS
    <2> QED
        BY <2>1 DEF Money!MsgsByAuraTxId
<1> QED
    BY <1>5, <1>6, <1>7

\* Rows that are not of the transaction leave what is known of it.
LEMMA PageStays ==
    ASSUME PageInv, v5' = v5, v1.state # "none" => v1'.state # "none",
           v1.state = "executed" => v1'.state = "executed",
           v1.state \in {"saved", "executed"} =>
               v1'.state \in {"saved", "executed"} /\ Money!MsgsByTxId' = Money!MsgsByTxId,
           Money!MsgsByAuraTxId(0)' = Money!MsgsByAuraTxId(0),
           v1.state = "executed" => Money!MsgsByAuraTxId(1)' = Money!MsgsByAuraTxId(1)
    PROVE  PageInv'
<1> SUFFICES ASSUME v5.own PROVE PageInv'
    BY DEF PageInv
<1>1. v5.auraTxId \in {0, 1} /\ (v5.auraTxId = 1 => v1.state = "executed")
    BY DEF PageInv
<1>2. Claims' = Claims
    <2>1. CASE v5.auraTxId = 0
        BY <2>1 DEF Claims
    <2>2. CASE v5.auraTxId = 1
        BY <1>1, <2>2 DEF Claims
    <2> QED
        BY <1>1, <2>1, <2>2
<1>3. PageReads => PageReads'
    BY DEF PageReads
<1>4. PageIsRead => PageIsRead'
    <2> SUFFICES ASSUME v1.state \in {"saved", "executed"},
                        v5.messages = Money!BuildMessages(Money!MsgsByTxId, Claims),
                        v5.autoClaim = Money!CalculateAutoClaimAmount(Claims)
                 PROVE  PageIsRead'
        BY DEF PageIsRead
    <2>1. Money!BuildMessages(Money!MsgsByTxId, Claims)' = Money!BuildMessages(Money!MsgsByTxId, Claims)
        <3>1. Money!MsgsByTxId' = Money!MsgsByTxId
            OBVIOUS
        <3> QED
            BY <1>2, <3>1
    <2>2. Money!CalculateAutoClaimAmount(Claims)' = Money!CalculateAutoClaimAmount(Claims)
        BY <1>2 DEF Money!CalculateAutoClaimAmount
    <2> QED
        BY <2>1, <2>2 DEF PageIsRead
<1> QED
    BY <1>1, <1>3, <1>4 DEF PageInv

LEMMA CreatePays ==
    ASSUME PayInv, NEW body \in MovingBodies, Money!Create(body)
    PROVE  PayInv'
<1> DEFINE total == Money!CalculateAmount(body)
           amount == IF total > 0 THEN total ELSE Undefined
<1>1. /\ v1 = Money!NoTx /\ UNCHANGED <<v2, v3, v4, v5>>
      /\ v1' = [state |-> "inserted", body |-> body, hash |-> FALSE, amount |-> amount,
                typeUrl |-> body[1].type]
    BY DEF Money!Create
<1>2. total \in Nat
    BY TotalIs
<1> HIDE DEF total
<1>3. body[1].type \in STRING
    <2>1. body \in Seq(Moving) /\ 1 \in 1..Len(body)
        BY BodiesAre
    <2>2. body[1] \in Moving
        BY <2>1
    <2> QED
        BY <2>2 DEF Moving
<1>4. amount \in MaybeAmounts /\ (amount # Undefined => amount = total /\ amount > 0)
    BY <1>2 DEF MaybeAmounts
<1> HIDE DEF amount
<1>5. v1.state = "none" /\ v1'.state = "inserted" /\ v1'.body = body /\ v1'.amount = amount
    BY <1>1 DEF Money!NoTx
<1>6. MoneyTyped'
    <2>1. v1' \in [state : {"none", "inserted", "saved", "executed"}, body : MovingBodies \union {<<>>},
                   amount : MaybeAmounts, typeUrl : STRING \union {Undefined}, hash : BOOLEAN]
        BY <1>1, <1>3, <1>4
    <2> QED
        BY <1>1, <2>1 DEF PayInv, MoneyTyped, Paged
<1>7. RowsInv'
    <2>1. Found(v3, OfTx) = {} /\ Found(v3, OfAura) = {}
        BY <1>5 DEF PayInv, RowsInv
    <2> QED
        BY <1>1, <1>4, <1>5, <2>1 DEF RowsInv, Body, total
<1>8. PageInv'
    <2>1. ~v5.own
        BY <1>5 DEF PayInv, PageInv
    <2> QED
        BY <1>1, <2>1 DEF PageInv
<1> QED
    BY <1>6, <1>7, <1>8 DEF PayInv

LEMMA ConcatGrows ==
    ASSUME NEW V, NEW s \in Seq(V), NEW k \in Nat, NEW f \in [1..k -> V]
    PROVE  s \o f \in Seq(V) /\ Grows(s, s \o f, k, f)
<1>1. f \in Seq(V) /\ Len(f) = k
    OBVIOUS
<1>2. s \o f \in Seq(V) /\ Len(s \o f) = Len(s) + k /\ Len(s) \in Nat
    BY <1>1
<1>3. \A i \in 1..Len(s) : (s \o f)[i] = s[i]
    BY <1>1
<1>4. \A j \in 1..k : (s \o f)[Len(s) + j] = f[j]
    BY <1>1
<1> QED
    BY <1>2, <1>3, <1>4 DEF Grows

\* Rows that are added keep the types.
LEMMA GrowsTyped ==
    ASSUME MoneyTyped, v3' \in Seq(MessageRows), NEW k, NEW f, Grows(v3, v3', k, f),
           \A j \in 1..k : f[j].auraTxId # 0 => f[j].amount \in Nat
    PROVE  \A i \in 1..Len(v3') : v3'[i].auraTxId # 0 => v3'[i].amount \in Nat
<1> SUFFICES ASSUME NEW i \in 1..Len(v3'), v3'[i].auraTxId # 0 PROVE v3'[i].amount \in Nat
    OBVIOUS
<1>1. CASE i \in 1..Len(v3)
    BY <1>1 DEF MoneyTyped, Grows
<1>2. CASE ~(i \in 1..Len(v3))
    <2>1. i - Len(v3) \in 1..k /\ i = Len(v3) + (i - Len(v3))
        BY <1>2 DEF Grows
    <2>2. v3'[i] = f[i - Len(v3)]
        BY <2>1 DEF Grows
    <2> QED
        BY <2>1, <2>2
<1> QED
    BY <1>1, <1>2

LEMMA SaveMsgsPays == PayInv /\ Money!SaveMsgs => PayInv'
<1> SUFFICES ASSUME PayInv, Money!SaveMsgs PROVE PayInv'
    OBVIOUS
<1> DEFINE k == Len(Body)
           f == [i \in 1..k |-> Money!BuildMsg(Body[i])]
<1>1. /\ v1.state = "inserted" /\ v3' = v3 \o f /\ v1' = [v1 EXCEPT !.state = "saved"]
      /\ UNCHANGED <<v2, v4, v5>>
    BY DEF Money!SaveMsgs, Body
<1>2. Body \in MovingBodies /\ k \in Nat /\ v3 \in Seq(MessageRows)
    BY <1>1, BodiesAre DEF PayInv, MoneyTyped, RowsInv
<1>3. \A j \in 1..k : f[j] \in OfTx /\ f[j] \notin OfAura /\ f[j].auraTxId = 0
    BY <1>2, RowBuilt
<1>4. f \in [1..k -> MessageRows]
    BY <1>3 DEF OfTx
<1>5. \A j \in 1..k : f[j] = Money!BuildMsg(Body[j])
    OBVIOUS
<1> HIDE DEF k, f
<1>6. v3' \in Seq(MessageRows) /\ Grows(v3, v3', k, f)
    BY <1>1, <1>2, <1>4, ConcatGrows
<1>7. /\ v1'.state = "saved" /\ v1'.body = Body /\ v1'.amount = v1.amount
      /\ v1' \in [state : {"none", "inserted", "saved", "executed"}, body : MovingBodies \union {<<>>},
                  amount : MaybeAmounts, typeUrl : STRING \union {Undefined}, hash : BOOLEAN]
    BY <1>1 DEF PayInv, MoneyTyped, Body
<1>8. MoneyTyped'
    BY <1>1, <1>3, <1>6, <1>7, GrowsTyped DEF PayInv, MoneyTyped, Paged
<1>9. RowsInv'
    <2>1. Found(v3, OfTx) = {} /\ Found(v3, OfAura) = {}
        BY <1>1 DEF PayInv, RowsInv
    <2>2. Found(v3', OfTx) = {Len(v3) + j : j \in 1..k} /\ Found(v3', OfAura) = {}
        BY <1>3, <1>6, <2>1, TheseGrow, OthersGrow
    <2>3. Len(v3) \in Nat /\ \A j \in 1..k : v3'[Len(v3) + j] = Money!BuildMsg(Body[j])
        BY <1>5, <1>6 DEF Grows
    <2>4. Body' = Body
        BY <1>7 DEF Body
    <2>5. PICK o \in Nat : o = Len(v3)
        BY <2>3
    <2>6. SavedAt(o)'
        BY <2>2, <2>3, <2>4, <2>5 DEF SavedAt, k
    <2> QED
        BY <1>2, <1>7, <2>2, <2>4, <2>6 DEF PayInv, RowsInv
<1>10. PageInv'
    BY <1>1, <1>3, <1>6, <1>7, AnswersStay, PageStays DEF PayInv
<1> QED
    BY <1>8, <1>9, <1>10 DEF PayInv

LEMMA ReceivePays == PayInv /\ Money!Receive => PayInv'
<1> SUFFICES ASSUME PayInv, Money!Receive PROVE PayInv'
    OBVIOUS
<1> DEFINE row == [Money!NewMessage("send", 7, <<>>) EXCEPT !.auraTxId = 2]
           f == [j \in 1..1 |-> row]
<1>1. /\ v3' = Append(v3, row) /\ UNCHANGED <<v1, v4, v5>>
      /\ v2' = v2 \union {[id |-> 2, own |-> FALSE, amount |-> 7, rewardAmount |-> 0]}
    BY DEF Money!Receive
<1>2. row = [txId |-> 0, auraTxId |-> 2, typeUrl |-> "send", fromAddress |-> Undefined,
             validatorAddress |-> Undefined, amount |-> 7, outputs |-> <<>>]
    BY DEF Money!NewMessage
<1> HIDE DEF row
<1>3. row \in MessageRows /\ row \notin OfTx /\ row \notin OfAura /\ row.amount \in Nat
    <2>1. row.txId = 0 /\ row.auraTxId = 2 /\ row.amount = 7
        BY <1>2
    <2>2. <<>> \in Seq(Nat) /\ 7 \in MaybeAmounts /\ 0 \in 0..2 /\ 2 \in 0..2
        BY DEF MaybeAmounts
    <2>3. row \in MessageRows
        BY <1>2, <2>2 DEF MessageRows
    <2> QED
        BY <2>1, <2>3 DEF OfTx, OfAura
<1>4. v3' \in Seq(MessageRows) /\ Grows(v3, v3', 1, f) /\ \A j \in 1..1 : f[j] = row
    BY <1>1, <1>3 DEF PayInv, MoneyTyped, Grows
<1> HIDE DEF f
<1>5. MoneyTyped'
    <2>1. \A i \in 1..Len(v3') : v3'[i].auraTxId # 0 => v3'[i].amount \in Nat
        BY <1>3, <1>4, GrowsTyped DEF PayInv
    <2>2. \A r \in v2' : r.id \in {1, 2} /\ r.rewardAmount \in Nat
        BY <1>1 DEF PayInv, MoneyTyped
    <2> QED
        BY <1>1, <1>4, <2>1, <2>2 DEF PayInv, MoneyTyped, Paged
<1>6. Found(v3', OfTx) = Found(v3, OfTx) /\ Found(v3', OfAura) = Found(v3, OfAura)
    BY <1>3, <1>4, OthersGrow
<1>7. RowsInv'
    <2>1. Body' = Body
        BY <1>1 DEF Body
    <2>2. \A i \in 1..Len(v3) : v3'[i] = v3[i]
        BY <1>4 DEF Grows
    <2>3. \A o : SavedAt(o) => SavedAt(o)'
        BY <1>6, <2>1, <2>2 DEF SavedAt, Found
    <2>4. \A p, reward : PaidAt(p, reward) => PaidAt(p, reward)'
        <3> SUFFICES ASSUME NEW p, NEW reward, PaidAt(p, reward) PROVE PaidAt(p, reward)'
            OBVIOUS
        <3>1. \A i \in 1..Len(Body) : v3'[p + i] = v3[p + i]
            BY <2>2 DEF PaidAt, Found
        <3> QED
            BY <1>1, <1>6, <2>1, <3>1 DEF PaidAt
    <2> QED
        BY <1>1, <1>6, <2>1, <2>3, <2>4 DEF PayInv, RowsInv
<1>8. PageInv'
    <2>1. /\ Money!MsgsByTxId' = Money!MsgsByTxId
          /\ Money!MsgsByAuraTxId(0)' = Money!MsgsByAuraTxId(0)
          /\ Money!MsgsByAuraTxId(1)' = Money!MsgsByAuraTxId(1)
        BY <1>3, <1>4, AnswersStay DEF PayInv
    <2> QED
        BY <1>1, <2>1, PageStays DEF PayInv
<1> QED
    BY <1>5, <1>7, <1>8 DEF PayInv

LEMMA ExecutePays ==
    ASSUME PayInv, NEW reward \in [1..Len(v1.body) -> Rewards], NEW recorded \in BOOLEAN,
           Money!Execute(reward, recorded)
    PROVE  PayInv'
<1> DEFINE k == Len(Body)
           f == [i \in 1..k |-> Money!Executed(Body[i], reward[i])]
           due == [i \in 1..k |-> IF Money!Rewarding(Body[i]) THEN reward[i] ELSE 0]
<1>1. /\ v1.state = "saved" /\ v3' = v3 \o f /\ v5' = v5 /\ v4' = Money!Sum(due)
      /\ v1' = [v1 EXCEPT !.state = "executed", !.hash = recorded]
      /\ v2' = v2 \union {[id |-> 1, own |-> TRUE, amount |-> Money!Number(Money!Total(Body)),
                           rewardAmount |-> v4']}
    BY DEF Money!Execute, Body
<1>2. Body \in MovingBodies /\ k \in Nat /\ v3 \in Seq(MessageRows)
    BY <1>1, BodiesAre DEF PayInv, MoneyTyped, RowsInv
<1>3. \A j \in 1..k : reward[j] \in Rewards /\ reward[j] \in Nat
    BY PartsAssumption DEF Money!TxMessagesAssumption, Body
<1>4. \A j \in 1..k : f[j] \in OfAura /\ f[j] \notin OfTx /\ f[j].amount \in Nat
    BY <1>2, <1>3, RowExecuted
<1>5. f \in [1..k -> MessageRows] /\ \A j \in 1..k : f[j] = Money!Executed(Body[j], reward[j])
    BY <1>4 DEF OfAura
<1>6. v4' \in Nat
    <2>1. \A j \in 1..k : due[j] \in Nat
        BY <1>3
    <2>2. v4' = SumOf(due, 1..k)
        BY <1>1, MoneySum
    <2> HIDE DEF due, k
    <2> QED
        BY <1>2, <2>1, <2>2, IntervalOfLength, SumIsNat
<1> HIDE DEF k, f
<1>7. v3' \in Seq(MessageRows) /\ Grows(v3, v3', k, f)
    BY <1>1, <1>2, <1>5, ConcatGrows
<1>8. /\ v1'.state = "executed" /\ v1'.body = Body /\ v1'.amount = v1.amount
      /\ v1' \in [state : {"none", "inserted", "saved", "executed"}, body : MovingBodies \union {<<>>},
                  amount : MaybeAmounts, typeUrl : STRING \union {Undefined}, hash : BOOLEAN]
    BY <1>1 DEF PayInv, MoneyTyped, Body
<1>9. MoneyTyped'
    <2>1. \A i \in 1..Len(v3') : v3'[i].auraTxId # 0 => v3'[i].amount \in Nat
        BY <1>4, <1>7, GrowsTyped DEF PayInv
    <2>2. \A r \in v2' : r.id \in {1, 2} /\ r.rewardAmount \in Nat
        BY <1>1, <1>6 DEF PayInv, MoneyTyped
    <2> QED
        BY <1>1, <1>6, <1>7, <1>8, <2>1, <2>2 DEF PayInv, MoneyTyped, Paged
<1>10. Body' = Body
    BY <1>8 DEF Body
<1>11. Found(v3, OfAura) = {}
    BY <1>1 DEF PayInv, RowsInv
<1>12. Found(v3', OfTx) = Found(v3, OfTx) /\ Found(v3', OfAura) = {Len(v3) + j : j \in 1..k}
    BY <1>4, <1>7, <1>11, TheseGrow, OthersGrow
<1>13. RowsInv'
    <2>1. /\ Len(v3) \in Nat /\ \A j \in 1..k : v3'[Len(v3) + j] = Money!Executed(Body[j], reward[j])
          /\ \A i \in 1..Len(v3) : v3'[i] = v3[i]
        BY <1>5, <1>7 DEF Grows
    <2> PICK p \in Nat : p = Len(v3)
        BY <2>1
    <2>2. PaidAt(p, reward)'
        BY <1>1, <1>3, <1>10, <1>12, <2>1 DEF PaidAt, k
    <2>3. \A o : SavedAt(o) => SavedAt(o)'
        BY <1>10, <1>12, <2>1 DEF SavedAt, Found
    <2>4. \E o \in Nat : SavedAt(o)
        BY <1>1 DEF PayInv, RowsInv
    <2> QED
        BY <1>2, <1>8, <1>10, <2>2, <2>3, <2>4 DEF PayInv, RowsInv
<1>14. PageInv'
    <2>1. Money!MsgsByTxId' = Money!MsgsByTxId /\ Money!MsgsByAuraTxId(0)' = Money!MsgsByAuraTxId(0)
        BY <1>4, <1>7, AnswersStay DEF PayInv
    <2> QED
        BY <1>1, <1>8, <2>1, PageStays DEF PayInv
<1> QED
    BY <1>9, <1>13, <1>14 DEF PayInv

\* Opening a page and reading of it.
LEMMA PagePays ==
    ASSUME PayInv, UNCHANGED <<v1, v2, v3, v4>>, v5' = Paged(v5'), v5'.auraTxId \in 0..2,
           Todo(v5'), v5'.autoClaim \in Nat, PageInv'
    PROVE  PayInv'
<1>1. MoneyTyped'
    BY DEF PayInv, MoneyTyped, Paged
<1>2. Body' = Body
    BY DEF Body
<1>3. \A o : SavedAt(o)' = SavedAt(o)
    BY <1>2 DEF SavedAt
<1>4. \A p, reward : PaidAt(p, reward) => PaidAt(p, reward)'
    BY <1>2 DEF PaidAt
<1>5. RowsInv'
    BY <1>2, <1>3, <1>4 DEF PayInv, RowsInv
<1> QED
    BY <1>1, <1>5 DEF PayInv

LEMMA OpenPays ==
    ASSUME PayInv, Money!OpenOwn \/ \E row \in v2 : Money!OpenOther(row)
    PROVE  PayInv'
<1>1. CASE Money!OpenOwn
    <2> DEFINE id == IF v1.state = "executed" /\ v1.hash THEN 1 ELSE 0
    <2>1. /\ v1.state # "none" /\ UNCHANGED <<v1, v2, v3, v4>>
          /\ v5' = [Money!NoPage EXCEPT !.own = TRUE, !.todo = <<"messages", "autoClaim">>,
                                        !.auraTxId = id]
        BY <1>1 DEF Money!OpenOwn
    <2>2. id \in {0, 1} /\ (id = 1 => v1.state = "executed")
        OBVIOUS
    <2> HIDE DEF id
    <2>3. /\ v5' = Paged(v5') /\ v5'.own = TRUE /\ v5'.todo = <<"messages", "autoClaim">>
          /\ v5'.auraTxId = id /\ v5'.autoClaim = 0
        BY <2>1 DEF Money!NoPage, Paged
    <2>4. PageInv'
        <3>1. /\ <<"messages", "autoClaim">> # <<>>
              /\ <<"messages", "autoClaim">> # <<"autoClaim">>
            OBVIOUS
        <3> QED
            BY <2>1, <2>2, <2>3, <3>1 DEF PageInv
    <2> QED
        BY <2>1, <2>2, <2>3, <2>4, PagePays DEF Todo
<1>2. ASSUME NEW row \in v2, Money!OpenOther(row) PROVE PayInv'
    <2>1. UNCHANGED <<v1, v2, v3, v4>>
          /\ v5' = [Money!NoPage EXCEPT !.todo = <<"received">>, !.auraTxId = row.id]
        BY <1>2 DEF Money!OpenOther
    <2>2. row.id \in 0..2
        BY DEF PayInv, MoneyTyped
    <2>3. /\ v5' = Paged(v5') /\ v5'.own = FALSE /\ v5'.todo = <<"received">>
          /\ v5'.auraTxId = row.id /\ v5'.autoClaim = 0
        BY <2>1 DEF Money!NoPage, Paged
    <2>4. PageInv'
        BY <2>3 DEF PageInv
    <2>5. Todo(v5')
        BY <2>3 DEF Todo
    <2> QED
        BY <2>1, <2>2, <2>3, <2>4, <2>5, PagePays
<1> QED
    BY <1>1, <1>2

\* What of the rows counts for AutoClaimAmount.
Claimed(claims) ==
    [i \in DOMAIN claims |->
        IF claims[i].typeUrl \in {"send", "multisend", "withdraw"} THEN 0 ELSE claims[i].amount]

\* What a query for the rows of AuraTx has, of which autoClaim is the sum.
LEMMA ClaimsAre ==
    ASSUME MoneyTyped, NEW id \in {0, 1}
    PROVE  LET claims == Money!MsgsByAuraTxId(id)
               auto == Claimed(claims)
           IN  /\ DOMAIN claims \in SUBSET (1..Len(v3)) /\ DOMAIN auto = DOMAIN claims
               /\ \A i \in DOMAIN claims : claims[i].amount \in Nat
               /\ Money!CalculateAutoClaimAmount(claims) \in Nat
               /\ SumOf(auto, DOMAIN claims) <= MaxSafe =>
                      Money!CalculateAutoClaimAmount(claims) = SumOf(auto, DOMAIN claims)
<1> DEFINE claims == Money!MsgsByAuraTxId(id)
           auto == Claimed(claims)
<1>1. /\ DOMAIN claims \in SUBSET (1..Len(v3))
      /\ \A i \in DOMAIN claims : v3[i].auraTxId # 0 /\ claims[i] = Money!TxMessage(v3[i])
    BY DEF Money!MsgsByAuraTxId
<1>2. \A i \in DOMAIN claims : claims[i].amount \in Nat
    BY <1>1 DEF MoneyTyped, Money!TxMessage
<1>3. Money!CalculateAutoClaimAmount(claims) = Money!NumberSum(auto)
    BY DEF Money!CalculateAutoClaimAmount, Claimed
<1>4. Len(v3) \in Nat
    BY DEF MoneyTyped
<1> HIDE DEF claims
<1>5. DOMAIN auto = DOMAIN claims /\ \A i \in DOMAIN claims : auto[i] \in Nat
    BY <1>2 DEF Claimed
<1> HIDE DEF auto
<1>6. /\ Money!NumberSum(auto) \in Nat
      /\ SumOf(auto, DOMAIN claims) <= MaxSafe => Money!NumberSum(auto) = SumOf(auto, DOMAIN claims)
    BY <1>1, <1>4, <1>5, NumberSumIs
<1> QED
    BY <1>1, <1>2, <1>3, <1>5, <1>6 DEF claims, auto

LEMMA ReadPays == PayInv /\ Money!ReadPage => PayInv'
<1> SUFFICES ASSUME PayInv, Money!ReadPage PROVE PayInv'
    OBVIOUS
<1> DEFINE claims == Money!MsgsByAuraTxId(v5.auraTxId)
           rest == [v5 EXCEPT !.todo = Tail(v5.todo)]
<1>0. v5.todo # <<>> /\ UNCHANGED <<v1, v2, v3, v4>> /\ v5 = Paged(v5) /\ v5.auraTxId \in 0..2
      /\ v5.autoClaim \in Nat /\ Todo(v5)
    BY DEF Money!ReadPage, Money!Closed, PayInv, MoneyTyped
<1>1. Claims = claims
    BY DEF Claims
<1>2. \A id : Money!MsgsByAuraTxId(id)' = Money!MsgsByAuraTxId(id)
    BY <1>0 DEF Money!MsgsByAuraTxId
<1>3. Money!MsgsByTxId' = Money!MsgsByTxId
    BY <1>0 DEF Money!MsgsByTxId
<1>4. CASE v5.todo = <<"messages", "autoClaim">>
    <2>1. Head(v5.todo) = "messages" /\ Tail(v5.todo) = <<"autoClaim">>
        BY <1>4
    <2>2. v5' = [rest EXCEPT !.messages = Money!MsgsByTxId]
        BY <2>1 DEF Money!ReadPage
    <2>3. v5' = Paged(v5') /\ v5'.own = v5.own /\ v5'.auraTxId = v5.auraTxId
          /\ v5'.todo = <<"autoClaim">> /\ v5'.autoClaim = v5.autoClaim
          /\ v5'.messages = Money!MsgsByTxId
        BY <1>0, <2>1, <2>2 DEF Paged
    <2>4. PageInv'
        <3> SUFFICES ASSUME v5.own PROVE PageInv'
            BY <2>3 DEF PageInv
        <3>1. v1.state # "none" /\ v5.auraTxId \in {0, 1} /\ (v5.auraTxId = 1 => v1.state = "executed")
            BY DEF PayInv, PageInv
        <3>2. PageReads'
            <4>1. CASE v1.state \in {"saved", "executed"}
                BY <1>0, <1>3, <2>3, <4>1 DEF PageReads
            <4>2. CASE v1.state = "inserted"
                <5>1. \A i \in 1..Len(v3) : v3[i].txId # 1
                    BY <4>2 DEF PayInv, MoneyTyped, RowsInv, Found, OfTx
                <5>2. DOMAIN Money!MsgsByTxId = {}
                    BY <5>1 DEF Money!MsgsByTxId
                <5>3. v5'.auraTxId = 0
                    BY <2>3, <3>1, <4>2
                <5> QED
                    BY <2>3, <5>2, <5>3 DEF PageReads
            <4> QED
                BY <3>1, <4>1, <4>2 DEF PayInv, MoneyTyped
        <3>3. <<"autoClaim">> # <<>>
            OBVIOUS
        <3> QED
            BY <1>0, <2>3, <3>1, <3>2, <3>3 DEF PageInv
    <2>5. Todo(v5')
        <3>1. <<"messages", "autoClaim">> # <<>> /\ <<"messages", "autoClaim">> # <<"received">>
            OBVIOUS
        <3>2. v5.own = TRUE
            BY <1>0, <1>4, <3>1 DEF Todo
        <3> QED
            BY <2>3, <3>2 DEF Todo
    <2> QED
        BY <1>0, <2>3, <2>4, <2>5, PagePays
<1>5. CASE v5.todo = <<"autoClaim">>
    <2>1. Head(v5.todo) = "autoClaim" /\ Tail(v5.todo) = <<>>
        BY <1>5
    <2>2. v5' = [rest EXCEPT !.messages = Money!BuildMessages(v5.messages, claims),
                             !.autoClaim = Money!CalculateAutoClaimAmount(claims)]
        BY <2>1 DEF Money!ReadPage
    <2>3. v5' = Paged(v5') /\ v5'.own = v5.own /\ v5'.auraTxId = v5.auraTxId
          /\ v5'.todo = <<>> /\ v5'.autoClaim = Money!CalculateAutoClaimAmount(claims)
          /\ v5'.messages = Money!BuildMessages(v5.messages, claims)
        BY <1>0, <2>1, <2>2 DEF Paged
    <2>4. v5'.autoClaim \in Nat
        <3>1. v5.own /\ <<"autoClaim">> # <<"received">>
            BY <1>0, <1>5 DEF Todo
        <3>2. v5.auraTxId \in {0, 1}
            BY <3>1 DEF PayInv, PageInv
        <3> QED
            BY <2>3, <3>2, ClaimsAre DEF PayInv
    <2>5. PageInv'
        <3> SUFFICES ASSUME v5.own PROVE PageInv'
            BY <2>3 DEF PageInv
        <3>1. /\ v1.state # "none" /\ v5.auraTxId \in {0, 1} /\ (v5.auraTxId = 1 => v1.state = "executed")
              /\ PageReads
            BY <1>5 DEF PayInv, PageInv
        <3>2. Claims' = claims
            BY <1>2, <2>3 DEF Claims
        <3>3. PageIsRead'
            <4>1. CASE v5.auraTxId = 0 /\ DOMAIN v5.messages = {}
                <5>1. DOMAIN Money!BuildMessages(v5.messages, claims) = {}
                    BY <4>1 DEF Money!BuildMessages
                <5> QED
                    BY <2>3, <4>1, <5>1 DEF PageIsRead
            <4>2. CASE v1.state \in {"saved", "executed"} /\ v5.messages = Money!MsgsByTxId
                BY <1>0, <1>3, <2>3, <3>2, <4>2 DEF PageIsRead
            <4> QED
                BY <3>1, <4>1, <4>2 DEF PageReads
        <3>4. <<>> # <<"autoClaim">>
            OBVIOUS
        <3> QED
            BY <1>0, <2>3, <3>1, <3>3, <3>4 DEF PageInv
    <2> QED
        BY <1>0, <2>3, <2>4, <2>5, PagePays DEF Todo
<1>6. CASE v5.todo = <<"received">>
    <2>1. Head(v5.todo) = "received" /\ Tail(v5.todo) = <<>>
        BY <1>6
    <2>2. v5' = [rest EXCEPT !.messages = claims]
        BY <2>1 DEF Money!ReadPage
    <2>3. v5' = Paged(v5') /\ v5'.own = v5.own /\ v5'.auraTxId = v5.auraTxId
          /\ v5'.todo = <<>> /\ v5'.autoClaim = v5.autoClaim
        BY <1>0, <2>1, <2>2 DEF Paged
    <2>4. ~v5.own
        BY <1>0, <1>6 DEF Todo
    <2>5. PageInv'
        BY <2>3, <2>4 DEF PageInv
    <2> QED
        BY <1>0, <2>3, <2>5, PagePays DEF Todo
<1> QED
    BY <1>0, <1>4, <1>5, <1>6 DEF Todo

LEMMA NextPays == PayInv /\ Money!Next => PayInv'
    BY CreatePays, SaveMsgsPays, ReceivePays, ExecutePays, OpenPays, ReadPays DEF Money!Next

-----------------------------------------------------------------------------

\* What is shown of a message is a number, and of one that is no withdrawal what the
\* transaction moves with it.
LEMMA ShownIs ==
    /\ \A m : m.amount \in MaybeAmounts /\ m.outputs \in Seq(Nat) => Money!Shown(m) \in Nat
    /\ \A m : m.outputs = <<>> /\ m.amount \in Nat => Money!Shown(m) = m.amount
    /\ \A m : m.outputs = <<>> /\ m.amount = Undefined => Money!Shown(m) = 0
<1>1. \A a \in MaybeAmounts : Money!Or(a, 0) \in Nat /\ (a \in Nat => Money!Or(a, 0) = a)
    BY UndefinedIsNone DEF MaybeAmounts, Money!Or
<1>2. Undefined \in MaybeAmounts /\ Money!Or(Undefined, 0) = 0 /\ \A a \in Nat : a \in MaybeAmounts
    BY DEF MaybeAmounts, Money!Or
<1>3. \A o \in Seq(Nat) : Money!Sum(o) \in Nat
    <2> SUFFICES ASSUME NEW o \in Seq(Nat) PROVE Money!Sum(o) \in Nat
        OBVIOUS
    <2>1. Len(o) \in Nat /\ DOMAIN o = 1..Len(o) /\ \A j \in 1..Len(o) : o[j] \in Nat
        OBVIOUS
    <2>2. SumOf(o, DOMAIN o) \in Nat
        BY <2>1, IntervalOfLength, SumIsNat
    <2> QED
        BY <2>2, MoneySum
<1> QED
    BY <1>1, <1>2, <1>3 DEF Money!Shown

LEMMA BuiltShows ==
    ASSUME NEW body \in MovingBodies, NEW i \in 1..Len(body), body[i].type # "withdraw",
           NEW m, m = Money!TxMessage(Money!BuildMsg(body[i]))
    PROVE  Money!Shown(m) = Money!Moved(body[i])
<1> DEFINE row == Money!BuildMsg(body[i])
<1>1. m.outputs = row.outputs /\ m.amount = row.amount
    BY DEF Money!TxMessage
<1>2. row.outputs \in Seq(Nat)
    BY RowBuilt DEF OfTx, MessageRows
<1> HIDE DEF row
<1>3. CASE body[i].type \in Money!Staking \union {"send"}
    <2>1. row.amount = body[i].amounts[1] /\ row.outputs = <<>> /\ row.amount \in Nat
          /\ Money!Moved(body[i]) = row.amount
        BY <1>3, RowBuilt, BodiesAre DEF row, Money!Staking
    <2> QED
        BY <1>1, <2>1, ShownIs
<1>4. CASE body[i].type = "multisend"
    <2>1. row.amount = Undefined /\ row.outputs = body[i].amounts
        BY <1>4, RowBuilt DEF row, Money!Staking
    <2>2. Money!Moved(body[i]) = Money!Sum(row.outputs)
        BY <1>4, <2>1 DEF Money!Moved, Money!Staking
    <2>3. CASE row.outputs # <<>>
        BY <1>1, <2>2, <2>3 DEF Money!Shown
    <2>4. CASE row.outputs = <<>>
        <3>1. DOMAIN row.outputs = {}
            BY <2>4
        <3>2. SumOf(row.outputs, {}) = 0
            <4>1. IsFiniteSet({})
                BY FS_EmptySet
            <4>2. PICK it : IsSum(it, row.outputs, {}) /\ SumOf(row.outputs, {}) = it[{}]
                BY <4>1, SumSolves
            <4> QED
                BY <4>2 DEF IsSum
        <3>3. Money!Moved(body[i]) = 0
            BY <2>2, <3>1, <3>2, MoneySum
        <3> QED
            BY <1>1, <2>1, <2>4, <3>3, ShownIs
    <2> QED
        BY <2>3, <2>4
<1>5. CASE body[i].type \notin Money!Staking \union {"send", "multisend"}
    <2>1. row.amount = Undefined /\ row.outputs = <<>>
        BY <1>5, RowBuilt DEF row
    <2>2. Money!Moved(body[i]) = 0
        BY <1>5 DEF Money!Moved
    <2> QED
        BY <1>1, <2>1, <2>2, ShownIs
<1> QED
    BY <1>3, <1>4, <1>5 DEF Money!Staking

\* The closed page of a transaction has its messages, each with the amount of the first
\* withdrawal from its validator.
LEMMA PageShows ==
    ASSUME PayInv, v5.own, Money!Closed, DOMAIN v5.messages # {} \/ v5.auraTxId = 1
    PROVE  /\ Body \in MovingBodies
           /\ \E o \in Nat :
                  /\ DOMAIN v5.messages = {o + i : i \in 1..Len(Body)}
                  /\ \A i \in 1..Len(Body) : v5.messages[o + i] =
                         Money!WithAmount(Money!TxMessage(Money!BuildMsg(Body[i])), Claims)
<1>1. /\ v1.state \in {"saved", "executed"} /\ Body \in MovingBodies
      /\ v5.messages = Money!BuildMessages(Money!MsgsByTxId, Claims)
    BY DEF PayInv, PageInv, PageIsRead, RowsInv, Money!Closed
<1>2. PICK o \in Nat : SavedAt(o)
    BY <1>1 DEF PayInv, RowsInv
<1>3. {i \in 1..Len(v3) : v3[i].txId = 1} = Found(v3, OfTx)
    BY DEF PayInv, MoneyTyped, Found, OfTx
<1>4. /\ DOMAIN Money!MsgsByTxId = {o + i : i \in 1..Len(Body)}
      /\ \A i \in 1..Len(Body) :
             Money!MsgsByTxId[o + i] = Money!TxMessage(Money!BuildMsg(Body[i]))
    <2>1. Money!MsgsByTxId = [k \in Found(v3, OfTx) |-> Money!TxMessage(v3[k])]
        BY <1>3 DEF Money!MsgsByTxId
    <2> QED
        BY <1>2, <2>1 DEF SavedAt
<1>5. \A f, claims : /\ DOMAIN Money!BuildMessages(f, claims) = DOMAIN f
                     /\ \A k \in DOMAIN f :
                            Money!BuildMessages(f, claims)[k] = Money!WithAmount(f[k], claims)
    BY DEF Money!BuildMessages
<1>6. /\ DOMAIN v5.messages = {o + i : i \in 1..Len(Body)}
      /\ \A i \in 1..Len(Body) : v5.messages[o + i] =
             Money!WithAmount(Money!TxMessage(Money!BuildMsg(Body[i])), Claims)
    BY <1>1, <1>4, <1>5
<1> QED
    BY <1>1, <1>2, <1>6

LEMMA PageMessage ==
    ASSUME PayInv, v5.own, Body \in MovingBodies, NEW i \in 1..Len(Body), NEW m,
           m = Money!WithAmount(Money!TxMessage(Money!BuildMsg(Body[i])), Claims)
    PROVE  /\ m.typeUrl = Body[i].type /\ Money!Shown(m) \in Nat
           /\ Body[i].type # "withdraw" => Money!Shown(m) = Money!Moved(Body[i])
<1> DEFINE row == Money!BuildMsg(Body[i])
           msg == Money!TxMessage(row)
           found == Money!Withdrawals(Claims, msg.validatorAddress)
<1>1. /\ row \in MessageRows /\ row.typeUrl = Body[i].type
    BY RowBuilt DEF OfTx
<1>2. msg = [typeUrl |-> row.typeUrl, fromAddress |-> row.fromAddress, amount |-> row.amount,
             validatorAddress |-> row.validatorAddress, outputs |-> row.outputs]
    BY DEF Money!TxMessage
<1> HIDE DEF row
<1>3. msg.typeUrl = Body[i].type /\ msg.amount \in MaybeAmounts /\ msg.outputs \in Seq(Nat)
    BY <1>1, <1>2 DEF MessageRows
<1>4. CASE msg.typeUrl = "withdraw" /\ found # {}
    <2>1. m = [msg EXCEPT !.amount = Claims[Money!Min(found)].amount]
        BY <1>4 DEF Money!WithAmount, row
    <2>2. Claims[Money!Min(found)].amount \in Nat
        <3>1. v5.auraTxId \in {0, 1} /\ Len(v3) \in Nat
            BY DEF PayInv, PageInv, MoneyTyped
        <3>2. DOMAIN Claims \in SUBSET (1..Len(v3)) /\ \A k \in DOMAIN Claims : Claims[k].amount \in Nat
            BY <3>1, ClaimsAre DEF Claims, PayInv
        <3>3. found \in SUBSET (DOMAIN Claims)
            BY DEF Money!Withdrawals
        <3>4. Money!Min(found) = Min(found)
            BY DEF Money!Min, Min
        <3> HIDE DEF found
        <3>5. Min(found) \in found
            BY <1>4, <3>1, <3>2, <3>3, MinIsMember
        <3> QED
            BY <3>2, <3>3, <3>4, <3>5
    <2> DEFINE a == Claims[Money!Min(found)].amount
    <2> HIDE DEF a
    <2>3. m.typeUrl = msg.typeUrl /\ m.amount = a /\ m.outputs = msg.outputs
        BY <1>2, <2>1 DEF a
    <2>4. m.amount \in MaybeAmounts
        BY <2>2, <2>3 DEF a, MaybeAmounts
    <2> QED
        BY <1>3, <1>4, <2>3, <2>4, ShownIs
<1>5. CASE ~(msg.typeUrl = "withdraw" /\ found # {})
    <2>1. m = msg
        BY <1>5 DEF Money!WithAmount, row
    <2>2. Body[i].type # "withdraw" => Money!Shown(m) = Money!Moved(Body[i])
        BY <2>1, BuiltShows DEF row
    <2> QED
        BY <1>3, <2>1, <2>2, ShownIs
<1> QED
    BY <1>4, <1>5

LEMMA PayInvAgrees == PayInv => Money!AmountsAgree
<1> SUFFICES ASSUME PayInv, v5.own, Money!Closed, DOMAIN v5.messages # {}, v1.amount # Undefined,
                    Money!Total(Body) <= MaxSafe
             PROVE  Money!TxItem.finalAmount = Money!InPage - Money!Withdrawn(v5.messages)
    BY DEF Money!AmountsAgree, Body
<1> DEFINE D == DOMAIN v5.messages
           N == Len(Body)
           all == [k \in D |-> Money!Shown(v5.messages[k])]
           out == [k \in D |-> IF v5.messages[k].typeUrl = "withdraw"
                               THEN Money!Shown(v5.messages[k]) ELSE 0]
           diff == [k \in D |-> all[k] - out[k]]
           moved == [i \in 1..N |-> Money!Moved(Body[i])]
<1>1. PICK o \in Nat :
          /\ D = {o + i : i \in 1..N}
          /\ \A i \in 1..N : v5.messages[o + i] =
                 Money!WithAmount(Money!TxMessage(Money!BuildMsg(Body[i])), Claims)
    BY PageShows
<1>2. Body \in MovingBodies
    BY PageShows
<1>3. N \in Nat /\ \A i \in 1..N : moved[i] \in Nat
    BY <1>2, BodiesAre
<1>4. \A i \in 1..N :
          /\ v5.messages[o + i].typeUrl = Body[i].type /\ Money!Shown(v5.messages[o + i]) \in Nat
          /\ Body[i].type # "withdraw" => Money!Shown(v5.messages[o + i]) = Money!Moved(Body[i])
    BY <1>1, <1>2, PageMessage
<1>5. \A i \in 1..N : Body[i].type = "withdraw" => Money!Moved(Body[i]) = 0
    BY DEF Money!Moved, Money!Staking
<1>6. \A i \in 1..N : /\ o + i \in D /\ all[o + i] \in Int /\ out[o + i] \in Int
                      /\ diff[o + i] = moved[i]
    <2> SUFFICES ASSUME NEW i \in 1..N
                 PROVE  /\ o + i \in D /\ all[o + i] \in Int /\ out[o + i] \in Int
                        /\ all[o + i] - out[o + i] = moved[i]
        BY <1>1
    <2> DEFINE s == Money!Shown(v5.messages[o + i])
    <2>1. o + i \in D /\ all[o + i] = s /\ s \in Nat
          /\ out[o + i] = IF Body[i].type = "withdraw" THEN s ELSE 0
        BY <1>1, <1>4
    <2>2. moved[i] = IF Body[i].type = "withdraw" THEN 0 ELSE s
        BY <1>4, <1>5
    <2> HIDE DEF s, all, out, moved
    <2> QED
        BY <2>1, <2>2
<1>7. \A k \in D : all[k] \in Int /\ out[k] \in Int /\ diff[k] = all[k] - out[k]
    BY <1>1, <1>6
<1>8. Money!InPage = SumOf(all, D) /\ Money!Withdrawn(v5.messages) = SumOf(out, D)
      /\ Money!Total(Body) = SumOf(moved, 1..N)
    BY MoneySum DEF Money!InPage, Money!Withdrawn, Money!Total
<1> DEFINE h == [i \in 1..N |-> o + i]
<1>9. /\ \A i, j \in 1..N : h[i] = h[j] => i = j
      /\ D = {h[i] : i \in 1..N}
      /\ \A i \in 1..N : diff[h[i]] = moved[i]
    <2> HIDE DEF D, N, all, out, diff, moved
    <2>1. \A i \in 1..N : h[i] = o + i /\ i \in Int
        BY <1>3
    <2> HIDE DEF h
    <2>2. \A i, j \in 1..N : h[i] = h[j] => i = j
        BY <1>1, <2>1
    <2> QED
        BY <1>1, <1>6, <2>1, <2>2
<1> HIDE DEF D, N, all, out, diff, moved, h
<1>10. IsFiniteSet(D) /\ SumOf(moved, 1..N) = SumOf(diff, D)
    <2>1. IsFiniteSet(1..N)
        BY <1>3, IntervalOfLength
    <2>2. \A i \in 1..N : moved[i] \in Int
        BY <1>3
    <2> DEFINE S == 1..N
    <2>3. /\ \A i, j \in S : h[i] = h[j] => i = j
          /\ D = {h[i] : i \in S} /\ \A i \in S : diff[h[i]] = moved[i]
          /\ IsFiniteSet(S) /\ \A i \in S : moved[i] \in Int
        BY <1>9, <2>1, <2>2
    <2> HIDE DEF S
    <2>4. IsFiniteSet(D) /\ SumOf(moved, S) = SumOf(diff, D)
        BY <2>3, SumRenamed
    <2> QED
        BY <2>4 DEF S
<1>11. SumOf(diff, D) = SumOf(all, D) - SumOf(out, D)
    BY <1>7, <1>10, SumDifference
<1>12. Money!TxItem.finalAmount = v1.amount
    <2>1. v1.amount > 0 /\ v1.amount \in Nat
        BY DEF PayInv, MoneyTyped, RowsInv, MaybeAmounts
    <2>2. \A b : Money!Or(v1.amount, b) = v1.amount
        BY <2>1 DEF Money!Or
    <2>3. \A t, b, c : Money!Item(t, TRUE, v1.amount, b, c).finalAmount = v1.amount
        BY <2>2 DEF Money!Item
    <2>4. CASE v1.hash
        <3>1. Money!TxItem = Money!Item(v1.typeUrl, TRUE, v1.amount,
                                        (CHOOSE r \in v2 : r.id = 1).amount,
                                        (CHOOSE r \in v2 : r.id = 1).rewardAmount)
            BY <2>4 DEF Money!TxItem
        <3> QED
            BY <2>3, <3>1
    <2>5. CASE ~v1.hash
        BY <2>3, <2>5 DEF Money!TxItem
    <2> QED
        BY <2>4, <2>5
<1>13. v1.amount = Money!Total(Body)
    BY <1>2, TotalIs DEF PayInv, RowsInv
<1> QED
    BY <1>8, <1>10, <1>11, <1>12, <1>13

\* The rows of an executed transaction, as getMsgsByAuraTxId has them.
LEMMA ClaimsOf ==
    ASSUME PayInv, v5.auraTxId = 1, NEW p, NEW reward, PaidAt(p, reward)
    PROVE  /\ DOMAIN Claims = {p + i : i \in 1..Len(Body)}
           /\ \A i \in 1..Len(Body) :
                  Claims[p + i] = Money!TxMessage(Money!Executed(Body[i], reward[i]))
<1>1. {k \in 1..Len(v3) : 1 # 0 /\ v3[k].auraTxId = 1} = Found(v3, OfAura)
    BY DEF PayInv, MoneyTyped, Found, OfAura
<1>2. Claims = [k \in Found(v3, OfAura) |-> Money!TxMessage(v3[k])]
    BY <1>1 DEF Claims, Money!MsgsByAuraTxId
<1> QED
    BY <1>2 DEF PaidAt

AskedOnce ==
    \A i, j \in {k \in 1..Len(Body) : Body[k].type = "withdraw"} :
        Body[i].validator = Body[j].validator => i = j

\* A validator that is asked once has one withdrawal.
LEMMA OneWithdrawal ==
    ASSUME PayInv, v5.auraTxId = 1, Body \in MovingBodies, NEW p \in Nat, NEW reward,
           PaidAt(p, reward), AskedOnce,
           NEW i \in 1..Len(Body), Body[i].type = "withdraw", NEW m,
           m = Money!WithAmount(Money!TxMessage(Money!BuildMsg(Body[i])), Claims)
    PROVE  Money!Shown(m) = reward[i]
<1> DEFINE msg == Money!TxMessage(Money!BuildMsg(Body[i]))
           found == Money!Withdrawals(Claims, msg.validatorAddress)
<1>1. /\ DOMAIN Claims = {p + k : k \in 1..Len(Body)}
      /\ \A k \in 1..Len(Body) :
             /\ Claims[p + k].typeUrl = Body[k].type /\ Claims[p + k].fromAddress = Body[k].validator
             /\ Claims[p + k].amount = IF Money!Rewarding(Body[k]) THEN reward[k]
                                       ELSE Money!Moved(Body[k])
    <2>1. \A k \in 1..Len(Body) : reward[k] \in Rewards
        BY DEF PaidAt
    <2>2. \A r : /\ Money!TxMessage(r).typeUrl = r.typeUrl /\ Money!TxMessage(r).amount = r.amount
                 /\ Money!TxMessage(r).fromAddress = r.fromAddress
        BY DEF Money!TxMessage
    <2>3. /\ DOMAIN Claims = {p + k : k \in 1..Len(Body)}
          /\ \A k \in 1..Len(Body) :
                 Claims[p + k] = Money!TxMessage(Money!Executed(Body[k], reward[k]))
        BY ClaimsOf
    <2>4. \A k \in 1..Len(Body) :
              LET row == Money!Executed(Body[k], reward[k])
              IN  /\ row.typeUrl = Body[k].type /\ row.fromAddress = Body[k].validator
                  /\ row.amount = IF Money!Rewarding(Body[k]) THEN reward[k]
                                  ELSE Money!Moved(Body[k])
        BY <2>1, RowExecuted
    <2> QED
        BY <2>2, <2>3, <2>4
<1>2. msg.typeUrl = "withdraw" /\ msg.validatorAddress = Body[i].validator /\ msg.outputs = <<>>
    BY RowBuilt DEF Money!TxMessage
<1>3. found = {p + i}
    <2>1. found = {k \in DOMAIN Claims :
                      Claims[k].typeUrl = "withdraw" /\ Claims[k].fromAddress = Body[i].validator}
        BY <1>2 DEF Money!Withdrawals
    <2> HIDE DEF found
    <2>2. \A k \in 1..Len(Body) : p + k \in found <=>
              Body[k].type = "withdraw" /\ Body[k].validator = Body[i].validator
        BY <1>1, <2>1
    <2>3. \A x \in found : \E k \in 1..Len(Body) : x = p + k
        BY <1>1, <2>1
    <2> QED
        BY <2>2, <2>3 DEF AskedOnce
<1>4. Money!Min(found) = p + i
    BY <1>3 DEF Money!Min
<1> HIDE DEF found
<1>5. m = [msg EXCEPT !.amount = Claims[p + i].amount]
    BY <1>2, <1>3, <1>4 DEF Money!WithAmount, found
<1>6. Claims[p + i].amount = reward[i]
    BY <1>1 DEF Money!Rewarding
<1>7. reward[i] \in Nat
    BY PartsAssumption DEF PaidAt, Money!TxMessagesAssumption
<1> DEFINE row == Money!BuildMsg(Body[i])
<1>8. msg = [typeUrl |-> row.typeUrl, fromAddress |-> row.fromAddress, amount |-> row.amount,
             validatorAddress |-> row.validatorAddress, outputs |-> row.outputs]
    BY DEF Money!TxMessage
<1> HIDE DEF row, msg
<1>9. m.amount = reward[i] /\ m.outputs = <<>>
    BY <1>2, <1>5, <1>6, <1>8
<1> QED
    BY <1>7, <1>9, ShownIs

LEMMA PayInvShows == PayInv => Money!PaidIsShown
<1> SUFFICES ASSUME PayInv, v5.own, Money!Closed, v5.auraTxId = 1, AskedOnce, v4 <= MaxSafe
             PROVE  Money!Withdrawn(v5.messages) + v5.autoClaim = v4
    BY DEF Money!PaidIsShown, Body, AskedOnce
<1> DEFINE D == DOMAIN v5.messages
           C == DOMAIN Claims
           N == Len(Body)
           S == 1..N
           out == [k \in D |-> IF v5.messages[k].typeUrl = "withdraw"
                               THEN Money!Shown(v5.messages[k]) ELSE 0]
           auto == Claimed(Claims)
<1>0. v1.state = "executed" /\ v5.autoClaim = Money!CalculateAutoClaimAmount(Claims)
    BY DEF PayInv, PageInv, PageIsRead, Money!Closed
<1>1. PICK p \in Nat : \E r : PaidAt(p, r)
    BY <1>0 DEF PayInv, RowsInv
<1>2. PICK reward : PaidAt(p, reward)
    BY <1>1
<1>3. PICK o \in Nat :
          /\ D = {o + i : i \in S}
          /\ \A i \in S : v5.messages[o + i] =
                 Money!WithAmount(Money!TxMessage(Money!BuildMsg(Body[i])), Claims)
    BY PageShows
<1>4. Body \in MovingBodies
    BY PageShows
<1>5. N \in Nat /\ IsFiniteSet(S)
    BY <1>4, BodiesAre, IntervalOfLength
<1> DEFINE drawn == [i \in S |-> IF Body[i].type = "withdraw" THEN reward[i] ELSE 0]
           due == [i \in S |-> IF Money!Rewarding(Body[i]) THEN reward[i] ELSE 0]
           claimed == [i \in S |-> due[i] - drawn[i]]
<1>6. \A i \in S : reward[i] \in Nat
    BY <1>2, PartsAssumption DEF PaidAt, Money!TxMessagesAssumption
<1>7. \A i \in S : o + i \in D /\ out[o + i] = drawn[i]
    <2> SUFFICES ASSUME NEW i \in S PROVE o + i \in D /\ out[o + i] = drawn[i]
        OBVIOUS
    <2> DEFINE m == v5.messages[o + i]
    <2>1. o + i \in D /\ m = Money!WithAmount(Money!TxMessage(Money!BuildMsg(Body[i])), Claims)
        BY <1>3
    <2> HIDE DEF m
    <2>2. m.typeUrl = Body[i].type
        BY <1>4, <2>1, PageMessage
    <2>3. Body[i].type = "withdraw" => Money!Shown(m) = reward[i]
        BY <1>2, <1>4, <2>1, OneWithdrawal
    <2>4. out[o + i] = IF m.typeUrl = "withdraw" THEN Money!Shown(m) ELSE 0
        BY <2>1 DEF m
    <2> QED
        BY <2>1, <2>2, <2>3, <2>4
<1>8. \A i \in S : p + i \in C /\ auto[p + i] = claimed[i]
    <2>0. /\ C = {p + i : i \in S}
          /\ \A i \in S : Claims[p + i] = Money!TxMessage(Money!Executed(Body[i], reward[i]))
        BY <1>2, ClaimsOf
    <2> SUFFICES ASSUME NEW i \in S PROVE p + i \in C /\ auto[p + i] = due[i] - drawn[i]
        OBVIOUS
    <2> DEFINE c == Claims[p + i]
               type == Body[i].type
    <2>1. p + i \in C /\ c = Money!TxMessage(Money!Executed(Body[i], reward[i]))
        BY <2>0
    <2>2. /\ c.typeUrl = type
          /\ c.amount = IF type \in Money!Staking \union {"withdraw"} THEN reward[i]
                        ELSE Money!Moved(Body[i])
        <3> DEFINE row == Money!Executed(Body[i], reward[i])
        <3>1. /\ row.typeUrl = type
              /\ row.amount = IF type \in Money!Staking \union {"withdraw"} THEN reward[i]
                              ELSE Money!Moved(Body[i])
            BY <1>2, <1>4, RowExecuted DEF PaidAt, Money!Rewarding
        <3> HIDE DEF row
        <3>2. Money!TxMessage(row).typeUrl = row.typeUrl /\ Money!TxMessage(row).amount = row.amount
            BY DEF Money!TxMessage
        <3> QED
            BY <2>1, <3>1, <3>2 DEF row
    <2>3. auto[p + i] = IF c.typeUrl \in {"send", "multisend", "withdraw"} THEN 0 ELSE c.amount
        BY <2>1 DEF Claimed
    <2>4. reward[i] \in Nat
        BY <1>6
    <2>5. drawn[i] = IF type = "withdraw" THEN reward[i] ELSE 0
        OBVIOUS
    <2>6. due[i] = IF type \in Money!Staking \union {"withdraw"} THEN reward[i] ELSE 0
        BY DEF Money!Rewarding
    <2>8. type \notin Money!Staking \union {"send", "multisend"} => Money!Moved(Body[i]) = 0
        BY DEF Money!Moved
    <2> HIDE DEF c, type, auto, drawn, due
    <2> QED
        <3>1. CASE type = "withdraw"
            BY <2>1, <2>2, <2>3, <2>4, <2>5, <2>6, <3>1
        <3>2. CASE type \in Money!Staking
            BY <2>1, <2>2, <2>3, <2>4, <2>5, <2>6, <3>2 DEF Money!Staking
        <3>3. CASE type \in {"send", "multisend"}
            BY <2>1, <2>2, <2>3, <2>4, <2>5, <2>6, <3>3 DEF Money!Staking
        <3>4. CASE type \notin Money!Staking \union {"send", "multisend", "withdraw"}
            BY <2>1, <2>2, <2>3, <2>4, <2>5, <2>6, <2>8, <3>4
        <3> QED
            BY <3>1, <3>2, <3>3, <3>4
<1>9. \A i \in S : due[i] \in Int /\ drawn[i] \in Int /\ claimed[i] \in Int
                   /\ claimed[i] = due[i] - drawn[i]
    BY <1>6
<1>9a. \A i \in S : due[i] \in Nat /\ drawn[i] \in Nat
    BY <1>6
<1>10. /\ Money!Withdrawn(v5.messages) = SumOf(out, D)
       /\ SumOf(auto, C) <= MaxSafe => Money!CalculateAutoClaimAmount(Claims) = SumOf(auto, C)
    <2>1. Money!Withdrawn(v5.messages) = SumOf(out, D)
        BY MoneySum DEF Money!Withdrawn
    <2> QED
        BY <2>1, ClaimsAre DEF PayInv, Claims
<1>11. v4 = SumOf(due, S)
    BY <1>2, MoneySum DEF PaidAt
<1>12. C = {p + i : i \in S}
    BY <1>2, ClaimsOf
<1> DEFINE h == [i \in S |-> o + i]
           g == [i \in S |-> p + i]
<1>13. \A i \in S : h[i] = o + i /\ g[i] = p + i /\ i \in Int
    BY <1>5
<1> HIDE DEF D, C, out, auto, drawn, due, claimed, h, g
<1>14. \A i, j \in S : (h[i] = h[j] => i = j) /\ (g[i] = g[j] => i = j)
    BY <1>13
<1> HIDE DEF S
<1>15. D = {h[i] : i \in S} /\ C = {g[i] : i \in S}
    BY <1>3, <1>12, <1>13
<1>16. IsFiniteSet(D) /\ SumOf(drawn, S) = SumOf(out, D)
    <2>1. /\ \A i, j \in S : h[i] = h[j] => i = j
          /\ D = {h[i] : i \in S} /\ \A i \in S : out[h[i]] = drawn[i]
          /\ IsFiniteSet(S) /\ \A i \in S : drawn[i] \in Int
        BY <1>5, <1>7, <1>9, <1>13, <1>14, <1>15
    <2> QED
        BY <2>1, SumRenamed
<1>17. IsFiniteSet(C) /\ SumOf(claimed, S) = SumOf(auto, C)
    <2>1. /\ \A i, j \in S : g[i] = g[j] => i = j
          /\ C = {g[i] : i \in S} /\ \A i \in S : auto[g[i]] = claimed[i]
          /\ IsFiniteSet(S) /\ \A i \in S : claimed[i] \in Int
        BY <1>5, <1>8, <1>9, <1>13, <1>14, <1>15
    <2> QED
        BY <2>1, SumRenamed
<1>18. SumOf(claimed, S) = SumOf(due, S) - SumOf(drawn, S)
    BY <1>5, <1>9, SumDifference
<1>19. SumOf(due, S) \in Nat /\ SumOf(drawn, S) \in Nat
    BY <1>5, <1>9, <1>9a, SumIsNat
<1>21. SumOf(auto, C) = v4 - SumOf(out, D) /\ SumOf(auto, C) <= v4
    BY <1>11, <1>16, <1>17, <1>18, <1>19
<1>22. SumOf(auto, C) <= MaxSafe
    BY <1>11, <1>16, <1>19, <1>21, DoublesAre
<1> QED
    BY <1>0, <1>10, <1>11, <1>16, <1>19, <1>21, <1>22

LEMMA PayInvTyped == PayInv => Money!TypeOK
<1> SUFFICES ASSUME PayInv PROVE Money!TypeOK
    OBVIOUS
<1>1. \A k \in 1..Len(v3) : v3[k].amount \in MaybeAmounts /\ {v3[k].txId, v3[k].auraTxId} \subseteq 0..2
    <2>1. \A k \in 1..Len(v3) : v3[k] \in MessageRows
        BY DEF PayInv, MoneyTyped
    <2> QED
        BY <2>1 DEF MessageRows
<1> QED
    BY <1>1 DEF PayInv, MoneyTyped, MaybeAmounts, Money!MaybeAmount, Money!TypeOK
==============================================================================

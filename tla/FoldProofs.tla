----------------------------- MODULE FoldProofs -----------------------------
(***************************************************************************)
(* Sums over finite sets and sequences, and sorted arrays of numbers.      *)
(* MapThenSumSet and FoldSeq(+, 0, s) of the community modules are one     *)
(* recursive function over the subsets of a set; here it is shown to exist *)
(* and to depend on no order, and what the proofs about amounts, stakes,   *)
(* votes and keys need of it.                                              *)
(*                                                                         *)
(* A rule of induction is stated with a set in place of a predicate.       *)
(***************************************************************************)
EXTENDS Integers, Sequences, FiniteSets, FiniteSetsExt, SequencesExt, FiniteSetTheorems,
        WellFoundedInduction, TLAPS

-----------------------------------------------------------------------------
(* Induction. *)

LEMMA NatInductionInSet ==
    ASSUME NEW P \in SUBSET Nat, 0 \in P, \A n \in P : n + 1 \in P
    PROVE  P = Nat
<1> SUFFICES ASSUME Nat \ P # {} PROVE FALSE
    OBVIOUS
<1>1. PICK n \in Nat \ P : \A m \in Nat \ P : <<m, n>> \notin OpToRel(<, Nat)
    BY NatLessThanWellFounded, WFMin
<1>2. \A m \in Nat \ P : ~(m < n)
    BY <1>1 DEF OpToRel
<1>3. n # 0 /\ n - 1 \in Nat /\ n - 1 < n
    OBVIOUS
<1>4. n - 1 \in P
    BY <1>2, <1>3
<1>5. (n - 1) + 1 \in P
    BY <1>4
<1> QED
    BY <1>5

\* A property that a subset has once it has less by each of its members, all have.
LEMMA SubsetInductionInSet ==
    ASSUME NEW S, IsFiniteSet(S), NEW P \in SUBSET (SUBSET S),
           \A s \in SUBSET S : (\A x \in s : s \ {x} \in P) => s \in P
    PROVE  P = SUBSET S
<1> DEFINE Q == {n \in Nat : \A s \in SUBSET S : Cardinality(s) = n => s \in P}
<1>1. \A s \in SUBSET S : IsFiniteSet(s) /\ Cardinality(s) \in Nat
    BY FS_Subset, FS_CardinalityType
<1>2. 0 \in Q
    <2>1. \A s \in SUBSET S : Cardinality(s) = 0 => s = {}
        BY <1>1, FS_EmptySet
    <2> QED
        BY <2>1
<1>3. ASSUME NEW n \in Q PROVE n + 1 \in Q
    <2>1. ASSUME NEW s \in SUBSET S, Cardinality(s) = n + 1, NEW x \in s PROVE s \ {x} \in P
        <3>1. IsFiniteSet(s) /\ n \in Nat
            BY <1>1, <2>1
        <3>2. Cardinality(s \ {x}) = Cardinality(s) - 1
            BY <2>1, <3>1, FS_RemoveElement
        <3>3. Cardinality(s \ {x}) = n /\ s \ {x} \in SUBSET S
            BY <2>1, <3>1, <3>2
        <3> QED
            BY <3>3
    <2>2. n + 1 \in Nat
        OBVIOUS
    <2> QED
        BY <2>1, <2>2
<1>4. Q = Nat
    <2>1. Q \in SUBSET Nat
        OBVIOUS
    <2> HIDE DEF Q
    <2> QED
        BY <1>2, <1>3, <2>1, NatInductionInSet
<1> QED
    BY <1>1, <1>4

-----------------------------------------------------------------------------
(* Sums. *)

Pick(s) == CHOOSE x \in s : TRUE
IsSum(it, f, S) ==
    it = [s \in SUBSET S |-> IF s = {} THEN 0 ELSE f[Pick(s)] + it[s \ {Pick(s)}]]

\* The sum of f over S, as the folds compute it.
SumOf(f, S) == (CHOOSE it : IsSum(it, f, S))[S]

LEMMA FoldSeqIsSum ==
    ASSUME NEW s
    PROVE  FoldSeq(+, 0, s) = SumOf(s, DOMAIN s)
    BY DEF FoldSeq, FoldFunction, FoldFunctionOnSet, MapThenFoldSet, SumOf, IsSum, Pick

\* The recursion has a solution: one for the subsets with n members extends to those
\* with one more.
LEMMA SumExists ==
    ASSUME NEW S, IsFiniteSet(S), NEW f
    PROVE  \E it : IsSum(it, f, S)
<1> DEFINE Small(n) == {s \in SUBSET S : Cardinality(s) <= n}
           Body(it, s) == IF s = {} THEN 0 ELSE f[Pick(s)] + it[s \ {Pick(s)}]
           Solves(it, n) == it = [s \in Small(n) |-> Body(it, s)]
           Q == {n \in Nat : \E it : Solves(it, n)}
<1>0. \A s \in SUBSET S : IsFiniteSet(s) /\ Cardinality(s) \in Nat
    BY FS_Subset, FS_CardinalityType
<1>1. \A s \in SUBSET S : s # {} =>
          Pick(s) \in s /\ s \ {Pick(s)} \in SUBSET S /\ Cardinality(s \ {Pick(s)}) = Cardinality(s) - 1
    BY <1>0, FS_RemoveElement DEF Pick
<1>2. 0 \in Q
    <2>1. \A s \in Small(0) : s = {}
        BY <1>0, FS_EmptySet
    <2>2. Solves([s \in Small(0) |-> 0], 0)
        BY <2>1
    <2> QED
        BY <2>2
<1>3. ASSUME NEW n \in Q PROVE n + 1 \in Q
    <2>0. n \in Nat /\ n + 1 \in Nat
        OBVIOUS
    <2>1. PICK it : Solves(it, n)
        OBVIOUS
    <2> DEFINE new == [s \in Small(n + 1) |-> Body(it, s)]
    <2>2. \A s \in Small(n) : s \in Small(n + 1) /\ new[s] = it[s]
        <3>1. \A s \in Small(n) : s \in Small(n + 1)
            BY <1>0, <2>0
        <3>2. \A s \in Small(n) : it[s] = Body(it, s)
            BY <2>1
        <3> HIDE DEF Small, Body
        <3> QED
            BY <3>1, <3>2
    <2>3. \A s \in Small(n + 1) : s # {} => s \ {Pick(s)} \in Small(n)
        BY <1>0, <1>1, <2>0
    <2>4. \A s \in Small(n + 1) : Body(it, s) = Body(new, s)
        BY <2>2, <2>3
    <2>5. Solves(new, n + 1)
        BY <2>4
    <2> QED
        BY <2>0, <2>5
<1>4. Q = Nat
    <2>1. Q \in SUBSET Nat
        OBVIOUS
    <2> HIDE DEF Q
    <2> QED
        BY <1>2, <1>3, <2>1, NatInductionInSet
<1>5. PICK it : Solves(it, Cardinality(S))
    BY <1>0, <1>4
<1>6. Small(Cardinality(S)) = SUBSET S
    BY FS_Subset, <1>0
<1>7. IsSum(it, f, S)
    BY <1>5, <1>6 DEF IsSum
<1> QED
    BY <1>7

LEMMA SumType ==
    ASSUME NEW S, IsFiniteSet(S), NEW f, \A x \in S : f[x] \in Int, NEW it, IsSum(it, f, S)
    PROVE  \A s \in SUBSET S : it[s] \in Int
<1> DEFINE P == {s \in SUBSET S : it[s] \in Int}
<1>1. ASSUME NEW s \in SUBSET S, \A x \in s : s \ {x} \in P PROVE s \in P
    <2>1. s # {} => Pick(s) \in s /\ it[s] = f[Pick(s)] + it[s \ {Pick(s)}]
        BY DEF IsSum, Pick
    <2>2. s = {} => it[s] = 0
        BY DEF IsSum
    <2>3. ASSUME s # {} PROVE f[Pick(s)] \in Int /\ it[s \ {Pick(s)}] \in Int
        BY <1>1, <2>1, <2>3
    <2>4. it[s] \in Int
        BY <2>1, <2>2, <2>3
    <2> QED
        BY <2>4
<1>2. P = SUBSET S
    <2>1. P \in SUBSET (SUBSET S)
        OBVIOUS
    <2> HIDE DEF P
    <2> QED
        BY <1>1, <2>1, SubsetInductionInSet
<1> QED
    BY <1>2

\* What a sum is of smaller sums, whatever order the recursion takes.
LEMMA SumStep ==
    ASSUME NEW S, IsFiniteSet(S), NEW f, \A x \in S : f[x] \in Int, NEW it, IsSum(it, f, S)
    PROVE  \A s \in SUBSET S : /\ it[s] \in Int /\ (s = {} => it[s] = 0)
                               /\ \A x \in s : it[s] = f[x] + it[s \ {x}]
<1> DEFINE Good(s) == /\ it[s] \in Int /\ (s = {} => it[s] = 0)
                      /\ \A x \in s : it[s] = f[x] + it[s \ {x}]
           P == {s \in SUBSET S : Good(s)}
<1>0. \A s \in SUBSET S : it[s] \in Int
    BY SumType
<1>1. ASSUME NEW s \in SUBSET S, \A x \in s : s \ {x} \in P PROVE s \in P
    <2>1. CASE s = {}
        BY <2>1 DEF IsSum
    <2>2. CASE s # {}
        <3> DEFINE y == Pick(s)
        <3>1. y \in s /\ it[s] = f[y] + it[s \ {y}]
            BY <2>2 DEF IsSum, Pick
        <3> HIDE DEF y
        <3>2. it[s \ {y}] \in Int /\ f[y] \in Int
            BY <1>1, <3>1
        <3>3. ASSUME NEW x \in s PROVE it[s] = f[x] + it[s \ {x}]
            <4>1. CASE x = y
                BY <3>1, <4>1
            <4>2. CASE x # y
                <5>1. it[s \ {y}] = f[x] + it[(s \ {y}) \ {x}]
                    BY <1>1, <3>1, <4>2
                <5>2. it[s \ {x}] = f[y] + it[(s \ {x}) \ {y}]
                    BY <1>1, <3>1, <4>2
                <5>3. (s \ {y}) \ {x} = (s \ {x}) \ {y}
                    OBVIOUS
                <5>4. it[s \ {x}] \in Int /\ f[x] \in Int
                    BY <1>1
                <5>5. it[(s \ {x}) \ {y}] \in Int
                    BY <1>0
                <5> QED
                    <6>1. it[s] = f[y] + (f[x] + it[(s \ {x}) \ {y}])
                        BY <3>1, <5>1, <5>3
                    <6> QED
                        BY <3>2, <5>2, <5>5, <6>1
            <4> QED
                BY <4>1, <4>2
        <3> QED
            BY <2>2, <3>1, <3>2, <3>3
    <2> QED
        BY <2>1, <2>2
<1>2. P = SUBSET S
    <2>1. P \in SUBSET (SUBSET S)
        OBVIOUS
    <2> HIDE DEF P
    <2> QED
        BY <1>1, <2>1, SubsetInductionInSet
<1> QED
    BY <1>2

SumsUp(it, f, S) ==
    \A s \in SUBSET S : /\ it[s] \in Int /\ (s = {} => it[s] = 0)
                        /\ \A x \in s : it[s] = f[x] + it[s \ {x}]

LEMMA SumSumsUp ==
    ASSUME NEW S, IsFiniteSet(S), NEW f, \A x \in S : f[x] \in Int, NEW it, IsSum(it, f, S)
    PROVE  SumsUp(it, f, S)
    BY SumStep DEF SumsUp

\* Equal summands, equal sums; also for a function of the members written out.
LEMMA SumIsUnique ==
    ASSUME NEW S, IsFiniteSet(S), NEW f, NEW g, \A x \in S : f[x] = g[x],
           NEW it, IsSum(it, f, S)
    PROVE  IsSum(it, g, S)
<1>1. \A s \in SUBSET S : s # {} => f[Pick(s)] = g[Pick(s)]
    BY DEF Pick
<1> QED
    BY <1>1 DEF IsSum

\* Summing over the images of a one-to-one map sums the same.
LEMMA SumOfImages ==
    ASSUME NEW S, IsFiniteSet(S), NEW f, \A x \in S : f[x] \in Int,
           NEW h, \A x, y \in S : h[x] = h[y] => x = y,
           NEW T, T = {h[x] : x \in S}, IsFiniteSet(T),
           NEW g, \A x \in S : g[h[x]] = f[x],
           NEW itS, IsSum(itS, f, S), NEW itT, IsSum(itT, g, T)
    PROVE  itS[S] = itT[T]
<1> DEFINE Img(s) == {h[x] : x \in s}
           P == {s \in SUBSET S : itS[s] = itT[Img(s)]}
<1>0. \A y \in T : g[y] \in Int
    OBVIOUS
<1>1. ASSUME NEW s \in SUBSET S, \A x \in s : s \ {x} \in P PROVE s \in P
    <2>1. Img(s) \in SUBSET T
        OBVIOUS
    <2>2. CASE s = {}
        BY <1>0, <2>1, <2>2, SumStep
    <2>3. ASSUME NEW x \in s PROVE itS[s] = itT[Img(s)]
        <3>1. itS[s] = f[x] + itS[s \ {x}]
            BY SumStep
        <3>2. h[x] \in Img(s)
            OBVIOUS
        <3>3. itT[Img(s)] = g[h[x]] + itT[Img(s) \ {h[x]}]
            BY <1>0, <2>1, <3>2, SumStep
        <3>4. Img(s) \ {h[x]} = Img(s \ {x})
            OBVIOUS
        <3>5. itS[s \ {x}] = itT[Img(s \ {x})]
            BY <1>1
        <3> QED
            BY <3>1, <3>3, <3>4, <3>5
    <2> QED
        BY <2>2, <2>3
<1>2. P = SUBSET S
    <2>1. P \in SUBSET (SUBSET S)
        OBVIOUS
    <2> HIDE DEF P
    <2> QED
        BY <1>1, <2>1, SubsetInductionInSet
<1> QED
    BY <1>2

\* Members that add nothing can be left out.
LEMMA SumWithoutZeros ==
    ASSUME NEW S, IsFiniteSet(S), NEW f, \A x \in S : f[x] \in Int,
           NEW T \in SUBSET S, \A x \in S \ T : f[x] = 0,
           NEW itS, IsSum(itS, f, S), NEW itT, IsSum(itT, f, T)
    PROVE  itS[S] = itT[T]
<1> DEFINE P == {s \in SUBSET S : itS[s] = itT[s \cap T]}
<1>0. IsFiniteSet(T)
    BY FS_Subset
<1>1. ASSUME NEW s \in SUBSET S, \A x \in s : s \ {x} \in P PROVE s \in P
    <2>1. CASE s = {}
        BY <1>0, <2>1, SumStep
    <2>2. ASSUME NEW x \in s PROVE itS[s] = itT[s \cap T]
        <3>1. itS[s] = f[x] + itS[s \ {x}] /\ itS[s \ {x}] = itT[(s \ {x}) \cap T]
            BY <1>1, SumStep
        <3>2. CASE x \in T
            <4>1. (s \ {x}) \cap T = (s \cap T) \ {x} /\ s \cap T \in SUBSET T /\ x \in s \cap T
                BY <3>2
            <4>2. itT[s \cap T] = f[x] + itT[(s \cap T) \ {x}]
                BY <1>0, <4>1, SumStep
            <4> QED
                BY <3>1, <4>1, <4>2
        <3>3. CASE x \notin T
            <4>1. (s \ {x}) \cap T = s \cap T /\ f[x] = 0
                BY <3>3
            <4>2. itS[s \ {x}] \in Int
                BY SumType
            <4>3. itT[(s \ {x}) \cap T] = itT[s \cap T]
                BY <4>1
            <4>4. itS[s] = itS[s \ {x}]
                BY <3>1, <4>1, <4>2
            <4> QED
                BY <3>1, <4>3, <4>4
        <3> QED
            BY <3>2, <3>3
    <2> QED
        BY <2>1, <2>2
<1>2. P = SUBSET S
    <2>1. P \in SUBSET (SUBSET S)
        OBVIOUS
    <2> HIDE DEF P
    <2> QED
        BY <1>1, <2>1, SubsetInductionInSet
<1>3. S \cap T = T
    OBVIOUS
<1> QED
    BY <1>2, <1>3

\* The sum of differences is the difference of sums.
LEMMA SumOfDifferences ==
    ASSUME NEW S, IsFiniteSet(S), NEW f, NEW g, NEW d,
           \A x \in S : f[x] \in Int /\ g[x] \in Int /\ d[x] = f[x] - g[x],
           NEW itF, IsSum(itF, f, S), NEW itG, IsSum(itG, g, S), NEW itD, IsSum(itD, d, S)
    PROVE  itD[S] = itF[S] - itG[S]
<1> DEFINE P == {s \in SUBSET S : itD[s] = itF[s] - itG[s]}
<1>0. \A s \in SUBSET S : itF[s] \in Int /\ itG[s] \in Int
    BY SumType
<1>1. ASSUME NEW s \in SUBSET S, \A x \in s : s \ {x} \in P PROVE s \in P
    <2>1. CASE s = {}
        <3>1. itF[s] = 0 /\ itG[s] = 0 /\ itD[s] = 0
            BY <2>1 DEF IsSum
        <3> QED
            BY <3>1
    <2>2. ASSUME NEW x \in s PROVE itD[s] = itF[s] - itG[s]
        <3>1. \A y \in S : d[y] \in Int
            OBVIOUS
        <3>2. itD[s] = d[x] + itD[s \ {x}]
            BY <3>1, SumStep
        <3>3. itF[s] = f[x] + itF[s \ {x}] /\ itG[s] = g[x] + itG[s \ {x}]
            BY SumStep
        <3>4. itD[s \ {x}] = itF[s \ {x}] - itG[s \ {x}]
            BY <1>1
        <3>5. itF[s \ {x}] \in Int /\ itG[s \ {x}] \in Int
            BY <1>0
        <3> QED
            BY <3>2, <3>3, <3>4, <3>5
    <2> QED
        BY <2>1, <2>2
<1>2. P = SUBSET S
    <2>1. P \in SUBSET (SUBSET S)
        OBVIOUS
    <2> HIDE DEF P
    <2> QED
        BY <1>1, <2>1, SubsetInductionInSet
<1> QED
    BY <1>2

\* The sums of the community modules, as solutions of the recursion.
LEMMA SumSolves ==
    ASSUME NEW S, IsFiniteSet(S), NEW f
    PROVE  \E it : IsSum(it, f, S) /\ SumOf(f, S) = it[S]
    BY SumExists DEF SumOf

LEMMA SumFacts ==
    ASSUME NEW S, IsFiniteSet(S), NEW f, \A x \in S : f[x] \in Int
    PROVE  SumOf(f, S) \in Int
<1>1. PICK it : IsSum(it, f, S) /\ SumOf(f, S) = it[S]
    BY SumSolves
<1> QED
    BY <1>1, SumType

LEMMA SumsAreNat ==
    ASSUME NEW S, IsFiniteSet(S), NEW f, \A x \in S : f[x] \in Nat, NEW it, IsSum(it, f, S)
    PROVE  \A s \in SUBSET S : it[s] \in Nat
<1> DEFINE P == {s \in SUBSET S : it[s] \in Nat}
<1>1. ASSUME NEW s \in SUBSET S, \A x \in s : s \ {x} \in P PROVE s \in P
    <2>1. CASE s = {}
        BY <2>1, SumStep
    <2>2. ASSUME NEW x \in s PROVE it[s] \in Nat
        <3>1. it[s] = f[x] + it[s \ {x}] /\ it[s \ {x}] \in Nat /\ f[x] \in Nat
            BY <1>1, SumStep
        <3> QED
            BY <3>1
    <2> QED
        BY <2>1, <2>2
<1>2. P = SUBSET S
    <2>1. P \in SUBSET (SUBSET S)
        OBVIOUS
    <2> HIDE DEF P
    <2> QED
        BY <1>1, <2>1, SubsetInductionInSet
<1> QED
    BY <1>2

\* A sum of naturals, which is no less than any of them.
LEMMA SumIsNat ==
    ASSUME NEW S, IsFiniteSet(S), NEW f, \A x \in S : f[x] \in Nat
    PROVE  SumOf(f, S) \in Nat /\ \A x \in S : f[x] <= SumOf(f, S)
<1>1. PICK it : IsSum(it, f, S) /\ SumOf(f, S) = it[S]
    BY SumSolves
<1>2. \A s \in SUBSET S : it[s] \in Nat
    BY <1>1, SumsAreNat
<1>3. ASSUME NEW x \in S PROVE f[x] <= it[S]
    <2>1. it[S] = f[x] + it[S \ {x}] /\ it[S \ {x}] \in Nat /\ f[x] \in Nat
        BY <1>1, <1>2, SumStep
    <2> QED
        BY <2>1
<1> QED
    BY <1>1, <1>2, <1>3

\* The same summands under other names, as SumOf.
LEMMA SumRenamed ==
    ASSUME NEW S, IsFiniteSet(S), NEW f, \A x \in S : f[x] \in Int,
           NEW h, \A x, y \in S : h[x] = h[y] => x = y,
           NEW T, T = {h[x] : x \in S}, NEW g, \A x \in S : g[h[x]] = f[x]
    PROVE  IsFiniteSet(T) /\ SumOf(f, S) = SumOf(g, T)
<1>1. [x \in S |-> h[x]] \in Surjection(S, T)
    BY DEF Surjection
<1>2. IsFiniteSet(T)
    BY <1>1, FS_Surjection
<1>3. PICK itS : IsSum(itS, f, S) /\ SumOf(f, S) = itS[S]
    BY SumSolves
<1>4. PICK itT : IsSum(itT, g, T) /\ SumOf(g, T) = itT[T]
    BY <1>2, SumSolves
<1>5. itS[S] = itT[T]
    BY <1>2, <1>3, <1>4, SumOfImages
<1> QED
    BY <1>2, <1>3, <1>4, <1>5

LEMMA SumDifference ==
    ASSUME NEW S, IsFiniteSet(S), NEW f, NEW g, NEW d,
           \A x \in S : f[x] \in Int /\ g[x] \in Int /\ d[x] = f[x] - g[x]
    PROVE  SumOf(d, S) = SumOf(f, S) - SumOf(g, S)
<1>1. PICK itF : IsSum(itF, f, S) /\ SumOf(f, S) = itF[S]
    BY SumSolves
<1>2. PICK itG : IsSum(itG, g, S) /\ SumOf(g, S) = itG[S]
    BY SumSolves
<1>3. PICK itD : IsSum(itD, d, S) /\ SumOf(d, S) = itD[S]
    BY SumSolves
<1> QED
    BY <1>1, <1>2, <1>3, SumOfDifferences

-----------------------------------------------------------------------------
(* Folds from the left. *)

\* it computes a fold of g over the subsets of S, each from the result without the
\* member that last picks.
IsFold(it, g, base, last, S) ==
    it = [s \in SUBSET S |-> IF s = {} THEN base ELSE g[<<last[s], it[s \ {last[s]}]>>]]

\* A fold that stays within V exists.
LEMMA FoldExists ==
    ASSUME NEW S, IsFiniteSet(S), NEW last, \A s \in SUBSET S : s # {} => last[s] \in s,
           NEW V, NEW base \in V, NEW g, \A x \in S, v \in V : g[<<x, v>>] \in V
    PROVE  \E it \in [SUBSET S -> V] : IsFold(it, g, base, last, S)
<1> DEFINE Small(n) == {s \in SUBSET S : Cardinality(s) <= n}
           Rest(s) == s \ {last[s]}
           Body(it, s) == IF s = {} THEN base ELSE g[<<last[s], it[Rest(s)]>>]
           Solves(it, n) == it \in [Small(n) -> V] /\ \A s \in Small(n) : it[s] = Body(it, s)
           Q == {n \in Nat : \E it : Solves(it, n)}
<1>0. \A s \in SUBSET S : IsFiniteSet(s) /\ Cardinality(s) \in Nat
    BY FS_Subset, FS_CardinalityType
<1>1. \A s \in SUBSET S : s # {} =>
          last[s] \in s /\ Rest(s) \in SUBSET S /\ Cardinality(Rest(s)) = Cardinality(s) - 1
    BY <1>0, FS_RemoveElement
<1>2. 0 \in Q
    <2>1. \A s \in Small(0) : s = {}
        BY <1>0, FS_EmptySet
    <2>2. Solves([s \in Small(0) |-> base], 0)
        BY <2>1
    <2> QED
        BY <2>2
<1>3. ASSUME NEW n \in Q PROVE n + 1 \in Q
    <2>0. n \in Nat /\ n + 1 \in Nat
        OBVIOUS
    <2>1. PICK it : Solves(it, n)
        OBVIOUS
    <2> DEFINE new == [s \in Small(n + 1) |-> Body(it, s)]
    <2>2. \A s \in Small(n + 1) : s # {} => last[s] \in S /\ Rest(s) \in Small(n)
        BY <1>0, <1>1, <2>0
    <2>3. \A s \in Small(n) : s \in Small(n + 1) /\ it[s] = Body(it, s) /\ it[s] \in V
        BY <1>0, <2>0, <2>1
    <2> HIDE DEF Small, Rest
    <2>4. \A s \in Small(n + 1) : Body(it, s) \in V
        BY <2>2, <2>3
    <2>5. \A s \in Small(n) : new[s] = it[s]
        BY <2>3
    <2>6. \A s \in Small(n + 1) : new[s] = Body(new, s)
        BY <2>2, <2>5
    <2>7. Solves(new, n + 1)
        BY <2>4, <2>6
    <2> QED
        BY <2>0, <2>7
<1>4. Q = Nat
    <2>1. Q \in SUBSET Nat
        OBVIOUS
    <2> HIDE DEF Q
    <2> QED
        BY <1>2, <1>3, <2>1, NatInductionInSet
<1>5. PICK it : Solves(it, Cardinality(S))
    BY <1>0, <1>4
<1>6. Small(Cardinality(S)) = SUBSET S
    BY FS_Subset, <1>0
<1>7. it \in [SUBSET S -> V] /\ IsFold(it, g, base, last, S)
    BY <1>5, <1>6 DEF IsFold
<1> QED
    BY <1>7

\* The last index of a prefix.
LEMMA MaxOfPrefix ==
    ASSUME NEW n \in Nat \ {0}
    PROVE  Max(1..n) = n /\ (1..n) \ {n} = 1..(n - 1)
<1>1. n \in 1..n /\ \A y \in 1..n : n >= y
    OBVIOUS
<1>2. \A x \in 1..n : (\A y \in 1..n : x >= y) => x = n
    BY <1>1
<1> QED
    BY <1>1, <1>2 DEF Max

LEMMA MaxIsMember ==
    ASSUME NEW n \in Nat, NEW s \in SUBSET (1..n), s # {}
    PROVE  Max(s) \in s
<1> DEFINE P == {k \in Nat : s \cap (1..k) # {} => \E x \in s : \A y \in s \cap (1..k) : x >= y}
<1>1. 0 \in P
    OBVIOUS
<1>2. ASSUME NEW k \in P PROVE k + 1 \in P
    <2>1. CASE k + 1 \in s
        BY <2>1
    <2>2. CASE k + 1 \notin s
        <3>1. s \cap (1..(k + 1)) = s \cap (1..k)
            BY <2>2
        <3> QED
            BY <3>1
    <2> QED
        BY <2>1, <2>2
<1>3. P = Nat
    <2>1. P \in SUBSET Nat
        OBVIOUS
    <2> HIDE DEF P
    <2> QED
        BY <1>1, <1>2, <2>1, NatInductionInSet
<1>4. n \in P /\ s \cap (1..n) = s
    BY <1>3
<1> QED
    BY <1>4 DEF Max

LEMMA MinIsMember ==
    ASSUME NEW s \in SUBSET Nat, s # {}
    PROVE  Min(s) \in s
<1>1. PICK x \in s : \A y \in s : <<y, x>> \notin OpToRel(<, Nat)
    BY NatLessThanWellFounded, WFMin
<1>2. \A y \in s : ~(y < x)
    BY <1>1 DEF OpToRel
<1>3. \A y \in s : x <= y
    BY <1>2
<1> QED
    BY <1>3 DEF Min

-----------------------------------------------------------------------------
(* Sums of a few numbers. *)

Ints(f, n) == f \in [1..n -> Int]

Upto(I, n) == I = 1..n

LEMMA UptoIsFinite ==
    ASSUME NEW n \in Nat, NEW I, Upto(I, n)
    PROVE  IsFiniteSet(I)
<1>1. 1 \in Int /\ n \in Int
    OBVIOUS
<1> QED
    BY <1>1, FS_Interval DEF Upto

SumsPrefixes(it, f, n) == it[1..0] = 0 /\ \A k \in 1..n : it[1..k] = f[k] + it[1..(k - 1)]

LEMMA SumOfPrefix ==
    ASSUME NEW n \in Nat, NEW I, Upto(I, n), NEW f, Ints(f, n), NEW it, IsSum(it, f, I)
    PROVE  SumsPrefixes(it, f, n)
<1>1. \A x \in I : f[x] \in Int
    BY DEF Ints, Upto
<1>2. IsFiniteSet(I)
    BY UptoIsFinite
<1>3. SumsUp(it, f, I)
    BY <1>1, <1>2, SumSumsUp
<1>4. 1..0 = {} /\ {} \in SUBSET I
    OBVIOUS
<1>5. it[1..0] = 0
    BY <1>3, <1>4 DEF SumsUp
<1>6. ASSUME NEW k \in 1..n PROVE it[1..k] = f[k] + it[1..(k - 1)]
    <2>1. 1..k \in SUBSET I /\ k \in 1..k /\ (1..k) \ {k} = 1..(k - 1)
        BY DEF Upto
    <2>2. it[1..k] = f[k] + it[(1..k) \ {k}]
        BY <1>3, <2>1 DEF SumsUp
    <2> QED
        BY <2>1, <2>2
<1> QED
    BY <1>5, <1>6 DEF SumsPrefixes

LEMMA SumOfThree ==
    ASSUME NEW f, Ints(f, 3)
    PROVE  SumOf(f, 1..3) = f[1] + f[2] + f[3]
<1> DEFINE I == 1..3
<1>1. Upto(I, 3) /\ 3 \in Nat
    BY DEF Upto
<1> HIDE DEF I
<1>2. PICK it : IsSum(it, f, I) /\ SumOf(f, I) = it[I]
    BY <1>1, UptoIsFinite, SumSolves
<1>3. SumsPrefixes(it, f, 3)
    BY <1>1, <1>2, SumOfPrefix
<1>4. f[1] \in Int /\ f[2] \in Int /\ f[3] \in Int
    BY DEF Ints
<1>5. /\ it[1..1] = f[1] + it[1..0] /\ it[1..2] = f[2] + it[1..1]
      /\ it[1..3] = f[3] + it[1..2]
    BY <1>3 DEF SumsPrefixes
<1>6. SumOf(f, 1..3) = it[1..3]
    BY <1>2 DEF I
<1> QED
    BY <1>3, <1>4, <1>5, <1>6 DEF SumsPrefixes

LEMMA SumOfFour ==
    ASSUME NEW f, Ints(f, 4)
    PROVE  SumOf(f, 1..4) = f[1] + f[2] + f[3] + f[4]
<1> DEFINE I == 1..4
<1>1. Upto(I, 4) /\ 4 \in Nat
    BY DEF Upto
<1> HIDE DEF I
<1>2. PICK it : IsSum(it, f, I) /\ SumOf(f, I) = it[I]
    BY <1>1, UptoIsFinite, SumSolves
<1>3. SumsPrefixes(it, f, 4)
    BY <1>1, <1>2, SumOfPrefix
<1>4. f[1] \in Int /\ f[2] \in Int /\ f[3] \in Int /\ f[4] \in Int
    BY DEF Ints
<1>5. /\ it[1..1] = f[1] + it[1..0] /\ it[1..2] = f[2] + it[1..1]
      /\ it[1..3] = f[3] + it[1..2] /\ it[1..4] = f[4] + it[1..3]
    BY <1>3 DEF SumsPrefixes
<1>6. SumOf(f, 1..4) = it[1..4]
    BY <1>2 DEF I
<1> QED
    BY <1>3, <1>4, <1>5, <1>6 DEF SumsPrefixes

-----------------------------------------------------------------------------
(* Shares of a total in hundredths of a percent, rounded. *)

LEMMA QuotientBounds ==
    ASSUME NEW a \in Nat, NEW b \in Nat \ {0}
    PROVE  a \div b \in Nat /\ b * (a \div b) <= a /\ a < b * (a \div b) + b
    OBVIOUS

Share(v, t) == (2 * 10000 * v + t) \div (2 * t)

\* p is v / t in hundredths of a percent, up to half a hundredth.
ShareIs(p, v, t) ==
    p \in Nat /\ 2 * (t * p) <= 20000 * v + t /\ 20000 * v - t < 2 * (t * p)

LEMMA ShareBounds ==
    ASSUME NEW v \in Nat, NEW t \in Nat \ {0}
    PROVE  ShareIs(Share(v, t), v, t)
<1> DEFINE a == 2 * 10000 * v + t
           b == 2 * t
           q == a \div b
<1>1. a \in Nat /\ b \in Nat \ {0} /\ a = 20000 * v + t
    OBVIOUS
<1> HIDE DEF a, b
<1>2. q \in Nat /\ b * q <= a /\ a < b * q + b
    BY <1>1, QuotientBounds
<1>3. q = Share(v, t)
    BY DEF a, b, Share
<1> HIDE DEF q
<1>4. b * q = 2 * (t * q) /\ t * q \in Int
    BY <1>2 DEF b
<1>5. b = 2 * t
    BY DEF b
<1> QED
    BY <1>1, <1>2, <1>3, <1>4, <1>5 DEF ShareIs

LEMMA ShareGrows ==
    ASSUME NEW v \in Nat, NEW w \in Nat, v <= w, NEW t \in Nat \ {0}
    PROVE  Share(v, t) <= Share(w, t)
<1>1. ASSUME NEW a \in Nat, NEW b \in Nat, a <= b, NEW c \in Nat \ {0} PROVE a \div c <= b \div c
    BY <1>1
<1>2. 2 * 10000 * v + t \in Nat /\ 2 * 10000 * w + t \in Nat /\ 2 * t \in Nat \ {0}
      /\ 2 * 10000 * v + t <= 2 * 10000 * w + t
    OBVIOUS
<1> QED
    BY <1>1, <1>2 DEF Share

LEMMA LessFactor ==
    ASSUME NEW t \in Nat \ {0}, NEW p \in Int, NEW c \in Int, t * p < t * c
    PROVE  p < c
    OBVIOUS

\* The shares of three or four numbers add up to 100 percent, up to half a hundredth each.
ThreeAddUp(a, b, c, t) ==
    a + b + c = t => Share(a, t) + Share(b, t) + Share(c, t) \in 9998..10002

LEMMA ThreeShares ==
    ASSUME NEW a \in Nat, NEW b \in Nat, NEW c \in Nat, NEW t \in Nat \ {0}
    PROVE  ThreeAddUp(a, b, c, t)
<1> DEFINE p == Share(a, t)
           q == Share(b, t)
           r == Share(c, t)
<1>0. ShareIs(p, a, t) /\ ShareIs(q, b, t) /\ ShareIs(r, c, t)
    BY ShareBounds
<1> SUFFICES ASSUME a + b + c = t PROVE p + q + r \in 9998..10002
    BY DEF ThreeAddUp
<1> HIDE DEF p, q, r
<1>1. p \in Nat /\ q \in Nat /\ r \in Nat
    BY <1>0 DEF ShareIs
<1>2. /\ 2 * (t * p) <= 20000 * a + t /\ 20000 * a - t < 2 * (t * p)
      /\ 2 * (t * q) <= 20000 * b + t /\ 20000 * b - t < 2 * (t * q)
      /\ 2 * (t * r) <= 20000 * c + t /\ 20000 * c - t < 2 * (t * r)
    BY <1>0 DEF ShareIs
<1>3. t * p \in Int /\ t * q \in Int /\ t * r \in Int
    BY <1>1
<1>4. t * (p + q + r) = t * p + t * q + t * r
    BY <1>1
<1>5. t * (p + q + r) < t * 10003 /\ t * 9997 < t * (p + q + r)
    BY <1>2, <1>3, <1>4
<1>6. p + q + r < 10003 /\ 9997 < p + q + r
    BY <1>1, <1>5, LessFactor
<1> QED
    BY <1>1, <1>6

LEMMA FourShares ==
    ASSUME NEW a \in Nat, NEW b \in Nat, NEW c \in Nat, NEW d \in Nat, NEW t \in Nat \ {0}
    PROVE  a + b + c + d = t =>
               Share(a, t) + Share(b, t) + Share(c, t) + Share(d, t) \in 9998..10002
<1> DEFINE p == Share(a, t)
           q == Share(b, t)
           r == Share(c, t)
           s == Share(d, t)
<1>0. ShareIs(p, a, t) /\ ShareIs(q, b, t) /\ ShareIs(r, c, t) /\ ShareIs(s, d, t)
    BY ShareBounds
<1> SUFFICES ASSUME a + b + c + d = t PROVE p + q + r + s \in 9998..10002
    OBVIOUS
<1> HIDE DEF p, q, r, s
<1>1. p \in Nat /\ q \in Nat /\ r \in Nat /\ s \in Nat
    BY <1>0 DEF ShareIs
<1>2. /\ 2 * (t * p) <= 20000 * a + t /\ 20000 * a - t < 2 * (t * p)
      /\ 2 * (t * q) <= 20000 * b + t /\ 20000 * b - t < 2 * (t * q)
      /\ 2 * (t * r) <= 20000 * c + t /\ 20000 * c - t < 2 * (t * r)
      /\ 2 * (t * s) <= 20000 * d + t /\ 20000 * d - t < 2 * (t * s)
    BY <1>0 DEF ShareIs
<1>3. t * p \in Int /\ t * q \in Int /\ t * r \in Int /\ t * s \in Int
    BY <1>1
<1>4. t * (p + q + r + s) = t * p + t * q + t * r + t * s
    BY <1>1
<1>5. t * (p + q + r + s) < t * 10003 /\ t * 9997 < t * (p + q + r + s)
    BY <1>2, <1>3, <1>4
<1>6. p + q + r + s < 10003 /\ 9997 < p + q + r + s
    BY <1>1, <1>5, LessFactor
<1> QED
    BY <1>1, <1>6

-----------------------------------------------------------------------------
(* Sorted arrays.  R holds the pairs <<a, b>> of which a comes first. *)

Orders(R, S) ==
    /\ \A a \in S : <<a, a>> \notin R
    /\ \A a, b \in S : a # b => <<a, b>> \in R \/ <<b, a>> \in R
    /\ \A a, b, c \in S : <<a, b>> \in R /\ <<b, c>> \in R => <<a, c>> \in R

Sorts(q, R, S) ==
    /\ q \in [1..Cardinality(S) -> S]
    /\ \A i, j \in 1..Cardinality(S) : i < j => <<q[i], q[j]>> \in R

\* Every finite set can be sorted: the one member of a set of one, then a last one
\* after the others.
LEMMA LastExists ==
    ASSUME NEW R, NEW S, IsFiniteSet(S), S # {}, Orders(R, S)
    PROVE  \E z \in S : \A a \in S \ {z} : <<a, z>> \in R
<1> DEFINE Ok(s) == s # {} => \E z \in s : \A a \in s \ {z} : <<a, z>> \in R
           P == {s \in SUBSET S : Ok(s)}
<1>1. ASSUME NEW s \in SUBSET S, \A x \in s : s \ {x} \in P PROVE s \in P
    <2> SUFFICES ASSUME s # {} PROVE Ok(s)
        OBVIOUS
    <2>1. PICK x \in s : TRUE
        OBVIOUS
    <2>2. CASE s \ {x} = {}
        BY <2>1, <2>2
    <2>3. CASE s \ {x} # {}
        <3>1. PICK z \in s \ {x} : \A a \in (s \ {x}) \ {z} : <<a, z>> \in R
            BY <1>1, <2>1, <2>3
        <3>2. x \in S /\ z \in S /\ x # z
            BY <2>1
        <3>3. CASE <<x, z>> \in R
            BY <3>1, <3>3
        <3>4. CASE <<z, x>> \in R
            <4>1. \A a \in s \ {x} : <<a, x>> \in R
                BY <3>1, <3>2, <3>4 DEF Orders
            <4> QED
                BY <2>1, <4>1
        <3> QED
            BY <3>2, <3>3, <3>4 DEF Orders
    <2> QED
        BY <2>2, <2>3
<1>2. P = SUBSET S
    <2>1. P \in SUBSET (SUBSET S)
        OBVIOUS
    <2> HIDE DEF P
    <2> QED
        BY <1>1, <2>1, SubsetInductionInSet
<1> QED
    BY <1>2

LEMMA SortExists ==
    ASSUME NEW R, NEW S, IsFiniteSet(S), Orders(R, S)
    PROVE  \E q : Sorts(q, R, S)
<1> DEFINE P == {s \in SUBSET S : \E q : Sorts(q, R, s)}
<1>1. ASSUME NEW s \in SUBSET S, \A x \in s : s \ {x} \in P PROVE s \in P
    <2>0. IsFiniteSet(s) /\ Orders(R, s)
        BY FS_Subset DEF Orders
    <2>1. CASE s = {}
        <3>1. Cardinality(s) = 0 /\ 1..0 = {}
            BY <2>1, FS_EmptySet
        <3>2. Sorts([i \in {} |-> i], R, s)
            BY <2>1, <3>1 DEF Sorts
        <3> QED
            BY <3>2
    <2>2. CASE s # {}
        <3>1. PICK z \in s : \A a \in s \ {z} : <<a, z>> \in R
            BY <2>0, <2>2, LastExists
        <3> DEFINE n == Cardinality(s \ {z})
        <3>2. Cardinality(s) = n + 1 /\ n \in Nat
            BY <2>0, FS_RemoveElement, FS_CardinalityType, FS_Subset
        <3>3. PICK q : Sorts(q, R, s \ {z})
            BY <1>1
        <3> DEFINE p == [i \in 1..(n + 1) |-> IF i = n + 1 THEN z ELSE q[i]]
        <3>4. q \in [1..n -> s \ {z}] /\ \A i, j \in 1..n : i < j => <<q[i], q[j]>> \in R
            BY <3>3 DEF Sorts
        <3> HIDE DEF n
        <3>5. p \in [1..(n + 1) -> s]
            BY <3>2, <3>4
        <3>6. \A i, j \in 1..(n + 1) : i < j => <<p[i], p[j]>> \in R
            BY <3>1, <3>2, <3>4
        <3> HIDE DEF p
        <3>7. Sorts(p, R, s)
            BY <3>2, <3>5, <3>6 DEF Sorts
        <3> QED
            BY <3>7
    <2> QED
        BY <2>1, <2>2
<1>2. P = SUBSET S
    <2>1. P \in SUBSET (SUBSET S)
        OBVIOUS
    <2> HIDE DEF P
    <2> QED
        BY <1>1, <2>1, SubsetInductionInSet
<1> QED
    BY <1>2

\* A sorted array has every member of the set.
LEMMA SortedHasAll ==
    ASSUME NEW R, NEW S, IsFiniteSet(S), Orders(R, S), NEW q, Sorts(q, R, S)
    PROVE  \A a \in S : \E i \in 1..Cardinality(S) : q[i] = a
<1> DEFINE N == Cardinality(S)
<1>0. N \in Nat /\ IsFiniteSet(1..N) /\ Cardinality(1..N) = N
    BY FS_CardinalityType, FS_Interval
<1>1. q \in [1..N -> S] /\ \A i, j \in 1..N : i < j => <<q[i], q[j]>> \in R
    BY DEF Sorts
<1>2. \A i, j \in 1..N : q[i] = q[j] => i = j
    <2>1. \A i, j \in 1..N : i < j => q[i] # q[j]
        BY <1>1 DEF Orders
    <2> QED
        BY <1>0, <2>1
<1>3. q \in Injection(1..N, S)
    BY <1>1, <1>2 DEF Injection, IsInjective
<1> QED
    BY <1>0, <1>3, FS_Injection DEF Surjection
=============================================================================

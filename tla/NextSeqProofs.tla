---------------------------- MODULE NextSeqProofs ----------------------------
(***************************************************************************)
(* Proofs about calculateNextSeq, for every queue: the decimal strings of  *)
(* sequences are ordered strictly and totally, so the sorted array has the *)
(* entry of rank i at index i, the loop gets as far as the closed form     *)
(* says, and what it returns is free where strings and numbers are ordered *)
(* alike.                                                                  *)
(***************************************************************************)
EXTENDS NextSeqLoop, FiniteSetTheorems, TLAPS

\* Sequences of at most nine digits, the width Digits is defined for.
Numbers9 == 0..(10^9 - 1)

-----------------------------------------------------------------------------
(* The order of decimal strings. *)

LEMMA PowersOfTen ==
    /\ 10^0 \in Nat \ {0} /\ 10^1 \in Nat \ {0} /\ 10^2 \in Nat \ {0}
    /\ 10^3 \in Nat \ {0} /\ 10^4 \in Nat \ {0} /\ 10^5 \in Nat \ {0}
    /\ 10^6 \in Nat \ {0} /\ 10^7 \in Nat \ {0} /\ 10^8 \in Nat \ {0}
    BY SMT

\* What a number with d digits is multiplied with to have nine.
Padding(d) == 10^(9 - d)

LEMMA PaddingType ==
    ASSUME NEW d \in 1..9
    PROVE  Padding(d) \in Nat \ {0}
<1>1. CASE d = 1
    BY <1>1, PowersOfTen, SMT DEF Padding
<1>2. CASE d = 2
    BY <1>2, PowersOfTen, SMT DEF Padding
<1>3. CASE d = 3
    BY <1>3, PowersOfTen, SMT DEF Padding
<1>4. CASE d = 4
    BY <1>4, PowersOfTen, SMT DEF Padding
<1>5. CASE d = 5
    BY <1>5, PowersOfTen, SMT DEF Padding
<1>6. CASE d = 6
    BY <1>6, PowersOfTen, SMT DEF Padding
<1>7. CASE d = 7
    BY <1>7, PowersOfTen, SMT DEF Padding
<1>8. CASE d = 8
    BY <1>8, PowersOfTen, SMT DEF Padding
<1>9. CASE d = 9
    BY <1>9, PowersOfTen, SMT DEF Padding
<1> QED
    BY <1>1, <1>2, <1>3, <1>4, <1>5, <1>6, <1>7, <1>8, <1>9

\* A number that has d digits.
HasDigits(n, d) == n < 10^d /\ (d = 1 \/ n >= 10^(d - 1))

LEMMA DigitsType ==
    ASSUME NEW n \in Numbers9
    PROVE  Digits(n) \in 1..9
<1>1. \E d \in 1..9 : HasDigits(n, d)
    <2>0. n \in Int /\ n < 10^9
        BY SMT DEF Numbers9
    <2>1. CASE n < 10^1
        <3>1. HasDigits(n, 1)
            BY <2>1, SMT DEF HasDigits
        <3> QED
            BY <3>1
    <2>2. CASE 10^1 <= n /\ n < 10^2
        <3>1. HasDigits(n, 2)
            BY <2>2, SMT DEF HasDigits
        <3> QED
            BY <3>1
    <2>3. CASE 10^2 <= n /\ n < 10^3
        <3>1. HasDigits(n, 3)
            BY <2>3, SMT DEF HasDigits
        <3> QED
            BY <3>1
    <2>4. CASE 10^3 <= n /\ n < 10^4
        <3>1. HasDigits(n, 4)
            BY <2>4, SMT DEF HasDigits
        <3> QED
            BY <3>1
    <2>5. CASE 10^4 <= n /\ n < 10^5
        <3>1. HasDigits(n, 5)
            BY <2>5, SMT DEF HasDigits
        <3> QED
            BY <3>1
    <2>6. CASE 10^5 <= n /\ n < 10^6
        <3>1. HasDigits(n, 6)
            BY <2>6, SMT DEF HasDigits
        <3> QED
            BY <3>1
    <2>7. CASE 10^6 <= n /\ n < 10^7
        <3>1. HasDigits(n, 7)
            BY <2>7, SMT DEF HasDigits
        <3> QED
            BY <3>1
    <2>8. CASE 10^7 <= n /\ n < 10^8
        <3>1. HasDigits(n, 8)
            BY <2>8, SMT DEF HasDigits
        <3> QED
            BY <3>1
    <2>9. CASE 10^8 <= n /\ n < 10^9
        <3>1. HasDigits(n, 9)
            BY <2>9, SMT DEF HasDigits
        <3> QED
            BY <3>1
    <2> QED
        BY <2>0, <2>1, <2>2, <2>3, <2>4, <2>5, <2>6, <2>7, <2>8, <2>9, SMT
<1>2. Digits(n) = CHOOSE d \in 1..9 : HasDigits(n, d)
    BY DEF Digits, HasDigits
<1> QED
    BY <1>1, <1>2

\* A number, padded with zeros to nine digits.
Padded(n) == n * Padding(Digits(n))

LEMMA LexIsPadded ==
    ASSUME NEW m, NEW n
    PROVE  LexBefore(m, n) <=>
               \/ Padded(m) < Padded(n)
               \/ Padded(m) = Padded(n) /\ Digits(m) < Digits(n)
    BY DEF LexBefore, Padded, Padding

LEMMA TimesLess ==
    ASSUME NEW m \in Nat, NEW n \in Nat, NEW p \in Nat \ {0}, m < n
    PROVE  m * p < n * p
<1>1. PICK k \in Nat \ {0} : n = m + k
    <2>1. n - m \in Nat \ {0} /\ n = m + (n - m)
        OBVIOUS
    <2> QED
        BY <2>1
<1>2. n * p = m * p + k * p
    BY <1>1
<1>3. k * p > 0 /\ k * p \in Nat /\ m * p \in Nat
    BY <1>1
<1> QED
    BY <1>2, <1>3

\* With the same number of digits, strings are ordered as numbers are.
LEMMA SameDigits ==
    ASSUME NEW m \in Numbers9, NEW n \in Numbers9, Digits(m) = Digits(n)
    PROVE  (Padded(m) < Padded(n) <=> m < n) /\ (Padded(m) = Padded(n) <=> m = n)
<1>1. Digits(m) \in 1..9
    BY DigitsType
<1>2. PICK p \in Nat \ {0} : p = Padding(Digits(m))
    BY <1>1, PaddingType
<1>3. Padded(m) = m * p /\ Padded(n) = n * p
    BY <1>2 DEF Padded
<1>4. m \in Nat /\ n \in Nat
    BY SMT DEF Numbers9
<1>5. /\ m < n => m * p < n * p
      /\ n < m => n * p < m * p
    BY <1>4, TimesLess
<1>6. m * p \in Nat /\ n * p \in Nat /\ (m < n \/ n < m \/ m = n)
    BY <1>4
<1> QED
    BY <1>3, <1>4, <1>5, <1>6

LEMMA PaddedType ==
    ASSUME NEW n \in Numbers9
    PROVE  Padded(n) \in Nat
<1>1. PICK p \in Nat \ {0} : p = Padding(Digits(n))
    BY DigitsType, PaddingType
<1>2. Padded(n) = n * p
    BY <1>1 DEF Padded
<1> QED
    BY <1>1, <1>2, SMT DEF Numbers9

\* The order is strict and total.
LEMMA LexOrder ==
    /\ \A n \in Numbers9 : ~LexBefore(n, n)
    /\ \A m, n \in Numbers9 : LexBefore(m, n) \/ LexBefore(n, m) \/ m = n
    /\ \A l, m, n \in Numbers9 : LexBefore(l, m) /\ LexBefore(m, n) => LexBefore(l, n)
<1>1. \A n \in Numbers9 : ~LexBefore(n, n)
    BY PaddedType, DigitsType, LexIsPadded
<1>2. ASSUME NEW m \in Numbers9, NEW n \in Numbers9
      PROVE  LexBefore(m, n) \/ LexBefore(n, m) \/ m = n
    <2>1. /\ Padded(m) \in Nat /\ Padded(n) \in Nat
          /\ Digits(m) \in 1..9 /\ Digits(n) \in 1..9
        BY PaddedType, DigitsType
    <2>2. Digits(m) = Digits(n) /\ Padded(m) = Padded(n) => m = n
        BY SameDigits
    <2> QED
        BY <2>1, <2>2, LexIsPadded
<1>3. ASSUME NEW l \in Numbers9, NEW m \in Numbers9, NEW n \in Numbers9,
             LexBefore(l, m), LexBefore(m, n)
      PROVE  LexBefore(l, n)
    <2>1. /\ Padded(l) \in Nat /\ Padded(m) \in Nat /\ Padded(n) \in Nat
          /\ Digits(l) \in 1..9 /\ Digits(m) \in 1..9 /\ Digits(n) \in 1..9
        BY PaddedType, DigitsType
    <2> QED
        BY <1>3, <2>1, LexIsPadded
<1> QED
    BY <1>1, <1>2, <1>3

-----------------------------------------------------------------------------
(* Ranks, and the sorted array. *)

Below(n, S) == {m \in S : LexBefore(m, n)}

LEMMA RankType ==
    ASSUME NEW S \in SUBSET Numbers9, IsFiniteSet(S), NEW n \in S
    PROVE  /\ IsFiniteSet(Below(n, S)) /\ Rank(n, S) = Cardinality(Below(n, S))
           /\ Rank(n, S) \in 0..(Cardinality(S) - 1)
<1>1. Below(n, S) \in SUBSET S /\ n \notin Below(n, S)
    BY LexOrder DEF Below
<1>2. /\ IsFiniteSet(Below(n, S)) /\ Cardinality(Below(n, S)) <= Cardinality(S)
      /\ Cardinality(Below(n, S)) # Cardinality(S)
    BY <1>1, FS_Subset
<1>3. Cardinality(Below(n, S)) \in Nat /\ Cardinality(S) \in Nat
    BY <1>2, FS_CardinalityType
<1>4. Rank(n, S) = Cardinality(Below(n, S))
    BY DEF Rank, Below
<1> QED
    BY <1>2, <1>3, <1>4

\* Ranks order the queue as the strings do.
LEMMA RankOrder ==
    ASSUME NEW S \in SUBSET Numbers9, IsFiniteSet(S), NEW m \in S, NEW n \in S, LexBefore(m, n)
    PROVE  Rank(m, S) < Rank(n, S)
<1>1. Below(m, S) \in SUBSET Below(n, S) /\ Below(m, S) # Below(n, S)
    BY LexOrder DEF Below
<1>2. /\ IsFiniteSet(Below(n, S))
      /\ Rank(m, S) = Cardinality(Below(m, S)) /\ Rank(n, S) = Cardinality(Below(n, S))
      /\ Rank(m, S) \in Int /\ Rank(n, S) \in Int
    BY RankType
<1>3. /\ Cardinality(Below(m, S)) <= Cardinality(Below(n, S))
      /\ Cardinality(Below(m, S)) # Cardinality(Below(n, S))
    BY <1>1, <1>2, FS_Subset
<1> QED
    BY <1>2, <1>3

LEMMA RankInjective ==
    ASSUME NEW S \in SUBSET Numbers9, IsFiniteSet(S), NEW m \in S, NEW n \in S,
           Rank(m, S) = Rank(n, S)
    PROVE  m = n
<1>1. Rank(m, S) \in Int /\ Rank(n, S) \in Int
    BY RankType
<1>2. ~LexBefore(m, n) /\ ~LexBefore(n, m)
    BY <1>1, RankOrder
<1> QED
    BY <1>2, LexOrder

Sorted(q, S) ==
    /\ q \in [1..Cardinality(S) -> S]
    /\ \A j, k \in 1..Cardinality(S) : j < k => LexBefore(q[j], q[k])

\* A finite queue can be sorted: every rank below its size is taken.
LEMMA SortedExists ==
    ASSUME NEW S \in SUBSET Numbers9, IsFiniteSet(S)
    PROVE  \E q : Sorted(q, S)
<1> DEFINE N == Cardinality(S)
           f == [n \in S |-> Rank(n, S)]
           q == [j \in 1..N |-> CHOOSE n \in S : Rank(n, S) = j - 1]
<1>0. N \in Nat
    BY FS_CardinalityType
<1>1. f \in Injection(S, 0..(N - 1))
    BY RankType, RankInjective DEF Injection, IsInjective
<1>2. IsFiniteSet(0..(N - 1)) /\ Cardinality(0..(N - 1)) = N
    BY <1>0, FS_Interval
<1>3. f \in Surjection(S, 0..(N - 1))
    BY <1>1, <1>2, FS_Injection
<1>4. ASSUME NEW j \in 1..N PROVE q[j] \in S /\ Rank(q[j], S) = j - 1
    <2>1. j - 1 \in 0..(N - 1)
        BY <1>0
    <2>2. PICK n \in S : Rank(n, S) = j - 1
        BY <1>3, <2>1 DEF Surjection
    <2> QED
        BY <2>2
<1>5. q \in [1..N -> S]
    BY <1>4
<1> HIDE DEF f, q
<1>6. ASSUME NEW j \in 1..N, NEW k \in 1..N, j < k PROVE LexBefore(q[j], q[k])
    <2>1. /\ q[j] \in S /\ q[k] \in S /\ q[j] \in Numbers9 /\ q[k] \in Numbers9
          /\ Rank(q[j], S) < Rank(q[k], S)
          /\ Rank(q[j], S) \in Int /\ Rank(q[k], S) \in Int
        BY <1>0, <1>4, <1>6
    <2>2. PICK a \in S, b \in S : a = q[j] /\ b = q[k]
        BY <2>1
    <2>3. ~LexBefore(b, a) /\ a # b
        BY <2>1, <2>2, RankOrder
    <2> QED
        BY <2>1, <2>2, <2>3, LexOrder
<1> QED
    BY <1>5, <1>6 DEF Sorted

\* The sorted array has every entry of the queue, each at the index of its rank.
LEMMA SortedRanks ==
    ASSUME NEW S \in SUBSET Numbers9, IsFiniteSet(S), NEW q, Sorted(q, S)
    PROVE  /\ \A j \in 1..Cardinality(S) : q[j] \in S /\ Rank(q[j], S) = j - 1
           /\ \A n \in S : \E j \in 1..Cardinality(S) : q[j] = n
<1> DEFINE N == Cardinality(S)
<1>0. N \in Nat /\ IsFiniteSet(1..N) /\ Cardinality(1..N) = N
    BY FS_CardinalityType, FS_Interval
<1>1. q \in [1..N -> S] /\ \A j, k \in 1..N : j < k => LexBefore(q[j], q[k])
    BY DEF Sorted
<1>2. \A j, k \in 1..N : q[j] = q[k] => j = k
    BY <1>0, <1>1, LexOrder
<1>3. q \in Injection(1..N, S)
    BY <1>1, <1>2 DEF Injection, IsInjective
<1>4. \A n \in S : \E j \in 1..N : q[j] = n
    BY <1>0, <1>3, FS_Injection DEF Surjection
<1>5. ASSUME NEW j \in 1..N PROVE Rank(q[j], S) = j - 1
    <2> DEFINE g == [k \in 1..(j - 1) |-> q[k]]
    <2>1. \A k \in 1..N : LexBefore(q[k], q[j]) <=> k < j
        BY <1>0, <1>1, LexOrder
    <2>2. g \in [1..(j - 1) -> Below(q[j], S)] /\ \A k \in 1..(j - 1) : g[k] = q[k]
        BY <1>0, <1>1, <2>1 DEF Below
    <2>3. \A n \in Below(q[j], S) : \E k \in 1..(j - 1) : g[k] = n
        BY <1>0, <1>4, <2>1, <2>2 DEF Below
    <2> HIDE DEF g
    <2>4. g \in Injection(1..(j - 1), Below(q[j], S)) /\ g \in Surjection(1..(j - 1), Below(q[j], S))
        BY <1>0, <1>2, <2>2, <2>3 DEF Injection, Surjection, IsInjective
    <2>5. ExistsBijection(1..(j - 1), Below(q[j], S))
        BY <2>4 DEF ExistsBijection, Bijection
    <2>6. IsFiniteSet(1..(j - 1)) /\ Cardinality(1..(j - 1)) = j - 1
        <3>1. PICK e \in Nat : e = j - 1
            BY <1>0
        <3>2. IsFiniteSet(1..e) /\ Cardinality(1..e) = e
            BY FS_Interval
        <3> QED
            BY <3>1, <3>2
    <2>7. Cardinality(Below(q[j], S)) = j - 1
        BY <2>5, <2>6, FS_Bijection
    <2> QED
        BY <1>1, <2>7, RankType
<1> QED
    BY <1>1, <1>4, <1>5

LEMMA SortQueueSorts ==
    ASSUME NEW S \in SUBSET Numbers9, IsFiniteSet(S)
    PROVE  Sorted(SortQueue(S), S)
<1>1. PICK q : Sorted(q, S)
    BY SortedExists
<1> QED
    BY <1>1 DEF Sorted, SortQueue

-----------------------------------------------------------------------------
(* The loop. *)

NineDigits == QueueNumbers \subseteq Numbers9 /\ Starts \subseteq Nat

LEMMA QueueIsFinite ==
    ASSUME NineDigits, rows \in Seq(QueueNumbers)
    PROVE  Range(rows) \in SUBSET Numbers9 /\ Range(rows) \subseteq QueueNumbers
           /\ IsFiniteSet(Range(rows)) /\ Cardinality(Range(rows)) \in Nat
<1>1. /\ Len(rows) \in Nat /\ rows \in [1..Len(rows) -> QueueNumbers]
      /\ DOMAIN rows = 1..Len(rows)
    OBVIOUS
<1>2. Range(rows) \subseteq QueueNumbers
    BY <1>1 DEF Range
<1>3. rows \in Surjection(1..Len(rows), Range(rows))
    BY <1>1 DEF Range, Surjection
<1>4. IsFiniteSet(1..Len(rows))
    BY <1>1, FS_Interval
<1>5. IsFiniteSet(Range(rows))
    BY <1>3, <1>4, FS_Surjection
<1> QED
    BY <1>2, <1>5, FS_CardinalityType DEF NineDigits

\* The inductive invariant: the loop is at the number that the entries before it, the
\* first i numbers from the start on, leave as the next.
QInv ==
    /\ pc \in {"find", "loop", "return"}
    /\ rows \in Seq(QueueNumbers) /\ start \in Starts
    /\ nextSeq = start + i
    /\ pc = "find" => ordered = <<>> /\ i = 0
    /\ pc # "find" => ordered = SortQueue(Range(rows))
                      /\ i \in 0..Cardinality(Range(rows))
    /\ \A j \in 1..i : ordered[j] = start + j - 1
    /\ pc = "return" /\ i < Cardinality(Range(rows)) => ordered[i + 1] # nextSeq

LEMMA InitQInv ==
    ASSUME NineDigits, Init
    PROVE  QInv
<1>1. PICK n \in 0..MaxRows : rows \in [1..n -> QueueNumbers]
    BY DEF Init
<1>2. rows \in Seq(QueueNumbers)
    BY <1>1
<1>3. nextSeq = start + i /\ i = 0
    BY DEF Init, NineDigits
<1> QED
    BY <1>2, <1>3 DEF Init, QInv

LEMMA QueueSorted ==
    ASSUME NineDigits, QInv
    PROVE  Sorted(SortQueue(Range(rows)), Range(rows)) /\ Cardinality(Range(rows)) \in Nat
    BY QueueIsFinite, SortQueueSorts DEF QInv

LEMMA SortedLen ==
    ASSUME NEW S, NEW q, Sorted(q, S), Cardinality(S) \in Nat
    PROVE  Len(q) = Cardinality(S) /\ q \in Seq(S)
    BY DEF Sorted

LEMMA NextQInv ==
    ASSUME NineDigits
    PROVE  QInv /\ [Next]_vars => QInv'
<1> SUFFICES ASSUME QInv, [Next]_vars PROVE QInv'
    OBVIOUS
<1> DEFINE N == Cardinality(Range(rows))
<1>0. N \in Nat /\ start \in Nat
    BY QueueSorted DEF QInv, NineDigits
<1>1. pc # "find" => Len(ordered) = N
    BY QueueSorted, SortedLen DEF QInv
<1>2. CASE FindSequenceInQueue
    BY <1>0, <1>2 DEF FindSequenceInQueue, QInv
<1>3. CASE Advance
    BY <1>0, <1>1, <1>3 DEF Advance, QInv
<1>4. CASE Leave
    BY <1>0, <1>1, <1>4 DEF Leave, QInv
<1>5. CASE UNCHANGED vars
    BY <1>5 DEF vars, QInv
<1> QED
    BY <1>2, <1>3, <1>4, <1>5 DEF Next

\* What the walk passes is what the loop passes.
LEMMA PassedIsWalked ==
    ASSUME NineDigits, QInv, pc = "return", NEW k \in 1..Cardinality(Range(rows))
    PROVE  WalkPasses(start, Range(rows), k) <=> k <= i
<1> DEFINE S == Range(rows)
           N == Cardinality(S)
<1>0. /\ S \in SUBSET Numbers9 /\ IsFiniteSet(S) /\ N \in Nat /\ start \in Nat /\ i \in 0..N
      /\ ordered = SortQueue(S) /\ nextSeq = start + i
      /\ \A j \in 1..i : ordered[j] = start + j - 1
      /\ i < N => ordered[i + 1] # start + i
      /\ k \in 1..N
    BY QueueIsFinite DEF QInv, NineDigits
<1> HIDE DEF S
<1>1. \A j \in 1..N : ordered[j] \in S /\ Rank(ordered[j], S) = j - 1
    BY <1>0, SortQueueSorts, SortedRanks
<1>2. ASSUME k <= i, NEW j \in 0..(k - 1) PROVE start + j \in S /\ Rank(start + j, S) = j
    <2>1. j + 1 \in 1..i /\ j + 1 \in 1..N /\ ordered[j + 1] = start + j
        BY <1>0, <1>2
    <2> QED
        BY <1>0, <1>1, <2>1
<1>3. ASSUME i < k PROVE ~(start + i \in S /\ Rank(start + i, S) = i)
    <2>1. i + 1 \in 1..N /\ ordered[i + 1] # start + i
        BY <1>0, <1>3
    <2>2. ordered[i + 1] \in S /\ Rank(ordered[i + 1], S) = i
        BY <1>0, <1>1, <2>1
    <2> QED
        BY <1>0, <2>1, <2>2, RankInjective
<1>4. i < k => i \in 0..(k - 1)
    BY <1>0
<1>5. WalkPasses(start, S, k) <=> \A j \in 0..(k - 1) : start + j \in S /\ Rank(start + j, S) = j
    BY DEF WalkPasses
<1>6. WalkPasses(start, S, k) <=> k <= i
    BY <1>0, <1>2, <1>3, <1>4, <1>5
<1> QED
    BY <1>6 DEF S

LEMMA QInvComputes ==
    ASSUME NineDigits, QInv
    PROVE  LoopComputesNextQueueSeq
<1> SUFFICES ASSUME pc = "return" PROVE nextSeq = NextQueueSeq(start, Range(rows))
    BY DEF LoopComputesNextQueueSeq
<1> DEFINE N == Cardinality(Range(rows))
<1>0. N \in Nat /\ i \in 0..N /\ nextSeq = start + i
    BY QueueIsFinite DEF QInv
<1>1. {k \in 1..N : WalkPasses(start, Range(rows), k)} = {k \in 1..N : k <= i}
    BY PassedIsWalked
<1>2. {k \in 1..N : k <= i} = 1..i
    BY <1>0
<1>3. Cardinality(1..i) = i
    BY <1>0, FS_Interval
<1> QED
    BY <1>0, <1>1, <1>2, <1>3 DEF NextQueueSeq

\* With sequences of one length and none below the start, the number the loop stops at
\* has as many smaller ones before it as the loop has passed.
LEMMA QInvSuggests ==
    ASSUME NineDigits, QInv
    PROVE  SuggestsFirstFree
<1> DEFINE S == Range(rows)
           N == Cardinality(S)
<1> SUFFICES ASSUME pc = "return", \A s \in S : s >= start /\ Digits(s) = Digits(start)
             PROVE  nextSeq \notin S /\ start..(nextSeq - 1) \subseteq S
    BY DEF SuggestsFirstFree
<1>0. /\ S \in SUBSET Numbers9 /\ IsFiniteSet(S) /\ N \in Nat /\ start \in Nat /\ i \in 0..N
      /\ ordered = SortQueue(S) /\ nextSeq = start + i
      /\ \A j \in 1..i : ordered[j] = start + j - 1
      /\ i < N => ordered[i + 1] # start + i
    BY QueueIsFinite DEF QInv, NineDigits
<1> HIDE DEF S
<1>1. /\ \A j \in 1..N : ordered[j] \in S /\ Rank(ordered[j], S) = j - 1
      /\ \A n \in S : \E j \in 1..N : ordered[j] = n
      /\ \A j, k \in 1..N : j < k => LexBefore(ordered[j], ordered[k])
    <2>1. Sorted(ordered, S)
        BY <1>0, SortQueueSorts
    <2>2. \A j, k \in 1..N : j < k => LexBefore(ordered[j], ordered[k])
        BY <2>1 DEF Sorted
    <2> QED
        BY <1>0, <2>1, <2>2, SortedRanks
<1>2. \A m, n \in S : LexBefore(m, n) => m < n
    <2>1. ASSUME NEW m \in S, NEW n \in S, LexBefore(m, n) PROVE m < n
        <3>1. m \in Numbers9 /\ n \in Numbers9 /\ Digits(m) = Digits(n) /\ Digits(m) \in 1..9
            BY <1>0, DigitsType
        <3> QED
            BY <2>1, <3>1, SameDigits, LexIsPadded
    <2> QED
        BY <2>1
<1>3. start..(nextSeq - 1) \subseteq S
    <2>1. ASSUME NEW n \in start..(nextSeq - 1) PROVE n \in S
        <3>1. n - start + 1 \in 1..i /\ n - start + 1 \in 1..N /\ ordered[n - start + 1] = n
            BY <1>0
        <3> QED
            BY <1>1, <3>1
    <2> QED
        BY <2>1
<1>4. ASSUME nextSeq \in S PROVE FALSE
    <2>1. PICK k \in 1..N : ordered[k] = start + i
        BY <1>0, <1>1, <1>4
    <2>2. k > i
        BY <1>0, <2>1
    <2>3. i < N /\ i + 1 \in 1..N /\ ordered[i + 1] \in S /\ ordered[i + 1] \in Nat
        <3>1. i < N /\ i + 1 \in 1..N
            BY <1>0, <2>2
        <3>2. \A n \in Numbers9 : n \in Nat
            BY SMT DEF Numbers9
        <3> QED
            BY <1>0, <1>1, <3>1, <3>2
    <2>4. ordered[i + 1] < start + i
        <3>1. k # i + 1
            BY <1>0, <2>1, <2>3
        <3>2. LexBefore(ordered[i + 1], ordered[k])
            BY <1>0, <1>1, <2>2, <2>3, <3>1
        <3> QED
            BY <1>1, <1>2, <2>1, <2>3, <3>2
    <2>5. ordered[i + 1] >= start
        BY <2>3
    <2>6. ordered[i + 1] - start + 1 \in 1..i
        BY <1>0, <2>3, <2>4, <2>5
    <2>7. ordered[ordered[i + 1] - start + 1] = ordered[i + 1]
        BY <1>0, <2>3, <2>6
    <2>8. Rank(ordered[i + 1], S) = i /\ Rank(ordered[i + 1], S) = ordered[i + 1] - start
        BY <1>0, <1>1, <2>3, <2>6, <2>7
    <2> QED
        BY <1>0, <2>3, <2>4, <2>8
<1> QED
    BY <1>3, <1>4

\* For every queue of sequences of at most nine digits: the loop of calculateNextSeq
\* over the sorted queue returns what the closed form says that TxHandlers uses for it.
THEOREM LoopComputesAlways ==
    ASSUME NineDigits
    PROVE  Spec => []LoopComputesNextQueueSeq
<1>0. Init => QInv
    BY InitQInv
<1>1. QInv /\ [Next]_vars => QInv'
    BY NextQInv
<1>2. QInv => LoopComputesNextQueueSeq
    BY QInvComputes
<1> QED
    BY <1>0, <1>1, <1>2, PTL DEF Spec

\* ... and when no queued sequence is below the start and all have as many digits, it
\* is the first number from the start on that no queued transaction has.
THEOREM SuggestsFirstFreeAlways ==
    ASSUME NineDigits
    PROVE  Spec => []SuggestsFirstFree
<1>0. Init => QInv
    BY InitQInv
<1>1. QInv /\ [Next]_vars => QInv'
    BY NextQInv
<1>2. QInv => SuggestsFirstFree
    BY QInvSuggests
<1> QED
    BY <1>0, <1>1, <1>2, PTL DEF Spec

LEMMA QInvTyped ==
    ASSUME NineDigits, QInv
    PROVE  TypeOK
<1>1. start \in Nat /\ Cardinality(Range(rows)) \in Nat
    BY QueueSorted DEF QInv, NineDigits
<1>2. CASE pc = "find"
    BY <1>1, <1>2 DEF QInv, TypeOK
<1>3. CASE pc # "find"
    <2>1. Len(ordered) = Cardinality(Range(rows)) /\ ordered \in Seq(Range(rows))
        BY <1>3, QueueSorted, SortedLen DEF QInv
    <2>2. ordered \in Seq(QueueNumbers)
        BY <2>1, QueueIsFinite DEF QInv
    <2> QED
        BY <1>1, <1>3, <2>1, <2>2 DEF QInv, TypeOK
<1> QED
    BY <1>2, <1>3
=============================================================================

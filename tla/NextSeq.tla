------------------------------ MODULE NextSeq ------------------------------
(***************************************************************************)
(* The sequence the backend suggests for the next queued transaction of a  *)
(* safe, as a function of the sequence it starts from and of the set of    *)
(* sequences in the queue.                                                 *)
(*                                                                         *)
(* findSequenceInQueue removes duplicates with a Set and sorts with        *)
(* Array.prototype.sort without a comparator, so numbers are ordered by    *)
(* their decimal strings.  calculateNextSeq walks that array from its      *)
(* front, counts up while the entries match and stops at the first that    *)
(* does not.  NextSeqLoop models the walk step by step and checks that it  *)
(* returns what NextQueueSeq says.                                         *)
(***************************************************************************)
EXTENDS Integers, FiniteSets

\* The number of decimal digits of n (sequences below 10^9).
Digits(n) ==
    CHOOSE d \in 1..9 : n < 10^d /\ (d = 1 \/ n >= 10^(d - 1))

\* Does m come before n when both are compared as decimal strings?
LexBefore(m, n) ==
    LET w == 9
        Left(k) == k * 10^(w - Digits(k))  \* k, padded with zeros to w digits
    IN  \/ Left(m) < Left(n)
        \/ Left(m) = Left(n) /\ Digits(m) < Digits(n)

\* How many members of S the sort puts before n.
Rank(n, S) == Cardinality({m \in S : LexBefore(m, n)})

\* The walk passes start, start + 1, ..., start + k - 1: each of them is in the
\* queue, at the very place of the array where the walk compares it.
WalkPasses(start, S, k) ==
    \A i \in 0..(k - 1) : start + i \in S /\ Rank(start + i, S) = i

\* calculateNextSeq: one more than the last number the walk passes.
NextQueueSeq(start, S) ==
    start + Cardinality({k \in 1..Cardinality(S) : WalkPasses(start, S, k)})
=============================================================================

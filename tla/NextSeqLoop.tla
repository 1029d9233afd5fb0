---------------------------- MODULE NextSeqLoop ----------------------------
(***************************************************************************)
(* calculateNextSeq and findSequenceInQueue, one step per loop iteration,  *)
(* over every small content of the queue.                                  *)
(*                                                                         *)
(* A definition whose name starts with Mutant is the definition after it   *)
(* with a plausible bug, kept to check that the properties notice it.      *)
(***************************************************************************)
EXTENDS NextSeq, Sequences, Functions

CONSTANTS
    QueueNumbers,   \* the sequences a queued row may carry
    Starts,         \* the sequences the search may start from
    MaxRows         \* bound on the number of queued rows

VARIABLES
    pc,         \* the statement that comes next
    rows,       \* Sequence column of the rows the query returns
    start,      \* parameter currentSequence
    ordered,    \* queueSequences: without duplicates and sorted
    i,          \* how many entries of ordered the loop has consumed
    nextSeq     \* local nextSeq

vars == <<pc, rows, start, ordered, i, nextSeq>>

TypeOK ==
    /\ pc \in {"find", "loop", "return"}
    /\ rows \in Seq(QueueNumbers)
    /\ start \in Starts
    /\ ordered \in Seq(QueueNumbers)
    /\ i \in 0..Len(ordered)
    /\ nextSeq \in Nat

Init ==
    /\ pc = "find"
    /\ rows \in UNION {[1..n -> QueueNumbers] : n \in 0..MaxRows}
    /\ start \in Starts
    /\ ordered = <<>>
    /\ i = 0
    /\ nextSeq = start

\* [...new Set(sequence)].sort()
SortQueue(S) ==
    CHOOSE q \in [1..Cardinality(S) -> S] :
        \A j, k \in 1..Cardinality(S) : j < k => LexBefore(q[j], q[k])

\* the walk starts at index 1
MutantFindSequenceInQueue ==
    /\ pc = "find"
    /\ ordered' = SortQueue(Range(rows))
    /\ i' = 1
    /\ pc' = "loop"
    /\ UNCHANGED <<rows, start, nextSeq>>

FindSequenceInQueue ==
    /\ pc = "find"
    /\ ordered' = SortQueue(Range(rows))
    /\ pc' = "loop"
    /\ UNCHANGED <<rows, start, i, nextSeq>>

\* the walk skips the numbers the queue does not have
MutantAdvance ==
    /\ pc = "loop"
    /\ i < Len(ordered)
    /\ ordered[i + 1] >= nextSeq
    /\ nextSeq' = ordered[i + 1] + 1
    /\ i' = i + 1
    /\ UNCHANGED <<pc, rows, start, ordered>>

\* for (const seq of queueSequences) ... the entry matches
Advance ==
    /\ pc = "loop"
    /\ i < Len(ordered)
    /\ ordered[i + 1] = nextSeq
    /\ nextSeq' = nextSeq + 1
    /\ i' = i + 1
    /\ UNCHANGED <<pc, rows, start, ordered>>

\* ... the entry differs (break) or the array is exhausted
Leave ==
    /\ pc = "loop"
    /\ i < Len(ordered) => ordered[i + 1] # nextSeq
    /\ pc' = "return"
    /\ UNCHANGED <<rows, start, ordered, i, nextSeq>>

Next == FindSequenceInQueue \/ Advance \/ Leave

Spec == Init /\ [][Next]_vars

-----------------------------------------------------------------------------

\* The loop returns what the closed form NextQueueSeq, which the handler module
\* uses for calculateNextSeq, says.
LoopComputesNextQueueSeq ==
    pc = "return" => nextSeq = NextQueueSeq(start, Range(rows))

\* When no queued sequence is below the start and all sequences have as many
\* digits, calculateNextSeq suggests the first sequence from the start on that
\* no queued transaction has.
SuggestsFirstFree ==
    LET S == Range(rows)
        Simple == \A s \in S : s >= start /\ Digits(s) = Digits(start)
    IN  pc = "return" /\ Simple =>
            /\ nextSeq \notin S
            /\ start..(nextSeq - 1) \subseteq S

\* The doc comment of findSequenceInQueue: "Find, remove duplicate and sort
\* sequence of queue tx".  The sequences are numbers, so sorted means ascending.
QueueIsSorted ==
    \A j, k \in 1..Len(ordered) : j < k => ordered[j] < ordered[k]

=============================================================================

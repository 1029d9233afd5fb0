------------------------------ MODULE Amounts ------------------------------
(***************************************************************************)
(* The coins a transaction moves.  A message is [type, amounts, ...]:      *)
(* amounts are those of its coins (send), of its coin (staking messages),  *)
(* of the first coins of its outputs (multisend), or none.                 *)
(*                                                                         *)
(* On the chain and in a message an amount is an exact natural number, a   *)
(* string of digits in the code.  Where the code computes with it, it is a *)
(* JavaScript number: exact up to MaxSafe, and beyond that only one of the *)
(* doubles, which lie further and further apart.                           *)
(***************************************************************************)
EXTENDS Naturals, Sequences, Functions, FiniteSetsExt

CONSTANTS
    Doubles,        \* the naturals that are JavaScript numbers
    MaxSafe         \* Number.MAX_SAFE_INTEGER

AmountsAssumption ==
    /\ Doubles \subseteq Nat /\ MaxSafe \in Nat
    /\ 0..MaxSafe \subseteq Doubles

Distance(m, n) == IF m > n THEN m - n ELSE n - m

\* The double next to n.  Of two as near JavaScript takes the one with an even mantissa,
\* which is left to CHOOSE.
Number(n) ==
    IF n \in Doubles THEN n
    ELSE CHOOSE d \in Doubles : \A e \in Doubles : Distance(d, n) <= Distance(e, n)

\* A loop of total += Number(f[i]) over a sequence, or over rows by their ids.
NumberSum(f) ==
    MapThenFoldSet(LAMBDA number, total : Number(total + number), 0,
                   LAMBDA i : Number(f[i]), Max, DOMAIN f)

\* The exact sum, of a sequence or of a function of the ids of rows.
Sum(f) == FoldFunction(+, 0, f)

Staking == {"delegate", "redelegate", "undelegate"}

\* What a message moves.
Moved(msg) ==
    CASE msg.type \in Staking \union {"send"} -> msg.amounts[1]
      [] msg.type = "multisend" -> Sum(msg.amounts)
      [] OTHER -> 0
Total(msgs) == Sum([i \in 1..Len(msgs) |-> Moved(msgs[i])])

\* What calculateAmount makes of it.
AmountOf(msg) ==
    CASE msg.type \in Staking \union {"send"} -> msg.amounts[1]
      [] msg.type = "multisend" -> NumberSum(msg.amounts)
      [] OTHER -> 0

CalculateAmount(msgs) == NumberSum([i \in 1..Len(msgs) |-> AmountOf(msgs[i])])
=============================================================================

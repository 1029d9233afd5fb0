-------------------------------- MODULE MCTx --------------------------------
(* Constants of the model-checking runs of the transaction handlers. *)
EXTENDS TxViews, TLC

CONSTANTS o1, o2, o3, o4

Owners2 == {o1, o2}
Owners3 == {o1, o2, o3}
Owners4 == {o1, o2, o3, o4}

\* No definition tells the owners apart.
Symmetry == Permutations(Owners)
=============================================================================

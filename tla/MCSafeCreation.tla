--------------------------- MODULE MCSafeCreation ---------------------------
(* Constants of the model-checking run of SafeCreation on its own. *)
EXTENDS SafeCreation, TLC

CONSTANTS u1, u2, u3

Users3 == {u1, u2, u3}

\* No definition tells the users apart.
Symmetry == Permutations(Users)
=============================================================================

--------------------------- MODULE MCNextSeqLoop ---------------------------
(* NextSeqLoop on small queues, among them the ones that cross from 9 to 10,   *)
(* where the order of the decimal strings is not the order of the numbers.      *)
EXTENDS NextSeqLoop

Numbers == {0, 1, 8, 9, 10, 11}
StartNumbers == {0, 1, 8, 9, 10}
=============================================================================

------------------------------ MODULE MCClient ------------------------------
(* Small instances of Client. *)
EXTENDS Client, TLC

CONSTANTS c1, c2, k1      \* model values

\* Commands are interchangeable in the safety runs
Symmetry == Permutations({c1, c2})
=============================================================================

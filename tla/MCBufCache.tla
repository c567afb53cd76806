---------------------------- MODULE MCBufCache ----------------------------
(* Model-checking instance of BufCache: one row of buffers.  Blocks and     *)
(* contents are interchangeable: the code compares them for equality only.  *)
EXTENDS BufCache, TLC

MCLines == {0}
MCLine == [b \in Blocks |-> 0]
Symmetry == Permutations(Blocks) \cup Permutations(Data)
=============================================================================

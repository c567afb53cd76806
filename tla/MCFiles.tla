------------------------------ MODULE MCFiles ------------------------------
(* Model-checking instances of FileBlocks and Names.  Files, names, and the  *)
(* inodes but the root's are interchangeable.  The two modules share no      *)
(* state: one of them moves in a behaviour.  The requests cross from a direct *)
(* block to one behind a map and from there to the next, and cover their      *)
(* blocks in part; the last one ends past the limit.            *)
EXTENDS FileBlocks, Names, TLC

VARIABLE part    \* the module that moves

Symmetry   == Permutations(Files) \cup Permutations(Entries)
                \cup Permutations(NmInos \ {root})

MCInit == part \in {"blocks", "names"} /\ FbInit /\ NmInit
MCNext ==
  /\ UNCHANGED part
  /\ \/ part = "blocks" /\ FbNext /\ UNCHANGED nmVars
     \/ part = "names" /\ NmNext /\ UNCHANGED fbVars
MCSpec == MCInit /\ [][MCNext]_<<part, fbVars, nmVars>>
=============================================================================

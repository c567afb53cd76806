------------------------------ MODULE MCInodes ------------------------------
(* Model-checking instances of Mount, and of Mtab, the file mount and umount  *)
(* keep.  One of them moves in a behaviour.                                   *)
EXTENDS Mount, Mtab

VARIABLE part    \* the module that moves

MCInit == part \in {"mounts", "mtab"} /\ Init /\ MtInit /\ (part = "mtab" => freemap[1])
MCNext ==
  /\ UNCHANGED part
  /\ \/ part = "mounts" /\ Next /\ UNCHANGED mtVars
     \/ part = "mtab" /\ ~mtClash /\ MtNext /\ UNCHANGED vars
MCSpec == MCInit /\ [][MCNext]_<<part, vars, mtVars>>
\* The other part is as it was: only the one that moves tells states apart.
View == <<part, IF part = "mounts" THEN vars ELSE mtVars>>
=============================================================================

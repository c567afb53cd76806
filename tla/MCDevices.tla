----------------------------- MODULE MCDevices -----------------------------
(* Model-checking instances of the disks (Floppy, HardDisk, and Fsck for what *)
(* is on them) and of a Pipe small enough for its liveness.  They share no    *)
(* state: one of them moves in a behaviour, with the fairness it states.      *)
EXTENDS Pipe, Floppy, HardDisk, Fsck

VARIABLE part    \* the module that moves

MCInit == /\ part \in {"pipe", "floppy", "disk", "fsck"}
          /\ Init /\ FdInit /\ HdInit /\ FkInit
          /\ part # "pipe" => named /\ pipe_buf[0].who = CHOOSE p \in Procs : TRUE
MCNext ==
  /\ UNCHANGED part
  /\ \/ part = "pipe" /\ Next /\ UNCHANGED <<fdVars, hdVars, fkVars>>
     \/ part = "floppy" /\ FdNext /\ UNCHANGED <<vars, hdVars, fkVars>>
     \/ part = "disk" /\ HdNext /\ UNCHANGED <<vars, fdVars, fkVars>>
     \/ part = "fsck" /\ FkNext /\ UNCHANGED <<vars, fdVars, hdVars>>
MCSpec ==
  /\ MCInit /\ [][MCNext]_<<part, vars, fdVars, hdVars, fkVars>>
  /\ \A p \in Procs : WF_vars(part = "pipe" /\ GoOn(p))
  /\ WF_fdVars(part = "floppy" /\ FdDriver)
=============================================================================

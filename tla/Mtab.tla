-------------------------------- MODULE Mtab --------------------------------
(* /etc/mtab, as mount and umount keep it (cmd/sbin/mount.c, umount.c): a     *)
(* file of fixed slots without a lock.  The kernel's mounts are a set of      *)
(* directories here.  An entry is its directory, "free" when it has none.      *)
(* A definition Mut... is a wrong form of the definition below it.            *)
EXTENDS Integers, FiniteSets, Sequences

CONSTANTS
  MtRuns,      \* processes that run mount or umount
  MtDirs,      \* directories
  MtMax        \* slots the file may grow to

ASSUME MtabAssumption == MtDirs \cap {"free", "end"} = {}

VARIABLES
  mtMounted,   \* what the kernel has mounted
  mtFile,      \* the slots of /etc/mtab
  mtRun,       \* for each run: what it does, with which directory, from which slot
  mtClash,     \* a run wrote to a slot that had changed since it was read
  mtAstray     \* directories a run has left before it wrote, or
               \* that were unmounted before their entry was written

mtVars == <<mtMounted, mtFile, mtRun, mtClash, mtAstray>>

MtNone == [pc |-> "none", dir |-> "free", at |-> 0]
Slot(i) == IF i <= Len(mtFile) THEN mtFile[i] ELSE "end"

-----------------------------------------------------------------------------
\* xmount: the file is opened, unless the root is read-only, and the kernel
\* mounts the directory; then the file is read from its start.  mountall calls
\* it for every line of fstab.
XMount(r, d, ro) ==
  /\ mtRun[r].pc = "none" /\ d \notin mtMounted
  /\ mtMounted' = mtMounted \cup {d}
  /\ mtRun' = IF ro THEN mtRun ELSE [mtRun EXCEPT ![r] = [pc |-> "find", dir |-> d, at |-> 1]]
  /\ mtAstray' = IF ro THEN mtAstray \cup {d} ELSE mtAstray
  /\ UNCHANGED <<mtFile, mtClash>>

\* umount, when the kernel does it: its mount goes first; clrm then looks for the directory.
\* When clrm cannot open the file the run is over as if killed there.
Umount(r, d) ==
  /\ mtRun[r].pc = "none" /\ d \in mtMounted
  /\ mtMounted' = mtMounted \ {d}
  /\ mtRun' = [mtRun EXCEPT ![r] = [pc |-> "clear", dir |-> d, at |-> 1]]
  /\ mtAstray' = IF \E q \in MtRuns : mtRun[q].dir = d THEN mtAstray \cup {d} ELSE mtAstray
  /\ UNCHANGED <<mtFile, mtClash>>

\* One turn of the loop: a slot is read, and the loop ends at a free one or at
\* the end of the file, or, for clrm, at the directory.
Sought(m)   == IF m.pc \in {"find", "write"} THEN "free" ELSE m.dir
Stops(r)    == Slot(mtRun[r].at) \in {"end", Sought(mtRun[r])}
ReadSlot(r) ==
  /\ mtRun[r].pc \in {"find", "clear"}
  /\ mtRun' = IF ~Stops(r)                      THEN [mtRun EXCEPT ![r].at = @ + 1]
              ELSE IF mtRun[r].pc = "find"      THEN [mtRun EXCEPT ![r].pc = "write"]
              ELSE IF Slot(mtRun[r].at) = "end" THEN [mtRun EXCEPT ![r] = MtNone]
                                                ELSE [mtRun EXCEPT ![r].pc = "zero"]
  /\ UNCHANGED <<mtMounted, mtFile, mtClash, mtAstray>>

\* lseek goes back by what was read last, nothing at the end of the file, and
\* the slot is written.
MutStored(f, at, d) == Append(f, d)
Stored(f, at, d)    == IF at <= Len(f) THEN [f EXCEPT ![at] = d] ELSE Append(f, d)
WriteSlot(r) ==
  LET m == mtRun[r]
  IN  /\ m.pc \in {"write", "zero"} /\ m.at <= MtMax
      /\ mtFile' = Stored(mtFile, m.at, IF m.pc = "write" THEN m.dir ELSE "free")
      /\ mtClash' = (mtClash \/ Slot(m.at) \notin {"end", Sought(m)})
      /\ mtRun' = [mtRun EXCEPT ![r] = MtNone]
      /\ UNCHANGED <<mtMounted, mtAstray>>

\* A signal ends a run between its system calls.
MtKill(r) ==
  /\ mtRun[r].pc # "none"
  /\ mtAstray' = mtAstray \cup {mtRun[r].dir}
  /\ mtRun' = [mtRun EXCEPT ![r] = MtNone]
  /\ UNCHANGED <<mtMounted, mtFile, mtClash>>

MtInit == /\ mtMounted = {} /\ mtFile = <<>> /\ mtRun = [r \in MtRuns |-> MtNone]
          /\ mtClash = FALSE /\ mtAstray = {}

MtNext ==
  \E r \in MtRuns :
    \/ \E d \in MtDirs : (\E ro \in BOOLEAN : XMount(r, d, ro)) \/ Umount(r, d)
    \/ ReadSlot(r) \/ WriteSlot(r) \/ MtKill(r)

MtSpec == MtInit /\ [][MtNext]_mtVars

-----------------------------------------------------------------------------
(* Properties.                                                               *)

\* When no run is under way, /etc/mtab names every mounted directory once and
\* nothing else, though mount and umount work on it without a lock.  The
\* exceptions are a slot that another run wrote to in between, and directories
\* that were unmounted while their mount was still looking for a slot, or whose
\* run was killed or could not open the file.
MtabExact ==
  (~mtClash /\ \A r \in MtRuns : mtRun[r].pc = "none") =>
    \A d \in MtDirs \ mtAstray :
      Cardinality({i \in DOMAIN mtFile : mtFile[i] = d}) = IF d \in mtMounted THEN 1 ELSE 0
=============================================================================

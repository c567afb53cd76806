------------------------------ MODULE OpenFiles ------------------------------
(* The file table, the descriptors and the other uses of inodes (current     *)
(* directory, root, controlling terminal) of kern/fs/open.c and file.c, over *)
(* a file, a directory and the two names of a serial line, whose open        *)
(* (kern/dv/rs.c, through kern/fs/chr.c) may wait for the carrier.           *)
(* A definition Mut... is a wrong form of the definition below it.           *)
EXTENDS Integers, FiniteSets, FiniteSetsExt

CONSTANTS
  OfProcs,     \* processes; the first is there from the start
  OfFirst,
  OfRoot,      \* the processes that run as root
  OfFiles,     \* slots of file[]
  OfFds,       \* descriptors of a process: 0 .. n - 1
  MaxLost      \* bound on the references given up, for TLC

ASSUME OpenFilesAssumption ==
  /\ OfFirst \in OfProcs /\ OfRoot \subseteq OfProcs /\ MaxLost \in Nat
  /\ IsFiniteSet(OfProcs) /\ IsFiniteSet(OfFiles) /\ IsFiniteSet(OfFds)
  /\ OfFds \subseteq Nat /\ "nobody" \notin OfFiles

VARIABLES
  ofLive,      \* processes that exist
  ofSig,       \* processes with a signal pending
  ofFd,        \* curr->fd: file slot or nobody, and cloexec
  ofFile,      \* file[]: refcnt and ino
  ofUse,       \* refcnt of the inodes
  ofAt,        \* cwd, root and tty of a process
  ofWait,      \* the open a process waits in: file slot and inode
  ofUnit,      \* rs_units[]: open, dev and the carrier
  ofShut,      \* inodes only their owner may use
  ofLost,      \* history: references that nothing will put
  ofWild       \* history: a descriptor was stored before curr->fd[0]

ofVars == <<ofLive, ofSig, ofFd, ofFile, ofUse, ofAt, ofWait, ofUnit, ofShut, ofLost, ofWild>>

nobody   == "nobody"
NoWait   == [file |-> nobody, ino |-> nobody]
OfInodes == {"dir", "reg", "line", "modem"}
IsLine(i) == i \in {"line", "modem"}

OfRunning(p) == p \in ofLive /\ p \notin ofSig /\ ofWait[p] = NoWait
\* inode_chkperm: the inodes belong to root.
MayUse(p, i) == p \in OfRoot \/ i \notin ofShut
\* Inode counts with one more use of i, and one less.
OfGot(use, i) == IF i = nobody THEN use ELSE [use EXCEPT ![i] = @ + 1]
Gone(use, i) == IF i = nobody THEN use ELSE [use EXCEPT ![i] = @ - 1]

----------------------------------------------------------------------------
(* file_get, fd_get, file_put and fd_put.                                   *)
FreeFiles  == {f \in OfFiles : ofFile[f].ref = 0}
FreeFds(p, low) == {d \in OfFds : d >= low /\ ofFd[p][d].file = nobody}
EmptyFd    == [file |-> nobody, cloexec |-> FALSE]

\* What putting the descriptors ds of p (with their files) leaves.
Puts(p, ds, f) == Cardinality({d \in ds : ofFd[p][d].file = f})
Dropped(p, ds) == {f \in OfFiles : Puts(p, ds, f) > 0 /\ ofFile[f].ref = Puts(p, ds, f)}
\* (the ino of a free slot is stale and never read: NoFile)
NoFile == [ref |-> 0, ino |-> nobody]
FilesAfter(p, ds) ==
  [f \in OfFiles |-> IF f \in Dropped(p, ds) THEN NoFile
                     ELSE [ofFile[f] EXCEPT !.ref = @ - Puts(p, ds, f)]]
\* chr_close of the line for every file that is put for the last time
ClosedLines(fs) == Cardinality({f \in fs : IsLine(ofFile[f].ino)})
UnitAfter(fs) == [ofUnit EXCEPT !.open = @ - ClosedLines(fs)]
UseAfter(fs) == [i \in OfInodes |-> ofUse[i] - Cardinality({f \in fs : ofFile[f].ino = i})]
PutFds(p, ds) ==
  /\ ofFile' = FilesAfter(p, ds)
  /\ ofUnit' = UnitAfter(Dropped(p, ds))

----------------------------------------------------------------------------
(* do_open.  The file slot is taken before chr_open sleeps, the descriptor  *)
(* is stored after.                                                         *)
OfStored(p, f, i) ==
  /\ ofFile' = [ofFile EXCEPT ![f] = [ref |-> 1, ino |-> i]]
  /\ ofFd' = [ofFd EXCEPT ![p][Min(FreeFds(p, 0))] = [file |-> f, cloexec |-> FALSE]]
OfFailed == UNCHANGED <<ofFile, ofFd, ofUse, ofUnit, ofWait>>

\* rs_open: the two names of the line exclude each other.
RsBusy(i) == i # ofUnit.dev /\ ofUnit.open > 0
RsOpen(i) ==
  ofUnit' = [open    |-> ofUnit.open + 1, dev |-> i,
             carrier |-> ofUnit.carrier \/ i = "line"]

OfOpen(p, i, how) ==
  /\ OfRunning(p)
  /\ IF (i = "dir" /\ how = "write") \/ ~MayUse(p, i) \/ FreeFiles = {} \/ FreeFds(p, 0) = {}
     THEN OfFailed
     ELSE \E f \in FreeFiles :    \* which slot makes no difference
          \/ /\ ~IsLine(i)
             /\ OfStored(p, f, i) /\ ofUse' = OfGot(ofUse, i)
             /\ UNCHANGED <<ofUnit, ofWait>>
          \/ /\ IsLine(i) /\ RsBusy(i) /\ OfFailed
          \/ /\ IsLine(i) /\ ~RsBusy(i)
             /\ IF i = "line" \/ ofUnit.carrier
                THEN /\ RsOpen(i) /\ OfStored(p, f, i)
                     /\ ofUse' = OfGot(ofUse, i) /\ UNCHANGED ofWait
                ELSE IF how = "nodelay"    \* open++, dev = rdev, open--
                THEN /\ ofUnit' = [ofUnit EXCEPT !.dev = i]
                     /\ UNCHANGED <<ofFile, ofFd, ofUse, ofWait>>
                ELSE /\ RsOpen(i) /\ ofUse' = OfGot(ofUse, i)
                     /\ ofFile' = [ofFile EXCEPT ![f] = [ref |-> 1, ino |-> nobody]]
                     /\ ofWait' = [ofWait EXCEPT ![p] = [file |-> f, ino |-> i]]
                     /\ UNCHANGED ofFd
  /\ UNCHANGED <<ofLive, ofSig, ofAt, ofShut, ofLost>>

\* The loop in rs_open ends: with the carrier, or with EINTR.
MutCut(unit) == unit
Cut(unit)    == [unit EXCEPT !.open = @ - 1]
OfOpened(p) ==
  /\ p \in ofLive /\ ofWait[p] # NoWait
  /\ LET f == ofWait[p].file
         i == ofWait[p].ino
     IN \/ /\ ofUnit.carrier
           /\ OfStored(p, f, i) /\ UNCHANGED <<ofUse, ofUnit>>
        \/ /\ ~ofUnit.carrier /\ p \in ofSig
           /\ ofFile' = [ofFile EXCEPT ![f] = NoFile]
           /\ ofUse' = Gone(ofUse, i)
           /\ ofUnit' = Cut(ofUnit) /\ UNCHANGED ofFd
  /\ ofWait' = [ofWait EXCEPT ![p] = NoWait]
  /\ UNCHANGED <<ofLive, ofSig, ofAt, ofShut, ofLost>>

\* The other end of the line, while it is not opened by its local name.
OfCarrier(c) ==
  /\ c # ofUnit.carrier /\ ~(ofUnit.dev = "line" /\ ofUnit.open > 0)
  /\ ofUnit' = [ofUnit EXCEPT !.carrier = c]
  /\ UNCHANGED <<ofLive, ofSig, ofFd, ofFile, ofUse, ofAt, ofWait, ofShut, ofLost>>

----------------------------------------------------------------------------
(* Calls on descriptors.                                                    *)
OfClose(p, d) ==
  /\ OfRunning(p) /\ ofFd[p][d].file # nobody
  /\ PutFds(p, {d}) /\ ofUse' = UseAfter(Dropped(p, {d}))
  /\ ofFd' = [ofFd EXCEPT ![p][d] = EmptyFd]
  /\ UNCHANGED <<ofLive, ofSig, ofAt, ofWait, ofShut, ofLost>>

\* sys_dup (low = 0) and F_DUPFD: cloexec is copied with the descriptor.  From a
\* low below 0 the search is as from 0, unless it meets a word that is 0 before.
OfDup(p, d, low) ==
  /\ OfRunning(p) /\ ofFd[p][d].file # nobody /\ FreeFds(p, low) # {}
  /\ ofFd' = [ofFd EXCEPT ![p][Min(FreeFds(p, low))] = ofFd[p][d]]
  /\ ofFile' = [ofFile EXCEPT ![ofFd[p][d].file].ref = @ + 1]
  /\ UNCHANGED <<ofLive, ofSig, ofUse, ofAt, ofWait, ofUnit, ofShut, ofLost>>

\* sys_dup2: fd_put of the new descriptor comes first.
MutReplaced(p, n) == {}
Replaced(p, n)    == {n}
OfDup2(p, d, n) ==
  /\ OfRunning(p) /\ ofFd[p][d].file # nobody /\ d # n
  /\ LET fs == Dropped(p, Replaced(p, n)) IN
     /\ ofUnit' = UnitAfter(fs) /\ ofUse' = UseAfter(fs)
     /\ ofFile' = [FilesAfter(p, Replaced(p, n)) EXCEPT ![ofFd[p][d].file].ref = @ + 1]
  /\ ofFd' = [ofFd EXCEPT ![p][n] = ofFd[p][d]]
  /\ UNCHANGED <<ofLive, ofSig, ofAt, ofWait, ofShut, ofLost>>

\* dup2 has no check for a new descriptor below 0 and F_DUPFD none for its low:
\* the file gets one more reference, and the descriptor goes over what struct
\* process has before fd[0], cwd and root first, put by dup2 as if it were a file.
OfDupBelow(p, d) ==
  /\ OfRunning(p) /\ ofFd[p][d].file # nobody
  /\ ofFile' = [ofFile EXCEPT ![ofFd[p][d].file].ref = @ + 1]
  /\ UNCHANGED <<ofLive, ofSig, ofFd, ofUse, ofAt, ofWait, ofUnit, ofShut, ofLost>>

OfSetfd(p, d, c) ==
  /\ OfRunning(p) /\ ofFd[p][d].file # nobody /\ ofFd[p][d].cloexec # c
  /\ ofFd' = [ofFd EXCEPT ![p][d].cloexec = c]
  /\ UNCHANGED <<ofLive, ofSig, ofFile, ofUse, ofAt, ofWait, ofUnit, ofShut, ofLost>>

----------------------------------------------------------------------------
(* Calls on names.                                                          *)
\* chdir, chroot and _ctty: the reference of the lookup is kept, the old put.
MutMovedTo(use, old, i) == OfGot(use, i)
MovedTo(use, old, i)    == Gone(OfGot(use, i), old)
OfSetAt(p, what, i) ==
  /\ OfRunning(p)
  /\ ofUse' = MovedTo(ofUse, ofAt[p][what], i)
  /\ ofAt' = [ofAt EXCEPT ![p][what] = i]
  /\ UNCHANGED <<ofLive, ofSig, ofFd, ofFile, ofWait, ofUnit, ofShut, ofLost>>
OfChdir(p, i)  == i = "dir" /\ MayUse(p, i) /\ OfSetAt(p, "cwd", i)
OfChroot(p, i) == i = "dir" /\ p \in OfRoot /\ OfSetAt(p, "root", i)
OfCtty(p, i)   == (IsLine(i) \/ i = nobody) /\ p \in OfRoot /\ OfSetAt(p, "tty", i)

\* chmod and chown, for which anybody but root is refused: the reference is
\* put at the end, but not on the error paths after the lookup.  fchmod and
\* fchown get none.
Closes(i, shut) == ofShut' = IF shut THEN ofShut \cup {i} ELSE ofShut \ {i}
Mislaid(i) ==
  /\ MapThenSumSet(LAMBDA j : ofLost[j], OfInodes) < MaxLost
  /\ ofUse' = OfGot(ofUse, i) /\ ofLost' = [ofLost EXCEPT ![i] = @ + 1]
OfChmod(p, i, shut) ==
  /\ OfRunning(p) /\ (i \in ofShut) # shut
  /\ \/ p \in OfRoot /\ Closes(i, shut) /\ UNCHANGED <<ofUse, ofLost>>
     \/ p \notin OfRoot /\ Mislaid(i) /\ UNCHANGED ofShut
  /\ UNCHANGED <<ofLive, ofSig, ofFd, ofFile, ofAt, ofWait, ofUnit>>
OfFchmod(p, d, shut) ==
  /\ OfRunning(p) /\ p \in OfRoot /\ ofFd[p][d].file # nobody
  /\ ofFile[ofFd[p][d].file].ino = "reg" /\ Closes("reg", shut)
  /\ UNCHANGED <<ofLive, ofSig, ofFd, ofFile, ofUse, ofAt, ofWait, ofUnit, ofLost>>
\* utime: EPERM and EROFS return past the inode_put.
OfUtime(p, i) ==
  /\ OfRunning(p) /\ p \notin OfRoot /\ Mislaid(i)
  /\ UNCHANGED <<ofLive, ofSig, ofFd, ofFile, ofAt, ofWait, ofUnit, ofShut>>

\* sys__killf: every other process that uses the inode gets the signal.
Uses(q, i) == \/ \E w \in DOMAIN ofAt[q] : ofAt[q][w] = i
              \/ \E d \in OfFds : ofFd[q][d].file # nobody /\ ofFile[ofFd[q][d].file].ino = i
OfKillf(p, i) ==
  /\ OfRunning(p) /\ p \in OfRoot
  /\ ofSig' = ofSig \cup {q \in ofLive \ {p} : Uses(q, i)}
  /\ UNCHANGED <<ofLive, ofFd, ofFile, ofUse, ofAt, ofWait, ofUnit, ofShut, ofLost>>

----------------------------------------------------------------------------
(* fork (a child may then become another user), exec and exit.              *)
Shares(p, f) == Cardinality({d \in OfFds : ofFd[p][d].file = f})
UsedAt(p, i) == Cardinality({w \in DOMAIN ofAt[p] : ofAt[p][w] = i})
OfFork(p, c) ==
  /\ OfRunning(p) /\ c \notin ofLive
  /\ ofLive' = ofLive \cup {c}
  /\ ofFd' = [ofFd EXCEPT ![c] = ofFd[p]] /\ ofAt' = [ofAt EXCEPT ![c] = ofAt[p]]
  /\ ofFile' = [f \in OfFiles |-> [ofFile[f] EXCEPT !.ref = @ + Shares(p, f)]]
  /\ ofUse' = [i \in OfInodes |-> ofUse[i] + UsedAt(p, i)]
  /\ UNCHANGED <<ofSig, ofWait, ofUnit, ofShut, ofLost>>

\* fd_cloexec
OfExec(p) ==
  LET ds == {d \in OfFds : ofFd[p][d].cloexec} IN
  /\ OfRunning(p) /\ ds # {}
  /\ PutFds(p, ds) /\ ofUse' = UseAfter(Dropped(p, ds))
  /\ ofFd' = [ofFd EXCEPT ![p] = [d \in OfFds |-> IF d \in ds THEN EmptyFd ELSE @[d]]]
  /\ UNCHANGED <<ofLive, ofSig, ofAt, ofWait, ofShut, ofLost>>

OfExit(p) ==
  /\ p \in ofLive /\ ofWait[p] = NoWait /\ p # OfFirst
  /\ PutFds(p, OfFds)
  /\ LET use == UseAfter(Dropped(p, OfFds))
     IN  ofUse' = [i \in OfInodes |-> use[i] - UsedAt(p, i)]
  /\ ofLive' = ofLive \ {p} /\ ofSig' = ofSig \ {p}
  /\ ofFd' = [ofFd EXCEPT ![p] = [d \in OfFds |-> EmptyFd]]
  /\ ofAt' = [ofAt EXCEPT ![p] = [w \in {"cwd", "root", "tty"} |-> nobody]]
  /\ UNCHANGED <<ofWait, ofShut, ofLost>>

OfInit ==
  /\ ofLive = {OfFirst} /\ ofSig = {}
  /\ ofFd = [p \in OfProcs |-> [d \in OfFds |-> EmptyFd]]
  /\ ofFile = [f \in OfFiles |-> NoFile]
  /\ ofUse = [i \in OfInodes |-> IF i = "dir" THEN 2 ELSE 0]
  /\ ofAt = [p \in OfProcs |-> [w \in {"cwd", "root", "tty"} |->
               IF p = OfFirst /\ w # "tty" THEN "dir" ELSE nobody]]
  /\ ofWait = [p \in OfProcs |-> NoWait]
  /\ ofUnit = [open |-> 0, dev |-> "modem", carrier |-> FALSE]
  /\ ofShut = {} /\ ofLost = [i \in OfInodes |-> 0]
  /\ ofWild = FALSE

\* (a directory opened for reading is used as a regular file is)
OfStep ==
  \/ \E p \in OfProcs, i \in OfInodes, how \in {"write", "nodelay"} :
       (i = "dir" => how = "write") /\ OfOpen(p, i, how)
  \/ \E p \in OfProcs, d \in OfFds : OfClose(p, d)
  \/ \E p \in OfProcs, d \in OfFds, low \in OfFds \cup {-1} : OfDup(p, d, low)
  \/ \E p \in OfProcs, d, n \in OfFds : OfDup2(p, d, n)
  \/ \E p \in OfProcs, d \in OfFds, c \in BOOLEAN : OfSetfd(p, d, c)
  \/ \E p \in OfProcs, i \in {"dir"} : OfChdir(p, i) \/ OfChroot(p, i)
  \/ \E p \in OfProcs, i \in {"line", nobody} : OfCtty(p, i)
  \/ \E p \in OfProcs, s \in BOOLEAN : OfChmod(p, "reg", s) \/ \E d \in OfFds : OfFchmod(p, d, s)
  \/ \E p \in OfProcs : OfUtime(p, "dir")
  \/ \E p \in OfProcs, i \in OfInodes : OfKillf(p, i)
  \/ \E p \in OfProcs : OfOpened(p) \/ OfExec(p) \/ OfExit(p)
  \/ \E p, c \in OfProcs : OfFork(p, c)
  \/ \E c \in BOOLEAN : OfCarrier(c)

\* Once a descriptor has gone over the words before fd[0] the pointers to the
\* current directory, the root and the terminal are anything: the run is not
\* followed further.
OfNext ==
  /\ ~ofWild
  /\ \/ OfStep /\ ofWild' = FALSE
     \/ \E p \in OfProcs, d \in OfFds : OfDupBelow(p, d) /\ ofWild' = TRUE

OfSpec == OfInit /\ [][OfNext]_ofVars

----------------------------------------------------------------------------
(* Properties.                                                              *)

\* refcnt of a file is the number of descriptors, of all processes, that
\* lead to it, or 1 while do_open waits with it.
FilesCounted ==
  \A f \in OfFiles :
    ofFile[f].ref =
      Cardinality({x \in ofLive \X OfFds : ofFd[x[1]][x[2]].file = f})
      + Cardinality({p \in ofLive : ofWait[p] # NoWait /\ ofWait[p].file = f})

\* refcnt of an inode is the number of its uses: open files, directories,
\* roots and terminals of processes, opens that wait, and the references the
\* failing chmod, chown and utime give up.  No other path loses one.
InodesCounted ==
  \A i \in OfInodes :
    ofUse[i] = ofLost[i]
      + Cardinality({f \in OfFiles : ofFile[f].ref > 0 /\ ofFile[f].ino = i})
      + Cardinality({x \in ofLive \X {"cwd", "root", "tty"} : ofAt[x[1]][x[2]] = i})
      + Cardinality({p \in ofLive : ofWait[p] # NoWait /\ ofWait[p].ino = i})

\* The open count of the serial line is exact, and a line in use is in use
\* under one of its names only, also by those who wait for the carrier.
LineExclusive ==
  LET open == {f \in OfFiles : ofFile[f].ref > 0 /\ IsLine(ofFile[f].ino)}
      wait == {p \in ofLive : ofWait[p] # NoWait}
  IN  /\ ofUnit.open = Cardinality(open) + Cardinality(wait)
      /\ \A f \in open : ofFile[f].ino = ofUnit.dev
      /\ \A p \in wait : ofWait[p].ino = ofUnit.dev

\* Every reference to a file and to an inode is somebody's.
RefsCounted == FilesCounted /\ InodesCounted

\* Every reference to an open file and to an inode is counted (open.c, file.c),
\* and a serial line in use is in use under one of its names only (rs.c), up to
\* the first descriptor that is stored below 0.
OpenExact == ~ofWild => RefsCounted /\ LineExclusive
=============================================================================

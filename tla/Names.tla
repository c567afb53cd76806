------------------------------- MODULE Names -------------------------------
(* The name space of one file system: directory entries, ".." and link      *)
(* counts over creat, mknod, mkdir, link, unlink, rmdir and rename          *)
(* (kern/fs/mknod.c, kern/fs/dir.c), and the inodes that stay because they  *)
(* are open or somebody's working directory.                                *)
(*                                                                          *)
(* The kernel is not preemptive and none of these calls sleeps, so a call   *)
(* is one action; one that fails before it changes anything is none.        *)
(* Permissions are left out: root makes the calls.  Names are never "." or   *)
(* "..".                                                                    *)
(* A definition Mut... is a wrong form of the definition below it.          *)
EXTENDS Integers, FiniteSets, FiniteSetsExt

CONSTANTS
  NmInos,       \* the inodes of the file system
  root,       \* the root directory's
  none,       \* d_ino = 0: no inode
  Entries,    \* the names a directory may hold
  NLINK_MAX,
  MovesDirs,  \* whether directories are renamed from one parent to another
  NmMaxHeld,    \* bound: open files and working directories
  MaxStrays   \* bound: renames that fail half way, for one inode

ASSUME NamesAssumption ==
  /\ IsFiniteSet(NmInos) /\ IsFiniteSet(Entries) /\ root \in NmInos /\ none \notin NmInos
  /\ NLINK_MAX \in Nat /\ NmMaxHeld \in Nat /\ MaxStrays \in Nat
  /\ MovesDirs \in BOOLEAN

VARIABLES
  kind,    \* "free", "reg" or "dir"
  nlink,
  ent,     \* the entries of a directory but "." and "..", none if there is none
  up,      \* ".."
  nmHeld,    \* open files and working directories that refer to an inode
  strays   \* history: links a failed rename has left counted and unnamed

nmVars == <<kind, nlink, ent, up, nmHeld, strays>>

NoEntries == [n \in Entries |-> none]
IsDir(i)  == kind[i] = "dir"

----------------------------------------------------------------------------
(* dir_traverse: what can be reached from a set of inodes by names and "..".*)

NmClosed(T) ==
  \A d \in T : IsDir(d) => up[d] \in T /\ \A n \in Entries : ent[d][n] \in T \cup {none}
NmFrom(S) ==
  LET Around == {T \in SUBSET NmInos : S \subseteq T /\ NmClosed(T)}
  IN {i \in NmInos : \A T \in Around : i \in T}

Held == {i \in NmInos : nmHeld[i] > 0}
Accessible == NmFrom({root} \cup Held)
Dirs == {d \in Accessible : IsDir(d)}

\* inode_put frees what has neither a link nor a user; the mount uses the root.
MutGone(k, n) == {i \in NmInos \ {root} : k[i] # "free" /\ n[i] = 0}
Gone(k, n) == {i \in NmInos \ {root} : k[i] # "free" /\ n[i] = 0 /\ nmHeld'[i] = 0}
Put(k, n, e) ==
  /\ kind' = [i \in NmInos |-> IF i \in Gone(k, n) THEN "free" ELSE k[i]]
  /\ nlink' = n
  /\ ent' = [i \in NmInos |-> IF i \in Gone(k, n) THEN NoEntries ELSE e[i]]

----------------------------------------------------------------------------
(* New names.                                                               *)

\* dir_creat: the entry, in a free slot of the directory or at its end
DirCreat(e, d, n, i) == [e EXCEPT ![d][n] = i]

\* open with O_CREAT, mknod
Creat(d, n, i) ==
  /\ ent[d][n] = none /\ kind[i] = "free"
  /\ kind' = [kind EXCEPT ![i] = "reg"]
  /\ nlink' = [nlink EXCEPT ![i] = 1]
  /\ ent' = DirCreat([ent EXCEPT ![i] = NoEntries], d, n, i)
  /\ UNCHANGED <<up, nmHeld, strays>>

MutNewDirLinks(d, i) == [nlink EXCEPT ![i] = 2]
NewDirLinks(d, i) == [nlink EXCEPT ![d] = @ + 1, ![i] = 2]
Mkdir(d, n, i) ==
  /\ ent[d][n] = none /\ kind[i] = "free"
  /\ nlink[d] < NLINK_MAX
  /\ kind' = [kind EXCEPT ![i] = "dir"]
  /\ nlink' = NewDirLinks(d, i)
  /\ ent' = DirCreat([ent EXCEPT ![i] = NoEntries], d, n, i)
  /\ up' = [up EXCEPT ![i] = d]
  /\ UNCHANGED <<nmHeld, strays>>

MayLink(i) == nlink[i] < NLINK_MAX /\ ~IsDir(i)
Link(s, m, d, n) ==
  /\ ent[s][m] # none /\ ent[d][n] = none /\ MayLink(ent[s][m])
  /\ nlink' = [nlink EXCEPT ![ent[s][m]] = @ + 1]
  /\ ent' = DirCreat(ent, d, n, ent[s][m])
  /\ UNCHANGED <<kind, up, nmHeld, strays>>

----------------------------------------------------------------------------
(* Names that go.                                                           *)

Unlink(d, n) ==
  LET i == ent[d][n]
  IN /\ i # none /\ kind[i] = "reg"
     /\ UNCHANGED <<up, nmHeld, strays>>
     /\ Put(kind, [nlink EXCEPT ![i] = @ - 1], [ent EXCEPT ![d][n] = none])

\* The directory becomes a plain file without a name: whoever works in it
\* finds nothing there and cannot make anything there.
MutIsEmpty(i) == TRUE
IsEmpty(i)    == ent[i] = NoEntries
MutDirUnlinked(d, i) == [nlink EXCEPT ![i] = @ - 3, ![d] = @ - 1]
DirUnlinked(d, i) == [nlink EXCEPT ![i] = @ - 2, ![d] = @ - 1]
Rmdir(d, n) ==
  LET i == ent[d][n]
  IN /\ i # none /\ IsDir(i) /\ IsEmpty(i)
     /\ UNCHANGED <<up, nmHeld, strays>>
     /\ Put([kind EXCEPT ![i] = "reg"], DirUnlinked(d, i),
            [ent EXCEPT ![d][n] = none])

----------------------------------------------------------------------------
(* rename                                                                   *)

\* dir_creat made the new name, or failed otherwise than with EEXIST: the
\* code goes on either way and takes the old name out.
Moved(d1, n1, d2, n2, made) ==
  LET i == ent[d1][n1]
      e == IF made THEN DirCreat(ent, d2, n2, i) ELSE ent
  IN [e EXCEPT ![d1][n1] = none]

Reparent(i, d) == IF IsDir(i) THEN [up EXCEPT ![i] = d] ELSE up

Strayed(d, i, made) ==
  IF made THEN strays
          ELSE [j \in NmInos |-> IF j = i \/ (j = d /\ IsDir(i)) THEN strays[j] + 1
                                                              ELSE strays[j]]
\* When dir_reparent fails ".." keeps its old number; where directories stay in
\* their parent (MovesDirs = FALSE) that is the number it would be given.
RenameNew(d1, n1, d2, n2, made) ==
  LET i == ent[d1][n1]
  IN /\ i # none /\ ent[d2][n2] = none
     /\ (IsDir(i) /\ d1 # d2) => MovesDirs
     /\ made \/ strays[i] < MaxStrays
     /\ ent' = Moved(d1, n1, d2, n2, made)
     /\ up' = Reparent(i, d2)
     /\ strays' = Strayed(d1, i, made)
     /\ UNCHANGED <<kind, nlink, nmHeld>>

\* The name is there: it is taken over, unless it is a directory's.
Replaced(i, j)    == [nlink EXCEPT ![j] = @ - 1]
RenameOver(d1, n1, d2, n2) ==
  LET i == ent[d1][n1]
      j == ent[d2][n2]
  IN /\ i # none /\ j # none
     /\ i # j /\ ~IsDir(j)
     /\ (IsDir(i) /\ d1 # d2) => MovesDirs
     /\ up' = Reparent(i, d2)
     /\ UNCHANGED <<nmHeld, strays>>
     /\ Put(kind, Replaced(i, j), Moved(d1, n1, d2, n2, TRUE))

----------------------------------------------------------------------------
(* open and chdir, close, exit and chdir away.                              *)

Users == MapThenSumSet(LAMBDA i : nmHeld[i], NmInos)
Hold(i) ==
  /\ i \in Accessible /\ Users < NmMaxHeld
  /\ nmHeld' = [nmHeld EXCEPT ![i] = @ + 1]
  /\ UNCHANGED <<kind, nlink, ent, up, strays>>

NmRelease(i) ==
  /\ nmHeld[i] > 0
  /\ nmHeld' = [nmHeld EXCEPT ![i] = @ - 1]
  /\ Put(kind, nlink, ent)
  /\ UNCHANGED <<up, strays>>

----------------------------------------------------------------------------
\* mkfs: an empty root.
NmInit ==
  /\ kind = [i \in NmInos |-> IF i = root THEN "dir" ELSE "free"]
  /\ nlink = [i \in NmInos |-> IF i = root THEN 2 ELSE 0]
  /\ ent = [i \in NmInos |-> NoEntries]
  /\ up = [i \in NmInos |-> root]
  /\ nmHeld = [i \in NmInos |-> 0]
  /\ strays = [i \in NmInos |-> 0]

NmNext ==
  \/ LET D == Dirs
     IN \E d \in D, n \in Entries :
          \/ \E i \in NmInos : Creat(d, n, i) \/ Mkdir(d, n, i)
          \/ Unlink(d, n) \/ Rmdir(d, n)
          \/ \E d2 \in D, n2 \in Entries :
               \/ Link(d, n, d2, n2)
               \/ \E made \in BOOLEAN : RenameNew(d, n, d2, n2, made)
               \/ RenameOver(d, n, d2, n2)
  \/ \E i \in NmInos : Hold(i) \/ NmRelease(i)
NmSpec == NmInit /\ [][NmNext]_nmVars

----------------------------------------------------------------------------
(* Properties.                                                              *)

\* Every field keeps its type; a link count is never negative.
NmTypeOK ==
  /\ kind \in [NmInos -> {"free", "reg", "dir"}]
  /\ nlink \in [NmInos -> Nat]
  /\ ent \in [NmInos -> [Entries -> NmInos \cup {none}]]
  /\ up \in [NmInos -> NmInos]
  /\ nmHeld \in [NmInos -> Nat]
  /\ strays \in [NmInos -> Nat]

Named(i)   == {p \in NmInos \X Entries : IsDir(p[1]) /\ ent[p[1]][p[2]] = i}
Subdirs(d) == {n \in Entries : ent[d][n] # none /\ IsDir(ent[d][n])}

\* No name leads to an inode that has been freed and no user keeps one: the
\* next file made would show up there.
NoDangling ==
  /\ \A d \in NmInos, n \in Entries :
       IsDir(d) /\ ent[d][n] # none => kind[ent[d][n]] # "free"
  /\ \A i \in Held : kind[i] # "free"

\* What fsck compares as "nlink": the names of an inode, for a directory its
\* "." and the ".." of its subdirectories too, and what a failed rename left.
NlinkExact ==
  \A i \in NmInos : kind[i] # "free" =>
    nlink[i] = Cardinality(Named(i)) + strays[i]
                 + (IF IsDir(i) THEN 1 + Cardinality(Subdirs(i)) ELSE 0)
                 + (IF i = root THEN 1 ELSE 0)

\* Nothing in use is out of everybody's reach, except what a failed rename
\* took the name from and what is below that.
NothingUnreachable ==
  \A i \in NmInos : kind[i] # "free" =>
    i \in NmFrom({root} \cup Held \cup {j \in NmInos : strays[j] > 0})

\* Directories form a tree that ".." climbs: each has one name, in the
\* directory its ".." leads to, and the root has none.
Tree ==
  \A i \in NmInos : IsDir(i) =>
    /\ Cardinality(Named(i)) <= 1
    /\ i = root => Named(i) = {}
    /\ \A x \in Named(i) : up[i] = x[1]

\* The directories are a tree and every link in it is counted.
LinksExact == Tree /\ NlinkExact

\* No name or user leads to a freed inode, nothing is out of reach, and the
\* directories are a tree whose links are counted.
NamesExact == NmTypeOK /\ NoDangling /\ NothingUnreachable /\ LinksExact
=============================================================================

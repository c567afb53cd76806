------------------------------- MODULE Mount -------------------------------
(* Mounted file systems and the inode table: kern/fs/mount.c and            *)
(* kern/fs/inode.c.  mountroot, do_mount, do_umount, sys__readwrite, sync   *)
(* and psync; inode_get, inode_put and inode_sync; what programs do with    *)
(* the inodes they hold (as a directory or as an open file).                *)
(*                                                                          *)
(* A path is walked one component at a time from a directory that somebody  *)
(* holds; a longer path is a sequence of such steps.  The disk blocks of an *)
(* inode go through the buffer cache, which is the abstract store here      *)
(* (module BlockStore); what an inode contains is one of three values.      *)
(* panic() ends the run.                                                    *)
(* A definition Mut... is a wrong form of the definition below it.          *)
EXTENDS Integers, FiniteSets, FiniteSetsExt

CONSTANTS
  Devs, rootdev,  \* block devices, and the one mountroot is given
  NSUPER,         \* entries of super[], 8 in the code
  NINODE,         \* entries of inode[], 200 in the code
  Inos, ROOT,     \* inode numbers, and sb->root
  Blank,          \* devices whose root inode has never been written, mode 0
  BusyDirs,       \* umount is tried while programs hold the mount point
  MaxHeld         \* bound: references to one inode that programs keep

ASSUME MountAssumption ==
  /\ rootdev \in Devs /\ ROOT \in Inos /\ Blank \subseteq Devs
  /\ NSUPER \in Nat \ {0} /\ NINODE \in Nat \ {0} /\ MaxHeld \in Nat \ {0, 1}
  /\ BusyDirs \in BOOLEAN

Supers == 1 .. NSUPER
Slots  == 1 .. NINODE
NULL   == 0
Vals   == {"blank", "x", "y"}

VARIABLES
  mounted, ro, dev,  \* fields of super[]
  freemap,           \* freemap[s] has been loaded
  inode,             \* the table: records with the fields of struct inode
  held,              \* references to each entry that programs keep
  store,             \* the inodes as the block layer has them
  cur,               \* history: the inodes as they were last set
  panicked           \* the argument of panic(), or ""

superv == <<mounted, ro, dev, freemap>>
vars == <<superv, inode, held, store, cur, panicked>>

----------------------------------------------------------------------------
(* The inode table.  A table t is a value, so that a call may go through    *)
(* several of them.                                                         *)

Empty == [refcnt |-> 0, sb |-> 1, ino |-> ROOT, dirty |-> 0,
          mnt_dir |-> NULL, mnt_root |-> NULL, d |-> "blank"]

\* The entry inode_get finds for inode i of super s.
MutIs(e, s, i) == e.refcnt > 0 /\ e.sb = s /\ e.ino = i /\ e.mnt_root = NULL
Is(e, s, i)    == e.refcnt > 0 /\ e.sb = s /\ e.ino = i
Found(t, s, i) == {n \in Slots : Is(t[n], s, i)}
Free(t) == {n \in Slots : t[n].refcnt = 0}

\* inode_get(s, i): it can succeed, with entry Got and table GetTable, if the
\* inode is there or an entry is free (the last one is taken).  The root of a
\* file system mounted on the inode is returned in its place.
CanGet(t, s, i) == Found(t, s, i) \cup Free(t) # {}
Got(t, s, i) ==
  IF Found(t, s, i) = {} THEN Max(Free(t))
  ELSE LET m == Min(Found(t, s, i))
       IN IF t[m].mnt_root # NULL THEN t[m].mnt_root ELSE m
MutLoad(e, s, i) == [e EXCEPT !.sb = s, !.ino = i, !.dirty = 0, !.mnt_dir = NULL]
Load(e, s, i) == [e EXCEPT !.sb = s, !.ino = i, !.dirty = 0,
                           !.mnt_dir = NULL, !.mnt_root = NULL]
GetTable(t, s, i, v) ==
  IF Found(t, s, i) # {}
    THEN [t EXCEPT ![Got(t, s, i)].refcnt = @ + 1]
    ELSE [t EXCEPT ![Got(t, s, i)] =
            [Load(@, s, i) EXCEPT !.refcnt = 1, !.d = store[v][i]]]

\* It fails: the table is full, or the inode cannot be read into the entry.
GetFails(t, s, i) == Found(t, s, i) = {}
FailTable(t, s, i) ==
  IF Free(t) = {} THEN t ELSE [t EXCEPT ![Max(Free(t))] = Load(@, s, i)]

\* Device and number of the inode in an entry.
Id(t, n) == <<dev[t[n].sb], t[n].ino>>

\* inode_write of the entries of W.  For those of L blk_get fails; a change
\* that is thrown away then, with its entry in G, is taken back.
Write(t, W, L, G) ==
  /\ store' = [v \in Devs |-> [i \in Inos |->
                 IF \E n \in W \ L : Id(t, n) = <<v, i>>
                   THEN t[CHOOSE n \in W \ L : Id(t, n) = <<v, i>>].d
                   ELSE store[v][i]]]
  /\ cur' = [v \in Devs |-> [i \in Inos |->
               IF \E n \in L \cap G : Id(t, n) = <<v, i>> THEN store[v][i]
                                                          ELSE cur[v][i]]]

\* inode_write asserts that the file system is writable.
Panics(t, W) == \E n \in W : ro[t[n].sb]

\* inode_put of entry n: the last one writes it, and forgets it even if that
\* fails.
MutFlushed(t, n) == t[n].refcnt = 1 /\ t[n].dirty > 1
Flushed(t, n)    == t[n].refcnt = 1 /\ t[n].dirty > 0
PutTable(t, n) == [t EXCEPT ![n].refcnt = @ - 1,
                            ![n].dirty = IF t[n].refcnt = 1 THEN 0 ELSE @]

Panic(msg) == /\ panicked' = msg
              /\ UNCHANGED <<superv, inode, held, store, cur>>
Running == panicked = ""

----------------------------------------------------------------------------
(* What programs do.                                                        *)

\* The directories a path may start from: the root, the current directories
\* and, for "..", the directory a mounted root covers.
From == {c \in Slots : \/ held[c] > 0
                       \/ \E n \in Slots : held[n] > 0 /\ inode[n].mnt_dir = c}

\* A program looks up inode i in directory c and keeps it.
Lookup(c, i) ==
  LET s == inode[c].sb
      n == Got(inode, s, i)
  IN /\ Running /\ c \in From /\ CanGet(inode, s, i)
     /\ held[n] < MaxHeld
     /\ inode' = GetTable(inode, s, i, dev[s])
     /\ held' = [held EXCEPT ![n] = @ + 1]
     /\ UNCHANGED <<superv, store, cur, panicked>>

LookupFails(c, i) ==
  /\ Running /\ c \in From
  /\ GetFails(inode, inode[c].sb, i)
  /\ inode' = FailTable(inode, inode[c].sb, i)
  /\ UNCHANGED <<superv, held, store, cur, panicked>>

\* A program lets go of inode n.  The root directory of init stays held.
Release(n) ==
  /\ Running
  /\ held[n] > (IF n = NINODE THEN 1 ELSE 0)
  /\ LET W == IF Flushed(inode, n) THEN {n} ELSE {}
     IN \/ /\ Panics(inode, W)
           /\ Panic("iwrite ro fs")
        \/ /\ ~Panics(inode, W)
           /\ held' = [held EXCEPT ![n] = @ - 1]
           /\ inode' = PutTable(inode, n)
           /\ \E L \in SUBSET W : Write(inode, W, L, {n})
           /\ UNCHANGED <<superv, panicked>>

\* A program changes an inode it holds; the callers all test sb->ro first.
\* How urgent the change is, dirty, 1 or 2, depends on the call.
MutMayModify(n) == TRUE
MayModify(n)    == ~ro[inode[n].sb]
Modify(n, x, k) ==
  /\ Running /\ held[n] > 0 /\ MayModify(n)
  /\ inode[n].d # x
  /\ inode' = [inode EXCEPT ![n].d = x, ![n].dirty = Max({@, k})]
  /\ cur' = [cur EXCEPT ![dev[inode[n].sb]][inode[n].ino] = x]
  /\ UNCHANGED <<superv, held, store, panicked>>

----------------------------------------------------------------------------
(* mount and umount.                                                        *)

\* read_super uses the first free entry for a device that is not mounted.
SuperFor(v) ==
  {s \in Supers : /\ ~\E k \in Supers : mounted[k] /\ dev[k] = v
                  /\ ~mounted[s] /\ \A k \in Supers : k < s => mounted[k]}

\* The mount point of do_mount, inode i of directory c, can be found and
\* covered: entry m of table t.
At(c, i) == /\ Running /\ c \in From /\ CanGet(inode, inode[c].sb, i)
Point(c, i) == Got(inode, inode[c].sb, i)
PointTable(c, i) == GetTable(inode, inode[c].sb, i, dev[inode[c].sb])
MayCover(t, m) == t[m].mnt_dir = NULL /\ t[m].mnt_root = NULL

\* load_freemap, for a file system that is not read-only, meets no older map.
Loads(s, r) == r \/ ~freemap[s]
\* save_freemap has nothing to save from.
MapMissing(s) == ~ro[s] /\ ~freemap[s]

\* do_mount of device v, read-only if r.  A root inode that was never written
\* is made a directory, and then the file system is writable whatever r says.
FirstMount(e) == e.d = "blank"
Cover(t, m, n) ==
  [t EXCEPT ![m].mnt_root = n,
            ![n].mnt_dir  = m,
            ![n].d        = IF FirstMount(t[n]) THEN "x" ELSE @,
            ![n].dirty    = IF FirstMount(t[n]) THEN 2 ELSE @]
DoMount(c, i, v, r) ==
  /\ At(c, i)
  /\ \E s \in SuperFor(v) :
       LET m == Point(c, i)
           t == PointTable(c, i)
           n == Got(t, s, ROOT)
           u == GetTable(t, s, ROOT, v)
       IN /\ MayCover(t, m) /\ CanGet(t, s, ROOT)
          /\ Loads(s, r)
          /\ inode' = Cover(u, m, n)
          /\ mounted' = [mounted EXCEPT ![s] = TRUE]
          /\ dev' = [dev EXCEPT ![s] = v]
          /\ ro' = [ro EXCEPT ![s] = r /\ ~FirstMount(u[n])]
          /\ freemap' = [freemap EXCEPT ![s] = @ \/ ~r]
          /\ cur' = IF FirstMount(u[n]) THEN [cur EXCEPT ![v][ROOT] = "x"] ELSE cur
  /\ UNCHANGED <<held, store, panicked>>

\* do_mount cannot get the root inode: it puts back the mount point and the
\* entry of super[], but not the free map.
MountFails(c, i, v, r) ==
  /\ At(c, i)
  /\ \E s \in SuperFor(v) :
       LET m == Point(c, i)
           t == PointTable(c, i)
       IN /\ MayCover(t, m) /\ GetFails(t, s, ROOT)
          /\ Loads(s, r)
          /\ inode' = PutTable(FailTable(t, s, ROOT), m)
          /\ dev' = [dev EXCEPT ![s] = v]
          /\ ro' = [ro EXCEPT ![s] = r]
          /\ freemap' = [freemap EXCEPT ![s] = @ \/ ~r]
  /\ UNCHANGED <<mounted, held, store, cur, panicked>>

\* load_freemap finds that there is a map already.
MountPanics(c, i, v) ==
  /\ At(c, i) /\ MayCover(PointTable(c, i), Point(c, i))
  /\ \E s \in SuperFor(v) : freemap[s]
  /\ Panic("have freemap")

\* do_umount of the root n of a mounted file system, found through its mount
\* point: nothing of it may be in use.
Idle(n) == /\ inode[n].refcnt = 1
           /\ \A k \in Slots \ {n} : inode[k].refcnt = 0 \/ inode[k].sb # inode[n].sb

\* The table after the two inode_put and the inode_sync.  The mount point
\* keeps its mnt_root.
MutUncover(n) == PutTable(inode, n)
MutTwice(n)   == PutTable(PutTable(PutTable(inode, n), inode[n].mnt_dir), inode[n].mnt_dir)
Uncover(n)    == PutTable(PutTable(inode, n), inode[n].mnt_dir)
DoUmount(n) ==
  /\ Running /\ inode[n].mnt_dir # NULL
  /\ \E c \in Slots : inode[c].refcnt > 0 /\ inode[c].mnt_root = n
  /\ Idle(n)
  /\ BusyDirs \/ held[inode[n].mnt_dir] = 0
  /\ LET s == inode[n].sb
         W == {k \in Slots : inode[k].dirty > 0}
     IN \/ /\ Panics(inode, W)
           /\ Panic("iwrite ro fs")
        \/ /\ ~Panics(inode, W) /\ MapMissing(s)
           /\ Panic("no freemap")
        \/ /\ ~Panics(inode, W) /\ ~MapMissing(s)
           /\ \E L \in SUBSET W :
                /\ Write(inode, W, L, Free(Uncover(n)))
                /\ inode' = [k \in Slots |->
                               IF k \in W \ L THEN [Uncover(n)[k] EXCEPT !.dirty = 0]
                                              ELSE Uncover(n)[k]]
           /\ mounted' = [mounted EXCEPT ![s] = FALSE]
           /\ freemap' = [freemap EXCEPT ![s] = FALSE]
           /\ UNCHANGED <<ro, dev, held, panicked>>

----------------------------------------------------------------------------
(* sync, and the change to read-write.                                      *)

\* sys_sync (level 1) and psync (level 2): the free maps, then the inodes.
Sync(level) ==
  LET W == {n \in Slots : inode[n].dirty >= level}
  IN /\ Running
     /\ \/ /\ \E s \in Supers : mounted[s] /\ MapMissing(s)
           /\ Panic("no freemap")
        \/ /\ \A s \in Supers : mounted[s] => ~MapMissing(s)
           /\ Panics(inode, W)
           /\ Panic("iwrite ro fs")
        \/ /\ \A s \in Supers : mounted[s] => ~MapMissing(s)
           /\ ~Panics(inode, W)
           /\ \E L \in SUBSET W :
                /\ Write(inode, W, L, {})
                /\ inode' = [n \in Slots |-> IF n \in W \ L
                                THEN [inode[n] EXCEPT !.dirty = 0] ELSE inode[n]]
           /\ UNCHANGED <<superv, held, panicked>>

\* sys__readwrite, for the root file system; load_freemap may fail.
ReadWrite ==
  /\ Running
  /\ LET s == inode[NINODE].sb
     IN /\ ro[s]
        /\ \/ freemap[s] /\ Panic("have freemap")
           \/ /\ ~freemap[s]
              /\ freemap' = [freemap EXCEPT ![s] = TRUE]
              /\ ro' = [ro EXCEPT ![s] = FALSE]
              /\ UNCHANGED <<mounted, dev, inode, held, store, cur, panicked>>

----------------------------------------------------------------------------
\* mountroot has run: the root inode is in the last entry, and is the root
\* and the current directory of init.
Init ==
  /\ mounted = [s \in Supers |-> s = 1]
  /\ \E r \in BOOLEAN :
       /\ ro = [s \in Supers |-> s = 1 /\ r /\ rootdev \notin Blank]
       /\ freemap = [s \in Supers |-> s = 1 /\ ~r]
  /\ dev = [s \in Supers |-> rootdev]
  /\ store = [v \in Devs |-> [i \in Inos |->
                IF v \in Blank /\ i = ROOT THEN "blank" ELSE "x"]]
  /\ cur = [v \in Devs |-> [i \in Inos |->
              IF v \in Blank \ {rootdev} /\ i = ROOT THEN "blank" ELSE "x"]]
  /\ inode = [n \in Slots |->
                IF n = NINODE
                  THEN [Empty EXCEPT !.refcnt = 3, !.d = "x",
                                     !.dirty = IF rootdev \in Blank THEN 2 ELSE 0]
                  ELSE Empty]
  /\ held = [n \in Slots |-> IF n = NINODE THEN 2 ELSE 0]
  /\ panicked = ""

Next ==
  \/ \E c \in Slots, i \in Inos : Lookup(c, i) \/ LookupFails(c, i)
  \/ \E n \in Slots : Release(n) \/ DoUmount(n)
  \/ \E n \in Slots, x \in Vals \ {"blank"}, k \in {1, 2} : Modify(n, x, k)
  \/ \E c \in Slots, i \in Inos, v \in Devs, r \in BOOLEAN :
       DoMount(c, i, v, r) \/ MountFails(c, i, v, r)
  \/ \E c \in Slots, i \in Inos, v \in Devs : MountPanics(c, i, v)
  \/ \E level \in {1, 2} : Sync(level)
  \/ ReadWrite

Spec == Init /\ [][Next]_vars

----------------------------------------------------------------------------
(* Properties.                                                              *)

Entry == [refcnt : Nat, sb : Supers, ino : Inos, dirty : 0 .. 2,
          mnt_dir : Slots \cup {NULL}, mnt_root : Slots \cup {NULL}, d : Vals]
\* Every field keeps its type; a reference count is never negative.
TypeOK ==
  /\ mounted \in [Supers -> BOOLEAN] /\ ro \in [Supers -> BOOLEAN]
  /\ dev \in [Supers -> Devs] /\ freemap \in [Supers -> BOOLEAN]
  /\ inode \in [Slots -> Entry] /\ held \in [Slots -> Nat]
  /\ store \in [Devs -> [Inos -> Vals]] /\ cur \in [Devs -> [Inos -> Vals]]
  /\ panicked \in {"", "iwrite ro fs", "no freemap", "have freemap"}

Used(n) == inode[n].refcnt > 0

\* An inode is never in the table twice: two programs that open a file by
\* different ways, across mount points too, share one copy.  Whatever is used
\* belongs to a mounted file system: umount leaves nothing of it in the
\* table, however mounts are nested.
OneInode ==
  \A m, n \in Slots : Used(m) /\ Used(n) =>
    /\ mounted[inode[m].sb]
    /\ inode[m].sb = inode[n].sb /\ inode[m].ino = inode[n].ino => m = n

\* The pairs of a mount point and the root mounted on it.
Mounts == {x \in Slots \X Slots : Used(x[2]) /\ inode[x[2]].mnt_dir = x[1]}

\* Every reference is a program's, a mount's on its root or on its mount
\* point, or the one mountroot keeps.
RefsExact ==
  \A n \in Slots :
    inode[n].refcnt = held[n] + Cardinality({p \in Mounts : p[1] = n})
                      + Cardinality({p \in Mounts : p[2] = n})
                      + (IF n = NINODE THEN 1 ELSE 0)

\* A mount point leads to a root that is in use and knows the mount point.
MountLinks ==
  \A m \in Slots : Used(m) /\ inode[m].mnt_root # NULL =>
    Used(inode[m].mnt_root) /\ inode[inode[m].mnt_root].mnt_dir = m

\* No change of an inode gets lost on its way through the table, unless its
\* write was reported to fail.
NothingLost ==
  \A v \in Devs, i \in Inos :
    IF \E n \in Slots : Used(n) /\ dev[inode[n].sb] = v /\ inode[n].ino = i
      THEN \A n \in Slots : Used(n) /\ dev[inode[n].sb] = v /\ inode[n].ino = i
             => inode[n].d = cur[v][i]
      ELSE store[v][i] = cur[v][i]

\* A changed inode can still be written when its turn comes, and a writable
\* file system has its free map: neither inode_write nor save_freemap panics.
NoPanic == panicked \notin {"iwrite ro fs", "no freemap"}

\* An entry of super[] that is taken into use has no free map yet, as
\* load_freemap asserts.
MapOfUnused == panicked # "have freemap"

\* The inode table through every nesting of mounts: one copy of an inode, every
\* reference somebody's, mount points and roots in pairs.
InodesExact == TypeOK /\ OneInode /\ RefsExact /\ MountLinks

\* What was changed reaches its device or is still in the table, and can be
\* written: neither inode_write nor save_freemap panics.
ChangesKept == NothingLost /\ NoPanic
=============================================================================

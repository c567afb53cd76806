--------------------------------- MODULE Fsck ---------------------------------
(* mkfs (cmd/sbin/mkfs.c), which builds a file system from a source tree,     *)
(* and fsck (cmd/sbin/fsck.c), which checks and repairs one.  A file system   *)
(* is made, damaged in a few places, and checked.                             *)
(* A definition Mut... is a wrong form of the definition below it.            *)
EXTENDS Naturals, Sequences, FiniteSets, FiniteSetsExt, SequencesExt

CONSTANTS
  Dblock,      \* first data block: boot, super and bitmap blocks come before
  Nblocks,     \* size of the device
  Direct,      \* direct blocks of an inode (BMAP0_SIZE)
  PerMap,      \* entries of a map block
  DirEnts,     \* entries of a directory block, "." and ".." not counted
  MAXLNK,      \* links mkfs remembers
  FkSizes,     \* sizes of the files mkfs is given, in blocks
  MaxDamage    \* places damaged, for TLC

ASSUME FsckAssumption ==
  /\ {Dblock, Nblocks, Direct, PerMap, DirEnts, MAXLNK, MaxDamage} \subseteq Nat
  /\ Dblock < Nblocks /\ FkSizes \subseteq 0 .. Direct + PerMap

VARIABLES
  fkPhase,     \* mkfs, made, used
  fkDisk,      \* contents of the data blocks
  fkMap,       \* the bitmap: blocks in use
  fkNext,      \* mkfs: sb.freeblk
  fkOpen,      \* mkfs: the directories being copied, innermost last
  fkLinks,     \* mkfs: links[]
  fkHurt,      \* places damaged so far
  fkPasses,    \* calls of fsck -f since
  fkKept       \* history: blocks in use after the last damage

fkVars == <<fkPhase, fkDisk, fkMap, fkNext, fkOpen, fkLinks, fkHurt, fkPasses, fkKept>>

FkBlocks == Dblock .. Nblocks - 1
FkRoot   == Dblock            \* sb.root
Bad      == Nblocks           \* a block number out of range
InRange(b) == b \in FkBlocks  \* ~brange(b)
FreeBlk  == [k |-> "free"]
InodeBlk(type, nlink, count, d, i, size) ==
  [k |-> "ino", type |-> type, nlink |-> nlink, count |-> count, d |-> d, i |-> i, size |-> size]
\* n numbers of s after the first from, and zeros
Slice(s, from, n) == [j \in 1 .. n |-> IF from + j <= Len(s) THEN s[from + j] ELSE 0]
Written(disk, f) == [b \in FkBlocks |-> IF b \in DOMAIN f THEN f[b] ELSE disk[b]]

----------------------------------------------------------------------------
(* mkfs.  Blocks are handed out in order (allocblk).                        *)
Top == fkOpen[Len(fkOpen)]
Addent(dir, ino) == [dir EXCEPT !.ents = Append(@, ino)]
WithTop(dir)  == [fkOpen EXCEPT ![Len(fkOpen)] = dir]
Remember(ino) == IF Len(fkLinks) < MAXLNK THEN Append(fkLinks, [ino |-> ino, nlink |-> 1]) ELSE fkLinks
MkGrows(need) == fkPhase = "mkfs" /\ fkNext + need <= Nblocks

\* file_add of a regular file of n blocks: inode, data, then its map block.
\* Files with several names in the source, and directories, are remembered.
MkFile(n, linked) ==
  LET maps == IF n > Direct THEN 1 ELSE 0
      data == [j \in 1 .. n |-> fkNext + j]
      mapb == fkNext + n + 1
      ino  == InodeBlk("reg", 1, n + maps, Slice(data, 0, Direct), maps * mapb, 0)
  IN  /\ MkGrows(1 + n + maps) /\ Len(Top.ents) < Direct * DirEnts
      /\ fkDisk' = Written(fkDisk, [b \in fkNext .. fkNext + n + maps |->
           IF b = fkNext THEN ino ELSE IF b = mapb
           THEN [k |-> "map", e |-> Slice(data, Direct, PerMap)]
           ELSE [k |-> "data"]])
      /\ fkNext' = fkNext + 1 + n + maps
      /\ fkOpen' = WithTop(Addent(Top, fkNext))
      /\ fkLinks' = IF linked THEN Remember(fkNext) ELSE fkLinks
      /\ UNCHANGED <<fkPhase, fkMap, fkHurt, fkPasses, fkKept>>

\* file_add of another name of a file that is remembered.
MkLink(l) ==
  /\ fkPhase = "mkfs" /\ l \in 1 .. Len(fkLinks) /\ fkDisk[fkLinks[l].ino].type = "reg"
  /\ Len(Top.ents) < Direct * DirEnts
  /\ fkOpen' = WithTop(Addent(Top, fkLinks[l].ino))
  /\ fkLinks' = [fkLinks EXCEPT ![l].nlink = @ + 1]
  /\ UNCHANGED <<fkPhase, fkDisk, fkMap, fkNext, fkHurt, fkPasses, fkKept>>

\* file_copydir: file_mkdirhead counts the ".." of the parent.
MkDir ==
  /\ MkGrows(1) /\ Len(Top.ents) < Direct * DirEnts
  /\ fkOpen' = Append(WithTop([Top EXCEPT !.nlink = @ + 1]),
                      [ino |-> fkNext, ents |-> << >>, nlink |-> 1])
  /\ fkNext' = fkNext + 1
  /\ UNCHANGED <<fkPhase, fkDisk, fkMap, fkLinks, fkHurt, fkPasses, fkKept>>

\* file_close of a directory: its last block and its inode.  For the root,
\* patchlinks, initmap and wsuper follow.
DirBlocks(dir) == IF dir.ents = << >> THEN 1 ELSE (Len(dir.ents) + DirEnts - 1) \div DirEnts
Closed(disk, dir) ==
  LET n == DirBlocks(dir) IN
  Written(disk, [b \in {dir.ino} \cup (fkNext .. fkNext + n - 1) |->
    IF b = dir.ino
    THEN InodeBlk("dir", dir.nlink, n, Slice([j \in 1 .. n |-> fkNext + j - 1], 0, Direct), 0, Len(dir.ents))
    ELSE [k |-> "dir", e |-> Slice(dir.ents, (b - fkNext) * DirEnts, DirEnts)]])
Patched(disk) ==
  Written(disk, [b \in {fkLinks[l].ino : l \in 1 .. Len(fkLinks)} |->
    [disk[b] EXCEPT !.nlink = (CHOOSE x \in ToSet(fkLinks) : x.ino = b).nlink]])
MkEnd ==
  /\ MkGrows(DirBlocks(Top))
  /\ fkNext' = fkNext + DirBlocks(Top)
  /\ IF Len(fkOpen) > 1
     THEN /\ fkDisk' = Closed(fkDisk, Top)
          /\ fkOpen' = [Front(fkOpen) EXCEPT ![Len(fkOpen) - 1] = Addent(@, Top.ino)]
          /\ fkLinks' = Remember(Top.ino)
          /\ UNCHANGED <<fkPhase, fkMap>>
     ELSE /\ fkDisk' = Closed(Patched(fkDisk), Top)
          /\ fkMap' = 0 .. fkNext' - 1
          /\ fkOpen' = << >> /\ fkLinks' = << >> /\ fkPhase' = "made"
  /\ UNCHANGED <<fkHurt, fkPasses, fkKept>>

----------------------------------------------------------------------------
(* fsck.                                                                    *)
DirPtrs(i)   == {i.d[j] : j \in 1 .. Direct} \ {0}
Maps(disk, i) == {b \in {i.i} : InRange(b) /\ disk[b].k = "map"}
\* Files here have one level of maps; maps of maps are left out.
MapPtrs(disk, i) == UNION {{disk[b].e[j] : j \in 1 .. PerMap} \ {0} : b \in Maps(disk, i)}
MapCount(disk, i) == IF Maps(disk, i) = {} THEN 0
                     ELSE 1 + Cardinality({j \in 1 .. PerMap : InRange(disk[i.i].e[j])})

\* cdirb: entries up to the first one that is out of range.
Cdirb(e) == {j \in 1 .. DirEnts : e[j] # 0 /\ \A m \in 1 .. j : e[m] = 0 \/ InRange(e[m])}
BlocksOf(disk, i) == {b \in DirPtrs(i) : InRange(b) /\ disk[b].k = "dir"}
\* The names a directory has, as (block, place) pairs; all of them, or those seen.
Names(disk, i, Seen(_)) ==
  IF i.type # "dir" THEN {} ELSE {<<b, j>> \in BlocksOf(disk, i) \X (1 .. DirEnts) : j \in Seen(disk[b].e)}
AllValid(e) == {j \in 1 .. DirEnts : InRange(e[j])}

\* cinode visits every inode once: those reached from the root.
FkReach(disk, Seen(_)) ==
  LET R[n \in Nat] ==
        IF n = 0 THEN {FkRoot}
        ELSE LET r == R[n - 1]
             IN  r \cup {disk[x[1]].e[x[2]] : x \in UNION {Names(disk, disk[b], Seen) : b \in r}}
  IN  R[(Nblocks - Dblock) \div 2]
\* rcm: names, "." and the ".." of subdirectories
Links(disk, Seen(_), R, b) ==
  LET names  == UNION {Names(disk, disk[d], Seen) : d \in R}
      Of(x)  == disk[x[1]].e[x[2]]
      dirs   == {x \in Names(disk, disk[b], Seen) : disk[Of(x)].type = "dir"}
  IN  Cardinality({x \in names : Of(x) = b})
      + (IF disk[b].type # "dir" THEN 0
         ELSE 1 + (IF b = FkRoot THEN 1 ELSE 0) + Cardinality(dirs))
\* bam: what the inodes seen use
Bam(disk, R) ==
  (0 .. Dblock - 1) \cup R
  \cup UNION {{p \in DirPtrs(disk[b]) \cup Maps(disk, disk[b]) \cup MapPtrs(disk, disk[b]) : InRange(p)} : b \in R}
\* bc: out of range direct blocks are counted before they are looked at
MutBc(disk, i) == Cardinality({j \in 1 .. Direct : i.d[j] # 0}) + Cardinality(MapPtrs(disk, i))
Bc(disk, i)    == Cardinality({j \in 1 .. Direct : i.d[j] # 0}) + MapCount(disk, i)
\* entries a directory needs to show, by its last block
Needs(disk, i) ==
  LET last == {j \in 1 .. Direct : i.d[j] \in BlocksOf(disk, i)}
  IN  IF last = {} THEN 0
      ELSE LET e  == disk[i.d[Max(last)]].e
               us == {j \in 1 .. DirEnts : e[j] # 0}
               ok == Cdirb(e) \cup {j \in us : \A m \in us : m < j => InRange(e[m])}
           IN  IF ok = {} THEN 0 ELSE (Max(last) - 1) * DirEnts + Max(ok)

\* One inode after fsck -f has gone over it, but for nlink.
Mended(disk, i) ==
  LET fixed == [i EXCEPT !.d = [j \in 1 .. Direct |-> IF InRange(@[j]) THEN @[j] ELSE 0],
                         !.i = IF InRange(@) THEN @ ELSE 0,
                         !.count = Bc(disk, i),
                         !.type = IF @ = "junk" THEN "reg" ELSE @]
  IN  IF i.type = "dir" /\ i.size < Needs(disk, i) THEN [fixed EXCEPT !.size = Needs(disk, i)] ELSE fixed
\* The first entry out of range is cleared; map entries are all looked at.
MutCleared(e) == e
Cleared(e) ==
  [j \in 1 .. DirEnts |-> IF ~InRange(e[j]) /\ \A m \in 1 .. j - 1 : e[m] = 0 \/ InRange(e[m])
                          THEN 0 ELSE e[j]]
Fixed(disk) ==
  LET R == FkReach(disk, Cdirb)
      D == UNION {BlocksOf(disk, disk[b]) : b \in {x \in R : disk[x].type = "dir"}}
      M == UNION {Maps(disk, disk[b]) : b \in R}
  IN  [b \in FkBlocks |->
         IF b \in R THEN [Mended(disk, disk[b]) EXCEPT !.nlink = Links(disk, Cdirb, R, b)]
         ELSE IF b \in D THEN [disk[b] EXCEPT !.e = Cleared(@)]
         ELSE IF b \in M THEN [disk[b] EXCEPT !.e = [j \in 1 .. PerMap |-> IF InRange(@[j]) THEN @[j] ELSE 0]]
         ELSE disk[b]]
Relinked(disk) ==
  LET R == FkReach(disk, Cdirb)
  IN  [b \in FkBlocks |-> IF b \in R THEN [disk[b] EXCEPT !.nlink = Links(disk, Cdirb, R, b)] ELSE disk[b]]
FsckFinds(disk, map) == Fixed(disk) # disk \/ map # Bam(disk, FkReach(disk, Cdirb))

\* fsck -l, the end of mkfs; then fsck -f.
FsckL ==
  /\ fkPhase = "made" /\ fkPhase' = "used"
  /\ fkDisk' = Relinked(fkDisk)
  /\ UNCHANGED <<fkMap, fkNext, fkOpen, fkLinks, fkHurt, fkPasses, fkKept>>
FsckF ==
  /\ fkPhase = "used" /\ fkPasses <= MaxDamage
  /\ fkDisk' = Fixed(fkDisk) /\ fkMap' = Bam(fkDisk, FkReach(fkDisk, Cdirb))
  /\ fkPasses' = fkPasses + 1
  /\ UNCHANGED <<fkPhase, fkNext, fkOpen, fkLinks, fkHurt, fkKept>>

----------------------------------------------------------------------------
\* Damage to one place of a file system that is in use.
Spoilt(c) ==
  CASE c.k = "ino" -> {[c EXCEPT !.nlink = 0], [c EXCEPT !.count = 0], [c EXCEPT !.d[1] = Bad],
                       [c EXCEPT !.i = Bad]}
                      \cup (IF c.type = "dir" THEN {[c EXCEPT !.size = 0]} ELSE {[c EXCEPT !.type = "junk"]})
    [] c.k \in {"dir", "map"} -> {[c EXCEPT !.e[j] = Bad] : j \in DOMAIN c.e}
    [] OTHER -> {}
Damage ==
  /\ fkPhase = "used" /\ fkHurt < MaxDamage /\ fkHurt' = fkHurt + 1
  /\ \/ /\ \E b \in FkBlocks : \E c \in Spoilt(fkDisk[b]) :
             c # fkDisk[b] /\ fkDisk' = [fkDisk EXCEPT ![b] = c]
        /\ UNCHANGED fkMap
     \/ /\ \E b \in FkBlocks : fkMap' = IF b \in fkMap THEN fkMap \ {b} ELSE fkMap \cup {b}
        /\ UNCHANGED fkDisk
  /\ fkPasses' = 0 /\ fkKept' = Bam(fkDisk', FkReach(fkDisk', AllValid))
  /\ UNCHANGED <<fkPhase, fkNext, fkOpen, fkLinks>>

FkInit ==
  /\ fkPhase = "mkfs" /\ fkDisk = [b \in FkBlocks |-> FreeBlk] /\ fkMap = {}
  /\ fkNext = FkRoot + 1 /\ fkLinks = << >>
  /\ fkHurt = 0 /\ fkPasses = 0 /\ fkKept = {}
  /\ fkOpen = <<[ino |-> FkRoot, ents |-> << >>, nlink |-> 2]>>

FkNext ==
  \/ \E n \in FkSizes, linked \in BOOLEAN : MkFile(n, linked)
  \/ \E l \in 1 .. MAXLNK : MkLink(l)
  \/ MkDir \/ MkEnd \/ FsckL \/ FsckF \/ Damage

----------------------------------------------------------------------------
(* Properties.                                                              *)

\* What a consistent file system is, said without fsck's order of visits.
FsConsistent(disk, map) ==
  LET R == FkReach(disk, AllValid) IN
  /\ map = Bam(disk, R)
  /\ \A b \in R :
       LET i == disk[b] IN
       /\ i.k = "ino" /\ i.type \in {"reg", "dir"}
       /\ \A p \in DirPtrs(i) \cup MapPtrs(disk, i) \cup ({i.i} \ {0}) : InRange(p)
       /\ i.count = Cardinality(DirPtrs(i)) + Cardinality(Maps(disk, i)) + Cardinality(MapPtrs(disk, i))
       /\ i.nlink = Links(disk, AllValid, R, b)
       /\ i.type = "dir" =>
            /\ \A d \in BlocksOf(disk, i) : \A j \in 1 .. DirEnts : disk[d].e[j] # Bad
            /\ i.size >= Needs(disk, i)

\* fsck speaks up exactly when the file system is not consistent; what mkfs
\* and its fsck -l leave is consistent.
FsckExact ==
  fkPhase = "used" =>
    /\ FsckFinds(fkDisk, fkMap) <=> ~FsConsistent(fkDisk, fkMap)
    /\ fkHurt = 0 => FsConsistent(fkDisk, fkMap)

\* fsck -f, called once more than there are damaged places, leaves a
\* consistent file system; no call loses a file: what could be reached by
\* valid names and pointers before can be reached after.
FsckRepairs ==
  /\ fkPasses > MaxDamage => FsConsistent(fkDisk, fkMap)
  /\ fkKept # {} => fkKept \subseteq Bam(fkDisk, FkReach(fkDisk, AllValid))

\* fsck finds what is wrong and nothing else, and repairs it in the end.
FsckWorks == FsckExact /\ FsckRepairs
=============================================================================

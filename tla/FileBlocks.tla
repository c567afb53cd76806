----------------------------- MODULE FileBlocks -----------------------------
(* The blocks of plain files: the free map (kern/fs/alloc.c), the block     *)
(* maps of an inode and their truncation (kern/fs/bmap.c), and the loop of  *)
(* reg_write that uses them (kern/fs/rw.c).                                 *)
(*                                                                          *)
(* One file system is followed.  A block holds FAN words, which are block   *)
(* numbers when the block is a map and data otherwise.  The buffer cache is *)
(* left out (BufCache shows that a reader sees the last content written),   *)
(* the kernel is not preemptive, and no call here sleeps: one action is one *)
(* call, except that reg_write goes on block by block, alone, until it ends.*)
(* A definition Mut... is a wrong form of the definition below it.          *)
EXTENDS Integers, Sequences, FiniteSets, FiniteSetsExt

CONSTANTS
  Files,               \* the files that may exist at a time
  NBLOCKS, DBLOCK,     \* super: nblocks, and dblock, the first that is free
  FAN,                 \* words of a block, 128 in the code
  BMAP0_SIZE, BMAP1_SIZE, BMAP2_SIZE,
  FSLIMIT,             \* curr->fslimit: blocks a file may have, 2048 at boot
  Starts, Lengths      \* bound: the positions and counts of requests

ASSUME FileBlocksAssumption ==
  /\ DBLOCK \in Nat \ {0} /\ NBLOCKS \in Nat /\ NBLOCKS > DBLOCK
  /\ FAN \in Nat \ {0}
  /\ BMAP0_SIZE \in Nat /\ BMAP1_SIZE \in Nat /\ BMAP2_SIZE \in Nat
  /\ FSLIMIT \in Nat /\ Starts \subseteq Nat /\ Lengths \subseteq Nat \ {0}

Blocks  == 0 .. NBLOCKS - 1
Index   == 0 .. FAN - 1
Tables  == {"bmap0", "bmap1", "bmap2"}
Datum   == NBLOCKS     \* a word programs write: no block has this number
Erased  == [i \in Index |-> 0]
MAXFSZ  == (BMAP0_SIZE + BMAP1_SIZE * FAN + BMAP2_SIZE * FAN * FAN) * FAN
Longest == Min({FSLIMIT * FAN, MAXFSZ})   \* words a file may have

TableSize(t) == CASE t = "bmap0" -> BMAP0_SIZE
                  [] t = "bmap1" -> BMAP1_SIZE
                  [] t = "bmap2" -> BMAP2_SIZE

VARIABLES
  disk,    \* freemap and freeblk of the super block, and the words of blocks
  fbInode,   \* the disk_inode of each file, its number 0 if there is no file
  req,     \* the write under way
  lost     \* history: blocks a truncation could not find for a failed read

fbVars == <<disk, fbInode, req, lost>>

FbIdle == [file |-> 0, pos |-> 0, count |-> 0]
Busy == req.count > 0

NoMap   == [t \in Tables |-> [i \in 0 .. TableSize(t) - 1 |-> 0]]
NoInode == [ino |-> 0, map |-> NoMap, size |-> 0, blocks |-> 0]
Exists(f) == fbInode[f].ino # 0

----------------------------------------------------------------------------
(* The free map, as operators on the record disk.                           *)

\* The scan of alloc_blk starts at freeblk, which is never below dblock.
Candidates(d) == {i \in d.freeblk .. NBLOCKS - 1 :
                    i >= DBLOCK /\ i \notin d.freemap}
Full(d) == Candidates(d) = {}

\* The block is erased, so that nothing of its last life shows.
MutErase(d, i) == d
Erase(d, i)    == [d EXCEPT !.words[i] = Erased]

AllocBlk(d) ==
  LET i == Min(Candidates(d))
  IN [Erase(d, i) EXCEPT !.freeblk = i + 1, !.freemap = @ \cup {i}]

\* free_blk for each block of a set.
FreeBlks(d, S) ==
  [d EXCEPT !.freemap = @ \ S, !.freeblk = Min({@} \cup S)]

----------------------------------------------------------------------------
(* Block maps.  A walk carries what it changes and what it has found:       *)
(* w.d the disk, w.n the inode, w.blk the block, w.err how it failed.       *)

\* bmap3: the table a block of the file belongs to, and its place there.
Table(bn) == CASE bn < BMAP0_SIZE -> "bmap0"
               [] bn \in BMAP0_SIZE .. BMAP0_SIZE + BMAP1_SIZE * FAN - 1 -> "bmap1"
               [] bn >= BMAP0_SIZE + BMAP1_SIZE * FAN -> "bmap2"
Place(bn) == CASE Table(bn) = "bmap0" -> bn
               [] Table(bn) = "bmap1" -> bn - BMAP0_SIZE
               [] Table(bn) = "bmap2" -> bn - BMAP0_SIZE + BMAP1_SIZE * FAN
Top(bn)   == CASE Table(bn) = "bmap0" -> Place(bn)
               [] Table(bn) = "bmap1" -> Place(bn) \div FAN
               [] Table(bn) = "bmap2" -> Place(bn) \div (FAN * FAN)

Fail(w, e) == [w EXCEPT !.err = e]

\* One block more for the file: alloc_blk and blocks++.
Grow(w) == [w EXCEPT !.d = AllocBlk(@), !.blk = Min(Candidates(w.d)),
                     !.n.blocks = @ + 1]

\* An entry that is 0 gets a new block; grown says where its number goes.
MapEntry(w, old, grown) ==
  IF old # 0 THEN [w EXCEPT !.blk = old]
             ELSE IF Full(w.d) THEN Fail(w, "ENOSPC") ELSE grown

\* bmap6: the entry of the inode.
AtTop(w, bn) ==
  LET t == Table(bn)
      g == Grow(w)
  IN MapEntry(w, w.n.map[t][Top(bn)], [g EXCEPT !.n.map[t][Top(bn)] = g.blk])

\* bmindir: entry i of the map block the walk has come to.
Below(w, i) ==
  LET g == Grow(w)
  IN IF w.blk \in Blocks
       THEN MapEntry(w, w.d.words[w.blk][i], [g EXCEPT !.d.words[w.blk][i] = g.blk])
       ELSE Fail(w, "EIO")

\* A walk that has failed goes no further.
Then(w, next) == IF w.err = "ok" THEN next ELSE w

\* bmap_alloc.  Behind two map blocks bmindir calls itself, drops what that
\* call answers, and returns its own entry.
BmapAlloc(w, bn) ==
  LET p    == Place(bn)
      top  == AtTop(w, bn)
      leaf == Then(top, Below(top, p % FAN))
      mid  == Then(top, Below(top, (p \div FAN) % FAN))
      deep == Below(mid, p % FAN)
  IN IF Top(bn) >= TableSize(Table(bn))
       THEN Fail(w, "EFBIG")
       ELSE CASE Table(bn) = "bmap0" -> top
              [] Table(bn) = "bmap1" -> leaf
              [] Table(bn) = "bmap2" ->
                   Then(mid, [deep EXCEPT !.blk = mid.blk, !.err = "ok"])

\* Where a walk ends when a map block cannot be read or there is no buffer
\* for a new block: before its first entry, or after the one in the inode.
Stops(w, bn) ==
  IF Table(bn) = "bmap0" \/ Top(bn) >= TableSize(Table(bn))
    THEN {w} ELSE {w, AtTop(w, bn)}

\* bmap: the same walk without alloc; 0 is a hole.
Word(d, b, i) == IF b \in Blocks \ {0} THEN d.words[b][i] ELSE 0
Bmap(d, n, bn) ==
  LET p == Place(bn)
      b == n.map[Table(bn)][Top(bn)]
  IN IF Top(bn) >= TableSize(Table(bn))
       THEN 0
       ELSE CASE Table(bn) = "bmap0" -> b
              [] Table(bn) = "bmap1" -> Word(d, b, p % FAN)
              [] Table(bn) = "bmap2" -> Word(d, b, (p \div FAN) % FAN)

\* reg_read: what a program finds in a word of its file.
ReadWord(d, n, pos) ==
  IF pos < n.size THEN Word(d, Bmap(d, n, pos \div FAN), pos % FAN) ELSE 0

----------------------------------------------------------------------------
(* Where the blocks of a file are, found the way cinode of fsck finds them: *)
(* pairs of a path from the inode and a block.                              *)

\* The entries of a map block, itself found at r.
Inside(d, r) == {<<Append(r[1], i), Word(d, r[2], i)>> :
                   i \in {j \in Index : Word(d, r[2], j) # 0}}
Slots(n, t) == {i \in DOMAIN n.map[t] : n.map[t][i] # 0}
RefsIn(d, n) ==
  LET top == UNION {{<<<<t, i>>, n.map[t][i]>> : i \in Slots(n, t)} : t \in Tables}
      mid == UNION {Inside(d, r) : r \in {q \in top : q[1][1] # "bmap0"}}
      low == UNION {Inside(d, r) : r \in {q \in mid : q[1][1] = "bmap2"}}
  IN top \cup mid \cup low
Refs(f) == RefsIn(disk, fbInode[f])

----------------------------------------------------------------------------
(* Truncation.  bad is the set of map blocks that cannot be read: trunc_i   *)
(* frees nothing below them, and gives up the rest of a two-level map.      *)

FbFound(f, bad) ==
  LET m == fbInode[f].map
      Read(p) ==
        \/ Len(p) = 2
        \/ p[1] = "bmap1" /\ m["bmap1"][p[2]] \notin bad
        \/ /\ p[1] = "bmap2" /\ Len(p) > 2
           /\ m["bmap2"][p[2]] \notin bad
           /\ \A j \in 0 .. p[3] : Word(disk, m["bmap2"][p[2]], j) \notin bad
  IN {r \in Refs(f) : Read(r[1])}

\* With umap, the entries trunc_i has freed are set to 0.
Unmapped(f, found) ==
  [b \in Blocks |->
     [i \in Index |->
        IF \E r \in Refs(f) : r[2] = b /\ <<Append(r[1], i), Word(disk, b, i)>> \in found
          THEN 0 ELSE disk.words[b][i]]]

Emptied(n) == [n EXCEPT !.map = NoMap, !.size = 0, !.blocks = 0]

Blks(refs) == {r[2] : r \in refs}
MutTrunc(f, found) == FreeBlks(disk, {r[2] : r \in {q \in found : Len(q[1]) = 2}})
Trunc(f, found) == FreeBlks(disk, Blks(found))

\* open with O_TRUNC
OpenTrunc(f, bad) ==
  LET found == FbFound(f, bad)
  IN /\ ~Busy /\ Exists(f)
     /\ disk' = [Trunc(f, found) EXCEPT !.words = Unmapped(f, found)]
     /\ fbInode' = [fbInode EXCEPT ![f] = Emptied(fbInode[f])]
     /\ lost' = lost \cup (Blks(Refs(f)) \ Blks(found))
     /\ UNCHANGED req

\* The last inode_put of a file without a name: free_inode.
Remove(f, bad) ==
  LET found == FbFound(f, bad)
  IN /\ ~Busy /\ Exists(f)
     /\ disk' = FreeBlks(Trunc(f, found), {fbInode[f].ino})
     /\ fbInode' = [fbInode EXCEPT ![f] = NoInode]
     /\ lost' = lost \cup (Blks(Refs(f)) \ Blks(found))
     /\ UNCHANGED req

----------------------------------------------------------------------------
(* New files.                                                               *)

Create(f) ==
  /\ ~Busy /\ ~Exists(f) /\ ~Full(disk)
  /\ disk' = AllocBlk(disk)
  /\ fbInode' = [fbInode EXCEPT ![f] = [NoInode EXCEPT !.ino = Min(Candidates(disk))]]
  /\ UNCHANGED <<req, lost>>

\* No entry in the inode table or no room in the directory: it is put back.
CreateFails ==
  /\ ~Busy /\ ~Full(disk)
  /\ disk' = FreeBlks(AllocBlk(disk), {Min(Candidates(disk))})
  /\ UNCHANGED <<fbInode, req, lost>>

----------------------------------------------------------------------------
(* reg_write: the size first, then block after block.                       *)

MutWithin(pos, count) == pos < Longest
Within(pos, count)    == pos + count <= Longest
WriteStart(f, pos, count) ==
  /\ ~Busy /\ Exists(f) /\ Within(pos, count)
  /\ fbInode' = [fbInode EXCEPT ![f].size = Max({@, pos + count})]
  /\ req' = [file |-> f, pos |-> pos, count |-> count]
  /\ UNCHANGED <<disk, lost>>

Start == [d |-> disk, n |-> fbInode[req.file], blk |-> 0, err |-> "ok"]
Walk  == BmapAlloc(Start, req.pos \div FAN)

\* Words of this block the request covers.
Chunk == LET k == req.pos % FAN IN k .. Min({FAN, k + req.count}) - 1

Stored(d, b) == [d EXCEPT !.words[b] =
                   [i \in Index |-> IF i \in Chunk THEN Datum ELSE d.words[b][i]]]

WriteBlock ==
  /\ Busy /\ Walk.err = "ok"
  /\ disk' = Stored(Walk.d, Walk.blk)
  /\ fbInode' = [fbInode EXCEPT ![req.file] = Walk.n]
  /\ LET l == Cardinality(Chunk)
     IN req' = IF l = req.count THEN FbIdle
                                ELSE [req EXCEPT !.pos = @ + l, !.count = @ - l]
  /\ UNCHANGED lost

\* The walk fails on the way or at its end, or the block it has found cannot
\* be read to be changed.  What has been allocated stays, and so does the size.
WriteFails ==
  /\ Busy
  /\ \E w \in {Walk} \cup Stops(Start, req.pos \div FAN) :
       /\ disk' = w.d
       /\ fbInode' = [fbInode EXCEPT ![req.file] = w.n]
  /\ req' = FbIdle
  /\ UNCHANGED lost

----------------------------------------------------------------------------
\* An empty file system, on a disk that held something else before.
FbInit ==
  /\ disk = [freemap |-> 0 .. DBLOCK - 1, freeblk |-> 0,
             words |-> [b \in Blocks |-> [i \in Index |-> Datum]]]
  /\ fbInode = [f \in Files |-> NoInode]
  /\ req = FbIdle
  /\ lost = {}

MapBlocks(f) == Blks({r \in Refs(f) : r[1][1] # "bmap0"})

FbNext ==
  \/ \E f \in Files :
       \/ Create(f)
       \/ \E bad \in SUBSET MapBlocks(f) : OpenTrunc(f, bad) \/ Remove(f, bad)
       \/ \E pos \in Starts, count \in Lengths : WriteStart(f, pos, count)
  \/ CreateFails \/ WriteBlock \/ WriteFails
FbSpec == FbInit /\ [][FbNext]_fbVars

----------------------------------------------------------------------------
(* Properties.                                                              *)

Present == {f \in Files : Exists(f)}
All(f) == {<<<<"ino">>, fbInode[f].ino>>} \cup Refs(f)

\* The free map and the blocks keep their types, no file grows past the limit
\* reg_write tests, and a write is under way only for a file that exists.
FbTypeOK ==
  /\ disk.freemap \subseteq Blocks /\ disk.freeblk \in 0 .. NBLOCKS
  /\ disk.words \in [Blocks -> [Index -> 0 .. Datum]]
  /\ \A f \in Files : fbInode[f].size \in 0 .. Longest
  /\ lost \subseteq Blocks
  /\ Busy => Exists(req.file)

\* What fsck reports as "ino ... blk", "ino ... ibmap" or "ino ... indir":
\* a block number in an inode or in one of its maps that is out of range.
MapsInRange == \A f \in Present : Blks(All(f)) \subseteq DBLOCK .. NBLOCKS - 1

\* No block is in two places, of one file or of two: neither an interrupted
\* write, nor a truncation, nor a file that failed to be made gives a block
\* to somebody else that is still in use.
OneOwner ==
  LET places == UNION {{<<f, r>> : r \in All(f)} : f \in Present}
  IN \A x, y \in places : x[2][2] = y[2][2] => x = y

\* What fsck compares as "bam": the free map marks exactly the blocks in use,
\* and the ones a truncation lost because it could not read a map.
UsedMarked ==
  disk.freemap = (0 .. DBLOCK - 1) \cup lost
                   \cup UNION {Blks(All(f)) : f \in Present}

\* alloc_blk says the file system is full only if it is: nothing is free
\* below the point where its scan starts.
ScanStart == \A i \in DBLOCK .. disk.freeblk - 1 : i \in disk.freemap

\* What fsck compares as "bcount": d.blocks counts data and map blocks.
BlocksCount == \A f \in Present : fbInode[f].blocks = Cardinality(Refs(f))

\* The free map, the maps and the counts agree, in every state a request can
\* be interrupted in.
SpaceExact == MapsInRange /\ OneOwner /\ UsedMarked /\ ScanStart /\ BlocksCount

\* A file reads as what was last written to it, and as zero elsewhere.
Store == INSTANCE FileStore WITH
  Words <- {0, Datum}, Limit <- Longest,
  exists <- [f \in Files |-> Exists(f)],
  size   <- [f \in Files |-> fbInode[f].size],
  text   <- [f \in Files |-> [p \in 0 .. Longest - 1 |-> ReadWord(disk, fbInode[f], p)]]
RefinesStore == Store!SSpec

\* The same with the types of the free map and of the blocks.
BlocksExact == FbTypeOK /\ SpaceExact
=============================================================================

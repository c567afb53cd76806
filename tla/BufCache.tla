------------------------------ MODULE BufCache ------------------------------
(* The block buffer cache, kern/fs/blk.c: blk_get, blk_read, blk_write,     *)
(* blk_put, blk_sync, blk_upread and blk_upwrite.  A call runs to its end   *)
(* before another process runs (drivers spin, they do not schedule), but it *)
(* may find buffers that an earlier call still holds.                       *)
(* A definition Mut... is a wrong form of the definition below it.          *)
EXTENDS Integers, FiniteSets

CONSTANTS
  Blocks,   \* (device, block) pairs
  Data,     \* block contents
  Lines,    \* rows of blk_buf, 131 in the code
  BCDEPTH,  \* buffers in a row
  line,     \* the row of each block, blk % BCWIDTH
  MaxRef    \* bound: how often one buffer is held at a time

Ways == 0 .. BCDEPTH - 1

ASSUME BufCacheAssumption ==
  /\ BCDEPTH \in Nat \ {0}
  /\ MaxRef \in Nat
  /\ line \in [Blocks -> Lines]
  /\ Blocks # {}

VARIABLES
  refcnt, valid, dirty, blk, data,  \* fields of blk_buf[l][n]
  blk_nind,                         \* where the next victim is looked for
  disk,                             \* what the driver stores
  lost                              \* history: blocks whose last write failed

vars == <<refcnt, valid, dirty, blk, data, blk_nind, disk, lost>>

----------------------------------------------------------------------------
(* blk_get.                                                                 *)

\* The test of the first loop of blk_get.
MutIsHit(b, n) == /\ refcnt[line[b]][n] = 0 /\ valid[line[b]][n]
                  /\ blk[line[b]][n] = b
IsHit(b, n)    == /\ refcnt[line[b]][n] > 0 \/ valid[line[b]][n]
                  /\ blk[line[b]][n] = b
Hits(b) == {n \in Ways : IsHit(b, n)}

\* The way the rotating search looks at after k others, and the first of
\* them that satisfies its test.
Turn(k) == (blk_nind + k) % BCDEPTH
First(S) == {k \in Ways : Turn(k) \in S /\ \A j \in 0 .. k - 1 : Turn(j) \notin S}

\* Unused buffers, and the clean ones that are taken without a write.
Unused(l) == {n \in Ways : refcnt[l][n] = 0}
Clean(l)  == {n \in Unused(l) : ~dirty[l][n]}
Victims(l) == IF Clean(l) # {} THEN Clean(l) ELSE Unused(l)

\* blk_get(b) returns way n and leaves blk_nind = nx; no n is left when every
\* buffer of the row is held (ENOMEM).
Choose(b, n, nx) ==
  \/ /\ n \in Hits(b) /\ \A m \in Hits(b) : n <= m
     /\ nx = blk_nind
  \/ /\ Hits(b) = {}
     /\ \E k \in First(Victims(line[b])) :
          n = Turn(k) /\ nx = (blk_nind + k + 1) % BCDEPTH

\* blk_write of buffer (l, n), if it is dirty: the driver stores it or fails,
\* and then the block may or may not have changed.  dirty is cleared either
\* way, so a failed write is never repeated.
MutWriteBack(l, n) == UNCHANGED <<disk, lost>>
WriteBack(l, n) ==
  LET b == blk[l][n]
  IN \/ /\ ~dirty[l][n]
        /\ UNCHANGED <<disk, lost>>
     \/ /\ dirty[l][n]
        /\ disk' = [disk EXCEPT ![b] = data[l][n]]
        /\ lost' = lost \ {b}
     \/ /\ dirty[l][n]
        /\ \E d \in {disk[b], data[l][n]} : disk' = [disk EXCEPT ![b] = d]
        /\ lost' = lost \cup {b}

\* A call that gets buffer n for block b, leaves it with the given fields and
\* held by `keep` more users.  A buffer that is not a hit is taken over,
\* after a write if it was dirty.
Settle(b, n, nx, keep, v, d, x) ==
  LET l == line[b]
      r == IF Hits(b) # {} THEN refcnt[l][n] ELSE 0
  IN /\ refcnt' = [refcnt EXCEPT ![l][n] = r + keep]
     /\ valid'  = [valid EXCEPT ![l][n] = v]
     /\ dirty'  = [dirty EXCEPT ![l][n] = d]
     /\ blk'    = [blk EXCEPT ![l][n] = b]
     /\ data'   = [data EXCEPT ![l][n] = x]
     /\ blk_nind' = nx
     /\ IF Hits(b) # {} THEN UNCHANGED <<disk, lost>> ELSE WriteBack(l, n)

\* Block b is in buffer n and valid: blk_read need not call the driver.
Cached(b, n) == n \in Hits(b) /\ valid[line[b]][n]

\* What the driver reads into a buffer that write-back has just emptied.
FromDisk(b) == disk[b]

----------------------------------------------------------------------------
(* Calls.                                                                   *)

\* blk_read, followed by blk_put at once (keep = 0, blk_upread and most
\* readers) or held for a while (keep = 1).
Read(b, keep) ==
  \E n \in Ways, nx \in Ways :
    /\ Choose(b, n, nx)
    /\ refcnt[line[b]][n] + keep <= MaxRef
    /\ \/ /\ Cached(b, n)
          /\ Settle(b, n, nx, keep, TRUE, dirty[line[b]][n], data[line[b]][n])
       \/ /\ ~Cached(b, n)
          /\ Settle(b, n, nx, keep, TRUE, FALSE, FromDisk(b))

\* blk_read whose driver call fails: the buffer is put back, not valid.
ReadError(b) ==
  \E n \in Ways, nx \in Ways, x \in Data :
    /\ Choose(b, n, nx) /\ ~Cached(b, n)
    /\ Settle(b, n, nx, 0, FALSE, FALSE, x)

\* blk_put, with its panic("unused buf") as the guard.
MutMayPut(l, n) == TRUE
MayPut(l, n)    == refcnt[l][n] > 0
Put(l, n) ==
  /\ MayPut(l, n)
  /\ refcnt' = [refcnt EXCEPT ![l][n] = @ - 1]
  /\ UNCHANGED <<valid, dirty, blk, data, blk_nind, disk, lost>>

\* A holder changes a buffer it has read and marks it dirty.
Modify(l, n, v) ==
  /\ refcnt[l][n] > 0 /\ valid[l][n]
  /\ data' = [data EXCEPT ![l][n] = v]
  /\ dirty' = [dirty EXCEPT ![l][n] = TRUE]
  /\ UNCHANGED <<refcnt, valid, blk, blk_nind, disk, lost>>

\* blk_upwrite and erase_blk: a whole block goes through blk_get, a part of
\* one through blk_read.  v is what the buffer holds then; a failing fucpy
\* leaves a mixture, any v, and marks it valid and dirty all the same.
UpWrite(b, v) ==
  \E n \in Ways, nx \in Ways :
    /\ Choose(b, n, nx)
    /\ Settle(b, n, nx, 0, TRUE, TRUE, v)

\* blk_sync: the dirty buffers of S are written, those of F with an error;
\* with invl what nobody holds is dropped afterwards.  A timeout ends it
\* before the last buffer, so S is a prefix of the array.
MutDropped(l, n) == TRUE
Dropped(l, n)    == refcnt[l][n] = 0
\* blk_write clears dirty before it calls the driver, so an error does not
\* leave the buffer dirty.
MutStaysDirty(p, F) == p \in F
StaysDirty(p, F)    == FALSE
Bufs == Lines \X Ways
Sync(S, F, invl) ==
  LET w(b) == {p \in S : dirty[p[1]][p[2]] /\ blk[p[1]][p[2]] = b}
      bad  == {blk[p[1]][p[2]] : p \in F}
      good == {blk[p[1]][p[2]] : p \in {q \in S \ F : dirty[q[1]][q[2]]}}
      out(b) == LET p == CHOOSE q \in w(b) : TRUE IN data[p[1]][p[2]]
  IN /\ F \subseteq {p \in S : dirty[p[1]][p[2]]}
     /\ \E H \in SUBSET F :  \* failed writes that changed the disk anyway
          disk' = [b \in Blocks |->
                     IF \E p \in w(b) : p \notin F \/ p \in H
                       THEN out(b) ELSE disk[b]]
     /\ lost' = (lost \ good) \cup bad
     /\ dirty' = [l \in Lines |-> [n \in Ways |->
                    IF <<l, n>> \in S THEN StaysDirty(<<l, n>>, F)
                                      ELSE dirty[l][n]]]
     /\ valid' = [l \in Lines |-> [n \in Ways |->
                    IF invl /\ <<l, n>> \in S /\ Dropped(l, n)
                      THEN FALSE ELSE valid[l][n]]]
     /\ UNCHANGED <<refcnt, blk, data, blk_nind>>

Prefix(S) == \A p \in S : \A q \in Bufs :
               (p[1] = q[1] /\ q[2] < p[2]) => q \in S
\* psync's timeout and the complete blk_sync of sys_sync and umount.
PartSync == \E S \in {T \in SUBSET Bufs : Prefix(T)}, F \in SUBSET Bufs :
              Sync(S, F, FALSE)
FullSync(invl) == \E F \in SUBSET Bufs : Sync(Bufs, F, invl)

\* Power failure: the cache is gone.
Crash ==
  /\ refcnt' = [l \in Lines |-> [n \in Ways |-> 0]]
  /\ valid'  = [l \in Lines |-> [n \in Ways |-> FALSE]]
  /\ dirty'  = [l \in Lines |-> [n \in Ways |-> FALSE]]
  /\ blk_nind' = 0 /\ lost' = {}
  /\ UNCHANGED <<blk, data, disk>>

----------------------------------------------------------------------------
Init ==
  /\ refcnt = [l \in Lines |-> [n \in Ways |-> 0]]
  /\ valid  = [l \in Lines |-> [n \in Ways |-> FALSE]]
  /\ dirty  = [l \in Lines |-> [n \in Ways |-> FALSE]]
  /\ blk \in {[l \in Lines |-> [n \in Ways |-> b]] : b \in Blocks}
  /\ data \in {[l \in Lines |-> [n \in Ways |-> d]] : d \in Data}
  /\ blk_nind = 0
  /\ disk \in [Blocks -> Data]
  /\ lost = {}

Next == \/ \E b \in Blocks : ReadError(b) \/ \E k \in {0, 1} : Read(b, k)
        \/ \E b \in Blocks, v \in Data : UpWrite(b, v)
        \/ \E l \in Lines, n \in Ways :
             Put(l, n) \/ \E v \in Data : Modify(l, n, v)
        \/ PartSync \/ \E i \in BOOLEAN : FullSync(i)
        \/ Crash

Spec == Init /\ [][Next]_vars

----------------------------------------------------------------------------
(* Properties.                                                              *)

\* Every field keeps its type; a reference count is never negative.
TypeOK ==
  /\ refcnt \in [Lines -> [Ways -> 0 .. MaxRef]]
  /\ valid \in [Lines -> [Ways -> BOOLEAN]]
  /\ dirty \in [Lines -> [Ways -> BOOLEAN]]
  /\ blk \in [Lines -> [Ways -> Blocks]]
  /\ data \in [Lines -> [Ways -> Data]]
  /\ blk_nind \in Ways
  /\ disk \in [Blocks -> Data] /\ lost \subseteq Blocks

\* A block is never in two buffers at once, so no writer misses a reader.
OneCopy ==
  \A l \in Lines, m, n \in Ways :
    /\ refcnt[l][m] > 0 \/ valid[l][m]
    /\ refcnt[l][n] > 0 \/ valid[l][n]
    /\ blk[l][m] = blk[l][n]
    => m = n

\* The assertion of blk_write, panic("blk not valid"), never fires.
DirtyValid == \A l \in Lines, n \in Ways : dirty[l][n] => valid[l][n]

\* However callers, syncs, errors and crashes interleave: counts are right, a
\* block has one buffer, and no dirty buffer meets the assertion of blk_write.
CacheExact == TypeOK /\ OneCopy /\ DirtyValid

\* What is cached and clean is what is on the disk, unless its write failed.
CleanMatches ==
  \A l \in Lines, n \in Ways :
    valid[l][n] /\ ~dirty[l][n] /\ blk[l][n] \notin lost =>
      data[l][n] = disk[blk[l][n]]

\* A buffer somebody holds keeps its block and its validity until the last
\* blk_put (or a crash): holders may use the pointer without looking again.
HeldStays ==
  [][Crash \/ \A l \in Lines, n \in Ways :
       refcnt[l][n] > 0 /\ refcnt'[l][n] > 0 =>
         /\ blk'[l][n] = blk[l][n]
         /\ valid[l][n] => valid'[l][n]]_vars

\* The content of each block as a reader would get it.
View == [b \in Blocks |->
           IF \E n \in Ways : Cached(b, n)
             THEN data[line[b]][CHOOSE n \in Ways : Cached(b, n)]
             ELSE disk[b]]

\* The cache implements the store: no order of hits, evictions, partial
\* syncs and errors shows a reader anything but the last content written,
\* unless the driver reported a failed write of that block.
Store == INSTANCE BlockStore WITH store <- View
RefinesStore == Store!SSpec
=============================================================================

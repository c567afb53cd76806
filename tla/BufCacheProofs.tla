--------------------------- MODULE BufCacheProofs ---------------------------
(* The buffer cache invariants, proved for any number of blocks, rows and   *)
(* buffers per row.                                                         *)
EXTENDS BufCache, TLAPS

\* A block is only ever kept in its own row: this is what makes OneCopy, a
\* statement about one row, a statement about the whole cache.
InRow == \A l \in Lines, n \in Ways :
           refcnt[l][n] > 0 \/ valid[l][n] => line[blk[l][n]] = l

\* The inductive invariant.
IInv == TypeOK /\ InRow /\ OneCopy /\ DirtyValid /\ CleanMatches

USE BufCacheAssumption DEF BufCacheAssumption

\* The cache starts empty.
LEMMA InitIInv == Init => IInv
<1> SUFFICES ASSUME Init PROVE IInv
  OBVIOUS
<1>1. 0 \in Ways
  BY DEF Ways
<1>2. valid \in [Lines -> [Ways -> BOOLEAN]] /\ dirty \in [Lines -> [Ways -> BOOLEAN]]
  BY Zenon DEF Init
<1>3. blk \in [Lines -> [Ways -> Blocks]] /\ data \in [Lines -> [Ways -> Data]]
  BY DEF Init
<1>4. TypeOK
  BY <1>1, <1>2, <1>3 DEF Init, TypeOK
<1>5. \A l \in Lines, n \in Ways : refcnt[l][n] = 0 /\ ~valid[l][n] /\ ~dirty[l][n]
  BY Zenon DEF Init
<1> QED
  BY <1>4, <1>5 DEF IInv, InRow, OneCopy, DirtyValid, CleanMatches

----------------------------------------------------------------------------
(* blk_get.                                                                 *)

\* What blk_get returns is the buffer of the block, or one nobody holds; in
\* the second case the block has no other buffer.
LEMMA ChooseSafe ==
  ASSUME TypeOK, OneCopy, NEW b \in Blocks, NEW n \in Ways, NEW nx \in Ways,
         Choose(b, n, nx)
  PROVE  /\ line[b] \in Lines
         /\ Hits(b) # {} => IsHit(b, n)
         /\ Hits(b) = {} => refcnt[line[b]][n] = 0
         /\ \A m \in Ways : IsHit(b, m) => m = n
<1>1. line[b] \in Lines
  OBVIOUS
<1>2. CASE n \in Hits(b)
  BY <1>1, <1>2 DEF Hits, IsHit, OneCopy
<1>3. CASE Hits(b) = {}
  <2>1. PICK k \in First(Victims(line[b])) : n = Turn(k)
    BY <1>3 DEF Choose
  <2>2. n \in Victims(line[b])
    BY <2>1 DEF First
  <2>3. refcnt[line[b]][n] = 0
    BY <2>2 DEF Victims, Clean, Unused
  <2>4. \A m \in Ways : ~IsHit(b, m)
    BY <1>3 DEF Hits
  <2> QED
    BY <1>1, <1>3, <2>3, <2>4
<1> QED
  BY <1>2, <1>3 DEF Choose

\* The fields after a call that has settled on a buffer.
LEMMA SettleFields ==
  ASSUME TypeOK, NEW b \in Blocks, NEW n \in Ways, NEW nx \in Ways,
         NEW keep \in Nat, NEW v \in BOOLEAN, NEW d \in BOOLEAN, NEW x \in Data,
         Settle(b, n, nx, keep, v, d, x),
         Hits(b) = {} => refcnt[line[b]][n] = 0
  PROVE  /\ refcnt'[line[b]][n] = refcnt[line[b]][n] + keep
         /\ valid'[line[b]][n] = v /\ dirty'[line[b]][n] = d
         /\ blk'[line[b]][n] = b /\ data'[line[b]][n] = x
         /\ \A l \in Lines, m \in Ways : <<l, m>> # <<line[b], n>> =>
              /\ refcnt'[l][m] = refcnt[l][m]
              /\ valid'[l][m] = valid[l][m] /\ dirty'[l][m] = dirty[l][m]
              /\ blk'[l][m] = blk[l][m] /\ data'[l][m] = data[l][m]
<1>1. line[b] \in Lines
  OBVIOUS
<1>2. /\ refcnt'[line[b]][n] = refcnt[line[b]][n] + keep
      /\ \A l \in Lines, m \in Ways : <<l, m>> # <<line[b], n>> =>
           refcnt'[l][m] = refcnt[l][m]
  BY <1>1 DEF Settle, TypeOK
<1>3. /\ valid'[line[b]][n] = v
      /\ \A l \in Lines, m \in Ways : <<l, m>> # <<line[b], n>> =>
           valid'[l][m] = valid[l][m]
  BY <1>1 DEF Settle, TypeOK
<1>4. /\ dirty'[line[b]][n] = d
      /\ \A l \in Lines, m \in Ways : <<l, m>> # <<line[b], n>> =>
           dirty'[l][m] = dirty[l][m]
  BY <1>1 DEF Settle, TypeOK
<1>5. /\ blk'[line[b]][n] = b
      /\ \A l \in Lines, m \in Ways : <<l, m>> # <<line[b], n>> =>
           blk'[l][m] = blk[l][m]
  BY <1>1 DEF Settle, TypeOK
<1>6. /\ data'[line[b]][n] = x
      /\ \A l \in Lines, m \in Ways : <<l, m>> # <<line[b], n>> =>
           data'[l][m] = data[l][m]
  BY <1>1 DEF Settle, TypeOK
<1> QED
  BY <1>2, <1>3, <1>4, <1>5, <1>6

\* A buffer that blk_get has chosen is filled with values of the right type.
LEMMA SettleType ==
  ASSUME TypeOK, NEW b \in Blocks, NEW n \in Ways, NEW nx \in Ways,
         NEW keep \in Nat, NEW v \in BOOLEAN, NEW d \in BOOLEAN, NEW x \in Data,
         Settle(b, n, nx, keep, v, d, x),
         Hits(b) = {} => refcnt[line[b]][n] = 0,
         refcnt[line[b]][n] + keep <= MaxRef
  PROVE  TypeOK'
<1>1. line[b] \in Lines
  OBVIOUS
<1>2. refcnt' \in [Lines -> [Ways -> 0 .. MaxRef]]
  <2>1. refcnt[line[b]] \in [Ways -> 0 .. MaxRef]
    BY <1>1 DEF TypeOK
  <2>2. refcnt[line[b]][n] + keep \in 0 .. MaxRef
    BY <2>1
  <2> QED
    BY <1>1, <2>1, <2>2 DEF Settle, TypeOK
<1>3. valid' \in [Lines -> [Ways -> BOOLEAN]]
  BY <1>1, Zenon DEF Settle, TypeOK
<1>4. dirty' \in [Lines -> [Ways -> BOOLEAN]]
  BY <1>1, Zenon DEF Settle, TypeOK
<1>5. blk' \in [Lines -> [Ways -> Blocks]] /\ data' \in [Lines -> [Ways -> Data]]
  BY <1>1 DEF Settle, TypeOK
<1>6. disk' \in [Blocks -> Data] /\ lost' \subseteq Blocks
  <2>1. blk[line[b]][n] \in Blocks /\ data[line[b]][n] \in Data
    BY <1>1 DEF TypeOK
  <2>2. CASE UNCHANGED <<disk, lost>>
    BY <2>2 DEF TypeOK
  <2>3. CASE WriteBack(line[b], n)
    BY <2>1, <2>3, ZenonT(60) DEF WriteBack, TypeOK
  <2> QED
    BY <2>2, <2>3 DEF Settle
<1>7. blk_nind' \in Ways
  BY DEF Settle
<1> QED
  BY <1>2, <1>3, <1>4, <1>5, <1>6, <1>7 DEF TypeOK

\* The disk changes for the block of the victim only, and to its data unless
\* the write is reported to fail.
LEMMA WriteBackEffect ==
  ASSUME TypeOK, NEW l \in Lines, NEW n \in Ways, WriteBack(l, n)
  PROVE  /\ \A c \in Blocks \ {blk[l][n]} :
              disk'[c] = disk[c] /\ (c \in lost' <=> c \in lost)
         /\ ~dirty[l][n] => disk' = disk /\ lost' = lost
<1>1. blk[l][n] \in Blocks
  BY DEF TypeOK
<1> QED
  BY <1>1 DEF WriteBack, TypeOK

\* A call keeps the invariant if the buffer it leaves is valid when dirty, and
\* holds what is on the disk when clean.
LEMMA SettleIInv ==
  ASSUME IInv, NEW b \in Blocks, NEW n \in Ways, NEW nx \in Ways,
         NEW keep \in Nat, NEW v \in BOOLEAN, NEW d \in BOOLEAN, NEW x \in Data,
         Choose(b, n, nx), Settle(b, n, nx, keep, v, d, x),
         refcnt[line[b]][n] + keep <= MaxRef,
         d => v,
         v /\ ~d => \/ x = disk[b] /\ ~Cached(b, n)
                    \/ Cached(b, n) /\ ~dirty[line[b]][n] /\ x = data[line[b]][n]
  PROVE  IInv'
<1> DEFINE l0 == line[b]
<1>0. l0 \in Lines
  OBVIOUS
<1>1. /\ Hits(b) # {} => IsHit(b, n)
      /\ Hits(b) = {} => refcnt[l0][n] = 0
      /\ \A m \in Ways : IsHit(b, m) => m = n
  BY ChooseSafe DEF IInv
<1>2. TypeOK'
  BY <1>1, SettleType DEF IInv
<1>3. /\ valid'[l0][n] = v /\ dirty'[l0][n] = d
      /\ blk'[l0][n] = b /\ data'[l0][n] = x
      /\ \A l \in Lines, m \in Ways : <<l, m>> # <<l0, n>> =>
           /\ refcnt'[l][m] = refcnt[l][m]
           /\ valid'[l][m] = valid[l][m] /\ dirty'[l][m] = dirty[l][m]
           /\ blk'[l][m] = blk[l][m] /\ data'[l][m] = data[l][m]
  BY <1>1, SettleFields DEF IInv
<1>4. InRow'
  BY <1>3 DEF IInv, InRow
<1>5. OneCopy'
  <2> SUFFICES ASSUME NEW l \in Lines, NEW m \in Ways, NEW k \in Ways,
                      refcnt'[l][m] > 0 \/ valid'[l][m],
                      refcnt'[l][k] > 0 \/ valid'[l][k],
                      blk'[l][m] = blk'[l][k], m # k
               PROVE  FALSE
    BY DEF OneCopy
  <2>1. CASE l # l0 \/ (m # n /\ k # n)
    BY <1>3, <2>1 DEF IInv, OneCopy
  <2>2. CASE l = l0 /\ m = n
    <3>1. IsHit(b, k)
      BY <1>3, <2>2 DEF IsHit
    <3> QED
      BY <1>1, <2>2, <3>1
  <2>3. CASE l = l0 /\ k = n
    <3>1. IsHit(b, m)
      BY <1>3, <2>3 DEF IsHit
    <3> QED
      BY <1>1, <2>3, <3>1
  <2> QED
    BY <2>1, <2>2, <2>3
<1>6. DirtyValid'
  <2> SUFFICES ASSUME NEW l \in Lines, NEW m \in Ways, dirty'[l][m]
               PROVE  valid'[l][m]
    BY DEF DirtyValid
  <2>1. CASE l = l0 /\ m = n
    BY <1>3, <2>1
  <2>2. CASE ~(l = l0 /\ m = n)
    BY <1>3, <2>2 DEF IInv, DirtyValid
  <2> QED
    BY <2>1, <2>2
<1>7. CleanMatches'
  <2> SUFFICES ASSUME NEW l \in Lines, NEW m \in Ways,
                      valid'[l][m], ~dirty'[l][m], blk'[l][m] \notin lost'
               PROVE  data'[l][m] = disk'[blk'[l][m]]
    BY DEF CleanMatches
  \* Either the disk is as it was, or a victim with another block was written.
  <2>1. CASE UNCHANGED <<disk, lost>>
    <3>1. CASE l = l0 /\ m = n
      BY <1>1, <1>3, <2>1, <3>1 DEF IInv, CleanMatches, Cached, Hits, IsHit
    <3>2. CASE ~(l = l0 /\ m = n)
      BY <1>3, <2>1, <3>2 DEF IInv, CleanMatches
    <3> QED
      BY <3>1, <3>2
  <2>2. CASE Hits(b) = {} /\ WriteBack(l0, n) /\ dirty[l0][n]
    <3>1. valid[l0][n] /\ line[blk[l0][n]] = l0
      BY <1>0, <2>2 DEF IInv, DirtyValid, InRow
    <3>2. blk[l0][n] # b /\ ~Cached(b, n)
      BY <2>2, <3>1 DEF Hits, IsHit, Cached
    <3>3. \A c \in Blocks \ {blk[l0][n]} :
            disk'[c] = disk[c] /\ (c \in lost' <=> c \in lost)
      BY <1>0, <2>2, WriteBackEffect DEF IInv
    <3>4. CASE l = l0 /\ m = n
      BY <1>3, <3>2, <3>3, <3>4
    <3>5. CASE ~(l = l0 /\ m = n)
      <4>1. /\ valid[l][m] /\ ~dirty[l][m]
            /\ blk'[l][m] = blk[l][m] /\ data'[l][m] = data[l][m]
        BY <1>3, <3>5
      <4>2. blk[l][m] # blk[l0][n]
        BY <1>0, <3>1, <3>5, <4>1 DEF IInv, InRow, OneCopy
      <4>3. blk[l][m] \in Blocks
        BY DEF IInv, TypeOK
      <4> QED
        BY <3>3, <4>1, <4>2, <4>3 DEF IInv, CleanMatches
    <3> QED
      BY <3>4, <3>5
  <2> QED
    BY <1>0, <2>1, <2>2 DEF Settle, WriteBack
<1> QED
  BY <1>2, <1>4, <1>5, <1>6, <1>7 DEF IInv

----------------------------------------------------------------------------
(* The calls.                                                               *)

\* blk_read that succeeds.
LEMMA ReadIInv ==
  ASSUME IInv, NEW b \in Blocks, NEW keep \in {0, 1}, Read(b, keep)
  PROVE  IInv'
<1>1. PICK n \in Ways, nx \in Ways :
        /\ Choose(b, n, nx)
        /\ refcnt[line[b]][n] + keep <= MaxRef
        /\ \/ /\ Cached(b, n)
              /\ Settle(b, n, nx, keep, TRUE, dirty[line[b]][n], data[line[b]][n])
           \/ /\ ~Cached(b, n)
              /\ Settle(b, n, nx, keep, TRUE, FALSE, FromDisk(b))
  BY DEF Read
<1>2. /\ dirty[line[b]][n] \in BOOLEAN /\ data[line[b]][n] \in Data
      /\ disk[b] \in Data
  BY DEF IInv, TypeOK
<1>3. CASE /\ Cached(b, n)
           /\ Settle(b, n, nx, keep, TRUE, dirty[line[b]][n], data[line[b]][n])
  BY <1>1, <1>2, <1>3, SettleIInv
<1>4. CASE /\ ~Cached(b, n)
           /\ Settle(b, n, nx, keep, TRUE, FALSE, FromDisk(b))
  BY <1>1, <1>2, <1>4, SettleIInv DEF FromDisk
<1> QED
  BY <1>1, <1>3, <1>4

\* blk_read that fails.
LEMMA ReadErrorIInv ==
  ASSUME IInv, NEW b \in Blocks, ReadError(b)
  PROVE  IInv'
<1>1. PICK n \in Ways, nx \in Ways, x \in Data :
        Choose(b, n, nx) /\ Settle(b, n, nx, 0, FALSE, FALSE, x)
  BY DEF ReadError
<1>2. refcnt[line[b]][n] + 0 <= MaxRef
  BY DEF IInv, TypeOK
<1> QED
  BY <1>1, <1>2, SettleIInv

\* blk_upwrite.
LEMMA UpWriteIInv ==
  ASSUME IInv, NEW b \in Blocks, NEW v \in Data, UpWrite(b, v)
  PROVE  IInv'
<1>1. PICK n \in Ways, nx \in Ways :
        Choose(b, n, nx) /\ Settle(b, n, nx, 0, TRUE, TRUE, v)
  BY DEF UpWrite
<1>2. refcnt[line[b]][n] + 0 <= MaxRef
  BY DEF IInv, TypeOK
<1> QED
  BY <1>1, <1>2, SettleIInv

\* blk_put.
LEMMA PutIInv ==
  ASSUME IInv, NEW l \in Lines, NEW n \in Ways, Put(l, n)
  PROVE  IInv'
<1>1. refcnt[l] \in [Ways -> 0 .. MaxRef] /\ refcnt[l][n] > 0
  BY DEF IInv, TypeOK, Put, MayPut
<1>2. refcnt' \in [Lines -> [Ways -> 0 .. MaxRef]]
  BY <1>1 DEF IInv, TypeOK, Put
<1>3. TypeOK'
  BY <1>2 DEF IInv, TypeOK, Put
<1>4. \A k \in Lines, m \in Ways : refcnt'[k][m] > 0 => refcnt[k][m] > 0
  BY <1>1 DEF IInv, TypeOK, Put
<1> QED
  BY <1>3, <1>4 DEF Put, IInv, InRow, OneCopy, DirtyValid, CleanMatches

\* A holder changes its buffer.
LEMMA ModifyIInv ==
  ASSUME IInv, NEW l \in Lines, NEW n \in Ways, NEW v \in Data, Modify(l, n, v)
  PROVE  IInv'
<1>1. data' \in [Lines -> [Ways -> Data]]
  BY DEF IInv, TypeOK, Modify
<1>2. dirty' \in [Lines -> [Ways -> BOOLEAN]]
  BY Zenon DEF IInv, TypeOK, Modify
<1>3. TypeOK'
  BY <1>1, <1>2 DEF IInv, TypeOK, Modify
<1>4. \A k \in Lines, m \in Ways : <<k, m>> # <<l, n>> =>
        dirty'[k][m] = dirty[k][m] /\ data'[k][m] = data[k][m]
  BY DEF IInv, TypeOK, Modify
<1>5. dirty'[l][n] /\ valid[l][n]
  BY DEF IInv, TypeOK, Modify
<1> QED
  BY <1>3, <1>4, <1>5 DEF Modify, IInv, InRow, OneCopy, DirtyValid, CleanMatches

\* A block that blk_sync writes has one dirty buffer, so what is written is
\* what every reader sees.
LEMMA SyncIInv ==
  ASSUME IInv, NEW S \in SUBSET Bufs, NEW F \in SUBSET Bufs, NEW invl \in BOOLEAN,
         Sync(S, F, invl)
  PROVE  IInv'
<1> DEFINE w(b) == {p \in S : dirty[p[1]][p[2]] /\ blk[p[1]][p[2]] = b}
           bad  == {blk[p[1]][p[2]] : p \in F}
           good == {blk[p[1]][p[2]] : p \in {q \in S \ F : dirty[q[1]][q[2]]}}
           out(b) == LET p == CHOOSE q \in w(b) : TRUE IN data[p[1]][p[2]]
<1>0. \A p \in Bufs : p[1] \in Lines /\ p[2] \in Ways /\ p = <<p[1], p[2]>>
  BY DEF Bufs
<1>1. PICK H \in SUBSET F :
        disk' = [b \in Blocks |->
                   IF \E p \in w(b) : p \notin F \/ p \in H
                     THEN out(b) ELSE disk[b]]
  BY DEF Sync
<1>2. lost' = (lost \ good) \cup bad /\ F \subseteq {p \in S : dirty[p[1]][p[2]]}
  BY DEF Sync
<1>3. /\ dirty' = [l \in Lines |-> [n \in Ways |->
                     IF <<l, n>> \in S THEN FALSE ELSE dirty[l][n]]]
      /\ valid' = [l \in Lines |-> [n \in Ways |->
                     IF invl /\ <<l, n>> \in S /\ refcnt[l][n] = 0
                       THEN FALSE ELSE valid[l][n]]]
      /\ UNCHANGED <<refcnt, blk, data, blk_nind>>
  BY DEF Sync, StaysDirty, Dropped
<1>4. \A b \in Blocks : w(b) # {} => out(b) \in Data
  BY <1>0, ZenonT(60) DEF IInv, TypeOK
<1>5. TypeOK'
  <2>1. disk' \in [Blocks -> Data]
    BY <1>1, <1>4 DEF IInv, TypeOK
  <2>2. lost' \subseteq Blocks
    BY <1>0, <1>2 DEF IInv, TypeOK
  <2>3. dirty' \in [Lines -> [Ways -> BOOLEAN]] /\ valid' \in [Lines -> [Ways -> BOOLEAN]]
    <3>1. \A l \in Lines, n \in Ways :
            dirty[l][n] \in BOOLEAN /\ valid[l][n] \in BOOLEAN
      BY DEF IInv, TypeOK
    <3> QED
      BY <1>3, <3>1, Zenon
  <2> QED
    BY <1>3, <2>1, <2>2, <2>3 DEF IInv, TypeOK
<1>6. \A l \in Lines, n \in Ways :
        /\ dirty'[l][n] => dirty[l][n] /\ <<l, n>> \notin S
        /\ valid'[l][n] => valid[l][n]
        /\ <<l, n>> \notin S => valid'[l][n] = valid[l][n] /\ dirty'[l][n] = dirty[l][n]
  BY <1>3
<1>7. InRow' /\ OneCopy' /\ DirtyValid'
  BY <1>3, <1>6 DEF IInv, InRow, OneCopy, DirtyValid
<1>8. CleanMatches'
  <2> SUFFICES ASSUME NEW l \in Lines, NEW n \in Ways,
                      valid'[l][n], ~dirty'[l][n], blk'[l][n] \notin lost'
               PROVE  data'[l][n] = disk'[blk'[l][n]]
    BY DEF CleanMatches
  <2> DEFINE b == blk[l][n]
  <2>1. b \in Blocks /\ valid[l][n] /\ b \notin bad
    <3>1. b \in Blocks
      BY DEF IInv, TypeOK
    <3>2. valid[l][n]
      BY <1>6, Zenon
    <3>3. b \notin lost'
      BY <1>3
    <3> QED
      BY <1>2, <3>1, <3>2, <3>3, Zenon
  \* Any dirty buffer of this block is this very buffer.
  <2>2. \A p \in w(b) : p = <<l, n>>
    <3> SUFFICES ASSUME NEW p \in w(b) PROVE p = <<l, n>>
      OBVIOUS
    <3>1. p[1] \in Lines /\ p[2] \in Ways /\ p = <<p[1], p[2]>>
      BY <1>0
    <3>2. valid[p[1]][p[2]] /\ blk[p[1]][p[2]] = b
      BY <3>1 DEF IInv, DirtyValid
    <3>3. line[b] = p[1] /\ line[b] = l
      BY <2>1, <3>1, <3>2 DEF IInv, InRow
    <3> QED
      BY <2>1, <3>1, <3>2, <3>3 DEF IInv, OneCopy
  <2>3. CASE w(b) # {}
    <3>1. <<l, n>> \in w(b)
      BY <2>2, <2>3
    <3>2. <<l, n>> \notin F
      BY <2>1
    <3>3. out(b) = data[l][n]
      <4>1. (CHOOSE q \in w(b) : TRUE) \in w(b)
        BY <3>1, Zenon
      <4>2. (CHOOSE q \in w(b) : TRUE) = <<l, n>>
        BY <2>2, <4>1, Zenon
      <4>3. <<l, n>>[1] = l /\ <<l, n>>[2] = n
        OBVIOUS
      <4> QED
        BY <4>2, <4>3, Zenon
    <3> QED
      BY <1>1, <1>3, <2>1, <3>1, <3>2, <3>3, ZenonT(60)
  <2>4. CASE w(b) = {}
    <3>1. ~dirty[l][n]
      <4>1. CASE <<l, n>> \in S
        <5>1. <<l, n>> \notin w(b)
          BY <2>4
        <5> QED
          BY <4>1, <5>1
      <4>2. CASE <<l, n>> \notin S
        BY <1>6, <4>2
      <4> QED
        BY <4>1, <4>2
    <3>2. b \notin good
      BY <2>4
    <3>3. b \notin lost
      BY <1>2, <1>3, <3>2
    <3> QED
      BY <1>1, <1>3, <2>1, <2>4, <3>1, <3>3 DEF IInv, CleanMatches
  <2> QED
    BY <2>3, <2>4
<1> QED
  BY <1>5, <1>7, <1>8 DEF IInv

\* A restart empties the cache.
LEMMA CrashIInv ==
  ASSUME IInv, Crash
  PROVE  IInv'
<1>1. valid' \in [Lines -> [Ways -> BOOLEAN]] /\ dirty' \in [Lines -> [Ways -> BOOLEAN]]
  BY Zenon DEF Crash
<1>2. refcnt' \in [Lines -> [Ways -> 0 .. MaxRef]] /\ 0 \in Ways
  BY DEF Crash, Ways
<1>3. \A l \in Lines, n \in Ways : refcnt'[l][n] = 0 /\ ~valid'[l][n] /\ ~dirty'[l][n]
  BY Zenon DEF Crash
<1>4. TypeOK'
  BY <1>1, <1>2 DEF Crash, IInv, TypeOK
<1> QED
  BY <1>3, <1>4 DEF IInv, InRow, OneCopy, DirtyValid, CleanMatches

----------------------------------------------------------------------------
(* The theorems.                                                            *)

\* Every step keeps the inductive invariant.
LEMMA NextIInv == IInv /\ [Next]_vars => IInv'
<1> SUFFICES ASSUME IInv, [Next]_vars PROVE IInv'
  OBVIOUS
<1>1. CASE UNCHANGED vars
  BY <1>1 DEF vars, IInv, TypeOK, InRow, OneCopy, DirtyValid, CleanMatches
<1>2. ASSUME NEW b \in Blocks, ReadError(b) \/ \E k \in {0, 1} : Read(b, k)
      PROVE  IInv'
  BY <1>2, ReadIInv, ReadErrorIInv
<1>3. ASSUME NEW b \in Blocks, NEW v \in Data, UpWrite(b, v) PROVE IInv'
  BY <1>3, UpWriteIInv
<1>4. ASSUME NEW l \in Lines, NEW n \in Ways,
             Put(l, n) \/ \E v \in Data : Modify(l, n, v)
      PROVE  IInv'
  BY <1>4, PutIInv, ModifyIInv
<1>5. CASE PartSync
  BY <1>5, SyncIInv DEF PartSync
<1>6. ASSUME NEW i \in BOOLEAN, FullSync(i) PROVE IInv'
  BY <1>6, SyncIInv DEF FullSync
<1>7. CASE Crash
  BY <1>7, CrashIInv
<1> QED
  BY <1>1, <1>2, <1>3, <1>4, <1>5, <1>6, <1>7 DEF Next

\* The inductive invariant holds in every reachable state of the cache.
THEOREM Invariance == Spec => []IInv
BY InitIInv, NextIInv, PTL DEF Spec

\* The variables of the cache keep their types: reference counts, in
\* particular, are never negative.
THEOREM TypeCorrect == Spec => []TypeOK
<1>1. IInv => TypeOK
  BY DEF IInv
<1> QED
  BY <1>1, Invariance, PTL

\* No block has two buffers, for any number of blocks and buffers.
THEOREM OneCopyCorrect == Spec => []OneCopy
<1>1. IInv => OneCopy
  BY DEF IInv
<1> QED
  BY <1>1, Invariance, PTL

\* blk_write never meets a dirty buffer that is not valid.
THEOREM DirtyValidCorrect == Spec => []DirtyValid
<1>1. IInv => DirtyValid
  BY DEF IInv
<1> QED
  BY <1>1, Invariance, PTL

\* A clean buffer holds what is on the disk, unless its write has failed.
THEOREM CleanCorrect == Spec => []CleanMatches
<1>1. IInv => CleanMatches
  BY DEF IInv
<1> QED
  BY <1>1, Invariance, PTL

\* A buffer that stays held across a step, other than a crash, keeps its
\* block, and its content does not become invalid.
THEOREM HeldStaysCorrect == Spec => HeldStays
<1> DEFINE Kept == \A l \in Lines, n \in Ways :
                     refcnt[l][n] > 0 /\ refcnt'[l][n] > 0 =>
                       /\ blk'[l][n] = blk[l][n]
                       /\ valid[l][n] => valid'[l][n]
<1>1. ASSUME IInv, NEW b \in Blocks, NEW n \in Ways, NEW nx \in Ways,
             NEW keep \in Nat, NEW v \in BOOLEAN, NEW d \in BOOLEAN, NEW x \in Data,
             Choose(b, n, nx), Settle(b, n, nx, keep, v, d, x),
             Cached(b, n) => v
      PROVE  Kept
  <2>1. /\ Hits(b) # {} => IsHit(b, n)
        /\ Hits(b) = {} => refcnt[line[b]][n] = 0
    BY <1>1, ChooseSafe DEF IInv
  <2>2. /\ valid'[line[b]][n] = v /\ blk'[line[b]][n] = b
        /\ \A l \in Lines, m \in Ways : <<l, m>> # <<line[b], n>> =>
             valid'[l][m] = valid[l][m] /\ blk'[l][m] = blk[l][m]
    <3>1. TypeOK
      BY <1>1 DEF IInv
    <3> QED
      BY <1>1, <2>1, <3>1, SettleFields, SMTT(30)
  <2>3. refcnt[line[b]][n] > 0 => n \in Hits(b) /\ blk[line[b]][n] = b
    BY <1>1, <2>1 DEF Hits, IsHit
  <2>4. refcnt[line[b]][n] > 0 /\ valid[line[b]][n] => v
    BY <1>1, <2>3 DEF Cached
  <2> QED
    BY <2>2, <2>3, <2>4
<1>2. ASSUME IInv, NEW b \in Blocks, NEW keep \in {0, 1}, Read(b, keep) PROVE Kept
  <2>1. PICK n \in Ways, nx \in Ways :
          /\ Choose(b, n, nx)
          /\ \/ Settle(b, n, nx, keep, TRUE, dirty[line[b]][n], data[line[b]][n])
             \/ Settle(b, n, nx, keep, TRUE, FALSE, disk[b])
    BY <1>2 DEF Read, FromDisk
  <2>2. /\ dirty[line[b]][n] \in BOOLEAN /\ data[line[b]][n] \in Data
        /\ disk[b] \in Data /\ keep \in Nat
    BY <1>2 DEF IInv, TypeOK
  <2> HIDE DEF Kept
  <2> QED
    BY <1>1, <1>2, <2>1, <2>2
<1>3. ASSUME IInv, NEW b \in Blocks, ReadError(b) PROVE Kept
  <2>1. PICK n \in Ways, nx \in Ways, x \in Data :
          /\ Choose(b, n, nx) /\ ~Cached(b, n)
          /\ Settle(b, n, nx, 0, FALSE, FALSE, x)
    BY <1>3 DEF ReadError
  <2> HIDE DEF Kept
  <2> QED
    BY <1>1, <1>3, <2>1
<1>4. ASSUME IInv, NEW b \in Blocks, NEW v \in Data, UpWrite(b, v) PROVE Kept
  <2>1. PICK n \in Ways, nx \in Ways :
          Choose(b, n, nx) /\ Settle(b, n, nx, 0, TRUE, TRUE, v)
    BY <1>4 DEF UpWrite
  <2> HIDE DEF Kept
  <2> QED
    BY <1>1, <1>4, <2>1
<1>5. ASSUME NEW l \in Lines, NEW n \in Ways,
             Put(l, n) \/ \E v \in Data : Modify(l, n, v)
      PROVE  Kept
  BY <1>5 DEF Put, Modify
<1>6. ASSUME NEW S \in SUBSET Bufs, NEW F \in SUBSET Bufs, NEW i \in BOOLEAN,
             Sync(S, F, i)
      PROVE  Kept
  <2>1. /\ UNCHANGED <<refcnt, blk>>
        /\ valid' = [l \in Lines |-> [n \in Ways |->
                       IF i /\ <<l, n>> \in S /\ refcnt[l][n] = 0
                         THEN FALSE ELSE valid[l][n]]]
    BY <1>6 DEF Sync, Dropped
  <2> QED
    BY <2>1
<1>7. IInv /\ Next => Crash \/ Kept
  <2> HIDE DEF Kept
  <2>1. ASSUME IInv, PartSync PROVE Kept
    BY <1>6, <2>1 DEF PartSync
  <2>2. ASSUME IInv, NEW i \in BOOLEAN, FullSync(i) PROVE Kept
    BY <1>6, <2>2 DEF FullSync
  <2> QED
    BY <1>2, <1>3, <1>4, <1>5, <2>1, <2>2 DEF Next
<1>8. IInv /\ [Next]_vars => [Crash \/ Kept]_vars
  BY <1>7
<1> QED
  BY <1>8, Invariance, PTL DEF Spec, HeldStays

\* The cache as a whole, as getblk leaves it for every number of blocks and
\* buffers.
THEOREM CacheCorrect == Spec => []CacheExact
<1>1. IInv => CacheExact
  BY DEF IInv, CacheExact
<1> QED
  BY <1>1, Invariance, PTL

----------------------------------------------------------------------------
(* The refinement: what readers see of the cache is the abstract store.     *)

\* Block c is in buffer n of its row, valid.
InBuf(c, n) == valid[line[c]][n] /\ blk[line[c]][n] = c

\* A reader gets the one valid buffer of a block, or else the disk.
LEMMA ViewValue ==
  IInv => \A c \in Blocks :
    /\ \A n \in Ways : InBuf(c, n) => View[c] = data[line[c]][n]
    /\ (\A n \in Ways : ~InBuf(c, n)) => View[c] = disk[c]
<1> SUFFICES ASSUME IInv, NEW c \in Blocks
             PROVE  /\ \A n \in Ways : InBuf(c, n) => View[c] = data[line[c]][n]
                    /\ (\A n \in Ways : ~InBuf(c, n)) => View[c] = disk[c]
  OBVIOUS
<1>1. \A n \in Ways : Cached(c, n) <=> InBuf(c, n)
  BY DEF Cached, Hits, IsHit, InBuf
<1>2. View[c] = IF \E n \in Ways : Cached(c, n)
                  THEN data[line[c]][CHOOSE n \in Ways : Cached(c, n)]
                  ELSE disk[c]
  BY DEF View
<1>3. ASSUME NEW n \in Ways, InBuf(c, n) PROVE View[c] = data[line[c]][n]
  <2> DEFINE m == CHOOSE k \in Ways : Cached(c, k)
  <2>1. m \in Ways /\ Cached(c, m)
    BY <1>1, <1>3, Zenon
  <2>2. InBuf(c, m)
    BY <1>1, <2>1, Zenon
  <2>3. m = n
    <3> HIDE DEF m
    <3>1. line[c] \in Lines
      OBVIOUS
    <3> QED
      BY <1>3, <2>1, <2>2, <3>1 DEF IInv, OneCopy, InBuf
  <2> QED
    BY <1>1, <1>2, <1>3, <2>3, Zenon
<1> QED
  BY <1>1, <1>2, <1>3

\* The same of the next state.
LEMMA ViewValueNext ==
  IInv' => \A c \in Blocks :
    /\ \A n \in Ways : InBuf(c, n)' => View'[c] = data'[line[c]][n]
    /\ (\A n \in Ways : ~InBuf(c, n)') => View'[c] = disk'[c]
<1>1. (IInv => \A c \in Blocks :
         /\ \A n \in Ways : InBuf(c, n) => View[c] = data[line[c]][n]
         /\ (\A n \in Ways : ~InBuf(c, n)) => View[c] = disk[c])'
  BY ViewValue, PTL
<1> QED
  BY <1>1

\* A call that settles on a buffer changes, in the store, at most the block it
\* is for; the victim's block is only flushed, or forgotten if that fails.
LEMMA SettleStore ==
  ASSUME IInv, IInv', NEW b \in Blocks, NEW n \in Ways, NEW nx \in Ways,
         NEW keep \in Nat, NEW v \in BOOLEAN, NEW d \in BOOLEAN, NEW x \in Data,
         Choose(b, n, nx), Settle(b, n, nx, keep, v, d, x)
  PROVE  /\ \A c \in Blocks \ {b} : Store!Managed(c)
         /\ disk'[b] = disk[b] /\ (b \in lost' <=> b \in lost)
         /\ View'[b] = IF v THEN x ELSE disk[b]
         /\ View[b] = IF Cached(b, n) THEN data[line[b]][n] ELSE disk[b]
<1> DEFINE l0 == line[b]
<1>0. l0 \in Lines
  OBVIOUS
<1>1. /\ Hits(b) # {} => IsHit(b, n)
      /\ Hits(b) = {} => refcnt[l0][n] = 0
      /\ \A m \in Ways : IsHit(b, m) => m = n
  BY ChooseSafe DEF IInv
<1>2. /\ valid'[l0][n] = v /\ blk'[l0][n] = b /\ data'[l0][n] = x
      /\ \A l \in Lines, m \in Ways : <<l, m>> # <<l0, n>> =>
           /\ valid'[l][m] = valid[l][m]
           /\ blk'[l][m] = blk[l][m] /\ data'[l][m] = data[l][m]
  BY <1>1, SettleFields DEF IInv
<1>3. \A c \in Blocks, m \in Ways : (c # b \/ m # n) =>
        /\ InBuf(c, m)' <=> InBuf(c, m) /\ <<line[c], m>> # <<l0, n>>
        /\ InBuf(c, m)' => data'[line[c]][m] = data[line[c]][m]
  <2> SUFFICES ASSUME NEW c \in Blocks, NEW m \in Ways, c # b \/ m # n
               PROVE  /\ InBuf(c, m)' <=> InBuf(c, m) /\ <<line[c], m>> # <<l0, n>>
                      /\ InBuf(c, m)' => data'[line[c]][m] = data[line[c]][m]
    OBVIOUS
  <2>1. line[c] \in Lines
    OBVIOUS
  <2>2. CASE <<line[c], m>> = <<l0, n>>
    BY <1>2, <2>2 DEF InBuf
  <2>3. CASE <<line[c], m>> # <<l0, n>>
    BY <1>2, <2>1, <2>3 DEF InBuf
  <2> QED
    BY <2>2, <2>3
<1>4. InBuf(b, n)' <=> v
  BY <1>2 DEF InBuf
<1>5. \A m \in Ways : InBuf(b, m) <=> m = n /\ Cached(b, n)
  BY <1>1 DEF InBuf, Cached, Hits, IsHit
<1>6. View[b] = IF Cached(b, n) THEN data[l0][n] ELSE disk[b]
  BY <1>5, ViewValue
\* What is written back is another block's.
<1>7. /\ Hits(b) # {} \/ ~dirty[l0][n] => disk' = disk /\ lost' = lost
      /\ Hits(b) = {} /\ dirty[l0][n] =>
           /\ InBuf(blk[l0][n], n) /\ blk[l0][n] \in Blocks \ {b}
           /\ line[blk[l0][n]] = l0
  <2>1. blk[l0][n] \in Blocks
    BY <1>0 DEF IInv, TypeOK
  <2>2. Hits(b) # {} \/ ~dirty[l0][n] => disk' = disk /\ lost' = lost
    BY <1>0, <2>1 DEF Settle, WriteBack
  <2>3. ASSUME Hits(b) = {}, dirty[l0][n]
        PROVE  /\ InBuf(blk[l0][n], n) /\ blk[l0][n] # b
               /\ line[blk[l0][n]] = l0
    <3>1. valid[l0][n]
      BY <1>0, <2>3 DEF IInv, DirtyValid
    <3>2. line[blk[l0][n]] = l0
      BY <1>0, <3>1 DEF IInv, InRow
    <3>3. blk[l0][n] # b
      BY <2>3, <3>1 DEF Hits, IsHit
    <3> QED
      BY <3>1, <3>2, <3>3 DEF InBuf
  <2> QED
    BY <2>1, <2>2, <2>3
<1>8. disk'[b] = disk[b] /\ (b \in lost' <=> b \in lost)
  <2>1. CASE Hits(b) # {} \/ ~dirty[l0][n]
    BY <1>7, <2>1
  <2>2. CASE Hits(b) = {} /\ dirty[l0][n]
    <3>1. WriteBack(l0, n) /\ TypeOK
      BY <2>2 DEF Settle, IInv
    <3>2. b \in Blocks \ {blk[l0][n]}
      BY <1>7, <2>2
    <3> QED
      BY <1>0, <3>1, <3>2, WriteBackEffect
  <2> QED
    BY <2>1, <2>2
<1>9. View'[b] = IF v THEN x ELSE disk[b]
  <2>1. CASE v
    BY <1>2, <1>4, <2>1, ViewValueNext
  <2>2. CASE ~v
    <3>1. \A m \in Ways : ~InBuf(b, m)'
      BY <1>3, <1>4, <1>5, <2>2
    <3> QED
      BY <1>8, <2>2, <3>1, ViewValueNext
  <2> QED
    BY <2>1, <2>2
<1>10. ASSUME NEW c \in Blocks \ {b} PROVE Store!Managed(c)
  <2> DEFINE victim == line[c] = l0 /\ InBuf(c, n)
  <2>1. \A m \in Ways : InBuf(c, m)' <=> InBuf(c, m) /\ ~(victim /\ m = n)
    BY <1>3
  <2>2. \A m \in Ways : InBuf(c, m)' => data'[line[c]][m] = data[line[c]][m]
    BY <1>3
  <2>3. CASE ~victim
    <3>1. View'[c] = View[c]
      <4>1. CASE \E m \in Ways : InBuf(c, m)
        BY <2>1, <2>2, <2>3, <4>1, ViewValue, ViewValueNext
      <4>2. CASE \A m \in Ways : ~InBuf(c, m)
        <5>1. View[c] = disk[c] /\ View'[c] = disk'[c]
          BY <2>1, <4>2, ViewValue, ViewValueNext
        <5>2. CASE Hits(b) # {} \/ ~dirty[l0][n]
          BY <1>7, <5>1, <5>2
        <5>3. CASE Hits(b) = {} /\ dirty[l0][n]
          <6>1. c # blk[l0][n]
            BY <1>7, <4>2, <5>3
          <6>2. WriteBack(l0, n) /\ TypeOK
            BY <5>3 DEF Settle, IInv
          <6> QED
            BY <1>0, <5>1, <6>1, <6>2, WriteBackEffect
        <5> QED
          BY <5>2, <5>3
      <4> QED
        BY <4>1, <4>2
    <3>2. disk'[c] = disk[c] /\ (c \in lost' <=> c \in lost)
      <4>1. CASE Hits(b) # {} \/ ~dirty[l0][n]
        BY <1>7, <4>1
      <4>2. CASE Hits(b) = {} /\ dirty[l0][n]
        <5>1. c # blk[l0][n]
          BY <1>7, <2>3, <4>2
        <5>2. WriteBack(l0, n) /\ TypeOK
          BY <4>2 DEF Settle, IInv
        <5> QED
          BY <1>0, <5>1, <5>2, WriteBackEffect
      <4> QED
        BY <4>1, <4>2
    <3> QED
      BY <3>1, <3>2 DEF Store!Managed
  <2>4. CASE victim
    <3>1. Hits(b) = {}
      BY <1>1, <2>4 DEF InBuf, IsHit
    <3>2. View[c] = data[l0][n] /\ blk[l0][n] = c /\ valid[l0][n]
      BY <2>4, ViewValue DEF InBuf
    <3>3. \A m \in Ways : ~InBuf(c, m)'
      <4>1. \A m \in Ways : InBuf(c, m) => m = n
        BY <1>0, <2>4 DEF IInv, OneCopy, InBuf
      <4> QED
        BY <2>1, <2>4, <4>1
    <3>4. View'[c] = disk'[c]
      BY <3>3, ViewValueNext
    <3>5. CASE ~dirty[l0][n]
      <4>1. disk' = disk /\ lost' = lost
        BY <1>7, <3>5
      <4>2. c \notin lost => data[l0][n] = disk[c]
        BY <1>0, <3>2, <3>5 DEF IInv, CleanMatches
      <4> QED
        BY <3>2, <3>4, <4>1, <4>2 DEF Store!Managed
    <3>6. CASE dirty[l0][n]
      <4>1. WriteBack(l0, n)
        BY <3>1 DEF Settle
      <4>2. \/ disk'[c] = data[l0][n] /\ c \notin lost'
            \/ disk'[c] \in {disk[c], data[l0][n]} /\ c \in lost'
        BY <3>2, <3>6, <4>1 DEF WriteBack, IInv, TypeOK
      <4> QED
        BY <3>2, <3>4, <4>2 DEF Store!Managed
    <3> QED
      BY <3>5, <3>6
  <2> QED
    BY <2>3, <2>4
<1> QED
  BY <1>6, <1>8, <1>9, <1>10

\* The next state of a call has the shape of a store.
LEMMA NextShape == IInv' => Store!Shape
<1>1. DOMAIN View' = Blocks
  BY DEF View
<1> QED
  BY <1>1 DEF IInv, TypeOK, Store!Shape

\* blk_read, with or without an error, shows nothing new.
LEMMA ReadStore ==
  ASSUME IInv, IInv', NEW b \in Blocks,
         ReadError(b) \/ \E k \in {0, 1} : Read(b, k)
  PROVE  Store!Manage
<1>1. PICK n \in Ways, nx \in Ways, keep \in {0, 1}, v \in BOOLEAN,
           d \in BOOLEAN, x \in Data :
        /\ Choose(b, n, nx)
        /\ Settle(b, n, nx, keep, v, d, x)
        /\ \/ v /\ Cached(b, n) /\ x = data[line[b]][n]
           \/ v /\ ~Cached(b, n) /\ x = disk[b]
           \/ ~v /\ ~Cached(b, n)
  <2>1. ASSUME NEW keep \in {0, 1}, Read(b, keep)
        PROVE  \E n \in Ways, nx \in Ways, v \in BOOLEAN, d \in BOOLEAN, x \in Data :
                 /\ Choose(b, n, nx)
                 /\ Settle(b, n, nx, keep, v, d, x)
                 /\ \/ v /\ Cached(b, n) /\ x = data[line[b]][n]
                    \/ v /\ ~Cached(b, n) /\ x = disk[b]
    <3>1. PICK n \in Ways, nx \in Ways :
            /\ Choose(b, n, nx)
            /\ \/ /\ Cached(b, n)
                  /\ Settle(b, n, nx, keep, TRUE, dirty[line[b]][n], data[line[b]][n])
               \/ /\ ~Cached(b, n)
                  /\ Settle(b, n, nx, keep, TRUE, FALSE, disk[b])
      BY <2>1 DEF Read, FromDisk
    <3>2. /\ dirty[line[b]][n] \in BOOLEAN /\ data[line[b]][n] \in Data
          /\ disk[b] \in Data
      BY DEF IInv, TypeOK
    <3> QED
      BY <3>1, <3>2
  <2>2. ASSUME ReadError(b)
        PROVE  \E n \in Ways, nx \in Ways, x \in Data :
                 Choose(b, n, nx) /\ Settle(b, n, nx, 0, FALSE, FALSE, x) /\ ~Cached(b, n)
    BY <2>2 DEF ReadError
  <2>3. CASE ReadError(b)
    <3>1. 0 \in {0, 1} /\ FALSE \in BOOLEAN
      OBVIOUS
    <3>2. PICK n \in Ways, nx \in Ways, x \in Data :
            Choose(b, n, nx) /\ Settle(b, n, nx, 0, FALSE, FALSE, x) /\ ~Cached(b, n)
      BY <2>2, <2>3
    <3>3. /\ Choose(b, n, nx)
          /\ Settle(b, n, nx, 0, FALSE, FALSE, x)
          /\ \/ FALSE /\ Cached(b, n) /\ x = data[line[b]][n]
             \/ FALSE /\ ~Cached(b, n) /\ x = disk[b]
             \/ ~FALSE /\ ~Cached(b, n)
      BY <3>2
    <3> QED
      BY <3>1, <3>3, Zenon
  <2>4. ASSUME NEW keep \in {0, 1}, Read(b, keep)
        PROVE  \E n \in Ways, nx \in Ways, v \in BOOLEAN, d \in BOOLEAN, x \in Data :
                 /\ Choose(b, n, nx)
                 /\ Settle(b, n, nx, keep, v, d, x)
                 /\ \/ v /\ Cached(b, n) /\ x = data[line[b]][n]
                    \/ v /\ ~Cached(b, n) /\ x = disk[b]
                    \/ ~v /\ ~Cached(b, n)
    BY <2>1, <2>4, ZenonT(60)
  <2> QED
    BY <2>3, <2>4, Zenon
<1>2. /\ \A c \in Blocks \ {b} : Store!Managed(c)
      /\ disk'[b] = disk[b] /\ (b \in lost' <=> b \in lost)
      /\ View'[b] = IF v THEN x ELSE disk[b]
      /\ View[b] = IF Cached(b, n) THEN data[line[b]][n] ELSE disk[b]
  BY <1>1, SettleStore
<1>3. Store!Managed(b)
  BY <1>1, <1>2 DEF Store!Managed
<1> QED
  BY <1>2, <1>3, NextShape DEF Store!Manage

\* blk_upwrite is a write of the block it is for.
LEMMA UpWriteStore ==
  ASSUME IInv, IInv', NEW b \in Blocks, NEW v \in Data, UpWrite(b, v)
  PROVE  Store!Write(b, v)
<1>1. PICK n \in Ways, nx \in Ways :
        Choose(b, n, nx) /\ Settle(b, n, nx, 0, TRUE, TRUE, v)
  BY DEF UpWrite
<1>2. /\ \A c \in Blocks \ {b} : Store!Managed(c)
      /\ disk'[b] = disk[b] /\ (b \in lost' <=> b \in lost)
      /\ View'[b] = v
  BY <1>1, SettleStore, ZenonT(60)
<1> QED
  BY <1>2, NextShape DEF Store!Write

\* A step that leaves a block's buffers, and the disk, alone leaves its value.
LEMMA SameView ==
  ASSUME IInv, IInv', NEW c \in Blocks, disk'[c] = disk[c],
         \A n \in Ways : /\ InBuf(c, n)' <=> InBuf(c, n)
                         /\ InBuf(c, n) => data'[line[c]][n] = data[line[c]][n]
  PROVE  View'[c] = View[c]
<1>1. CASE \E n \in Ways : InBuf(c, n)
  BY <1>1, ViewValue, ViewValueNext
<1>2. CASE \A n \in Ways : ~InBuf(c, n)
  BY <1>2, ViewValue, ViewValueNext
<1> QED
  BY <1>1, <1>2

\* blk_put shows nothing new, and a holder writes the block of its buffer.
LEMMA PutStore ==
  ASSUME IInv, IInv', NEW l \in Lines, NEW n \in Ways, Put(l, n)
  PROVE  Store!Manage
<1>1. ASSUME NEW c \in Blocks PROVE Store!Managed(c)
  <2>1. View'[c] = View[c]
    BY SameView DEF Put, InBuf
  <2> QED
    BY <2>1 DEF Put, Store!Managed
<1> QED
  BY <1>1, NextShape DEF Store!Manage

LEMMA ModifyStore ==
  ASSUME IInv, IInv', NEW l \in Lines, NEW n \in Ways, NEW v \in Data, Modify(l, n, v)
  PROVE  \E b \in Blocks : Store!Write(b, v)
<1>1. PICK b \in Blocks : b = blk[l][n] /\ valid[l][n] /\ line[b] = l
  BY DEF IInv, TypeOK, InRow, Modify
<1>2. /\ data'[l][n] = v
      /\ \A k \in Lines, m \in Ways : <<k, m>> # <<l, n>> => data'[k][m] = data[k][m]
  BY DEF IInv, TypeOK, Modify
<1>3. View'[b] = v
  <2>1. InBuf(b, n)'
    BY <1>1 DEF InBuf, Modify
  <2> QED
    BY <1>1, <1>2, <2>1, ViewValueNext
<1>4. ASSUME NEW c \in Blocks \ {b} PROVE Store!Managed(c)
  <2>1. ASSUME NEW m \in Ways
        PROVE  /\ InBuf(c, m)' <=> InBuf(c, m)
               /\ InBuf(c, m) => data'[line[c]][m] = data[line[c]][m]
    <3>1. line[c] \in Lines /\ UNCHANGED <<valid, blk>>
      BY DEF Modify
    <3>2. InBuf(c, m) => <<line[c], m>> # <<l, n>>
      BY <1>1 DEF InBuf
    <3> QED
      BY <1>2, <3>1, <3>2 DEF InBuf
  <2>2. View'[c] = View[c]
    BY <2>1, SameView DEF Modify
  <2> QED
    BY <2>2 DEF Modify, Store!Managed
<1>5. Store!Write(b, v)
  BY <1>1, <1>3, <1>4, NextShape DEF Modify, Store!Write
<1> QED
  BY <1>1, <1>5

\* blk_sync flushes, and what it drops was flushed or is reported as lost.
LEMMA SyncStore ==
  ASSUME IInv, IInv', NEW S \in SUBSET Bufs, NEW F \in SUBSET Bufs, NEW invl \in BOOLEAN,
         Sync(S, F, invl)
  PROVE  Store!Manage
<1> DEFINE w(c) == {p \in S : dirty[p[1]][p[2]] /\ blk[p[1]][p[2]] = c}
           bad  == {blk[p[1]][p[2]] : p \in F}
           good == {blk[p[1]][p[2]] : p \in {q \in S \ F : dirty[q[1]][q[2]]}}
           out(c) == LET p == CHOOSE q \in w(c) : TRUE IN data[p[1]][p[2]]
<1>0. \A p \in Bufs : p[1] \in Lines /\ p[2] \in Ways /\ p = <<p[1], p[2]>>
  BY DEF Bufs
<1>1. PICK H \in SUBSET F :
        disk' = [c \in Blocks |->
                   IF \E p \in w(c) : p \notin F \/ p \in H
                     THEN out(c) ELSE disk[c]]
  BY DEF Sync
<1>2. lost' = (lost \ good) \cup bad /\ F \subseteq {p \in S : dirty[p[1]][p[2]]}
  BY DEF Sync
<1>3. /\ valid' = [l \in Lines |-> [n \in Ways |->
                     IF invl /\ <<l, n>> \in S /\ refcnt[l][n] = 0
                       THEN FALSE ELSE valid[l][n]]]
      /\ UNCHANGED <<blk, data>>
  BY DEF Sync, Dropped
<1>4. ASSUME NEW c \in Blocks PROVE Store!Managed(c)
  <2> DEFINE l == line[c]
  <2>0. l \in Lines
    OBVIOUS
  <2>1. \A n \in Ways : /\ InBuf(c, n)' => InBuf(c, n)
                        /\ InBuf(c, n) /\ <<l, n>> \notin S => InBuf(c, n)'
    BY <1>3, <2>0 DEF InBuf
  \* The buffers to be written for this block: its one dirty buffer.
  <2>2. \A p \in w(c) : p[1] = l /\ p[2] \in Ways /\ InBuf(c, p[2]) /\ p = <<l, p[2]>>
    <3> SUFFICES ASSUME NEW p \in w(c)
                 PROVE  p[1] = l /\ p[2] \in Ways /\ InBuf(c, p[2]) /\ p = <<l, p[2]>>
      OBVIOUS
    <3>1. p[1] \in Lines /\ p[2] \in Ways /\ p = <<p[1], p[2]>>
      BY <1>0
    <3>2. valid[p[1]][p[2]] /\ blk[p[1]][p[2]] = c
      BY <3>1 DEF IInv, DirtyValid
    <3>3. p[1] = l
      BY <3>1, <3>2 DEF IInv, InRow
    <3> QED
      BY <3>1, <3>2, <3>3 DEF InBuf
  <2>3. \A m, n \in Ways : InBuf(c, m) /\ InBuf(c, n) => m = n
    BY <2>0 DEF IInv, OneCopy, InBuf
  <2>4. CASE w(c) = {}
    <3>1. disk'[c] = disk[c]
      BY <1>1, <2>4
    <3>2. c \in lost' <=> c \in lost
      BY <1>2, <2>4
    <3>3. CASE \A n \in Ways : InBuf(c, n) => InBuf(c, n)'
      <4>1. View'[c] = View[c]
        BY <1>3, <2>1, <3>1, <3>3, SameView
      <4> QED
        BY <3>1, <3>2, <4>1 DEF Store!Managed
    <3>4. ASSUME NEW n \in Ways, InBuf(c, n), ~InBuf(c, n)'
          PROVE  Store!Managed(c)
      <4>1. <<l, n>> \in S /\ ~dirty[l][n] /\ valid[l][n] /\ blk[l][n] = c
        <5>1. <<l, n>> \in S /\ valid[l][n] /\ blk[l][n] = c
          BY <2>1, <3>4 DEF InBuf
        <5>2. <<l, n>> \notin w(c)
          BY <2>4
        <5> QED
          BY <5>1, <5>2
      <4>2. c \notin lost => data[l][n] = disk[c]
        BY <2>0, <4>1 DEF IInv, CleanMatches
      <4>3. View[c] = data[l][n]
        BY <3>4, ViewValue
      <4>4. View'[c] = disk'[c]
        <5>1. \A m \in Ways : ~InBuf(c, m)'
          BY <2>1, <2>3, <3>4
        <5> QED
          BY <5>1, ViewValueNext
      <4> QED
        BY <3>1, <3>2, <4>2, <4>3, <4>4 DEF Store!Managed
    <3> QED
      BY <3>3, <3>4
  <2>5. ASSUME NEW p \in w(c) PROVE Store!Managed(c)
    <3>1. PICK n \in Ways : p = <<l, n>> /\ InBuf(c, n)
      BY <2>2, <2>5
    <3>2. \A q \in w(c) : q = p
      BY <2>2, <2>3, <3>1
    <3>3. out(c) = data[l][n]
      <4>1. (CHOOSE q \in w(c) : TRUE) = <<l, n>>
        BY <2>5, <3>1, <3>2, Zenon
      <4>2. <<l, n>>[1] = l /\ <<l, n>>[2] = n
        OBVIOUS
      <4> QED
        BY <4>1, <4>2, Zenon
    <3>4. View[c] = out(c)
      BY <3>1, <3>3, ViewValue
    <3>5. View'[c] = View[c] \/ View'[c] = disk'[c]
      <4>1. CASE InBuf(c, n)'
        BY <1>3, <3>3, <3>4, <4>1, ViewValueNext
      <4>2. CASE ~InBuf(c, n)'
        <5>1. \A m \in Ways : ~InBuf(c, m)'
          BY <2>1, <2>3, <3>1, <4>2
        <5> QED
          BY <5>1, ViewValueNext
      <4> QED
        BY <4>1, <4>2
    <3>6. CASE p \notin F
      <4>1. disk'[c] = out(c)
        BY <1>1, <2>5, <3>6, Zenon
      <4>2. c \notin bad
        <5> SUFFICES ASSUME NEW q \in F, blk[q[1]][q[2]] = c PROVE FALSE
          OBVIOUS
        <5>1. q \in w(c)
          BY <1>2
        <5> QED
          BY <3>2, <3>6, <5>1
      <4>3. c \in good
        BY <2>5, <3>6
      <4>4. c \notin lost'
        BY <1>2, <4>2, <4>3
      <4> HIDE DEF out
      <4> QED
        BY <3>4, <3>5, <4>1, <4>4 DEF Store!Managed
    <3>7. CASE p \in F
      <4>1. c \in lost'
        BY <1>2, <2>5, <3>7
      <4>2. disk'[c] \in {disk[c], out(c)}
        BY <1>1, Zenon
      <4> HIDE DEF out
      <4> QED
        BY <3>4, <3>5, <4>1, <4>2 DEF Store!Managed
    <3> QED
      BY <3>6, <3>7
  <2> QED
    BY <2>4, <2>5
<1> QED
  BY <1>4, NextShape DEF Store!Manage

\* After a crash readers see the disk.
LEMMA CrashStore ==
  ASSUME IInv, IInv', Crash
  PROVE  Store!Crash
<1>1. \A l \in Lines, n \in Ways : ~valid'[l][n]
  BY Zenon DEF Crash
<1>2. \A c \in Blocks : View'[c] = disk'[c]
  BY <1>1, ViewValueNext DEF InBuf
<1>3. View' = [c \in Blocks |-> View'[c]] /\ disk = [c \in Blocks |-> disk[c]]
  BY DEF View, IInv, TypeOK
<1>4. View' = disk
  BY <1>2, <1>3 DEF Crash
<1> QED
  BY <1>4 DEF Crash, Store!Crash

\* An empty cache shows the disk.
LEMMA InitStore == Init => Store!SInit
<1> SUFFICES ASSUME Init PROVE Store!SInit
  OBVIOUS
<1>1. IInv
  BY InitIInv
<1>2. \A l \in Lines, n \in Ways : ~valid[l][n]
  BY Zenon DEF Init
<1>3. \A c \in Blocks : View[c] = disk[c]
  BY <1>1, <1>2, ViewValue DEF InBuf
<1>4. View = [c \in Blocks |-> View[c]] /\ disk = [c \in Blocks |-> disk[c]]
  BY DEF View, Init
<1>5. View = disk
  BY <1>3, <1>4
<1> QED
  BY <1>5 DEF Init, Store!SInit

\* The cache implements the block store: for any number of blocks, rows and
\* buffers per row, no order of hits, evictions, partial syncs, driver errors
\* and crashes shows a reader of blk_read anything but the last content
\* written to a block, unless a write of that block was reported to fail.
THEOREM StoreRefined == Spec => RefinesStore
<1>1. ASSUME IInv, IInv', Next PROVE Store!SNext
  <2>1. ASSUME NEW b \in Blocks, ReadError(b) \/ \E k \in {0, 1} : Read(b, k)
        PROVE  Store!SNext
    BY <1>1, <2>1, ReadStore DEF Store!SNext
  <2>2. ASSUME NEW b \in Blocks, NEW v \in Data, UpWrite(b, v) PROVE Store!SNext
    BY <1>1, <2>2, UpWriteStore DEF Store!SNext
  <2>3. ASSUME NEW l \in Lines, NEW n \in Ways, Put(l, n) PROVE Store!SNext
    BY <1>1, <2>3, PutStore DEF Store!SNext
  <2>4. ASSUME NEW l \in Lines, NEW n \in Ways, NEW v \in Data, Modify(l, n, v)
        PROVE  Store!SNext
    BY <1>1, <2>4, ModifyStore DEF Store!SNext
  <2>5. CASE PartSync
    BY <1>1, <2>5, SyncStore DEF PartSync, Store!SNext
  <2>6. ASSUME NEW i \in BOOLEAN, FullSync(i) PROVE Store!SNext
    BY <1>1, <2>6, SyncStore DEF FullSync, Store!SNext
  <2>7. CASE Crash
    BY <1>1, <2>7, CrashStore DEF Store!SNext
  <2> QED
    BY <1>1, <2>1, <2>2, <2>3, <2>4, <2>5, <2>6, <2>7 DEF Next
<1>2. UNCHANGED vars => UNCHANGED Store!svars
  BY DEF vars, Store!svars, View, Cached, Hits, IsHit
<1>3. IInv /\ IInv' /\ [Next]_vars => [Store!SNext]_(Store!svars)
  BY <1>1, <1>2
<1> QED
  BY <1>3, InitStore, Invariance, PTL DEF Spec, RefinesStore, Store!SSpec
=============================================================================

------------------------------ MODULE HardDisk ------------------------------
(* How a block of a hard disk device becomes a sector: the in-core partition *)
(* table of kern/dv/hd.c, the two tables on the disk it is read from, and    *)
(* the programs that write those, cmd/sbin/pcdisk.c (the PC's table in       *)
(* sector 0) and cmd/sbin/setpart.c (Xenus' own table, in the first sector   *)
(* of the Xenus partition).                                                  *)
(*                                                                           *)
(* A transfer either works or fails with EIO; the interrupt it waits for is  *)
(* not modelled.  Cylinders, slots and partitions are fewer than on a disk.  *)
(* A definition Mut... is a wrong form of the definition below it.           *)
EXTENDS Integers, Sequences, FiniteSets, FiniteSetsExt

CONSTANTS
  HdUnits,      \* numbers of the disks, from 0
  HdCyls,       \* cylinders of a disk
  CylSectors,   \* sectors of a cylinder
  CylRange,     \* cylinders a table entry can name: 1024 in the code
  NParts,       \* entries of Xenus' table, 7 in the code
  PartSizes,    \* sizes that setpart is called with
  BlkRange      \* range of blk_t: 2^32 in the code

ASSUME HardDiskAssumption ==
  /\ {HdCyls, CylSectors, CylRange, NParts, BlkRange} \subseteq Nat \ {0}
  /\ HdUnits \subseteq Nat /\ PartSizes \subseteq Nat
  /\ NParts <= 7    \* minor device 7 is the whole disk

VARIABLES
  hd_size, hd_off,   \* per minor device, <<unit, i>> with i = 7 the whole disk
  mbr,               \* per unit: the PC's table, a sequence of slots
  xtab,              \* per unit and sector: Xenus' table if it were there
  hdRead,            \* history: the tables were read since they changed
  hdCut              \* history: a slot's end no longer fits its field

hdVars == <<hd_size, hd_off, mbr, xtab, hdRead, hdCut>>

Whole   == 7
DiskSize == HdCyls * CylSectors
Sectors == 0 .. DiskSize - 1
Slots   == 1 .. 2          \* 4 in the code
Parts   == 0 .. NParts - 1
NoSlot  == [id |-> "none", s |-> 0, e |-> 0, start |-> 0, size |-> 0]
NoTable == [i \in Parts |-> 0]

----------------------------------------------------------------------------
(* The driver.                                                               *)

\* hd_bread, hd_bwrite: the sector, or -1 for EINVAL and EIO.
HdMap(u, i, blk) ==
  LET n == (hd_off[<<u, i>>] + blk) % BlkRange
  IN IF blk >= hd_size[<<u, i>>] \/ n >= DiskSize THEN -1 ELSE n

\* The Xenus partition that hd_gtable finds in a PC table; none means the
\* whole disk.
XenusSlot(m) ==
  LET x == {k \in Slots : m[k].id = "xenus"}
  IN IF x = {} THEN [NoSlot EXCEPT !.size = DiskSize] ELSE m[Min(x)]

\* Offset of entry i: hd_gtable adds up the sizes before it, in blk_t.
Before(t) ==
  LET sum[n \in 0 .. NParts] == IF n = 0 THEN 0 ELSE sum[n - 1] + t[n - 1]
  IN  sum
MutOffset(o, t, i) == (o + Before(t)[i + 1]) % BlkRange
Offset(o, t, i)    == (o + Before(t)[i]) % BlkRange

\* The table of unit u with both sectors readable.  An empty first partition
\* gets one block, so that the table can be written through it.
Sizes(t) == [i \in Parts |-> IF i = 0 /\ t[0] = 0 THEN 1 ELSE t[i]]

\* hd_gtable.  ok1, ok2: the two reads work.  The size of the whole disk is
\* always that of minor device 7, of whichever unit is read.
Gtable(u, m, xt, ok1, ok2) ==
  LET x  == XenusSlot(m)
      t  == xt[x.start]
      sz == [hd_size EXCEPT ![<<0, Whole>>] = DiskSize]
      found == ok2 /\ x.start \in Sectors /\ x.size > 0
  IN /\ hd_size' = IF ~ok1 THEN sz
                   ELSE IF ~found THEN [sz EXCEPT ![<<u, 0>>] = x.size]
                   ELSE [d \in DOMAIN sz |-> IF d[1] = u /\ d[2] \in Parts
                                               THEN Sizes(t)[d[2]] ELSE sz[d]]
     /\ hd_off' = IF ~ok1 THEN hd_off
                  ELSE IF ~found THEN [hd_off EXCEPT ![<<u, 0>>] = x.start]
                  ELSE [d \in DOMAIN hd_off |-> IF d[1] = u /\ d[2] \in Parts
                                                  THEN Offset(x.start, t, d[2]) ELSE hd_off[d]]
     /\ hdRead' = [hdRead EXCEPT ![u] = ok1 /\ found]

\* DIOCRTBL, and hd_init for each disk that hd_conf has found.
Rtbl(u, ok1, ok2) ==
  /\ Gtable(u, mbr[u], xtab[u], ok1, ok2)
  /\ UNCHANGED <<mbr, xtab, hdCut>>

----------------------------------------------------------------------------
(* setpart: the table goes to block 0 of partition 0, and is read again.     *)
SetPart(u, t) ==
  LET n == HdMap(u, 0, 0)
  IN /\ n # -1
     /\ xtab' = [xtab EXCEPT ![u][n] = t]
     /\ Gtable(u, mbr[u], xtab'[u], TRUE, TRUE)
     /\ UNCHANGED <<mbr, hdCut>>

----------------------------------------------------------------------------
(* pcdisk                                                                    *)

\* cpart: the new partition begins behind the last cylinder that any slot
\* names, and not before cylinder 1.  Nobody looks whether it fits the disk.
MutFirstCyl(m) == 1
FirstCyl(m)    == Max({1} \cup {m[k].e + 1 : k \in {k \in Slots : m[k].id # "none"}})
NewSlot(m, size) ==
  LET c == FirstCyl(m)
      n == (size + CylSectors - 1) \div CylSectors
  IN [id |-> "xenus", s |-> c % CylRange, e |-> (c + n - 1) % CylRange,
      start |-> c * CylSectors, size |-> n * CylSectors]
Cpart(m, size) ==
  LET free == {k \in Slots : m[k].id = "none"}
  IN IF free = {} \/ \E k \in Slots : m[k].id = "xenus"
       THEN m ELSE [m EXCEPT ![Min(free)] = NewSlot(m, size)]

Dpart(m) ==
  LET x == {k \in Slots : m[k].id = "xenus"}
  IN IF x = {} THEN m ELSE [m EXCEPT ![Min(x)] = NoSlot]

\* One call, through the whole disk, with the flags X, d and c; save writes
\* the table if anything changed it, and has the driver read it again unless
\* only X did.
MutRereads(del, new) == FALSE
Rereads(del, new)    == del \/ new
PcDisk(u, clr, del, new, size) ==
  LET m0 == IF clr THEN [k \in Slots |-> NoSlot] ELSE mbr[u]
      m1 == IF del THEN Dpart(m0) ELSE m0
      m2 == IF new THEN Cpart(m1, size) ELSE m1
      modf == clr \/ m1 # m0 \/ m2 # m1
  IN /\ HdMap(u, Whole, 0) # -1 /\ modf
     /\ mbr' = [mbr EXCEPT ![u] = m2]
     /\ hdCut' = [hdCut EXCEPT ![u] =
          \/ @ /\ ~clr
          \/ new /\ m2 # m1 /\ FirstCyl(m1) + (size - 1) \div CylSectors >= CylRange]
     /\ IF Rereads(del /\ m1 # m0, new /\ m2 # m1)
          THEN Gtable(u, m2, xtab[u], TRUE, TRUE)
          ELSE hdRead' = [hdRead EXCEPT ![u] = @ /\ ~clr] /\ UNCHANGED <<hd_size, hd_off>>
     /\ UNCHANGED xtab

\* Another system's program makes a partition behind all others.
Foreign(u, e) ==
  LET free == {k \in Slots : mbr[u][k].id = "none"}
      c == Max({0} \cup {(mbr[u][k].start + mbr[u][k].size) \div CylSectors : k \in Slots})
  IN /\ free # {} /\ e \in c .. HdCyls - 1
     /\ mbr' = [mbr EXCEPT ![u][Min(free)] =
                  [id |-> "other", s |-> c % CylRange, e |-> e % CylRange,
                   start |-> c * CylSectors, size |-> (e + 1 - c) * CylSectors]]
     /\ hdCut' = [hdCut EXCEPT ![u] = @ \/ e >= CylRange]
     /\ UNCHANGED <<hd_size, hd_off, xtab, hdRead>>

HdInit ==
  /\ hd_size = [d \in HdUnits \X (Parts \cup {Whole}) |->
                  IF d = <<0, Whole>> THEN DiskSize
                  ELSE IF d[2] = 0 THEN 1 ELSE 0]
  /\ hd_off = [d \in HdUnits \X (Parts \cup {Whole}) |-> 0]
  /\ mbr = [u \in HdUnits |-> [k \in Slots |-> NoSlot]]
  /\ xtab = [u \in HdUnits |-> [n \in Sectors |-> NoTable]]
  /\ hdRead = [u \in HdUnits |-> TRUE]
  /\ hdCut = [u \in HdUnits |-> FALSE]

HdNext ==
  \E u \in HdUnits :
    \/ \E ok1, ok2 \in BOOLEAN : Rtbl(u, ok1, ok2)
    \/ \E t \in [Parts -> PartSizes] : SetPart(u, t)
    \/ \E clr, del, new \in BOOLEAN, size \in PartSizes \ {0} : PcDisk(u, clr, del, new, size)
    \/ \E e \in 0 .. HdCyls - 1 : Foreign(u, e)

----------------------------------------------------------------------------
(* Properties.                                                              *)

Reach(u, i) == {HdMap(u, i, b) : b \in 0 .. BlkRange - 1} \ {-1}
HdFits(u) == LET x == XenusSlot(mbr[u])
             IN x.start + Before([i \in Parts |-> hd_size[<<u, i>>]])[NParts] <= BlkRange

\* Two partitions never share a sector, and the driver never leaves the disk,
\* whatever the tables hold, as long as their sizes add up in blk_t and the
\* first partition is not the one block that an empty table leaves.
PartsApart ==
  \A u \in HdUnits : hdRead[u] /\ HdFits(u) /\ xtab[u][XenusSlot(mbr[u]).start][0] # 0 =>
    \A i, j \in Parts : i # j => Reach(u, i) \cap Reach(u, j) = {}

\* The Xenus partition that pcdisk makes overlaps no other, as long as every
\* end cylinder fits its ten bits.
SlotsApart ==
  \A u \in HdUnits : ~hdCut[u] =>
    \A k, l \in Slots : k # l =>
      (mbr[u][k].start .. mbr[u][k].start + mbr[u][k].size - 1)
        \cap (mbr[u][l].start .. mbr[u][l].start + mbr[u][l].size - 1) = {}

\* After a program has changed a table the driver works with the new one: a
\* partition begins where the tables on the disk say.
TableFresh ==
  \A u \in HdUnits : hdRead[u] =>
    LET x == XenusSlot(mbr[u])
        t == xtab[u][x.start]
    IN \A i \in Parts : hd_off[<<u, i>>] = Offset(x.start, t, i) /\ hd_size[<<u, i>>] = Sizes(t)[i]

\* Partitions are apart on the disk and in its table, and the table in memory is
\* the one on the disk.
PartsExact == PartsApart /\ SlotsApart /\ TableFresh
=============================================================================

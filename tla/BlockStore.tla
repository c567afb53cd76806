----------------------------- MODULE BlockStore -----------------------------
(* What the block layer promises its callers: one current content per       *)
(* block, whatever is cached.  A write changes it at once and reaches the   *)
(* disk some time later; a crash goes back to the disk.  Only a block whose *)
(* write the driver has reported as failed may lose its content otherwise.  *)
CONSTANTS Blocks, Data

VARIABLES
  store,  \* the content a reader of each block sees
  disk,   \* the content that survives a crash
  lost    \* blocks whose last write failed

svars == <<store, disk, lost>>

\* The block layer may flush a block at any time, and it may forget it if the
\* flush fails, now or earlier; a failed write may have changed the disk.
Managed(c) ==
  /\ \/ disk'[c] = disk[c] /\ (c \in lost' <=> c \in lost)
     \/ disk'[c] = store[c] /\ c \notin lost'
     \/ disk'[c] \in {disk[c], store[c]} /\ c \in lost'
  /\ \/ store'[c] = store[c]
     \/ store'[c] = disk'[c] /\ c \in lost'

\* The shape of every next state.
Shape == /\ DOMAIN store' = Blocks /\ DOMAIN disk' = Blocks
         /\ lost' \subseteq Blocks

\* A reader changes nothing, but a cache may make room for what it reads.
Manage == Shape /\ \A c \in Blocks : Managed(c)

Write(b, v) ==
  /\ Shape
  /\ store'[b] = v /\ disk'[b] = disk[b] /\ (b \in lost' <=> b \in lost)
  /\ \A c \in Blocks \ {b} : Managed(c)

Crash == store' = disk /\ UNCHANGED disk /\ lost' = {}

SInit == /\ disk \in [Blocks -> Data]
         /\ store = disk
         /\ lost = {}
SNext == Manage \/ Crash \/ \E b \in Blocks, v \in Data : Write(b, v)
SSpec == SInit /\ [][SNext]_svars
=============================================================================

------------------------------- MODULE Heap --------------------------------
(* malloc, free and realloc of the C library (lib/malloc), and the sbrk they  *)
(* grow by.  Sizes and addresses count units of 16 bytes, the size of struct *)
(* mhead: malloc rounds up to them.  The list of headers is in the order of   *)
(* addresses, as sbrk only grows; a walk over it is one action per turn of   *)
(* malloc's loop.                                                             *)
EXTENDS Integers, FiniteSets

CONSTANTS HeapMax,    \* where sbrk fails
          HpSizes,   \* sizes programs ask for
          OtherBrk    \* sizes somebody else asks sbrk for

ASSUME HeapAssumption ==
  HeapMax \in Nat /\ HpSizes \subseteq Nat /\ OtherBrk \subseteq Nat \ {0}

VARIABLES
  hHeads,       \* addresses of the headers in the list
  hSize, hFree, \* their fields, size with the header
  hBrk,         \* end of the data segment
  hWalk,        \* a malloc under way: the header it looks at and its request
  hOthers,      \* units that somebody else has from sbrk
  hLive         \* what the program holds: block and units it may use

heapVars == <<hHeads, hSize, hFree, hBrk, hWalk, hOthers, hLive>>

HpAddrs  == 0 .. HeapMax
NoWalk == [at |-> -1, need |-> 0, want |-> 0, old |-> -1]
HpIdle   == hWalk = NoWalk

\* mh->next, if there is one
HpNext(a, b) == b \in hHeads /\ b > a /\ \A c \in hHeads : c > a => c >= b
HpLast(a)      == \A c \in hHeads : c <= a
HpFirst(a)     == a \in hHeads /\ \A c \in hHeads : c >= a

----------------------------------------------------------------------------
\* size += sizeof(struct mhead); the walk begins behind the static header,
\* which is never free; without blocks it is over at once.  Requests are far
\* from 2^32 bytes, where the sum would wrap.
Rounded(w) == w + 1
HpBegin(w, old) ==
  hWalk' = [at |-> IF hHeads = {} THEN -2 ELSE CHOOSE a \in hHeads : HpFirst(a),
           need |-> Rounded(w), want |-> w, old |-> old]
Malloc(w) ==
  /\ HpIdle /\ HpBegin(w, -1)
  /\ UNCHANGED <<hHeads, hSize, hFree, hBrk, hOthers, hLive>>

\* The next block is free and lies behind this one: they become one,
\* and its header is no more.
MutAdjacent(a, b) == TRUE
Adjacent(a, b)    == a + hSize[a] = b
Merges(a, b) == hFree[a] /\ HpNext(a, b) /\ hFree[b] /\ Adjacent(a, b)
HpMerge ==
  /\ hWalk.at >= 0
  /\ \E b \in hHeads :
       /\ Merges(hWalk.at, b)
       /\ hHeads' = hHeads \ {b}
       /\ hSize' = [hSize EXCEPT ![hWalk.at] = @ + hSize[b], ![b] = 0]
       /\ hFree' = [hFree EXCEPT ![b] = FALSE]
  /\ UNCHANGED <<hBrk, hWalk, hOthers, hLive>>

\* The program has the block at a, in place of the one it gave to realloc.
Given(a) ==
  LET kept == {x \in hLive : x.at # hWalk.old}
  IN  hLive' = kept \cup {[at |-> a, units |-> hWalk.want, short |-> FALSE]}
GivesBack == IF hWalk.old = -1 THEN {} ELSE {hWalk.old}
Freed(a)  == [x \in HpAddrs |-> IF x = a THEN FALSE ELSE x \in GivesBack \/ hFree[x]]

\* The block is larger: what is left of it becomes a free block.
Splits(a)  == hFree[a] /\ hSize[a] >= hWalk.need + 1
NoMerge(a) == \A b \in hHeads : ~Merges(a, b)
HpSplit ==
  LET a == hWalk.at
      f == a + hWalk.need
  IN  /\ a >= 0 /\ NoMerge(a) /\ Splits(a)
      /\ hHeads' = hHeads \cup {f}
      /\ hSize' = [hSize EXCEPT ![a] = hWalk.need, ![f] = hSize[a] - hWalk.need]
      /\ hFree' = [Freed(a) EXCEPT ![f] = TRUE]
      /\ Given(a) /\ hWalk' = NoWalk
      /\ UNCHANGED <<hBrk, hOthers>>

HpTake ==
  LET a == hWalk.at
  IN  /\ a >= 0 /\ NoMerge(a) /\ ~Splits(a) /\ hFree[a] /\ hSize[a] >= hWalk.need
      /\ hFree' = Freed(a)
      /\ Given(a) /\ hWalk' = NoWalk
      /\ UNCHANGED <<hHeads, hSize, hBrk, hOthers>>

HpAdvance ==
  LET a == hWalk.at
  IN  /\ a >= 0 /\ NoMerge(a) /\ ~(hFree[a] /\ hSize[a] >= hWalk.need)
      /\ \/ \E b \in hHeads : HpNext(a, b) /\ hWalk' = [hWalk EXCEPT !.at = b]
         \/ HpLast(a) /\ hWalk' = [hWalk EXCEPT !.at = -2]
      /\ UNCHANGED <<hHeads, hSize, hFree, hBrk, hOthers, hLive>>

\* The end of the list: sbrk, which fails when there is no more memory.
HpGrow ==
  /\ hWalk.at = -2 /\ hWalk' = NoWalk
  /\ \/ /\ hBrk + hWalk.need <= HeapMax
        /\ hHeads' = hHeads \cup {hBrk} /\ hBrk' = hBrk + hWalk.need
        /\ hSize' = [hSize EXCEPT ![hBrk] = hWalk.need]
        /\ hFree' = Freed(hBrk)
        /\ Given(hBrk)
     \/ /\ hBrk + hWalk.need > HeapMax
        /\ UNCHANGED <<hHeads, hSize, hFree, hBrk, hLive>>
  /\ UNCHANGED hOthers

HpFree(x) ==
  /\ HpIdle /\ x \in hLive
  /\ hFree' = [hFree EXCEPT ![x.at] = TRUE] /\ hLive' = hLive \ {x}
  /\ UNCHANGED <<hHeads, hSize, hBrk, hWalk, hOthers>>

\* realloc compares the size asked for with one that counts the header: a
\* block that is one unit too small is given back as it is, if the size asked
\* for fills its last unit.
SameSize(x, w) == hSize[x.at] = w
Realloc(x, w) ==
  /\ HpIdle /\ x \in hLive
  /\ \/ /\ SameSize(x, w)
        /\ hLive' = (hLive \ {x}) \cup {[at |-> x.at, units |-> w, short |-> TRUE]}
        /\ UNCHANGED hWalk
     \/ /\ HpBegin(w, x.at)
        /\ UNCHANGED hLive
  /\ UNCHANGED <<hHeads, hSize, hFree, hBrk, hOthers>>

\* sbrk of somebody else
Sbrk(n) ==
  /\ HpIdle /\ hBrk + n <= HeapMax /\ hBrk' = hBrk + n
  /\ hOthers' = hOthers \cup (hBrk .. hBrk + n - 1)
  /\ UNCHANGED <<hHeads, hSize, hFree, hWalk, hLive>>

HeapInit ==
  /\ hHeads = {} /\ hBrk = 0 /\ hWalk = NoWalk /\ hLive = {} /\ hOthers = {}
  /\ hSize = [a \in HpAddrs |-> 0] /\ hFree = [a \in HpAddrs |-> FALSE]

HeapNext ==
  \/ \E w \in HpSizes : Malloc(w)
  \/ HpMerge \/ HpSplit \/ HpTake \/ HpAdvance \/ HpGrow
  \/ \E x \in hLive : HpFree(x) \/ \E w \in HpSizes : Realloc(x, w)
  \/ \E n \in OtherBrk : Sbrk(n)

HeapSpec == HeapInit /\ [][HeapNext]_heapVars

----------------------------------------------------------------------------
(* Properties.                                                              *)

\* The fields and the walk have their types; a header with at least its own
\* unit ends below the break, and the walk stands on a header.
HeapTypeOK ==
  /\ hHeads \subseteq HpAddrs /\ hBrk \in HpAddrs
  /\ hSize \in [HpAddrs -> Nat] /\ hFree \in [HpAddrs -> BOOLEAN]
  /\ \A a \in hHeads : hSize[a] >= 1 /\ a + hSize[a] <= hBrk
  /\ hOthers \subseteq 0 .. hBrk - 1
  /\ hWalk # NoWalk => /\ hWalk.at \in hHeads \cup {-2} /\ hWalk.want \in Nat
                      /\ hWalk.need = hWalk.want + 1 /\ hWalk.old \in Int

\* No two blocks of the list overlap, however they were split and merged, and
\* none takes in what somebody else has from sbrk.
BlocksApart ==
  /\ \A a, b \in hHeads : a < b => a + hSize[a] <= b
  /\ \A a \in hHeads, o \in hOthers : o < a \/ a + hSize[a] <= o

\* What the program holds is a block in use, its own alone, and no larger than
\* the block is; the exception is what realloc has given back as it was.
HeldBlocks ==
  /\ \A x \in hLive : x.at \in hHeads /\ ~hFree[x.at]
  /\ \A x, y \in hLive : x.at = y.at => x = y
  /\ \A x \in hLive : x.units < hSize[x.at] \/ (x.short /\ x.units = hSize[x.at])

\* Nothing a program may write to overlaps a header of the list or what
\* another pointer leads to, unless realloc has promised one unit too many.
HeapExact == BlocksApart /\ HeldBlocks
============================================================================

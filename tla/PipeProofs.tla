----------------------------- MODULE PipeProofs -----------------------------
(* What is written is what is read: the ring of a pipe, for any number of   *)
(* processes and files, any size of the ring and any size of the requests;  *)
(* and what tar, cp, mv and the streams of the C library put into files.    *)
EXTENDS Pipe, FileCopies, FiniteSetTheorems, SequenceTheorems, WellFoundedInduction, TLAPS

Index == 0 .. PIPE_BUF - 1

\* The part of the type invariant that the ring depends on.  A request that
\* has to stay in one piece has either not started or is done.
CallType ==
  \A p \in Procs : call[p].op \in {"read", "write"} =>
    /\ call[p].n \in Nat /\ call[p].left \in 0 .. call[p].n
    /\ call[p].n <= PIPE_BUF => call[p].left = call[p].n
RingType == /\ pipe_buf \in [Index -> Byte]
            /\ pipe_rdp \in Index /\ pipe_wrp \in Index
            /\ pipe_datlen \in 0 .. PIPE_BUF

\* SmallWritesWhole in terms of the ring, and for a dead pipe too.
Whole == \A i \in 0 .. pipe_datlen - 1 :
           pipe_buf[Wrap(pipe_rdp + i)].more =>
             /\ i + 1 < pipe_datlen
             /\ pipe_buf[Wrap(pipe_rdp + i + 1)].who = pipe_buf[Wrap(pipe_rdp + i)].who

RingInv == RingType /\ RingExact /\ Whole
CallInv == call = [p \in Procs |-> call[p]] /\ CallType

\* The inductive invariant.
IInv == CallInv /\ RingInv

USE PipeAssumption DEF PipeAssumption, Index

\* Min is the smaller of two numbers.
LEMMA MinOfTwo ==
  ASSUME NEW a \in Nat, NEW b \in Nat
  PROVE  /\ Min({a, b}) \in {a, b}
         /\ Min({a, b}) <= a /\ Min({a, b}) <= b
<1>1. \E x \in {a, b} : \A y \in {a, b} : x <= y
  OBVIOUS
<1> QED
  BY <1>1 DEF Min

\* Positions wrap without meeting: this is all the arithmetic of the ring.
LEMMA WrapFacts ==
  /\ \A x \in 0 .. 2 * PIPE_BUF - 1 : Wrap(x) \in Index
  /\ \A r \in Index, i, j \in Index : Wrap(r + i) = Wrap(r + j) => i = j
  /\ \A r \in Index, i \in 0 .. PIPE_BUF, j \in 0 .. PIPE_BUF :
       i + j <= PIPE_BUF => Wrap(Wrap(r + i) + j) = Wrap(r + i + j)
BY DEF Wrap

\* A pipe starts empty and nobody is in a call.
LEMMA InitIInv == Init => IInv
BY DEF Init, IInv, CallInv, RingInv, CallType, RingType, RingExact, Whole, Byte, User, Wrap, Index

----------------------------------------------------------------------------
(* The operations on the ring.                                              *)

\* An inode that was just read has an empty ring.
LEMMA FreshRingInv ==
  ASSUME RingInv, FreshRing
  PROVE  RingInv'
BY DEF RingInv, FreshRing, RingType, RingExact, Whole, Wrap

\* Taking bytes keeps the ring and leaves no request torn.
LEMMA GetBytesInv ==
  ASSUME RingInv, NEW k \in 0 .. pipe_datlen, GetBytes(k)
  PROVE  RingInv'
<1>1. /\ pipe_datlen' = pipe_datlen - k /\ pipe_rdp' = Wrap(pipe_rdp + k)
      /\ pipe_buf' = pipe_buf /\ pipe_wrp' = pipe_wrp
  BY DEF GetBytes
<1>2. RingType'
  BY <1>1, WrapFacts DEF RingInv, RingType
<1>3. RingExact'
  BY <1>1 DEF RingInv, RingType, RingExact, Wrap
<1>4. Whole'
  <2> SUFFICES ASSUME NEW i \in 0 .. pipe_datlen' - 1,
                      pipe_buf[Wrap(pipe_rdp' + i)].more
               PROVE  /\ i + 1 < pipe_datlen'
                      /\ pipe_buf[Wrap(pipe_rdp' + i + 1)].who
                           = pipe_buf[Wrap(pipe_rdp' + i)].who
    BY <1>1 DEF Whole
  <2>1. i \in Nat /\ i + k \in 0 .. pipe_datlen - 1
    BY <1>1 DEF RingInv, RingType
  <2>2. Wrap(pipe_rdp' + i) = Wrap(pipe_rdp + (i + k))
    BY <1>1, <2>1 DEF RingInv, RingType, Wrap
  <2>3. Wrap(pipe_rdp' + i + 1) = Wrap(pipe_rdp + (i + k) + 1)
    BY <1>1, <2>1 DEF RingInv, RingType, Wrap
  <2>4. /\ i + k + 1 < pipe_datlen
        /\ pipe_buf[Wrap(pipe_rdp + (i + k) + 1)].who
             = pipe_buf[Wrap(pipe_rdp + (i + k))].who
    BY <2>1, <2>2 DEF RingInv, Whole
  <2> QED
    BY <1>1, <2>1, <2>2, <2>3, <2>4 DEF RingInv, RingType
<1> QED
  BY <1>2, <1>3, <1>4 DEF RingInv

\* The bytes that were in the ring stay, the new ones follow them.
LEMMA PutBytesEffect ==
  ASSUME RingInv, NEW p \in Procs, NEW left \in Nat, NEW small \in BOOLEAN,
         NEW k \in 0 .. left, k <= Room,
         PutBytes(p, k, left, small)
  PROVE  /\ pipe_datlen' = pipe_datlen + k /\ pipe_rdp' = pipe_rdp
         /\ RingType' /\ RingExact'
         /\ \A i \in 0 .. pipe_datlen - 1 :
              pipe_buf'[Wrap(pipe_rdp + i)] = pipe_buf[Wrap(pipe_rdp + i)]
         /\ \A i \in pipe_datlen .. pipe_datlen + k - 1 :
              /\ pipe_buf'[Wrap(pipe_rdp + i)].who = p
              /\ pipe_buf'[Wrap(pipe_rdp + i)].more =>
                   small /\ i # pipe_datlen + left - 1
<1> DEFINE new(i) == \E j \in 0 .. k - 1 : i = Wrap(pipe_wrp + j)
<1>1. /\ pipe_datlen' = pipe_datlen + k /\ pipe_rdp' = pipe_rdp
      /\ pipe_wrp' = Wrap(pipe_wrp + k)
      /\ pipe_buf' = [i \in Index |->
           IF new(i) THEN [who |-> p, more |-> small /\ i # Wrap(pipe_wrp + left - 1)]
                     ELSE pipe_buf[i]]
  BY DEF PutBytes
<1>2. RingType'
  <2>1. pipe_datlen' \in 0 .. PIPE_BUF /\ pipe_wrp' \in Index /\ pipe_rdp' \in Index
    BY <1>1, WrapFacts DEF RingInv, RingType, Room
  <2>2. \A i \in Index : [who |-> p, more |-> small /\ i # Wrap(pipe_wrp + left - 1)] \in Byte
    BY Zenon DEF Byte
  <2>3. pipe_buf' \in [Index -> Byte]
    <3> HIDE DEF new, Index
    <3> QED
      BY <1>1, <2>2 DEF RingInv, RingType
  <2> QED
    BY <2>1, <2>3 DEF RingType
<1>3. RingExact'
  BY <1>1, <1>2 DEF RingInv, RingType, RingExact, Room, Wrap
<1>4. ASSUME NEW i \in 0 .. pipe_datlen - 1
      PROVE  pipe_buf'[Wrap(pipe_rdp + i)] = pipe_buf[Wrap(pipe_rdp + i)]
  <2>1. Wrap(pipe_rdp + i) \in Index
    BY WrapFacts DEF RingInv, RingType
  <2>2. ~new(Wrap(pipe_rdp + i))
    BY DEF RingInv, RingType, RingExact, Room, Wrap
  <2> QED
    BY <1>1, <2>1, <2>2
<1>5. ASSUME NEW i \in pipe_datlen .. pipe_datlen + k - 1
      PROVE  /\ pipe_buf'[Wrap(pipe_rdp + i)].who = p
             /\ pipe_buf'[Wrap(pipe_rdp + i)].more =>
                  small /\ i # pipe_datlen + left - 1
  <2>1. Wrap(pipe_rdp + i) \in Index
    BY WrapFacts DEF RingInv, RingType, Room
  <2>2. i - pipe_datlen \in 0 .. k - 1
        /\ Wrap(pipe_rdp + i) = Wrap(pipe_wrp + (i - pipe_datlen))
    BY DEF RingInv, RingType, RingExact, Room, Wrap
  <2>3. new(Wrap(pipe_rdp + i))
    BY <2>2
  <2>4. i = pipe_datlen + left - 1 => Wrap(pipe_rdp + i) = Wrap(pipe_wrp + left - 1)
    BY <2>2 DEF RingInv, RingType
  <2>5. pipe_buf'[Wrap(pipe_rdp + i)] =
          [who |-> p, more |-> small /\ Wrap(pipe_rdp + i) # Wrap(pipe_wrp + left - 1)]
    BY <1>1, <2>1, <2>3
  <2>6. /\ pipe_buf'[Wrap(pipe_rdp + i)].who = p
        /\ pipe_buf'[Wrap(pipe_rdp + i)].more =
             (small /\ Wrap(pipe_rdp + i) # Wrap(pipe_wrp + left - 1))
    BY <2>5
  <2> QED
    BY <2>4, <2>6, Zenon
<1> QED
  BY <1>1, <1>2, <1>3, <1>4, <1>5

\* Writing a small request as a whole, or a part of a large one, keeps the
\* ring.
LEMMA PutBytesInv ==
  ASSUME RingInv, NEW p \in Procs, NEW left \in Nat, NEW small \in BOOLEAN,
         NEW k \in 0 .. left, k <= Room, small => k = left,
         PutBytes(p, k, left, small)
  PROVE  RingInv'
<1>1. /\ pipe_datlen' = pipe_datlen + k /\ pipe_rdp' = pipe_rdp
      /\ RingType' /\ RingExact'
      /\ \A i \in 0 .. pipe_datlen - 1 :
           pipe_buf'[Wrap(pipe_rdp + i)] = pipe_buf[Wrap(pipe_rdp + i)]
      /\ \A i \in pipe_datlen .. pipe_datlen + k - 1 :
           /\ pipe_buf'[Wrap(pipe_rdp + i)].who = p
           /\ pipe_buf'[Wrap(pipe_rdp + i)].more =>
                small /\ i # pipe_datlen + left - 1
  BY PutBytesEffect
<1>2. pipe_datlen \in Nat /\ pipe_rdp \in Nat
  BY DEF RingInv, RingType
<1>3. ASSUME NEW i \in 0 .. pipe_datlen + k - 1,
             pipe_buf'[Wrap(pipe_rdp + i)].more
      PROVE  /\ i + 1 < pipe_datlen + k
             /\ pipe_buf'[Wrap(pipe_rdp + i + 1)].who
                  = pipe_buf'[Wrap(pipe_rdp + i)].who
  <2>0. i \in Nat /\ pipe_rdp + (i + 1) = pipe_rdp + i + 1
    BY <1>2
  <2>1. CASE i < pipe_datlen
    <3>1. i \in 0 .. pipe_datlen - 1
      BY <1>2, <2>0, <2>1
    <3>2. pipe_buf'[Wrap(pipe_rdp + i)] = pipe_buf[Wrap(pipe_rdp + i)]
      BY <1>1, <3>1
    <3>3. /\ i + 1 < pipe_datlen
          /\ pipe_buf[Wrap(pipe_rdp + i + 1)].who = pipe_buf[Wrap(pipe_rdp + i)].who
      BY <1>3, <3>1, <3>2 DEF RingInv, Whole
    <3>4. i + 1 \in 0 .. pipe_datlen - 1
      BY <1>2, <2>0, <3>3
    <3>5. pipe_buf'[Wrap(pipe_rdp + (i + 1))] = pipe_buf[Wrap(pipe_rdp + (i + 1))]
      BY <1>1, <3>4
    <3> QED
      BY <1>2, <2>0, <3>2, <3>3, <3>5
  <2>2. CASE i >= pipe_datlen
    <3>1. i \in pipe_datlen .. pipe_datlen + k - 1
      BY <1>2, <2>0, <2>2
    <3>2. i + 1 \in pipe_datlen .. pipe_datlen + k - 1
      BY <1>1, <1>2, <1>3, <3>1
    <3>3. pipe_buf'[Wrap(pipe_rdp + (i + 1))].who = p /\ pipe_buf'[Wrap(pipe_rdp + i)].who = p
      BY <1>1, <3>1, <3>2
    <3> QED
      BY <1>2, <2>0, <3>2, <3>3
  <2> QED
    BY <1>2, <2>0, <2>1, <2>2
<1>4. Whole'
  <2>1. pipe_datlen' = pipe_datlen + k /\ pipe_rdp' = pipe_rdp
    BY <1>1
  <2>2. \A i \in 0 .. pipe_datlen + k - 1 :
          pipe_buf'[Wrap(pipe_rdp + i)].more =>
            /\ i + 1 < pipe_datlen + k
            /\ pipe_buf'[Wrap(pipe_rdp + i + 1)].who = pipe_buf'[Wrap(pipe_rdp + i)].who
    BY <1>3
  <2>3. \A i \in 0 .. pipe_datlen' - 1 :
          pipe_buf'[Wrap(pipe_rdp' + i)].more =>
            /\ i + 1 < pipe_datlen'
            /\ pipe_buf'[Wrap(pipe_rdp' + i + 1)].who = pipe_buf'[Wrap(pipe_rdp' + i)].who
    BY <1>2, <2>1, <2>2
  <2> QED
    BY <2>3 DEF Whole
<1> QED
  BY <1>1, <1>4 DEF RingInv

----------------------------------------------------------------------------
(* The calls.                                                               *)

\* A call that changes its place keeps the types of the calls.
LEMMA CallStep ==
  ASSUME CallInv, NEW p \in Procs, NEW c, call' = [call EXCEPT ![p] = c],
         c.op \in {"read", "write"} =>
           /\ c.n \in Nat /\ c.left \in 0 .. c.n
           /\ c.n <= PIPE_BUF => c.left = c.n
  PROVE  CallInv'
<1>1. \A r \in Procs : call'[r] = IF r = p THEN c ELSE call[r]
  BY DEF CallInv
<1>2. call' = [r \in Procs |-> call'[r]]
  BY DEF CallInv
<1> QED
  BY <1>1, <1>2 DEF CallInv, CallType

\* A call that returns keeps the types of the calls.
LEMMA ReturnStep ==
  ASSUME CallInv, NEW p \in Procs, Return(p)
  PROVE  CallInv'
BY CallStep DEF Return, User

\* What leaves the ring alone keeps RingInv.
LEMMA SameRing == RingInv /\ UNCHANGED ring => RingInv'
BY DEF ring, RingInv, RingType, RingExact, Whole, Wrap

\* What leaves the calls alone keeps CallInv.
LEMMA SameCall == CallInv /\ UNCHANGED call => CallInv'
BY DEF CallInv, CallType

\* pipe_read.
LEMMA ReadIInv ==
  ASSUME IInv, NEW p \in Procs, Read(p)
  PROVE  IInv'
<1>1. CallInv'
  BY ReturnStep DEF IInv, Read
<1>2. call[p].n \in Nat /\ pipe_datlen \in Nat
  BY DEF Read, In, IInv, CallInv, CallType, RingInv, RingType
<1>3. Min({call[p].n, pipe_datlen}) \in 0 .. pipe_datlen
  BY <1>2, MinOfTwo
<1>4. RingInv'
  BY <1>3, GetBytesInv DEF IInv, Read
<1> QED
  BY <1>1, <1>4 DEF IInv

\* pipe_write.
LEMMA WriteIInv ==
  ASSUME IInv, NEW p \in Procs, Write(p)
  PROVE  IInv'
<1> DEFINE k == Chunk(p)
           left == call[p].left
           n == call[p].n
           done == k = left \/ sig[p] \/ ndelay[call[p].f]
<1>1. /\ n \in Nat /\ left \in 0 .. n /\ (n <= PIPE_BUF => left = n)
      /\ Room \in Nat
  BY DEF Write, In, IInv, CallInv, CallType, RingInv, RingType, Room
<1>2. k \in 0 .. left /\ k <= Room /\ (k = left \/ k = Room)
  BY <1>1, MinOfTwo DEF Chunk
<1>3. Small(p) => k = left
  BY <1>1, <1>2 DEF Write, Small, Fits
<1>4. PutBytes(p, k, left, Small(p)) /\ Small(p) \in BOOLEAN
  BY DEF Write, Small
<1>5. RingInv'
  <2>1. left \in Nat
    BY <1>1
  <2> HIDE DEF k, left
  <2> QED
    BY <1>2, <1>3, <1>4, <2>1, PutBytesInv DEF IInv
<1>6. CallInv'
  <2>1. call' = [call EXCEPT ![p] =
                   IF done THEN User ELSE Rw("write", call[p].f, n, left - k)]
    BY DEF Write
  <2>2. CASE done
    <3>1. call' = [call EXCEPT ![p] = User]
      BY <2>1, <2>2
    <3> QED
      BY <3>1, CallStep DEF IInv, User
  <2>3. CASE ~done
    <3>1. call' = [call EXCEPT ![p] = Rw("write", call[p].f, n, left - k)]
      BY <2>1, <2>3
    <3>2. left - k \in 0 .. n /\ ~(n <= PIPE_BUF)
      BY <1>1, <1>2, <1>3, <2>3 DEF Small
    <3> HIDE DEF k, left, n, done
    <3>3. LET c == Rw("write", call[p].f, n, left - k)
          IN c.n = n /\ c.left = left - k
      BY DEF Rw
    <3>4. n \in Nat
      BY <1>1
    <3> QED
      BY <3>1, <3>2, <3>3, <3>4, CallStep DEF IInv
  <2> QED
    BY <2>2, <2>3
<1> QED
  BY <1>5, <1>6 DEF IInv

\* Opening and closing touch the ring only when nobody has it open yet.
LEMMA OpenIInv ==
  ASSUME IInv, NEW p \in Procs, NEW m \in Modes, NEW nd \in BOOLEAN, Open(p, m, nd)
  PROVE  IInv'
<1>1. PICK f \in Files : call' = [call EXCEPT ![p] = Opening(m, f, nd)]
  BY DEF Open, FirstFree
<1>2. CallInv'
  <2>1. Opening(m, f, nd).op = "open"
    BY DEF Opening
  <2> QED
    BY <1>1, <2>1, CallStep DEF IInv
<1>3. FreshRing \/ UNCHANGED ring
  BY DEF Open, Counted
<1> QED
  BY <1>2, <1>3, FreshRingInv, SameRing DEF IInv

\* sys_read and sys_write up to the call of pipe_read or pipe_write.
LEMMA StartIInv ==
  ASSUME IInv, NEW p \in Procs, NEW op \in {"read", "write"}, NEW may,
         Start(p, op, may)
  PROVE  IInv'
<1>1. PICK f \in fds[p], n \in 0 .. MaxCount : call' = [call EXCEPT ![p] = Rw(op, f, n, n)]
  BY DEF Start
<1>2. CallInv'
  <2>1. /\ Rw(op, f, n, n).n = n /\ Rw(op, f, n, n).left = n /\ n \in Nat
        /\ n \in 0 .. n
    BY DEF Rw
  <2> QED
    BY <1>1, <2>1, CallStep DEF IInv
<1>3. UNCHANGED ring
  BY DEF Start, inodev
<1> QED
  BY <1>2, <1>3, SameRing DEF IInv

\* Every step keeps the inductive invariant.
LEMMA NextIInv == IInv /\ [Next]_vars => IInv'
<1> SUFFICES ASSUME IInv, [Next]_vars PROVE IInv'
  OBVIOUS
<1> USE DEF inodev
<1>1. CASE UNCHANGED vars
  BY <1>1, SameRing, SameCall DEF IInv, vars
<1>2. ASSUME NEW p \in Procs, GoOn(p) PROVE IInv'
  <2>1. CASE OpenDone(p) \/ OpenFails(p) \/ SmallWriteFails(p) \/ BrokenPipe(p)
    BY <2>1, ReturnStep, SameRing
       DEF IInv, OpenDone, OpenFails, SmallWriteFails, BrokenPipe
  <2> QED
    BY <1>2, <2>1, ReadIInv, WriteIInv DEF GoOn
<1>3. ASSUME NEW p \in Procs, NEW m \in Modes, NEW nd \in BOOLEAN, Open(p, m, nd)
      PROVE  IInv'
  BY <1>3, OpenIInv
<1>4. ASSUME NEW p \in Procs, SysPipe(p) \/ SysPipeReadOnly(p) PROVE IInv'
  BY <1>4, FreshRingInv, SameRing, SameCall DEF IInv, SysPipe, SysPipeReadOnly
<1>5. ASSUME NEW p \in Procs, NEW r \in Procs, Share(p, r) PROVE IInv'
  BY <1>5, SameRing, SameCall DEF IInv, Share
<1>6. ASSUME NEW p \in Procs, NEW f \in fds[p], Close(p, f) PROVE IInv'
  BY <1>6, SameRing, SameCall DEF IInv, Close
<1>7. ASSUME NEW p \in Procs, SysRead(p) \/ SysWrite(p) PROVE IInv'
  BY <1>7, StartIInv DEF SysRead, SysWrite
<1>8. ASSUME NEW p \in Procs, Signal(p) \/ Deliver(p) PROVE IInv'
  BY <1>8, SameRing, SameCall DEF IInv, Signal, Deliver
<1> QED
  BY <1>1, <1>2, <1>3, <1>4, <1>5, <1>6, <1>7, <1>8 DEF Next

----------------------------------------------------------------------------
(* The theorems.                                                            *)

\* The inductive invariant of the ring and of the calls under way.
THEOREM Invariance == Spec => []IInv
BY InitIInv, NextIInv, PTL DEF Spec

\* pipe_getc and pipe_putc never panic, and the write index is always where
\* the read index and the length say.
THEOREM RingCorrect == Spec => []RingExact
<1>1. IInv => RingExact
  BY DEF IInv, RingInv
<1> QED
  BY <1>1, Invariance, PTL

\* A request of at most PIPE_BUF bytes is never torn by another writer.
THEOREM SmallWritesCorrect == Spec => []SmallWritesWhole
<1>1. IInv => SmallWritesWhole
  <2> SUFFICES ASSUME RingInv, NEW i \in 1 .. pipe_datlen, Content[i].more
               PROVE  i < pipe_datlen /\ Content[i + 1].who = Content[i].who
    BY DEF IInv, SmallWritesWhole
  <2>1. pipe_datlen \in Nat /\ pipe_rdp \in Nat /\ i - 1 \in 0 .. pipe_datlen - 1
    BY DEF RingInv, RingType
  <2>2. /\ pipe_rdp + i - 1 = pipe_rdp + (i - 1)
        /\ pipe_rdp + (i - 1) + 1 = pipe_rdp + (i + 1) - 1
    BY <2>1
  <2>3. Content[i] = pipe_buf[Wrap(pipe_rdp + (i - 1))]
    BY <2>2 DEF Content
  <2>4. /\ (i - 1) + 1 < pipe_datlen
        /\ pipe_buf[Wrap(pipe_rdp + (i - 1) + 1)].who
             = pipe_buf[Wrap(pipe_rdp + (i - 1))].who
    BY <2>1, <2>3 DEF RingInv, Whole
  <2>5. i + 1 \in 1 .. pipe_datlen
    BY <2>1, <2>4
  <2>6. Content[i + 1] = pipe_buf[Wrap(pipe_rdp + (i - 1) + 1)]
    BY <2>2, <2>5 DEF Content
  <2> QED
    BY <2>1, <2>3, <2>4, <2>6
<1> QED
  BY <1>1, Invariance, PTL

\* The ring as a whole, for every size of it and every number of processes.
THEOREM RingWholeCorrect == Spec => []RingWhole
<1>1. RingExact /\ SmallWritesWhole => RingWhole
  BY DEF RingWhole
<1> QED
  BY <1>1, RingCorrect, SmallWritesCorrect, PTL

----------------------------------------------------------------------------
(* The counts: of readers and writers, of the references to files and to    *)
(* the inode.                                                               *)

CallSet == {User} \cup [op : {"open"}, m : Modes, f : Files, nd : BOOLEAN]
           \cup [op : {"read", "write"}, f : Files, n : Nat, left : Nat]
FileType ==
  /\ named \in BOOLEAN
  /\ frefs \in [Files -> Nat] /\ mode \in [Files -> Modes \cup {"new", "free"}]
  /\ ndelay \in [Files -> BOOLEAN] /\ orphans \subseteq Files
  /\ fds \in [Procs -> SUBSET Files]
  /\ call \in [Procs -> CallSet]
  /\ sig \in [Procs -> BOOLEAN] /\ leaked \in Nat
CountType == pipe_readers \in Nat /\ pipe_writers \in Nat /\ irefs \in Nat

\* An entry of file[] is free, without its inode yet, or somebody's: an opener
\* has it to itself, and no descriptor names a file whose ino is not set.
FilesOwned ==
  /\ \A f \in Files : frefs[f] = 0 <=> mode[f] = "free"
  /\ \A p \in Procs : \A f \in fds[p] : mode[f] \in Modes
  /\ \A p \in Procs : In(p, "open") => frefs[call[p].f] = 1 /\ mode[call[p].f] = "new"
  /\ \A f \in orphans : mode[f] = "new"

\* The inductive invariant of the counts.
CInv == FileType /\ CountType /\ FilesOwned /\ RefsExact /\ CountsExact

One(c) == IF c THEN 1 ELSE 0
OpenMode(p) == IF In(p, "open") THEN call[p].m ELSE "none"
OpenFile(p) == IF In(p, "open") THEN call[p].f ELSE 0

\* Sets that differ in one element at most differ by at most one in size.
LEMMA DifferInOne ==
  ASSUME NEW S, IsFiniteSet(S), NEW A \in SUBSET S, NEW B \in SUBSET S, NEW x,
         A \ {x} = B \ {x}
  PROVE  /\ Cardinality(A) \in Nat /\ Cardinality(B) \in Nat
         /\ Cardinality(B) = Cardinality(A) - One(x \in A) + One(x \in B)
         /\ x \in A => Cardinality(A) > 0
<1>1. IsFiniteSet(A) /\ IsFiniteSet(B)
  BY FS_Subset
<1>2. Cardinality(A) \in Nat /\ Cardinality(B) \in Nat
  BY <1>1, FS_CardinalityType
<1>3. ASSUME NEW T \in {A, B}
      PROVE  Cardinality(T \ {x}) = Cardinality(T) - One(x \in T)
  <2>1. IsFiniteSet(T) /\ Cardinality(T) \in Nat
    BY <1>1, <1>2
  <2>2. Cardinality(T \ {x}) = IF x \in T THEN Cardinality(T) - 1 ELSE Cardinality(T)
    BY <2>1, FS_RemoveElement, Zenon
  <2> QED
    BY <2>1, <2>2 DEF One
<1>4. x \in A => Cardinality(A) # 0
  BY <1>1, FS_EmptySet
<1> QED
  BY <1>2, <1>3, <1>4 DEF One

\* Files and Procs are finite.
LEMMA Finite == IsFiniteSet(Files) /\ IsFiniteSet(Procs)
BY FS_Interval DEF Files

\* A step that changes the mode of one file and the call of one process.
LEMMA UsersStep ==
  ASSUME FileType, FileType', NEW f \in Files, NEW p \in Procs, NEW ms,
         "none" \notin ms,
         \A g \in Files \ {f} : mode'[g] = mode[g],
         \A q \in Procs \ {p} : call'[q] = call[q]
  PROVE  /\ Users(ms) \in Nat /\ Users(ms)' \in Nat
         /\ Users(ms)' = Users(ms) - One(mode[f] \in ms) + One(mode'[f] \in ms)
                         - One(OpenMode(p) \in ms) + One(OpenMode(p)' \in ms)
         /\ mode[f] \in ms => Users(ms) > 0
         /\ OpenMode(p) \in ms => Users(ms) > 0
<1> DEFINE A == {g \in Files : mode[g] \in ms}
           B == {g \in Files : mode'[g] \in ms}
           C == {q \in Procs : In(q, "open") /\ call[q].m \in ms}
           D == {q \in Procs : In(q, "open")' /\ call'[q].m \in ms}
<1>1. /\ Cardinality(A) \in Nat /\ Cardinality(B) \in Nat
      /\ Cardinality(B) = Cardinality(A) - One(f \in A) + One(f \in B)
      /\ f \in A => Cardinality(A) > 0
  <2>1. A \ {f} = B \ {f} /\ A \in SUBSET Files /\ B \in SUBSET Files
    OBVIOUS
  <2> HIDE DEF A, B
  <2> QED
    BY <2>1, Finite, DifferInOne
<1>2. /\ Cardinality(C) \in Nat /\ Cardinality(D) \in Nat
      /\ Cardinality(D) = Cardinality(C) - One(p \in C) + One(p \in D)
      /\ p \in C => Cardinality(C) > 0
  <2>1. C \ {p} = D \ {p} /\ C \in SUBSET Procs /\ D \in SUBSET Procs
    BY DEF In
  <2> HIDE DEF C, D
  <2> QED
    BY <2>1, Finite, DifferInOne
<1>3. Users(ms) = Cardinality(A) + Cardinality(C)
  BY DEF Users
<1>4. Users(ms)' = Cardinality(B) + Cardinality(D)
  BY DEF Users
<1>5. /\ f \in A <=> mode[f] \in ms
      /\ f \in B <=> mode'[f] \in ms
      /\ p \in C <=> OpenMode(p) \in ms
      /\ p \in D <=> OpenMode(p)' \in ms
  BY DEF OpenMode
<1> HIDE DEF A, B, C, D
<1> QED
  BY <1>1, <1>2, <1>3, <1>4, <1>5 DEF One

\* What RefsExact says of a file, and how many processes have or open it.
Holders(f) == Cardinality({p \in Procs : f \in fds[p]})
              + Cardinality({p \in Procs : In(p, "open") /\ call[p].f = f})

\* A step that changes the descriptors and the call of one process.
LEMMA HoldersStep ==
  ASSUME NEW f \in Files, NEW p \in Procs,
         \A q \in Procs \ {p} : call'[q] = call[q] /\ fds'[q] = fds[q]
  PROVE  /\ Holders(f) \in Nat /\ Holders(f)' \in Nat
         /\ Holders(f)' = Holders(f) - One(f \in fds[p]) + One(f \in fds'[p])
                          - One(OpenFile(p) = f) + One(OpenFile(p)' = f)
         /\ f \in fds[p] => Holders(f) > 0
         /\ OpenFile(p) = f => Holders(f) > 0
         /\ f \in fds[p] /\ OpenFile(p) = f => Holders(f) > 1
<1> DEFINE A == {q \in Procs : f \in fds[q]}
           B == {q \in Procs : f \in fds'[q]}
           C == {q \in Procs : In(q, "open") /\ call[q].f = f}
           D == {q \in Procs : In(q, "open")' /\ call'[q].f = f}
<1>1. /\ Cardinality(A) \in Nat /\ Cardinality(B) \in Nat
      /\ Cardinality(B) = Cardinality(A) - One(p \in A) + One(p \in B)
      /\ p \in A => Cardinality(A) > 0
  <2>1. A \ {p} = B \ {p} /\ A \in SUBSET Procs /\ B \in SUBSET Procs
    OBVIOUS
  <2> HIDE DEF A, B
  <2> QED
    BY <2>1, Finite, DifferInOne
<1>2. /\ Cardinality(C) \in Nat /\ Cardinality(D) \in Nat
      /\ Cardinality(D) = Cardinality(C) - One(p \in C) + One(p \in D)
      /\ p \in C => Cardinality(C) > 0
  <2>1. C \ {p} = D \ {p} /\ C \in SUBSET Procs /\ D \in SUBSET Procs
    BY DEF In
  <2> HIDE DEF C, D
  <2> QED
    BY <2>1, Finite, DifferInOne
<1>3. Holders(f) = Cardinality(A) + Cardinality(C)
  BY DEF Holders
<1>4. Holders(f)' = Cardinality(B) + Cardinality(D)
  BY DEF Holders
<1>5. /\ p \in A <=> f \in fds[p]
      /\ p \in B <=> f \in fds'[p]
      /\ p \in C <=> OpenFile(p) = f
      /\ p \in D <=> OpenFile(p)' = f
  BY DEF OpenFile, Files
<1> HIDE DEF A, B, C, D
<1> QED
  BY <1>1, <1>2, <1>3, <1>4, <1>5 DEF One

\* RefsExact and CountsExact in terms of the two.
LEMMA Unfold ==
  /\ RefsExact <=> /\ \A f \in Files : frefs[f] = Holders(f) + One(f \in orphans)
                   /\ irefs = Users(Modes)
  /\ RefsExact' <=> /\ \A f \in Files : frefs'[f] = Holders(f)' + One(f \in orphans')
                    /\ irefs' = Users(Modes)'
BY DEF RefsExact, Holders, One

\* An opener's call has its file and mode; nobody else has a call like that.
LEMMA OpenTypes ==
  ASSUME FileType, NEW p \in Procs
  PROVE  /\ In(p, "open") => call[p].f \in Files /\ call[p].m \in Modes
         /\ OpenMode(p) \in Modes \cup {"none"}
         /\ OpenFile(p) \in Files \cup {0}
         /\ ~In(p, "open") => OpenMode(p) = "none" /\ OpenFile(p) = 0
BY DEF FileType, CallSet, User, In, OpenMode, OpenFile

\* What leaves the files, the openers and the counts alone keeps CInv.
LEMMA QuietC ==
  ASSUME CInv, FileType',
         UNCHANGED <<pipe_readers, pipe_writers, irefs, leaked, frefs, mode, orphans, fds>>,
         \A q \in Procs : call'[q] = call[q] \/ (~In(q, "open") /\ ~In(q, "open")')
  PROVE  CInv'
<1>1. \A q \in Procs : /\ In(q, "open")' <=> In(q, "open")
                       /\ In(q, "open") => call'[q] = call[q]
  BY DEF In
<1>2. \A ms : Users(ms)' = Users(ms)
  <2> TAKE ms
  <2>1. {q \in Procs : In(q, "open")' /\ call'[q].m \in ms}
          = {q \in Procs : In(q, "open") /\ call[q].m \in ms}
    BY <1>1
  <2> QED
    BY <2>1 DEF Users
<1>3. \A f : Holders(f)' = Holders(f)
  <2> TAKE f
  <2>1. {q \in Procs : In(q, "open")' /\ call'[q].f = f}
          = {q \in Procs : In(q, "open") /\ call[q].f = f}
    BY <1>1
  <2> QED
    BY <2>1 DEF Holders
<1>4. RefsExact'
  BY <1>2, <1>3, Unfold DEF CInv
<1>5. CountsExact'
  BY <1>2 DEF CInv, CountsExact, Live
<1>6. FilesOwned'
  BY <1>1 DEF CInv, FilesOwned
<1> QED
  BY <1>4, <1>5, <1>6 DEF CInv, CountType

\* The calls that read and write, and signals.
LEMMA ReadWriteC ==
  ASSUME CInv, IInv, IInv', NEW p \in Procs,
         \/ SysRead(p) \/ SysWrite(p) \/ Read(p) \/ SmallWriteFails(p)
         \/ BrokenPipe(p) \/ Write(p) \/ Signal(p) \/ Deliver(p)
  PROVE  CInv'
<1> USE DEF filev, inodev
<1>0. FileType
  BY DEF CInv
<1>1. UNCHANGED <<pipe_readers, pipe_writers, irefs, leaked, named, frefs, mode,
                  ndelay, orphans, fds>>
  BY DEF SysRead, SysWrite, Start, Read, SmallWriteFails, BrokenPipe, Write, Signal, Deliver
<1>2. sig' \in [Procs -> BOOLEAN]
  BY <1>0 DEF FileType, SysRead, SysWrite, Start, Read, SmallWriteFails, BrokenPipe, Write,
              Signal, Deliver
<1>3. CASE Signal(p) \/ Deliver(p)
  <2>1. FileType' /\ call' = call
    BY <1>0, <1>1, <1>2, <1>3 DEF Signal, Deliver, FileType
  <2> QED
    BY <1>1, <2>1, QuietC DEF In
<1>4. ASSUME NEW c \in CallSet, call' = [call EXCEPT ![p] = c], c.op # "open",
             ~In(p, "open")
      PROVE  CInv'
  <2>1. call' \in [Procs -> CallSet]
    BY <1>0, <1>4 DEF FileType
  <2>2. FileType'
    BY <1>0, <1>1, <1>2, <2>1 DEF FileType
  <2>3. \A q \in Procs : call'[q] = call[q] \/ (~In(q, "open") /\ ~In(q, "open")')
    BY <1>0, <1>4 DEF FileType, In
  <2> QED
    BY <1>1, <2>2, <2>3, QuietC DEF In
<1>5. User \in CallSet /\ User.op # "open"
  BY DEF User, CallSet
<1>6. CASE SysRead(p) \/ SysWrite(p)
  <2>1. PICK op \in {"read", "write"}, f \in fds[p], n \in 0 .. MaxCount :
          call' = [call EXCEPT ![p] = Rw(op, f, n, n)]
    BY <1>6 DEF SysRead, SysWrite, Start
  <2>2. Rw(op, f, n, n) \in CallSet /\ Rw(op, f, n, n).op # "open"
    BY <1>0 DEF Rw, CallSet, FileType
  <2>3. ~In(p, "open")
    BY <1>6 DEF SysRead, SysWrite, Start, Runs, In
  <2> QED
    BY <1>4, <2>1, <2>2, <2>3
<1>7. CASE Read(p) \/ SmallWriteFails(p) \/ BrokenPipe(p)
  <2>1. call' = [call EXCEPT ![p] = User]
    BY <1>7 DEF Read, SmallWriteFails, BrokenPipe, Return
  <2>2. ~In(p, "open")
    BY <1>7 DEF Read, SmallWriteFails, BrokenPipe, In
  <2> QED
    BY <1>4, <1>5, <2>1, <2>2
<1>8. CASE Write(p)
  <2> DEFINE left == call[p].left
             done == Chunk(p) = left \/ sig[p] \/ ndelay[call[p].f]
             c == Rw("write", call[p].f, call[p].n, left - Chunk(p))
  <2>1. ~In(p, "open") /\ call[p].op = "write"
    BY <1>8 DEF Write, In
  <2>2. call' = [call EXCEPT ![p] = IF done THEN User ELSE c]
    BY <1>8 DEF Write
  <2>3. call[p].f \in Files /\ call[p].n \in Nat /\ left \in Nat /\ Room \in Nat
    BY <1>0, <2>1 DEF FileType, CallSet, User, IInv, RingInv, RingType, Room
  <2>4. Chunk(p) \in 0 .. left
    BY <2>3, MinOfTwo DEF Chunk
  <2>5. c \in CallSet /\ c.op # "open"
    <3>1. left - Chunk(p) \in Nat
      BY <2>3, <2>4
    <3> QED
      BY <2>3, <3>1 DEF Rw, CallSet
  <2> HIDE DEF c, done, left
  <2>6. CASE done
    BY <1>4, <1>5, <2>1, <2>2, <2>6
  <2>7. CASE ~done
    BY <1>4, <2>1, <2>2, <2>5, <2>7
  <2> QED
    BY <2>6, <2>7
<1> QED
  BY <1>3, <1>6, <1>7, <1>8

\* While a file of the pipe is open, or being opened, the inode is held.
LEMMA HeldInode ==
  ASSUME CInv, irefs = 0
  PROVE  /\ \A f \in Files : mode[f] \notin Modes
         /\ \A p \in Procs : ~In(p, "open") /\ fds[p] = {}
<1>1. FileType /\ Users(Modes) = 0 /\ "none" \notin Modes
  BY Unfold DEF CInv, Modes
<1>2. {f \in Files : mode[f] \in Modes} = {}
  <2> DEFINE A == {f \in Files : mode[f] \in Modes}
             C == {q \in Procs : In(q, "open") /\ call[q].m \in Modes}
  <2>1. IsFiniteSet(A) /\ IsFiniteSet(C)
    BY Finite, FS_Subset
  <2>2. Cardinality(A) \in Nat /\ Cardinality(C) \in Nat
    BY <2>1, FS_CardinalityType
  <2>3. Cardinality(A) + Cardinality(C) = 0
    BY <1>1 DEF Users
  <2> HIDE DEF A, C
  <2>4. A = {} /\ C = {}
    BY <2>1, <2>2, <2>3, FS_EmptySet
  <2> QED
    BY <2>4 DEF A
<1>3. {q \in Procs : In(q, "open") /\ call[q].m \in Modes} = {}
  <2> DEFINE A == {f \in Files : mode[f] \in Modes}
             C == {q \in Procs : In(q, "open") /\ call[q].m \in Modes}
  <2>1. IsFiniteSet(A) /\ IsFiniteSet(C)
    BY Finite, FS_Subset
  <2>2. Cardinality(A) \in Nat /\ Cardinality(C) \in Nat
    BY <2>1, FS_CardinalityType
  <2>3. Cardinality(A) + Cardinality(C) = 0
    BY <1>1 DEF Users
  <2> HIDE DEF A, C
  <2>4. A = {} /\ C = {}
    BY <2>1, <2>2, <2>3, FS_EmptySet
  <2> QED
    BY <2>4 DEF C
<1>4. \A p \in Procs : ~In(p, "open")
  BY <1>1, <1>3, OpenTypes
<1>5. \A p \in Procs : fds[p] = {}
  BY <1>1, <1>2 DEF CInv, FilesOwned, FileType
<1> QED
  BY <1>2, <1>4, <1>5

\* The classes of modes that are counted.
LEMMA Classes ==
  /\ "none" \notin {"r", "rw"} /\ "none" \notin {"w", "rw"} /\ "none" \notin Modes
  /\ \A m \in Modes : Reads(m) = One(m \in {"r", "rw"}) /\ Writes(m) = One(m \in {"w", "rw"})
BY DEF Modes, Reads, Writes, One

\* do_open up to the wait.
LEMMA OpenC ==
  ASSUME CInv, NEW p \in Procs, NEW m \in Modes, NEW nd \in BOOLEAN, Open(p, m, nd)
  PROVE  CInv'
<1>0. FileType /\ CountType
  BY DEF CInv
<1>1. PICK f \in Files : /\ FreeFile(f)
                         /\ frefs' = [frefs EXCEPT ![f] = 1]
                         /\ mode' = [mode EXCEPT ![f] = "new"]
                         /\ call' = [call EXCEPT ![p] = Opening(m, f, nd)]
  BY DEF Open, FirstFree
<1>2. /\ UNCHANGED <<named, ndelay, orphans, fds, sig>>
      /\ irefs' = irefs + 1 /\ Counted(m) /\ ~In(p, "open")
  BY DEF Open, Runs, In
<1>3. Opening(m, f, nd) \in CallSet /\ Opening(m, f, nd).op = "open"
      /\ Opening(m, f, nd).m = m /\ Opening(m, f, nd).f = f
  BY DEF Opening, CallSet
<1>4. FileType'
  <2>1. leaked' \in Nat
    BY <1>0, <1>2 DEF Counted, FileType
  <2> QED
    BY <1>0, <1>1, <1>2, <1>3, <2>1 DEF FileType
<1>5. /\ \A g \in Files \ {f} : mode'[g] = mode[g] /\ frefs'[g] = frefs[g]
      /\ \A q \in Procs \ {p} : call'[q] = call[q] /\ fds'[q] = fds[q]
      /\ mode'[f] = "new" /\ frefs'[f] = 1
      /\ call'[p] = Opening(m, f, nd) /\ fds'[p] = fds[p]
  BY <1>0, <1>1, <1>2 DEF FileType
<1>6. /\ mode[f] = "free" /\ frefs[f] = 0 /\ f \notin orphans
      /\ \A q \in Procs : f \notin fds[q]
  BY <1>0, <1>1 DEF CInv, FilesOwned, FreeFile, Modes
<1>7. /\ OpenMode(p) = "none" /\ OpenMode(p)' = m
      /\ OpenFile(p) = 0 /\ OpenFile(p)' = f
  BY <1>2, <1>3, <1>5 DEF OpenMode, OpenFile, In
<1>8. ASSUME NEW ms \in {{"r", "rw"}, {"w", "rw"}, Modes}
      PROVE  /\ Users(ms) \in Nat
             /\ Users(ms)' = Users(ms) + One(m \in ms)
  <2>1. "none" \notin ms /\ "new" \notin ms /\ "free" \notin ms
    BY DEF Modes
  <2>2. /\ Users(ms) \in Nat
        /\ Users(ms)' = Users(ms) - One(mode[f] \in ms) + One(mode'[f] \in ms)
                         - One(OpenMode(p) \in ms) + One(OpenMode(p)' \in ms)
    BY <1>0, <1>4, <1>5, <2>1, UsersStep
  <2> QED
    BY <1>5, <1>6, <1>7, <2>1, <2>2 DEF One
<1>9. RefsExact'
  <2>1. ASSUME NEW g \in Files PROVE frefs'[g] = Holders(g)' + One(g \in orphans')
    <3>1. /\ Holders(g) \in Nat
          /\ Holders(g)' = Holders(g) - One(g \in fds[p]) + One(g \in fds'[p])
                          - One(OpenFile(p) = g) + One(OpenFile(p)' = g)
      BY <1>5, HoldersStep
    <3>2. frefs[g] = Holders(g) + One(g \in orphans) /\ 0 \notin Files
      BY Unfold DEF CInv, Files
    <3>3. Holders(g)' = Holders(g) + One(g = f)
      BY <1>5, <1>7, <3>1, <3>2 DEF One
    <3>4. frefs'[g] = frefs[g] + One(g = f)
      BY <1>5, <1>6, <3>1, <3>2 DEF One
    <3> QED
      BY <1>2, <3>1, <3>2, <3>3, <3>4 DEF One
  <2>2. irefs' = Users(Modes)'
    BY <1>2, <1>8, Unfold DEF CInv, One
  <2> QED
    BY <2>1, <2>2, Unfold
<1>10. CountsExact' /\ pipe_readers' \in Nat /\ pipe_writers' \in Nat
  <2>1. CASE irefs = 0
    <3>1. Users({"r", "rw"}) = 0 /\ Users({"w", "rw"}) = 0
      <4>1. ASSUME NEW ms \in {{"r", "rw"}, {"w", "rw"}} PROVE Users(ms) = 0
        <5>1. /\ {g \in Files : mode[g] \in ms} = {}
              /\ {q \in Procs : In(q, "open") /\ call[q].m \in ms} = {}
          BY <2>1, HeldInode DEF Modes
        <5>2. Users(ms) = Cardinality({}) + Cardinality({})
          BY <5>1, Zenon DEF Users
        <5> QED
          BY <5>2, FS_EmptySet
      <4> QED
        BY <4>1
    <3>2. pipe_readers' = Reads(m) /\ pipe_writers' = Writes(m) /\ leaked' = 0
      BY <1>2, <2>1 DEF Counted
    <3>3. Users({"r", "rw"})' = Reads(m) /\ Users({"w", "rw"})' = Writes(m)
      BY <1>8, <3>1, Classes DEF One
    <3> QED
      BY <3>2, <3>3 DEF CountsExact, Reads, Writes
  <2>2. CASE irefs # 0
    <3>1. /\ pipe_readers = Users({"r", "rw"}) + leaked
          /\ pipe_writers = Users({"w", "rw"}) + leaked
      BY <1>0, <2>2 DEF CInv, CountsExact, Live, CountType
    <3>2. /\ pipe_readers' = pipe_readers + Reads(m)
          /\ pipe_writers' = pipe_writers + Writes(m) /\ leaked' = leaked
      BY <1>2, <2>2 DEF Counted
    <3>3. /\ Users({"r", "rw"})' = Users({"r", "rw"}) + Reads(m)
          /\ Users({"w", "rw"})' = Users({"w", "rw"}) + Writes(m)
          /\ Users({"r", "rw"}) \in Nat /\ Users({"w", "rw"}) \in Nat
      BY <1>8, Classes
    <3>4. leaked \in Nat /\ Reads(m) \in Nat /\ Writes(m) \in Nat
      BY <1>0 DEF FileType, Reads, Writes
    <3>5. /\ pipe_readers' = Users({"r", "rw"})' + leaked'
          /\ pipe_writers' = Users({"w", "rw"})' + leaked'
          /\ pipe_readers' \in Nat /\ pipe_writers' \in Nat
      BY <3>1, <3>2, <3>3, <3>4
    <3> QED
      BY <3>5 DEF CountsExact
  <2> QED
    BY <2>1, <2>2
<1>11. FilesOwned'
  <2>1. \A g \in Files : frefs'[g] = 0 <=> mode'[g] = "free"
    BY <1>5 DEF CInv, FilesOwned
  <2>2. \A q \in Procs : \A g \in fds'[q] : mode'[g] \in Modes
    BY <1>0, <1>2, <1>5, <1>6 DEF CInv, FilesOwned, FileType
  <2>3. \A q \in Procs : In(q, "open")' => frefs'[call'[q].f] = 1 /\ mode'[call'[q].f] = "new"
    <3> SUFFICES ASSUME NEW q \in Procs, In(q, "open")'
                 PROVE  frefs'[call'[q].f] = 1 /\ mode'[call'[q].f] = "new"
      OBVIOUS
    <3>1. CASE q = p
      BY <1>3, <1>5, <3>1
    <3>2. CASE q # p
      <4>1. In(q, "open") /\ call'[q] = call[q]
        BY <1>5, <3>2 DEF In
      <4>2. call[q].f \in Files /\ frefs[call[q].f] = 1 /\ mode[call[q].f] = "new"
        BY <1>0, <4>1, OpenTypes DEF CInv, FilesOwned
      <4> QED
        BY <1>5, <1>6, <4>1, <4>2
    <3> QED
      BY <3>1, <3>2
  <2>4. \A g \in orphans' : mode'[g] = "new"
    BY <1>0, <1>2, <1>5, <1>6 DEF CInv, FilesOwned, FileType
  <2> QED
    BY <2>1, <2>2, <2>3, <2>4 DEF FilesOwned
<1>12. irefs' \in Nat
  BY <1>0, <1>2 DEF CountType
<1> QED
  BY <1>4, <1>9, <1>10, <1>11, <1>12 DEF CInv, CountType

\* A step of a live pipe that changes one file and one process, and counts
\* what it does.
LEMMA CountedStep ==
  ASSUME CInv, FileType', NEW p \in Procs, NEW f \in Files, irefs # 0,
         \A g \in Files \ {f} : mode'[g] = mode[g] /\ frefs'[g] = frefs[g],
         \A q \in Procs \ {p} : call'[q] = call[q] /\ fds'[q] = fds[q],
         fds'[p] \ {f} = fds[p] \ {f}, UNCHANGED orphans,
         OpenFile(p) \in {0, f}, OpenFile(p)' \in {0, f},
         frefs'[f] = frefs[f] - One(f \in fds[p]) + One(f \in fds'[p])
                     - One(OpenFile(p) = f) + One(OpenFile(p)' = f),
         irefs' = irefs - One(mode[f] \in Modes) + One(mode'[f] \in Modes)
                  - One(OpenMode(p) \in Modes) + One(OpenMode(p)' \in Modes),
         pipe_readers' - leaked' = pipe_readers - leaked
                  - One(mode[f] \in {"r", "rw"}) + One(mode'[f] \in {"r", "rw"})
                  - One(OpenMode(p) \in {"r", "rw"}) + One(OpenMode(p)' \in {"r", "rw"}),
         pipe_writers' - leaked' = pipe_writers - leaked
                  - One(mode[f] \in {"w", "rw"}) + One(mode'[f] \in {"w", "rw"})
                  - One(OpenMode(p) \in {"w", "rw"}) + One(OpenMode(p)' \in {"w", "rw"}),
         pipe_readers' \in Int, pipe_writers' \in Int
  PROVE  RefsExact' /\ CountsExact' /\ CountType'
<1>0. FileType /\ leaked \in Nat /\ leaked' \in Nat
  BY DEF CInv, FileType
<1>1. ASSUME NEW ms \in {{"r", "rw"}, {"w", "rw"}, Modes}
      PROVE  /\ Users(ms) \in Nat /\ Users(ms)' \in Nat
             /\ Users(ms)' = Users(ms) - One(mode[f] \in ms) + One(mode'[f] \in ms)
                              - One(OpenMode(p) \in ms) + One(OpenMode(p)' \in ms)
  <2>1. "none" \notin ms
    BY Classes
  <2> QED
    BY <1>0, <2>1, UsersStep
<1>2. ASSUME NEW g \in Files PROVE frefs'[g] = Holders(g)' + One(g \in orphans')
  <2>1. /\ Holders(g) \in Nat
        /\ Holders(g)' = Holders(g) - One(g \in fds[p]) + One(g \in fds'[p])
                        - One(OpenFile(p) = g) + One(OpenFile(p)' = g)
    BY HoldersStep
  <2>2. frefs[g] = Holders(g) + One(g \in orphans) /\ 0 \notin Files
    BY Unfold DEF CInv, Files
  <2>3. CASE g = f
    BY <2>1, <2>2, <2>3 DEF One
  <2>4. CASE g # f
    BY <2>1, <2>2, <2>4 DEF One
  <2> QED
    BY <2>3, <2>4
<1>3. irefs' = Users(Modes)'
  BY <1>1, Unfold DEF CInv
<1>4. RefsExact'
  BY <1>2, <1>3, Unfold
<1>5. /\ pipe_readers = Users({"r", "rw"}) + leaked
      /\ pipe_writers = Users({"w", "rw"}) + leaked
  BY DEF CInv, CountType, CountsExact, Live
<1>6. /\ pipe_readers' = Users({"r", "rw"})' + leaked'
      /\ pipe_writers' = Users({"w", "rw"})' + leaked'
  BY <1>0, <1>1, <1>5 DEF One
<1> QED
  BY <1>0, <1>1, <1>3, <1>4, <1>6 DEF CountsExact, CountType

\* A file that is open, or being opened, keeps the inode.
LEMMA InUse ==
  ASSUME CInv, NEW p \in Procs
  PROVE  /\ In(p, "open") => irefs # 0
         /\ \A f \in fds[p] : irefs # 0 /\ f \in Files /\ mode[f] \in Modes
BY HeldInode DEF CInv, FilesOwned, FileType

\* A file with one reference has one holder.
LEMMA OneHolder ==
  ASSUME CInv, NEW f \in Files, frefs[f] = 1, NEW p \in Procs,
         f \in fds[p] \/ OpenFile(p) = f
  PROVE  f \notin orphans /\ \A q \in Procs \ {p} : f \notin fds[q] /\ OpenFile(q) # f
<1> DEFINE A == {q \in Procs : f \in fds[q]}
           C == {q \in Procs : In(q, "open") /\ call[q].f = f}
           D == A \cup C
<1>0. 0 \notin Files
  BY DEF Files
<1>1. /\ p \in D
      /\ \A q \in Procs : q \notin D => f \notin fds[q] /\ OpenFile(q) # f
  BY <1>0 DEF OpenFile
<1>2. Cardinality(A) + Cardinality(C) + One(f \in orphans) = 1
  BY Unfold DEF CInv, Holders
<1>3. IsFiniteSet(A) /\ IsFiniteSet(C)
  BY Finite, FS_Subset
<1>4. /\ Cardinality(A) \in Nat /\ Cardinality(C) \in Nat
      /\ Cardinality(A \cap C) \in Nat /\ IsFiniteSet(D)
      /\ Cardinality(D) = Cardinality(A) + Cardinality(C) - Cardinality(A \cap C)
  <2>1. IsFiniteSet(A \cap C)
    BY <1>3, FS_Subset
  <2> HIDE DEF A, C
  <2> QED
    BY <1>3, <2>1, FS_CardinalityType, FS_Union
<1> HIDE DEF A, C, D
<1>5. Cardinality(D \ {p}) = Cardinality(D) - 1 /\ IsFiniteSet(D \ {p})
  BY <1>1, <1>4, FS_RemoveElement
<1>6. Cardinality(D \ {p}) \in Nat
  BY <1>5, FS_CardinalityType
<1>7. Cardinality(D \ {p}) = 0 /\ f \notin orphans
  BY <1>2, <1>4, <1>5, <1>6 DEF One
<1>8. D \ {p} = {}
  BY <1>5, <1>7, FS_EmptySet
<1> QED
  BY <1>1, <1>7, <1>8

\* The end of do_open, good or bad.
LEMMA OpenedC ==
  ASSUME CInv, NEW p \in Procs, OpenDone(p) \/ OpenFails(p)
  PROVE  CInv'
<1>0. FileType /\ CountType /\ In(p, "open") /\ irefs # 0
  BY InUse DEF CInv, OpenDone, OpenFails
<1> DEFINE f == call[p].f
           m == call[p].m
<1>1. /\ f \in Files /\ m \in Modes /\ call[p].nd \in BOOLEAN
      /\ frefs[f] = 1 /\ mode[f] = "new" /\ f \notin fds[p]
  BY <1>0, OpenTypes DEF CInv, FilesOwned, FileType, CallSet, User, In, Modes
<1>2. /\ call' = [call EXCEPT ![p] = User]
      /\ UNCHANGED <<named, orphans, sig, leaked>>
  BY DEF OpenDone, OpenFails, Return, inodev
<1>3. \/ /\ mode' = [mode EXCEPT ![f] = m] /\ fds' = [fds EXCEPT ![p] = @ \cup {f}]
         /\ frefs' = frefs /\ UNCHANGED <<irefs, pipe_readers, pipe_writers>>
      \/ /\ mode' = [mode EXCEPT ![f] = "free"] /\ fds' = fds
         /\ frefs' = [frefs EXCEPT ![f] = 0]
         /\ irefs' = irefs - 1 /\ Uncount(m)
  BY DEF OpenDone, OpenFails, inodev
<1>4. ndelay' \in [Files -> BOOLEAN]
  BY <1>0, <1>1 DEF OpenDone, OpenFails, FileType
<1>5. User \in CallSet /\ User.op # "open"
  BY DEF User, CallSet
<1> HIDE DEF f, m
<1>6. FileType'
  <2>1. call' \in [Procs -> CallSet]
    BY <1>0, <1>2, <1>5 DEF FileType
  <2>2. mode' \in [Files -> Modes \cup {"new", "free"}] /\ fds' \in [Procs -> SUBSET Files]
    BY <1>0, <1>1, <1>3 DEF FileType
  <2>3. frefs' \in [Files -> Nat]
    BY <1>0, <1>1, <1>3 DEF FileType
  <2> QED
    BY <1>0, <1>2, <1>4, <2>1, <2>2, <2>3 DEF FileType
<1>7. /\ \A g \in Files \ {f} : mode'[g] = mode[g] /\ frefs'[g] = frefs[g]
      /\ \A q \in Procs \ {p} : call'[q] = call[q] /\ fds'[q] = fds[q]
      /\ fds'[p] \ {f} = fds[p] \ {f} /\ call'[p] = User
      /\ \/ mode'[f] = m /\ f \in fds'[p] /\ frefs'[f] = 1
         \/ mode'[f] = "free" /\ f \notin fds'[p] /\ frefs'[f] = 0
  BY <1>0, <1>1, <1>2, <1>3 DEF FileType
<1>8. /\ OpenMode(p) = m /\ OpenMode(p)' = "none"
      /\ OpenFile(p) = f /\ OpenFile(p)' = 0 /\ 0 \notin Files
  BY <1>0, <1>5, <1>7 DEF OpenMode, OpenFile, In, m, f, Files
<1>9. \A ms \in {{"r", "rw"}, {"w", "rw"}, Modes} : 
        "none" \notin ms /\ "new" \notin ms /\ "free" \notin ms
  BY DEF Modes
<1>10. RefsExact' /\ CountsExact' /\ CountType'
  <2>1. frefs'[f] = frefs[f] - One(f \in fds[p]) + One(f \in fds'[p])
                    - One(OpenFile(p) = f) + One(OpenFile(p)' = f)
    BY <1>1, <1>7, <1>8 DEF One
  <2>2. irefs' = irefs - One(mode[f] \in Modes) + One(mode'[f] \in Modes)
                 - One(OpenMode(p) \in Modes) + One(OpenMode(p)' \in Modes)
    <3>1. CASE irefs' = irefs /\ mode'[f] = m
      BY <1>0, <1>1, <1>8, <1>9, <3>1 DEF One, CountType
    <3>2. CASE irefs' = irefs - 1 /\ mode'[f] = "free"
      BY <1>0, <1>1, <1>8, <1>9, <3>2 DEF One, CountType
    <3> QED
      BY <1>0, <1>1, <1>3, <3>1, <3>2 DEF FileType
  <2>3. /\ pipe_readers' - leaked' = pipe_readers - leaked
             - One(mode[f] \in {"r", "rw"}) + One(mode'[f] \in {"r", "rw"})
             - One(OpenMode(p) \in {"r", "rw"}) + One(OpenMode(p)' \in {"r", "rw"})
        /\ pipe_writers' - leaked' = pipe_writers - leaked
             - One(mode[f] \in {"w", "rw"}) + One(mode'[f] \in {"w", "rw"})
             - One(OpenMode(p) \in {"w", "rw"}) + One(OpenMode(p)' \in {"w", "rw"})
        /\ pipe_readers' \in Int /\ pipe_writers' \in Int
    <3>0. leaked \in Nat /\ pipe_readers \in Nat /\ pipe_writers \in Nat
      BY <1>0 DEF FileType, CountType
    <3>1. CASE mode'[f] = m /\ UNCHANGED <<pipe_readers, pipe_writers>>
      BY <1>1, <1>2, <1>8, <3>0, <3>1 DEF One
    <3>2. CASE mode'[f] = "free" /\ Uncount(m)
      BY <1>1, <1>2, <1>8, <3>0, <3>2 DEF One, Uncount, Reads, Writes
    <3> QED
      BY <1>0, <1>1, <1>3, <3>1, <3>2 DEF FileType
  <2>4. OpenFile(p) \in {0, f} /\ OpenFile(p)' \in {0, f}
    BY <1>8
  <2> QED
    BY <1>0, <1>1, <1>2, <1>6, <1>7, <2>1, <2>2, <2>3, <2>4, CountedStep
\* No other process opens this file, and none has it open.
<1>11. f \notin orphans /\ \A q \in Procs \ {p} : f \notin fds[q] /\ OpenFile(q) # f
  BY <1>1, <1>8, OneHolder
<1>12. FilesOwned'
  <2>1. \A g \in Files : frefs'[g] = 0 <=> mode'[g] = "free"
    BY <1>1, <1>7 DEF CInv, FilesOwned, Modes
  <2>2. \A q \in Procs : \A g \in fds'[q] : mode'[g] \in Modes
    <3> SUFFICES ASSUME NEW q \in Procs, NEW g \in fds'[q] PROVE mode'[g] \in Modes
      OBVIOUS
    <3>1. CASE g = f
      BY <1>1, <1>7, <1>11, <3>1
    <3>2. CASE g # f
      BY <1>0, <1>6, <1>7, <3>2 DEF CInv, FilesOwned, FileType
    <3> QED
      BY <3>1, <3>2
  <2>3. ASSUME NEW q \in Procs, In(q, "open")'
        PROVE  frefs'[call'[q].f] = 1 /\ mode'[call'[q].f] = "new"
    <3>1. q # p
      BY <1>5, <1>7, <2>3 DEF In
    <3>2. In(q, "open") /\ call'[q] = call[q]
      BY <1>7, <2>3, <3>1 DEF In
    <3>3. /\ call[q].f \in Files /\ frefs[call[q].f] = 1 /\ mode[call[q].f] = "new"
          /\ call[q].f # f
      BY <1>0, <1>11, <3>1, <3>2, OpenTypes DEF CInv, FilesOwned, OpenFile
    <3> QED
      BY <1>7, <3>2, <3>3
  <2>4. \A g \in orphans' : mode'[g] = "new"
    BY <1>0, <1>2, <1>7, <1>11 DEF CInv, FilesOwned, FileType
  <2> QED
    BY <2>1, <2>2, <2>3, <2>4 DEF FilesOwned
<1> QED
  BY <1>6, <1>10, <1>12 DEF CInv

\* fork and dup.
LEMMA ShareC ==
  ASSUME CInv, NEW p \in Procs, NEW q \in Procs, Share(p, q)
  PROVE  CInv'
<1>0. FileType /\ CountType
  BY DEF CInv
<1>1. PICK f \in fds[p] \ fds[q] : /\ frefs' = [frefs EXCEPT ![f] = @ + 1]
                                   /\ fds' = [fds EXCEPT ![q] = @ \cup {f}]
  BY DEF Share
<1>2. UNCHANGED <<inodev, named, mode, ndelay, orphans, call, sig>> /\ ~In(q, "open")
  BY DEF Share, In
<1>3. irefs # 0 /\ f \in Files /\ mode[f] \in Modes
  BY InUse
<1>4. FileType'
  <2>1. frefs' \in [Files -> Nat] /\ fds' \in [Procs -> SUBSET Files]
    BY <1>0, <1>1, <1>3 DEF FileType
  <2> QED
    BY <1>0, <1>2, <2>1 DEF FileType, inodev
<1>5. /\ \A g \in Files \ {f} : mode'[g] = mode[g] /\ frefs'[g] = frefs[g]
      /\ \A r \in Procs \ {q} : call'[r] = call[r] /\ fds'[r] = fds[r]
      /\ fds'[q] = fds[q] \cup {f} /\ frefs'[f] = frefs[f] + 1
      /\ frefs[f] \in Nat /\ mode' = mode /\ call' = call
  BY <1>0, <1>1, <1>2, <1>3 DEF FileType
<1>6. OpenMode(q) = "none" /\ OpenMode(q)' = "none" /\ OpenFile(q) = 0 /\ OpenFile(q)' = 0
  BY <1>2 DEF OpenMode, OpenFile, In
<1>7. RefsExact' /\ CountsExact' /\ CountType'
  <2>1. fds'[q] \ {f} = fds[q] \ {f} /\ 0 # f
    BY <1>3, <1>5 DEF Files
  <2>2. UNCHANGED <<irefs, pipe_readers, pipe_writers, leaked>> /\ leaked \in Nat
    BY <1>0, <1>2 DEF inodev, FileType
  <2>3. frefs'[f] = frefs[f] - One(f \in fds[q]) + One(f \in fds'[q])
                    - One(OpenFile(q) = f) + One(OpenFile(q)' = f)
    BY <1>1, <1>5, <1>6, <2>1 DEF One
  <2> QED
    BY <1>0, <1>2, <1>3, <1>4, <1>5, <1>6, <2>1, <2>2, <2>3, CountedStep DEF CountType, One
<1>8. FilesOwned'
  <2>1. \A g \in Files : frefs'[g] = 0 <=> mode'[g] = "free"
    BY <1>3, <1>5 DEF CInv, FilesOwned, Modes
  <2>2. \A r \in Procs : \A g \in fds'[r] : mode'[g] \in Modes
    BY <1>3, <1>5 DEF CInv, FilesOwned
  <2>3. \A r \in Procs : In(r, "open")' =>
          frefs'[call'[r].f] = 1 /\ mode'[call'[r].f] = "new"
    BY <1>0, <1>3, <1>5, OpenTypes DEF CInv, FilesOwned, In, Modes
  <2>4. \A g \in orphans' : mode'[g] = "new"
    BY <1>2, <1>5 DEF CInv, FilesOwned
  <2> QED
    BY <2>1, <2>2, <2>3, <2>4 DEF FilesOwned
<1> QED
  BY <1>4, <1>7, <1>8 DEF CInv

\* fd_put.
LEMMA CloseC ==
  ASSUME CInv, NEW p \in Procs, NEW f \in fds[p], Close(p, f)
  PROVE  CInv'
<1>0. FileType /\ CountType /\ irefs # 0 /\ f \in Files /\ mode[f] \in Modes
  BY InUse DEF CInv
<1>1. /\ fds' = [fds EXCEPT ![p] = @ \ {f}] /\ frefs' = [frefs EXCEPT ![f] = @ - 1]
      /\ UNCHANGED <<ring, named, orphans, call, sig>> /\ ~In(p, "open")
      /\ \/ /\ frefs[f] = 1
            /\ mode' = [mode EXCEPT ![f] = "free"]
            /\ ndelay' = [ndelay EXCEPT ![f] = FALSE]
            /\ irefs' = irefs - 1 /\ PipeClose(mode[f])
         \/ /\ frefs[f] # 1
            /\ UNCHANGED <<mode, ndelay, irefs, pipe_readers, pipe_writers, leaked>>
  BY DEF Close, LastPut, Runs, In
<1>2. frefs[f] \in Nat /\ frefs[f] > 0 /\ leaked \in Nat
  BY <1>0 DEF CInv, FilesOwned, FileType, Modes
<1>3. FileType'
  <2>1. frefs' \in [Files -> Nat] /\ fds' \in [Procs -> SUBSET Files]
    BY <1>0, <1>1, <1>2 DEF FileType
  <2>2. mode' \in [Files -> Modes \cup {"new", "free"}] /\ ndelay' \in [Files -> BOOLEAN]
    BY <1>0, <1>1 DEF FileType
  <2>3. leaked' \in Nat
    BY <1>1, <1>2 DEF PipeClose
  <2> QED
    BY <1>0, <1>1, <2>1, <2>2, <2>3 DEF FileType
<1>4. /\ \A g \in Files \ {f} : mode'[g] = mode[g] /\ frefs'[g] = frefs[g]
      /\ \A r \in Procs \ {p} : call'[r] = call[r] /\ fds'[r] = fds[r]
      /\ fds'[p] = fds[p] \ {f} /\ frefs'[f] = frefs[f] - 1
      /\ call' = call /\ orphans' = orphans
      /\ mode'[f] = IF frefs[f] = 1 THEN "free" ELSE mode[f]
  BY <1>0, <1>1, <1>2 DEF FileType
<1>5. OpenMode(p) = "none" /\ OpenMode(p)' = "none" /\ OpenFile(p) = 0 /\ OpenFile(p)' = 0
  BY <1>1 DEF OpenMode, OpenFile, In
<1>6. RefsExact' /\ CountsExact' /\ CountType'
  <2>1. fds'[p] \ {f} = fds[p] \ {f} /\ 0 # f
    BY <1>0, <1>4 DEF Files
  <2>2. frefs'[f] = frefs[f] - One(f \in fds[p]) + One(f \in fds'[p])
                    - One(OpenFile(p) = f) + One(OpenFile(p)' = f)
    BY <1>2, <1>4, <1>5, <2>1 DEF One
  <2>3. /\ irefs' = irefs - One(mode[f] \in Modes) + One(mode'[f] \in Modes)
        /\ pipe_readers' - leaked' = pipe_readers - leaked
             - One(mode[f] \in {"r", "rw"}) + One(mode'[f] \in {"r", "rw"})
        /\ pipe_writers' - leaked' = pipe_writers - leaked
             - One(mode[f] \in {"w", "rw"}) + One(mode'[f] \in {"w", "rw"})
        /\ pipe_readers' \in Int /\ pipe_writers' \in Int
    <3>1. CASE frefs[f] = 1
      <4>1. irefs' = irefs - 1 /\ PipeClose(mode[f]) /\ mode'[f] = "free"
        BY <1>1, <1>4, <3>1
      <4> QED
        BY <1>0, <1>2, <4>1 DEF One, PipeClose, Modes, CountType
    <3>2. CASE frefs[f] # 1
      <4>1. /\ UNCHANGED <<irefs, pipe_readers, pipe_writers, leaked>>
            /\ mode'[f] = mode[f]
        BY <1>1, <1>4, <3>2
      <4> QED
        BY <1>0, <1>2, <4>1 DEF One, CountType
    <3> QED
      BY <3>1, <3>2
  <2>4. One("none" \in Modes) = 0 /\ One("none" \in {"r", "rw"}) = 0
        /\ One("none" \in {"w", "rw"}) = 0
    BY Classes DEF One
  <2>5. /\ irefs' = irefs - One(mode[f] \in Modes) + One(mode'[f] \in Modes)
                    - One(OpenMode(p) \in Modes) + One(OpenMode(p)' \in Modes)
        /\ pipe_readers' - leaked' = pipe_readers - leaked
             - One(mode[f] \in {"r", "rw"}) + One(mode'[f] \in {"r", "rw"})
             - One(OpenMode(p) \in {"r", "rw"}) + One(OpenMode(p)' \in {"r", "rw"})
        /\ pipe_writers' - leaked' = pipe_writers - leaked
             - One(mode[f] \in {"w", "rw"}) + One(mode'[f] \in {"w", "rw"})
             - One(OpenMode(p) \in {"w", "rw"}) + One(OpenMode(p)' \in {"w", "rw"})
    <3>1. /\ irefs' \in Int /\ leaked' \in Int
      BY <1>0, <1>1, <1>3 DEF FileType, CountType
    <3>2. pipe_readers - leaked \in Int /\ pipe_writers - leaked \in Int /\ irefs \in Int
      BY <1>0, <1>2 DEF CountType
    <3>3. \A c : One(c) \in Int
      BY DEF One
    <3>4. /\ One(OpenMode(p) \in Modes) = 0 /\ One(OpenMode(p)' \in Modes) = 0
          /\ One(OpenMode(p) \in {"r", "rw"}) = 0 /\ One(OpenMode(p)' \in {"r", "rw"}) = 0
          /\ One(OpenMode(p) \in {"w", "rw"}) = 0 /\ One(OpenMode(p)' \in {"w", "rw"}) = 0
      BY <1>5, <2>4
    <3> QED
      BY <2>3, <3>1, <3>2, <3>3, <3>4
  <2>6. OpenFile(p) \in {0, f} /\ OpenFile(p)' \in {0, f}
    BY <1>5
  <2> QED
    BY <1>0, <1>3, <1>4, <2>1, <2>2, <2>3, <2>5, <2>6, CountedStep
<1>7. FilesOwned'
  <2>1. \A g \in Files : frefs'[g] = 0 <=> mode'[g] = "free"
    BY <1>0, <1>2, <1>4 DEF CInv, FilesOwned, Modes
  <2>2. \A r \in Procs : \A g \in fds'[r] : mode'[g] \in Modes
    <3> SUFFICES ASSUME NEW r \in Procs, NEW g \in fds'[r] PROVE mode'[g] \in Modes
      OBVIOUS
    <3>1. g \in fds[r] /\ g \in Files /\ mode[g] \in Modes
      BY <1>0, <1>4 DEF CInv, FilesOwned, FileType
    <3>2. CASE g = f /\ frefs[f] = 1
      <4>1. r # p
        BY <1>4, <3>2
      <4> QED
        BY <1>0, <3>1, <3>2, <4>1, OneHolder
    <3> QED
      BY <1>4, <3>1, <3>2
  <2>3. \A r \in Procs : In(r, "open")' =>
          frefs'[call'[r].f] = 1 /\ mode'[call'[r].f] = "new"
    BY <1>0, <1>4, OpenTypes DEF CInv, FilesOwned, In, Modes
  <2>4. \A g \in orphans' : mode'[g] = "new"
    BY <1>0, <1>4 DEF CInv, FilesOwned, Modes, FileType
  <2> QED
    BY <2>1, <2>2, <2>3, <2>4 DEF FilesOwned
<1> QED
  BY <1>3, <1>6, <1>7 DEF CInv

\* sys_pipe on a file system that is read-only.
LEMMA ReadOnlyC ==
  ASSUME CInv, NEW p \in Procs, SysPipeReadOnly(p)
  PROVE  CInv'
<1>0. FileType /\ CountType
  BY DEF CInv
<1>1. PICK f \in Files, g \in Files :
        /\ f # g /\ FreeFile(f) /\ FreeFile(g)
        /\ frefs' = [frefs EXCEPT ![f] = 1, ![g] = 1]
        /\ mode' = [mode EXCEPT ![f] = "new", ![g] = "new"]
        /\ orphans' = orphans \cup {f, g}
  BY DEF SysPipeReadOnly, FirstFree
<1>2. UNCHANGED <<inodev, named, ndelay, fds, call, sig>>
  BY DEF SysPipeReadOnly
<1>3. /\ \A h \in Files \ {f, g} : mode'[h] = mode[h] /\ frefs'[h] = frefs[h]
      /\ \A h \in {f, g} : /\ mode'[h] = "new" /\ frefs'[h] = 1
                           /\ mode[h] = "free" /\ frefs[h] = 0
                           /\ h \notin orphans /\ h \in orphans'
      /\ \A h \in Files \ {f, g} : h \in orphans' <=> h \in orphans
  BY <1>0, <1>1 DEF CInv, FileType, FilesOwned, FreeFile
<1>4. FileType'
  <2>1. orphans' \subseteq Files
    BY <1>0, <1>1 DEF FileType
  <2> QED
    BY <1>0, <1>1, <1>2, <2>1 DEF FileType, inodev
<1>5. ASSUME NEW ms \in {{"r", "rw"}, {"w", "rw"}, Modes} PROVE Users(ms)' = Users(ms)
  <2>1. "new" \notin ms /\ "free" \notin ms
    BY DEF Modes
  <2>2. {h \in Files : mode'[h] \in ms} = {h \in Files : mode[h] \in ms}
    BY <1>3, <2>1
  <2> QED
    BY <1>2, <2>2 DEF Users, In
<1>6. \A h \in Files : Holders(h)' = Holders(h)
  BY <1>2 DEF Holders, In
<1>7. RefsExact'
  <2>1. ASSUME NEW h \in Files PROVE frefs'[h] = Holders(h)' + One(h \in orphans')
    <3>1. /\ frefs[h] = Holders(h) + One(h \in orphans)
          /\ Holders(h) \in Nat /\ Holders(h)' = Holders(h)
      <4>1. \A q \in Procs \ {p} : call'[q] = call[q] /\ fds'[q] = fds[q]
        BY <1>2
      <4> QED
        BY <1>6, <4>1, HoldersStep, Unfold DEF CInv
    <3> QED
      BY <1>3, <3>1 DEF One
  <2> QED
    BY <1>2, <1>5, <2>1, Unfold DEF CInv, inodev
<1>8. CountsExact'
  BY <1>2, <1>5 DEF CInv, CountsExact, Live, inodev
<1>9. FilesOwned'
  <2>1. \A h \in Files : frefs'[h] = 0 <=> mode'[h] = "free"
    BY <1>3 DEF CInv, FilesOwned
  <2>2. \A q \in Procs : \A h \in fds'[q] : mode'[h] \in Modes
    BY <1>0, <1>2, <1>3 DEF CInv, FilesOwned, FileType, Modes
  <2>3. \A q \in Procs : In(q, "open")' =>
          frefs'[call'[q].f] = 1 /\ mode'[call'[q].f] = "new"
    BY <1>0, <1>2, <1>3, OpenTypes DEF CInv, FilesOwned, In
  <2>4. \A h \in orphans' : mode'[h] = "new"
    BY <1>3, <1>4 DEF CInv, FilesOwned, FileType
  <2> QED
    BY <2>1, <2>2, <2>3, <2>4 DEF FilesOwned
<1> QED
  BY <1>2, <1>4, <1>7, <1>8, <1>9 DEF CInv, CountType, inodev

\* sys_pipe.
LEMMA SysPipeC ==
  ASSUME CInv, NEW p \in Procs, SysPipe(p)
  PROVE  CInv'
<1>0. FileType /\ CountType /\ irefs = 0
  BY DEF CInv, SysPipe
<1>1. PICK f \in Files, g \in Files :
        /\ f # g /\ FreeFile(f) /\ FreeFile(g)
        /\ frefs' = [frefs EXCEPT ![f] = 1, ![g] = 1]
        /\ mode' = [mode EXCEPT ![f] = "r", ![g] = "w"]
        /\ fds' = [fds EXCEPT ![p] = @ \cup {f, g}]
  BY DEF SysPipe, FirstFree
<1>2. /\ UNCHANGED <<named, ndelay, orphans, call, sig>>
      /\ irefs' = 2 /\ pipe_readers' = 1 /\ pipe_writers' = 1 /\ leaked' = 0
  BY DEF SysPipe
<1>3. /\ \A h \in Files : mode[h] \notin Modes
      /\ \A q \in Procs : ~In(q, "open") /\ fds[q] = {}
  BY <1>0, HeldInode
<1>4. /\ \A h \in Files \ {f, g} : mode'[h] = mode[h] /\ frefs'[h] = frefs[h]
      /\ mode'[f] = "r" /\ mode'[g] = "w" /\ frefs'[f] = 1 /\ frefs'[g] = 1
      /\ f \notin orphans /\ g \notin orphans
      /\ fds'[p] = {f, g} /\ \A q \in Procs \ {p} : fds'[q] = {}
  BY <1>0, <1>1, <1>3 DEF CInv, FileType, FilesOwned, FreeFile
<1>5. FileType'
  <2>1. frefs' \in [Files -> Nat] /\ fds' \in [Procs -> SUBSET Files]
    BY <1>0, <1>1 DEF FileType
  <2>2. mode' \in [Files -> Modes \cup {"new", "free"}]
    BY <1>0, <1>1 DEF FileType, Modes
  <2> QED
    BY <1>0, <1>2, <2>1, <2>2 DEF FileType
<1>6. ASSUME NEW ms \in {{"r", "rw"}, {"w", "rw"}, Modes}
      PROVE  Users(ms)' = One("r" \in ms) + One("w" \in ms)
  <2> DEFINE B == {h \in Files : mode'[h] \in ms}
             D == {q \in Procs : In(q, "open")' /\ call'[q].m \in ms}
  <2>1. B = {h \in {f, g} : mode'[h] \in ms}
    BY <1>3, <1>4 DEF Modes
  <2>2. D = {}
    BY <1>2, <1>3 DEF In
  <2>3. B = {f} \/ B = {g} \/ B = {f, g}
    BY <1>4, <2>1 DEF Modes
  <2>4. Users(ms)' = Cardinality(B) + Cardinality(D)
    BY DEF Users
  <2>5. Cardinality({f, g}) = 2 /\ Cardinality({f}) = 1 /\ Cardinality({g}) = 1
    <3>1. IsFiniteSet({f}) /\ Cardinality({f}) = 1 /\ Cardinality({g}) = 1
      BY FS_Singleton
    <3>2. {f} \cup {g} = {f, g} /\ g \notin {f}
      BY <1>1
    <3>3. Cardinality({f} \cup {g}) = IF g \in {f} THEN Cardinality({f}) ELSE Cardinality({f}) + 1
      BY <3>1, FS_AddElement
    <3> QED
      BY <3>1, <3>2, <3>3
  <2>6. f \in B <=> "r" \in ms
    BY <1>4
  <2>7. g \in B <=> "w" \in ms
    BY <1>4
  <2> HIDE DEF B, D
  <2> QED
    BY <2>2, <2>3, <2>4, <2>5, <2>6, <2>7, FS_EmptySet DEF One
<1>7. /\ Users({"r", "rw"})' = 1 /\ Users({"w", "rw"})' = 1 /\ Users(Modes)' = 2
  <2>1. /\ "r" \in {"r", "rw"} /\ "w" \notin {"r", "rw"}
        /\ "w" \in {"w", "rw"} /\ "r" \notin {"w", "rw"} /\ "r" \in Modes /\ "w" \in Modes
    BY DEF Modes
  <2> QED
    BY <1>6, <2>1 DEF One
<1>8. CountsExact' /\ CountType'
  BY <1>2, <1>7 DEF CountsExact, CountType
<1>9. RefsExact'
  <2>1. ASSUME NEW h \in Files PROVE frefs'[h] = Holders(h)' + One(h \in orphans')
    <3>1. /\ frefs[h] = Holders(h) + One(h \in orphans) /\ Holders(h) \in Nat
          /\ Holders(h)' = Holders(h) - One(h \in fds[p]) + One(h \in fds'[p])
                          - One(OpenFile(p) = h) + One(OpenFile(p)' = h)
      <4>1. \A q \in Procs \ {p} : call'[q] = call[q] /\ fds'[q] = fds[q]
        BY <1>2, <1>3, <1>4
      <4> QED
        BY <4>1, HoldersStep, Unfold DEF CInv
    <3>2. One(OpenFile(p) = h) = 0 /\ One(OpenFile(p)' = h) = 0 /\ One(h \in fds[p]) = 0
      BY <1>2, <1>3 DEF OpenFile, One, In, Files
    <3>3. frefs[h] = 0 \/ h \notin {f, g}
      BY <1>1 DEF FreeFile
    <3> QED
      BY <1>2, <1>4, <3>1, <3>2, <3>3 DEF One
  <2> QED
    BY <1>2, <1>7, <2>1, Unfold
<1>10. FilesOwned'
  <2>1. \A h \in Files : frefs'[h] = 0 <=> mode'[h] = "free"
    BY <1>4 DEF CInv, FilesOwned
  <2>2. \A q \in Procs : \A h \in fds'[q] : mode'[h] \in Modes
    BY <1>4 DEF Modes
  <2>3. \A q \in Procs : ~In(q, "open")'
    BY <1>2, <1>3 DEF In
  <2>4. \A h \in orphans' : mode'[h] = "new"
    BY <1>0, <1>2, <1>4 DEF CInv, FilesOwned, FileType
  <2> QED
    BY <2>1, <2>2, <2>3, <2>4 DEF FilesOwned
<1> QED
  BY <1>5, <1>8, <1>9, <1>10 DEF CInv

LEMMA InitC == Init => CInv
<1> SUFFICES ASSUME Init PROVE CInv
  OBVIOUS
<1>1. FileType /\ CountType /\ FilesOwned
  BY DEF Init, FileType, CountType, FilesOwned, CallSet, User, In
<1>2. \A ms : ms \subseteq Modes => Users(ms) = 0
  <2> SUFFICES ASSUME NEW ms, ms \subseteq Modes PROVE Users(ms) = 0
    OBVIOUS
  <2>1. {f \in Files : mode[f] \in ms} = {}
    BY DEF Init, Modes
  <2>2. {p \in Procs : In(p, "open") /\ call[p].m \in ms} = {}
    BY DEF Init, In, User
  <2>3. Users(ms) = Cardinality({}) + Cardinality({})
    BY <2>1, <2>2, Zenon DEF Users
  <2> QED
    BY <2>3, FS_EmptySet
<1>3. ASSUME NEW f \in Files PROVE frefs[f] = Holders(f) + One(f \in orphans)
  <2>1. {p \in Procs : f \in fds[p]} = {}
    BY DEF Init
  <2>2. {p \in Procs : In(p, "open") /\ call[p].f = f} = {}
    BY DEF Init, In, User
  <2>3. Holders(f) = Cardinality({}) + Cardinality({})
    BY <2>1, <2>2, Zenon DEF Holders
  <2> QED
    BY <2>3, FS_EmptySet DEF Init, One
<1>4. RefsExact
  BY <1>2, <1>3, Unfold DEF Init
<1>5. CountsExact
  BY DEF Init, CountsExact, Live
<1> QED
  BY <1>1, <1>4, <1>5 DEF CInv

\* Every step keeps the counts.
LEMMA NextC == CInv /\ IInv /\ IInv' /\ [Next]_vars => CInv'
<1> SUFFICES ASSUME CInv, IInv, IInv', [Next]_vars PROVE CInv'
  OBVIOUS
<1>1. CASE UNCHANGED vars
  <2>1. FileType'
    BY <1>1 DEF CInv, FileType, vars, filev, inodev
  <2> QED
    BY <1>1, <2>1, QuietC DEF vars, filev, inodev
<1>2. ASSUME NEW p \in Procs, GoOn(p) PROVE CInv'
  BY <1>2, OpenedC, ReadWriteC DEF GoOn
<1>3. ASSUME NEW p \in Procs, NEW m \in Modes, NEW nd \in BOOLEAN, Open(p, m, nd)
      PROVE  CInv'
  BY <1>3, OpenC
<1>4. ASSUME NEW p \in Procs, SysPipe(p) \/ SysPipeReadOnly(p) PROVE CInv'
  BY <1>4, SysPipeC, ReadOnlyC
<1>5. ASSUME NEW p \in Procs, NEW q \in Procs, Share(p, q) PROVE CInv'
  BY <1>5, ShareC
<1>6. ASSUME NEW p \in Procs, NEW f \in fds[p], Close(p, f) PROVE CInv'
  BY <1>6, CloseC
<1>7. ASSUME NEW p \in Procs, SysRead(p) \/ SysWrite(p) \/ Signal(p) \/ Deliver(p)
      PROVE  CInv'
  BY <1>7, ReadWriteC
<1> QED
  BY <1>1, <1>2, <1>3, <1>4, <1>5, <1>6, <1>7 DEF Next

\* The inductive invariant of the counts.
THEOREM CountInvariance == Spec => []CInv
BY InitC, NextC, Invariance, PTL DEF Spec

\* pipe_readers and pipe_writers, on which end of file, EPIPE and the waits of
\* pipe_open depend, and the references to file[] and to the inode count what
\* is there, for any number of processes and files.
THEOREM PipeCountedCorrect == Spec => []PipeCounted
<1>1. IInv /\ CInv => PipeCounted
  BY DEF IInv, RingInv, RingType, CInv, FileType, CallSet, CountType, PipeCounted, TypeOK
<1> QED
  BY <1>1, Invariance, CountInvariance, PTL

----------------------------------------------------------------------------
(* The refinement: the ring is a queue.                                     *)

\* What is in the pipe, as a sequence.
LEMMA ContentSeq ==
  ASSUME RingInv
  PROVE  /\ Content \in Seq(Byte) /\ Len(Content) = pipe_datlen
         /\ \A i \in 1 .. pipe_datlen : Content[i] = pipe_buf[Wrap(pipe_rdp + (i - 1))]
<1>1. pipe_datlen \in Nat /\ pipe_rdp \in Index
  BY DEF RingInv, RingType
<1>2. ASSUME NEW i \in 1 .. pipe_datlen
      PROVE  /\ pipe_rdp + i - 1 = pipe_rdp + (i - 1)
             /\ pipe_buf[Wrap(pipe_rdp + (i - 1))] \in Byte
  <2>1. Wrap(pipe_rdp + (i - 1)) \in Index
    BY <1>1, WrapFacts DEF RingInv, RingType
  <2> QED
    BY <1>1, <2>1 DEF RingInv, RingType
<1>3. Content \in [1 .. pipe_datlen -> Byte]
  BY <1>2 DEF Content
<1>4. Content \in Seq(Byte) /\ Len(Content) = pipe_datlen
  BY <1>1, <1>3
<1> QED
  BY <1>2, <1>4 DEF Content

\* The same of the next state.
LEMMA ContentSeqNext ==
  RingInv' =>
    /\ Content' \in Seq(Byte) /\ Len(Content') = pipe_datlen'
    /\ \A i \in 1 .. pipe_datlen' : Content'[i] = pipe_buf'[Wrap(pipe_rdp' + (i - 1))]
<1>1. (RingInv => /\ Content \in Seq(Byte) /\ Len(Content) = pipe_datlen
                  /\ \A i \in 1 .. pipe_datlen :
                       Content[i] = pipe_buf[Wrap(pipe_rdp + (i - 1))])'
  BY ContentSeq, PTL
<1> QED
  BY <1>1 DEF Wrap

\* pipe_getc takes the oldest bytes.
LEMMA TakeStep ==
  ASSUME RingInv, RingInv', NEW k \in 0 .. pipe_datlen, GetBytes(k)
  PROVE  \/ Content' = Content
         \/ \E n \in 1 .. Len(Content) : Content' = SubSeq(Content, n + 1, Len(Content))
<1>0. pipe_datlen \in Nat /\ pipe_rdp \in Index /\ pipe_datlen <= PIPE_BUF
  BY DEF RingInv, RingType
<1>1. /\ pipe_datlen' = pipe_datlen - k /\ pipe_rdp' = Wrap(pipe_rdp + k)
      /\ pipe_buf' = pipe_buf
  BY DEF GetBytes
<1>2. CASE k = 0
  <2>1. pipe_datlen' = pipe_datlen /\ pipe_rdp' = pipe_rdp
    BY <1>0, <1>1, <1>2 DEF Wrap
  <2> QED
    BY <1>1, <2>1 DEF Content, Wrap
<1>3. CASE k # 0
  <2> DEFINE t == SubSeq(Content, k + 1, Len(Content))
  <2>0. k \in 1 .. pipe_datlen
    BY <1>0, <1>3
  <2>1. \A i \in k + 1 .. pipe_datlen : Content[i] \in Byte
    BY <1>0, <2>0, ContentSeq, ElementOfSeq
  <2>2. /\ t \in Seq(Byte)
        /\ Len(t) = pipe_datlen - k
        /\ \A i \in 1 .. pipe_datlen - k : t[i] = Content[k + i]
    <3>1. k + 1 \in Int /\ pipe_datlen \in Int /\ Len(Content) = pipe_datlen
      BY <1>0, <2>0, ContentSeq
    <3>2. /\ t \in Seq(Byte)
          /\ Len(t) = IF k + 1 <= pipe_datlen THEN pipe_datlen - (k + 1) + 1 ELSE 0
          /\ \A i \in 1 .. pipe_datlen - (k + 1) + 1 : t[i] = Content[(k + 1) + i - 1]
      BY <2>1, <3>1, SubSeqProperties
    <3> HIDE DEF t
    <3>3. pipe_datlen - (k + 1) + 1 = pipe_datlen - k
      BY <1>0, <2>0
    <3>4. \A i \in 1 .. pipe_datlen - k : (k + 1) + i - 1 = k + i
      BY <1>0, <2>0
    <3> QED
      BY <1>0, <2>0, <3>2, <3>3, <3>4
  <2>3. ASSUME NEW i \in 1 .. pipe_datlen - k PROVE Content'[i] = t[i]
    <3>1. /\ i \in 1 .. pipe_datlen' /\ k + i \in 1 .. pipe_datlen
          /\ pipe_rdp + k + (i - 1) = pipe_rdp + (k + i - 1)
      BY <1>0, <1>1, <2>0
    <3>2. Content'[i] = pipe_buf[Wrap(Wrap(pipe_rdp + k) + (i - 1))]
      BY <1>1, <3>1, ContentSeqNext
    <3>3. Wrap(Wrap(pipe_rdp + k) + (i - 1)) = Wrap(pipe_rdp + k + (i - 1))
      <4>1. k \in 0 .. PIPE_BUF /\ i - 1 \in 0 .. PIPE_BUF /\ k + (i - 1) <= PIPE_BUF
        BY <1>0, <2>0
      <4> QED
        BY <1>0, <4>1, WrapFacts
    <3>4. Content[k + i] = pipe_buf[Wrap(pipe_rdp + (k + i - 1))]
      BY <3>1, ContentSeq
    <3> QED
      BY <2>2, <3>1, <3>2, <3>3, <3>4
  <2>4. Content' \in Seq(Byte) /\ Len(Content') = pipe_datlen - k
    BY <1>1, ContentSeqNext
  <2> HIDE DEF t
  <2>5. Content' = t
    BY <2>2, <2>3, <2>4, SeqEqual
  <2> QED
    BY <2>0, <2>5, ContentSeq DEF t
<1> QED
  BY <1>2, <1>3

\* pipe_putc appends.
LEMMA AppendStep ==
  ASSUME RingInv, RingInv', NEW k \in Nat, pipe_datlen' = pipe_datlen + k,
         pipe_rdp' = pipe_rdp,
         \A i \in 0 .. pipe_datlen - 1 :
           pipe_buf'[Wrap(pipe_rdp + i)] = pipe_buf[Wrap(pipe_rdp + i)]
  PROVE  /\ Len(Content') \in Len(Content) .. PIPE_BUF
         /\ SubSeq(Content', 1, Len(Content)) = Content
<1>0. pipe_datlen \in Nat /\ pipe_datlen' \in 0 .. PIPE_BUF
  BY DEF RingInv, RingType
<1>1. /\ Content \in Seq(Byte) /\ Len(Content) = pipe_datlen
      /\ Content' \in Seq(Byte) /\ Len(Content') = pipe_datlen'
  BY ContentSeq, ContentSeqNext
<1>2. \A i \in 1 .. pipe_datlen : Content'[i] = Content[i]
  <2> TAKE i \in 1 .. pipe_datlen
  <2>1. i \in 1 .. pipe_datlen' /\ i - 1 \in 0 .. pipe_datlen - 1
    BY <1>0
  <2> QED
    BY <2>1, ContentSeq, ContentSeqNext
<1>3. \A i \in 1 .. pipe_datlen : Content'[i] \in Byte
  BY <1>1, <1>2, ElementOfSeq
<1> DEFINE t == SubSeq(Content', 1, pipe_datlen)
<1>4. /\ t \in Seq(Byte)
      /\ Len(t) = IF 1 <= pipe_datlen THEN pipe_datlen - 1 + 1 ELSE 0
      /\ \A i \in 1 .. pipe_datlen - 1 + 1 : t[i] = Content'[1 + i - 1]
  <2>1. 1 \in Int /\ pipe_datlen \in Int
    BY <1>0
  <2> QED
    BY <1>3, <2>1, SubSeqProperties
<1> HIDE DEF t
<1>5. Len(t) = pipe_datlen /\ \A i \in 1 .. pipe_datlen : t[i] = Content'[i]
  <2>1. \A i \in 1 .. pipe_datlen : 1 + i - 1 = i
    OBVIOUS
  <2>2. pipe_datlen - 1 + 1 = pipe_datlen
    BY <1>0
  <2> QED
    BY <1>0, <1>4, <2>1, <2>2
<1>6. t = Content
  BY <1>1, <1>2, <1>4, <1>5, SeqEqual
<1> QED
  BY <1>0, <1>1, <1>6 DEF t

\* Nothing is in the pipe, and the same is in the pipe.
LEMMA EmptyContent == RingInv' /\ pipe_datlen' = 0 => Content' = << >>
BY ContentSeqNext, EmptySeq

LEMMA SameContent == UNCHANGED ring => Content' = Content
BY DEF ring, Content, Wrap

\* Which calls touch the ring, and which ones the inode.
LEMMA RingSteps ==
  ASSUME Next
  PROVE  \/ UNCHANGED ring
         \/ FreshRing /\ irefs = 0
         \/ UNCHANGED irefs /\ \E p \in Procs : Read(p) \/ Write(p)
<1> USE DEF inodev
<1>1. ASSUME NEW p \in Procs, GoOn(p)
      PROVE  UNCHANGED ring \/ (UNCHANGED irefs /\ (Read(p) \/ Write(p)))
  BY <1>1 DEF GoOn, OpenDone, OpenFails, Read, SmallWriteFails, BrokenPipe, Write
<1>2. ASSUME NEW p \in Procs, NEW m \in Modes, NEW nd \in BOOLEAN, Open(p, m, nd)
      PROVE  UNCHANGED ring \/ (FreshRing /\ irefs = 0)
  BY <1>2 DEF Open, Counted
<1>3. ASSUME NEW p \in Procs, SysPipe(p) \/ SysPipeReadOnly(p)
      PROVE  UNCHANGED ring \/ (FreshRing /\ irefs = 0)
  BY <1>3 DEF SysPipe, SysPipeReadOnly
<1>4. ASSUME NEW p \in Procs, NEW q \in Procs, Share(p, q) PROVE UNCHANGED ring
  BY <1>4 DEF Share
<1>5. ASSUME NEW p \in Procs, NEW f \in fds[p], Close(p, f) PROVE UNCHANGED ring
  BY <1>5 DEF Close
<1>6. ASSUME NEW p \in Procs, SysRead(p) \/ SysWrite(p) \/ Signal(p) \/ Deliver(p)
      PROVE  UNCHANGED ring
  BY <1>6 DEF SysRead, SysWrite, Start, Signal, Deliver
<1> QED
  BY <1>1, <1>2, <1>3, <1>4, <1>5, <1>6 DEF Next

\* The inode comes into use by an open of it that finds nobody else.
LEMMA Appears ==
  ASSUME Next, CInv, irefs = 0, irefs' # 0
  PROVE  FreshRing
<1> USE DEF inodev
<1>1. \A p \in Procs : ~In(p, "open") /\ fds[p] = {}
  BY HeldInode
<1>2. ASSUME NEW p \in Procs, GoOn(p) PROVE UNCHANGED irefs
  BY <1>1, <1>2 DEF GoOn, OpenDone, OpenFails, Read, SmallWriteFails, BrokenPipe, Write
<1>3. ASSUME NEW p \in Procs, NEW m \in Modes, NEW nd \in BOOLEAN, Open(p, m, nd)
      PROVE  FreshRing
  BY <1>3 DEF Open, Counted
<1>4. ASSUME NEW p \in Procs, SysPipe(p) PROVE FreshRing
  BY <1>4 DEF SysPipe
<1>5. ASSUME NEW p \in Procs, SysPipeReadOnly(p) PROVE UNCHANGED irefs
  BY <1>5 DEF SysPipeReadOnly
<1>6. ASSUME NEW p \in Procs, NEW q \in Procs, Share(p, q) PROVE UNCHANGED irefs
  BY <1>6 DEF Share
<1>7. ASSUME NEW p \in Procs, NEW f \in fds[p], Close(p, f) PROVE FALSE
  BY <1>1, <1>7
<1>8. ASSUME NEW p \in Procs, SysRead(p) \/ SysWrite(p) \/ Signal(p) \/ Deliver(p)
      PROVE  UNCHANGED irefs
  BY <1>8 DEF SysRead, SysWrite, Start, Signal, Deliver
<1> QED
  BY <1>2, <1>3, <1>4, <1>5, <1>6, <1>7, <1>8 DEF Next

\* A pipe is a bounded queue: whatever the size of the ring and of the
\* requests, and whoever opens, closes, reads, writes or is interrupted,
\* bytes come out in the order in which they were written, none is lost or
\* doubled, and what the last user leaves behind is gone at the next open.
THEOREM QueueRefined == Spec => RefinesQueue
<1> DEFINE q == IF Live THEN Content ELSE << >>
<1>1. ASSUME IInv, IInv', CInv, CInv', Next
      PROVE  Queue!QNext \/ UNCHANGED <<q, Live>>
  <2>0. irefs \in Nat /\ irefs' \in Nat /\ RingInv /\ RingInv'
    BY <1>1 DEF CInv, CountType, IInv
  <2>1. CASE ~Live /\ ~Live'
    BY <2>1 DEF Live
  <2>2. CASE Live /\ ~Live'
    BY <2>2 DEF Queue!QNext, Queue!Vanish
  <2>3. CASE ~Live /\ Live'
    <3>1. FreshRing
      BY <1>1, <2>0, <2>3, Appears DEF Live
    <3>2. Content' = << >>
      BY <2>0, <3>1, EmptyContent DEF FreshRing
    <3> QED
      BY <2>3, <3>2 DEF Queue!QNext, Queue!Appear
  <2>4. CASE Live /\ Live'
    <3>1. CASE UNCHANGED ring
      BY <2>4, <3>1, SameContent
    <3>2. ASSUME NEW p \in Procs, Read(p) PROVE Queue!QNext \/ UNCHANGED <<q, Live>>
      <4>1. call[p].n \in Nat /\ pipe_datlen \in Nat
        BY <1>1, <3>2 DEF Read, In, IInv, CallInv, CallType, RingInv, RingType
      <4>2. Min({call[p].n, pipe_datlen}) \in 0 .. pipe_datlen
        BY <4>1, MinOfTwo
      <4>3. \/ Content' = Content
            \/ \E n \in 1 .. Len(Content) : Content' = SubSeq(Content, n + 1, Len(Content))
        BY <2>0, <3>2, <4>2, TakeStep DEF Read
      <4> QED
        BY <2>4, <4>3 DEF Queue!QNext, Queue!Take
    <3>3. ASSUME NEW p \in Procs, Write(p) PROVE Queue!QNext \/ UNCHANGED <<q, Live>>
      <4> DEFINE k == Chunk(p)
                 left == call[p].left
      <4>1. left \in Nat /\ Room \in Nat
        BY <1>1, <3>3 DEF Write, In, IInv, CallInv, CallType, RingInv, RingType, Room
      <4>2. k \in 0 .. left /\ k <= Room
        BY <4>1, MinOfTwo DEF Chunk
      <4>3. PutBytes(p, k, left, Small(p)) /\ Small(p) \in BOOLEAN
        BY <3>3 DEF Write, Small
      <4> HIDE DEF k, left
      <4>4. /\ pipe_datlen' = pipe_datlen + k /\ pipe_rdp' = pipe_rdp
            /\ \A i \in 0 .. pipe_datlen - 1 :
                 pipe_buf'[Wrap(pipe_rdp + i)] = pipe_buf[Wrap(pipe_rdp + i)]
        BY <2>0, <4>1, <4>2, <4>3, PutBytesEffect
      <4>5. /\ Len(Content') \in Len(Content) .. PIPE_BUF
            /\ SubSeq(Content', 1, Len(Content)) = Content
        BY <2>0, <4>1, <4>2, <4>4, AppendStep
      <4> QED
        BY <2>4, <4>5 DEF Queue!QNext, Queue!Append_
    <3>4. ~(FreshRing /\ irefs = 0)
      BY <2>4 DEF Live
    <3> QED
      BY <1>1, <3>1, <3>2, <3>3, <3>4, RingSteps
  <2> QED
    BY <2>1, <2>2, <2>3, <2>4
<1>2. UNCHANGED vars => UNCHANGED <<q, Live>>
  BY SameContent DEF vars, inodev, Live
<1>3. IInv /\ IInv' /\ CInv /\ CInv' /\ [Next]_vars => [Queue!QNext]_(Queue!qvars)
  BY <1>1, <1>2 DEF Queue!qvars
<1>4. Init => Queue!QInit
  BY DEF Init, Live, Queue!QInit
<1> QED
  BY <1>3, <1>4, Invariance, CountInvariance, PTL DEF Spec, RefinesQueue, Queue!QSpec

HIDE PipeAssumption DEF PipeAssumption, Index

-----------------------------------------------------------------------------
(* tar.  What a walk from header to header computes.                         *)

\* Numbers have a least one.
LEMMA NatLeast ==
  ASSUME NEW T, T \subseteq Nat, T # {}
  PROVE  \E n \in T : \A m \in T : n <= m
<1> DEFINE O == OpToRel(<, Nat)
<1>1. IsWellFoundedOn(O, Nat)
  BY NatLessThanWellFounded
<1> HIDE DEF O
<1>2. PICK n \in T : \A m \in T : ~ (<<m, n>> \in O)
  BY <1>1, WFMin
<1>3. \A m \in T : <<m, n>> \in O <=> m < n
  BY <1>2 DEF O, OpToRel
<1>4. \A m \in T : ~(m < n)
  BY <1>2, <1>3, Zenon
<1> QED
  BY <1>4, SMT

TarPlaces  == Nat \ {0}
TarBlock   == {Zero} \cup {DataOf(f) : f \in TarFiles} \cup {Header(f, n) : f \in TarFiles, n \in Nat}
TarMembers == TarFiles \X Nat

LEMMA BlocksIs == ASSUME NEW n \in Nat PROVE Blocks(n) \in Nat
BY DEF Blocks

Walks(f, E, nx, b, h) ==
  \A p \in TarPlaces : f[p] = IF p \in E THEN b[p] ELSE h[<<p, f[nx[p]]>>]

\* A walk that goes up and stops behind L has a value at every place.
LEMMA WalkExists ==
  ASSUME NEW L \in Nat, NEW V, NEW E, \A p \in TarPlaces : p > L => p \in E,
         NEW nx \in [TarPlaces -> TarPlaces], \A p \in TarPlaces : nx[p] > p,
         NEW b \in [TarPlaces -> V], NEW h \in [TarPlaces \X V -> V]
  PROVE  \E f \in [TarPlaces -> V] : Walks(f, E, nx, b, h)
<1> DEFINE Known(f, n) == \A p \in TarPlaces : p > L - n => f[p] = IF p \in E THEN b[p] ELSE h[<<p, f[nx[p]]>>]
           T == {n \in 0 .. L : ~ \E f \in [TarPlaces -> V] : Known(f, n)}
<1>1. T = {} => L \notin T
  OBVIOUS
<1>2. L \notin T => \E f \in [TarPlaces -> V] : Known(f, L)
  BY L \in 0 .. L
<1>3. \A p \in TarPlaces : p > L - L
  BY DEF TarPlaces
<1>4. SUFFICES ASSUME T # {} PROVE FALSE
  <2> HIDE DEF T
  <2>1. PICK f \in [TarPlaces -> V] : Known(f, L)
    BY <1>1, <1>2
  <2> QED
    BY <1>3, <2>1, Zenon DEF Walks
<1>5. T \subseteq Nat
  OBVIOUS
<1>6. PICK n \in T : \A m \in T : n <= m
  BY <1>4, <1>5, NatLeast
<1>7. n \in 0 .. L
  OBVIOUS
<1>8. n # 0
  <2>1. \A p \in TarPlaces : p > L - 0 => p \in E
    OBVIOUS
  <2>2. Known(b, 0)
    BY <2>1
  <2> QED
    BY <1>6, <2>2
<1>9. n - 1 \in 0 .. L /\ n - 1 \notin T
  <2> HIDE DEF T
  <2>1. ASSUME n - 1 \in T PROVE n <= n - 1
    BY <1>6, <2>1
  <2> QED
    BY <1>7, <1>8, <2>1
<1>10. PICK g \in [TarPlaces -> V] : Known(g, n - 1)
  BY <1>9
<1> DEFINE q == L - n + 1
           v == IF q \in E THEN b[q] ELSE h[<<q, g[nx[q]]>>]
           f == [g EXCEPT ![q] = v]
<1>11. q \in TarPlaces /\ nx[q] \in TarPlaces /\ nx[q] # q
  <2>1. q \in TarPlaces
    BY <1>7 DEF TarPlaces
  <2> HIDE DEF q
  <2>2. nx[q] > q /\ nx[q] \in TarPlaces
    BY <2>1
  <2> QED
    BY <2>1, <2>2 DEF TarPlaces
<1>12. v \in V
  <2> HIDE DEF q
  <2>1. g[nx[q]] \in V /\ b[q] \in V
    BY <1>11
  <2>2. <<q, g[nx[q]]>> \in TarPlaces \X V
    BY <1>11, <2>1
  <2> QED
    BY <2>1, <2>2
<1>13. f \in [TarPlaces -> V]
  <2> HIDE DEF v, q
  <2> QED
    BY <1>12
<1>14. ASSUME NEW p \in TarPlaces, p > L - n PROVE f[p] = IF p \in E THEN b[p] ELSE h[<<p, f[nx[p]]>>]
  <2>1. CASE p = q
    <3>1. f[nx[q]] = g[nx[q]] /\ f[q] = v
      <4> HIDE DEF v, q
      <4> QED
        BY <1>11
    <3> HIDE DEF f, q
    <3> QED
      BY <2>1, <3>1
  <2>2. CASE p # q
    <3>1. p > q /\ p > L - (n - 1)
      BY <1>7, <1>14, <2>2 DEF TarPlaces
    <3>2. nx[p] > p /\ nx[p] \in TarPlaces
      OBVIOUS
    <3>3. nx[p] # q
      BY <1>7, <3>1, <3>2 DEF TarPlaces
    <3>4. f[p] = g[p] /\ f[nx[p]] = g[nx[p]]
      <4> HIDE DEF v, q
      <4> QED
        BY <2>2, <3>2, <3>3
    <3>5. g[p] = IF p \in E THEN b[p] ELSE h[<<p, g[nx[p]]>>]
      BY <1>10, <3>1
    <3> HIDE DEF f
    <3> QED
      BY <3>4, <3>5
  <2> QED
    BY <2>1, <2>2
<1>15. Known(f, n)
  <2> HIDE DEF f
  <2> QED
    BY <1>14
<1> HIDE DEF f, Known
<1> QED
  BY <1>6, <1>13, <1>15

\* What such a walk ends with holds of what it computes on the way.
LEMMA WalkKeeps ==
  ASSUME NEW L \in Nat, NEW V, NEW K, NEW E, \A p \in TarPlaces : p > L => p \in E,
         NEW nx \in [TarPlaces -> TarPlaces], \A p \in TarPlaces : nx[p] > p,
         \A p \in TarPlaces : p \in E => K[p] \in V,
         \A p \in TarPlaces : p \notin E /\ K[nx[p]] \in V => K[p] \in V
  PROVE  \A p \in TarPlaces : K[p] \in V
<1> DEFINE T == {n \in 0 .. L : \E p \in TarPlaces : p > L - n /\ K[p] \notin V}
<1>1. SUFFICES T = {}
  <2>1. L \in 0 .. L /\ \A p \in TarPlaces : p > L - L
    BY DEF TarPlaces
  <2> QED
    BY <2>1
<1>2. SUFFICES ASSUME T # {} PROVE FALSE
  OBVIOUS
<1>3. T \subseteq Nat
  OBVIOUS
<1>4. PICK n \in T : \A m \in T : n <= m
  BY <1>2, <1>3, NatLeast
<1>5. PICK p \in TarPlaces : p > L - n /\ K[p] \notin V
  OBVIOUS
<1>6. n \in 0 .. L /\ p \notin E
  <2>1. n \in 0 .. L
    OBVIOUS
  <2> QED
    BY <1>5, <2>1
<1>7. n # 0
  <2>1. p > L - 0 => p \in E
    OBVIOUS
  <2> QED
    BY <1>5, <1>6, <2>1
<1>8. n - 1 \in 0 .. L /\ n - 1 \notin T
  <2> HIDE DEF T
  <2>1. ASSUME n - 1 \in T PROVE n <= n - 1
    BY <1>4, <2>1
  <2> QED
    BY <1>6, <1>7, <2>1
<1>9. nx[p] \in TarPlaces /\ nx[p] > L - (n - 1)
  <2>1. nx[p] \in TarPlaces /\ nx[p] > p
    OBVIOUS
  <2> QED
    BY <1>5, <1>6, <2>1 DEF TarPlaces
<1>10. K[nx[p]] \in V
  BY <1>8, <1>9
<1> QED
  BY <1>5, <1>6, <1>10

\* Where the members of the list lie.
Laid(at) ==
  /\ at \in [1 .. Len(tarList) + 1 -> TarPlaces] /\ at[1] = 1
  /\ \A k \in 1 .. Len(tarList) :
       /\ at[k] <= Len(tarArch) /\ tarArch[at[k]] = Header(tarList[k][1], tarList[k][2])
       /\ at[k + 1] = at[k] + 1 + Blocks(tarList[k][2])
       /\ \A i \in at[k] + 1 .. at[k + 1] - 1 : i <= Len(tarArch) /\ tarArch[i] = DataOf(tarList[k][1])
Ordered == tarArch \in Seq(TarBlock) /\ tarList \in Seq(TarMembers)
Behind(at) == at[Len(tarList) + 1]

\* One step of a walk from header to header.
LEMMA PastIs ==
  ASSUME Ordered, NEW p \in TarPlaces
  PROVE  ~TarEnds(p) => Past(p) \in TarPlaces /\ Past(p) > p
<1> SUFFICES ASSUME ~TarEnds(p) PROVE Past(p) \in TarPlaces /\ Past(p) > p
  OBVIOUS
<1>1. tarArch \in Seq(TarBlock) /\ Len(tarArch) \in Nat /\ p \in 1 .. Len(tarArch)
  <2>1. tarArch \in Seq(TarBlock) /\ Len(tarArch) \in Nat
    BY LenProperties DEF Ordered
  <2>2. ~(p > Len(tarArch))
    BY Zenon DEF TarEnds
  <2> QED
    BY <2>1, <2>2 DEF TarPlaces
<1>2. tarArch[p] \in TarBlock
  BY <1>1, ElementOfSeq
<1>3. tarArch[p].size \in Nat
  <2>1. Zero.size = 0 /\ \A f : DataOf(f).size = 0 /\ \A n : Header(f, n).size = n
    BY DEF Zero, DataOf, Header
  <2> DEFINE c == tarArch[p]
  <2>2. c = Zero \/ (\E f \in TarFiles : c = DataOf(f)) \/ (\E f \in TarFiles, n \in Nat : c = Header(f, n))
    BY <1>2 DEF TarBlock
  <2> HIDE DEF c
  <2>3. c.size \in Nat
    BY <2>1, <2>2
  <2> QED
    BY <2>3 DEF c
<1>4. Blocks(tarArch[p].size) \in Nat
  BY <1>3, BlocksIs
<1> QED
  BY <1>4 DEF Past, TarPlaces

LEMMA MembersAt ==
  ASSUME Ordered, NEW at, Laid(at)
  PROVE  /\ \A k \in 1 .. Len(tarList) :
              /\ at[k] \in TarPlaces /\ ~TarEnds(at[k]) /\ Past(at[k]) = at[k + 1] /\ Extracted(at[k]) = tarList[k]
         /\ Behind(at) \in TarPlaces
<1> DEFINE n == Len(tarList)
<1>1. n \in Nat /\ Len(tarArch) \in Nat
  BY LenProperties DEF Ordered
<1>2. ASSUME NEW k \in 1 .. n
      PROVE  at[k] \in TarPlaces /\ ~TarEnds(at[k]) /\ Past(at[k]) = at[k + 1] /\ Extracted(at[k]) = tarList[k]
  <2>1. tarList[k] \in TarMembers
    BY ElementOfSeq DEF Ordered
  <2>2. tarList[k] = <<tarList[k][1], tarList[k][2]>> /\ tarList[k][1] \in TarFiles /\ tarList[k][2] \in Nat
    BY <2>1 DEF TarMembers
  <2> DEFINE a == at[k]
             c == at[k + 1]
             f == tarList[k][1]
             z == tarList[k][2]
  <2>3. /\ a \in TarPlaces /\ a <= Len(tarArch) /\ tarArch[a] = Header(f, z) /\ c = a + 1 + Blocks(z)
        /\ \A i \in a + 1 .. c - 1 : i <= Len(tarArch) /\ tarArch[i] = DataOf(f)
    <3>1. k \in 1 .. n + 1
      BY <1>1
    <3> QED
      BY <3>1, Zenon DEF Laid
  <2> HIDE DEF a, c, f, z
  <2>4. tarArch[a].kind = "head" /\ tarArch[a].path = f /\ tarArch[a].size = z
    BY <2>3 DEF Header
  <2>5. f # "" /\ z \in Nat /\ f \in TarFiles
    BY <2>2, TarAssumption DEF TarAssumption, f, z
  <2>6. ~TarEnds(a)
    <3>1. ~(a > Len(tarArch))
      BY <1>1, <2>3 DEF TarPlaces
    <3>2. tarArch[a].path # ""
      BY <2>4, <2>5
    <3> QED
      BY <3>1, <3>2, Zenon DEF TarEnds
  <2>7. Past(a) = c
    BY <2>3, <2>4 DEF Past
  <2>8. a + Blocks(z) = c - 1
    <3>1. Blocks(z) \in Nat
      BY <2>5, BlocksIs
    <3> QED
      BY <2>3, <3>1 DEF TarPlaces
  <2>9. Extracted(a) = <<f, z>>
    BY <2>3, <2>4, <2>8 DEF Extracted
  <2> QED
    BY <2>2, <2>3, <2>6, <2>7, <2>9 DEF a, c, f, z
<1>3. Behind(at) \in TarPlaces
  <2>1. n + 1 \in 1 .. n + 1
    BY <1>1
  <2> QED
    BY <2>1 DEF Laid, Behind
<1> QED
  BY <1>2, <1>3

\* What a header leads to; sequences of that are put together in any order.
TarRead == {Extracted(p) : p \in TarPlaces} \cup TarMembers
LEMMA ReadAssociative ==
  \A s, t, u \in Seq(TarRead) : (s \o t) \o u = s \o (t \o u)
BY ConcatAssociative

\* What is read back is the list, and what there may be behind it.
LEMMA RtarIs ==
  ASSUME Ordered, NEW at, Laid(at)
  PROVE  \E rest \in Seq(TarRead) : Rtar = tarList \o rest /\ (TarEnds(Behind(at)) => rest = <<>>)
<1> DEFINE n == Len(tarList)
           V == Seq(TarRead)
           K == CHOOSE read : read = [p \in TarPlaces |-> IF TarEnds(p) THEN <<>> ELSE <<Extracted(p)>> \o read[Past(p)]]
           E == {p \in TarPlaces : TarEnds(p)}
           nx == [p \in TarPlaces |-> IF TarEnds(p) THEN p + 1 ELSE Past(p)]
           b == [p \in TarPlaces |-> <<>>]
           h == [x \in TarPlaces \X V |-> <<Extracted(x[1])>> \o x[2]]
<1>0. n \in Nat /\ Len(tarArch) \in Nat /\ tarList \in Seq(TarMembers)
  BY LenProperties DEF Ordered
<1>1. Rtar = K[1]
  BY DEF Rtar, TarPlaces
<1>2. \E f : f = [p \in TarPlaces |-> IF TarEnds(p) THEN <<>> ELSE <<Extracted(p)>> \o f[Past(p)]]
  <2>1. \A p \in TarPlaces : p > Len(tarArch) => p \in E
    BY DEF TarEnds
  <2>2. nx \in [TarPlaces -> TarPlaces] /\ \A p \in TarPlaces : nx[p] > p
    <3>1. \A p \in TarPlaces : p + 1 \in TarPlaces /\ p + 1 > p
      BY DEF TarPlaces
    <3> QED
      BY <3>1, PastIs
  <2>3. b \in [TarPlaces -> V]
    BY EmptySeq
  <2>4. h \in [TarPlaces \X V -> V]
    <3>1. ASSUME NEW x \in TarPlaces \X V PROVE <<Extracted(x[1])>> \o x[2] \in V
      <4>1. x[1] \in TarPlaces /\ x[2] \in V
        OBVIOUS
      <4>2. <<Extracted(x[1])>> \in V
        BY <4>1 DEF TarRead
      <4> QED
        BY <4>1, <4>2, ConcatProperties
    <3> QED
      BY <3>1, Zenon
  <2>5. \A p \in TarPlaces : nx[p] \in TarPlaces /\ (~TarEnds(p) => nx[p] = Past(p)) /\ b[p] = <<>> /\ (p \in E <=> TarEnds(p))
    BY <2>2
  <2>6. \A p \in TarPlaces, s \in V : h[<<p, s>>] = <<Extracted(p)>> \o s
    OBVIOUS
  <2> HIDE DEF E, nx, b, h, V
  <2>7. PICK f \in [TarPlaces -> V] : Walks(f, E, nx, b, h)
    <3> DEFINE L == Len(tarArch)
    <3>1. L \in Nat /\ \A p \in TarPlaces : p > L => p \in E
      BY <1>0, <2>1
    <3> HIDE DEF L
    <3> QED
      BY ONLY <2>2, <2>3, <2>4, <3>1, WalkExists
  <2>8. ASSUME NEW p \in TarPlaces PROVE f[p] = IF TarEnds(p) THEN <<>> ELSE <<Extracted(p)>> \o f[Past(p)]
    <3>1. f[nx[p]] \in V
      BY <2>5
    <3>2. f[p] = IF p \in E THEN b[p] ELSE h[<<p, f[nx[p]]>>]
      BY <2>7, Zenon DEF Walks
    <3>3. h[<<p, f[nx[p]]>>] = <<Extracted(p)>> \o f[nx[p]]
      BY <2>6, <3>1, Zenon
    <3>4. CASE TarEnds(p)
      BY <2>5, <3>2, <3>4, Zenon
    <3>5. CASE ~TarEnds(p)
      BY <2>5, <3>2, <3>3, <3>5, Zenon
    <3> QED
      BY <3>4, <3>5
  <2>9. f = [p \in TarPlaces |-> f[p]]
    OBVIOUS
  <2> QED
    BY <2>8, <2>9, Zenon
<1>3. K = [p \in TarPlaces |-> IF TarEnds(p) THEN <<>> ELSE <<Extracted(p)>> \o K[Past(p)]]
  BY <1>2 DEF K
<1> HIDE DEF K, E, nx, b, h, V
<1>4. \A p \in TarPlaces : K[p] = IF TarEnds(p) THEN <<>> ELSE <<Extracted(p)>> \o K[Past(p)]
  BY <1>3, Zenon
<1>8. \A p \in TarPlaces : K[p] \in V
  <2>1. nx \in [TarPlaces -> TarPlaces] /\ \A p \in TarPlaces : nx[p] > p
    <3>1. \A p \in TarPlaces : p + 1 \in TarPlaces /\ p + 1 > p
      BY DEF TarPlaces
    <3> QED
      BY <3>1, PastIs DEF nx
  <2>2. \A p \in TarPlaces : p > Len(tarArch) => p \in E
    BY DEF TarEnds, E
  <2>3. \A p \in TarPlaces : p \in E => K[p] \in V
    <3>1. <<>> \in V
      BY EmptySeq DEF V
    <3> QED
      BY <1>4, <3>1 DEF E
  <2>4. ASSUME NEW p \in TarPlaces, p \notin E, K[nx[p]] \in V PROVE K[p] \in V
    <3>1. K[p] = <<Extracted(p)>> \o K[nx[p]]
      BY <1>4, <2>4 DEF E, nx
    <3>2. <<Extracted(p)>> \in V
      BY DEF V, TarRead
    <3> QED
      BY <2>4, <3>1, <3>2, ConcatProperties DEF V
  <2> DEFINE M == Len(tarArch)
  <2>5. M \in Nat /\ \A p \in TarPlaces : p > M => p \in E
    BY <1>0, <2>2
  <2> HIDE DEF M
  <2> QED
    BY ONLY <2>1, <2>3, <2>4, <2>5, WalkKeeps
<1> DEFINE R == K[Behind(at)]
           T == {j \in 0 .. n : K[at[n + 1 - j]] # SubSeq(tarList, n + 1 - j, n) \o R}
<1>9. R \in V /\ (TarEnds(Behind(at)) => R = <<>>)
  BY <1>4, <1>8, MembersAt
<1>10. tarList \in V /\ V = Seq(TarRead)
  BY <1>0, SeqMonotonic DEF V, TarRead
<1> HIDE DEF R
<1>5. T = {}
  <2>1. SUFFICES ASSUME T # {} PROVE FALSE
    OBVIOUS
  <2>2. T \subseteq Nat
    OBVIOUS
  <2>3. PICK j \in T : \A m \in T : j <= m
    BY <2>1, <2>2, NatLeast
  <2>4. j \in 0 .. n
    OBVIOUS
  <2>5. CASE j = 0
    <3>1. K[at[n + 1]] = R
      BY DEF R, Behind
    <3>2. n + 1 - j = n + 1
      BY <1>0, <2>5
    <3>3. SubSeq(tarList, n + 1, n) = <<>>
      BY <1>0, SubSeqEmpty
    <3>4. <<>> \o R = R
      BY <1>9, <1>10, ConcatEmptySeq
    <3> QED
      BY <2>3, <3>1, <3>2, <3>3, <3>4
  <2>6. CASE j # 0
    <3> DEFINE k == n + 1 - j
    <3>1. k \in 1 .. n /\ j - 1 \in 0 .. n /\ n + 1 - (j - 1) = k + 1 /\ n \in k .. n
      BY <1>0, <2>4, <2>6
    <3>2. j - 1 \notin T
      <4> HIDE DEF T
      <4>1. ASSUME j - 1 \in T PROVE j <= j - 1
        BY <2>3, <4>1
      <4> QED
        BY <2>4, <4>1
    <3>3. K[at[k + 1]] = SubSeq(tarList, k + 1, n) \o R
      BY <3>1, <3>2
    <3> HIDE DEF k
    <3>4. at[k] \in TarPlaces /\ ~TarEnds(at[k]) /\ Past(at[k]) = at[k + 1] /\ Extracted(at[k]) = tarList[k]
      BY <3>1, MembersAt
    <3>5. K[at[k]] = <<tarList[k]>> \o (SubSeq(tarList, k + 1, n) \o R)
      BY <1>4, <3>3, <3>4
    <3>6. SubSeq(tarList, k, n) = <<tarList[k]>> \o SubSeq(tarList, k + 1, n)
      BY <1>0, <3>1, SubSeqRecursiveFirst
    <3>7. <<tarList[k]>> \in V /\ SubSeq(tarList, k + 1, n) \in V
      <4>1. \A i \in 1 .. n : tarList[i] \in TarRead
        BY <1>10, ElementOfSeq
      <4>2. \A i \in k + 1 .. n : i \in 1 .. n
        BY <3>1
      <4>3. k + 1 \in Int /\ n \in Int
        BY <1>0, <3>1
      <4> HIDE DEF n
      <4>4. SubSeq(tarList, k + 1, n) \in Seq(TarRead)
        BY <4>1, <4>2, <4>3, SubSeqProperties
      <4> QED
        BY <1>10, <3>1, <4>1, <4>4
    <3>8. K[at[k]] = SubSeq(tarList, k, n) \o R
      <4> DEFINE s == <<tarList[k]>>
                 t == SubSeq(tarList, k + 1, n)
      <4>1. s \in Seq(TarRead) /\ t \in Seq(TarRead) /\ R \in Seq(TarRead)
        BY <1>9, <1>10, <3>7
      <4> HIDE DEF s, t
      <4>2. (s \o t) \o R = s \o (t \o R)
        BY <4>1, ReadAssociative, Zenon
      <4> QED
        BY <3>5, <3>6, <4>2, Zenon DEF s, t
    <3> QED
      BY <2>3, <3>8 DEF k
  <2> QED
    BY <2>5, <2>6
<1>6. K[at[1]] = SubSeq(tarList, 1, n) \o R
  <2>1. n \in 0 .. n /\ n + 1 - n = 1
    BY <1>0
  <2>2. n \notin T
    BY <1>5
  <2> QED
    BY <2>1, <2>2
<1>7. at[1] = 1 /\ SubSeq(tarList, 1, n) = tarList
  BY <1>0, SubSeqFull DEF Laid
<1> QED
  BY <1>1, <1>6, <1>7, <1>9, <1>10

\* append begins somewhere, and behind the last member if nothing follows it.
LEMMA EndOfIs ==
  ASSUME Ordered
  PROVE  /\ EndOf \in TarPlaces
         /\ \A at : Laid(at) /\ TarEnds(Behind(at)) => EndOf = Behind(at)
<1> DEFINE n == Len(tarList)
           K == CHOOSE end : end = [p \in TarPlaces |-> IF TarEnds(p) THEN p ELSE end[Past(p)]]
           E == {p \in TarPlaces : TarEnds(p)}
           nx == [p \in TarPlaces |-> IF TarEnds(p) THEN p + 1 ELSE Past(p)]
           b == [p \in TarPlaces |-> p]
           h == [x \in TarPlaces \X TarPlaces |-> x[2]]
<1>0. n \in Nat /\ Len(tarArch) \in Nat
  BY LenProperties DEF Ordered
<1>1. EndOf = K[1]
  BY DEF EndOf, TarPlaces
<1>2. \E f : f = [p \in TarPlaces |-> IF TarEnds(p) THEN p ELSE f[Past(p)]]
  <2>1. \A p \in TarPlaces : p > Len(tarArch) => p \in E
    BY DEF TarEnds
  <2>2. nx \in [TarPlaces -> TarPlaces] /\ \A p \in TarPlaces : nx[p] > p
    <3>1. \A p \in TarPlaces : p + 1 \in TarPlaces /\ p + 1 > p
      BY DEF TarPlaces
    <3> QED
      BY <3>1, PastIs
  <2>3. b \in [TarPlaces -> TarPlaces]
    OBVIOUS
  <2>4. h \in [TarPlaces \X TarPlaces -> TarPlaces]
    OBVIOUS
  <2>5. \A p \in TarPlaces : nx[p] \in TarPlaces /\ (~TarEnds(p) => nx[p] = Past(p)) /\ b[p] = p /\ (p \in E <=> TarEnds(p))
    BY <2>2
  <2>6. \A p \in TarPlaces, s \in TarPlaces : h[<<p, s>>] = s
    OBVIOUS
  <2> HIDE DEF E, nx, b, h
  <2>7. PICK f \in [TarPlaces -> TarPlaces] : Walks(f, E, nx, b, h)
    <3> DEFINE L == Len(tarArch)
    <3>1. L \in Nat /\ \A p \in TarPlaces : p > L => p \in E
      BY <1>0, <2>1
    <3> HIDE DEF L
    <3> QED
      BY ONLY <2>2, <2>3, <2>4, <3>1, WalkExists
  <2>8. ASSUME NEW p \in TarPlaces PROVE f[p] = IF TarEnds(p) THEN p ELSE f[Past(p)]
    <3>1. f[nx[p]] \in TarPlaces /\ h[<<p, f[nx[p]]>>] = f[nx[p]]
      <4>1. f[nx[p]] \in TarPlaces
        BY <2>5
      <4> QED
        BY <2>6, <4>1
    <3>2. f[p] = IF p \in E THEN b[p] ELSE h[<<p, f[nx[p]]>>]
      BY <2>7, Zenon DEF Walks
    <3> QED
      BY <2>5, <3>1, <3>2
  <2>9. f = [p \in TarPlaces |-> f[p]]
    OBVIOUS
  <2> QED
    BY <2>8, <2>9, Zenon
<1>3. K = [p \in TarPlaces |-> IF TarEnds(p) THEN p ELSE K[Past(p)]]
  BY <1>2 DEF K
<1> HIDE DEF K, E, nx, b, h
<1>4. \A p \in TarPlaces : K[p] = IF TarEnds(p) THEN p ELSE K[Past(p)]
  BY <1>3, Zenon
<1>5. \A p \in TarPlaces : K[p] \in TarPlaces
  <2>1. nx \in [TarPlaces -> TarPlaces] /\ \A p \in TarPlaces : nx[p] > p
    <3>1. \A p \in TarPlaces : p + 1 \in TarPlaces /\ p + 1 > p
      BY DEF TarPlaces
    <3> QED
      BY <3>1, PastIs DEF nx
  <2>2. \A p \in TarPlaces : p > Len(tarArch) => p \in E
    BY DEF TarEnds, E
  <2>3. \A p \in TarPlaces : p \in E => K[p] \in TarPlaces
    BY <1>4 DEF E
  <2>4. ASSUME NEW p \in TarPlaces, p \notin E, K[nx[p]] \in TarPlaces PROVE K[p] \in TarPlaces
    BY <1>4, <2>4 DEF E, nx
  <2> DEFINE M == Len(tarArch)
  <2>5. M \in Nat /\ \A p \in TarPlaces : p > M => p \in E
    BY <1>0, <2>2
  <2> HIDE DEF M
  <2> QED
    BY ONLY <2>1, <2>3, <2>4, <2>5, WalkKeeps
<1>6. 1 \in TarPlaces
  BY DEF TarPlaces
<1> SUFFICES ASSUME NEW at, Laid(at), TarEnds(Behind(at)) PROVE EndOf = Behind(at)
  BY <1>1, <1>5, <1>6
<1>8. TarEnds(Behind(at))
  OBVIOUS
<1> DEFINE T == {j \in 0 .. n : K[at[n + 1 - j]] # at[n + 1]}
<1>9. T = {}
  <2>1. SUFFICES ASSUME T # {} PROVE FALSE
    OBVIOUS
  <2>2. T \subseteq Nat
    OBVIOUS
  <2>3. PICK j \in T : \A m \in T : j <= m
    BY <2>1, <2>2, NatLeast
  <2>4. j \in 0 .. n
    OBVIOUS
  <2>5. CASE j = 0
    <3>1. K[at[n + 1]] = at[n + 1]
      BY <1>4, <1>8, MembersAt DEF Behind
    <3>2. n + 1 - j = n + 1
      BY <1>0, <2>5
    <3> QED
      BY <2>3, <3>1, <3>2
  <2>6. CASE j # 0
    <3> DEFINE k == n + 1 - j
    <3>1. k \in 1 .. n /\ j - 1 \in 0 .. n /\ n + 1 - (j - 1) = k + 1
      BY <1>0, <2>4, <2>6
    <3>2. j - 1 \notin T
      <4> HIDE DEF T
      <4>1. ASSUME j - 1 \in T PROVE j <= j - 1
        BY <2>3, <4>1
      <4> QED
        BY <2>4, <4>1
    <3>3. K[at[k + 1]] = at[n + 1]
      BY <3>1, <3>2
    <3> HIDE DEF k
    <3>4. at[k] \in TarPlaces /\ ~TarEnds(at[k]) /\ Past(at[k]) = at[k + 1]
      BY <3>1, MembersAt
    <3>5. K[at[k]] = at[n + 1]
      BY <1>4, <3>3, <3>4
    <3> QED
      BY <2>3, <3>5 DEF k
  <2> QED
    BY <2>5, <2>6
<1>10. K[at[1]] = at[n + 1]
  <2>1. n \in 0 .. n /\ n + 1 - n = 1
    BY <1>0
  <2>2. n \notin T
    BY <1>9
  <2> QED
    BY <2>1, <2>2
<1>11. at[1] = 1
  BY DEF Laid
<1> QED
  BY <1>1, <1>10, <1>11 DEF Behind

\* The members lie one behind the other.
LEMMA AtOrder ==
  ASSUME Ordered, NEW at, Laid(at), NEW k \in 1 .. Len(tarList)
  PROVE  at[k] \in TarPlaces /\ at[k + 1] \in TarPlaces /\ at[k + 1] <= at[Len(tarList) + 1]
<1> DEFINE n == Len(tarList)
           T == {j \in 0 .. n : ~(at[n + 1 - j] <= at[n + 1])}
<1>1. n \in Nat
  BY LenProperties DEF Ordered
<1>2. \A i \in 1 .. n + 1 : at[i] \in Nat /\ at[i] \in TarPlaces
  BY DEF Laid, TarPlaces
<1>3. \A i \in 1 .. n : at[i] <= at[i + 1]
  <2> SUFFICES ASSUME NEW i \in 1 .. n PROVE at[i] <= at[i + 1]
    OBVIOUS
  <2>1. i \in 1 .. n + 1 /\ tarList[i][2] \in Nat
    BY <1>1, ElementOfSeq DEF Ordered, TarMembers
  <2>2. at[i + 1] = at[i] + 1 + Blocks(tarList[i][2])
    BY Zenon DEF Laid
  <2> QED
    <3>1. at[i] \in Nat /\ Blocks(tarList[i][2]) \in Nat
      BY <1>2, <2>1, BlocksIs
    <3> QED
      BY <2>2, <3>1
<1>4. T = {}
  <2>1. SUFFICES ASSUME T # {} PROVE FALSE
    OBVIOUS
  <2>2. T \subseteq Nat
    OBVIOUS
  <2>3. PICK j \in T : \A m \in T : j <= m
    BY <2>1, <2>2, NatLeast
  <2>4. j \in 0 .. n
    OBVIOUS
  <2>5. j # 0
    <3>1. n + 1 \in 1 .. n + 1 /\ n + 1 - 0 = n + 1
      BY <1>1
    <3> QED
      BY <1>2, <2>3, <3>1
  <2>6. j - 1 \notin T
    <3> HIDE DEF T
    <3>1. ASSUME j - 1 \in T PROVE j <= j - 1
      BY <2>3, <3>1
    <3> QED
      BY <2>4, <3>1
  <2> DEFINE i == n + 1 - j
  <2>7. i \in 1 .. n /\ n + 1 - (j - 1) = i + 1 /\ j - 1 \in 0 .. n /\ i \in 1 .. n + 1 /\ i + 1 \in 1 .. n + 1
        /\ n + 1 \in 1 .. n + 1
    BY <1>1, <2>4, <2>5
  <2>8. at[i + 1] <= at[n + 1]
    BY <2>6, <2>7
  <2>9. ~(at[i] <= at[n + 1])
    BY <2>3
  <2> HIDE DEF i, T
  <2> QED
    <3>1. at[i] \in Nat /\ at[i + 1] \in Nat /\ at[n + 1] \in Nat /\ at[i] <= at[i + 1]
      BY <1>2, <1>3, <2>7
    <3> QED
      BY <2>8, <2>9, <3>1
<1>5. k \in 1 .. n + 1 /\ k + 1 \in 1 .. n + 1 /\ n - k \in 0 .. n /\ n + 1 - (n - k) = k + 1
  BY <1>1
<1>6. n - k \notin T
  BY <1>4
<1> QED
  BY <1>2, <1>5, <1>6

----------------------------------------------------------------------------
\* What the archive is after a write.
LEMMA WrittenIs ==
  ASSUME Ordered, NEW p \in TarPlaces, NEW s \in Seq(TarBlock)
  PROVE  LET w == TarWritten(p, s)
         IN /\ w \in Seq(TarBlock) /\ Len(w) \in Nat /\ Len(w) >= Len(tarArch) /\ Len(w) >= p + Len(s) - 1
            /\ \A i \in 1 .. Len(w) : (i >= p + Len(s) \/ i < p) => w[i] = IF i <= Len(tarArch) THEN tarArch[i] ELSE Zero
            /\ \A j \in 1 .. Len(s) : w[p + j - 1] = s[j]
<1> DEFINE L == Len(tarArch)
           M == Len(s)
           N == IF p - 1 + M > L THEN p - 1 + M ELSE L
           w == TarWritten(p, s)
<1>1. L \in Nat /\ M \in Nat /\ p \in Nat /\ p >= 1 /\ tarArch \in Seq(TarBlock)
  BY LenProperties DEF Ordered, TarPlaces
<1>2. w = [i \in 1 .. N |-> IF i >= p /\ i < p + M THEN s[i - p + 1] ELSE IF i <= L THEN tarArch[i] ELSE Zero]
  BY DEF TarWritten
<1> HIDE DEF w
<1>3. N \in Nat /\ N >= L /\ N >= p + M - 1
  <2> HIDE DEF L, M
  <2> QED
    BY <1>1
<1>4. \A i \in 1 .. N : i >= p /\ i < p + M => i - p + 1 \in 1 .. M
  <2> HIDE DEF L, M
  <2> QED
    BY <1>1
<1>5. \A j \in 1 .. M : p + j - 1 \in 1 .. N /\ p + j - 1 >= p /\ p + j - 1 < p + M /\ (p + j - 1) - p + 1 = j
  <2> HIDE DEF L, M
  <2> QED
    BY <1>1
<1> HIDE DEF N
<1>6. ASSUME NEW i \in 1 .. N PROVE w[i] \in TarBlock
  <2>1. CASE i >= p /\ i < p + M
    <3>1. w[i] = s[i - p + 1] /\ i - p + 1 \in 1 .. Len(s)
      BY <1>2, <1>4, <2>1 DEF M
    <3> QED
      BY <3>1, ElementOfSeq
  <2>2. CASE ~(i >= p /\ i < p + M) /\ i <= L
    <3>1. w[i] = tarArch[i] /\ i \in 1 .. Len(tarArch)
      BY <1>1, <1>2, <1>3, <2>2 DEF L
    <3> QED
      BY <1>1, <3>1, ElementOfSeq
  <2>3. CASE ~(i >= p /\ i < p + M) /\ ~(i <= L)
    BY <1>2, <2>3 DEF TarBlock
  <2> QED
    BY <2>1, <2>2, <2>3
<1>7. w \in Seq(TarBlock) /\ Len(w) = N
  <2>1. w \in [1 .. N -> TarBlock]
    <3>1. w = [i \in 1 .. N |-> w[i]]
      BY <1>2
    <3> QED
      BY <1>6, <3>1, Zenon
  <2> QED
    BY <1>3, <2>1
<1>8. ASSUME NEW i \in 1 .. N, i >= p + M \/ i < p PROVE w[i] = IF i <= L THEN tarArch[i] ELSE Zero
  <2>1. ~(i >= p /\ i < p + M)
    BY <1>1, <1>8
  <2> QED
    BY <1>2, <2>1, Zenon
<1>9. ASSUME NEW j \in 1 .. M PROVE w[p + j - 1] = s[j]
  BY <1>2, <1>5
<1> QED
  BY <1>3, <1>7, <1>8, <1>9 DEF L, M, w

\* A write behind the members changes none of them.
LEMMA MembersStay ==
  ASSUME Ordered, NEW at, Laid(at), NEW w, Len(w) \in Nat, NEW k \in 1 .. Len(tarList),
         \A i \in 1 .. Len(tarArch) : i < at[Len(tarList) + 1] => i \in 1 .. Len(w) /\ w[i] = tarArch[i]
  PROVE  /\ at[k] <= Len(w) /\ w[at[k]] = Header(tarList[k][1], tarList[k][2])
         /\ at[k + 1] = at[k] + 1 + Blocks(tarList[k][2])
         /\ \A i \in at[k] + 1 .. at[k + 1] - 1 : i <= Len(w) /\ w[i] = DataOf(tarList[k][1])
<1> DEFINE L == Len(tarArch)
           p == at[Len(tarList) + 1]
           a == at[k]
           c == at[k + 1]
<1>0. /\ L \in Nat /\ p \in Nat
      /\ \A i \in 1 .. L : i < p => i <= Len(w) /\ w[i] = tarArch[i]
  <2>1. Len(tarArch) \in Nat /\ Len(tarList) \in Nat
    BY LenProperties DEF Ordered
  <2>2. p \in Nat
    BY <2>1 DEF Laid, TarPlaces
  <2> QED
    BY <2>1, <2>2
<1>1. /\ a <= L /\ tarArch[a] = Header(tarList[k][1], tarList[k][2])
      /\ c = a + 1 + Blocks(tarList[k][2])
      /\ \A i \in a + 1 .. c - 1 : i <= L /\ tarArch[i] = DataOf(tarList[k][1])
  BY DEF Laid, L
<1>2. a \in TarPlaces /\ c \in TarPlaces /\ c <= p
  BY AtOrder DEF p
<1>3. a < c
  <2>1. tarList[k][2] \in Nat
    BY ElementOfSeq DEF Ordered, TarMembers
  <2>2. Blocks(tarList[k][2]) \in Nat /\ a \in Nat
    BY <1>2, <2>1, BlocksIs DEF TarPlaces
  <2> HIDE DEF a, c
  <2> QED
    BY <1>1, <2>2
<1> HIDE DEF a, c, p, L
<1>4. a \in 1 .. L /\ a < p
  BY <1>0, <1>1, <1>2, <1>3 DEF TarPlaces
<1>5. \A i \in a + 1 .. c - 1 : i < p /\ i >= 1
  BY <1>0, <1>2 DEF TarPlaces
<1>6. \A i \in a + 1 .. c - 1 : i \in 1 .. L
  BY <1>0, <1>1, <1>2, <1>5 DEF TarPlaces
<1>7. a <= Len(w) /\ w[a] = tarArch[a]
  BY <1>0, <1>4
<1>8. \A i \in a + 1 .. c - 1 : i <= Len(w) /\ w[i] = tarArch[i]
  BY <1>0, <1>5, <1>6
<1> QED
  BY <1>1, <1>7, <1>8 DEF a, c

\* Where the members are depends on nothing that is behind them.
LEMMA LaidStays ==
  ASSUME Ordered, Ordered', NEW at, Laid(at), tarList' = tarList,
         \A i \in 1 .. Len(tarArch) : i < Behind(at) => i \in 1 .. Len(tarArch') /\ tarArch'[i] = tarArch[i]
  PROVE  Laid(at)' /\ Behind(at)' = Behind(at)
<1> DEFINE w == tarArch'
           n == Len(tarList)
<1>1. Len(w) \in Nat
  BY LenProperties DEF Ordered
<1>2. \A i \in 1 .. Len(tarArch) : i < at[Len(tarList) + 1] => i \in 1 .. Len(w) /\ w[i] = tarArch[i]
  BY DEF Behind
<1> HIDE DEF w
<1>3. ASSUME NEW k \in 1 .. n
      PROVE  /\ at[k] <= Len(w) /\ w[at[k]] = Header(tarList[k][1], tarList[k][2])
             /\ at[k + 1] = at[k] + 1 + Blocks(tarList[k][2])
             /\ \A i \in at[k] + 1 .. at[k + 1] - 1 : i <= Len(w) /\ w[i] = DataOf(tarList[k][1])
  <2>1. k \in 1 .. Len(tarList) /\ Ordered /\ Laid(at)
    BY DEF n
  <2> QED
    BY ONLY <1>1, <1>2, <2>1, MembersStay
<1>4. at \in [1 .. n + 1 -> TarPlaces] /\ at[1] = 1
  BY DEF Laid
<1> QED
  BY <1>3, <1>4, Zenon DEF Laid, Behind, w, n

\* The first blocks of s are written: what is before them stays.
LEMMA PutIs ==
  ASSUME Ordered, tarPos \in TarPlaces, NEW s \in Seq(TarBlock), NEW n, PutBlocks(s, n)
  PROVE  /\ n \in 0 .. Len(s) /\ tarPos' = tarPos + n /\ tarPos' \in TarPlaces
         /\ tarArch' \in Seq(TarBlock) /\ (n = 0 => tarArch' = tarArch)
         /\ \A i \in 1 .. Len(tarArch) : i < tarPos => i \in 1 .. Len(tarArch') /\ tarArch'[i] = tarArch[i]
         /\ n # 0 => tarArch' = TarWritten(tarPos, SubSeq(s, 1, n))
         /\ SubSeq(s, 1, n) \in Seq(TarBlock) /\ Len(SubSeq(s, 1, n)) = n
         /\ \A i \in 1 .. n : SubSeq(s, 1, n)[i] = s[i]
<1>1. n \in 0 .. Len(s) /\ tarPos' = tarPos + n /\ Len(s) \in Nat /\ Len(tarArch) \in Nat
  BY LenProperties DEF PutBlocks, Ordered
<1>2. tarPos' \in TarPlaces
  BY <1>1 DEF TarPlaces
<1> DEFINE t == SubSeq(s, 1, n)
<1>3. t \in Seq(TarBlock) /\ Len(t) = n /\ \A i \in 1 .. n : t[i] = s[i]
  <2>1. \A i \in 1 .. n : i \in 1 .. Len(s) /\ s[i] \in TarBlock
    <3>1. \A i \in 1 .. n : i \in 1 .. Len(s)
      BY <1>1
    <3> QED
      BY <3>1, ElementOfSeq
  <2>2. /\ t \in Seq(TarBlock) /\ Len(t) = (IF 1 <= n THEN n - 1 + 1 ELSE 0)
        /\ \A i \in 1 .. n - 1 + 1 : t[i] = s[1 + i - 1]
    <3>1. 1 \in Int /\ n \in Int
      BY <1>1
    <3> QED
      BY <2>1, <3>1, SubSeqProperties
  <2> HIDE DEF t
  <2> QED
    BY <1>1, <2>2
<1> HIDE DEF t
<1>4. CASE n = 0
  <2>1. tarArch' = tarArch
    BY <1>4 DEF PutBlocks
  <2> QED
    BY <1>1, <1>2, <1>3, <1>4, <2>1 DEF Ordered, t
<1>5. CASE n # 0
  <2>1. tarArch' = TarWritten(tarPos, t)
    BY <1>5 DEF PutBlocks, t
  <2> DEFINE w == TarWritten(tarPos, t)
  <2>2. /\ w \in Seq(TarBlock) /\ Len(w) \in Nat /\ Len(w) >= Len(tarArch)
        /\ \A i \in 1 .. Len(w) : (i >= tarPos + Len(t) \/ i < tarPos) => w[i] = IF i <= Len(tarArch) THEN tarArch[i] ELSE Zero
    BY <1>3, WrittenIs
  <2> HIDE DEF w
  <2>3. ASSUME NEW i \in 1 .. Len(tarArch), i < tarPos PROVE i \in 1 .. Len(w) /\ w[i] = tarArch[i]
    <3>1. i \in 1 .. Len(w) /\ i <= Len(tarArch)
      BY <1>1, <2>2
    <3> QED
      BY <2>2, <2>3, <3>1
  <2> QED
    BY <1>1, <1>2, <1>3, <1>5, <2>1, <2>2, <2>3 DEF t, w
<1> QED
  BY <1>4, <1>5

\* A file is stored: its header and its data become the last member.
LEMMA MemberWritten ==
  ASSUME Ordered, NEW at, Laid(at), NEW f \in TarFiles, NEW z \in Nat,
         tarArch' = TarWritten(Behind(at), <<Header(f, z)>> \o [i \in 1 .. Blocks(z) |-> DataOf(f)]),
         tarList' = Append(tarList, <<f, z>>)
  PROVE  /\ Ordered'
         /\ \E bt : /\ Laid(bt)' /\ Behind(bt)' = Behind(at) + 1 + Blocks(z)
                    /\ \A i \in 1 .. Len(tarArch') : i >= Behind(bt)' =>
                         tarArch'[i] = IF i <= Len(tarArch) THEN tarArch[i] ELSE Zero
<1> DEFINE n == Len(tarList)
           p == at[n + 1]
           B == Blocks(z)
           d == [i \in 1 .. B |-> DataOf(f)]
           s == <<Header(f, z)>> \o d
           w == tarArch'
           L == Len(tarArch)
           e == p + 1 + B
           ct == [k \in 1 .. n + 2 |-> IF k = n + 2 THEN e ELSE at[k]]
<1>1. n \in Nat /\ L \in Nat /\ tarList \in Seq(TarMembers) /\ B \in Nat
  BY LenProperties, BlocksIs DEF Ordered
<1>2. p \in TarPlaces /\ p = Behind(at) /\ p \in Nat
  BY MembersAt DEF Behind, TarPlaces
<1>3. s \in Seq(TarBlock) /\ Len(s) = B + 1 /\ s[1] = Header(f, z) /\ \A i \in 1 .. B : s[i + 1] = DataOf(f)
  <2>1. Header(f, z) \in TarBlock /\ DataOf(f) \in TarBlock
    BY DEF TarBlock
  <2>2. <<Header(f, z)>> \in Seq(TarBlock) /\ Len(<<Header(f, z)>>) = 1 /\ <<Header(f, z)>>[1] = Header(f, z)
    BY <2>1
  <2> HIDE DEF B
  <2>3. d \in Seq(TarBlock) /\ Len(d) = B /\ \A i \in 1 .. B : d[i] = DataOf(f)
    BY <1>1, <2>1
  <2> HIDE DEF d
  <2>4. /\ s \in Seq(TarBlock) /\ Len(s) = 1 + B
        /\ \A i \in 1 .. 1 + B : s[i] = IF i <= 1 THEN <<Header(f, z)>>[i] ELSE d[i - 1]
    <3>1. /\ s \in Seq(TarBlock) /\ Len(s) = Len(<<Header(f, z)>>) + Len(d)
          /\ \A i \in 1 .. Len(<<Header(f, z)>>) + Len(d) :
               s[i] = IF i <= Len(<<Header(f, z)>>) THEN <<Header(f, z)>>[i] ELSE d[i - Len(<<Header(f, z)>>)]
      BY <2>2, <2>3, ConcatProperties
    <3> HIDE DEF s
    <3> QED
      BY <2>2, <2>3, <3>1
  <2> HIDE DEF s
  <2>5. \A i \in 1 .. B : i + 1 \in 1 .. 1 + B /\ ~(i + 1 <= 1) /\ (i + 1) - 1 = i
    BY <1>1
  <2>6. 1 \in 1 .. 1 + B
    BY <1>1
  <2> QED
    BY <1>1, <2>2, <2>3, <2>4, <2>5, <2>6
<1>4. /\ w \in Seq(TarBlock) /\ Len(w) \in Nat /\ Len(w) >= L /\ Len(w) >= p + (B + 1) - 1
      /\ \A i \in 1 .. Len(w) : (i >= p + (B + 1) \/ i < p) => w[i] = IF i <= L THEN tarArch[i] ELSE Zero
      /\ \A j \in 1 .. B + 1 : w[p + j - 1] = s[j]
  <2>0. w = TarWritten(p, s)
    BY <1>2
  <2> HIDE DEF p, s, w, B
  <2>1. /\ TarWritten(p, s) \in Seq(TarBlock) /\ Len(TarWritten(p, s)) \in Nat /\ Len(TarWritten(p, s)) >= Len(tarArch)
        /\ Len(TarWritten(p, s)) >= p + Len(s) - 1
        /\ \A i \in 1 .. Len(TarWritten(p, s)) : (i >= p + Len(s) \/ i < p) =>
              TarWritten(p, s)[i] = IF i <= Len(tarArch) THEN tarArch[i] ELSE Zero
        /\ \A j \in 1 .. Len(s) : TarWritten(p, s)[p + j - 1] = s[j]
    BY <1>2, <1>3, WrittenIs DEF L
  <2> QED
    BY <1>3, <2>0, <2>1 DEF L
<1>5. /\ tarList' \in Seq(TarMembers) /\ Len(tarList') = n + 1 /\ tarList'[n + 1] = <<f, z>>
      /\ \A k \in 1 .. n : tarList'[k] = tarList[k]
  <2>1. <<f, z>> \in TarMembers
    BY DEF TarMembers
  <2> QED
    BY <1>1, <2>1, AppendProperties
<1>6. Ordered'
  BY <1>4, <1>5 DEF Ordered
<1> HIDE DEF p, w, L, s, B, d
<1>7. e \in TarPlaces /\ p \in Nat /\ p <= Len(w)
  BY <1>1, <1>2, <1>4 DEF TarPlaces
<1>8. \A i \in 1 .. L : i < p => i \in 1 .. Len(w) /\ w[i] = tarArch[i]
  <2>1. \A i \in 1 .. L : i \in 1 .. Len(w) /\ i <= L
    BY <1>1, <1>4
  <2> QED
    BY <1>4, <2>1
<1>9. \A i \in 1 .. Len(w) : i >= e => w[i] = IF i <= L THEN tarArch[i] ELSE Zero
  <2> SUFFICES ASSUME NEW i \in 1 .. Len(w), i >= e PROVE w[i] = IF i <= L THEN tarArch[i] ELSE Zero
    OBVIOUS
  <2>1. i >= p + (B + 1)
    BY <1>1, <1>2
  <2> QED
    BY <1>4, <2>1
<1>10. w[p] = Header(f, z) /\ \A i \in p + 1 .. e - 1 : i <= Len(w) /\ w[i] = DataOf(f)
  <2>1. 1 \in 1 .. B + 1 /\ p + 1 - 1 = p
    BY <1>1, <1>7
  <2>2. w[p] = Header(f, z)
    BY <1>3, <1>4, <2>1
  <2>3. ASSUME NEW i \in p + 1 .. e - 1 PROVE i <= Len(w) /\ w[i] = DataOf(f)
    <3>1. i - p \in 1 .. B /\ i - p + 1 \in 1 .. B + 1 /\ p + (i - p + 1) - 1 = i /\ i <= Len(w)
      BY <1>1, <1>4, <1>7
    <3>2. w[i] = s[i - p + 1]
      BY <1>4, <3>1
    <3> QED
      BY <1>3, <3>1, <3>2
  <2> QED
    BY <2>2, <2>3
<1>11. PICK bt :
       /\ bt \in [1 .. n + 2 -> TarPlaces] /\ bt[n + 2] = e /\ bt[n + 1] = p /\ bt[1] = 1
       /\ \A k \in 1 .. n : bt[k] = at[k] /\ bt[k + 1] = at[k + 1]
  <2>1. at \in [1 .. n + 1 -> TarPlaces] /\ at[1] = 1 /\ p = at[n + 1]
    BY DEF Laid, p
  <2> HIDE DEF e
  <2>2. \A k \in 1 .. n + 2 : k # n + 2 => k \in 1 .. n + 1
    BY <1>1
  <2>3. ct \in [1 .. n + 2 -> TarPlaces]
    BY <1>7, <2>1, <2>2
  <2>4. \A k \in 1 .. n : k \in 1 .. n + 2 /\ k # n + 2 /\ k + 1 \in 1 .. n + 2 /\ k + 1 # n + 2
    BY <1>1
  <2>5. 1 \in 1 .. n + 2 /\ 1 # n + 2 /\ n + 1 \in 1 .. n + 2 /\ n + 1 # n + 2 /\ n + 2 \in 1 .. n + 2
    BY <1>1
  <2>6. /\ ct[n + 2] = e /\ ct[n + 1] = p /\ ct[1] = 1
        /\ \A k \in 1 .. n : ct[k] = at[k] /\ ct[k + 1] = at[k + 1]
    BY <2>1, <2>4, <2>5
  <2> HIDE DEF ct
  <2> QED
    BY <2>3, <2>6
<1> HIDE DEF ct, e
<1>12. ASSUME NEW k \in 1 .. n + 1
       PROVE  /\ bt[k] <= Len(w) /\ w[bt[k]] = Header(tarList'[k][1], tarList'[k][2])
              /\ bt[k + 1] = bt[k] + 1 + Blocks(tarList'[k][2])
              /\ \A i \in bt[k] + 1 .. bt[k + 1] - 1 : i <= Len(w) /\ w[i] = DataOf(tarList'[k][1])
  <2>1. CASE k \in 1 .. n
    <3>1. /\ at[k] <= Len(w) /\ w[at[k]] = Header(tarList[k][1], tarList[k][2])
          /\ at[k + 1] = at[k] + 1 + Blocks(tarList[k][2])
          /\ \A i \in at[k] + 1 .. at[k + 1] - 1 : i <= Len(w) /\ w[i] = DataOf(tarList[k][1])
      BY <1>4, <1>8, <2>1, MembersStay DEF p, L
    <3>2. bt[k] = at[k] /\ bt[k + 1] = at[k + 1] /\ tarList'[k] = tarList[k]
      BY <1>5, <1>11, <2>1
    <3> QED
      BY <3>1, <3>2
  <2>2. CASE k = n + 1
    <3>1. k + 1 = n + 2
      BY <1>1, <2>2
    <3>2. bt[k] = p /\ bt[k + 1] = e /\ tarList'[k][1] = f /\ tarList'[k][2] = z
      BY <1>5, <1>11, <2>2, <3>1
    <3>3. e = p + 1 + Blocks(z)
      BY DEF e, B
    <3> QED
      BY <1>7, <1>10, <3>2, <3>3
  <2> QED
    BY <1>1, <2>1, <2>2
<1>13. n + 1 + 1 = n + 2
  BY <1>1
<1>14. Laid(bt)'
  <2>1. bt \in [1 .. Len(tarList') + 1 -> TarPlaces] /\ bt[1] = 1
    BY <1>5, <1>11, <1>13
  <2>2. \A k \in 1 .. Len(tarList') :
              /\ bt[k] <= Len(w) /\ w[bt[k]] = Header(tarList'[k][1], tarList'[k][2])
              /\ bt[k + 1] = bt[k] + 1 + Blocks(tarList'[k][2])
              /\ \A i \in bt[k] + 1 .. bt[k + 1] - 1 : i <= Len(w) /\ w[i] = DataOf(tarList'[k][1])
    BY <1>5, <1>12, Zenon
  <2> USE DEF w
  <2> QED
    BY <2>1, <2>2, Zenon DEF Laid
<1>15. Behind(bt)' = e /\ e = Behind(at) + 1 + Blocks(z)
  BY <1>2, <1>5, <1>11, <1>13 DEF e, B, Behind
<1> QED
  BY <1>6, <1>9, <1>14, <1>15 DEF w, L

-----------------------------------------------------------------------------
\* Unless the archive is lost, the members are laid one behind the other, and a
\* run writes behind them; as long as they are all there is, right behind the
\* last of them, and a run that is over leaves an end there.
TarInodes == {TarInode[f] : f \in TarFiles}
TarTypes ==
  /\ Ordered /\ tarSize \in [TarInodes -> Nat] /\ tarDev \in BOOLEAN /\ tarPos \in TarPlaces
  /\ tarHdr \in TarBlock /\ tarSure \in {"exact", "prefix", "lost"}
\* What is behind the members, where nothing is.
Ended(at) ==
  /\ tarPc # "idle" => tarPos = Behind(at)
  /\ tarDev \/ \A i \in 1 .. Len(tarArch) : i >= Behind(at) => tarArch[i] = Zero
  /\ tarPc = "idle" => TarEnds(Behind(at))
TarLaid ==
  \E at : /\ Laid(at) /\ (tarPc # "idle" => Behind(at) <= tarPos)
          /\ tarSure = "exact" => Ended(at)
TarInv == TarTypes /\ (tarSure = "lost" \/ TarLaid)

\* An archive of which only zeroes are behind the members has an end there.
LEMMA ZeroEnds ==
  ASSUME Ordered, NEW at, Laid(at), \A i \in 1 .. Len(tarArch) : i >= Behind(at) => tarArch[i] = Zero
  PROVE  TarEnds(Behind(at))
<1> DEFINE e == Behind(at)
<1>1. e \in TarPlaces /\ Len(tarArch) \in Nat
  BY MembersAt, LenProperties DEF Ordered
<1> HIDE DEF e
<1>2. ~(e > Len(tarArch)) => tarArch[e] = Zero
  BY <1>1 DEF TarPlaces, e
<1>3. Zero.path = ""
  BY DEF Zero
<1> QED
  BY <1>2, <1>3, Zenon DEF TarEnds, e

LEMMA LoosenedIs == Loosened # "exact" /\ (tarSure = "prefix" \/ tarSure = "exact" => Loosened = "prefix")
                    /\ (tarSure = "lost" => Loosened = "lost")
BY DEF Loosened

\* No members, wherever.
LEMMA NoMembers ==
  ASSUME tarList' = <<>>
  PROVE  \E at : Laid(at)' /\ Behind(at)' = 1
<1> DEFINE bt == [k \in 1 .. 1 |-> 1]
<1>1. PICK at : at \in [1 .. 1 -> TarPlaces] /\ at[1] = 1
  <2>1. bt \in [1 .. 1 -> TarPlaces] /\ bt[1] = 1
    BY DEF TarPlaces
  <2> QED
    BY <2>1
<1>2. Len(tarList') = 0 /\ Len(tarList') + 1 = 1 /\ 1 .. Len(tarList') = {}
  BY EmptySeq
<1>3. Laid(at)'
  BY <1>1, <1>2 DEF Laid
<1> QED
  BY <1>1, <1>2, <1>3 DEF Behind

LEMMA TarInitInv == TarInit => TarInv
<1> SUFFICES ASSUME TarInit PROVE TarInv
  OBVIOUS
<1>1. TarTypes
  <2>1. tarSize \in [TarInodes -> Nat] /\ 1 \in TarPlaces /\ Zero \in TarBlock
    BY DEF TarInit, TarInodes, TarPlaces, TarBlock
  <2>2. tarArch \in Seq(TarBlock)
    <3>1. CASE tarDev
      <4>1. TarMax \in Nat /\ tarArch = [i \in 1 .. TarMax |-> Zero]
        BY <3>1, TarAssumption DEF TarInit, TarAssumption
      <4> QED
        BY <2>1, <4>1
    <3>2. CASE ~tarDev
      BY <3>2, EmptySeq DEF TarInit
    <3> QED
      BY <3>1, <3>2
  <2> QED
    BY <2>1, <2>2, EmptySeq DEF TarInit, TarTypes, Ordered
<1>2. \A i \in 1 .. Len(tarArch) : tarArch[i] = Zero
  <2>1. CASE tarDev
    <3>1. TarMax \in Nat /\ tarArch = [i \in 1 .. TarMax |-> Zero]
      BY <2>1, TarAssumption DEF TarInit, TarAssumption
    <3> QED
      BY <3>1
  <2>2. CASE ~tarDev
    BY <2>2, EmptySeq DEF TarInit
  <2> QED
    BY <2>1, <2>2
<1>3. \E at : Laid(at) /\ Behind(at) = 1
  <2> DEFINE bt == [k \in 1 .. 1 |-> 1]
  <2>1. PICK at : at \in [1 .. 1 -> TarPlaces] /\ at[1] = 1
    <3>1. bt \in [1 .. 1 -> TarPlaces] /\ bt[1] = 1
      BY DEF TarPlaces
    <3> QED
      BY <3>1
  <2>2. Len(tarList) = 0 /\ Len(tarList) + 1 = 1 /\ 1 .. Len(tarList) = {}
    BY EmptySeq DEF TarInit
  <2>3. Laid(at)
    BY <2>1, <2>2 DEF Laid
  <2> QED
    BY <2>1, <2>2, <2>3 DEF Behind
<1>4. PICK at : Laid(at) /\ Behind(at) = 1
  BY <1>3
<1>5. TarEnds(Behind(at)) /\ tarPc = "idle"
  BY <1>1, <1>2, <1>4, ZeroEnds DEF TarTypes, TarInit
<1> QED
  BY <1>1, <1>2, <1>4, <1>5 DEF TarInv, TarLaid, Ended

LEMMA TarCreateInv == ASSUME TarInv, Create PROVE TarInv'
<1>1. TarTypes'
  <2>1. tarArch' \in Seq(TarBlock) /\ tarList' \in Seq(TarMembers) /\ tarPos' \in TarPlaces
    BY EmptySeq DEF TarInv, TarTypes, Ordered, Create, TarPlaces
  <2> QED
    BY <2>1 DEF TarInv, TarTypes, Ordered, Create
<1>2. PICK at : Laid(at)' /\ Behind(at)' = 1
  BY NoMembers DEF Create
<1>3. tarPos' = 1 /\ tarPc' = "store" /\ (tarDev' \/ tarArch' = <<>>)
  BY DEF Create
<1>4. tarDev' \/ \A i \in 1 .. Len(tarArch') : i >= Behind(at)' => tarArch'[i] = Zero
  BY <1>3, EmptySeq
<1> QED
  BY <1>1, <1>2, <1>3, <1>4 DEF TarInv, TarLaid, Ended

LEMMA TarAppendInv == ASSUME TarInv, TarAppend PROVE TarInv'
<1>0. Ordered /\ UNCHANGED <<tarSize, tarDev, tarArch, tarHdr, tarList>> /\ tarPos' = EndOf /\ tarPc = "idle" /\ tarPc' = "store"
  BY DEF TarInv, TarTypes, TarAppend, AppendAt
<1>1. TarTypes'
  <2>1. tarPos' \in TarPlaces
    BY <1>0, EndOfIs
  <2> QED
    BY <1>0, <2>1 DEF TarInv, TarTypes, TarAppend, Ordered
<1>2. CASE tarSure = "exact"
  <2>1. PICK at : Laid(at) /\ Ended(at)
    BY <1>2 DEF TarInv, TarLaid
  <2>2. tarPos' = Behind(at) /\ Behind(at) \in Nat
    BY <1>0, <2>1, EndOfIs, MembersAt DEF Ended, TarPlaces
  <2>3. Laid(at)' /\ Behind(at)' = Behind(at)
    BY <1>0, <2>1 DEF Laid, Behind
  <2>4. Behind(at)' <= tarPos' /\ Ended(at)'
    BY <1>0, <2>1, <2>2, <2>3 DEF Ended
  <2> QED
    BY <1>1, <2>3, <2>4 DEF TarInv, TarLaid
<1>3. CASE tarSure # "exact"
  BY <1>1, <1>3 DEF TarInv, TarAppend
<1> QED
  BY <1>2, <1>3

\* A run goes on, or another begins to be followed, with the archive as it was.
LEMMA TarGoesOn ==
  ASSUME TarInv, TarTypes', UNCHANGED <<tarArch, tarList, tarPos, tarDev, tarSure>>, (tarPc = "idle") <=> (tarPc' = "idle")
  PROVE  TarInv'
<1>1. CASE tarSure = "lost"
  BY <1>1 DEF TarInv
<1>2. CASE tarSure # "lost"
  <2>1. PICK at : /\ Laid(at) /\ (tarPc # "idle" => Behind(at) <= tarPos)
                  /\ tarSure = "exact" => Ended(at)
    BY <1>2 DEF TarInv, TarLaid
  <2>2. Laid(at)' /\ Behind(at)' = Behind(at)
    BY <2>1 DEF Laid, Behind
  <2>3. tarSure' = "exact" => Ended(at)'
    <3>1. TarEnds(Behind(at)) => TarEnds(Behind(at))'
      BY <2>2 DEF TarEnds
    <3> QED
      BY <2>1, <2>2, <3>1, Zenon DEF Ended
  <2> QED
    BY <2>1, <2>2, <2>3, Zenon DEF TarInv, TarLaid
<1> QED
  BY <1>1, <1>2

LEMMA TarStoreInv == ASSUME TarInv, NEW f \in TarFiles, Store1(f) PROVE TarInv'
<1>1. SizeOf(f) \in Nat
  BY DEF SizeOf, TarInv, TarTypes, TarInodes
<1>2. f # "idle"
  BY TarAssumption DEF TarAssumption
<1>3. UNCHANGED <<tarSize, tarDev, tarArch, tarPos, tarList, tarSure>> /\ tarPc # "idle" /\ tarPc' # "idle"
  BY <1>2 DEF Store1
<1>4. tarHdr' \in TarBlock
  <2>1. InitHead(f) \in TarBlock
    BY <1>1 DEF InitHead, TarBlock
  <2> QED
    BY <2>1 DEF Store1, TarInv, TarTypes
<1>5. TarTypes'
  BY <1>3, <1>4 DEF TarInv, TarTypes, Ordered
<1> QED
  BY <1>3, <1>5, TarGoesOn

LEMMA TarGrowsInv == ASSUME TarInv, NEW f \in TarFiles, Grows(f) PROVE TarInv'
<1>1. tarSize' \in [TarInodes -> Nat]
  BY TarAssumption DEF Grows, TarInv, TarTypes, TarAssumption
<1>2. UNCHANGED <<tarDev, tarArch, tarPos, tarPc, tarHdr, tarList, tarSure>>
  BY DEF Grows
<1>3. TarTypes'
  BY <1>1, <1>2 DEF TarInv, TarTypes, Ordered
<1> QED
  BY <1>2, <1>3, TarGoesOn

\* Blocks are written behind the members, and the list stays: the members are
\* there, though perhaps not all there is.
LEMMA TarPutInv ==
  ASSUME TarInv, tarPc # "idle", NEW s \in Seq(TarBlock), NEW n, PutBlocks(s, n),
         UNCHANGED <<tarSize, tarDev, tarHdr, tarList>>,
         tarSure' \in {"exact", "prefix", "lost"}, tarSure' = "lost" <=> tarSure = "lost",
         tarSure' # "exact"
  PROVE  TarInv'
<1>1. /\ n \in 0 .. Len(s) /\ tarPos' = tarPos + n /\ tarPos' \in TarPlaces
      /\ tarArch' \in Seq(TarBlock)
      /\ \A i \in 1 .. Len(tarArch) : i < tarPos => i \in 1 .. Len(tarArch') /\ tarArch'[i] = tarArch[i]
  BY PutIs DEF TarInv, TarTypes
<1>2. TarTypes'
  BY <1>1 DEF TarInv, TarTypes, Ordered
<1>3. CASE tarSure = "lost"
  BY <1>2, <1>3 DEF TarInv
<1>4. CASE tarSure # "lost"
  <2>1. PICK at : Laid(at) /\ Behind(at) <= tarPos
    BY <1>4 DEF TarInv, TarLaid
  <2>2. Behind(at) \in Nat /\ tarPos \in Nat /\ n \in Nat /\ Len(tarArch) \in Nat /\ Ordered
    BY <1>1, <2>1, MembersAt, LenProperties DEF TarPlaces, TarInv, TarTypes, Ordered
  <2>3. \A i \in 1 .. Len(tarArch) : i < Behind(at) => i \in 1 .. Len(tarArch') /\ tarArch'[i] = tarArch[i]
    BY <1>1, <2>1, <2>2
  <2>4. Laid(at)' /\ Behind(at)' = Behind(at)
    BY <1>2, <2>1, <2>2, <2>3, LaidStays DEF TarTypes
  <2>5. Behind(at)' <= tarPos'
    BY <1>1, <2>1, <2>2, <2>4
  <2> QED
    BY <1>2, <2>4, <2>5 DEF TarInv, TarLaid
<1> QED
  BY <1>3, <1>4

\* A run is over and has written nothing since the last member.
LEMMA TarStops ==
  ASSUME TarInv, tarPc # "idle", tarPc' = "idle", NEW s \in Seq(TarBlock), PutBlocks(s, 0), tarSure' = Stopped,
         UNCHANGED <<tarSize, tarDev, tarHdr, tarList>>
  PROVE  TarInv'
<1>1. CASE tarDev \/ tarSure # "exact"
  <2>1. tarSure' \in {"exact", "prefix", "lost"} /\ (tarSure' = "lost" <=> tarSure = "lost") /\ tarSure' # "exact"
    BY <1>1, LoosenedIs DEF Stopped, TarInv, TarTypes
  <2> QED
    BY <2>1, TarPutInv
<1>2. CASE ~tarDev /\ tarSure = "exact"
  <2>1. tarArch' = tarArch /\ tarPos' \in TarPlaces /\ tarSure' = "exact"
    BY <1>2, PutIs DEF TarInv, TarTypes, Stopped
  <2>2. TarTypes'
    BY <2>1 DEF TarInv, TarTypes, Ordered
  <2>3. PICK at : Laid(at) /\ \A i \in 1 .. Len(tarArch) : i >= Behind(at) => tarArch[i] = Zero
    BY <1>2 DEF TarInv, TarLaid, Ended
  <2>4. TarEnds(Behind(at))
    BY <2>3, ZeroEnds DEF TarInv, TarTypes
  <2>5. Laid(at)' /\ Behind(at)' = Behind(at)
    BY <2>1, <2>3 DEF Laid, Behind
  <2>6. TarEnds(Behind(at))'
    BY <2>1, <2>4, <2>5 DEF TarEnds
  <2>7. Ended(at)'
    BY <2>1, <2>3, <2>5, <2>6 DEF Ended
  <2> QED
    BY <2>2, <2>5, <2>7 DEF TarInv, TarLaid
<1> QED
  BY <1>1, <1>2 DEF TarInv, TarTypes

LEMMA TarEndInv == ASSUME TarInv, StoreEnd PROVE TarInv'
<1> DEFINE s == <<Zero, Zero>>
<1>1. PICK n \in 0 .. 2 : PutBlocks(s, n) /\ tarSure' = IF n = 0 THEN Stopped ELSE tarSure
  BY DEF StoreEnd
<1>2. UNCHANGED <<tarSize, tarDev, tarHdr, tarList>> /\ tarPc # "idle" /\ tarPc' = "idle"
  BY DEF StoreEnd
<1>3. s \in Seq(TarBlock) /\ \A i \in 1 .. 2 : s[i] = Zero
  BY DEF TarBlock
<1> HIDE DEF s
<1>4. CASE n = 0
  BY <1>1, <1>2, <1>3, <1>4, TarStops
<1>5. CASE n # 0 /\ tarSure # "exact"
  <2>1. tarSure' = tarSure /\ tarSure \in {"exact", "prefix", "lost"}
    BY <1>1, <1>5 DEF TarInv, TarTypes
  <2> QED
    BY <1>1, <1>2, <1>3, <1>5, <2>1, TarPutInv
<1>6. CASE n # 0 /\ tarSure = "exact"
  <2> DEFINE t == SubSeq(s, 1, n)
             w == TarWritten(tarPos, t)
  <2>1. /\ tarPos' \in TarPlaces /\ tarArch' \in Seq(TarBlock) /\ tarArch' = w
        /\ \A i \in 1 .. Len(tarArch) : i < tarPos => i \in 1 .. Len(tarArch') /\ tarArch'[i] = tarArch[i]
        /\ t \in Seq(TarBlock) /\ Len(t) = n /\ \A i \in 1 .. n : t[i] = s[i]
    BY <1>1, <1>3, <1>6, PutIs DEF TarInv, TarTypes
  <2>2. TarTypes' /\ tarSure' = "exact"
    BY <1>1, <1>2, <1>6, <2>1 DEF TarInv, TarTypes, Ordered
  <2>3. PICK at : Laid(at) /\ Ended(at)
    BY <1>6 DEF TarInv, TarLaid
  <2>4. tarPos = Behind(at) /\ tarPos \in Nat /\ Ordered /\ tarPos \in TarPlaces
    BY <1>2, <2>3 DEF Ended, TarInv, TarTypes, TarPlaces
  <2>5. Laid(at)' /\ Behind(at)' = Behind(at)
    BY <1>2, <2>1, <2>2, <2>3, <2>4, LaidStays DEF TarTypes
  <2>6. \A j \in 1 .. n : t[j] = Zero
    BY <1>3, <2>1
  <2> HIDE DEF t
  <2>7. /\ Len(w) \in Nat
        /\ \A i \in 1 .. Len(w) : (i >= tarPos + n \/ i < tarPos) => w[i] = IF i <= Len(tarArch) THEN tarArch[i] ELSE Zero
        /\ \A j \in 1 .. n : w[tarPos + j - 1] = Zero
    <3>1. /\ Len(w) \in Nat
          /\ \A i \in 1 .. Len(w) : (i >= tarPos + Len(t) \/ i < tarPos) => w[i] = IF i <= Len(tarArch) THEN tarArch[i] ELSE Zero
          /\ \A j \in 1 .. Len(t) : w[tarPos + j - 1] = t[j]
      BY <2>1, <2>4, WrittenIs
    <3> HIDE DEF w
    <3> QED
      BY <2>1, <2>6, <3>1
  <2> HIDE DEF w
  <2>8. tarDev' \/ \A i \in 1 .. Len(w) : i >= tarPos => w[i] = Zero
    <3> SUFFICES ASSUME ~tarDev, NEW i \in 1 .. Len(w), i >= tarPos PROVE w[i] = Zero
      BY <1>2
    <3>1. CASE i >= tarPos + n
      <4>1. i <= Len(tarArch) => i \in 1 .. Len(tarArch)
        BY <2>4, LenProperties DEF Ordered
      <4>2. \A k \in 1 .. Len(tarArch) : k >= tarPos => tarArch[k] = Zero
        BY <2>3, <2>4 DEF Ended
      <4> QED
        BY <2>7, <3>1, <4>1, <4>2
    <3>2. CASE ~(i >= tarPos + n)
      <4>1. (i - tarPos + 1) \in 1 .. n /\ tarPos + (i - tarPos + 1) - 1 = i
        BY <2>4, <3>2
      <4> QED
        BY <2>7, <4>1
    <3> QED
      BY <3>1, <3>2
  <2>9. TarEnds(Behind(at))'
    <3>1. 1 \in 1 .. n /\ tarPos + 1 - 1 = tarPos
      BY <1>6, <2>4
    <3>2. w[tarPos] = Zero
      BY <2>7, <3>1
    <3>3. Zero.path = ""
      BY DEF Zero
    <3> QED
      BY <2>1, <2>4, <2>5, <3>2, <3>3 DEF TarEnds
  <2>10. Ended(at)'
    BY <1>2, <2>1, <2>4, <2>5, <2>8, <2>9 DEF Ended
  <2> QED
    BY <1>2, <2>2, <2>5, <2>10 DEF TarInv, TarLaid
<1> QED
  BY <1>4, <1>5, <1>6

LEMMA MemberIs ==
  ASSUME TarInv, NEW f \in TarFiles
  PROVE  SizeOf(f) \in Nat /\ Member(f) \in Seq(TarBlock) /\ Len(Member(f)) = 1 + Blocks(SizeOf(f)) /\ Blocks(SizeOf(f)) \in Nat
<1>1. SizeOf(f) \in Nat
  BY DEF SizeOf, TarInv, TarTypes, TarInodes
<1> DEFINE B == Blocks(SizeOf(f))
           d == [i \in 1 .. B |-> DataOf(f)]
<1>2. B \in Nat
  BY <1>1, BlocksIs
<1>3. DataOf(f) \in TarBlock /\ tarHdr \in TarBlock
  BY DEF TarBlock, TarInv, TarTypes
<1> HIDE DEF B
<1>4. d \in Seq(TarBlock) /\ Len(d) = B
  BY <1>2, <1>3
<1>5. Member(f) = <<tarHdr>> \o d
  BY DEF Member, B
<1> HIDE DEF d
<1>6. <<tarHdr>> \in Seq(TarBlock) /\ Len(<<tarHdr>>) = 1
  BY <1>3
<1>7. Member(f) \in Seq(TarBlock) /\ Len(Member(f)) = 1 + B
  BY <1>4, <1>5, <1>6, ConcatProperties
<1> QED
  BY <1>1, <1>2, <1>7 DEF B

LEMMA TarSregInv == ASSUME TarInv, NEW f \in TarFiles, Sreg(f) PROVE TarInv'
<1>1. tarPc # "idle" /\ UNCHANGED <<tarSize, tarDev, tarHdr>>
  BY TarAssumption DEF TarAssumption, Sreg
<1>2. /\ SizeOf(f) \in Nat /\ Member(f) \in Seq(TarBlock) /\ Len(Member(f)) = 1 + Blocks(SizeOf(f))
      /\ Blocks(SizeOf(f)) \in Nat
  BY MemberIs
<1>3. Loosened \in {"exact", "prefix", "lost"} /\ (Loosened = "lost" <=> tarSure = "lost") /\ Loosened # "exact"
  BY LoosenedIs DEF TarInv, TarTypes
<1>4. CASE SregRead(f)
  <2>1. PICK n : PutBlocks(Member(f), n)
    BY <1>4 DEF SregRead
  <2> QED
    BY <1>1, <1>2, <1>3, <1>4, <2>1, TarPutInv DEF SregRead
<1>5. CASE SregWrite(f)
  <2>1. PICK n : PutBlocks(Member(f), n) /\ tarSure' = IF n = 0 THEN Stopped ELSE Loosened
    BY <1>5 DEF SregWrite
  <2>2. tarPc' = "idle" /\ tarList' = tarList
    BY <1>5 DEF SregWrite
  <2>3. CASE n = 0
    BY <1>1, <1>2, <2>1, <2>2, <2>3, TarStops
  <2>4. CASE n # 0
    BY <1>1, <1>2, <1>3, <2>1, <2>2, <2>4, TarPutInv
  <2> QED
    BY <2>3, <2>4
<1>6. CASE tarPc' = "store" /\ UNCHANGED <<tarArch, tarPos, tarList, tarSure>>
  <2>1. TarTypes'
    BY <1>1, <1>6 DEF TarInv, TarTypes, Ordered
  <2> QED
    BY <1>1, <1>6, <2>1, TarGoesOn
<1>7. CASE SregWhole(f) /\ ~(tarSure = "exact" /\ tarHdr = Header(f, SizeOf(f)))
  BY <1>1, <1>2, <1>3, <1>7, TarPutInv DEF SregWhole
<1>8. CASE SregWhole(f) /\ tarSure = "exact" /\ tarHdr = Header(f, SizeOf(f))
  <2> DEFINE z == SizeOf(f)
             M == Member(f)
             N == Len(M)
  <2>1. PutBlocks(M, N) /\ tarPc' = "store" /\ tarList' = Append(tarList, <<f, z>>) /\ tarSure' = "exact"
    BY <1>8 DEF SregWhole
  <2>2. M \in Seq(TarBlock) /\ z \in Nat /\ N = 1 + Blocks(z) /\ N # 0 /\ Blocks(z) \in Nat
    BY <1>2
  <2>3. SubSeq(M, 1, N) = M
    BY <2>2, SubSeqFull
  <2>4. M = <<Header(f, z)>> \o [i \in 1 .. Blocks(z) |-> DataOf(f)]
    BY <1>8 DEF Member
  <2> HIDE DEF z, M, N
  <2>5. tarPos' = tarPos + N /\ tarPos' \in TarPlaces /\ tarArch' = TarWritten(tarPos, M)
    BY <2>1, <2>2, <2>3, PutIs DEF TarInv, TarTypes
  <2>6. PICK at : Laid(at) /\ Ended(at)
    BY <1>8 DEF TarInv, TarLaid
  <2>7. tarPos = Behind(at) /\ tarPos \in Nat /\ Ordered
    BY <1>1, <2>6 DEF Ended, TarInv, TarTypes, TarPlaces
  <2>8. tarArch' = TarWritten(Behind(at), <<Header(f, z)>> \o [i \in 1 .. Blocks(z) |-> DataOf(f)])
    BY <2>4, <2>5, <2>7
  <2>9. Ordered' /\ \E bt : /\ Laid(bt)' /\ Behind(bt)' = Behind(at) + 1 + Blocks(z)
                            /\ \A i \in 1 .. Len(tarArch') : i >= Behind(bt)' =>
                                 tarArch'[i] = IF i <= Len(tarArch) THEN tarArch[i] ELSE Zero
    BY <2>1, <2>2, <2>6, <2>7, <2>8, MemberWritten
  <2>10. PICK bt : /\ Laid(bt)' /\ Behind(bt)' = Behind(at) + 1 + Blocks(z)
                   /\ \A i \in 1 .. Len(tarArch') : i >= Behind(bt)' =>
                        tarArch'[i] = IF i <= Len(tarArch) THEN tarArch[i] ELSE Zero
    BY <2>9
  <2>11. tarPos' = Behind(bt)' /\ Behind(bt)' \in Nat /\ Behind(bt)' >= Behind(at)
    BY <2>2, <2>5, <2>7, <2>10
  <2>12. tarDev' \/ \A i \in 1 .. Len(tarArch') : i >= Behind(bt)' => tarArch'[i] = Zero
    <3> SUFFICES ASSUME ~tarDev, NEW i \in 1 .. Len(tarArch'), i >= Behind(bt)' PROVE tarArch'[i] = Zero
      BY <1>1
    <3>1. i >= Behind(at) /\ (i <= Len(tarArch) => i \in 1 .. Len(tarArch))
      BY <2>7, <2>11, LenProperties DEF Ordered
    <3>2. \A k \in 1 .. Len(tarArch) : k >= Behind(at) => tarArch[k] = Zero
      BY <2>6 DEF Ended
    <3> QED
      BY <2>10, <3>1, <3>2
  <2>13. Ended(bt)'
    BY <2>1, <2>11, <2>12 DEF Ended
  <2>14. TarTypes'
    BY <1>1, <2>1, <2>5, <2>9 DEF TarInv, TarTypes
  <2> QED
    BY <2>10, <2>11, <2>13, <2>14 DEF TarInv, TarLaid
<1> QED
  BY <1>4, <1>5, <1>6, <1>7, <1>8 DEF Sreg

LEMMA TarNextInv == TarInv /\ [TarNext]_tarVars => TarInv'
<1> SUFFICES ASSUME TarInv, [TarNext]_tarVars PROVE TarInv'
  OBVIOUS
<1>1. CASE UNCHANGED tarVars
  <2>1. TarTypes'
    BY <1>1 DEF TarInv, TarTypes, Ordered, tarVars
  <2> QED
    BY <1>1, <2>1, TarGoesOn DEF tarVars
<1> QED
  BY <1>1, TarCreateInv, TarAppendInv, TarStoreInv, TarEndInv, TarSregInv, TarGrowsInv DEF TarNext

LEMMA TarImplies == TarInv => TarReadsBack
<1> SUFFICES ASSUME TarInv, tarPc = "idle", tarSure \in {"exact", "prefix"}
             PROVE  /\ tarSure = "exact" => Rtar = tarList
                    /\ tarSure = "prefix" => Len(tarList) <= Len(Rtar) /\ SubSeq(Rtar, 1, Len(tarList)) = tarList
  BY DEF TarReadsBack
<1>1. PICK at : Laid(at) /\ (tarSure = "exact" => Ended(at))
  BY DEF TarInv, TarLaid
<1>2. PICK rest \in Seq(TarRead) : Rtar = tarList \o rest /\ (TarEnds(Behind(at)) => rest = <<>>)
  BY <1>1, RtarIs DEF TarInv, TarTypes
<1>3. tarList \in Seq(TarRead) /\ Len(tarList) \in Nat /\ Len(rest) \in Nat
  BY SeqMonotonic, LenProperties DEF TarInv, TarTypes, Ordered, TarRead
<1>4. CASE tarSure = "exact"
  BY <1>1, <1>2, <1>3, <1>4, ConcatEmptySeq DEF Ended
<1>5. CASE tarSure = "prefix"
  <2>1. Len(Rtar) = Len(tarList) + Len(rest)
    BY <1>2, <1>3, ConcatProperties
  <2>2. SubSeq(tarList \o rest, 1, Len(tarList)) = tarList
    <3>1. CASE Len(tarList) = 0
      BY <1>3, <3>1, EmptySeq, SubSeqEmpty
    <3>2. CASE Len(tarList) # 0
      <4>1. 1 \in 1 .. Len(tarList) /\ Len(tarList) \in 1 .. Len(tarList)
        BY <1>3, <3>2
      <4> QED
        BY <1>3, <4>1, SubSeqOfConcat1, SubSeqFull
    <3> QED
      BY <3>1, <3>2
  <2> QED
    BY <1>2, <1>3, <1>5, <2>1, <2>2
<1> QED
  BY <1>4, <1>5

----------------------------------------------------------------------------
(* cp and mv.                                                               *)

CpChunks == {CpChunk(k) : k \in Nat} \cup {Part, Old, New}
CpPcs    == {"start", "stat", "trunc", "read", "write", "unlink", "ok", "failed"}
CpTypes ==
  /\ cpName = [n \in {"src", "dst"} |-> cpName[n]] /\ cpName["dst"] \in CpInodes \cup {0}
  /\ cpData \in [CpInodes -> Seq(CpChunks)] /\ cpOrig \in Seq(CpChunks)
  /\ cpPc \in CpPcs /\ cpFd = [src |-> cpFd.src, dst |-> cpFd.dst]
  /\ cpAt \in 0 .. Len(cpOrig) /\ cpBuf \in Seq(CpChunks) /\ cpMv \in BOOLEAN

\* Where another program has changed nothing, the source's file is as it was, and
\* the target has what was read and written of it.
CpKnown ==
  /\ cpData[1] = cpOrig
  /\ cpName["src"] = IF cpMv /\ cpPc = "ok" THEN 0 ELSE 1
  /\ cpPc = "start" => cpFd = NoFds /\ cpAt = 0 /\ cpBuf = <<>> /\ (cpMv => cpName["dst"] # 1)
  /\ cpPc = "stat" => cpFd.src = 1 /\ cpAt = 0 /\ cpBuf = <<>> /\ (cpMv => cpName["dst"] # 1)
  /\ cpPc = "trunc" => cpFd.src = 1 /\ cpAt = 0 /\ cpBuf = <<>> /\ cpName["dst"] # 1
  /\ cpPc \in {"read", "write", "unlink"} => cpFd.src = 1 /\ cpFd.dst = cpName["dst"]
  /\ cpPc \in {"read", "write", "unlink", "ok"} =>
       /\ cpName["dst"] \in CpInodes \ {1}
       /\ cpData[cpName["dst"]] \o cpBuf = SubSeq(cpOrig, 1, cpAt)
  /\ cpPc \in {"read", "unlink", "ok"} => cpBuf = <<>>
  /\ cpPc \in {"unlink", "ok"} => cpAt = Len(cpOrig)
  /\ cpPc = "unlink" => cpMv
CpInv == cpOther \/ (CpTypes /\ CpKnown)

LEMMA CpInitInv == CpInit => CpInv
<1> SUFFICES ASSUME CpInit PROVE CpInv
  OBVIOUS
<1>1. PICK n \in 0 .. CpMax, old \in {0, 1, 2} :
        /\ cpOrig = [k \in 1 .. n |-> CpChunk(k)]
        /\ cpData = [i \in CpInodes |-> IF i = 1 THEN cpOrig ELSE <<Old>>]
        /\ cpName = [src |-> 1, dst |-> old]
        /\ cpMv \in BOOLEAN /\ (cpMv => old # 1)
        /\ cpPc = "start" /\ cpFd = NoFds /\ cpAt = 0 /\ cpBuf = <<>> /\ cpOther = FALSE
  BY Zenon DEF CpInit
<1>2. n \in Nat
  BY CpAssumption DEF CpAssumption
<1>3. cpOrig \in Seq(CpChunks) /\ Len(cpOrig) = n
  <2>1. \A k \in 1 .. n : CpChunk(k) \in CpChunks
    BY <1>2 DEF CpChunks
  <2> QED
    BY <1>1, <1>2, <2>1
<1>4. <<Old>> \in Seq(CpChunks) /\ <<>> \in Seq(CpChunks)
  BY DEF CpChunks
<1>5. cpData \in [CpInodes -> Seq(CpChunks)] /\ cpData[1] = cpOrig
  BY <1>1, <1>3, <1>4 DEF CpInodes
<1>6. CpTypes
  <2>1. cpName = [m \in {"src", "dst"} |-> cpName[m]] /\ cpName["dst"] \in CpInodes \cup {0}
    BY <1>1 DEF CpInodes
  <2>2. cpFd = [src |-> cpFd.src, dst |-> cpFd.dst]
    BY <1>1 DEF NoFds
  <2>3. cpAt \in 0 .. Len(cpOrig) /\ cpPc \in CpPcs /\ cpBuf \in Seq(CpChunks) /\ cpMv \in BOOLEAN
    BY <1>1, <1>2, <1>3, <1>4 DEF CpPcs
  <2> QED
    BY <1>3, <1>5, <2>1, <2>2, <2>3 DEF CpTypes
<1>7. CpKnown
  BY <1>1, <1>5 DEF CpKnown
<1> QED
  BY <1>6, <1>7 DEF CpInv

LEMMA CpFreeIs == cpName["dst"] = 0 /\ cpName["src"] = 1 /\ cpFd = [src |-> 1, dst |-> cpFd.dst]
                  => CpFree \in CpInodes \ {1}
<1> SUFFICES ASSUME cpName["dst"] = 0, cpName["src"] = 1, cpFd = [src |-> 1, dst |-> cpFd.dst]
             PROVE  CpFree \in CpInodes \ {1}
  OBVIOUS
<1>1. PICK i \in {2, 3} : i # cpFd.dst
  OBVIOUS
<1>2. i \in CpInodes /\ \A n \in {"src", "dst"} : cpName[n] # i /\ i \notin {cpFd.src, cpFd.dst}
  BY <1>1 DEF CpInodes
<1>3. CpFree \in CpInodes /\ \A n \in {"src", "dst"} : cpName[n] # CpFree /\ CpFree \notin {cpFd.src, cpFd.dst}
  BY <1>2, Zenon DEF CpFree
<1> QED
  BY <1>3

LEMMA CpNextInv == CpInv /\ [CpNext]_cpVars => CpInv'
<1> SUFFICES ASSUME CpInv, [CpNext]_cpVars PROVE CpInv'
  OBVIOUS
<1>0. CASE cpOther
  <2>1. cpOther'
    BY <1>0 DEF CpNext, cpVars, CpOpenSrc, CpStat, CpOpenDst, CpRead, CpWrite, MvUnlink, CpOthers
  <2> QED
    BY <2>1, Zenon DEF CpInv
<1>1. SUFFICES ASSUME CpTypes, CpKnown, ~cpOther PROVE CpInv'
  BY <1>0 DEF CpInv
<1>2. CASE CpOpenSrc
  BY <1>1, <1>2 DEF CpOpenSrc, CpInv, CpTypes, CpKnown, CpPcs, NoFds
<1>3. CASE CpStat
  BY <1>1, <1>3 DEF CpStat, SameFile, CpInv, CpTypes, CpKnown, CpPcs
<1>4. CASE CpOpenDst
  <2> DEFINE i == IF cpName["dst"] = 0 THEN CpFree ELSE cpName["dst"]
  <2>1. /\ cpPc = "trunc" /\ cpPc' = "read"
        /\ cpName' = [cpName EXCEPT !["dst"] = i] /\ cpData' = [cpData EXCEPT ![i] = <<>>]
        /\ cpFd' = [cpFd EXCEPT !.dst = i]
        /\ UNCHANGED <<cpMv, cpAt, cpBuf, cpOrig, cpOther>>
    BY <1>4 DEF CpOpenDst
  <2>2. i \in CpInodes \ {1}
    BY <1>1, <2>1, CpFreeIs DEF CpTypes, CpKnown
  <2> HIDE DEF i
  <2>3. cpName'["dst"] = i /\ cpName'["src"] = 1 /\ cpName' = [n \in {"src", "dst"} |-> cpName'[n]]
    BY <1>1, <2>1 DEF CpTypes, CpKnown
  <2>4. cpFd' = [src |-> 1, dst |-> i]
    BY <1>1, <2>1 DEF CpTypes, CpKnown
  <2>5. cpData' \in [CpInodes -> Seq(CpChunks)] /\ cpData'[1] = cpOrig /\ cpData'[i] = <<>>
    BY <1>1, <2>1, <2>2 DEF CpTypes, CpKnown, CpInodes
  <2>6. cpAt' = 0 /\ cpBuf' = <<>> /\ cpOrig' = cpOrig
    BY <1>1, <2>1 DEF CpKnown
  <2>7. <<>> \o <<>> = SubSeq(cpOrig, 1, 0)
    BY SubSeqEmpty, ConcatEmptySeq, EmptySeq
  <2>8. CpTypes'
    BY <1>1, <2>1, <2>2, <2>3, <2>4, <2>5 DEF CpTypes, CpPcs
  <2>9. CpKnown'
    BY <2>1, <2>2, <2>3, <2>4, <2>5, <2>6, <2>7 DEF CpKnown
  <2> QED
    BY <2>8, <2>9 DEF CpInv
<1>5. CASE CpRead
  <2> DEFINE d == cpName["dst"]
  <2>1. /\ cpPc = "read" /\ cpData[cpFd.src] = cpOrig /\ cpBuf = <<>> /\ cpName["src"] = 1
        /\ UNCHANGED <<cpName, cpData, cpMv, cpFd, cpOrig, cpOther>>
    BY <1>1, <1>5 DEF CpRead, CpKnown
  <2>2. cpAt \in 0 .. Len(cpOrig) /\ cpOrig \in Seq(CpChunks) /\ Len(cpOrig) \in Nat
    BY <1>1, LenProperties DEF CpTypes
  <2>3. CASE cpAt < Len(cpOrig) /\ cpBuf' = <<cpOrig[cpAt + 1]>> /\ cpAt' = cpAt + 1 /\ cpPc' = "write"
    <3>1. cpAt + 1 \in 1 .. Len(cpOrig) /\ cpAt + 1 \in 1 .. cpAt + 1 /\ 1 \in 1 .. Len(cpOrig) /\ (cpAt + 1) - 1 = cpAt
          /\ cpAt + 1 \in 0 .. Len(cpOrig)
      BY <2>2, <2>3
    <3>2. cpAt + 1 \in 1 .. Len(cpOrig) /\ cpAt + 1 \in 1 .. Len(cpOrig)
      BY <3>1
    <3>3. SubSeq(cpOrig, 1, cpAt + 1) = SubSeq(cpOrig, 1, cpAt) \o <<cpOrig[cpAt + 1]>>
      BY <2>2, <3>1, SubSeqRecursiveSecond
    <3>4. cpData[d] \o <<>> = cpData[d] /\ cpData[d] \in Seq(CpChunks)
      <4>1. cpData[d] \in Seq(CpChunks)
        BY <1>1, <2>1 DEF CpTypes, CpKnown
      <4> QED
        BY <4>1, ConcatEmptySeq
    <3>5. cpData[d] \o <<cpOrig[cpAt + 1]>> = SubSeq(cpOrig, 1, cpAt + 1)
      BY <1>1, <2>1, <3>3, <3>4 DEF CpKnown
    <3>6. <<cpOrig[cpAt + 1]>> \in Seq(CpChunks)
      <4>1. cpOrig[cpAt + 1] \in CpChunks
        BY <2>2, <3>1, ElementOfSeq
      <4> QED
        BY <4>1
    <3>7. CpTypes'
      BY <1>1, <2>1, <2>3, <3>1, <3>6 DEF CpTypes, CpPcs
    <3>8. CpKnown'
      BY <1>1, <2>1, <2>3, <3>5 DEF CpKnown
    <3> QED
      BY <3>7, <3>8 DEF CpInv
  <2>4. CASE cpAt >= Len(cpOrig) /\ cpPc' = (IF cpMv THEN "unlink" ELSE "ok") /\ UNCHANGED <<cpBuf, cpAt>>
    <3>1. cpAt = Len(cpOrig)
      BY <2>2, <2>4
    <3>2. CpTypes'
      BY <1>1, <2>1, <2>4 DEF CpTypes, CpPcs
    <3>3. CpKnown'
      BY <1>1, <2>1, <2>4, <3>1 DEF CpKnown
    <3> QED
      BY <3>2, <3>3 DEF CpInv
  <2>5. CASE cpPc' = "failed" /\ UNCHANGED <<cpBuf, cpAt>>
    <3>1. CpTypes'
      BY <1>1, <2>1, <2>5 DEF CpTypes, CpPcs
    <3>2. CpKnown'
      BY <1>1, <2>1, <2>5 DEF CpKnown
    <3> QED
      BY <3>1, <3>2 DEF CpInv
  <2> QED
    BY <1>5, <2>1, <2>3, <2>4, <2>5 DEF CpRead
<1>6. CASE CpWrite
  <2> DEFINE d == cpName["dst"]
  <2>1. /\ cpPc = "write" /\ cpBuf' = <<>> /\ cpFd.dst = d /\ d \in CpInodes \ {1}
        /\ UNCHANGED <<cpName, cpMv, cpFd, cpAt, cpOrig, cpOther>>
    BY <1>1, <1>6 DEF CpWrite, CpKnown
  <2>2. PICK s \in Seq(CpChunks) : /\ cpData' = [cpData EXCEPT ![d] = @ \o s]
                                   /\ cpPc' = "failed" \/ (cpPc' = "read" /\ s = cpBuf)
    <3>1. <<>> \in Seq(CpChunks) /\ <<Part>> \in Seq(CpChunks) /\ cpBuf \in Seq(CpChunks)
      BY <1>1 DEF CpChunks, CpTypes
    <3>2. CASE cpData' = [cpData EXCEPT ![d] = @ \o cpBuf] /\ cpPc' = "read"
      BY <3>1, <3>2
    <3>3. CASE \E part \in {<<>>, <<Part>>} : cpData' = [cpData EXCEPT ![d] = @ \o part] /\ cpPc' = AfterShort
      <4>1. PICK part \in {<<>>, <<Part>>} : cpData' = [cpData EXCEPT ![d] = @ \o part]
        BY <3>3
      <4>2. part \in Seq(CpChunks)
        BY <3>1
      <4> QED
        BY <3>3, <4>1, <4>2, Zenon DEF AfterShort
    <3>4. \/ cpData' = [cpData EXCEPT ![cpFd.dst] = @ \o cpBuf] /\ cpPc' = "read"
          \/ (\E part \in {<<>>, <<Part>>} : cpData' = [cpData EXCEPT ![cpFd.dst] = @ \o part]) /\ cpPc' = AfterShort
      BY <1>6 DEF CpWrite
    <3> QED
      BY <2>1, <3>2, <3>3, <3>4
  <2>3. cpData \in [CpInodes -> Seq(CpChunks)] /\ cpData[d] \o s \in Seq(CpChunks)
    <3>1. cpData \in [CpInodes -> Seq(CpChunks)] /\ cpData[d] \in Seq(CpChunks)
      BY <1>1, <2>1 DEF CpTypes
    <3> QED
      BY <3>1, ConcatProperties
  <2>4. cpData' \in [CpInodes -> Seq(CpChunks)] /\ cpData'[1] = cpData[1] /\ cpData'[d] = cpData[d] \o s
    <3>1. 1 \in CpInodes /\ d # 1 /\ d \in CpInodes
      BY <2>1 DEF CpInodes
    <3> HIDE DEF d
    <3> QED
      BY <2>2, <2>3, <3>1
  <2>5. cpPc' = "read" => cpData'[d] \o <<>> = SubSeq(cpOrig, 1, cpAt)
    <3>1. cpData[d] \o cpBuf = SubSeq(cpOrig, 1, cpAt)
      BY <1>1, <2>1 DEF CpKnown
    <3>2. (cpData[d] \o s) \o <<>> = cpData[d] \o s
      BY <2>3, ConcatEmptySeq
    <3> QED
      BY <2>2, <2>4, <3>1, <3>2
  <2>6. CpTypes'
    <3>1. cpPc' \in CpPcs /\ <<>> \in Seq(CpChunks)
      BY <2>2 DEF CpPcs
    <3> QED
      BY <1>1, <2>1, <2>4, <3>1 DEF CpTypes
  <2>7. CpKnown'
    <3>1. cpPc' \in {"failed", "read"} /\ cpData'[1] = cpOrig' /\ cpName'["src"] = 1 /\ cpFd'.src = 1
      BY <1>1, <2>1, <2>2, <2>4 DEF CpKnown
    <3> QED
      BY <1>1, <2>1, <2>5, <3>1 DEF CpKnown
  <2> QED
    BY <2>6, <2>7 DEF CpInv
<1>7. CASE MvUnlink
  <2>1. /\ cpPc = "unlink" /\ cpPc' = "ok" /\ cpName' = [cpName EXCEPT !["src"] = 0]
        /\ UNCHANGED <<cpData, cpMv, cpFd, cpAt, cpBuf, cpOrig, cpOther>>
    BY <1>7 DEF MvUnlink
  <2>2. cpName' = [n \in {"src", "dst"} |-> cpName'[n]] /\ cpName'["src"] = 0 /\ cpName'["dst"] = cpName["dst"]
    BY <1>1, <2>1 DEF CpTypes
  <2>3. CpTypes'
    BY <1>1, <2>1, <2>2 DEF CpTypes, CpPcs
  <2>4. CpKnown'
    BY <1>1, <2>1, <2>2 DEF CpKnown
  <2> QED
    BY <2>3, <2>4 DEF CpInv
<1>8. CASE CpOthers
  <2>1. cpOther' = TRUE
    BY <1>8 DEF CpOthers
  <2> QED
    BY <2>1, Zenon DEF CpInv
<1>9. CASE UNCHANGED cpVars
  <2>1. CpTypes' /\ CpKnown'
    BY <1>1, <1>9 DEF cpVars, CpTypes, CpKnown
  <2> QED
    BY <2>1 DEF CpInv
<1> QED
  BY <1>2, <1>3, <1>4, <1>5, <1>6, <1>7, <1>8, <1>9 DEF CpNext

LEMMA CpImplies == CpInv => CopyKept
<1> SUFFICES ASSUME CpTypes, CpKnown PROVE CopyKept
  BY DEF CpInv, CopyKept
<1> DEFINE d == cpName["dst"]
<1>1. CASE cpPc = "ok"
  <2>1. d \in CpInodes \ {1} /\ cpData[d] \o <<>> = SubSeq(cpOrig, 1, Len(cpOrig))
    BY <1>1 DEF CpKnown
  <2>2. cpData[d] \in Seq(CpChunks) /\ cpOrig \in Seq(CpChunks)
    BY <2>1 DEF CpTypes
  <2>3. cpData[d] = cpOrig
    BY <2>1, <2>2, ConcatEmptySeq, SubSeqFull
  <2>4. d # 0
    BY <2>1 DEF CpInodes
  <2> QED
    BY <1>1, <2>3, <2>4 DEF CopyKept, CpKnown
<1>2. CASE cpPc # "ok"
  BY <1>2 DEF CopyKept, CpKnown
<1> QED
  BY <1>1, <1>2

-----------------------------------------------------------------------------
(* Stdio.  What the index into a stream's buffer means.                      *)

SdByte  == SdContents \cup {"zero"}
SdClean == sdCut = FALSE /\ sdSpoilt = FALSE
SdTypes ==
  /\ sdFile \in Seq(SdByte) /\ sdOff \in Nat
  /\ sdPos \in 0 .. SdBufsiz /\ sdIn \in 0 .. SdBufsiz
  /\ sdBuf \in [0 .. SdBufsiz - 1 -> SdByte \cup {SdEof}]
  /\ sdUn \in SdByte \cup {SdEof} /\ sdGot \in SdByte \cup {SdEof}
  /\ sdLast \in {"none", "read", "unget", "write"}
  /\ sdWr \in BOOLEAN /\ sdCut \in BOOLEAN /\ sdSpoilt \in BOOLEAN
\* What is in the buffer was put there, and it is written or read in turn.
SdTurn ==
  /\ \A i \in 0 .. SdBufsiz - 1 : i < sdPos \/ i < sdIn => sdBuf[i] \in SdByte
  /\ sdBm = "none" => sdPos = 0 /\ sdIn = 0
  /\ sdLast = "write" => sdIn = 0 /\ (sdWr = TRUE \/ sdPos = 0)
  /\ sdLast # "write" => sdPos <= sdIn /\ (sdIn > 0 => sdPos > 0)
  /\ sdLast = "none" => sdIn = 0
  /\ sdLast = "read" /\ sdGot = SdEof => sdIn = 0
  /\ sdMode = {} => sdWr = FALSE /\ sdLast = "none"
Pushed == IF sdUn # SdEof THEN 1 ELSE 0
\* The program reads: the file is as it should be, and the buffer holds a part of it.
SdAhead ==
  /\ sdText = sdFile /\ sdAt = sdOff - (sdIn - sdPos) - Pushed
  /\ sdIn > 0 => sdIn <= sdOff /\ sdOff <= Len(sdFile)
  /\ \A i \in 0 .. SdBufsiz - 1 : i < sdIn => sdBuf[i] = sdFile[sdOff - sdIn + i + 1]
  /\ sdUn # SdEof <=> sdLast = "unget"
  /\ sdUn # SdEof => sdAt >= 0 /\ sdAt < Len(sdText) /\ sdUn = sdText[sdAt + 1]
  /\ sdLast = "read" /\ sdGot # SdEof => sdAt >= 1 /\ sdAt <= Len(sdText) /\ sdGot = sdText[sdAt]
\* The program writes: with what is buffered the file is as it should be.
SdBehind == sdUn = SdEof /\ sdText = SdFlushed /\ sdAt = SdMoved
SdKnown ==
  /\ sdGot = sdWant
  /\ sdMode = {} => sdText = sdFile
  /\ sdMode # {} => IF sdLast = "write" THEN SdBehind ELSE SdAhead
SdInv == SdTypes /\ SdTurn /\ (SdClean => SdKnown)

LEMMA OverlayIs ==
  ASSUME NEW s \in Seq(SdByte), NEW at \in Nat, NEW b \in Seq(SdByte)
  PROVE  /\ Overlay(s, at, b) \in Seq(SdByte)
         /\ Len(Overlay(s, at, b)) = IF at + Len(b) > Len(s) THEN at + Len(b) ELSE Len(s)
         /\ \A i \in 1 .. Len(Overlay(s, at, b)) : Overlay(s, at, b)[i] =
              IF i > at /\ i <= at + Len(b) THEN b[i - at] ELSE IF i <= Len(s) THEN s[i] ELSE "zero"
<1> DEFINE N == IF at + Len(b) > Len(s) THEN at + Len(b) ELSE Len(s)
           v(i) == IF i > at /\ i <= at + Len(b) THEN b[i - at] ELSE IF i <= Len(s) THEN s[i] ELSE "zero"
<1>1. N \in Nat /\ Len(s) \in Nat /\ Len(b) \in Nat
  BY LenProperties
<1>2. ASSUME NEW i \in 1 .. N PROVE v(i) \in SdByte
  <2>1. CASE i > at /\ i <= at + Len(b)
    <3>1. i - at \in 1 .. Len(b)
      BY <1>1, <2>1
    <3>2. b[i - at] \in SdByte
      BY <3>1, ElementOfSeq
    <3> QED
      BY <2>1, <3>2
  <2>2. CASE ~(i > at /\ i <= at + Len(b)) /\ i <= Len(s)
    <3>1. i \in 1 .. Len(s)
      BY <1>1, <2>2
    <3>2. s[i] \in SdByte
      BY <3>1, ElementOfSeq
    <3> QED
      BY <2>2, <3>2
  <2>3. CASE ~(i > at /\ i <= at + Len(b)) /\ ~(i <= Len(s))
    BY <2>3 DEF SdByte
  <2> QED
    BY <2>1, <2>2, <2>3
<1>3. Overlay(s, at, b) = [i \in 1 .. N |-> v(i)]
  BY DEF Overlay
<1> HIDE DEF N, v
<1> QED
  BY <1>1, <1>2, <1>3 DEF N, v

\* Two writes, one behind the other, are one; the first may be empty.
OverlayOr(s, at, b) == IF b = <<>> THEN s ELSE Overlay(s, at, b)

LEMMA OverlayOrIs ==
  ASSUME NEW s \in Seq(SdByte), NEW at \in Nat, NEW b \in Seq(SdByte)
  PROVE  OverlayOr(s, at, b) \in Seq(SdByte) /\ (at = Len(s) => Len(OverlayOr(s, at, b)) = at + Len(b))
<1>1. CASE b = <<>>
  <2>1. Len(b) = 0
    BY <1>1
  <2> QED
    BY <1>1, <2>1 DEF OverlayOr
<1>2. CASE b # <<>>
  <2>1. OverlayOr(s, at, b) = Overlay(s, at, b)
    BY <1>2 DEF OverlayOr
  <2>2. Len(b) \in Nat
    BY LenProperties
  <2> QED
    BY <2>1, <2>2, OverlayIs
<1> QED
  BY <1>1, <1>2

LEMMA OverlayTwice ==
  ASSUME NEW s \in Seq(SdByte), NEW at \in Nat, NEW b \in Seq(SdByte), NEW c \in Seq(SdByte)
  PROVE  OverlayOr(OverlayOr(s, at, b), at + Len(b), c) = OverlayOr(s, at, b \o c)
<1> DEFINE f == OverlayOr(s, at, b)
           m == at + Len(b)
<1>1. Len(b) \in Nat /\ Len(c) \in Nat /\ Len(s) \in Nat /\ m \in Nat /\ f \in Seq(SdByte)
  <2>1. Len(b) \in Nat /\ Len(c) \in Nat /\ Len(s) \in Nat
    BY LenProperties
  <2>2. f \in Seq(SdByte)
    BY OverlayOrIs
  <2> HIDE DEF f
  <2> QED
    BY <2>1, <2>2
<1>2. CASE b = <<>>
  <2>1. Len(b) = 0 /\ b \o c = c /\ f = s
    BY <1>2 DEF OverlayOr
  <2>2. m = at
    BY <2>1
  <2> QED
    BY <2>1, <2>2
<1>3. CASE c = <<>>
  <2>1. b \o c = b
    BY <1>3
  <2> QED
    BY <1>3, <2>1 DEF OverlayOr
<1>4. CASE b # <<>> /\ c # <<>>
  <2> DEFINE bc == b \o c
             l == Overlay(f, m, c)
             r == Overlay(s, at, bc)
  <2>1. /\ bc \in Seq(SdByte) /\ Len(bc) = Len(b) + Len(c) /\ bc # <<>>
        /\ \A i \in 1 .. Len(b) + Len(c) : bc[i] = IF i <= Len(b) THEN b[i] ELSE c[i - Len(b)]
    BY <1>4, ConcatProperties
  <2>2. f = Overlay(s, at, b)
    BY <1>4 DEF OverlayOr
  <2>3. /\ Len(f) = (IF m > Len(s) THEN m ELSE Len(s))
        /\ \A i \in 1 .. Len(f) : f[i] =
             IF i > at /\ i <= m THEN b[i - at] ELSE IF i <= Len(s) THEN s[i] ELSE "zero"
    BY <2>2, OverlayIs
  <2> HIDE DEF f, m, bc
  <2>4. /\ l \in Seq(SdByte) /\ Len(l) = (IF m + Len(c) > Len(f) THEN m + Len(c) ELSE Len(f))
        /\ \A i \in 1 .. Len(l) : l[i] =
             IF i > m /\ i <= m + Len(c) THEN c[i - m] ELSE IF i <= Len(f) THEN f[i] ELSE "zero"
    BY <1>1, OverlayIs
  <2>5. /\ r \in Seq(SdByte) /\ Len(r) = (IF at + Len(bc) > Len(s) THEN at + Len(bc) ELSE Len(s))
        /\ \A i \in 1 .. Len(r) : r[i] =
             IF i > at /\ i <= at + Len(bc) THEN bc[i - at] ELSE IF i <= Len(s) THEN s[i] ELSE "zero"
    BY <2>1, OverlayIs
  <2> HIDE DEF l, r
  <2>6. Len(l) = Len(r) /\ at + Len(bc) = m + Len(c) /\ Len(l) \in Nat
    <3>1. at + Len(bc) = m + Len(c)
      BY <1>1, <2>1 DEF m
    <3>2. Len(f) \in Nat /\ Len(f) = (IF m > Len(s) THEN m ELSE Len(s))
      BY <1>1, <2>3
    <3>3. Len(l) = (IF m + Len(c) > Len(f) THEN m + Len(c) ELSE Len(f))
      BY <2>4
    <3>4. Len(r) = (IF m + Len(c) > Len(s) THEN m + Len(c) ELSE Len(s))
      BY <2>5, <3>1
    <3>5. Len(l) = Len(r)
      <4>1. CASE m > Len(s)
        <5>1. m + Len(c) > Len(s) /\ Len(f) = m
          BY <1>1, <3>2, <4>1
        <5>2. m + Len(c) > m \/ m + Len(c) = m
          BY <1>1
        <5>3. Len(l) = m + Len(c)
          BY <3>3, <5>1, <5>2
        <5> QED
          BY <3>4, <5>1, <5>3
      <4>2. CASE ~(m > Len(s))
        <5>1. Len(f) = Len(s)
          BY <3>2, <4>2
        <5> QED
          BY <3>3, <3>4, <5>1
      <4> QED
        BY <4>1, <4>2
    <3>6. Len(l) \in Nat
      BY <2>4, LenProperties
    <3> QED
      BY <3>1, <3>5, <3>6
  <2>7. ASSUME NEW i \in 1 .. Len(l) PROVE l[i] = r[i]
    <3>1. CASE i > m /\ i <= m + Len(c)
      <4>1. i - at \in 1 .. Len(b) + Len(c) /\ ~(i - at <= Len(b)) /\ (i - at) - Len(b) = i - m /\ i > at
        BY <1>1, <2>6, <3>1 DEF m
      <4> QED
        BY <2>1, <2>4, <2>5, <2>6, <3>1, <4>1
    <3>2. CASE i > at /\ i <= m
      <4>1. i - at \in 1 .. Len(b) + Len(c) /\ i - at <= Len(b) /\ i \in 1 .. Len(f) /\ ~(i > m) /\ i <= m + Len(c)
        BY <1>1, <2>3, <2>6, <3>2 DEF m
      <4>2. l[i] = b[i - at]
        BY <2>3, <2>4, <3>2, <4>1
      <4>3. r[i] = b[i - at]
        BY <2>1, <2>5, <2>6, <3>2, <4>1
      <4> QED
        BY <4>2, <4>3
    <3>3. CASE ~(i > at) \/ i > m + Len(c)
      <4>1. ~(i > m /\ i <= m + Len(c)) /\ ~(i > at /\ i <= m) /\ i \in Nat
        BY <1>1, <2>6, <3>3 DEF m
      <4>2. r[i] = IF i <= Len(s) THEN s[i] ELSE "zero"
        BY <2>5, <2>6, <3>3
      <4>3. l[i] = IF i <= Len(f) THEN f[i] ELSE "zero"
        BY <2>4, <4>1
      <4>4. i <= Len(s) => i <= Len(f)
        BY <1>1, <2>3, <4>1
      <4>5. CASE i <= Len(f)
        <5>1. i \in 1 .. Len(f)
          BY <1>1, <2>6, <4>5
        <5> QED
          BY <2>3, <4>1, <4>2, <4>3, <5>1
      <4>6. CASE ~(i <= Len(f))
        BY <4>2, <4>3, <4>4, <4>6
      <4> QED
        BY <4>5, <4>6
    <3> QED
      BY <1>1, <2>6, <3>1, <3>2, <3>3 DEF m
  <2>8. l = r
    BY <2>4, <2>5, <2>6, <2>7, SeqEqual
  <2> QED
    BY <1>4, <2>1, <2>8 DEF OverlayOr, l, r, f, m, bc
<1> QED
  BY <1>2, <1>3, <1>4

LEMMA PendingIs ==
  ASSUME SdTypes, SdTurn
  PROVE  /\ SdPending \in Seq(SdByte)
         /\ sdWr = TRUE => Len(SdPending) = sdPos /\ \A i \in 1 .. sdPos : SdPending[i] = sdBuf[i - 1]
         /\ sdWr # TRUE => SdPending = <<>>
<1>1. CASE sdWr = TRUE
  <2> DEFINE r == [i \in 1 .. sdPos |-> sdBuf[i - 1]]
  <2>1. SdPending = r
    BY <1>1, Zenon DEF SdPending
  <2>2. ASSUME NEW i \in 1 .. sdPos PROVE sdBuf[i - 1] \in SdByte
    <3>1. i - 1 \in 0 .. SdBufsiz - 1 /\ i - 1 < sdPos
      BY StdioAssumption DEF SdTypes
    <3> QED
      BY <3>1 DEF SdTurn
  <2>3. sdPos \in Nat
    BY StdioAssumption DEF SdTypes
  <2>4. r \in Seq(SdByte) /\ Len(r) = sdPos /\ \A i \in 1 .. sdPos : r[i] = sdBuf[i - 1]
    BY <2>2, <2>3
  <2> HIDE DEF r
  <2> QED
    BY <1>1, <2>1, <2>4
<1>2. CASE sdWr # TRUE
  <2>1. sdWr = FALSE
    BY <1>2 DEF SdTypes
  <2>2. SdPending = <<>>
    BY <2>1, Zenon DEF SdPending
  <2>3. <<>> \in Seq(SdByte)
    OBVIOUS
  <2> QED
    BY <1>2, <2>2, <2>3, Zenon
<1> QED
  BY <1>1, <1>2

\* Where a write ends.
Ending(off, at, b) == IF b = <<>> THEN off ELSE at + Len(b)

LEMMA FlushedIs ==
  ASSUME SdTypes, SdTurn
  PROVE  /\ WriteAt \in Nat
         /\ SdFlushed = OverlayOr(sdFile, WriteAt, SdPending) /\ SdFlushed \in Seq(SdByte)
         /\ SdMoved = Ending(sdOff, WriteAt, SdPending) /\ SdMoved \in Nat
<1>1. WriteAt \in Nat
  <2>1. Len(sdFile) \in Nat /\ sdOff \in Nat
    BY LenProperties DEF SdTypes
  <2> QED
    BY <2>1 DEF WriteAt
<1>2. SdFlushed = OverlayOr(sdFile, WriteAt, SdPending) /\ SdMoved = Ending(sdOff, WriteAt, SdPending)
  BY DEF SdFlushed, SdMoved, OverlayOr, Ending
<1>3. SdPending \in Seq(SdByte) /\ sdFile \in Seq(SdByte) /\ sdOff \in Nat
  BY PendingIs DEF SdTypes
<1>4. Len(SdPending) \in Nat
  BY <1>3, LenProperties
<1> QED
  BY <1>1, <1>2, <1>3, <1>4, OverlayOrIs DEF Ending

LEMMA WriteIs ==
  ASSUME sdFile \in Seq(SdByte), sdOff \in Nat, NEW b \in Seq(SdByte), SdWrite(b)
  PROVE  /\ sdFile' = OverlayOr(sdFile, WriteAt, b) /\ sdFile' \in Seq(SdByte)
         /\ sdOff' = Ending(sdOff, WriteAt, b) /\ sdOff' \in Nat
<1>1. WriteAt \in Nat
  <2>1. Len(sdFile) \in Nat
    BY LenProperties
  <2> QED
    BY <2>1 DEF WriteAt
<1>2. sdFile' = OverlayOr(sdFile, WriteAt, b) /\ sdOff' = Ending(sdOff, WriteAt, b)
  BY DEF SdWrite, OverlayOr, Ending
<1>3. Len(b) \in Nat
  BY LenProperties
<1> QED
  BY <1>1, <1>2, <1>3, OverlayOrIs DEF Ending

\* Either all is written, or a write is cut.
LEMMA WroteIs ==
  ASSUME SdTypes, NEW b \in Seq(SdByte), Wrote(b)
  PROVE  /\ sdFile' \in Seq(SdByte) /\ sdOff' \in Nat /\ sdCut' \in BOOLEAN
         /\ sdCut' = FALSE =>
              /\ sdCut = FALSE /\ sdFile' = OverlayOr(sdFile, WriteAt, b) /\ sdOff' = Ending(sdOff, WriteAt, b)
<1>0. sdFile \in Seq(SdByte) /\ sdOff \in Nat /\ sdCut \in BOOLEAN
  BY DEF SdTypes
<1>1. CASE SdWrite(b) /\ UNCHANGED sdCut
  BY <1>0, <1>1, WriteIs
<1>2. ASSUME NEW n \in 0 .. Len(b) - 1, SdWrite(SubSeq(b, 1, n)), sdCut' = TRUE
      PROVE  sdFile' \in Seq(SdByte) /\ sdOff' \in Nat /\ sdCut' \in BOOLEAN /\ sdCut' # FALSE
  <2>1. SubSeq(b, 1, n) \in Seq(SdByte)
    <3>1. \A i \in 1 .. n : i \in 1 .. Len(b)
      BY LenProperties
    <3>2. \A i \in 1 .. n : b[i] \in SdByte
      BY <3>1, ElementOfSeq
    <3>3. 1 \in Int /\ n \in Int
      BY LenProperties
    <3> QED
      BY <3>2, <3>3, SubSeqProperties
  <2> QED
    BY <1>0, <1>2, <2>1, WriteIs
<1> QED
  BY <1>1, <1>2, Zenon DEF Wrote

LEMMA SdFopenInv ==
  ASSUME SdInv, NEW m \in SdModes, NEW trunc \in BOOLEAN, Fopen(m, trunc)
  PROVE  SdInv'
<1>1. sdFile' \in Seq(SdByte) /\ sdOff' \in Nat /\ sdText' = sdFile' /\ sdAt' = sdOff'
  <2>1. sdFile \in Seq(SdByte) /\ Len(sdFile) \in Nat
    BY LenProperties DEF SdInv, SdTypes
  <2>2. sdFile' = sdFile \/ sdFile' = <<>>
    BY DEF Fopen
  <2>3. sdOff' = Len(sdFile) \/ sdOff' = 0
    BY DEF Fopen
  <2> QED
    BY <2>1, <2>2, <2>3 DEF Fopen
<1>2. sdBuf' \in [0 .. SdBufsiz - 1 -> SdByte \cup {SdEof}]
  BY DEF Fopen, NoBuf
<1>3. /\ sdPos' = 0 /\ sdIn' = 0 /\ sdWr' = FALSE /\ sdUn' = SdEof /\ sdGot' = SdEof /\ sdWant' = SdEof
      /\ sdLast' = "none" /\ sdCut' = FALSE /\ sdSpoilt' = FALSE /\ sdMode' = m /\ m # {}
  BY DEF Fopen, SdModes
<1>4. SdTypes'
  BY <1>1, <1>2, <1>3, StdioAssumption DEF SdTypes
<1>5. SdTurn'
  BY <1>3 DEF SdTurn
<1>6. SdAhead'
  <2>1. Pushed' = 0
    BY <1>3 DEF Pushed
  <2>2. sdAt' = sdOff' - (sdIn' - sdPos') - Pushed'
    <3>1. sdIn' - sdPos' = 0
      BY <1>3
    <3>2. sdOff' - 0 - 0 = sdOff'
      <4>1. \A x \in Nat : x - 0 - 0 = x
        OBVIOUS
      <4> QED
        BY <1>1, <4>1
    <3> QED
      BY <1>1, <2>1, <3>1, <3>2, Zenon
  <2>3. \A i \in 0 .. SdBufsiz - 1 : ~(i < sdIn')
    BY <1>3, StdioAssumption
  <2> QED
    BY <1>1, <1>3, <2>2, <2>3 DEF SdAhead
<1> QED
  BY <1>1, <1>3, <1>4, <1>5, <1>6 DEF SdInv, SdKnown

LEMMA SdUngetcInv == ASSUME SdInv, Ungetc PROVE SdInv'
<1>1. SdTypes'
  BY DEF SdInv, SdTypes, Ungetc
<1>2. SdTurn'
  BY DEF SdInv, SdTurn, Ungetc
<1>3. SUFFICES ASSUME SdClean' PROVE SdKnown'
  BY <1>1, <1>2 DEF SdInv
<1>4. SdKnown
  BY <1>3 DEF SdInv, SdClean, Ungetc
<1>5. CASE sdMode # {}
  <2>1. SdAhead
    BY <1>4, <1>5 DEF SdKnown, Ungetc
  <2>2. /\ sdUn = SdEof /\ sdUn' = sdGot /\ sdGot # SdEof /\ sdAt' = sdAt - 1 /\ sdLast = "read" /\ sdLast' = "unget"
        /\ UNCHANGED <<sdFile, sdOff, sdMode, sdBuf, sdPos, sdIn, sdText>> /\ sdGot' = SdEof /\ sdWant' = SdEof
    BY DEF Ungetc
  <2>3. sdAt = sdOff - (sdIn - sdPos) /\ sdAt \in Int /\ sdAt >= 1 /\ sdAt <= Len(sdText) /\ sdGot = sdText[sdAt]
    <3>1. Pushed = 0 /\ sdOff \in Int /\ sdIn \in Int /\ sdPos \in Int
      BY <2>2 DEF Pushed, SdInv, SdTypes
    <3> QED
      BY <2>1, <2>2, <3>1 DEF SdAhead
  <2>4. sdAt' >= 0 /\ sdAt' < Len(sdText') /\ sdUn' = sdText'[sdAt' + 1]
    <3>1. sdAt' + 1 = sdAt /\ Len(sdText) \in Nat /\ sdText' = sdText
      BY <2>1, <2>2, <2>3, LenProperties DEF SdInv, SdTypes, SdAhead
    <3>2. sdAt' >= 0 /\ sdAt' < Len(sdText)
      BY <2>2, <2>3, <3>1
    <3> QED
      BY <2>2, <2>3, <3>1, <3>2
  <2>5. Pushed' = 1
    BY <2>2 DEF Pushed
  <2>6. SdAhead'
    BY <2>1, <2>2, <2>3, <2>4, <2>5 DEF SdAhead
  <2> QED
    BY <1>5, <2>2, <2>6 DEF SdKnown
<1>6. CASE sdMode = {}
  BY <1>6 DEF SdInv, SdTurn, Ungetc
<1> QED
  BY <1>5, <1>6

PendingKnown ==
  /\ SdPending \in Seq(SdByte)
  /\ sdWr = TRUE => Len(SdPending) = sdPos /\ \A i \in 1 .. sdPos : SdPending[i] = sdBuf[i - 1]
  /\ sdWr # TRUE => SdPending = <<>>
LEMMA PendingThen == SdTypes' /\ SdTurn' => PendingKnown'
<1>1. SdTypes /\ SdTurn => PendingKnown
  BY PendingIs DEF PendingKnown
<1> QED
  BY <1>1, PTL

FlushedKnown ==
  /\ WriteAt \in Nat
  /\ SdFlushed = OverlayOr(sdFile, WriteAt, SdPending)
  /\ SdMoved = Ending(sdOff, WriteAt, SdPending)
LEMMA FlushedThen == SdTypes' /\ SdTurn' => FlushedKnown'
<1>1. SdTypes /\ SdTurn => FlushedKnown
  BY FlushedIs DEF FlushedKnown
<1> QED
  BY <1>1, PTL

LEMMA ConcatIs ==
  ASSUME NEW S, NEW b \in Seq(S), NEW c \in Seq(S)
  PROVE  /\ b \o c \in Seq(S) /\ Len(b \o c) = Len(b) + Len(c) /\ Len(b) \in Nat /\ Len(c) \in Nat
         /\ b \o <<>> = b /\ <<>> \o b = b
<1>1. b \o c \in Seq(S) /\ Len(b \o c) = Len(b) + Len(c)
  BY ConcatProperties
<1>2. Len(b) \in Nat /\ Len(c) \in Nat
  BY LenProperties
<1> QED
  BY <1>1, <1>2

\* The first n bytes of a buffer.
Cells(buf, n) == [i \in 1 .. n |-> buf[i - 1]]

LEMMA CellsIs ==
  ASSUME NEW buf, NEW n \in Nat, \A i \in 0 .. n - 1 : buf[i] \in SdByte
  PROVE  Cells(buf, n) \in Seq(SdByte) /\ Len(Cells(buf, n)) = n /\ \A i \in 1 .. n : Cells(buf, n)[i] = buf[i - 1]
<1>1. \A i \in 1 .. n : i - 1 \in 0 .. n - 1
  OBVIOUS
<1>2. \A i \in 1 .. n : buf[i - 1] \in SdByte
  BY <1>1
<1> QED
  BY <1>2 DEF Cells

LEMMA CellsPut ==
  ASSUME NEW buf \in [0 .. SdBufsiz - 1 -> SdByte \cup {SdEof}], NEW n \in 0 .. SdBufsiz - 1,
         \A i \in 0 .. n - 1 : buf[i] \in SdByte, NEW c \in SdByte
  PROVE  LET put == [buf EXCEPT ![n] = c]
         IN  /\ put \in [0 .. SdBufsiz - 1 -> SdByte \cup {SdEof}]
             /\ \A i \in 0 .. n : put[i] \in SdByte
             /\ Cells(put, n + 1) \in Seq(SdByte) /\ Cells(put, n + 1) = Cells(buf, n) \o <<c>>
<1> DEFINE put == [buf EXCEPT ![n] = c]
<1>0. n \in Nat /\ (n + 1) - 1 = n
  BY StdioAssumption
<1>1. put \in [0 .. SdBufsiz - 1 -> SdByte \cup {SdEof}] /\ put[n] = c
  OBVIOUS
<1>2. \A i \in 0 .. n - 1 : put[i] = buf[i]
  BY StdioAssumption
<1> HIDE DEF put
<1>3. \A i \in 0 .. n : i = n \/ i \in 0 .. n - 1
  BY <1>0
<1>4. \A i \in 0 .. n : put[i] \in SdByte
  BY <1>1, <1>2, <1>3
<1>5. Cells(put, n + 1) \in Seq(SdByte) /\ Len(Cells(put, n + 1)) = n + 1 /\ \A i \in 1 .. n + 1 : Cells(put, n + 1)[i] = put[i - 1]
  BY <1>0, <1>4, CellsIs
<1>6. Cells(buf, n) \in Seq(SdByte) /\ Len(Cells(buf, n)) = n /\ \A i \in 1 .. n : Cells(buf, n)[i] = buf[i - 1]
  BY <1>0, CellsIs
<1> DEFINE l == Cells(put, n + 1)
           r == Cells(buf, n)
           e == <<c>>
<1>7. e \in Seq(SdByte) /\ Len(e) = 1 /\ e[1] = c
  OBVIOUS
<1> HIDE DEF l, r, e
<1>8. /\ r \o e \in Seq(SdByte) /\ Len(r \o e) = n + 1
      /\ \A i \in 1 .. n + 1 : (r \o e)[i] = IF i <= n THEN r[i] ELSE e[i - n]
  <2>1. r \in Seq(SdByte) /\ Len(r) = n
    BY <1>6 DEF r
  <2>2. /\ r \o e \in Seq(SdByte) /\ Len(r \o e) = Len(r) + Len(e)
        /\ \A i \in 1 .. Len(r) + Len(e) : (r \o e)[i] = IF i <= Len(r) THEN r[i] ELSE e[i - Len(r)]
    BY <1>7, <2>1, ConcatProperties
  <2>3. Len(r) + Len(e) = n + 1
    BY <1>7, <2>1
  <2> QED
    BY <2>1, <2>2, <2>3, Zenon
<1>9. ASSUME NEW i \in 1 .. n + 1 PROVE l[i] = (r \o e)[i]
  <2>1. CASE i <= n
    <3>1. i \in 1 .. n /\ i - 1 \in 0 .. n - 1
      BY <1>0, <2>1
    <3> QED
      BY <1>2, <1>5, <1>6, <1>8, <2>1, <3>1 DEF l, r
  <2>2. CASE i = n + 1
    <3>1. ~(i <= n) /\ i - n = 1 /\ i - 1 = n
      BY <1>0, <2>2
    <3> QED
      BY <1>1, <1>5, <1>7, <1>8, <3>1 DEF l
  <2>3. i <= n \/ i = n + 1
    BY <1>0
  <2> QED
    BY <2>1, <2>2, <2>3
<1>10. l = r \o e
  BY <1>5, <1>8, <1>9, SeqEqual DEF l
<1> QED
  BY <1>1, <1>4, <1>5, <1>10 DEF put, l, r, e

\* Where the next write goes after one.
LEMMA WriteAtThen ==
  ASSUME SdTypes, NEW b \in Seq(SdByte), sdMode' = sdMode,
         sdFile' = OverlayOr(sdFile, WriteAt, b), sdOff' = Ending(sdOff, WriteAt, b)
  PROVE  WriteAt \in Nat /\ WriteAt' = WriteAt + Len(b)
<1>1. sdFile \in Seq(SdByte) /\ sdOff \in Nat /\ Len(sdFile) \in Nat /\ Len(b) \in Nat
  BY LenProperties DEF SdTypes
<1>2. WriteAt \in Nat
  BY <1>1 DEF WriteAt
<1>3. CASE "a" \in sdMode
  <2>1. WriteAt = Len(sdFile) /\ WriteAt' = Len(sdFile')
    BY <1>3, Zenon DEF WriteAt
  <2>2. Len(sdFile') = WriteAt + Len(b)
    BY <1>1, <1>2, <2>1, OverlayOrIs
  <2> QED
    BY <1>2, <2>1, <2>2
<1>4. CASE "a" \notin sdMode
  <2>1. WriteAt = sdOff /\ WriteAt' = sdOff'
    BY <1>4, Zenon DEF WriteAt
  <2>2. b = <<>> => Len(b) = 0
    OBVIOUS
  <2> QED
    BY <1>1, <1>2, <2>1, <2>2 DEF Ending
<1> QED
  BY <1>3, <1>4

\* When the program may write: nothing was read ahead.
LEMMA WriteReady ==
  ASSUME SdTypes, SdTurn, SdKnown, sdMode # {}, sdLast # "unget", sdLast = "read" => sdGot = SdEof
  PROVE  /\ sdIn = 0 /\ sdUn = SdEof /\ (sdWr = TRUE \/ sdPos = 0) /\ SdPending \in Seq(SdByte)
         /\ SdPending = Cells(sdBuf, sdPos) /\ SdBehind
<1>1. PendingKnown /\ FlushedKnown
  BY PendingIs, FlushedIs DEF PendingKnown, FlushedKnown
<1>2. sdIn = 0 /\ (sdWr = TRUE \/ sdPos = 0)
  <2>1. CASE sdLast = "write"
    BY <2>1 DEF SdTurn
  <2>2. CASE sdLast # "write"
    <3>1. sdIn = 0
      BY <2>2 DEF SdTurn, SdTypes
    <3>2. sdPos <= sdIn /\ sdPos \in Nat
      BY <2>2, StdioAssumption DEF SdTurn, SdTypes
    <3> QED
      BY <3>1, <3>2
  <2> QED
    BY <2>1, <2>2
<1>3. SdPending = Cells(sdBuf, sdPos)
  <2>1. CASE sdWr = TRUE
    BY <2>1, Zenon DEF SdPending, Cells
  <2>2. CASE sdWr # TRUE
    <3>1. SdPending = <<>> /\ sdPos = 0
      BY <1>1, <1>2, <2>2 DEF PendingKnown
    <3>2. Cells(sdBuf, 0) = <<>>
      BY DEF Cells
    <3> QED
      BY <3>1, <3>2
  <2> QED
    BY <2>1, <2>2
<1>4. SdBehind
  <2>1. CASE sdLast = "write"
    BY <2>1 DEF SdKnown
  <2>2. CASE sdLast # "write"
    <3>1. SdAhead
      BY <2>2 DEF SdKnown
    <3>2. sdPos = 0
      BY <1>2, <2>2, StdioAssumption DEF SdTurn, SdTypes
    <3>3. SdPending = <<>>
      BY <1>3, <3>2 DEF Cells
    <3>4. SdFlushed = sdFile /\ SdMoved = sdOff
      BY <3>3 DEF SdFlushed, SdMoved
    <3>5. sdUn = SdEof /\ Pushed = 0
      BY <3>1 DEF SdAhead, Pushed
    <3>6. sdAt = sdOff
      <4>1. sdAt = sdOff - (0 - 0) - 0 /\ sdOff \in Nat
        BY <1>2, <3>1, <3>2, <3>5 DEF SdAhead, SdTypes
      <4> QED
        BY <4>1
    <3> QED
      BY <3>1, <3>4, <3>5, <3>6 DEF SdBehind, SdAhead
  <2> QED
    BY <2>1, <2>2
<1> QED
  BY <1>1, <1>2, <1>3, <1>4 DEF SdBehind, PendingKnown

LEMMA WrittenText ==
  ASSUME SdTypes, SdTurn, SdBehind, NEW c \in SdByte, SdWritten(c)
  PROVE  /\ sdText' = OverlayOr(sdFile, WriteAt, SdPending \o <<c>>)
         /\ sdAt' = WriteAt + Len(SdPending) + 1
<1>1. PendingKnown /\ FlushedKnown
  BY PendingIs, FlushedIs DEF PendingKnown, FlushedKnown
<1> DEFINE P == SdPending
           T == IF "a" \in sdMode THEN Len(sdText) ELSE sdAt
           e == <<c>>
<1>2. /\ P \in Seq(SdByte) /\ Len(P) \in Nat /\ WriteAt \in Nat /\ sdFile \in Seq(SdByte) /\ sdOff \in Nat
      /\ e \in Seq(SdByte) /\ e # <<>>
  BY <1>1, LenProperties DEF PendingKnown, FlushedKnown, SdTypes
<1> HIDE DEF e
<1>3. sdText = OverlayOr(sdFile, WriteAt, P) /\ sdAt = Ending(sdOff, WriteAt, P)
  BY <1>1 DEF SdBehind, FlushedKnown
<1>4. T = WriteAt + Len(P)
  <2>1. CASE "a" \in sdMode
    <3>1. WriteAt = Len(sdFile)
      BY <2>1 DEF WriteAt
    <3>2. Len(sdText) = WriteAt + Len(P)
      BY <1>2, <1>3, <3>1, OverlayOrIs
    <3> QED
      BY <2>1, <3>2
  <2>2. CASE "a" \notin sdMode
    <3>1. WriteAt = sdOff
      BY <2>2 DEF WriteAt
    <3>2. P = <<>> => Len(P) = 0
      OBVIOUS
    <3>3. sdAt = WriteAt + Len(P)
      BY <1>2, <1>3, <3>1, <3>2 DEF Ending
    <3> QED
      BY <2>2, <3>3
  <2> QED
    BY <2>1, <2>2
<1>5. sdText' = Overlay(sdText, T, e) /\ sdAt' = T + 1
  BY DEF SdWritten, e
<1>6. sdText' = OverlayOr(sdText, T, e)
  BY <1>2, <1>5 DEF OverlayOr
<1> HIDE DEF P, T
<1>7. sdText' = OverlayOr(sdFile, WriteAt, P \o e)
  BY <1>2, <1>3, <1>4, <1>6, OverlayTwice
<1> QED
  BY <1>4, <1>5, <1>7 DEF P, e

\* What comes out of a write: all that was buffered and the new byte are in the
\* file or in the buffer.
LEMMA FputcKept ==
  ASSUME SdTypes, SdTurn, SdBehind, SdTypes', SdTurn', NEW c \in SdByte, SdWritten(c), sdMode' = sdMode,
         NEW out \in Seq(SdByte), NEW rest \in Seq(SdByte), SdPending \o <<c>> = out \o rest, SdPending' = rest,
         sdFile' = OverlayOr(sdFile, WriteAt, out), sdOff' = Ending(sdOff, WriteAt, out), sdUn' = SdEof
  PROVE  SdBehind'
<1>1. WriteAt \in Nat /\ WriteAt' = WriteAt + Len(out)
  BY WriteAtThen
<1>2. SdFlushed' = OverlayOr(sdFile', WriteAt', rest) /\ SdMoved' = Ending(sdOff', WriteAt', rest)
  <2>1. FlushedKnown'
    BY FlushedThen
  <2> QED
    BY <2>1 DEF FlushedKnown
<1>3. sdFile \in Seq(SdByte) /\ SdPending \in Seq(SdByte)
  BY PendingIs DEF SdTypes
<1>4. SdFlushed' = sdText'
  <2>1. OverlayOr(OverlayOr(sdFile, WriteAt, out), WriteAt + Len(out), rest) = OverlayOr(sdFile, WriteAt, out \o rest)
    BY <1>1, <1>3, OverlayTwice
  <2>2. sdText' = OverlayOr(sdFile, WriteAt, SdPending \o <<c>>)
    BY WrittenText
  <2> QED
    BY <1>1, <1>2, <2>1, <2>2, Zenon
<1>5. SdMoved' = sdAt'
  <2> DEFINE e == <<c>>
  <2>1. sdAt' = WriteAt + Len(SdPending) + 1
    BY WrittenText
  <2>2. Len(SdPending \o e) = Len(SdPending) + 1 /\ Len(SdPending) \in Nat
    <3>1. e \in Seq(SdByte) /\ Len(e) = 1
      OBVIOUS
    <3> HIDE DEF e
    <3>2. Len(SdPending \o e) = Len(SdPending) + Len(e) /\ Len(SdPending) \in Nat
      BY <1>3, <3>1, ConcatIs
    <3> QED
      BY <3>1, <3>2
  <2>3. Len(out \o rest) = Len(out) + Len(rest) /\ Len(out) \in Nat /\ Len(rest) \in Nat
    BY ConcatIs
  <2>4. Len(out) + Len(rest) = Len(SdPending) + 1
    BY <2>2, <2>3, Zenon
  <2> HIDE DEF e
  <2>5. CASE rest = <<>>
    <3>1. Len(rest) = 0
      BY <2>5
    <3>2. out # <<>>
      <4> SUFFICES ASSUME out = <<>> PROVE FALSE
        OBVIOUS
      <4>1. Len(out) = 0
        OBVIOUS
      <4> QED
        BY <2>2, <2>4, <3>1, <4>1
    <3>3. SdMoved' = WriteAt + Len(out)
      BY <1>2, <2>5, <3>2 DEF Ending
    <3>4. Len(out) = Len(SdPending) + 1
      <4>1. Len(out) + 0 = Len(SdPending) + 1 /\ Len(out) \in Nat
        BY <2>3, <2>4, <3>1, Zenon
      <4> HIDE DEF SdPending
      <4> QED
        BY ONLY <4>1
    <3> QED
      BY <1>1, <2>1, <2>2, <2>3, <3>3, <3>4
  <2>6. CASE rest # <<>>
    <3>1. SdMoved' = (WriteAt + Len(out)) + Len(rest)
      BY <1>1, <1>2, <2>6 DEF Ending
    <3>2. SdMoved' = WriteAt + (Len(out) + Len(rest))
      BY <1>1, <2>3, <3>1
    <3>3. SdMoved' = WriteAt + (Len(SdPending) + 1)
      BY <2>4, <3>2
    <3> QED
      BY <1>1, <2>1, <2>2, <3>3
  <2> QED
    BY <2>5, <2>6
<1> QED
  BY <1>4, <1>5 DEF SdBehind

\* An unbuffered stream.
FputcAtOnce(c) == sdBm = "none" /\ Wrote(<<c>>) /\ UNCHANGED <<sdBuf, sdPos, sdIn, sdWr>>
\* A buffered one: what goes out of a full buffer, and behind the end of a line.
FputcOut  == IF sdPos = SdBufsiz THEN Cells(sdBuf, SdBufsiz) ELSE <<>>
FputcPos  == IF sdPos = SdBufsiz THEN 0 ELSE sdPos
FputcBuf(c) == [sdBuf EXCEPT ![FputcPos] = c]
FputcLine(c) == IF EndsLine(c) THEN Cells(FputcBuf(c), FputcPos + 1) ELSE <<>>
FputcLater(c) ==
  /\ sdBm # "none" /\ sdWr' = TRUE /\ sdIn' = 0
  /\ sdBuf' = FputcBuf(c) /\ Wrote(FputcOut \o FputcLine(c))
  /\ sdPos' = IF FputcLine(c) # <<>> \/ sdCut' # sdCut THEN 0 ELSE FputcPos + 1

LEMMA FputcIs ==
  ASSUME NEW c, Fputc(c)
  PROVE  /\ "w" \in sdMode /\ sdLast # "unget" /\ (sdLast = "read" => sdGot = SdEof)
         /\ SdWritten(c) /\ sdLast' = "write" /\ (FputcAtOnce(c) \/ FputcLater(c))
         /\ Answered /\ UNCHANGED <<sdMode, sdBm, sdUn, sdSpoilt>>
<1>1. FputcAtOnce(c) \/ FputcLater(c)
  BY Zenon DEF Fputc, FputcAtOnce, FputcLater, FputcOut, FputcPos, FputcBuf, FputcLine, Cells
<1> QED
  BY <1>1 DEF Fputc

LEMMA FputcParts ==
  ASSUME SdTypes, SdTurn, NEW c \in SdByte
  PROVE  /\ FputcOut \in Seq(SdByte) /\ FputcLine(c) \in Seq(SdByte) /\ FputcPos \in 0 .. SdBufsiz - 1
         /\ FputcBuf(c) \in [0 .. SdBufsiz - 1 -> SdByte \cup {SdEof}]
         /\ \A i \in 0 .. FputcPos : FputcBuf(c)[i] \in SdByte
         /\ Cells(FputcBuf(c), FputcPos + 1) \in Seq(SdByte)
         /\ Cells(sdBuf, sdPos) \o <<c>> = FputcOut \o Cells(FputcBuf(c), FputcPos + 1)
<1>1. SdBufsiz \in Nat /\ SdBufsiz > 0 /\ sdPos \in 0 .. SdBufsiz /\ sdPos \in Nat
  BY StdioAssumption DEF SdTypes
<1>2. FputcPos \in 0 .. SdBufsiz - 1 /\ FputcPos <= sdPos /\ FputcPos \in Nat
  <2>1. CASE sdPos = SdBufsiz
    BY <1>1, <2>1 DEF FputcPos
  <2>2. CASE sdPos # SdBufsiz
    BY <1>1, <2>2 DEF FputcPos
  <2> QED
    BY <2>1, <2>2
<1>3. \A i \in 0 .. sdPos - 1 : sdBuf[i] \in SdByte
  <2>1. \A i \in 0 .. sdPos - 1 : i \in 0 .. SdBufsiz - 1 /\ i < sdPos
    BY <1>1
  <2> QED
    BY <2>1 DEF SdTurn
<1>4. Cells(sdBuf, sdPos) \in Seq(SdByte)
  BY <1>1, <1>3, CellsIs
<1>5. FputcOut \in Seq(SdByte)
  <2>1. CASE sdPos = SdBufsiz
    BY <1>4, <2>1 DEF FputcOut
  <2>2. CASE sdPos # SdBufsiz
    BY <2>2 DEF FputcOut
  <2> QED
    BY <2>1, <2>2
<1>6. \A i \in 0 .. FputcPos - 1 : sdBuf[i] \in SdByte
  <2>1. \A i \in 0 .. FputcPos - 1 : i \in 0 .. sdPos - 1
    BY <1>1, <1>2
  <2> QED
    BY <1>3, <2>1
<1>7. sdBuf \in [0 .. SdBufsiz - 1 -> SdByte \cup {SdEof}]
  BY DEF SdTypes
<1>8. /\ FputcBuf(c) \in [0 .. SdBufsiz - 1 -> SdByte \cup {SdEof}]
      /\ \A i \in 0 .. FputcPos : FputcBuf(c)[i] \in SdByte
      /\ Cells(FputcBuf(c), FputcPos + 1) \in Seq(SdByte)
      /\ Cells(FputcBuf(c), FputcPos + 1) = Cells(sdBuf, FputcPos) \o <<c>>
  BY <1>2, <1>6, <1>7, CellsPut DEF FputcBuf
<1>9. FputcLine(c) \in Seq(SdByte)
  <2>1. CASE EndsLine(c)
    BY <1>8, <2>1, Zenon DEF FputcLine
  <2>2. CASE ~EndsLine(c)
    <3>1. FputcLine(c) = <<>>
      BY <2>2, Zenon DEF FputcLine
    <3> QED
      BY <3>1
  <2> QED
    BY <2>1, <2>2
<1>10. Cells(sdBuf, sdPos) \o <<c>> = FputcOut \o Cells(FputcBuf(c), FputcPos + 1)
  <2>1. CASE sdPos = SdBufsiz
    <3>1. FputcPos = 0 /\ FputcOut = Cells(sdBuf, sdPos)
      BY <2>1 DEF FputcPos, FputcOut
    <3>2. Cells(sdBuf, 0) = <<>> /\ <<>> \o <<c>> = <<c>>
      BY DEF Cells
    <3> QED
      BY <1>8, <3>1, <3>2, Zenon
  <2>2. CASE sdPos # SdBufsiz
    <3>1. FputcPos = sdPos /\ FputcOut = <<>>
      BY <2>2 DEF FputcPos, FputcOut
    <3>2. <<>> \o Cells(FputcBuf(c), FputcPos + 1) = Cells(FputcBuf(c), FputcPos + 1)
      BY <1>8
    <3> QED
      BY <1>8, <3>1, <3>2, Zenon
  <2> QED
    BY <2>1, <2>2
<1> QED
  BY <1>2, <1>5, <1>8, <1>9, <1>10

LEMMA SdFputcInv == ASSUME SdInv, NEW c \in SdBytes, Fputc(c) PROVE SdInv'
<1>0. /\ "w" \in sdMode /\ sdLast # "unget" /\ (sdLast = "read" => sdGot = SdEof)
      /\ SdWritten(c) /\ sdLast' = "write" /\ (FputcAtOnce(c) \/ FputcLater(c))
      /\ sdGot' = SdEof /\ sdWant' = SdEof /\ sdMode' = sdMode /\ sdBm' = sdBm /\ sdUn' = sdUn /\ sdSpoilt' = sdSpoilt
  BY FputcIs DEF Answered
<1>1. SdTypes /\ SdTurn /\ c \in SdByte /\ sdMode # {} /\ sdMode' # {} /\ <<c>> \in Seq(SdByte)
  BY <1>0 DEF SdInv, SdByte, SdContents
<1>2. ASSUME FputcAtOnce(c) PROVE SdInv'
  <2>1. /\ sdFile' \in Seq(SdByte) /\ sdOff' \in Nat /\ sdCut' \in BOOLEAN
        /\ sdCut' = FALSE => /\ sdCut = FALSE /\ sdFile' = OverlayOr(sdFile, WriteAt, <<c>>)
                             /\ sdOff' = Ending(sdOff, WriteAt, <<c>>)
    BY <1>1, <1>2, WroteIs DEF FputcAtOnce
  <2>2. sdPos = 0 /\ sdIn = 0 /\ sdPos' = 0 /\ sdIn' = 0 /\ sdBuf' = sdBuf /\ sdWr' = sdWr
    BY <1>1, <1>2 DEF FputcAtOnce, SdTurn
  <2>3. SdTypes'
    BY <1>0, <1>1, <2>1, <2>2 DEF SdTypes
  <2>4. SdTurn'
    BY <1>0, <1>1, <2>2, StdioAssumption DEF SdTurn
  <2>5. SUFFICES ASSUME SdClean' PROVE SdKnown'
    BY <2>3, <2>4 DEF SdInv
  <2>6. SdKnown
    BY <1>0, <2>1, <2>5 DEF SdInv, SdClean
  <2>7. SdPending = Cells(sdBuf, sdPos) /\ SdBehind /\ sdUn = SdEof
    BY <1>0, <1>1, <2>6, WriteReady
  <2>8. SdPending = <<>>
    BY <2>2, <2>7 DEF Cells
  <2>9. SdPending' = <<>>
    <3>1. PendingKnown'
      BY <2>3, <2>4, PendingThen
    <3>2. CASE sdWr' = TRUE
      BY <2>2, <3>1, <3>2, EmptySeq DEF PendingKnown
    <3>3. CASE sdWr' # TRUE
      BY <3>1, <3>3 DEF PendingKnown
    <3> QED
      BY <3>2, <3>3
  <2>10. <<>> \in Seq(SdByte) /\ SdPending \o <<c>> = <<c>> \o <<>>
    BY <1>1, <2>8
  <2>11. sdCut' = FALSE
    BY <2>5 DEF SdClean
  <2>12. SdBehind'
    BY <1>0, <1>1, <2>1, <2>3, <2>4, <2>7, <2>9, <2>10, <2>11, FputcKept
  <2> QED
    BY <1>0, <1>1, <2>12 DEF SdKnown
<1>3. ASSUME FputcLater(c) PROVE SdInv'
  <2> DEFINE put == FputcBuf(c)
             out == FputcOut
             line == FputcLine(c)
             cells == Cells(put, FputcPos + 1)
  <2>1. /\ out \in Seq(SdByte) /\ line \in Seq(SdByte) /\ FputcPos \in 0 .. SdBufsiz - 1
        /\ put \in [0 .. SdBufsiz - 1 -> SdByte \cup {SdEof}]
        /\ \A i \in 0 .. FputcPos : put[i] \in SdByte
        /\ cells \in Seq(SdByte)
        /\ Cells(sdBuf, sdPos) \o <<c>> = out \o cells
    BY <1>1, FputcParts
  <2>2. /\ sdBm # "none" /\ sdWr' = TRUE /\ sdIn' = 0 /\ sdBuf' = put /\ Wrote(out \o line)
        /\ sdPos' = IF line # <<>> \/ sdCut' # sdCut THEN 0 ELSE FputcPos + 1
    BY <1>3, Zenon DEF FputcLater
  <2>3. line = cells \/ line = <<>>
    BY Zenon DEF FputcLine
  <2> HIDE DEF put, out, line, cells
  <2>4. out \o line \in Seq(SdByte)
    BY <2>1, ConcatIs
  <2>5. /\ sdFile' \in Seq(SdByte) /\ sdOff' \in Nat /\ sdCut' \in BOOLEAN
        /\ sdCut' = FALSE => /\ sdCut = FALSE /\ sdFile' = OverlayOr(sdFile, WriteAt, out \o line)
                             /\ sdOff' = Ending(sdOff, WriteAt, out \o line)
    BY <1>1, <2>2, <2>4, WroteIs
  <2>6. sdPos' = 0 \/ sdPos' = FputcPos + 1
    BY <2>2, Zenon
  <2>7. sdPos' \in 0 .. SdBufsiz /\ \A i \in 0 .. SdBufsiz - 1 : i < sdPos' => i \in 0 .. FputcPos
    BY <2>1, <2>6, StdioAssumption
  <2>8. SdTypes'
    BY <1>0, <1>1, <2>1, <2>2, <2>5, <2>7, StdioAssumption DEF SdTypes
  <2>9. SdTurn'
    <3>1. \A i \in 0 .. SdBufsiz - 1 : i < sdPos' \/ i < sdIn' => sdBuf'[i] \in SdByte
      BY <2>1, <2>2, <2>7, StdioAssumption
    <3> QED
      BY <1>0, <1>1, <2>2, <3>1 DEF SdTurn
  <2>10. SUFFICES ASSUME SdClean' PROVE SdKnown'
    BY <2>8, <2>9 DEF SdInv
  <2>11. sdCut' = FALSE /\ sdCut = FALSE /\ sdFile' = OverlayOr(sdFile, WriteAt, out \o line)
         /\ sdOff' = Ending(sdOff, WriteAt, out \o line)
    BY <2>5, <2>10 DEF SdClean
  <2>12. SdKnown
    BY <1>0, <2>10, <2>11 DEF SdInv, SdClean
  <2>13. SdPending = Cells(sdBuf, sdPos) /\ SdBehind /\ sdUn = SdEof
    BY <1>0, <1>1, <2>12, WriteReady
  <2>14. SdPending \o <<c>> = out \o cells
    BY <2>1, <2>13
  <2>15. PendingKnown'
    BY <2>8, <2>9, PendingThen
  <2>16. CASE line # <<>>
    <3>1. line = cells /\ sdPos' = 0
      BY <2>2, <2>3, <2>16
    <3>2. SdPending' = <<>>
      BY <2>2, <2>15, <3>1, EmptySeq DEF PendingKnown
    <3>3. <<>> \in Seq(SdByte) /\ (out \o line) \o <<>> = out \o line
      BY <2>4
    <3>4. SdPending \o <<c>> = (out \o line) \o <<>>
      BY <2>14, <3>1, <3>3
    <3>5. SdBehind'
      BY <1>0, <1>1, <2>4, <2>8, <2>9, <2>11, <2>13, <3>2, <3>3, <3>4, FputcKept
    <3> QED
      BY <1>0, <1>1, <3>5 DEF SdKnown
  <2>17. CASE line = <<>>
    <3>1. sdPos' = FputcPos + 1
      BY <2>2, <2>11, <2>17
    <3>2. SdPending' = cells
      <4>1. SdPending' = [i \in 1 .. sdPos' |-> sdBuf'[i - 1]]
        BY <2>2, Zenon DEF SdPending
      <4> QED
        BY <2>2, <3>1, <4>1, Zenon DEF cells, Cells
    <3>3. out \o line = out
      BY <2>1, <2>17
    <3>4. sdFile' = OverlayOr(sdFile, WriteAt, out) /\ sdOff' = Ending(sdOff, WriteAt, out)
      BY <2>11, <3>3
    <3>5. SdBehind'
      BY <1>0, <1>1, <2>1, <2>8, <2>9, <2>13, <2>14, <3>2, <3>4, FputcKept
    <3> QED
      BY <1>0, <1>1, <3>5 DEF SdKnown
  <2> QED
    BY <2>16, <2>17
<1> QED
  BY <1>0, <1>2, <1>3

\* Nothing is buffered, and the program is where the descriptor is.
LEMMA AheadFlat ==
  ASSUME SdTypes', sdText' = sdFile', sdAt' = sdOff', sdPos' = 0, sdIn' = 0, sdUn' = SdEof, sdLast' = "none"
  PROVE  SdAhead'
<1>1. Pushed' = 0
  BY DEF Pushed
<1>2. sdAt' = sdOff' - (sdIn' - sdPos') - Pushed'
  <2>1. \A x \in Nat : x - (0 - 0) - 0 = x
    OBVIOUS
  <2>2. sdOff' \in Nat
    BY DEF SdTypes
  <2>3. sdOff' - (0 - 0) - 0 = sdOff'
    BY <2>1, <2>2
  <2> QED
    BY <1>1, <2>3, Zenon
<1>3. \A i \in 0 .. SdBufsiz - 1 : ~(i < sdIn')
  BY StdioAssumption
<1> QED
  BY <1>2, <1>3 DEF SdAhead

LEMMA Emptied ==
  ASSUME SdTypes, SdTurn, sdPos = 0
  PROVE  SdPending = <<>>
<1>1. PendingKnown
  BY PendingIs DEF PendingKnown
<1>2. CASE sdWr = TRUE
  BY <1>1, <1>2, EmptySeq DEF PendingKnown
<1>3. CASE sdWr # TRUE
  BY <1>1, <1>3 DEF PendingKnown
<1> QED
  BY <1>2, <1>3

\* No byte that was read goes out again.
LEMMA NotBackwards ==
  ASSUME SdTypes, SdTurn, ~Backwards, sdLast # "write"
  PROVE  SdPending = <<>> /\ (sdWr = TRUE => sdIn = 0 /\ sdPos = 0)
<1>1. PendingKnown
  BY PendingIs DEF PendingKnown
<1>2. CASE sdWr = TRUE
  <2>1. Len(SdPending) = sdPos /\ sdPos \in Nat /\ sdIn \in Nat
    BY <1>1, <1>2, StdioAssumption DEF PendingKnown, SdTypes
  <2>2. ~(sdIn > 0)
    <3> SUFFICES ASSUME sdIn > 0 PROVE FALSE
      OBVIOUS
    <3>1. sdPos > 0
      BY DEF SdTurn
    <3>2. SdPending # <<>>
      BY <2>1, <3>1, EmptySeq
    <3> QED
      BY <3>2, Zenon DEF Backwards
  <2>3. sdIn = 0 /\ sdPos = 0
    BY <2>1, <2>2 DEF SdTurn
  <2> QED
    BY <2>3, Emptied
<1>3. CASE sdWr # TRUE
  BY <1>1, <1>3 DEF PendingKnown
<1> QED
  BY <1>2, <1>3

LEMMA SdSetvbufInv == ASSUME SdInv, NEW bm \in {"none", "line"}, Setvbuf(bm) PROVE SdInv'
<1>0. SdTypes /\ SdTurn
  BY DEF SdInv
<1>1. /\ sdMode # {} /\ sdLast = "none" /\ Wrote(SdPending)
      /\ sdBuf' = NoBuf /\ sdPos' = 0 /\ sdIn' = 0
      /\ UNCHANGED <<sdMode, sdWr, sdUn, sdText, sdAt, sdGot, sdWant, sdLast>>
  BY DEF Setvbuf, SdOpen
<1>2. sdSpoilt' \in BOOLEAN /\ (sdSpoilt' = FALSE => sdSpoilt = FALSE)
  BY Zenon DEF Setvbuf, SdInv, SdTypes
<1>3. sdIn = 0 /\ sdPos = 0 /\ SdPending = <<>>
  <2>1. sdIn = 0 /\ sdPos = 0
    BY <1>0, <1>1, StdioAssumption DEF SdTypes, SdTurn
  <2> QED
    BY <1>0, <2>1, Emptied
<1>4. /\ sdFile' \in Seq(SdByte) /\ sdOff' \in Nat /\ sdCut' \in BOOLEAN
      /\ sdCut' = FALSE => /\ sdCut = FALSE /\ sdFile' = OverlayOr(sdFile, WriteAt, <<>>)
                           /\ sdOff' = Ending(sdOff, WriteAt, <<>>)
  <2>1. <<>> \in Seq(SdByte) /\ Wrote(<<>>)
    BY <1>1, <1>3
  <2> QED
    BY <1>0, <2>1, WroteIs
<1>5. SdTypes'
  BY <1>0, <1>1, <1>2, <1>4, StdioAssumption DEF SdTypes, NoBuf
<1>6. SdTurn'
  BY <1>0, <1>1, <1>2, StdioAssumption DEF SdTurn
<1>7. SUFFICES ASSUME SdClean' PROVE SdKnown'
  BY <1>5, <1>6 DEF SdInv
<1>8. SdKnown /\ sdFile' = sdFile /\ sdOff' = sdOff
  BY <1>2, <1>4, <1>7 DEF SdInv, SdClean, OverlayOr, Ending
<1>9. SdAhead
  BY <1>1, <1>8 DEF SdKnown
<1>10. sdUn = SdEof /\ sdText = sdFile /\ sdAt = sdOff
  <2>1. sdUn = SdEof /\ Pushed = 0 /\ sdText = sdFile
    BY <1>1, <1>9 DEF SdAhead, Pushed
  <2>2. sdAt = sdOff - (0 - 0) - 0 /\ sdOff \in Nat
    BY <1>0, <1>3, <1>9, <2>1 DEF SdAhead, SdTypes
  <2> QED
    BY <2>1, <2>2
<1>11. SdAhead'
  BY <1>1, <1>5, <1>8, <1>10, AheadFlat
<1> QED
  BY <1>1, <1>8, <1>11 DEF SdKnown

LEMMA SdFflushInv == ASSUME SdInv, Fflush PROVE SdInv'
<1>0. SdTypes /\ SdTurn
  BY DEF SdInv
<1>1. /\ sdMode # {} /\ sdLast = "write" /\ Wrote(SdPending) /\ sdPos' = AfterFlush /\ sdLast' = "none"
      /\ UNCHANGED <<sdMode, sdBm, sdBuf, sdIn, sdWr, sdUn, sdText, sdAt>>
      /\ sdGot' = SdEof /\ sdWant' = SdEof
  BY DEF Fflush, Answered
<1>2. sdSpoilt' \in BOOLEAN /\ (sdSpoilt' = FALSE => sdSpoilt = FALSE)
  BY Zenon DEF Fflush, SdInv, SdTypes
<1>3. sdPos' = 0 /\ sdIn' = 0
  <2>1. sdIn = 0 /\ (sdWr = TRUE \/ sdPos = 0)
    BY <1>0, <1>1 DEF SdTurn
  <2>2. AfterFlush = 0
    BY <2>1, Zenon DEF AfterFlush
  <2> QED
    BY <1>1, <2>1, <2>2
<1>4. /\ sdFile' \in Seq(SdByte) /\ sdOff' \in Nat /\ sdCut' \in BOOLEAN
      /\ sdCut' = FALSE => /\ sdCut = FALSE /\ sdFile' = OverlayOr(sdFile, WriteAt, SdPending)
                           /\ sdOff' = Ending(sdOff, WriteAt, SdPending)
  BY <1>0, <1>1, PendingIs, WroteIs
<1>5. SdTypes'
  BY <1>0, <1>1, <1>2, <1>3, <1>4, StdioAssumption DEF SdTypes
<1>6. SdTurn'
  BY <1>0, <1>1, <1>2, <1>3, StdioAssumption DEF SdTurn
<1>7. SUFFICES ASSUME SdClean' PROVE SdKnown'
  BY <1>5, <1>6 DEF SdInv
<1>8. SdKnown /\ sdFile' = SdFlushed /\ sdOff' = SdMoved
  BY <1>0, <1>2, <1>4, <1>7, FlushedIs DEF SdInv, SdClean
<1>9. SdBehind
  BY <1>1, <1>8 DEF SdKnown
<1>10. SdAhead'
  BY <1>1, <1>3, <1>5, <1>8, <1>9, AheadFlat DEF SdBehind
<1> QED
  BY <1>1, <1>10 DEF SdKnown

\* A flush that spoils nothing leaves the file as it should be.
LEMMA FlushedText ==
  ASSUME SdTypes, SdTurn, SdKnown, sdMode # {}, ~Backwards
  PROVE  /\ SdFlushed = sdText
         /\ sdUn = SdEof => Ftell(SdMoved) = sdAt /\ SdMoved \in Nat
<1>1. CASE sdLast = "write"
  <2>1. SdBehind /\ sdIn = 0 /\ (sdWr = TRUE \/ sdPos = 0) /\ SdMoved \in Nat
    BY <1>1, FlushedIs DEF SdKnown, SdTurn
  <2>2. Ftell(SdMoved) = SdMoved
    <3>1. (IF sdWr THEN 0 ELSE sdPos - sdIn) = 0
      <4>1. CASE sdWr = TRUE
        BY <4>1, Zenon
      <4>2. CASE sdPos = 0
        <5>1. sdPos - sdIn = 0
          BY <2>1, <4>2
        <5> QED
          BY <5>1, Zenon
      <4> QED
        BY <2>1, <4>1, <4>2
    <3>2. (IF sdUn # SdEof THEN 1 ELSE 0) = 0
      BY <2>1 DEF SdBehind
    <3>3. Ftell(SdMoved) = SdMoved + 0 - 0
      BY <3>1, <3>2, Zenon DEF Ftell
    <3>4. \A x \in Nat : x + 0 - 0 = x
      OBVIOUS
    <3>5. SdMoved + 0 - 0 = SdMoved
      BY <2>1, <3>4
    <3> QED
      BY <3>3, <3>5, Zenon
  <2> QED
    BY <2>1, <2>2 DEF SdBehind
<1>2. CASE sdLast # "write"
  <2>1. SdAhead /\ SdPending = <<>> /\ (sdWr = TRUE => sdIn = 0 /\ sdPos = 0) /\ sdOff \in Nat /\ sdPos \in Nat /\ sdIn \in Nat
    BY <1>2, NotBackwards, StdioAssumption DEF SdKnown, SdTypes
  <2>2. SdFlushed = sdFile /\ SdMoved = sdOff
    BY <2>1 DEF SdFlushed, SdMoved
  <2>3. ASSUME sdUn = SdEof PROVE Ftell(sdOff) = sdAt
    <3>1. Pushed = 0
      BY <2>3 DEF Pushed
    <3>2. sdAt = sdOff - (sdIn - sdPos) - 0
      BY <2>1, <3>1 DEF SdAhead
    <3>3. (IF sdWr THEN 0 ELSE sdPos - sdIn) = sdPos - sdIn
      <4>1. CASE sdWr = TRUE
        <5>1. sdPos - sdIn = 0
          BY <2>1, <4>1
        <5> QED
          BY <4>1, <5>1, Zenon
      <4>2. CASE sdWr # TRUE
        <5>1. sdWr = FALSE
          BY <4>2 DEF SdTypes
        <5> QED
          BY <5>1, Zenon
      <4> QED
        BY <4>1, <4>2
    <3>4. (IF sdUn # SdEof THEN 1 ELSE 0) = 0
      BY <2>3
    <3>5. Ftell(sdOff) = sdOff + (sdPos - sdIn) - 0
      BY <3>3, <3>4, Zenon DEF Ftell
    <3>6. sdOff + (sdPos - sdIn) - 0 = sdOff - (sdIn - sdPos) - 0
      BY <2>1
    <3> QED
      BY <3>2, <3>5, <3>6, Zenon
  <2> QED
    BY <2>1, <2>2, <2>3 DEF SdAhead
<1> QED
  BY <1>1, <1>2

LEMMA SdFseekInv ==
  ASSUME SdInv, NEW whence \in {"set", "cur", "end"}, NEW n \in -1 .. 1, Fseek(whence, n)
  PROVE  SdInv'
<1>0. SdTypes /\ SdTurn
  BY DEF SdInv
<1>1. /\ sdMode # {} /\ SeekTo(whence, n) \in 0 .. SdMax
      /\ sdFile' = SdFlushed /\ sdOff' = SeekTo(whence, n) /\ sdAt' = Meant(whence, n)
      /\ sdPos' = 0 /\ sdIn' = 0 /\ sdGot' = SdEof /\ sdWant' = SdEof /\ sdLast' = "none"
      /\ UNCHANGED <<sdMode, sdBm, sdBuf, sdWr, sdUn, sdText, sdCut>>
  BY DEF Fseek, Answered, SdOpen
<1>2. sdSpoilt' \in BOOLEAN /\ (sdSpoilt' = FALSE => sdSpoilt = FALSE /\ ~Backwards /\ ~(sdUn # SdEof))
  BY Zenon DEF Fseek, SdInv, SdTypes
<1>3. SdTypes'
  <2>1. sdFile' \in Seq(SdByte)
    BY <1>0, <1>1, FlushedIs
  <2>2. sdOff' \in Nat
    BY <1>1, StdioAssumption
  <2> QED
    BY <1>0, <1>1, <1>2, <2>1, <2>2, StdioAssumption DEF SdTypes
<1>4. SdTurn'
  BY <1>0, <1>1, <1>2, StdioAssumption DEF SdTurn
<1>5. SUFFICES ASSUME SdClean' PROVE SdKnown'
  BY <1>3, <1>4 DEF SdInv
<1>6. SdKnown /\ ~Backwards /\ sdUn = SdEof
  BY <1>1, <1>2, <1>5 DEF SdInv, SdClean
<1>7. SdFlushed = sdText /\ Ftell(SdMoved) = sdAt
  BY <1>0, <1>1, <1>6, FlushedText
<1>8. SeekTo(whence, n) = Meant(whence, n)
  BY <1>7, Zenon DEF SeekTo, Meant
<1>9. SdAhead'
  BY <1>1, <1>3, <1>6, <1>7, <1>8, AheadFlat
<1> QED
  BY <1>1, <1>9 DEF SdKnown

LEMMA SdFcloseInv == ASSUME SdInv, Fclose PROVE SdInv'
<1>0. SdTypes /\ SdTurn
  BY DEF SdInv
<1>1. /\ sdMode # {} /\ Wrote(SdPending) /\ sdMode' = {}
      /\ sdPos' = 0 /\ sdIn' = 0 /\ sdWr' = FALSE /\ sdUn' = SdEof /\ sdBuf' = NoBuf /\ sdLast' = "none"
      /\ sdGot' = SdEof /\ sdWant' = SdEof /\ UNCHANGED <<sdBm, sdText, sdAt>>
  BY DEF Fclose, Answered, SdOpen
<1>2. sdSpoilt' \in BOOLEAN /\ (sdSpoilt' = FALSE => sdSpoilt = FALSE /\ ~Backwards)
  BY Zenon DEF Fclose, SdInv, SdTypes
<1>3. /\ sdFile' \in Seq(SdByte) /\ sdOff' \in Nat /\ sdCut' \in BOOLEAN
      /\ sdCut' = FALSE => sdCut = FALSE /\ sdFile' = OverlayOr(sdFile, WriteAt, SdPending)
  BY <1>0, <1>1, PendingIs, WroteIs
<1>4. SdTypes'
  BY <1>0, <1>1, <1>2, <1>3, StdioAssumption DEF SdTypes, NoBuf
<1>5. SdTurn'
  BY <1>0, <1>1, <1>2, StdioAssumption DEF SdTurn
<1>6. SUFFICES ASSUME SdClean' PROVE SdKnown'
  BY <1>4, <1>5 DEF SdInv
<1>7. SdKnown /\ ~Backwards /\ sdFile' = SdFlushed
  BY <1>0, <1>2, <1>3, <1>6, FlushedIs DEF SdInv, SdClean
<1>8. SdFlushed = sdText
  BY <1>0, <1>1, <1>7, FlushedText
<1> QED
  BY <1>1, <1>7, <1>8 DEF SdKnown

\* fgetc, by where its answer comes from.
GetPushed   == sdUn # SdEof /\ Answer(sdUn) /\ sdUn' = SdEof /\ UNCHANGED <<sdOff, sdBuf, sdPos, sdIn>>
GetAtOnce   ==
  /\ sdUn = SdEof /\ sdBm = "none" /\ Answer(ByteAt(sdFile, sdOff))
  /\ sdOff' = IF sdOff < Len(sdFile) THEN sdOff + 1 ELSE sdOff
  /\ UNCHANGED <<sdBuf, sdPos, sdIn, sdUn>>
GetBuffered ==
  /\ sdUn = SdEof /\ sdBm # "none" /\ ~UsedUp /\ Answer(sdBuf[sdPos]) /\ sdPos' = sdPos + 1
  /\ UNCHANGED <<sdOff, sdBuf, sdIn, sdUn>>
FillLeft == IF sdOff < Len(sdFile) THEN Len(sdFile) - sdOff ELSE 0
FillSize == IF FillLeft < SdBufsiz THEN FillLeft ELSE SdBufsiz
FillBuf  == [i \in 0 .. SdBufsiz - 1 |-> IF i < FillSize THEN ByteAt(sdFile, sdOff + i) ELSE sdBuf[i]]
GetFilled ==
  /\ sdUn = SdEof /\ sdBm # "none" /\ UsedUp
  /\ sdIn' = FillSize /\ sdBuf' = FillBuf /\ sdOff' = sdOff + FillSize
  /\ sdPos' = (IF FillSize = 0 THEN 0 ELSE 1)
  /\ Answer(IF FillSize = 0 THEN SdEof ELSE FillBuf[0]) /\ UNCHANGED sdUn

LEMMA FgetcIs ==
  ASSUME Fgetc
  PROVE  /\ "r" \in sdMode /\ sdLast # "write" /\ UNCHANGED <<sdFile, sdMode, sdBm, sdWr, sdText, sdCut, sdSpoilt>>
         /\ sdLast' = "read"
         /\ GetPushed \/ GetAtOnce \/ GetBuffered \/ GetFilled
<1>1. GetPushed \/ GetAtOnce \/ GetBuffered \/ GetFilled
  BY Zenon DEF Fgetc, GetPushed, GetAtOnce, GetBuffered, GetFilled, FillLeft, FillSize, FillBuf
<1>2. sdLast' = "read"
  BY <1>1 DEF GetPushed, GetAtOnce, GetBuffered, GetFilled, Answer
<1> QED
  BY <1>1, <1>2 DEF Fgetc

LEMMA BytesAre == SdEof \notin SdByte
BY StdioAssumption DEF SdByte, SdEof

\* A file holds bytes up to its end.
LEMMA ByteIs ==
  ASSUME NEW s \in Seq(SdByte), NEW i \in Nat
  PROVE  /\ i < Len(s) => ByteAt(s, i) = s[i + 1] /\ ByteAt(s, i) \in SdByte
         /\ ~(i < Len(s)) => ByteAt(s, i) = SdEof
<1>1. ASSUME i < Len(s) PROVE ByteAt(s, i) = s[i + 1] /\ ByteAt(s, i) \in SdByte
  <2>1. i + 1 \in 1 .. Len(s)
    BY <1>1, LenProperties
  <2> QED
    BY <1>1, <2>1, ElementOfSeq DEF ByteAt
<1> QED
  BY <1>1 DEF ByteAt

\* The answer is the byte at the program's place, which moves on.
LEMMA AnswerKnown ==
  ASSUME sdText \in Seq(SdByte), sdText' = sdText, sdAt \in Nat, NEW c, c = ByteAt(sdText, sdAt), Answer(c)
  PROVE  /\ sdGot' = sdWant' /\ sdGot' = c /\ sdAt' \in Nat
         /\ sdAt < Len(sdText) => c \in SdByte /\ sdAt' = sdAt + 1
         /\ ~(sdAt < Len(sdText)) => c = SdEof /\ sdAt' = sdAt
         /\ sdGot' # SdEof => sdAt' >= 1 /\ sdAt' <= Len(sdText') /\ sdGot' = sdText'[sdAt']
<1>1. sdGot' = c /\ sdWant' = c /\ sdAt' = (IF sdAt < Len(sdText) THEN sdAt + 1 ELSE sdAt) /\ Len(sdText) \in Nat
  BY LenProperties DEF Answer
<1>2. CASE sdAt < Len(sdText)
  <2>1. sdAt' = sdAt + 1 /\ c = sdText[sdAt + 1] /\ c \in SdByte
    BY <1>1, <1>2, ByteIs
  <2>2. sdAt' >= 1 /\ sdAt' <= Len(sdText) /\ sdAt' \in Nat
    BY <1>1, <1>2, <2>1
  <2> QED
    BY <1>1, <1>2, <2>1, <2>2
<1>3. CASE ~(sdAt < Len(sdText))
  BY <1>1, <1>3, ByteIs
<1> QED
  BY <1>2, <1>3

LEMMA GetPushedInv ==
  ASSUME SdInv, GetPushed, sdMode # {}, sdLast # "write", sdLast' = "read",
         UNCHANGED <<sdFile, sdMode, sdBm, sdWr, sdText, sdCut, sdSpoilt>>
  PROVE  SdInv'
<1>0. SdTypes /\ SdTurn
  BY DEF SdInv
<1>1. sdUn # SdEof /\ Answer(sdUn) /\ sdGot' = sdUn /\ sdUn' = SdEof /\ UNCHANGED <<sdOff, sdBuf, sdPos, sdIn>>
  BY DEF GetPushed, Answer
<1>2. SdTypes'
  BY <1>0, <1>1 DEF SdTypes
<1>3. SdTurn'
  BY <1>0, <1>1 DEF SdTurn
<1>4. SUFFICES ASSUME SdClean' PROVE SdKnown'
  BY <1>2, <1>3 DEF SdInv
<1>5. SdKnown
  BY <1>4 DEF SdInv, SdClean
<1>6. SdAhead
  BY <1>5 DEF SdKnown
<1>7. /\ sdText \in Seq(SdByte) /\ Pushed = 1 /\ sdAt = sdOff - (sdIn - sdPos) - 1
      /\ sdOff \in Nat /\ sdIn \in Nat /\ sdPos \in Nat
  BY <1>0, <1>1, <1>6, StdioAssumption DEF SdAhead, Pushed, SdTypes
<1>8. sdAt \in Nat /\ sdAt < Len(sdText) /\ sdUn = sdText[sdAt + 1]
  <2>1. sdAt \in Int /\ sdAt >= 0
    BY <1>1, <1>6, <1>7 DEF SdAhead
  <2> QED
    BY <1>1, <1>6, <2>1 DEF SdAhead
<1>9. sdUn = ByteAt(sdText, sdAt)
  BY <1>7, <1>8, ByteIs
<1>10. /\ sdGot' = sdWant' /\ sdAt' = sdAt + 1
       /\ sdGot' # SdEof => sdAt' >= 1 /\ sdAt' <= Len(sdText') /\ sdGot' = sdText'[sdAt']
  BY <1>1, <1>7, <1>8, <1>9, AnswerKnown
<1>11. Pushed' = 0 /\ sdAt' = sdOff' - (sdIn' - sdPos') - 0
  <2>1. sdAt + 1 = sdOff - (sdIn - sdPos) - 0
    BY <1>7
  <2> QED
    BY <1>1, <1>10, <2>1, Zenon DEF Pushed
<1>12. SdAhead'
  BY <1>1, <1>6, <1>10, <1>11 DEF SdAhead
<1> QED
  BY <1>10, <1>12 DEF SdKnown

\* Nothing is pushed back: where the program is.
LEMMA NotPushed ==
  ASSUME SdTypes, SdTurn, SdAhead, sdUn = SdEof, sdLast # "write"
  PROVE  /\ sdText \in Seq(SdByte) /\ sdText = sdFile /\ sdOff \in Nat /\ sdIn \in Nat /\ sdPos \in Nat /\ sdPos <= sdIn
         /\ Len(sdFile) \in Nat /\ sdAt = sdOff - (sdIn - sdPos) /\ sdAt \in Nat
<1>1. /\ sdText \in Seq(SdByte) /\ sdText = sdFile /\ sdOff \in Nat /\ sdIn \in Nat /\ sdPos \in Nat /\ sdPos <= sdIn
      /\ sdAt = sdOff - (sdIn - sdPos) - 0
  BY StdioAssumption DEF SdTypes, SdTurn, SdAhead, Pushed
<1>2. sdAt = sdOff - (sdIn - sdPos)
  BY <1>1
<1>3. sdIn > 0 => sdIn <= sdOff
  BY DEF SdAhead
<1>4. sdAt \in Nat
  BY <1>1, <1>2, <1>3
<1> QED
  BY <1>1, <1>2, <1>4, LenProperties

LEMMA GetAtOnceInv ==
  ASSUME SdInv, GetAtOnce, sdMode # {}, sdLast # "write", sdLast' = "read",
         UNCHANGED <<sdFile, sdMode, sdBm, sdWr, sdText, sdCut, sdSpoilt>>
  PROVE  SdInv'
<1>0. SdTypes /\ SdTurn /\ sdFile \in Seq(SdByte) /\ sdOff \in Nat /\ Len(sdFile) \in Nat
  BY LenProperties DEF SdInv, SdTypes
<1>1. /\ sdUn = SdEof /\ sdBm = "none" /\ Answer(ByteAt(sdFile, sdOff)) /\ sdGot' = ByteAt(sdFile, sdOff)
      /\ sdOff' = (IF sdOff < Len(sdFile) THEN sdOff + 1 ELSE sdOff)
      /\ UNCHANGED <<sdBuf, sdPos, sdIn, sdUn>> /\ sdPos = 0 /\ sdIn = 0
  BY <1>0 DEF GetAtOnce, Answer, SdTurn
<1>2. SdTypes'
  <2>1. sdOff' \in Nat
    BY <1>0, <1>1
  <2>2. sdGot' \in SdByte \cup {SdEof}
    BY <1>0, <1>1, ByteIs
  <2> QED
    BY <1>0, <1>1, <2>1, <2>2 DEF SdTypes
<1>3. SdTurn'
  BY <1>0, <1>1 DEF SdTurn
<1>4. SUFFICES ASSUME SdClean' PROVE SdKnown'
  BY <1>2, <1>3 DEF SdInv
<1>5. SdKnown
  BY <1>4 DEF SdInv, SdClean
<1>6. SdAhead
  BY <1>5 DEF SdKnown
<1>7. sdText = sdFile /\ sdAt = sdOff
  <2>1. sdText = sdFile /\ sdAt = sdOff - (0 - 0)
    BY <1>0, <1>1, <1>6, NotPushed
  <2> QED
    BY <1>0, <2>1
<1>8. /\ sdGot' = sdWant' /\ sdAt' \in Nat
      /\ sdAt < Len(sdText) => sdAt' = sdAt + 1
      /\ ~(sdAt < Len(sdText)) => sdAt' = sdAt
      /\ sdGot' # SdEof => sdAt' >= 1 /\ sdAt' <= Len(sdText') /\ sdGot' = sdText'[sdAt']
  BY <1>0, <1>1, <1>7, AnswerKnown
<1>9. sdAt' = sdOff'
  BY <1>1, <1>7, <1>8
<1>10. Pushed' = 0 /\ sdAt' = sdOff' - (sdIn' - sdPos') - 0
  <2>1. sdAt' = sdOff' - (0 - 0) - 0
    <3>1. \A x \in Nat : x - (0 - 0) - 0 = x
      OBVIOUS
    <3> QED
      BY <1>8, <1>9, <3>1
  <2> QED
    BY <1>1, <2>1, Zenon DEF Pushed
<1>11. \A i \in 0 .. SdBufsiz - 1 : ~(i < sdIn')
  BY <1>1, StdioAssumption
<1>12. SdAhead'
  BY <1>1, <1>6, <1>7, <1>8, <1>10, <1>11 DEF SdAhead
<1> QED
  BY <1>8, <1>12 DEF SdKnown

LEMMA GetBufferedInv ==
  ASSUME SdInv, GetBuffered, sdMode # {}, sdLast # "write", sdLast' = "read",
         UNCHANGED <<sdFile, sdMode, sdBm, sdWr, sdText, sdCut, sdSpoilt>>
  PROVE  SdInv'
<1>0. SdTypes /\ SdTurn
  BY DEF SdInv
<1>1. /\ sdUn = SdEof /\ sdBm # "none" /\ sdPos # sdIn /\ Answer(sdBuf[sdPos]) /\ sdGot' = sdBuf[sdPos]
      /\ sdPos' = sdPos + 1 /\ UNCHANGED <<sdOff, sdBuf, sdIn, sdUn>>
  BY DEF GetBuffered, UsedUp, Answer
<1>2. sdPos < sdIn /\ sdPos \in 0 .. SdBufsiz - 1 /\ sdPos' <= sdIn /\ sdPos' \in 0 .. SdBufsiz /\ sdPos' > 0
  <2>1. sdPos <= sdIn /\ sdPos \in 0 .. SdBufsiz /\ sdIn \in 0 .. SdBufsiz
    BY <1>0 DEF SdTurn, SdTypes
  <2> QED
    BY <1>1, <2>1, StdioAssumption
<1>3. sdBuf[sdPos] \in SdByte /\ sdBuf[sdPos] # SdEof
  BY <1>0, <1>2, BytesAre DEF SdTurn
<1>4. SdTypes'
  BY <1>0, <1>1, <1>2, <1>3 DEF SdTypes
<1>5. SdTurn'
  <2>1. \A i \in 0 .. SdBufsiz - 1 : i < sdPos' \/ i < sdIn' => i < sdIn
    BY <1>1, <1>2, <1>0, StdioAssumption DEF SdTypes
  <2>2. \A i \in 0 .. SdBufsiz - 1 : i < sdPos' \/ i < sdIn' => sdBuf'[i] \in SdByte
    BY <1>0, <1>1, <2>1 DEF SdTurn
  <2> QED
    BY <1>0, <1>1, <1>2, <1>3, <2>2 DEF SdTurn
<1>6. SUFFICES ASSUME SdClean' PROVE SdKnown'
  BY <1>4, <1>5 DEF SdInv
<1>7. SdKnown
  BY <1>6 DEF SdInv, SdClean
<1>8. SdAhead
  BY <1>7 DEF SdKnown
<1>9. /\ sdText \in Seq(SdByte) /\ sdText = sdFile /\ sdOff \in Nat /\ sdIn \in Nat /\ sdPos \in Nat
      /\ Len(sdFile) \in Nat /\ sdAt = sdOff - (sdIn - sdPos) /\ sdAt \in Nat
  BY <1>0, <1>1, <1>8, NotPushed
<1>10. sdAt < Len(sdText) /\ sdBuf[sdPos] = ByteAt(sdText, sdAt)
  <2>1. sdIn <= sdOff /\ sdOff <= Len(sdFile)
    BY <1>2, <1>8, <1>9 DEF SdAhead
  <2>2. sdAt < Len(sdText) /\ sdOff - sdIn + sdPos + 1 = sdAt + 1
    BY <1>2, <1>9, <2>1
  <2>3. sdBuf[sdPos] = sdFile[sdOff - sdIn + sdPos + 1]
    BY <1>2, <1>8 DEF SdAhead
  <2> QED
    BY <1>9, <2>2, <2>3, ByteIs
<1>11. /\ sdGot' = sdWant' /\ sdAt' = sdAt + 1
       /\ sdGot' # SdEof => sdAt' >= 1 /\ sdAt' <= Len(sdText') /\ sdGot' = sdText'[sdAt']
  BY <1>1, <1>9, <1>10, AnswerKnown
<1>12. Pushed' = 0 /\ sdAt' = sdOff' - (sdIn' - sdPos') - 0
  <2>1. sdAt + 1 = sdOff - (sdIn - (sdPos + 1)) - 0
    BY <1>9
  <2> QED
    BY <1>1, <1>11, <2>1, Zenon DEF Pushed
<1>13. SdAhead'
  BY <1>1, <1>8, <1>11, <1>12 DEF SdAhead
<1> QED
  BY <1>11, <1>13 DEF SdKnown

LEMMA GetFilledInv ==
  ASSUME SdInv, GetFilled, sdMode # {}, sdLast # "write", sdLast' = "read",
         UNCHANGED <<sdFile, sdMode, sdBm, sdWr, sdText, sdCut, sdSpoilt>>
  PROVE  SdInv'
<1> DEFINE n == FillSize
           buf == FillBuf
<1>0. SdTypes /\ SdTurn /\ sdFile \in Seq(SdByte) /\ sdOff \in Nat /\ Len(sdFile) \in Nat
  BY LenProperties DEF SdInv, SdTypes
<1>1. /\ sdUn = SdEof /\ sdBm # "none" /\ sdPos = sdIn /\ sdIn' = n /\ sdBuf' = buf /\ sdOff' = sdOff + n
      /\ sdPos' = (IF n = 0 THEN 0 ELSE 1) /\ Answer(IF n = 0 THEN SdEof ELSE buf[0]) /\ UNCHANGED sdUn
      /\ sdGot' = (IF n = 0 THEN SdEof ELSE buf[0])
  BY DEF GetFilled, UsedUp, Answer
<1>2. /\ n \in 0 .. SdBufsiz /\ n \in Nat /\ (n = 0 <=> ~(sdOff < Len(sdFile)))
      /\ n > 0 => sdOff + n <= Len(sdFile)
  <2>1. FillLeft \in Nat /\ (FillLeft = 0 <=> ~(sdOff < Len(sdFile)))
        /\ (FillLeft > 0 => sdOff + FillLeft = Len(sdFile))
    BY <1>0 DEF FillLeft
  <2> HIDE DEF n
  <2>2. n = (IF FillLeft < SdBufsiz THEN FillLeft ELSE SdBufsiz)
    BY DEF n, FillSize
  <2> QED
    BY <1>0, <2>1, <2>2, StdioAssumption
<1>3. /\ buf \in [0 .. SdBufsiz - 1 -> SdByte \cup {SdEof}]
      /\ \A i \in 0 .. SdBufsiz - 1 : i < n => buf[i] = sdFile[sdOff + i + 1] /\ buf[i] \in SdByte
  <2> HIDE DEF n, buf
  <2>1. ASSUME NEW i \in 0 .. SdBufsiz - 1, i < n
        PROVE  ByteAt(sdFile, sdOff + i) = sdFile[sdOff + i + 1] /\ ByteAt(sdFile, sdOff + i) \in SdByte
    <3>1. sdOff + i \in Nat /\ sdOff + i < Len(sdFile)
      BY <1>0, <1>2, <2>1, StdioAssumption
    <3> QED
      BY <1>0, <3>1, ByteIs
  <2>2. buf = [i \in 0 .. SdBufsiz - 1 |-> IF i < n THEN ByteAt(sdFile, sdOff + i) ELSE sdBuf[i]]
    BY DEF buf, n, FillBuf
  <2>3. sdBuf \in [0 .. SdBufsiz - 1 -> SdByte \cup {SdEof}]
    BY <1>0 DEF SdTypes
  <2> QED
    BY <2>1, <2>2, <2>3
<1> HIDE DEF n, buf
<1>4. 0 \in 0 .. SdBufsiz - 1 /\ (n # 0 => buf[0] \in SdByte /\ buf[0] # SdEof /\ buf[0] = sdFile[sdOff + 1])
  <2>1. 0 \in 0 .. SdBufsiz - 1
    BY StdioAssumption
  <2>2. n # 0 => 0 < n
    BY <1>2
  <2>3. sdOff + 0 + 1 = sdOff + 1
    BY <1>0
  <2> QED
    BY <1>3, <2>1, <2>2, <2>3, BytesAre
<1>5. sdPos' \in 0 .. SdBufsiz /\ sdPos' <= sdIn' /\ (sdIn' > 0 => sdPos' > 0) /\ sdPos' \in Nat
  BY <1>1, <1>2, StdioAssumption
<1>6. SdTypes'
  <2>1. sdGot' \in SdByte \cup {SdEof}
    BY <1>1, <1>4
  <2>2. sdOff' \in Nat
    BY <1>0, <1>1, <1>2
  <2> QED
    BY <1>0, <1>1, <1>2, <1>3, <1>5, <2>1, <2>2 DEF SdTypes
<1>7. SdTurn'
  <2>1. \A i \in 0 .. SdBufsiz - 1 : i < sdPos' \/ i < sdIn' => i < n
    BY <1>1, <1>2, <1>5, StdioAssumption
  <2>2. \A i \in 0 .. SdBufsiz - 1 : i < sdPos' \/ i < sdIn' => sdBuf'[i] \in SdByte
    BY <1>1, <1>3, <2>1
  <2>3. sdGot' = SdEof => sdIn' = 0
    BY <1>1, <1>4
  <2> QED
    BY <1>0, <1>1, <1>5, <2>2, <2>3 DEF SdTurn
<1>8. SUFFICES ASSUME SdClean' PROVE SdKnown'
  BY <1>6, <1>7 DEF SdInv
<1>9. SdKnown
  BY <1>8 DEF SdInv, SdClean
<1>10. SdAhead
  BY <1>9 DEF SdKnown
<1>11. sdText = sdFile /\ sdAt = sdOff
  <2>1. sdText = sdFile /\ sdAt = sdOff - (sdIn - sdPos) /\ sdIn \in Nat
    BY <1>0, <1>1, <1>10, NotPushed
  <2> QED
    BY <1>0, <1>1, <2>1
<1>12. (IF n = 0 THEN SdEof ELSE buf[0]) = ByteAt(sdText, sdAt)
  BY <1>0, <1>2, <1>4, <1>11, ByteIs
<1>13. /\ sdGot' = sdWant' /\ sdAt' \in Nat
       /\ sdAt < Len(sdText) => sdAt' = sdAt + 1
       /\ ~(sdAt < Len(sdText)) => sdAt' = sdAt
       /\ sdGot' # SdEof => sdAt' >= 1 /\ sdAt' <= Len(sdText') /\ sdGot' = sdText'[sdAt']
  BY <1>0, <1>1, <1>11, <1>12, AnswerKnown
<1>14. Pushed' = 0
  BY <1>1 DEF Pushed
<1>15. sdAt' = sdOff' - (sdIn' - sdPos') - 0
  <2>1. CASE n = 0
    <3>1. sdAt' = sdOff /\ sdPos' = 0 /\ sdIn' = 0 /\ sdOff' = sdOff
      BY <1>0, <1>1, <1>2, <1>11, <1>13, <2>1
    <3>2. sdOff = sdOff - (0 - 0) - 0
      BY <1>0
    <3> QED
      BY <3>1, <3>2, Zenon
  <2>2. CASE n # 0
    <3>1. sdAt' = sdOff + 1 /\ sdPos' = 1 /\ sdIn' = n /\ sdOff' = sdOff + n
      BY <1>1, <1>2, <1>11, <1>13, <2>2
    <3>2. sdOff + 1 = (sdOff + n) - (n - 1) - 0
      BY <1>0, <1>2
    <3> QED
      BY <3>1, <3>2, Zenon
  <2> QED
    BY <2>1, <2>2
<1>16. sdIn' > 0 => sdIn' <= sdOff' /\ sdOff' <= Len(sdFile')
  BY <1>0, <1>1, <1>2
<1>17. ASSUME NEW i \in 0 .. SdBufsiz - 1, i < sdIn' PROVE sdBuf'[i] = sdFile'[sdOff' - sdIn' + i + 1]
  <2>1. sdOff' - sdIn' + i + 1 = sdOff + i + 1
    BY <1>0, <1>1, <1>2, StdioAssumption
  <2>2. sdBuf'[i] = sdFile[sdOff + i + 1]
    BY <1>1, <1>3, <1>17
  <2> QED
    BY <2>1, <2>2
<1>18. SdAhead'
  BY <1>1, <1>11, <1>13, <1>14, <1>15, <1>16, <1>17 DEF SdAhead
<1> QED
  BY <1>13, <1>18 DEF SdKnown

LEMMA SdFgetcInv == ASSUME SdInv, Fgetc PROVE SdInv'
<1>1. sdMode # {} /\ sdLast # "write" /\ sdLast' = "read" /\ UNCHANGED <<sdFile, sdMode, sdBm, sdWr, sdText, sdCut, sdSpoilt>>
  BY FgetcIs
<1>2. GetPushed \/ GetAtOnce \/ GetBuffered \/ GetFilled
  BY FgetcIs
<1> QED
  BY <1>1, <1>2, GetPushedInv, GetAtOnceInv, GetBufferedInv, GetFilledInv

LEMMA SdInitInv == SdInit => SdInv
<1> SUFFICES ASSUME SdInit PROVE SdInv
  OBVIOUS
<1>1. sdFile \in Seq(SdByte)
  <2>1. sdFile \in Seq(SdContents) /\ SdContents \subseteq SdByte
    BY StdioAssumption DEF SdInit, SdByte
  <2> QED
    BY <2>1
<1>2. SdTypes
  <2>1. NoBuf \in [0 .. SdBufsiz - 1 -> SdByte \cup {SdEof}]
    BY DEF NoBuf
  <2>2. 0 \in 0 .. SdBufsiz
    BY StdioAssumption
  <2> QED
    BY <1>1, <2>1, <2>2 DEF SdInit, SdTypes
<1>3. SdTurn
  BY StdioAssumption DEF SdInit, SdTurn
<1>4. SdKnown
  BY DEF SdInit, SdKnown
<1> QED
  BY <1>2, <1>3, <1>4 DEF SdInv

LEMMA SdNextInv == SdInv /\ [SdNext]_sdVars => SdInv'
<1> SUFFICES ASSUME SdInv, [SdNext]_sdVars PROVE SdInv'
  OBVIOUS
<1>1. CASE UNCHANGED sdVars
  <2>1. SdTypes' /\ SdTurn'
    BY <1>1 DEF SdInv, SdTypes, SdTurn, sdVars, sdStream, sdGhost
  <2>2. SdClean' => SdKnown'
    <3>1. SdAhead => SdAhead'
      BY <1>1 DEF SdAhead, Pushed, sdVars, sdStream, sdGhost
    <3>2. SdBehind => SdBehind'
      BY <1>1, Zenon DEF SdBehind, SdFlushed, SdMoved, SdPending, WriteAt, sdVars, sdStream, sdGhost
    <3> QED
      BY <1>1, <3>1, <3>2 DEF SdInv, SdKnown, SdClean, sdVars, sdStream, sdGhost
  <2> QED
    BY <2>1, <2>2 DEF SdInv
<1> QED
  BY <1>1, SdFopenInv, SdSetvbufInv, SdFputcInv, SdFgetcInv, SdUngetcInv, SdFflushInv, SdFcloseInv, SdFseekInv
  DEF SdNext

LEMMA SdImplies == SdInv => StdioExact
<1> SUFFICES ASSUME SdInv, sdCut # TRUE, sdSpoilt # TRUE
             PROVE  sdGot = sdWant /\ ((~SdOpen \/ SdPending = <<>>) => sdFile = sdText)
  BY Zenon DEF StdioExact
<1>1. SdKnown
  BY DEF SdInv, SdTypes, SdClean
<1>2. CASE sdMode = {}
  BY <1>1, <1>2 DEF SdKnown
<1>3. CASE sdMode # {} /\ sdLast = "write"
  <2>1. SdPending = <<>> => SdFlushed = sdFile
    BY DEF SdFlushed
  <2> QED
    BY <1>1, <1>3, <2>1 DEF SdKnown, SdBehind, SdOpen
<1>4. CASE sdMode # {} /\ sdLast # "write"
  BY <1>1, <1>4 DEF SdKnown, SdAhead
<1> QED
  BY <1>1, <1>2, <1>3, <1>4

-----------------------------------------------------------------------------
\* What a program writes is what is there later, in an archive of tar (tar.c),
\* behind a stream of the C library (putget.c), and in the target of cp and mv or
\* still in the source (cp.c, mv.c): for any files and any bytes, any size of the
\* stream's buffer, and any interleaving with those who write to the files.
THEOREM ReadsBackCorrect ==
  /\ TarInit /\ [][TarNext]_tarVars
  /\ SdInit /\ [][SdNext]_sdVars
  /\ CpInit /\ [][CpNext]_cpVars
  => []ReadsBack
<1>1. TarInv /\ SdInv /\ CpInv => ReadsBack
  BY TarImplies, SdImplies, CpImplies DEF ReadsBack
<1> QED
  BY <1>1, TarInitInv, TarNextInv, SdInitInv, SdNextInv, CpInitInv, CpNextInv, PTL
=============================================================================

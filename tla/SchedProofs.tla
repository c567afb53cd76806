---------------------------- MODULE SchedProofs ----------------------------
(* For any number of processes and any length of time slices: kernel and    *)
(* user code only run for a live process that pact lists, and the count of  *)
(* idle processes never passes the size of the table.                       *)
EXTENDS Sched, TLAPS

\* Where the kernel has no current process, or is about to have none.
NoCurr == {"test", "hlt", "halted", "scan"}

Listed(p) == \E i \in 1 .. Len(pact) : pact[i] = p

\* pact lists every live process, init among them.
PactInv ==
  /\ pact \in Seq(Procs) /\ Len(pact) <= NPROC
  /\ \A p \in Procs : ~exited[p] => Listed(p)
  /\ ~exited[init]

\* curr is a live process except in sched().
CurrInv ==
  /\ at \in Places
  /\ at \in NoCurr => curr = none
  /\ at \notin NoCurr => curr \in Procs
  /\ at \notin NoCurr \cup {"sched"} => ~exited[curr]

\* An idle() counts the process that calls it, and every way from there back
\* to idle() passes the test of nidle or an interrupt.
IdleInv ==
  /\ nidle \in 0 .. NPROC
  /\ at \notin {"sched", "test", "hlt", "halted"} => nidle < NPROC

DataInv ==
  /\ sched_next \in 0 .. NPROC
  /\ resched \in BOOLEAN /\ dosync \in BOOLEAN
  /\ time_slice \in [Procs -> -SLICE_DEBT .. MAX_TIME_SLICE]
  /\ resume \in [Procs -> {"ret", "block"}]
  /\ exited \in [Procs -> BOOLEAN]
  /\ ready \in [Procs -> BOOLEAN] /\ sig \in [Procs -> BOOLEAN]

IInv == DataInv /\ PactInv /\ CurrInv /\ IdleInv

\* init has a slot, and none is not a slot.
LEMMA Constants == init \in Procs /\ none \notin Procs
BY SchedAssumption DEF init, none, Procs

\* In the initial state the inductive invariant holds.
LEMMA InitIInv == Init => IInv
<1> SUFFICES ASSUME Init PROVE IInv
  OBVIOUS
<1> USE SchedAssumption
<1>1. DataInv
  <2>1. sched_next \in 0 .. NPROC
    BY DEF Init
  <2>2. resched \in BOOLEAN /\ dosync \in BOOLEAN
    BY Zenon DEF Init
  <2>3. time_slice \in [Procs -> -SLICE_DEBT .. MAX_TIME_SLICE]
    <3>1. 0 \in -SLICE_DEBT .. MAX_TIME_SLICE
      OBVIOUS
    <3> QED
      BY <3>1, Zenon DEF Init
  <2>4. /\ resume \in [Procs -> {"ret", "block"}]
        /\ exited \in [Procs -> BOOLEAN]
        /\ ready \in [Procs -> BOOLEAN] /\ sig \in [Procs -> BOOLEAN]
    BY Zenon DEF Init
  <2> QED
    BY <2>1, <2>2, <2>3, <2>4 DEF DataInv
<1>2. pact \in Seq(Procs) /\ Len(pact) = NPROC
  BY DEF Init, Procs
<1>3. ASSUME NEW p \in Procs PROVE Listed(p)
  <2>1. p + 1 \in 1 .. Len(pact) /\ pact[p + 1] = p
    BY <1>2 DEF Init, Procs
  <2> QED
    BY <2>1 DEF Listed
<1>4. PactInv
  BY <1>2, <1>3, Constants DEF Init, PactInv
<1>5. CurrInv
  BY Constants DEF Init, CurrInv, Places, NoCurr
<1>6. IdleInv
  BY DEF Init, IdleInv
<1> QED
  BY <1>1, <1>4, <1>5, <1>6 DEF IInv

\* Steps that leave pact and exited alone keep what is said of them.
LEMMA PactKept == PactInv /\ UNCHANGED <<pact, exited>> => PactInv'
BY DEF PactInv, Listed

----------------------------------------------------------------------------
(* One lemma per part of the invariant, one step per action.                *)

\* The types of the data survive every step.
LEMMA DataNext == IInv /\ [Next]_vars => DataInv'
<1> SUFFICES ASSUME IInv, [Next]_vars PROVE DataInv'
  OBVIOUS
<1> USE SchedAssumption, Constants DEF IInv, DataInv
<1>1. /\ resume' \in [Procs -> {"ret", "block"}]
      /\ exited' \in [Procs -> BOOLEAN]
      /\ ready' \in [Procs -> BOOLEAN] /\ sig' \in [Procs -> BOOLEAN]
      /\ resched' \in BOOLEAN /\ dosync' \in BOOLEAN
  <2>1. CASE KernelStep
    BY <2>1, Zenon DEF KernelStep, BlockTest, Idle, Idle2, SchedEnter,
       HaltTest, Hlt, Scan, RetSig, RetSync, RetResched, Synced
  <2>2. CASE UserCall
    BY <2>2, ZenonT(60) DEF UserCall, Block, Post, Kill, Exit, Reap
  <2>3. CASE Clock
    BY <2>3, Zenon DEF Clock
  <2>4. CASE \E p \in Procs : Device(p)
    BY <2>4, Zenon DEF Device
  <2>5. CASE UNCHANGED vars
    BY <2>5 DEF vars
  <2> QED
    BY <2>1, <2>2, <2>3, <2>4, <2>5 DEF Next
<1>2. /\ sched_next' \in 0 .. NPROC
      /\ time_slice' \in [Procs -> -SLICE_DEBT .. MAX_TIME_SLICE]
  <2>1. CASE Scan
    <3> DEFINE n == IF sched_next >= npact THEN 0 ELSE sched_next
               p == pact[n + 1]
    <3>1. Len(pact) \in 1 .. NPROC
      BY DEF PactInv, Listed
    <3>2. n + 1 \in 1 .. Len(pact) /\ sched_next' = n + 1
      BY <2>1, <3>1 DEF Scan, npact
    <3>3. p \in Procs
      BY <3>2 DEF PactInv
    <3>4. Refill(time_slice[p]) \in -SLICE_DEBT .. MAX_TIME_SLICE
      BY <3>3 DEF Refill
    <3>5. time_slice' = [time_slice EXCEPT ![p] = Refill(time_slice[p])]
      BY <2>1 DEF Scan
    <3> QED
      BY <3>1, <3>2, <3>3, <3>4, <3>5
  <2>2. CASE Clock
    <3>1. CASE curr = none
      BY <2>2, <3>1 DEF Clock
    <3>2. CASE curr # none
      BY <2>2, <3>2 DEF Clock, CurrInv
    <3> QED
      BY <3>1, <3>2
  <2>3. CASE Reap
    <3>1. PICK i \in 1 .. npact : time_slice' = [time_slice EXCEPT ![pact[i]] = 0]
      BY <2>3 DEF Reap
    <3>2. 0 \in -SLICE_DEBT .. MAX_TIME_SLICE /\ sched_next' = sched_next
      BY <2>3 DEF Reap
    <3> QED
      BY <3>1, <3>2
  <2>4. CASE UNCHANGED <<sched_next, time_slice>>
    BY <2>4
  <2> QED
    BY <2>1, <2>2, <2>3, <2>4 DEF Next, KernelStep, UserCall, BlockTest, Idle,
       Idle2, SchedEnter, HaltTest, Hlt, RetSig, RetSync, RetResched, Block,
       Post, Kill, Exit, Device, vars
<1> QED
  BY <1>1, <1>2

\* pact keeps listing the live processes: a reap takes out a dead one only.
LEMMA PactNext == IInv /\ [Next]_vars => PactInv'
<1> SUFFICES ASSUME IInv, [Next]_vars PROVE PactInv'
  OBVIOUS
<1> USE SchedAssumption, Constants DEF IInv
<1>1. CASE Reap
  <2>1. PICK i \in 1 .. npact :
          /\ exited[pact[i]]
          /\ pact' = SubSeq([pact EXCEPT ![i] = pact[npact]], 1, npact - 1)
    BY <1>1 DEF Reap
  <2> DEFINE n == Len(pact)
  <2>2. n \in Nat /\ n <= NPROC /\ i \in 1 .. n
    BY <2>1 DEF PactInv, npact
  <2> DEFINE q == [pact EXCEPT ![i] = pact[n]]
  <2>3. /\ q \in Seq(Procs) /\ Len(q) = n
        /\ \A k \in 1 .. n : q[k] = IF k = i THEN pact[n] ELSE pact[k]
    BY <2>2 DEF PactInv
  <2>7. pact' = SubSeq(q, 1, n - 1)
    BY <2>1 DEF npact
  <2>4. /\ pact' \in Seq(Procs) /\ Len(pact') = n - 1
        /\ \A k \in 1 .. n - 1 : pact'[k] = IF k = i THEN pact[n] ELSE pact[k]
    <3> HIDE DEF q
    <3> QED
      BY <2>2, <2>3, <2>7
  <2>5. exited' = exited
    BY <1>1 DEF Reap
  <2>6. ASSUME NEW p \in Procs, ~exited[p]
        PROVE  \E k \in 1 .. Len(pact') : pact'[k] = p
    <3>1. PICK k \in 1 .. n : pact[k] = p
      BY <2>6 DEF PactInv, Listed
    <3>2. k # i
      BY <2>1, <2>6, <3>1
    <3>3. CASE k = n
      BY <2>2, <2>4, <3>1, <3>2, <3>3
    <3>4. CASE k # n
      BY <2>2, <2>4, <3>1, <3>2, <3>4
    <3> QED
      BY <3>3, <3>4
  <2> QED
    BY <2>2, <2>4, <2>5, <2>6 DEF PactInv, Listed
<1>2. CASE Exit
  <2>1. pact' = pact /\ exited' = [exited EXCEPT ![curr] = TRUE] /\ curr # init
    BY <1>2 DEF Exit
  <2>2. curr \in Procs
    BY <1>2 DEF Exit, CurrInv, NoCurr
  <2>3. \A p \in Procs : ~exited'[p] => ~exited[p]
    BY <2>1, <2>2 DEF DataInv
  <2>4. ~exited'[init]
    BY <2>1, <2>2 DEF DataInv, PactInv
  <2> QED
    BY <2>1, <2>3, <2>4 DEF PactInv, Listed
<1>3. CASE UNCHANGED <<pact, exited>>
  BY <1>3, PactKept
<1> QED
  BY <1>1, <1>2, <1>3 DEF Next, KernelStep, UserCall, BlockTest, Idle, Idle2,
     SchedEnter, HaltTest, Hlt, Scan, RetSig, RetSync, RetResched, Block, Post,
     Kill, Clock, Device, vars

\* The scan takes a live process only, and nothing else sets curr.
LEMMA CurrNext == IInv /\ [Next]_vars => CurrInv'
<1> SUFFICES ASSUME IInv, [Next]_vars PROVE CurrInv'
  OBVIOUS
<1> USE SchedAssumption, Constants DEF IInv, CurrInv, Places, NoCurr
<1>1. CASE Scan
  <2> DEFINE n == IF sched_next >= npact THEN 0 ELSE sched_next
             p == pact[n + 1]
  <2>1. Len(pact) \in 1 .. NPROC
    BY DEF PactInv, Listed
  <2>2. n + 1 \in 1 .. Len(pact)
    BY <2>1 DEF npact, DataInv
  <2>3. p \in Procs
    BY <2>2 DEF PactInv
  <2>4. resume[p] \in {"ret", "block"}
    BY <2>3 DEF DataInv
  <2>5. CASE Eligible(p, Refill(time_slice[p]))
    <3>1. at' = resume[p] /\ curr' = p /\ exited' = exited /\ ~exited[p]
      BY <1>1, <2>5 DEF Scan, Eligible
    <3> QED
      BY <2>3, <2>4, <3>1
  <2>6. CASE ~Eligible(p, Refill(time_slice[p]))
    <3>1. at' = "scan" /\ curr' = curr /\ exited' = exited /\ at = "scan"
      BY <1>1, <2>6 DEF Scan
    <3> QED
      BY <3>1
  <2> QED
    BY <2>5, <2>6
<1>2. CASE BlockTest \/ Idle \/ Idle2 \/ SchedEnter \/ HaltTest \/ Hlt
  BY <1>2 DEF BlockTest, Idle, Idle2, SchedEnter, HaltTest, Hlt
<1>3. CASE RetSig \/ RetSync \/ RetResched
  BY <1>3 DEF RetSig, RetSync, RetResched
<1>4. CASE UserCall
  BY <1>4 DEF UserCall, Block, Post, Kill, Exit, Reap
<1>5. CASE Clock
  BY <1>5 DEF Clock, After
<1>6. CASE \E p \in Procs : Device(p)
  BY <1>6 DEF Device, After
<1>7. CASE UNCHANGED vars
  BY <1>7 DEF vars
<1> QED
  BY <1>1, <1>2, <1>3, <1>4, <1>5, <1>6, <1>7 DEF Next, KernelStep

\* nidle stays within the table, whatever is reaped in between.
LEMMA IdleNext == IInv /\ [Next]_vars => IdleInv'
<1> SUFFICES ASSUME IInv, [Next]_vars PROVE IdleInv'
  OBVIOUS
<1> USE SchedAssumption, Constants DEF IInv, IdleInv
<1>1. CASE HaltTest
  <2>1. Len(pact) <= NPROC /\ Len(pact) \in Nat
    BY DEF PactInv
  <2> QED
    BY <1>1, <2>1 DEF HaltTest, AllIdle, npact
<1>2. CASE Scan
  <2>1. nidle' = nidle /\ at = "scan"
    BY <1>2 DEF Scan
  <2> QED
    BY <2>1
<1>3. CASE BlockTest \/ Idle \/ Idle2 \/ SchedEnter \/ Hlt
  BY <1>3 DEF BlockTest, Idle, Idle2, SchedEnter, Hlt
<1>4. CASE RetSig \/ RetSync \/ RetResched
  BY <1>4 DEF RetSig, RetSync, RetResched
<1>5. CASE UserCall
  BY <1>5 DEF UserCall, Block, Post, Kill, Exit, Reap
<1>6. CASE Clock
  BY <1>6 DEF Clock, Wakeup
<1>7. CASE \E p \in Procs : Device(p)
  BY <1>7 DEF Device, Wakeup
<1>8. CASE UNCHANGED vars
  BY <1>8 DEF vars
<1> QED
  BY <1>1, <1>2, <1>3, <1>4, <1>5, <1>6, <1>7, <1>8 DEF Next, KernelStep

----------------------------------------------------------------------------
(* The theorems.                                                            *)

\* The inductive invariant of the scheduler, whatever the interrupts do.
THEOREM Invariance == Spec => []IInv
<1>1. IInv /\ [Next]_vars => IInv'
  BY DataNext, PactNext, CurrNext, IdleNext DEF IInv
<1> QED
  BY <1>1, InitIInv, PTL DEF Spec

\* Every variable keeps its type; nidle, in particular, never passes NPROC.
THEOREM TypeCorrect == Spec => []TypeOK
<1>1. IInv => TypeOK
  <2> SUFFICES ASSUME IInv PROVE TypeOK
    OBVIOUS
  <2>1. npact \in 1 .. NPROC
    BY SchedAssumption, Constants DEF IInv, PactInv, Listed, npact
  <2>2. curr \in Procs \cup {none} /\ at \in Places
    BY DEF IInv, CurrInv
  <2> QED
    BY <2>1, <2>2 DEF IInv, DataInv, PactInv, IdleInv, TypeOK
<1> QED
  BY <1>1, Invariance, PTL

\* Kernel and user code run only for a live process that pact lists.
THEOREM CurrCorrect == Spec => []CurrLive
<1>1. IInv => CurrLive
  <2> SUFFICES ASSUME IInv,
                      at \in {"user", "block", "idle", "idle2", "ret", "ret2", "ret3"}
               PROVE  curr \in Live /\ \E i \in 1 .. npact : pact[i] = curr
    BY DEF CurrLive
  <2>1. curr \in Procs /\ ~exited[curr]
    BY DEF IInv, CurrInv, NoCurr
  <2> QED
    BY <2>1 DEF IInv, PactInv, Listed, Live, npact
<1> QED
  BY <1>1, Invariance, PTL

\* Both, for every number of processes and every time slice.
THEOREM SafeCorrect == Spec => []SchedSafe
<1>1. TypeOK /\ CurrLive => SchedSafe
  BY DEF SchedSafe
<1> QED BY <1>1, TypeCorrect, CurrCorrect, PTL
=============================================================================

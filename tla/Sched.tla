------------------------------- MODULE Sched -------------------------------
(* The scheduler: sched(), idle(), wakeup() (kern/process.c), the interrupt *)
(* entry and exit paths (kern/intr.c) and the clock tick (kern/clock.c).    *)
(*                                                                          *)
(* One CPU runs one thread of kernel code, at location `at`, and interrupts *)
(* may come between any two of its steps.  A system call that blocks is     *)
(* while (!condition) idle(): nothing records who sleeps on what, nidle     *)
(* only counts the calls of idle() since the last wakeup().                 *)
(* A definition Mut... is a wrong form of the definition below it.          *)
EXTENDS Integers, FiniteSets, Sequences

CONSTANTS
  NPROC,           \* processes, 0 is init
  TIME_SLICE,      \* ticks added each time a process is considered
  MAX_TIME_SLICE,  \* the most a process may save up
  SLICE_DEBT       \* bound: how far below zero a time slice is followed

ASSUME SchedAssumption ==
  /\ NPROC \in Nat \ {0}
  /\ TIME_SLICE \in Nat \ {0}
  /\ MAX_TIME_SLICE \in Nat /\ MAX_TIME_SLICE >= TIME_SLICE
  /\ SLICE_DEBT \in Nat

Procs == 0 .. NPROC - 1
init  == 0
none  == NPROC      \* the static struct process none of sched()

VARIABLES
  at,          \* where the kernel is
  curr,        \* the current process, or none
  pact,        \* the active processes, in scan order
  sched_next,  \* next index of pact to consider
  nidle, resched, dosync,
  time_slice,
  resume,      \* where longjmp takes each process that is not current
  exited,
  ready,       \* the condition each process waits for, or would wait for
  sig          \* a signal is pending

vars == <<at, curr, pact, sched_next, nidle, resched, dosync, time_slice,
          resume, exited, ready, sig>>

npact == Len(pact)
Live  == {p \in Procs : ~exited[p]}

----------------------------------------------------------------------------
(* Steps of kernel code.                                                    *)

\* The test of a blocking call; a signal ends the call as well (EINTR).
MutMayReturn(p) == ready[p]
MayReturn(p)    == ready[p] \/ sig[p]
BlockTest ==
  /\ at = "block"
  /\ \/ /\ MayReturn(curr)
        /\ ready' = [ready EXCEPT ![curr] = FALSE]
        /\ at' = "ret"
     \/ /\ ~MayReturn(curr)
        /\ at' = "idle"
        /\ UNCHANGED ready
  /\ UNCHANGED <<curr, pact, sched_next, nidle, resched, dosync, time_slice,
                 resume, exited, sig>>

\* idle(): psync when the clock asked for it, then nidle++ and sched().
MutSynced == dosync
Synced    == FALSE
Idle ==
  /\ at = "idle"
  /\ at' = "idle2"
  /\ dosync' = Synced
  /\ UNCHANGED <<curr, pact, sched_next, nidle, resched, time_slice, resume,
                 exited, ready, sig>>

Idle2 ==
  /\ at = "idle2"
  /\ nidle' = nidle + 1
  /\ at' = "sched"
  /\ resume' = [resume EXCEPT ![curr] = "block"]
  /\ UNCHANGED <<curr, pact, sched_next, resched, dosync, time_slice, exited,
                 ready, sig>>

\* sched() up to its loop: the context is saved, nobody is current.
SchedEnter ==
  /\ at = "sched"
  /\ resched' = FALSE
  /\ curr' = none
  /\ at' = "test"
  /\ UNCHANGED <<pact, sched_next, nidle, dosync, time_slice, resume, exited,
                 ready, sig>>

\* while (nidle >= npact) hlt: the test and the hlt are two instructions.
MutAllIdle == nidle > npact
AllIdle    == nidle >= npact
HaltTest ==
  /\ at = "test"
  /\ at' = IF AllIdle THEN "hlt" ELSE "scan"
  /\ UNCHANGED <<curr, pact, sched_next, nidle, resched, dosync, time_slice,
                 resume, exited, ready, sig>>

Hlt ==
  /\ at = "hlt"
  /\ at' = "halted"
  /\ UNCHANGED <<curr, pact, sched_next, nidle, resched, dosync, time_slice,
                 resume, exited, ready, sig>>

\* One turn of the for loop: a process gets a share of time and is taken
\* unless it is a zombie or still has none left.
MutRefill(t) == IF t <= 0 THEN t ELSE MAX_TIME_SLICE
Refill(t) == IF t + TIME_SLICE > MAX_TIME_SLICE THEN MAX_TIME_SLICE
                                                ELSE t + TIME_SLICE
MutEligible(p, t) == t > 0
Eligible(p, t)    == ~exited[p] /\ t > 0
Scan ==
  LET n == IF sched_next >= npact THEN 0 ELSE sched_next
      p == pact[n + 1]
      t == Refill(time_slice[p])
      taken == Eligible(p, t)
  IN /\ at = "scan"
     /\ sched_next' = n + 1
     /\ time_slice' = [time_slice EXCEPT ![p] = t]
     /\ at' = IF taken THEN resume[p] ELSE "scan"
     /\ curr' = IF taken THEN p ELSE curr
     /\ UNCHANGED <<pact, nidle, resched, dosync, resume, exited, ready, sig>>

\* intr_return: signals, the sync the clock asked for, rescheduling.
RetSig ==
  /\ at = "ret"
  /\ sig' = [sig EXCEPT ![curr] = FALSE]
  /\ at' = "ret2"
  /\ UNCHANGED <<curr, pact, sched_next, nidle, resched, dosync, time_slice,
                 resume, exited, ready>>

RetSync ==
  /\ at = "ret2"
  /\ dosync' = FALSE
  /\ at' = "ret3"
  /\ UNCHANGED <<curr, pact, sched_next, nidle, resched, time_slice, resume,
                 exited, ready, sig>>

RetResched ==
  /\ at = "ret3"
  /\ at' = IF resched THEN "sched" ELSE "user"
  /\ resume' = IF resched THEN [resume EXCEPT ![curr] = "ret"] ELSE resume
  /\ UNCHANGED <<curr, pact, sched_next, nidle, resched, dosync, time_slice,
                 exited, ready, sig>>

----------------------------------------------------------------------------
(* System calls the current process may make, as the scheduler sees them.   *)

\* A call that may block: pause, sleep, wait, pipe and terminal I/O.
Block ==
  /\ at = "user"
  /\ at' = "block"
  /\ UNCHANGED <<curr, pact, sched_next, nidle, resched, dosync, time_slice,
                 resume, exited, ready, sig>>

\* A call that makes another's condition true and calls wakeup(): pipe I/O.
Post(q) ==
  /\ at = "user" /\ q \in Live \ {curr}
  /\ ready' = [ready EXCEPT ![q] = TRUE]
  /\ nidle' = 0
  /\ at' = "ret"
  /\ UNCHANGED <<curr, pact, sched_next, resched, dosync, time_slice, resume,
                 exited, sig>>

\* sendsig sets the bit and does not call wakeup().
Kill(q) ==
  /\ at = "user" /\ q \in Live
  /\ sig' = [sig EXCEPT ![q] = TRUE]
  /\ at' = "ret"
  /\ UNCHANGED <<curr, pact, sched_next, nidle, resched, dosync, time_slice,
                 resume, exited, ready>>

\* do_exit: the parent's wait may end; wakeup() and sched().
Exit ==
  /\ at = "user" /\ curr # init
  /\ exited' = [exited EXCEPT ![curr] = TRUE]
  /\ ready' = [ready EXCEPT ![init] = TRUE]
  /\ nidle' = 0
  /\ at' = "sched"
  /\ UNCHANGED <<curr, pact, sched_next, resched, dosync, time_slice, resume,
                 sig>>

\* The end of sys_waitpid: the last entry of pact fills the hole.
Reap ==
  /\ at = "user" /\ curr = init
  /\ \E i \in 1 .. npact :
       /\ exited[pact[i]]
       /\ pact' = SubSeq([pact EXCEPT ![i] = pact[npact]], 1, npact - 1)
       /\ time_slice' = [time_slice EXCEPT ![pact[i]] = 0]
       /\ resume' = [resume EXCEPT ![pact[i]] = "ret"]
       /\ ready' = [ready EXCEPT ![pact[i]] = FALSE]
       /\ sig' = [sig EXCEPT ![pact[i]] = FALSE]
  /\ at' = "ret"
  /\ UNCHANGED <<curr, sched_next, nidle, resched, dosync, exited>>

----------------------------------------------------------------------------
(* Interrupts: intr_irq calls the handler and then wakeup().                *)

MutWakeup == nidle
Wakeup    == 0

\* Where an interrupt taken here returns to: hlt ends, user code leaves
\* through intr_return, kernel code goes on.
After == CASE at = "halted" -> "test"
           [] at = "user"   -> "ret"
           [] OTHER         -> at

\* clkint: the second may be over, the slice of the current process shrinks.
Clock ==
  /\ at' = After
  /\ nidle' = Wakeup
  /\ dosync' \in {dosync, TRUE}
  /\ IF curr = none
       THEN resched' = TRUE /\ UNCHANGED time_slice
       ELSE /\ time_slice' = [time_slice EXCEPT
                                ![curr] = IF @ > -SLICE_DEBT THEN @ - 1 ELSE @]
            /\ resched' = (resched \/ time_slice'[curr] <= 0)
  /\ UNCHANGED <<curr, pact, sched_next, resume, exited, ready, sig>>

\* A device interrupt that brings what p waits for, or (a terminal) a signal.
Device(p) ==
  /\ p \in Live
  /\ at' = After
  /\ nidle' = Wakeup
  /\ \/ ready' = [ready EXCEPT ![p] = TRUE] /\ UNCHANGED sig
     \/ sig' = [sig EXCEPT ![p] = TRUE] /\ UNCHANGED ready
  /\ UNCHANGED <<curr, pact, sched_next, resched, dosync, time_slice, resume,
                 exited>>

----------------------------------------------------------------------------
\* All processes exist, init is current and in user code.
Init ==
  /\ at = "user" /\ curr = init
  /\ pact = [i \in 1 .. NPROC |-> i - 1]
  /\ sched_next = 0
  /\ nidle = 0 /\ resched = FALSE /\ dosync = FALSE
  /\ time_slice = [p \in Procs |-> 0]
  /\ resume = [p \in Procs |-> "ret"]
  /\ exited = [p \in Procs |-> FALSE]
  /\ ready = [p \in Procs |-> FALSE]
  /\ sig = [p \in Procs |-> FALSE]

KernelStep == \/ BlockTest \/ Idle \/ Idle2 \/ SchedEnter \/ HaltTest \/ Hlt
              \/ Scan \/ RetSig \/ RetSync \/ RetResched
UserCall   == Block \/ Exit \/ Reap \/ \E q \in Procs : Post(q) \/ Kill(q)
Next       == \/ KernelStep \/ UserCall \/ Clock
              \/ \E p \in Procs : Device(p)

\* The CPU executes kernel code, and the clock keeps ticking.  Nothing is
\* assumed of user code or of the other devices.
Fairness == WF_vars(KernelStep) /\ WF_vars(Clock)
Spec     == Init /\ [][Next]_vars /\ Fairness

----------------------------------------------------------------------------
(* Properties.                                                              *)

Places == {"user", "block", "idle", "idle2", "sched", "test", "hlt", "halted",
           "scan", "ret", "ret2", "ret3"}
\* Every field keeps its type; nidle, which sched compares with npact, never
\* passes the number of processes.
TypeOK ==
  /\ at \in Places /\ curr \in Procs \cup {none}
  /\ pact \in Seq(Procs) /\ npact \in 1 .. NPROC /\ sched_next \in 0 .. NPROC
  /\ nidle \in 0 .. NPROC
  /\ resched \in BOOLEAN /\ dosync \in BOOLEAN
  /\ time_slice \in [Procs -> -SLICE_DEBT .. MAX_TIME_SLICE]
  /\ resume \in [Procs -> {"ret", "block"}]
  /\ exited \in [Procs -> BOOLEAN]
  /\ ready \in [Procs -> BOOLEAN] /\ sig \in [Procs -> BOOLEAN]

\* Whatever order forks, exits and reaps leave pact in, kernel and user code
\* only ever run on behalf of a live process that pact still lists.
CurrLive ==
  at \in {"user", "block", "idle", "idle2", "ret", "ret2", "ret3"} =>
    curr \in Live /\ \E i \in 1 .. npact : pact[i] = curr

\* No wakeup is lost for good: a sleeping process whose condition holds gets
\* the CPU, although it may have to wait for the next tick (an interrupt
\* between its test and nidle++, or between the test of nidle and hlt).
SleeperWakes ==
  \A p \in Procs :
    (p \in Live /\ resume[p] = "block" /\ curr # p /\ (ready[p] \/ sig[p]))
      ~> (curr = p)

\* A signal reaches its process, asleep or not, although sendsig wakes nobody.
SignalDelivered == \A p \in Procs : sig[p] ~> (~sig[p] \/ exited[p])

\* A preempted process runs again: no order of time slices starves it.
PreemptedRuns ==
  \A p \in Procs : (resume[p] = "ret" /\ curr # p /\ p \in Live)
                     ~> (curr = p)

\* The sync the clock asks for once a second happens, also when every process
\* is asleep.
SyncHappens == dosync ~> ~dosync

\* Whatever exits and reorders pact, the tables are well formed and the kernel
\* runs code for a live process only.
SchedSafe == TypeOK /\ CurrLive

\* Who can run gets to: nothing that wakes, signals or preempts a process leaves
\* it waiting for good.
RunsAgain == SleeperWakes /\ SignalDelivered /\ PreemptedRuns
=============================================================================

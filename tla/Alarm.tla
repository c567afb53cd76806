-------------------------------- MODULE Alarm --------------------------------
(* alarm, sleep and stime of kern/clock.c.  An alarm is looked at only for   *)
(* the current process: by the clock interrupt, and when sched() has chosen  *)
(* the process.  Times are kept as what is left of them, in ticks, so that   *)
(* stime moves every alarm and every sleep that is under way.                *)
(* A definition Mut... is a wrong form of the definition below it.           *)
EXTENDS Integers

CONSTANTS
  AlProcs,
  MaxSec,      \* longest alarm and sleep asked for, in ticks
  MaxCalls     \* bound on the calls of alarm, sleep and stime, for TLC

ASSUME AlarmAssumption == MaxSec \in Nat \ {0} /\ MaxCalls \in Nat

VARIABLES
  alCurr,      \* the current process
  alRem,       \* what is left of the alarm; Off: alarm.time is 0
  alSleep,     \* what is left of the sleep a process is in; Off: none
  alSig,       \* SIGALRM is pending
  alDue,       \* history: ticks until the signal is due, until it is delivered
  alCalls

alVars == <<alCurr, alRem, alSleep, alSig, alDue, alCalls>>

Off == -9
Ticked(r) == IF r = Off THEN Off ELSE IF r < 0 THEN r ELSE r - 1
Set(r)    == r # Off

\* clock_chkalarm for process p: new alarm and signal.
MutDue(p) == Set(alRem[p]) /\ alRem[p] <= 1
Due(p)    == Set(alRem[p]) /\ alRem[p] <= 0
Chkalarm(p, rem) ==
  /\ alSig' = IF Due(p) THEN [alSig EXCEPT ![p] = TRUE] ELSE alSig
  /\ alRem' = IF Due(p) THEN [rem EXCEPT ![p] = Off] ELSE rem

\* clkint: the check comes before the tick is counted.
AlTick ==
  /\ \E p \in AlProcs : Set(alRem[p]) \/ Set(alSleep[p])
  /\ LET rem == [p \in AlProcs |-> Ticked(alRem[p])] IN Chkalarm(alCurr, rem)
  /\ alSleep' = [p \in AlProcs |-> Ticked(alSleep[p])]
  /\ alDue' = [p \in AlProcs |-> Ticked(alDue[p])]
  /\ UNCHANGED <<alCurr, alCalls>>

\* sched() chooses another process, and looks at its alarm.
MutAlSwitch(p) ==
  /\ p # alCurr /\ alCurr' = p
  /\ UNCHANGED <<alRem, alSig, alSleep, alDue, alCalls>>
AlSwitch(p) ==
  /\ p # alCurr /\ alCurr' = p
  /\ Chkalarm(p, alRem)
  /\ UNCHANGED <<alSleep, alDue, alCalls>>

AlRunning(p) == alCurr = p /\ ~Set(alSleep[p]) /\ ~alSig[p]
Called     == alCalls < MaxCalls /\ alCalls' = alCalls + 1

\* sys_alarm; for 0 it returns a value made of what was on its stack.
SysAlarm(p, s) ==
  /\ AlRunning(p) /\ Called
  /\ \/ /\ s > 0
        /\ alRem' = [alRem EXCEPT ![p] = s] /\ alDue' = [alDue EXCEPT ![p] = s]
     \/ /\ s = 0
        /\ alRem' = [alRem EXCEPT ![p] = Off] /\ alDue' = [alDue EXCEPT ![p] = Off]
  /\ UNCHANGED <<alCurr, alSleep, alSig>>

SysStime(d) ==
  /\ Called
  /\ LET moved(r) == IF Set(r) THEN (IF r - d < -1 THEN -1 ELSE r - d) ELSE Off
     IN /\ alRem' = [p \in AlProcs |-> moved(alRem[p])]
        /\ alSleep' = [p \in AlProcs |-> moved(alSleep[p])]
        /\ alDue' = [p \in AlProcs |-> IF alSig[p] THEN alDue[p] ELSE moved(alDue[p])]
  /\ AlRunning(alCurr)
  /\ UNCHANGED <<alCurr, alSig>>

SysSleep(p, s) ==
  /\ AlRunning(p) /\ Called
  /\ alSleep' = [alSleep EXCEPT ![p] = s]
  /\ UNCHANGED <<alCurr, alRem, alSig, alDue>>

\* The loop in sys_sleep ends when the time is over or a signal is pending.
SleepOver(p) == alSleep[p] <= 0 \/ alSig[p]
AlWake(p) ==
  /\ alCurr = p /\ Set(alSleep[p]) /\ SleepOver(p)
  /\ alSleep' = [alSleep EXCEPT ![p] = Off]
  /\ UNCHANGED <<alCurr, alRem, alSig, alDue, alCalls>>

\* The signal is delivered on the way back to the program.
AlSignal(p) ==
  /\ alCurr = p /\ alSig[p] /\ ~Set(alSleep[p])
  /\ alSig' = [alSig EXCEPT ![p] = FALSE] /\ alDue' = [alDue EXCEPT ![p] = Off]
  /\ UNCHANGED <<alCurr, alRem, alSleep, alCalls>>

AlInit ==
  /\ alCurr \in AlProcs
  /\ alRem = [p \in AlProcs |-> Off] /\ alSleep = [p \in AlProcs |-> Off]
  /\ alSig = [p \in AlProcs |-> FALSE]
  /\ alDue = [p \in AlProcs |-> Off] /\ alCalls = 0

AlNext ==
  \/ AlTick
  \/ \E p \in AlProcs : AlSwitch(p) \/ AlWake(p) \/ AlSignal(p)
  \/ \E p \in AlProcs, s \in 0 .. MaxSec : SysAlarm(p, s) \/ SysSleep(p, s)
  \/ \E d \in {-1, 1, MaxSec} : SysStime(d)

\* Without fairness: what is safe.
AlSpec == AlInit /\ [][AlNext]_alVars

----------------------------------------------------------------------------
(* Properties.                                                              *)

\* SIGALRM is not sent before its time, nor after alarm(0) took it back.
NotEarly == \A p \in AlProcs : alSig[p] => Set(alDue[p]) /\ alDue[p] <= 0

\* Every alarm rings or is taken back, although only the current process is
\* looked at, and every sleep ends, also when stime jumps past its end.
TimersEnd ==
  \A p \in AlProcs : /\ Set(alRem[p])   ~> ~Set(alRem[p])
                     /\ Set(alSleep[p]) ~> ~Set(alSleep[p])
=============================================================================

------------------------------- MODULE Floppy -------------------------------
(* The floppy driver kern/dv/fd.c: one request at a time (a request waits   *)
(* with hlt and never sleeps in idle()), against a controller that answers,  *)
(* answers too late, answers with an error or not at all, and a clock that   *)
(* stops the motor.                                                          *)
(*                                                                           *)
(* fd_out and fd_in wait for the controller and fail after a time; here they *)
(* may fail at any step, and can only succeed in the controller's command    *)
(* and result phase.  The command bytes and the DMA set-up are one step.     *)
(* A definition Mut... is a wrong form of the definition below it.           *)
EXTENDS Integers, FiniteSets

CONSTANTS
  PHYS_UNITS,        \* the drives
  NCYL,              \* cylinders of a disk
  FD_MAX_RETRIES,    \* 3 in the code
  FD_MOTOR_TIMEOUT   \* 3 * HZ in the code; the unit of time is left open

ASSUME FloppyAssumption ==
  /\ NCYL \in Nat \ {0} /\ FD_MAX_RETRIES \in Nat \ {0} /\ FD_MOTOR_TIMEOUT \in Nat \ {0}

VARIABLES
  fd_motor_timeout, fd_irq, need_reset, curr_cyl,
  fdMotor,     \* the drives whose motor bit is set in fdc_dor
  fdReq,       \* the request under way, its retries and its error
  fdPc,        \* where the driver is
  fdc,         \* phase of the controller, and the command it is at
  fdHead,      \* where the heads really are
  fdWorked,    \* history: the drive has carried out this request
  fdUnwound    \* history: the last request ended without starting the timer

fdVars == <<fd_motor_timeout, fd_irq, need_reset, curr_cyl, fdMotor, fdReq, fdPc,
            fdc, fdHead, fdWorked, fdUnwound>>

Ready   == [phase |-> "ready", cmd |-> "none", bad |-> FALSE, u |-> 0, c |-> 0]
Issue(cmd) == [phase |-> "exec", cmd |-> cmd, bad |-> FALSE, u |-> fdReq.u, c |-> fdReq.c]
Cyls    == 0 .. NCYL - 1
NoReq   == [op |-> "none", u |-> 0, c |-> 0, n |-> 0, retries |-> 0, err |-> FALSE]
FdOps   == {"read", "write", "format"}

----------------------------------------------------------------------------
(* The clock and the controller.                                             *)

\* fd_clock: a tick, which may be the motor's last.
FdClock ==
  /\ fd_motor_timeout > 0
  /\ fd_motor_timeout' = fd_motor_timeout - 1
  /\ fdMotor' = IF fd_motor_timeout = 1 THEN {} ELSE fdMotor
  /\ UNCHANGED <<fd_irq, need_reset, curr_cyl, fdReq, fdPc, fdc, fdHead, fdWorked,
                 fdUnwound>>

\* The controller finishes a command and interrupts (fd_irqv).  It looks for
\* the cylinder on the medium when it reads and writes, not when it formats.
FdcDone(bad) ==
  /\ fdc.phase = "exec"
  /\ fdc.cmd = "xfer" /\ fdReq.op # "format" /\ fdHead[fdc.u] # fdc.c => bad
  /\ fd_irq' = 1
  /\ fdc' = [fdc EXCEPT !.phase = "result", !.bad = bad]
  /\ fdHead' = IF bad \/ fdc.cmd \notin {"seek0", "seek"} THEN fdHead
               ELSE [fdHead EXCEPT ![fdc.u] = IF fdc.cmd = "seek0" THEN 0 ELSE fdc.c]
  /\ fdWorked' = (fdWorked \/ (fdc.cmd = "xfer" /\ ~bad))
  /\ UNCHANGED <<fd_motor_timeout, need_reset, curr_cyl, fdMotor, fdReq, fdPc, fdUnwound>>

\* A seek that went wrong may leave the heads anywhere.
FdStray(c) ==
  /\ fdc.phase = "exec" /\ fdc.cmd \in {"seek0", "seek"}
  /\ fd_irq' = 1 /\ fdc' = [fdc EXCEPT !.phase = "result", !.bad = TRUE]
  /\ fdHead' = [fdHead EXCEPT ![fdc.u] = c]
  /\ UNCHANGED <<fd_motor_timeout, need_reset, curr_cyl, fdMotor, fdReq, fdPc, fdWorked,
                 fdUnwound>>

----------------------------------------------------------------------------
(* fd_bread, fd_bwrite and fd_fmttrk.                                        *)

\* rfd_read and rfd_write ask for n blocks, one after the other.
FdStart(op, u, c, n) ==
  /\ fdPc = "idle" /\ (n > 1 => op # "format")
  /\ fdReq' = [op |-> op, u |-> u, c |-> c, n |-> n, retries |-> 0, err |-> FALSE]
  /\ fdPc' = "retry" /\ fdWorked' = FALSE
  /\ UNCHANGED <<fd_motor_timeout, fd_irq, need_reset, curr_cyl, fdMotor, fdc, fdHead,
                 fdUnwound>>

\* The label unlock: fd_bread and fd_fmttrk wind up the motor's timer there,
\* fd_bwrite does so before it, and not for a request it gives up.
MutUnlock ==
  /\ fd_motor_timeout' = fd_motor_timeout /\ fdUnwound' = FALSE
Unlock ==
  IF fdReq.op = "write" /\ fdReq.err
    THEN UNCHANGED fd_motor_timeout /\ fdUnwound' = TRUE
    ELSE fd_motor_timeout' = FD_MOTOR_TIMEOUT /\ fdUnwound' = FALSE

\* Reading and writing are tried FD_MAX_RETRIES times, formatting once.
Retries(op) == IF op = "format" THEN 1 ELSE FD_MAX_RETRIES
FdGiveUp ==
  /\ fdPc = "retry" /\ fdReq.retries >= Retries(fdReq.op)
  /\ Unlock
  /\ fdPc' = "idle"
  /\ UNCHANGED <<fd_irq, need_reset, curr_cyl, fdMotor, fdReq, fdc, fdHead, fdWorked>>

\* fd_select, up to the wait in fd_reset: the motor's timer stops.
MutAgain(n) == n
Again(n)    == n + 1
FdSelect ==
  /\ fdPc = "retry" /\ fdReq.retries < Retries(fdReq.op)
  /\ fdReq' = [fdReq EXCEPT !.retries = Again(@)]
  /\ fd_motor_timeout' = 0
  /\ \/ /\ need_reset
        /\ curr_cyl' = [u \in PHYS_UNITS |-> -1]
        /\ fdc' = Issue("reset")
        /\ fdPc' = "reset"
     \/ ~need_reset /\ fdPc' = "motor" /\ UNCHANGED <<curr_cyl, fdc>>
  /\ UNCHANGED <<fd_irq, need_reset, fdMotor, fdHead, fdWorked, fdUnwound>>

\* fd_wait in fd_reset: fd_irq was not cleared, an old interrupt will do.
FdResetIrq ==
  /\ fdPc = "reset" /\ fd_irq = 1
  /\ fdPc' = "sense"
  /\ UNCHANGED <<fd_motor_timeout, fd_irq, need_reset, curr_cyl, fdMotor, fdReq, fdc,
                 fdHead, fdWorked, fdUnwound>>

\* The four sense commands and the parameters: what fails here starts the
\* motor's timer, and the driver goes on.
FdResetEnd(ok) ==
  /\ fdPc = "sense"
  /\ ok => fdc.phase = "result" \/ fdc = Ready
  /\ fdc' = IF ok THEN Ready ELSE fdc
  /\ fd_motor_timeout' = IF ok THEN fd_motor_timeout ELSE FD_MOTOR_TIMEOUT
  /\ need_reset' = FALSE /\ fdPc' = "motor"
  /\ UNCHANGED <<fd_irq, curr_cyl, fdMotor, fdReq, fdHead, fdWorked, fdUnwound>>

FdResetTimeout ==
  /\ fdPc = "reset" /\ fd_irq = 0
  /\ need_reset' = TRUE /\ fdPc' = "motor"
  /\ UNCHANGED <<fd_motor_timeout, fd_irq, curr_cyl, fdMotor, fdReq, fdc, fdHead,
                 fdWorked, fdUnwound>>

\* The other drive's motor is switched off with the same write.
FdSpin ==
  /\ fdPc = "motor"
  /\ fdMotor' = {fdReq.u}
  /\ fdPc' = IF curr_cyl[fdReq.u] < 0 THEN "seek0"
             ELSE IF curr_cyl[fdReq.u] # fdReq.c THEN "seek" ELSE "xfer"
  /\ UNCHANGED <<fd_motor_timeout, fd_irq, need_reset, curr_cyl, fdReq, fdc, fdHead,
                 fdWorked, fdUnwound>>

Fail == fdReq' = [fdReq EXCEPT !.err = TRUE] /\ fdPc' = "retry"

\* After a seek that failed fd_bread and fd_bwrite forget the cylinder,
\* fd_fmttrk does not.
Forget(cmd) == IF cmd = "seek" /\ fdReq.op # "format"
                 THEN [curr_cyl EXCEPT ![fdReq.u] = -1] ELSE curr_cyl

\* The controller takes a command, unless it has a result to be read.
Accepts == \/ fdc.phase = "ready"
           \/ fdc.phase = "result" /\ fdc.cmd # "xfer"
           \/ fdc.phase = "exec" /\ fdc.cmd = "reset"

\* A command: fd_irq is cleared and the bytes go out, or fd_out fails.  While
\* the first one waits a reset may end, and its interrupt is taken for this
\* command's.
FdCommand(ok) ==
  /\ fdPc \in {"seek0", "seek", "xfer"}
  /\ \/ /\ ok /\ Accepts
        /\ fd_irq' = IF fdc.phase = "exec" THEN 1 ELSE 0
        /\ fdc' = Issue(fdPc)
        /\ fdPc' = "wait"
        /\ UNCHANGED <<fd_motor_timeout, need_reset, curr_cyl, fdReq>>
     \/ /\ ~ok /\ Fail /\ fd_irq' = 0
        /\ fd_motor_timeout' = FD_MOTOR_TIMEOUT /\ need_reset' = TRUE
        /\ curr_cyl' = Forget(fdPc)
        /\ UNCHANGED fdc
  /\ UNCHANGED <<fdMotor, fdHead, fdWorked, fdUnwound>>

\* fd_wait gives up, or the result does not come: the next try resets.
FdNoAnswer ==
  /\ fdPc = "wait" /\ (fd_irq = 1 => fdc.phase # "result")
  /\ need_reset' = TRUE /\ Fail
  /\ curr_cyl' = Forget(fdc.cmd)
  /\ UNCHANGED <<fd_motor_timeout, fd_irq, fdMotor, fdc, fdHead, fdWorked, fdUnwound>>

\* The result is there: st0, and for a seek the cylinder it reports.
MutGood == TRUE
Good    == ~fdc.bad
FdResult ==
  /\ fdPc = "wait" /\ fd_irq = 1 /\ fdc.phase = "result"
  /\ fdc' = Ready
  /\ LET u == fdReq.u IN
     \/ /\ ~Good /\ Fail
        /\ curr_cyl' = [curr_cyl EXCEPT ![u] = -1]
        /\ UNCHANGED <<fd_motor_timeout, fdUnwound, fdWorked>>
     \/ /\ Good /\ fdc.cmd = "seek0"
        /\ curr_cyl' = [curr_cyl EXCEPT ![u] = 0]
        /\ fdPc' = IF fdReq.c # 0 THEN "seek" ELSE "xfer"
        /\ UNCHANGED <<fd_motor_timeout, fdReq, fdUnwound, fdWorked>>
     \/ /\ Good /\ fdc.cmd = "seek"
        /\ curr_cyl' = [curr_cyl EXCEPT ![u] = fdReq.c]
        /\ fdPc' = "xfer"
        /\ UNCHANGED <<fd_motor_timeout, fdReq, fdUnwound, fdWorked>>
     \/ /\ Good /\ fdc.cmd = "xfer"
        /\ fdReq' = [fdReq EXCEPT !.err = FALSE, !.n = @ - 1, !.retries = 0]
        /\ fdPc' = IF fdReq.n > 1 THEN "retry" ELSE "idle"
        /\ fd_motor_timeout' = FD_MOTOR_TIMEOUT /\ fdUnwound' = FALSE
        /\ fdWorked' = (fdWorked /\ fdReq.n = 1)
        /\ UNCHANGED curr_cyl
  /\ UNCHANGED <<fd_irq, need_reset, fdMotor, fdHead>>

FdStop ==
  /\ fdPc = "idle" /\ fdMotor # {}
  /\ fd_motor_timeout' = 0 /\ fdMotor' = {}
  /\ UNCHANGED <<fd_irq, need_reset, curr_cyl, fdReq, fdPc, fdc, fdHead, fdWorked,
                 fdUnwound>>

FdInit ==
  /\ fd_motor_timeout = 0 /\ fd_irq = 0 /\ need_reset = TRUE
  /\ curr_cyl = [u \in PHYS_UNITS |-> -1]
  /\ fdMotor = {} /\ fdReq = NoReq /\ fdPc = "idle" /\ fdc = Ready
  /\ fdHead = [u \in PHYS_UNITS |-> 0]
  /\ fdWorked = FALSE /\ fdUnwound = FALSE

FdDriver == \/ FdGiveUp \/ FdSelect \/ FdResetIrq \/ FdResetTimeout \/ FdSpin
            \/ \E ok \in BOOLEAN : FdResetEnd(ok) \/ FdCommand(ok)
            \/ FdNoAnswer \/ FdResult

FdNext == \/ FdClock \/ FdDriver
          \/ \E bad \in BOOLEAN : FdcDone(bad)
          \/ \E op \in FdOps, u \in PHYS_UNITS, c \in Cyls, n \in 1 .. 2 : FdStart(op, u, c, n)
          \/ FdStop \/ \E c \in Cyls : FdStray(c)

\* Without fairness: what is safe.
FdSpec == FdInit /\ [][FdNext]_fdVars

----------------------------------------------------------------------------
(* Properties.                                                              *)

\* When the driver reads, writes or formats the heads are where it believes
\* them to be, whatever was lost, late or wrong before; the controller does
\* not find out by itself when it formats.  And a request that reports success
\* was carried out.
HeadsKnown ==
  /\ fdPc = "xfer" \/ (fdPc = "wait" /\ fdc.cmd = "xfer") =>
       fdHead[fdReq.u] = fdReq.c
  /\ fdPc = "idle" /\ fdReq.op # "none" /\ ~fdReq.err => fdWorked

\* A motor that is left running has its timer running, so that it stops; only
\* a write that was given up leaves it on until the next request.
MotorStops == fdPc = "idle" /\ fdMotor # {} => fd_motor_timeout > 0 \/ fdUnwound

\* Every request ends, whatever the drive does: timeouts and the number of
\* retries see to it.
FdEnds == fdPc # "idle" ~> fdPc = "idle"

\* What the driver believes of the heads and of the motors is so.
FdKnown == HeadsKnown /\ MotorStops
=============================================================================

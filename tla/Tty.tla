-------------------------------- MODULE Tty --------------------------------
(* A terminal on a serial line: the line discipline kern/ttyld.c on top of  *)
(* the driver kern/dv/rs.c, for one unit (the two units share nothing).     *)
(* The receive and the transmit ring are shared by the interrupt handler    *)
(* and by the processes that read and write; the line buffer of struct tty  *)
(* is shared by all readers.                                                *)
(*                                                                          *)
(* A process runs in the kernel until it sleeps in idle(), and interrupts   *)
(* come between any two steps.  A character is one of the kinds the line    *)
(* discipline tells apart; the newline and carriage return conversions and  *)
(* the exact erase sequence are formatting and left out.                    *)
(* A definition Mut... is a wrong form of the definition below it.          *)
EXTENDS Integers, Sequences, FiniteSets

CONSTANTS
  Readers, Writers,   \* processes that read and that write the terminal
  Root,               \* those of them with euid 0
  BUF_SIZE,           \* bytes of each ring, 82 in the code
  MAX_CANON,          \* bytes of the line buffer
  Keys,               \* what may arrive on the line
  Modes,              \* values of c_lflag that programs set
  Requests,           \* <<count, O_NDELAY>> of the reads and writes
  Sharing             \* a second reader may enter while one collects a line

ASSUME TtyAssumption ==
  /\ BUF_SIZE \in Nat \ {0} /\ MAX_CANON \in Nat \ {0}
  /\ Keys \subseteq {"a", "b", "nl", "erase", "kill", "eof", "intr", "hup"}
  /\ Modes \subseteq SUBSET {"icanon", "echo", "isig", "xhup"}
  /\ Requests \subseteq Nat \X BOOLEAN

Users == Readers \cup Writers
none  == "none"

VARIABLES
  inq, outq,   \* the rings ibuf and obuf with their indices and counts
  thr, thri,   \* the transmitter's character; its interrupt is pending
  lflag, carrier,
  buf, inplen, unread,  \* the line buffer; unread is an offset or NULL
  call,        \* the system call each process is in
  tsig,        \* a signal is pending
  fed, pend,   \* history: received and not yet taken, written and not yet sent
  edited       \* history: what the collecting reader has typed, edited

ttyVars == <<inq, outq, thr, thri, lflag, carrier, buf, inplen, unread,
             call, tsig, fed, pend, edited>>
lineVars == <<buf, inplen, unread, edited>>

NULL == -1
Idle == [op |-> "user"]
At(p, op) == call[p].op = op

----------------------------------------------------------------------------
(* The rings.                                                               *)

NoBytes == [buf |-> [i \in 0 .. BUF_SIZE - 1 |-> none],
            head |-> 0, tail |-> 0, cnt |-> 0]
MutHasSpace(q) == q.cnt <= BUF_SIZE
HasSpace(q)    == q.cnt < BUF_SIZE
Put(q, c)   == [q EXCEPT !.buf[q.tail] = c, !.tail = (@ + 1) % BUF_SIZE,
                         !.cnt = @ + 1]
\* A byte that was taken stays in its slot, unread; here the slot is emptied.
Advance(q)  == [q EXCEPT !.buf[q.head] = none, !.head = (@ + 1) % BUF_SIZE]
Get(q)      == [Advance(q) EXCEPT !.cnt = @ - 1]

----------------------------------------------------------------------------
(* The interrupt handler and the hardware.                                  *)

\* ttyld_intr: the character is a signal for every process of the terminal.
IsSignal(c) == \/ c = "intr" /\ "isig" \in lflag
               \/ c = "hup" /\ "xhup" \in lflag

\* A character has arrived on the line; without room it is dropped.
IrqReceive(c) ==
  /\ \/ /\ IsSignal(c)
        /\ tsig' = [p \in Users |-> TRUE]
        /\ UNCHANGED <<inq, fed>>
     \/ /\ ~IsSignal(c) /\ HasSpace(inq)
        /\ inq' = Put(inq, c) /\ fed' = Append(fed, c)
        /\ UNCHANGED tsig
  /\ UNCHANGED <<outq, thr, thri, lflag, carrier, lineVars, call, pend>>

\* The transmitter has sent its character.
Sent ==
  /\ thr # none
  /\ thr' = none /\ thri' = TRUE /\ pend' = Tail(pend)
  /\ UNCHANGED <<inq, outq, lflag, carrier, lineVars, call, tsig, fed>>

IrqTransmit ==
  /\ thri /\ thri' = FALSE
  /\ \/ outq.cnt > 0 /\ thr' = outq.buf[outq.head] /\ outq' = Get(outq)
     \/ outq.cnt = 0 /\ UNCHANGED <<thr, outq>>
  /\ UNCHANGED <<inq, lflag, carrier, lineVars, call, tsig, fed, pend>>

\* The modem status changes: ttyld_carrier.
IrqModem ==
  /\ carrier' = ~carrier
  /\ tsig' = IF carrier THEN [p \in Users |-> TRUE] ELSE tsig
  /\ UNCHANGED <<inq, outq, thr, thri, lflag, lineVars, call, fed, pend>>

----------------------------------------------------------------------------
(* Output: rs_cwrite.                                                       *)

\* With the transmitter idle the first character goes out at once.
MutKick == FALSE
Kick    == thr = none
Cwrite(c) ==
  LET q == Put(outq, c)
  IN /\ pend' = Append(pend, c)
     /\ IF Kick THEN thr' = q.buf[q.head] /\ thri' = FALSE /\ outq' = Get(q)
                ELSE outq' = q /\ UNCHANGED <<thr, thri>>
NoOutput == UNCHANGED <<outq, thr, thri, pend>>

\* The echo of a character does not wait, and nobody looks at its error.
EchoNow(p) ==
  IF "echo" \in lflag /\ ~tsig[p] /\ HasSpace(outq) THEN Cwrite("x") ELSE NoOutput

\* (A write of no bytes does nothing.)
SysWrite(p, n, nd) ==
  /\ At(p, "user") /\ ~tsig[p] /\ carrier /\ n > 0
  /\ call' = [call EXCEPT ![p] = [op |-> "write", n |-> n, nd |-> nd]]
  /\ UNCHANGED <<inq, outq, thr, thri, lflag, carrier, lineVars, tsig, fed, pend>>

Write(p) ==
  /\ At(p, "write")
  /\ \/ /\ tsig[p] \/ (call[p].nd /\ ~HasSpace(outq))
        /\ call' = [call EXCEPT ![p] = Idle]
        /\ NoOutput
     \/ /\ ~tsig[p] /\ HasSpace(outq)
        /\ Cwrite("x")
        /\ call' = [call EXCEPT ![p] = IF call[p].n = 1 THEN Idle
                                       ELSE [call[p] EXCEPT !.n = call[p].n - 1]]
  /\ UNCHANGED <<inq, lflag, carrier, lineVars, tsig, fed>>

----------------------------------------------------------------------------
(* Input: ttyld_read and ttyld_input.                                       *)

\* The copy to the user; unread and inplen are those after it.
Deliver(p, u, k) ==
  LET n == IF call[p].n > k THEN k ELSE call[p].n
  IN /\ inplen' = k - n
     /\ unread' = IF k = n THEN NULL ELSE u + n
     /\ edited' = SubSeq(edited, n + 1, Len(edited))

Busy == \E p \in Readers : call[p].op \in {"input", "took", "echo"}

\* A line is there already.
ReadRest(p) ==
  /\ At(p, "read") /\ unread # NULL
  /\ Deliver(p, unread, inplen)
  /\ call' = [call EXCEPT ![p] = Idle]
  /\ UNCHANGED <<inq, outq, thr, thri, lflag, carrier, buf, tsig, fed, pend>>

\* ttyld_input begins with an empty line.
MutFirst == UNCHANGED <<unread, inplen>>
First    == unread' = NULL /\ inplen' = 0
ReadStart(p) ==
  /\ At(p, "read") /\ unread = NULL /\ (Sharing \/ ~Busy)
  /\ First /\ edited' = <<>>
  /\ call' = [call EXCEPT ![p].op = "input", ![p].lf = "echo" \in lflag]
  /\ UNCHANGED <<inq, outq, thr, thri, lflag, carrier, buf, tsig, fed, pend>>

SysRead(p, n, nd) ==
  /\ At(p, "user") /\ ~tsig[p] /\ carrier
  /\ call' = [call EXCEPT ![p] = [op |-> "read", n |-> n, nd |-> nd, c |-> none,
                                  k |-> 0, lf |-> FALSE]]
  /\ UNCHANGED <<inq, outq, thr, thri, lflag, carrier, lineVars, tsig, fed, pend>>

\* rs_cread: with nothing to read, O_NDELAY and signals end the call.
ReadGivesUp(p) ==
  /\ At(p, "input") /\ inq.cnt = 0 /\ (call[p].nd \/ tsig[p])
  /\ call' = [call EXCEPT ![p] = Idle]
  /\ UNCHANGED <<inq, outq, thr, thri, lflag, carrier, lineVars, tsig, fed, pend>>

\* rs_cread takes the character first and lowers icnt later, with interrupts
\* in between.
Took == \E p \in Readers : At(p, "took")
Take(p) ==
  /\ At(p, "input") /\ inq.cnt > 0
  /\ call' = [call EXCEPT ![p].op = "took", ![p].c = inq.buf[inq.head]]
  /\ inq' = Advance(inq) /\ fed' = Tail(fed)
  /\ UNCHANGED <<outq, thr, thri, lflag, carrier, lineVars, tsig, pend>>

Back(p)   == call' = [call EXCEPT ![p].op = "input", ![p].c = none]
Return(p) == call' = [call EXCEPT ![p] = Idle]

\* One turn of the loop in ttyld_input, for a line.  The echo of a kill also
\* depends on lf, the flags at the beginning of the line.
Shown(p, c) == "echo" \in lflag /\ inplen > 0 /\ (c = "kill" => call[p].lf)
Edit(p, c) ==
  \/ /\ c \in {"erase", "kill"} /\ Shown(p, c)
     /\ call' = [call EXCEPT ![p].op = "echo", ![p].k = IF c = "erase" THEN 1 ELSE inplen]
     /\ NoOutput /\ UNCHANGED lineVars
  \/ /\ c \in {"erase", "kill"} /\ ~Shown(p, c)
     /\ inplen' = IF c = "kill" \/ inplen = 0 THEN 0 ELSE inplen - 1
     /\ edited' = IF c = "kill" THEN <<>> ELSE SubSeq(edited, 1, Len(edited) - 1)
     /\ Back(p) /\ NoOutput /\ UNCHANGED <<buf, unread>>
  \/ /\ c = "eof"
     /\ Deliver(p, 0, inplen)
     /\ Return(p) /\ NoOutput /\ UNCHANGED buf
  \/ /\ c \notin {"erase", "kill", "eof"} /\ inplen >= MAX_CANON
     /\ Back(p) /\ NoOutput /\ UNCHANGED lineVars
  \/ /\ c \notin {"erase", "kill", "eof"} /\ inplen < MAX_CANON
     /\ EchoNow(p)
     /\ buf' = [buf EXCEPT ![inplen] = c]
     /\ IF c = "nl"
          THEN LET n == IF call[p].n > inplen + 1 THEN inplen + 1 ELSE call[p].n
               IN /\ inplen' = inplen + 1 - n
                  /\ unread' = IF inplen + 1 = n THEN NULL ELSE n
                  /\ edited' = SubSeq(Append(edited, c), n + 1, Len(edited) + 1)
                  /\ Return(p)
          ELSE /\ inplen' = inplen + 1 /\ edited' = Append(edited, c)
               /\ Back(p) /\ UNCHANGED unread

\* Without ICANON every character is a line, which a read of no bytes leaves.
Raw(p, c) ==
  /\ EchoNow(p)
  /\ buf' = [buf EXCEPT ![0] = c]
  /\ IF call[p].n > 0 THEN inplen' = 0 /\ unread' = NULL /\ edited' = <<>>
                      ELSE inplen' = 1 /\ unread' = 0 /\ edited' = <<c>>
  /\ Return(p)

Turn(p) ==
  /\ At(p, "took")
  /\ inq' = [inq EXCEPT !.cnt = @ - 1]
  /\ IF "icanon" \in lflag THEN Edit(p, call[p].c) ELSE Raw(p, call[p].c)
  /\ UNCHANGED <<lflag, carrier, tsig, fed>>

\* ttyld_echoe waits for room in the ring, before the line is shortened; after
\* a signal its characters are dropped.
Echo(p) ==
  /\ At(p, "echo")
  /\ \/ /\ ~tsig[p] /\ HasSpace(outq) /\ call[p].k > 0
        /\ Cwrite("x")
        /\ call' = [call EXCEPT ![p].k = @ - 1]
        /\ UNCHANGED lineVars
     \/ /\ tsig[p] \/ call[p].k = 0
        /\ inplen' = IF call[p].c = "kill" THEN 0 ELSE inplen - 1
        /\ edited' = IF call[p].c = "kill" THEN <<>> ELSE SubSeq(edited, 1, Len(edited) - 1)
        /\ call' = [call EXCEPT ![p].op = "input", ![p].c = none, ![p].k = 0]
        /\ NoOutput /\ UNCHANGED <<buf, unread>>
  /\ UNCHANGED <<inq, lflag, carrier, tsig, fed>>

----------------------------------------------------------------------------
\* TCSETA: only root changes XHUP.
Ioctl(p, m) ==
  /\ At(p, "user") /\ ~tsig[p]
  /\ lflag' = IF p \in Root THEN m ELSE (m \ {"xhup"}) \cup (lflag \cap {"xhup"})
  /\ lflag' # lflag
  /\ UNCHANGED <<inq, outq, thr, thri, carrier, lineVars, call, tsig, fed, pend>>

\* The signal is delivered on the way back to user mode.
Signalled(p) ==
  /\ At(p, "user") /\ tsig[p]
  /\ tsig' = [tsig EXCEPT ![p] = FALSE]
  /\ UNCHANGED <<inq, outq, thr, thri, lflag, carrier, lineVars, call, fed, pend>>

\* rs_init1 and ttyld_init.
TtyInit ==
  /\ inq = NoBytes /\ outq = NoBytes
  /\ thr = none /\ thri = FALSE
  /\ lflag = {"echo", "icanon", "isig"} /\ carrier \in BOOLEAN
  /\ buf = [i \in 0 .. MAX_CANON - 1 |-> none] /\ inplen = 0 /\ unread = NULL
  /\ call = [p \in Users |-> Idle]
  /\ tsig = [p \in Users |-> FALSE]
  /\ fed = <<>> /\ pend = <<>> /\ edited = <<>>

Reading(p) == ReadRest(p) \/ ReadStart(p) \/ ReadGivesUp(p) \/ Take(p) \/ Echo(p)

TtyNext ==
  \/ \E c \in Keys : IrqReceive(c)
  \/ Sent \/ IrqTransmit \/ IrqModem
  \/ \E p \in Readers : Turn(p)
  \/ /\ ~Took    \* the kernel changes to another process in idle() only
     /\ \/ \E p \in Writers : Write(p) \/ \E r \in Requests : SysWrite(p, r[1], r[2])
        \/ \E p \in Readers : Reading(p) \/ \E r \in Requests : SysRead(p, r[1], r[2])
        \/ \E p \in Users : Signalled(p) \/ \E m \in Modes : Ioctl(p, m)

TtySpec == TtyInit /\ [][TtyNext]_ttyVars

----------------------------------------------------------------------------
(* Properties.                                                              *)

Content(q, n) == [i \in 1 .. n |-> q.buf[(q.head + i - 1) % BUF_SIZE]]

\* Whatever the order of interrupts, reads, writes and echoes, the rings hold
\* the characters received and not yet read, and written and not yet sent, in
\* order, each once.
RingsExact ==
  /\ inq.cnt \in 0 .. BUF_SIZE /\ outq.cnt \in 0 .. BUF_SIZE
  /\ fed = Content(inq, IF Took THEN inq.cnt - 1 ELSE inq.cnt)
  /\ pend = (IF thr = none THEN <<>> ELSE <<thr>>) \o Content(outq, outq.cnt)

\* A read gets what one reader has typed since it began, edited: nothing of an
\* interrupted line and nothing of an older one; and it reads and writes the
\* line buffer within its bounds.
LineWhole ==
  LET start == IF unread = NULL THEN 0 ELSE unread
  IN Busy \/ unread # NULL =>
       /\ start + inplen <= MAX_CANON
       /\ edited = [i \in 1 .. inplen |-> buf[start + i - 1]]

\* While the output ring holds anything the transmitter is busy or its interrupt
\* is on the way: a writer that waits for room never waits for an interrupt
\* that was lost, also when the transmitter ran dry while it was writing.
OutputMoves == outq.cnt > 0 => thr # none \/ thri

\* The two rings, the line a reader gets and the transmitter together.
TtyExact == RingsExact /\ LineWhole /\ OutputMoves
=============================================================================

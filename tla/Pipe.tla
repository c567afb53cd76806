------------------------------- MODULE Pipe -------------------------------
(* Pipes and FIFOs, kern/fs/pipe.c, with the part of the open file table    *)
(* that keeps their counts right: do_open and sys_pipe, file_get, file_put, *)
(* sharing by fork and dup, and the inode reference.                        *)
(*                                                                          *)
(* One inode is followed, either a FIFO with a name or the nameless inode   *)
(* of pipe().  The kernel is not preemptive: a call runs alone from one     *)
(* idle() to the next, so one action is one stretch of a call, and a call   *)
(* that finds it must wait stays as it is.  The processes that wait are     *)
(* looked at again by wakeup() or by the next clock tick (module Sched).    *)
(* A definition Mut... is a wrong form of the definition below it.          *)
EXTENDS Integers, FiniteSets, Sequences, FiniteSetsExt

CONSTANTS
  Procs,
  PIPE_BUF,   \* size of the ring, 4096 in the code
  NFILE,      \* entries of file[] that are used here
  MaxCount,   \* bound: most bytes of one request
  MaxLeak     \* bound: how many O_RDWR opens are followed

ASSUME PipeAssumption ==
  /\ PIPE_BUF \in Nat \ {0}
  /\ NFILE \in Nat /\ MaxCount \in Nat /\ MaxLeak \in Nat
  /\ IsFiniteSet(Procs)

Files == 1 .. NFILE
Modes == {"r", "w", "rw"}

\* A byte, as far as it matters: who wrote it, and whether more bytes of the
\* same request follow that must not be torn from it.
Byte == [who : Procs, more : BOOLEAN]

VARIABLES
  pipe_readers, pipe_writers,               \* struct inode
  pipe_buf, pipe_rdp, pipe_wrp, pipe_datlen,
  irefs,       \* refcnt of the inode, 0: not in the inode table
  named,       \* a FIFO; otherwise made by pipe()
  frefs,       \* refcnt of each entry of file[]
  mode,        \* its flags & 7 once its ino is set, "new" before
  ndelay,      \* its O_NDELAY flag (flags is 0 in an entry that is free)
  fds,         \* the files each process has open
  call,        \* the system call each process is in
  sig,         \* a signal is pending
  leaked,      \* history: O_RDWR files closed since the inode was read
  orphans      \* history: files no process can reach any more

ring  == <<pipe_buf, pipe_rdp, pipe_wrp, pipe_datlen>>
inodev == <<pipe_readers, pipe_writers, ring, irefs, leaked>>
filev == <<frefs, mode, ndelay, orphans>>
vars  == <<inodev, named, filev, fds, call, sig>>

User == [op |-> "user"]
Opening(m, f, nd) == [op |-> "open", m |-> m, f |-> f, nd |-> nd]
Rw(op, f, n, left) == [op |-> op, f |-> f, n |-> n, left |-> left]

In(p, op) == call[p].op = op
\* The process runs its program: what is pending is delivered before that.
Runs(p) == In(p, "user") /\ ~sig[p]
Return(p) == call' = [call EXCEPT ![p] = User]

----------------------------------------------------------------------------
(* The ring.                                                                *)

\* x % PIPE_BUF for the x < 2 * PIPE_BUF that occur.
Wrap(x) == IF x >= PIPE_BUF THEN x - PIPE_BUF ELSE x

Room == PIPE_BUF - pipe_datlen

\* Calls of pipe_getc for k bytes.
MutGetBytes(k) ==
  /\ pipe_datlen' = pipe_datlen - k
  /\ pipe_rdp' = 0
  /\ UNCHANGED <<pipe_buf, pipe_wrp>>
GetBytes(k) ==
  /\ pipe_datlen' = pipe_datlen - k
  /\ pipe_rdp' = Wrap(pipe_rdp + k)
  /\ UNCHANGED <<pipe_buf, pipe_wrp>>

\* Calls of pipe_putc for k of the bytes p has left to write; `small` if the
\* request has to stay in one piece.
PutBytes(p, k, left, small) ==
  /\ pipe_datlen' = pipe_datlen + k
  /\ pipe_buf' = [i \in 0 .. PIPE_BUF - 1 |->
                    IF \E j \in 0 .. k - 1 : i = Wrap(pipe_wrp + j)
                      THEN [who |-> p,
                            more |-> small /\ i # Wrap(pipe_wrp + left - 1)]
                      ELSE pipe_buf[i]]
  /\ pipe_wrp' = Wrap(pipe_wrp + k)
  /\ UNCHANGED pipe_rdp

\* The pipe fields of an inode that inode_get has just read.
MutFreshRing == UNCHANGED ring
FreshRing ==
  /\ pipe_rdp' = 0 /\ pipe_wrp' = 0 /\ pipe_datlen' = 0
  /\ UNCHANGED pipe_buf

----------------------------------------------------------------------------
(* Opening and closing.                                                     *)

FreeFile(f) == frefs[f] = 0
\* file_get takes the first free entry.
FirstFree(S) == {f \in S : FreeFile(f) /\ \A g \in S : g < f => ~FreeFile(g)}

Reads(m)  == IF m \in {"r", "rw"} THEN 1 ELSE 0
Writes(m) == IF m \in {"w", "rw"} THEN 1 ELSE 0

\* do_open of the FIFO up to the wait of pipe_open: the inode is found or
\* read, a file is taken, its ino is not set yet, and the opener is counted
\* already.
Counted(m) == IF irefs = 0
                THEN /\ pipe_readers' = Reads(m) /\ pipe_writers' = Writes(m)
                     /\ FreshRing /\ leaked' = 0
                ELSE /\ pipe_readers' = pipe_readers + Reads(m)
                     /\ pipe_writers' = pipe_writers + Writes(m)
                     /\ UNCHANGED <<ring, leaked>>
MayLeak == leaked + Cardinality({f \in Files : mode[f] = "rw"})
                  + Cardinality({p \in Procs : In(p, "open") /\ call[p].m = "rw"})
\* Without memory for the ring the open comes to nothing.
Open(p, m, nd) ==
  /\ named /\ Runs(p)
  /\ m = "rw" => MayLeak < MaxLeak
  /\ \E f \in FirstFree(Files) :
       /\ frefs' = [frefs EXCEPT ![f] = 1]
       /\ mode' = [mode EXCEPT ![f] = "new"]
       /\ call' = [call EXCEPT ![p] = Opening(m, f, nd)]
  /\ irefs' = irefs + 1
  /\ Counted(m)
  /\ UNCHANGED <<named, ndelay, orphans, fds, sig>>

\* The wait conditions of pipe_open.
MutOpenReady(m, nd) ==
  \/ m = "rw"
  \/ m = "r" /\ (pipe_datlen > 0 \/ nd \/ \E g \in Files : mode[g] \in {"w", "rw"})
  \/ m = "w" /\ \E g \in Files : mode[g] \in {"r", "rw"}
OpenReady(m, nd) ==
  \/ m = "rw"
  \/ m = "r" /\ (pipe_writers > 0 \/ pipe_datlen > 0 \/ nd)
  \/ m = "w" /\ pipe_readers > 0

OpenDone(p) ==
  /\ In(p, "open")
  /\ LET f == call[p].f
     IN /\ OpenReady(call[p].m, call[p].nd)
        /\ mode' = [mode EXCEPT ![f] = call[p].m]
        /\ ndelay' = [ndelay EXCEPT ![f] = call[p].nd]
        /\ fds' = [fds EXCEPT ![p] = @ \cup {f}]
  /\ Return(p)
  /\ UNCHANGED <<inodev, named, frefs, orphans, sig>>

\* pipe_open gives up, EINTR or ENXIO, and do_open undoes the rest; file_put
\* finds no ino and closes nothing.
MutUncount(m) == UNCHANGED <<pipe_readers, pipe_writers>>
Uncount(m) == /\ pipe_readers' = pipe_readers - Reads(m)
              /\ pipe_writers' = pipe_writers - Writes(m)
OpenFails(p) ==
  /\ In(p, "open")
  /\ LET f == call[p].f
         m == call[p].m
     IN /\ ~OpenReady(m, call[p].nd)
        /\ sig[p] \/ (m = "w" /\ call[p].nd)
        /\ Uncount(m)
        /\ frefs' = [frefs EXCEPT ![f] = 0]
        /\ mode' = [mode EXCEPT ![f] = "free"]
  /\ irefs' = irefs - 1
  /\ Return(p)
  /\ UNCHANGED <<ring, leaked, named, ndelay, orphans, fds, sig>>

\* sys_pipe: a new inode, opened O_RDWR for both files at once.
SysPipe(p) ==
  /\ ~named /\ irefs = 0 /\ Runs(p)
  /\ \E f \in FirstFree(Files) : \E g \in FirstFree(Files \ {f}) :
       /\ frefs' = [frefs EXCEPT ![f] = 1, ![g] = 1]
       /\ mode' = [mode EXCEPT ![f] = "r", ![g] = "w"]
       /\ fds' = [fds EXCEPT ![p] = @ \cup {f, g}]
  /\ irefs' = 2
  /\ pipe_readers' = 1 /\ pipe_writers' = 1
  /\ FreshRing /\ leaked' = 0
  /\ UNCHANGED <<named, ndelay, orphans, call, sig>>

\* sys_pipe when the root file system is read-only returns without putting
\* the two files back.
SysPipeReadOnly(p) ==
  /\ ~named /\ Runs(p)
  /\ \E f \in FirstFree(Files) : \E g \in FirstFree(Files \ {f}) :
       /\ frefs' = [frefs EXCEPT ![f] = 1, ![g] = 1]
       /\ mode' = [mode EXCEPT ![f] = "new", ![g] = "new"]
       /\ orphans' = orphans \cup {f, g}
  /\ UNCHANGED <<inodev, named, ndelay, fds, call, sig>>

\* fork, dup: another descriptor for the same file.
Share(p, q) ==
  /\ Runs(p) /\ In(q, "user")
  /\ \E f \in fds[p] \ fds[q] :
       /\ frefs' = [frefs EXCEPT ![f] = @ + 1]
       /\ fds' = [fds EXCEPT ![q] = @ \cup {f}]
  /\ UNCHANGED <<inodev, named, mode, ndelay, orphans, call, sig>>

\* fd_put, by close, exec or exit.  pipe_close ignores an O_RDWR file, whose
\* counts are lost to the pipe until the inode leaves the table.
MutLastPut(f) == TRUE
LastPut(f)    == frefs[f] = 1
PipeClose(m) ==
  /\ pipe_readers' = pipe_readers - (IF m = "r" THEN 1 ELSE 0)
  /\ pipe_writers' = pipe_writers - (IF m = "w" THEN 1 ELSE 0)
  /\ leaked' = leaked + (IF m = "rw" THEN 1 ELSE 0)
Close(p, f) ==
  /\ Runs(p) /\ f \in fds[p]
  /\ fds' = [fds EXCEPT ![p] = @ \ {f}]
  /\ frefs' = [frefs EXCEPT ![f] = @ - 1]
  /\ \/ /\ LastPut(f)
        /\ mode' = [mode EXCEPT ![f] = "free"]
        /\ ndelay' = [ndelay EXCEPT ![f] = FALSE]
        /\ irefs' = irefs - 1
        /\ PipeClose(mode[f])
     \/ /\ ~LastPut(f)
        /\ UNCHANGED <<mode, ndelay, irefs, pipe_readers, pipe_writers, leaked>>
  /\ UNCHANGED <<ring, named, orphans, call, sig>>

----------------------------------------------------------------------------
(* Reading and writing.                                                     *)

Start(p, op, may) ==
  /\ Runs(p)
  /\ \E f \in fds[p], n \in 0 .. MaxCount :
       /\ mode[f] \in may
       /\ call' = [call EXCEPT ![p] = Rw(op, f, n, n)]
  /\ UNCHANGED <<inodev, named, filev, fds, sig>>
SysRead(p)  == Start(p, "read", {"r", "rw"})
SysWrite(p) == Start(p, "write", {"w", "rw"})

\* pipe_read: it waits for the first byte only, and then takes what there is.
MutAtEof == FALSE
AtEof    == pipe_writers = 0
ReadGoesOn(p) == \/ call[p].n = 0 \/ pipe_datlen > 0
                 \/ ndelay[call[p].f] \/ AtEof \/ sig[p]
Read(p) ==
  /\ In(p, "read") /\ ReadGoesOn(p)
  /\ GetBytes(Min({call[p].n, pipe_datlen}))
  /\ Return(p)
  /\ UNCHANGED <<pipe_readers, pipe_writers, irefs, leaked, named, filev, fds, sig>>

\* pipe_write of at most PIPE_BUF bytes waits until there is room for all.
Small(p) == call[p].n <= PIPE_BUF
MutFits(p) == pipe_datlen < PIPE_BUF
Fits(p)    == call[p].n <= Room
SmallWriteFails(p) ==
  /\ In(p, "write") /\ Small(p) /\ ~Fits(p)
  /\ ndelay[call[p].f] \/ sig[p]
  /\ Return(p)
  /\ UNCHANGED <<inodev, named, filev, fds, sig>>

\* The loop finds nobody to read the next byte.
BrokenPipe(p) ==
  /\ In(p, "write") /\ (Small(p) => Fits(p))
  /\ call[p].left > 0 /\ pipe_readers = 0
  /\ sig' = [sig EXCEPT ![p] = TRUE]
  /\ Return(p)
  /\ UNCHANGED <<inodev, named, filev, fds>>

\* The loop writes until it is done or the ring is full, and then it returns
\* (EINTR, or a partial count) or waits.
MutChunk(p) == call[p].left
Chunk(p)    == Min({call[p].left, Room})
Write(p) ==
  /\ In(p, "write") /\ (Small(p) => Fits(p))
  /\ call[p].left = 0 \/ pipe_readers > 0
  /\ LET k == Chunk(p)
         done == k = call[p].left \/ sig[p] \/ ndelay[call[p].f]
     IN /\ done \/ k > 0
        /\ PutBytes(p, k, call[p].left, Small(p))
        /\ call' = [call EXCEPT ![p] =
                      IF done THEN User
                              ELSE Rw("write", call[p].f, call[p].n, call[p].left - k)]
  /\ UNCHANGED <<pipe_readers, pipe_writers, irefs, leaked, named, filev, fds, sig>>

\* A signal arrives in the middle of a call; it is delivered when the process
\* goes back to user mode.
Signal(p) == /\ ~sig[p] /\ ~In(p, "user")
             /\ sig' = [sig EXCEPT ![p] = TRUE]
             /\ UNCHANGED <<inodev, named, filev, fds, call>>
Deliver(p) == /\ sig[p] /\ In(p, "user")
              /\ sig' = [sig EXCEPT ![p] = FALSE]
              /\ UNCHANGED <<inodev, named, filev, fds, call>>

----------------------------------------------------------------------------
Init ==
  /\ pipe_readers = 0 /\ pipe_writers = 0 /\ irefs = 0 /\ leaked = 0
  /\ \E p \in Procs :
       pipe_buf = [i \in 0 .. PIPE_BUF - 1 |-> [who |-> p, more |-> FALSE]]
  /\ pipe_rdp = 0 /\ pipe_wrp = 0 /\ pipe_datlen = 0
  /\ named \in BOOLEAN
  /\ frefs = [f \in Files |-> 0] /\ mode = [f \in Files |-> "free"]
  /\ ndelay = [f \in Files |-> FALSE] /\ orphans = {}
  /\ fds = [p \in Procs |-> {}]
  /\ call = [p \in Procs |-> User] /\ sig = [p \in Procs |-> FALSE]

\* What a call that is under way does when it is looked at again.
GoOn(p) == \/ OpenDone(p) \/ OpenFails(p) \/ Read(p)
           \/ SmallWriteFails(p) \/ BrokenPipe(p) \/ Write(p)

Next == \E p \in Procs :
          \/ GoOn(p)
          \/ \E m \in Modes, nd \in BOOLEAN : Open(p, m, nd)
          \/ SysPipe(p) \/ SysPipeReadOnly(p)
          \/ \E q \in Procs : Share(p, q)
          \/ \E f \in fds[p] : Close(p, f)
          \/ SysRead(p) \/ SysWrite(p)
          \/ Signal(p) \/ Deliver(p)

Spec == Init /\ [][Next]_vars

\* Module Sched shows that a process in idle() is looked at again for ever,
\* and that one whose condition holds gets on: that is all that is assumed.
FairSpec == Spec /\ \A p \in Procs : WF_vars(GoOn(p))

----------------------------------------------------------------------------
(* Properties.                                                              *)

Live == irefs > 0

\* Every field keeps its type; the ring never holds more than it has room for.
TypeOK ==
  /\ pipe_readers \in Nat /\ pipe_writers \in Nat /\ irefs \in Nat
  /\ pipe_buf \in [0 .. PIPE_BUF - 1 -> Byte]
  /\ pipe_rdp \in 0 .. PIPE_BUF - 1 /\ pipe_wrp \in 0 .. PIPE_BUF - 1
  /\ pipe_datlen \in 0 .. PIPE_BUF
  /\ named \in BOOLEAN
  /\ frefs \in [Files -> Nat] /\ mode \in [Files -> Modes \cup {"new", "free"}]
  /\ ndelay \in [Files -> BOOLEAN] /\ orphans \subseteq Files
  /\ fds \in [Procs -> SUBSET Files]
  /\ call \in [Procs -> {User}
               \cup [op : {"open"}, m : Modes, f : Files, nd : BOOLEAN]
               \cup [op : {"read", "write"}, f : Files, n : Nat, left : Nat]]
  /\ sig \in [Procs -> BOOLEAN] /\ leaked \in Nat

\* panic("pipe getc") and panic("pipe putc") never fire, and the two indices
\* agree with the length: no byte is skipped or read twice.
RingExact == /\ pipe_datlen \in 0 .. PIPE_BUF
             /\ pipe_wrp = Wrap(pipe_rdp + pipe_datlen)

\* The files open, or being opened, with one of the given modes.
Users(ms) == Cardinality({f \in Files : mode[f] \in ms})
             + Cardinality({p \in Procs : In(p, "open") /\ call[p].m \in ms})

\* The counts that end of file and EPIPE depend on count the open files and
\* the waiting openers, and one of each for every O_RDWR file closed since.
CountsExact ==
  Live => /\ pipe_readers = Users({"r", "rw"}) + leaked
          /\ pipe_writers = Users({"w", "rw"}) + leaked

\* Each reference to a file or to the inode is somebody's: nothing is freed
\* while it is in use, and nothing stays behind (but for the orphans).
RefsExact ==
  /\ \A f \in Files :
       frefs[f] = Cardinality({p \in Procs : f \in fds[p]})
                  + Cardinality({p \in Procs : In(p, "open") /\ call[p].f = f})
                  + (IF f \in orphans THEN 1 ELSE 0)
  /\ irefs = Users(Modes)

\* The bytes in the pipe, oldest first.
Content == [i \in 1 .. pipe_datlen |-> pipe_buf[Wrap(pipe_rdp + i - 1)]]

\* The bytes of a request of at most PIPE_BUF bytes stay together, whoever
\* else writes, and whatever signals and closes come between.
SmallWritesWhole ==
  Live => \A i \in 1 .. pipe_datlen :
            Content[i].more => /\ i < pipe_datlen
                               /\ Content[i + 1].who = Content[i].who

\* The ring implements a queue.
Queue == INSTANCE PipeQueue WITH
           Cap <- PIPE_BUF, live <- Live, q <- IF Live THEN Content ELSE <<>>
RefinesQueue == Queue!QSpec

\* A reader and a writer that open the FIFO do not wait for each other.
Meet ==
  \A p, r \in Procs :
    In(p, "open") /\ call[p].m = "r" /\ In(r, "open") /\ call[r].m = "w"
      ~> ~In(p, "open") \/ ~In(r, "open")

\* Once no writer is left for good, a reader does not stay blocked.
EofSeen == \A p \in Procs : <>[](pipe_writers = 0) => []<>~In(p, "read")

\* The ring's indices fit its length, and what is in it of a small write is
\* together.
RingWhole == RingExact /\ SmallWritesWhole

\* Files, the inode and the readers and writers of the pipe are counted exactly.
PipeCounted == TypeOK /\ CountsExact /\ RefsExact

\* Opens meet, and readers come to the end of the file.
PipeEnds == Meet /\ EofSeen
=============================================================================

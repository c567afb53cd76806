------------------------------- MODULE Memory -------------------------------
(* The pages of memory: the free list of kern/page.c, the page tables of     *)
(* kern/ualloc.c and kern/umem.c, and what fork, exec, brk, a page fault,    *)
(* exit and wait do to them (kern/fork.c, exec.c, syscall.c, process.c).     *)
(* None of these sleeps, so that each is one step.                           *)
(*                                                                           *)
(* Pages are alike: the free list is its length pg_fcount, a page table the  *)
(* set of its entries that are not 0.  An address counts in units of which a *)
(* page has PgUnit.                                                          *)
(* A definition Mut... is a wrong form of the definition below it.           *)
EXTENDS Integers, FiniteSets

CONSTANTS
  MemProcs,    \* slots of the process table; one of them is
  MemInit,     \* the process that is there from the start
  NPages,      \* pages of memory
  PgUnit,      \* units of a page
  UserPages    \* pages of the user's part of the address space

ASSUME MemoryAssumption ==
  /\ IsFiniteSet(MemProcs) /\ MemInit \in MemProcs
  /\ {NPages, PgUnit, UserPages} \subseteq Nat \ {0} /\ NPages > 1

VARIABLES
  pg_fcount,   \* free pages
  ptab,        \* per process: the pages it has
  mem,         \* per process: brk, stk, astk, base and end
  memState,    \* per process: free, live, dying (SIGABRT is pending), zombie
  memHeld,     \* pages the kernel holds for pipes and drivers
  memLost,     \* history: pages of a script's arguments, never given back
  memStray     \* history: pages whose entries were written behind a page table

memVars == <<pg_fcount, ptab, mem, memState, memHeld, memLost, memStray>>

USER_SIZE == UserPages * PgUnit
Addr   == 0 .. USER_SIZE
Wrap32 == 16 * USER_SIZE      \* stands for 2^32
PageOf(a) == a \div PgUnit
NoMem  == [brk |-> 0, stk |-> 0, astk |-> 0, base |-> 0, end |-> 0]
StartMem == [brk |-> 0, stk |-> USER_SIZE, astk |-> USER_SIZE, base |-> 0, end |-> 0]
MemLive(p) == memState[p] = "live"

----------------------------------------------------------------------------
(* newregion and pcalloc, on a state s = [free, tab]: pages are taken one by *)
(* one, and those taken stay when the next one is missing.                   *)

\* The entries of the page table from i to j that are missing.
Missing(tab, i, j) == (i .. j) \ tab
TakePages(s, want) ==
  IF Cardinality(want) <= s.free
    THEN [ok |-> TRUE, free |-> s.free - Cardinality(want), tab |-> s.tab \cup want,
          stray |-> 0]
    ELSE LET some == {v \in want : Cardinality({x \in want : x < v}) < s.free}
         IN [ok |-> FALSE, free |-> 0, tab |-> s.tab \cup some, stray |-> 0]

MutLastPage(end) == PageOf(end) - 1
LastPage(end)    == PageOf(end - 1)

\* newregion(base, 0): end-- wraps, the loop fills the table from base on and
\* then every word behind the table that is 0; behind is how many there are.
NewregionWraps(s, base, behind) ==
  LET r == TakePages(s, Missing(s.tab, PageOf(base), UserPages - 1))
      n == IF behind <= r.free THEN behind ELSE r.free
  IN [ok |-> r.ok /\ behind <= r.free, free |-> r.free - n, tab |-> r.tab, stray |-> n]

\* An end that is not above base, but not 0, is an empty region.
Newregion(s, base, end, behind) ==
  IF base >= USER_SIZE \/ end >= USER_SIZE
  THEN [ok |-> FALSE, free |-> s.free, tab |-> s.tab, stray |-> 0]
  ELSE IF end = 0 THEN NewregionWraps(s, base, behind)
       ELSE TakePages(s, Missing(s.tab, PageOf(base), LastPage(end)))

\* Both regions, or nothing.  The first call leaves no word for the second.
Pcalloc(s, m, behind) ==
  LET r1 == Newregion(s, m.base, m.end, behind)
      r2 == IF r1.ok THEN Newregion(r1, 0, m.brk, 0) ELSE r1
  IN [ok |-> r2.ok, stray |-> r1.stray,
      free |-> IF r2.ok THEN r2.free ELSE r2.free + Cardinality(r2.tab),
      tab |-> IF r2.ok THEN r2.tab ELSE {}]

\* growstk: the pages from a up to the stack's lowest page.
Growstk(s, m, a) ==
  IF a >= m.astk THEN [ok |-> TRUE, free |-> s.free, tab |-> s.tab, astk |-> m.astk]
  ELSE LET r == TakePages(s, Missing(s.tab, PageOf(a), PageOf(m.astk) - 1))
       IN [ok |-> r.ok, free |-> r.free, tab |-> r.tab,
           astk |-> IF r.ok THEN PageOf(a) * PgUnit ELSE m.astk]

Here(p) == [free |-> pg_fcount, tab |-> ptab[p]]
Becomes(p, r) == pg_fcount' = r.free /\ ptab' = [ptab EXCEPT ![p] = r.tab]

----------------------------------------------------------------------------
(* fork, exit and wait.                                                      *)

\* The stack, the page table and a copy of every page, or nothing.
MutPccopyBack(n) == 0
PccopyBack(n)    == n
MemFork(p, q) ==
  LET n == Cardinality(ptab[p])
      copied == IF pg_fcount - 2 < n THEN pg_fcount - 2 ELSE n
  IN /\ MemLive(p) /\ memState[q] = "free"
     /\ \/ /\ pg_fcount >= n + 2
           /\ pg_fcount' = pg_fcount - (n + 2)
           /\ ptab' = [ptab EXCEPT ![q] = ptab[p]]
           /\ mem' = [mem EXCEPT ![q] = mem[p]]
           /\ memState' = [memState EXCEPT ![q] = "live"]
        \/ /\ pg_fcount < n + 2
           /\ pg_fcount' = IF pg_fcount < 2 THEN pg_fcount
                           ELSE pg_fcount - copied + PccopyBack(copied)
           /\ UNCHANGED <<ptab, mem, memState>>
     /\ UNCHANGED <<memHeld, memLost, memStray>>

\* do_exit: pcfree; the stack stays until somebody waits for the zombie.
MemExit(p) ==
  /\ memState[p] \in {"live", "dying"} /\ p # MemInit
  /\ pg_fcount' = pg_fcount + Cardinality(ptab[p]) + 1
  /\ ptab' = [ptab EXCEPT ![p] = {}]
  /\ mem' = [mem EXCEPT ![p] = NoMem]
  /\ memState' = [memState EXCEPT ![p] = "zombie"]
  /\ UNCHANGED <<memHeld, memLost, memStray>>

MemReap(p) ==
  /\ memState[p] = "zombie"
  /\ memState' = [memState EXCEPT ![p] = "free"]
  /\ pg_fcount' = pg_fcount + 1
  /\ UNCHANGED <<ptab, mem, memHeld, memLost, memStray>>

----------------------------------------------------------------------------
(* exec.  Three pages hold the name, the arguments and the environment while *)
(* it runs, a fourth the arguments of a script.                              *)

\* The call ends before the old program is gone: no page, no such file, no
\* permission, no program.  A script whose shell fails may lose its page.  (What
\* the call returns when one of sys__exec's own pages is missing is err's old
\* value; nothing else comes of it.)
ExecFails(p, script) ==
  /\ MemLive(p)
  /\ \/ ~script /\ UNCHANGED <<pg_fcount, memLost>>
     \/ /\ script /\ pg_fcount > 3
        /\ pg_fcount' = pg_fcount - 1 /\ memLost' = memLost + 1
  /\ UNCHANGED <<ptab, mem, memState, memHeld, memStray>>

\* The header is good.  args: the space at the top of memory that is taken by
\* the arguments, the environment and sigret.
ExecMem(base, end, stack, args) ==
  LET top == USER_SIZE - args
      stk == IF top >= stack THEN top - stack ELSE Wrap32 + top - stack
  IN [base |-> base, end |-> end, astk |-> USER_SIZE, stk |-> stk,
      brk |-> IF base > 0 THEN 1 ELSE end]

\* loads: loadbin and, for a script, open_ino succeed; after either failure the
\* process is to die with the pages that pcalloc gave it.
MemExec(p, script, base, end, stack, args, loads, behind) ==
  LET tmp == IF script THEN 4 ELSE 3
      m == ExecMem(base, end, stack, args)
      r == Pcalloc([free |-> pg_fcount - tmp + Cardinality(ptab[p]), tab |-> {}], m, behind)
      a == USER_SIZE - args
      g == IF m.stk <= a THEN Growstk(r, m, a)
           ELSE [ok |-> FALSE, free |-> r.free, tab |-> r.tab, astk |-> m.astk]
      good == r.ok /\ loads
  IN /\ MemLive(p) /\ pg_fcount >= tmp
     /\ base < USER_SIZE /\ end + stack <= USER_SIZE
     /\ mem' = [mem EXCEPT ![p] = IF good THEN [m EXCEPT !.astk = g.astk] ELSE m]
     /\ ptab' = [ptab EXCEPT ![p] = IF good THEN g.tab ELSE r.tab]
     /\ memState' = [memState EXCEPT ![p] = IF good THEN "live" ELSE "dying"]
     /\ pg_fcount' = IF good THEN g.free + 3 ELSE r.free + tmp
     /\ memLost' = IF good /\ script THEN memLost + 1 ELSE memLost
     /\ memStray' = r.stray
     /\ UNCHANGED memHeld

----------------------------------------------------------------------------
(* brk, the compatibility layers' _newregion, page faults, kernel accesses.  *)

\* sys_brk.  It does not take pages back.
Brk(p, a) ==
  LET r == TakePages(Here(p), Missing(ptab[p], 0, PageOf(a + PgUnit - 1) - 1))
  IN /\ MemLive(p) /\ Becomes(p, r)
     /\ mem' = [mem EXCEPT ![p].brk = IF r.ok THEN a ELSE @]
     /\ UNCHANGED <<memState, memHeld, memLost, memStray>>

SysNewregion(p, base, end, behind) ==
  LET r == Newregion(Here(p), base, end, behind)
  IN /\ MemLive(p)
     /\ Becomes(p, r) /\ memStray' = r.stray
     /\ UNCHANGED <<mem, memState, memHeld, memLost>>

\* ufault: the program has touched a page of the stack that is not there.
Ufault(p, v) ==
  /\ MemLive(p) /\ v \notin ptab[p] /\ v * PgUnit >= mem[p].stk
  /\ pg_fcount > 0
  /\ pg_fcount' = pg_fcount - 1 /\ ptab' = [ptab EXCEPT ![p] = @ \cup {v}]
  /\ UNCHANGED <<mem, memState, memHeld, memLost, memStray>>

\* urchk of an address in the stack; elsewhere it only looks.
Urchk(p, a) ==
  LET g == Growstk(Here(p), mem[p], a)
  IN /\ MemLive(p) /\ a >= mem[p].stk
     /\ Becomes(p, g)
     /\ mem' = [mem EXCEPT ![p].astk = g.astk]
     /\ UNCHANGED <<memState, memHeld, memLost, memStray>>

\* palloc and pfree by a pipe or a driver.
KernelPage(n) ==
  /\ memHeld + n >= 0 /\ pg_fcount >= n
  /\ memHeld' = memHeld + n /\ pg_fcount' = pg_fcount - n
  /\ UNCHANGED <<ptab, mem, memState, memLost, memStray>>

\* The first process has its stack, its page table and no program yet.
MemInitial ==
  /\ pg_fcount = NPages - 2
  /\ ptab = [p \in MemProcs |-> {}]
  /\ mem = [p \in MemProcs |-> StartMem]
  /\ memState = [p \in MemProcs |-> IF p = MemInit THEN "live" ELSE "free"]
  /\ memHeld = 0 /\ memLost = 0 /\ memStray = 0

\* Words behind a page table that are 0, if somebody asks for them.
Behind(end) == IF end = 0 THEN 0 .. NPages ELSE {0}

MemStep ==
  \/ \E p \in MemProcs :
       \/ \E q \in MemProcs : MemFork(p, q)
       \/ MemExit(p) \/ MemReap(p)
       \/ \E s \in BOOLEAN : ExecFails(p, s)
       \/ \E s, loads \in BOOLEAN, base \in {0, PgUnit}, end \in Addr, stack \in {1, USER_SIZE - 1},
             args \in {PgUnit + 1} : \E behind \in Behind(end) :
                MemExec(p, s, base, end, stack, args, loads, behind)
       \/ \E a \in Addr : Brk(p, a) \/ Urchk(p, a)
       \/ \E a, b \in Addr : \E behind \in Behind(b) : SysNewregion(p, a, b, behind)
       \/ \E v \in 0 .. UserPages - 1 : Ufault(p, v)
  \/ \E n \in {-1, 1} : KernelPage(n)

\* The words behind a page table are another page, whoever has it: once one of
\* them is overwritten anything may happen, and the run is not followed further.
MemNext == memStray = 0 /\ MemStep

\* None of this waits for anything: there is no fairness to state.
MemSpec == MemInitial /\ [][MemNext]_memVars

----------------------------------------------------------------------------
(* Properties.                                                              *)

\* Every page is free, in one page table, a process' stack or page table, or
\* held by the kernel; none is lost on a failing fork or exec and none is free
\* twice.  The one page that every script's exec leaves behind is the exception.
KStacks == Cardinality({p \in MemProcs : memState[p] # "free"})
KTables == Cardinality({p \in MemProcs : memState[p] \in {"live", "dying"}})
Mapped  == UNION {{p} \X ptab[p] : p \in MemProcs}
PagesExact ==
  /\ pg_fcount >= 0
  /\ pg_fcount + memHeld + memLost + KStacks + KTables
       + Cardinality(Mapped) = NPages

\* Whatever urchk lets the kernel touch is there: memory below brk, the
\* program's region, and the stack down to astk.  Otherwise the copy would
\* fault in the kernel, and the machine panic.
Backed(p, a, b) == PageOf(a) .. PageOf(b - 1) \subseteq ptab[p]
AccessBacked ==
  \A p \in MemProcs : MemLive(p) =>
    LET m == mem[p]
    IN /\ m.brk > 0 => Backed(p, 0, m.brk)
       /\ m.end > m.base => Backed(p, m.base, m.end)
       /\ m.astk < USER_SIZE => Backed(p, m.astk, USER_SIZE)

\* Pages are counted, and what a process may touch is backed by them, up to
\* the first region that ends at address 0 and whose loop gets behind its page
\* table with a page left (newregion's end--).
MemoryExact == memStray = 0 => PagesExact /\ AccessBacked
=============================================================================

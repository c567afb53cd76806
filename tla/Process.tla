------------------------------ MODULE Process ------------------------------
(* The process table of the kernel (kern/process.c, kern/fork.c and the     *)
(* identity calls of kern/syscall.c): fork, exit, wait, kill, signal,       *)
(* setsid, setuid, exec, pause, and the delivery of signals on the way back *)
(* to user mode.                                                            *)
(*                                                                          *)
(* The kernel is not preemptive: between two calls of idle() or sched() one *)
(* process runs alone, so a system call that does not block is one action.  *)
(* Which process runs next is left open here; module Sched models that.     *)
(* Process images, files and pages are abstracted away: an allocation may   *)
(* fail, and a failed fork leaves the table as it was.                      *)
(*                                                                          *)
(* A definition Mut... is a wrong form of the definition below it, kept to  *)
(* show that a property notices the difference.                             *)
EXTENDS Integers, FiniteSets

CONSTANTS
  MAXPROCS,   \* slots of proc[] and pact[]
  MAXUPROC,   \* processes one unprivileged user may own
  PidMax,     \* 9999 in the code: allocpid wraps after it
  Uids,       \* user ids, 0 is root
  KSig,       \* signals that kill when not caught (the table ksig[])
  USig,       \* signals that are dropped when not caught (SIGCHLD and others)
  KILL, CHLD, \* SIGKILL and SIGCHLD
  Handlers    \* what sys_signal is called with: "dfl", "ign" or "usr"

ASSUME ProcessAssumption ==
  /\ MAXPROCS \in Nat \ {0}
  /\ MAXUPROC \in Nat
  /\ PidMax \in Nat /\ PidMax >= 2
  /\ 0 \in Uids
  /\ KILL \in KSig /\ CHLD \in USig
  /\ KSig \cap USig = {}
  /\ Handlers \subseteq {"dfl", "ign", "usr"}

Slots == 0 .. MAXPROCS - 1
init  == 0
NULL  == -1
Sig   == KSig \cup USig

VARIABLES
  pid,      \* pid of each slot, 0 when the slot is free
  psid,     \* session of each slot, 0 for none
  parent,   \* slot of the parent
  exited,   \* the process is a zombie
  ruid, euid,
  sig, sig_ign, sig_usr,  \* pending, ignored and caught signals
  pact, npact,            \* the active slots, pact[0 .. npact-1]
  nextpid,  \* the static counter of allocpid
  st,       \* where each process is: user code, or asleep in a call
  wpid,     \* argument of the wait a sleeping process is in
  panicked  \* the kernel has stopped in panic("init exited")

tab  == <<pact, npact, nextpid>>
ids  == <<ruid, euid>>
sigs == <<sig, sig_ign, sig_usr>>
vars == <<pid, psid, parent, exited, ids, sigs, tab, st, wpid, panicked>>

Active  == {pact[i] : i \in 0 .. npact - 1}
Used    == {s \in Slots : pid[s] # 0}
Live    == {s \in Used : ~exited[s]}
MutPids == {pid[s] : s \in Live}
Pids    == {pid[s] : s \in Active} \cup {psid[s] : s \in Active}

----------------------------------------------------------------------------
(* Signals.                                                                 *)

\* sendsig(p, g) called by c for every p in P: the bit is set and then
\* masked with what p ignores.  Whether a signal without a default action is
\* sent at all depends on what the caller c catches, as in the code.
SendsigAll(c, P, g) ==
  [p \in Slots |->
     IF p \in P /\ (g \in KSig \/ g \in sig_usr[c])
       THEN (sig[p] \cup {g}) \ sig_ign[p]
       ELSE sig[p]]

\* sendusig: only root may signal a process of another effective user.
Permitted(c, p) == euid[c] = euid[p] \/ euid[c] = 0

\* A process runs user code, and is about to enter the kernel.  It cannot be
\* here with a signal pending: every return to user mode goes through
\* intr_return, which delivers what is pending first.
Running(s) == s \in Live /\ st[s] = "user" /\ sig[s] = {} /\ ~panicked

\* The children do_exit hands to init, and the members of the session that
\* ends with its leader.
MutHeirs(c) == {p \in Active : pid[p] # 0 /\ parent[p] = c /\ ~exited[p]}
Heirs(c)    == {p \in Active : pid[p] # 0 /\ parent[p] = c}
MutMembers(c) == {p \in Active : pid[p] # 0 /\ psid[p] = pid[c] /\ p # c}
Members(c)    == {p \in Active : pid[p] # 0 /\ psid[p] = pid[c]}

\* do_exit() of the current process c.  base is the value of sig at entry.
DoExit(c, base) ==
  /\ c # init
  /\ LET told   == {parent[c]} \cup
                     (IF \E p \in Heirs(c) : exited[p] THEN {init} ELSE {})
         isSent == CHLD \in sig_usr[c]
     IN /\ parent' = [p \in Slots |->
                        IF p \in Heirs(c) THEN init ELSE parent[p]]
        /\ psid' = [p \in Slots |-> IF p \in Members(c) THEN 0 ELSE psid[p]]
        /\ sig' = [p \in Slots |->
                      IF p \in told /\ isSent
                        THEN (base[p] \cup {CHLD}) \ sig_ign[p]
                        ELSE base[p]]
  /\ exited' = [exited EXCEPT ![c] = TRUE]
  /\ UNCHANGED <<pid, ids, sig_ign, tab, wpid, panicked>>

\* intr_return -> pushsig: everything pending is taken at once; a caught
\* signal loses its handler, an uncaught one with a default action kills.  (A
\* stack with no room for the handler's frame ends the process, as Exit may too.)
Pushsig(s) ==
  /\ s \in Live /\ st[s] = "user" /\ sig[s] # {} /\ ~panicked
  /\ LET got  == sig[s] \ sig_ign[s]
         usr  == got \cap sig_usr[s]
         base == [sig EXCEPT ![s] = {}]
         dies == (got \ usr) \cap KSig # {}
     IN /\ sig_usr' = [sig_usr EXCEPT ![s] = @ \ usr]
        /\ \/ /\ ~dies
              /\ sig' = base
              /\ UNCHANGED <<pid, psid, parent, exited, ids, sig_ign, tab, st,
                             wpid, panicked>>
           \/ /\ dies /\ s # init
              /\ DoExit(s, base)
              /\ UNCHANGED st
           \/ /\ dies /\ s = init
              /\ panicked' = TRUE
              /\ sig' = base
              /\ UNCHANGED <<pid, psid, parent, exited, ids, sig_ign, tab, st,
                             wpid>>

----------------------------------------------------------------------------
(* System calls.                                                            *)

\* sys__exit.  For init this is the panic.
Exit(s) ==
  /\ Running(s)
  /\ UNCHANGED <<sig_usr, st>>
  /\ \/ DoExit(s, sig)
     \/ /\ s = init
        /\ panicked' = TRUE
        /\ UNCHANGED <<pid, psid, parent, exited, ids, sig, sig_ign, tab,
                       wpid>>

\* allocpid: the set of the one number it returns.  The search for a free
\* number starts after the last one, wraps once, and then only counts up.
MutAllocpid ==
  {n \in (IF nextpid + 1 > PidMax THEN 0 ELSE nextpid + 1) .. PidMax :
     n \notin Pids}
Allocpid ==
  LET start == IF nextpid + 1 > PidMax THEN 2 ELSE nextpid + 1
  IN {n \in start .. start + 2 * npact :
        n \notin Pids /\ \A m \in start .. n - 1 : m \in Pids}

\* sys_fork, when every allocation succeeds.  The child is a copy of its
\* parent, pending signals included, in the first free slot of proc[].
Fork(s) ==
  /\ Running(s)
  /\ \/ euid[s] = 0
     \/ Cardinality({i \in 0 .. npact - 1 : ruid[pact[i]] = ruid[s]})
          < MAXUPROC
  /\ \E c \in Slots, n \in Allocpid :
       /\ pid[c] = 0 /\ \A d \in 0 .. c - 1 : pid[d] # 0
       /\ nextpid' = n
       /\ pid'     = [pid EXCEPT ![c] = n]
       /\ psid'    = [psid EXCEPT ![c] = psid[s]]
       /\ parent'  = [parent EXCEPT ![c] = s]
       /\ exited'  = [exited EXCEPT ![c] = FALSE]
       /\ ruid'    = [ruid EXCEPT ![c] = ruid[s]]
       /\ euid'    = [euid EXCEPT ![c] = euid[s]]
       /\ sig'     = [sig EXCEPT ![c] = sig[s]]
       /\ sig_ign' = [sig_ign EXCEPT ![c] = sig_ign[s]]
       /\ sig_usr' = [sig_usr EXCEPT ![c] = sig_usr[s]]
       /\ st'      = [st EXCEPT ![c] = "user"]
       /\ pact'    = [pact EXCEPT ![npact] = c]
       /\ npact'   = npact + 1
  /\ UNCHANGED <<wpid, panicked>>

\* The children sys_waitpid of process s sees in pact, and the indices of
\* those it may reap: pids below 1 stand for any child.
Children(s) == {i \in 0 .. npact - 1 :
                  /\ pid[pact[i]] \notin {0, 1}
                  /\ parent[pact[i]] = s}
MutZombies(s, w) == {i \in Children(s) :
                       exited[pact[i]] /\ pid[pact[i]] = w}
Zombies(s, w) == {i \in Children(s) :
                    exited[pact[i]] /\ (w < 1 \/ pid[pact[i]] = w)}

\* The last entry of pact takes the place of the one that is removed.
MutMoved(zi) == [pact EXCEPT ![zi] = pact[npact - 2]]
Moved(zi)    == [pact EXCEPT ![zi] = pact[npact - 1]]

\* The tail of sys_waitpid: the last zombie found is erased.
Reap(s, w) ==
  \E zi \in Zombies(s, w) :
    LET z == pact[zi]
    IN /\ \A j \in Zombies(s, w) : j <= zi
       /\ pid'     = [pid EXCEPT ![z] = 0]
       /\ psid'    = [psid EXCEPT ![z] = 0]
       /\ parent'  = [parent EXCEPT ![z] = NULL]
       /\ exited'  = [exited EXCEPT ![z] = FALSE]
       /\ ruid'    = [ruid EXCEPT ![z] = 0]
       /\ euid'    = [euid EXCEPT ![z] = 0]
       /\ sig'     = [sig EXCEPT ![z] = {}]
       /\ sig_ign' = [sig_ign EXCEPT ![z] = {}]
       /\ sig_usr' = [sig_usr EXCEPT ![z] = {}]
       /\ pact'    = Moved(zi)
       /\ npact'   = npact - 1
       /\ UNCHANGED <<nextpid, panicked>>

\* sys_waitpid that finds a zombie at once.
WaitReap(s, w) ==
  /\ Running(s)
  /\ Reap(s, w)
  /\ UNCHANGED <<st, wpid>>

\* sys_waitpid without WNOHANG that has children but no zombie: idle().
MutHasNone(s, w) == Zombies(s, w) = {}
HasNone(s, w)    == Children(s) # {} /\ Zombies(s, w) = {}
WaitBlock(s, w) ==
  /\ Running(s)
  /\ HasNone(s, w)
  /\ st' = [st EXCEPT ![s] = "wait"]
  /\ wpid' = [wpid EXCEPT ![s] = w]
  /\ UNCHANGED <<pid, psid, parent, exited, ids, sigs, tab, panicked>>

\* The return of idle() in sys_waitpid: a signal ends the call with EINTR,
\* else the scan is repeated.
MutInterrupted(s) == sig[s] \cap sig_usr[s] # {}
Interrupted(s)    == sig[s] # {}
WaitWake(s) ==
  /\ s \in Live /\ st[s] = "wait" /\ ~panicked
  /\ st' = [st EXCEPT ![s] = "user"]
  /\ wpid' = [wpid EXCEPT ![s] = 0]
  /\ \/ /\ Interrupted(s)
        /\ UNCHANGED <<pid, psid, parent, exited, ids, sigs, tab, panicked>>
     \/ /\ ~Interrupted(s)
        /\ Reap(s, wpid[s])

\* sys_pause: asleep until a signal is pending.
Pause(s) ==
  /\ Running(s)
  /\ st' = [st EXCEPT ![s] = "pause"]
  /\ UNCHANGED <<pid, psid, parent, exited, ids, sigs, tab, wpid, panicked>>

PauseWake(s) ==
  /\ s \in Live /\ st[s] = "pause" /\ sig[s] # {} /\ ~panicked
  /\ st' = [st EXCEPT ![s] = "user"]
  /\ UNCHANGED <<pid, psid, parent, exited, ids, sigs, tab, wpid, panicked>>

\* Whom sys_kill(k, g) signals: itself, everyone but itself and init, or the
\* first entry of pact with that pid or that session (k < -1).
KillTargets(s, k) ==
  CASE k = 0  -> {s}
    [] k = -1 -> {p \in Active : pid[p] # 0 /\ p # s /\ p # init}
    [] OTHER  ->
         LET hit == {i \in 0 .. npact - 1 :
                       pid[pact[i]] = k \/ psid[pact[i]] = -k}
         IN {pact[i] : i \in {j \in hit : \A h \in hit : j <= h}}

Kill(s, k, g) ==
  /\ Running(s)
  /\ sig' = SendsigAll(s, {p \in KillTargets(s, k) : Permitted(s, p)}, g)
  /\ UNCHANGED <<pid, psid, parent, exited, ids, sig_ign, sig_usr, tab, st,
                 wpid, panicked>>

\* sys__killu: root signals every process of a real user.
Killu(s, u, g) ==
  /\ Running(s) /\ euid[s] = 0
  /\ sig' = SendsigAll(s, {p \in Active : ruid[p] = u}, g)
  /\ UNCHANGED <<pid, psid, parent, exited, ids, sig_ign, sig_usr, tab, st,
                 wpid, panicked>>

\* sys_signal(g, h): SIGKILL keeps its default action.
Catchable(g) == g # KILL
Signal(s, g, h) ==
  /\ Running(s) /\ Catchable(g)
  /\ sig_ign' = [sig_ign EXCEPT ![s] = IF h = "ign" THEN @ \cup {g}
                                                    ELSE @ \ {g}]
  /\ sig_usr' = [sig_usr EXCEPT ![s] = IF h = "usr" THEN @ \cup {g}
                                                    ELSE @ \ {g}]
  /\ UNCHANGED <<pid, psid, parent, exited, ids, sig, tab, st, wpid, panicked>>

Setsid(s) ==
  /\ Running(s) /\ psid[s] # pid[s]
  /\ psid' = [psid EXCEPT ![s] = pid[s]]
  /\ UNCHANGED <<pid, parent, exited, ids, sigs, tab, st, wpid, panicked>>

Setuid(s, u) ==
  /\ Running(s) /\ (euid[s] = 0 \/ ruid[s] = u)
  /\ ruid' = [ruid EXCEPT ![s] = u]
  /\ euid' = [euid EXCEPT ![s] = u]
  /\ UNCHANGED <<pid, psid, parent, exited, sigs, tab, st, wpid, panicked>>

\* do_exec past its point of no return: handlers are reset, a set-user-id
\* file changes the effective user.
Exec(s, u) ==
  /\ Running(s)
  /\ sig_usr' = [sig_usr EXCEPT ![s] = {}]
  /\ euid' = [euid EXCEPT ![s] = u]
  /\ UNCHANGED <<pid, psid, parent, exited, ruid, sig, sig_ign, tab, st, wpid,
                 panicked>>

\* do_exec that fails after it has freed the old image: sendksig(SIGABRT)
\* clears every disposition, so the process dies on its way out.
ExecAbort(s, g) ==
  /\ Running(s) /\ g \in KSig
  /\ sig' = [sig EXCEPT ![s] = {g}]
  /\ sig_ign' = [sig_ign EXCEPT ![s] = {}]
  /\ sig_usr' = [sig_usr EXCEPT ![s] = {}]
  /\ UNCHANGED <<pid, psid, parent, exited, ids, tab, st, wpid, panicked>>

----------------------------------------------------------------------------
\* proc_init: process 1 in slot 0, its own parent and session leader.
Init ==
  /\ pid      = [s \in Slots |-> IF s = init THEN 1 ELSE 0]
  /\ psid     = [s \in Slots |-> IF s = init THEN 1 ELSE 0]
  /\ parent   = [s \in Slots |-> IF s = init THEN init ELSE NULL]
  /\ exited   = [s \in Slots |-> FALSE]
  /\ ruid     = [s \in Slots |-> 0]
  /\ euid     = [s \in Slots |-> 0]
  /\ sig      = [s \in Slots |-> {}]
  /\ sig_ign  = [s \in Slots |-> {}]
  /\ sig_usr  = [s \in Slots |-> {}]
  /\ pact     = [i \in Slots |-> IF i = 0 THEN init ELSE NULL]
  /\ npact    = 1
  /\ nextpid  = 1
  /\ st       = [s \in Slots |-> "user"]
  /\ wpid     = [s \in Slots |-> 0]
  /\ panicked = FALSE

\* The wakeups of a process that sleeps or has a signal to deliver: what the
\* scheduler guarantees every process (module Sched).
Wake(s) == Pushsig(s) \/ WaitWake(s) \/ PauseWake(s)

WaitArgs == {-1} \cup {pid[s] : s \in Used}
KillArgs == {0, -1} \cup {pid[s] : s \in Used}
              \cup {-psid[s] : s \in {p \in Used : psid[p] # 1}}

Syscall(s) ==
  \/ Exit(s) \/ Fork(s) \/ Pause(s) \/ Setsid(s)
  \/ \E w \in WaitArgs : WaitReap(s, w) \/ WaitBlock(s, w)
  \/ \E k \in KillArgs, g \in Sig : Kill(s, k, g)
  \/ \E u \in Uids : Setuid(s, u) \/ Exec(s, u)
  \/ \E u \in Uids, g \in Sig : Killu(s, u, g)
  \/ \E g \in Sig, h \in Handlers : Signal(s, g, h)
  \/ \E g \in KSig : ExecAbort(s, g)

Next == \E s \in Slots : Wake(s) \/ Syscall(s)

\* The program in slot 0 is cmd/sbin/init.c: it forks its terminals and waits
\* for any child, for ever (until SIGTERM, after which it only pauses).
InitWaits   == WaitReap(init, -1) \/ WaitBlock(init, -1)
InitProgram == InitWaits \/ Fork(init)
NextBooted  == \/ \E s \in Slots : Wake(s)
               \/ \E s \in Slots \ {init} : Syscall(s)
               \/ InitProgram

----------------------------------------------------------------------------
(* Properties.                                                              *)

\* Every field keeps its type; npact stays within the array pact.
TypeOK ==
  /\ pid \in [Slots -> Nat] /\ psid \in [Slots -> Nat]
  /\ parent \in [Slots -> Slots \cup {NULL}]
  /\ exited \in [Slots -> BOOLEAN]
  /\ ruid \in [Slots -> Uids] /\ euid \in [Slots -> Uids]
  /\ sig \in [Slots -> SUBSET Sig]
  /\ sig_ign \in [Slots -> SUBSET Sig] /\ sig_usr \in [Slots -> SUBSET Sig]
  /\ pact \in [Slots -> Slots \cup {NULL}] /\ npact \in 1 .. MAXPROCS
  /\ nextpid \in Nat \ {0}
  /\ st \in [Slots -> {"user", "wait", "pause"}]
  /\ wpid \in [Slots -> Int]
  /\ panicked \in BOOLEAN

\* pact[0 .. npact-1] lists every used slot exactly once, whatever the order
\* of forks and of reaps that move the last entry (so pact never overflows).
PactExact ==
  /\ Active = Used
  /\ \A i, j \in 0 .. npact - 1 : pact[i] = pact[j] => i = j

\* No two processes, zombies included, share a pid, also after allocpid has
\* wrapped.
PidsUnique == \A s, t \in Used : pid[s] = pid[t] => s = t

\* Every process has a live parent that can wait for it: do_exit hands the
\* children of a dying process to init, and init does not die.
ParentLive == \A s \in Used : parent[s] \in Live

\* A session outlives its leader only as 0: a psid is always the pid of a live
\* process, so a fork can never hand out the pid of a session that is still
\* in use and kill(-psid) cannot reach a stranger.
SessionLed ==
  \A s \in Used : psid[s] # 0 => \E l \in Live : pid[l] = psid[s]

\* A process asleep in sys_waitpid always has a child left: the loop tests
\* for children only while scanning, so without one it would sleep for good.
WaiterHasChild ==
  \A s \in Live : st[s] = "wait" => Children(s) # {}

\* SIGKILL cannot be ignored or caught, whichever way dispositions are
\* inherited, reset and consumed.
KillDefault == \A s \in Slots : KILL \notin sig_ign[s] \cup sig_usr[s]

\* A slot is only emptied by the parent of the zombie in it, and a zombie
\* does nothing but wait for that: it does not revive, change its parent to
\* anything but init or keep a session.
ZombieSteps ==
  [][\A s \in Slots :
       /\ pid[s] # 0 /\ pid'[s] # pid[s] =>
            /\ exited[s] /\ pid'[s] = 0
            /\ parent[s] \in Live /\ st'[parent[s]] = "user"
       /\ pid[s] # 0 /\ exited[s] /\ pid'[s] # 0 =>
            exited'[s] /\ parent'[s] \in {parent[s], init}]_vars

\* A process that has been sent SIGKILL exits (init, then the kernel stops).
KillTerminates ==
  \A s \in Slots : (s \in Live /\ KILL \in sig[s]) ~> (s \notin Live \/ panicked)

\* A process table that is full while init has a zombie does not stay full,
\* unless init is interrupted.  (That zombie itself may wait for ever:
\* sys_waitpid takes the last zombie of pact, and younger ones are later.)
TableFrees ==
  (Used = Slots /\ \E s \in Used : exited[s] /\ parent[s] = init)
    ~> (Used # Slots \/ sig[init] # {} \/ panicked)

\* The table is what wait, kill and fork take it for, in every order of forks,
\* exits, reaps and signals: pact, pids, parents, sessions and waiters are exact.
TableExact == /\ TypeOK /\ PactExact /\ PidsUnique
              /\ ParentLive /\ SessionLed /\ WaiterHasChild

Spec     == Init /\ [][Next]_vars
FairSpec == /\ Init /\ [][NextBooted]_vars
            /\ \A s \in Slots : WF_vars(Wake(s))
            /\ WF_vars(InitWaits)
=============================================================================

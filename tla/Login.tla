-------------------------------- MODULE Login --------------------------------
(* Terminals and sessions: init with its table of terminals                  *)
(* (cmd/sbin/init.c), enable and disable, getty, login, the user's shell and *)
(* the jobs that stay behind it, mesg, write, and /etc/utmp.                 *)
(* A definition Mut... is a wrong form of the definition below it.           *)
EXTENDS Naturals, FiniteSetsExt

CONSTANTS
  LgLines,     \* lines of /etc/ttys: 1 .. n; line i is about terminal i
  LgJobs,      \* numbers of the background jobs
  LgEdited,    \* lines that enable and disable are called for
  LgUsers      \* users who log in

ASSUME LoginAssumption ==
  LgLines \cup LgJobs \subseteq Nat \ {0} /\ LgLines \cap LgJobs = {}

VARIABLES
  lgTab,       \* /etc/ttys: "on", "off", or "none" past its end
  lgTask,      \* init's task[]: the same, and the pid or 0
  lgInit,      \* where init is: boot, single, respawn, wait, dead
  lgPid,       \* the pid wait() returned to init, or 0
  lgHup,       \* enable has renamed the table and not sent SIGHUP yet
  lgReload,    \* init's flag
  lgProc,      \* the processes
  lgOwner,     \* owner of the terminal
  lgMesg,      \* terminals the group may write to
  lgUtmp       \* /etc/utmp, by line: name, "" or "none" (no record)

lgVars == <<lgTab, lgTask, lgInit, lgPid, lgHup, lgReload, lgProc, lgOwner, lgMesg, lgUtmp>>

\* Processes other than init.  Which number fork gives a child does not
\* matter: the session leader of line i has number i.
LgPids == LgLines \cup LgJobs
NoProc == [kind |-> "free", line |-> 0, user |-> "root", par |-> 0, shown |-> FALSE]
Zombie == [NoProc EXCEPT !.kind = "zombie"]
Kind(k)   == {p \in LgPids : lgProc[p].kind \in k}
\* the processes of which killf finds terminal i: as tty or as an open file
Holds(p, i)   == lgProc[p].line = i /\ lgProc[p].kind \notin {"free", "zombie", "getty"}
\* A process that dies is a zombie for init, or its parent reaps it; its
\* children become init's.
Died(procs, ds) ==
  [p \in LgPids |->
     LET q == procs[p] IN
     IF p \in ds THEN (IF q.par \in LgPids \ ds THEN NoProc ELSE Zombie)
     ELSE IF q.par \in ds THEN [q EXCEPT !.par = 0] ELSE q]
\* _killf; SIGKILL wakes whoever sleeps (module Process), and is taken at once here.
Killf(p, i) == {q \in LgPids \ {p} : Holds(q, i)}

----------------------------------------------------------------------------
(* init.                                                                    *)
\* readtab: a line that changed has its terminal's processes killed; lines
\* past the end of the file keep their tasks.  A table that cannot be read again,
\* or strdup without memory, leaves lines as they were until the next reload; the
\* properties are about tables that are read.
Changed == {i \in LgLines : lgTab[i] # "none" /\ lgTask[i].set \notin {"none", lgTab[i]}}
MutKilled == {}
Killed == UNION {Killf(0, i) : i \in Changed}
Readtab ==
  /\ lgTask' = [i \in LgLines |-> IF lgTab[i] = "none" THEN lgTask[i]
                                  ELSE [lgTask[i] EXCEPT !.set = lgTab[i]]]
  /\ lgProc' = Died(lgProc, Killed)

\* main before its loop: hwclock, sulimit, runrc, _ctty, readtab, mkutmp.
\* An unreadable table means a single-user shell first.
LgBoot(ok) ==
  /\ lgInit = "boot"
  /\ IF ok THEN Readtab ELSE UNCHANGED <<lgTask, lgProc>>
  /\ lgInit' = IF ok THEN "respawn" ELSE "single"
  /\ lgUtmp' = [i \in LgLines |-> IF ok /\ lgTab[i] # "none" THEN "" ELSE "none"]
  /\ UNCHANGED <<lgTab, lgPid, lgHup, lgReload, lgOwner, lgMesg>>
LgSingle ==
  /\ lgInit = "single" /\ lgInit' = "respawn"
  /\ UNCHANGED <<lgTab, lgTask, lgPid, lgHup, lgReload, lgProc, lgOwner, lgMesg, lgUtmp>>

TableFull == Kind({"free"}) \cap LgJobs = {}

\* respawn: one fork for every enabled line without a process.
MutUnserved == {i \in LgLines : lgTask[i].set = "on" /\ lgTask[i].pid = 0 /\ lgUtmp[i] # "none"}
Unserved    == {i \in LgLines : lgTask[i].set = "on" /\ lgTask[i].pid = 0}
LgRespawn(i, p) ==
  /\ lgInit = "respawn" /\ i \in Unserved /\ p = i /\ ~TableFull
  /\ lgProc' = [lgProc EXCEPT ![p] = [NoProc EXCEPT !.kind = "getty", !.line = i]]
  /\ lgTask' = [lgTask EXCEPT ![i].pid = p]
  /\ UNCHANGED <<lgTab, lgInit, lgPid, lgHup, lgReload, lgOwner, lgMesg, lgUtmp>>
LgRespawned ==
  /\ lgInit = "respawn" /\ (Unserved = {} \/ TableFull)
  /\ lgInit' = "wait"
  /\ UNCHANGED <<lgTab, lgTask, lgPid, lgHup, lgReload, lgProc, lgOwner, lgMesg, lgUtmp>>

\* wait returns a child, or an error when there is none.
LgWait(p) ==
  /\ lgInit = "wait"
  /\ \/ /\ p \in LgPids /\ lgProc[p].kind = "zombie" /\ lgProc[p].par = 0
        /\ lgPid' = p /\ lgProc' = [lgProc EXCEPT ![p] = NoProc]
     \/ /\ p = 0 /\ lgPid' = 0 /\ UNCHANGED lgProc
        /\ Kind({"free"}) = LgPids
  /\ lgInit' = "dead"
  /\ UNCHANGED <<lgTab, lgTask, lgHup, lgReload, lgOwner, lgMesg, lgUtmp>>
\* The rest of the loop: readtab when reload is set (it is never reset), and
\* dead, whose record for utmp has a name nobody set.
LgReread ==
  /\ lgInit = "dead" /\ lgReload
  /\ Readtab /\ lgInit' = "dead2"
  /\ UNCHANGED <<lgTab, lgPid, lgHup, lgReload, lgOwner, lgMesg, lgUtmp>>
MutEnded == {i \in LgLines : lgPid # 0 /\ lgTask[i].pid # 0}
Ended    == {i \in LgLines : lgPid # 0 /\ lgTask[i].pid = lgPid}
LgDead(name) ==
  /\ lgInit = "dead2" \/ (lgInit = "dead" /\ ~lgReload)
  /\ lgTask' = [i \in LgLines |-> IF i \in Ended THEN [lgTask[i] EXCEPT !.pid = 0] ELSE lgTask[i]]
  /\ lgUtmp' = [i \in LgLines |-> IF i \in Ended THEN name ELSE lgUtmp[i]]
  /\ Ended = {} => name = ""
  /\ lgInit' = "respawn" /\ lgPid' = 0
  /\ UNCHANGED <<lgTab, lgHup, lgReload, lgProc, lgOwner, lgMesg>>

\* enable and disable: rename of the new table, then SIGHUP to init.
LgEnable(i, s) ==
  /\ ~lgHup /\ lgTab[i] # s /\ s \in {"on", "off"}
  /\ lgTab[i] = "none" => s = "on" /\ \A j \in LgLines : j < i => lgTab[j] # "none"
  /\ lgTab' = [lgTab EXCEPT ![i] = s] /\ lgHup' = TRUE
  /\ UNCHANGED <<lgTask, lgInit, lgPid, lgReload, lgProc, lgOwner, lgMesg, lgUtmp>>
LgSighup ==
  /\ lgHup /\ lgHup' = FALSE
  /\ lgReload' = TRUE
  /\ IF lgInit = "wait" THEN lgInit' = "dead" /\ lgPid' = 0 ELSE UNCHANGED <<lgInit, lgPid>>
  /\ UNCHANGED <<lgTab, lgTask, lgProc, lgOwner, lgMesg, lgUtmp>>

----------------------------------------------------------------------------
(* getty and login.                                                         *)
Stage(p, from, to) ==
  lgProc[p].kind = from /\ lgProc' = [lgProc EXCEPT ![p].kind = to]
LgGetty(p) ==      \* _ctty and the three opens; exec of login
  /\ Stage(p, "getty", "login")
  /\ UNCHANGED <<lgTab, lgTask, lgInit, lgPid, lgHup, lgReload, lgOwner, lgMesg, lgUtmp>>
\* login first takes the terminal, then kills who else has it.
MutFirstTakes == "prompt"
FirstTakes    == "taken"
LgTake(p) ==
  /\ Stage(p, "login", FirstTakes)
  /\ lgOwner' = [lgOwner EXCEPT ![lgProc[p].line] = "root"]
  /\ lgMesg' = lgMesg \ {lgProc[p].line}
  /\ UNCHANGED <<lgTab, lgTask, lgInit, lgPid, lgHup, lgReload, lgUtmp>>
LgReset(p) ==
  /\ lgProc[p].kind = "taken"
  /\ lgProc' = [Died(lgProc, Killf(p, lgProc[p].line)) EXCEPT ![p].kind = "prompt"]
  /\ UNCHANGED <<lgTab, lgTask, lgInit, lgPid, lgHup, lgReload, lgOwner, lgMesg, lgUtmp>>
\* A right name and password: sutmp, tty_chown, setuid, exec of the shell.
LgLogin(p, u) ==
  /\ lgProc[p].kind = "prompt"
  /\ LET i == lgProc[p].line IN
     /\ lgUtmp' = IF lgUtmp[i] = "none" THEN lgUtmp ELSE [lgUtmp EXCEPT ![i] = u]
     /\ lgOwner' = [lgOwner EXCEPT ![i] = u] /\ lgMesg' = lgMesg \ {i}
     /\ lgProc' = [lgProc EXCEPT ![p] = [@ EXCEPT !.kind = "shell", !.user = u,
                                                   !.shown = lgUtmp[i] # "none"]]
  /\ UNCHANGED <<lgTab, lgTask, lgInit, lgPid, lgHup, lgReload>>

\* "incorrect", a failed getty, logout, the end of a job.
LgExit(p) ==
  /\ lgProc[p].kind \notin {"free", "zombie", "taken"}
  /\ lgProc' = Died(lgProc, {p})
  /\ UNCHANGED <<lgTab, lgTask, lgInit, lgPid, lgHup, lgReload, lgOwner, lgMesg, lgUtmp>>

\* A shell starts a job; a job (write, say) opens a terminal it may open.
LgJob(p, q) ==
  /\ lgProc[p].kind = "shell" /\ ~TableFull /\ q = Min(Kind({"free"}) \cap LgJobs)
  /\ lgProc' = [lgProc EXCEPT ![q] = [lgProc[p] EXCEPT !.kind = "job", !.par = p, !.shown = FALSE]]
  /\ UNCHANGED <<lgTab, lgTask, lgInit, lgPid, lgHup, lgReload, lgOwner, lgMesg, lgUtmp>>
LgWrite(p, i) ==
  /\ lgProc[p].kind = "job" /\ lgProc[p].line # i
  /\ lgOwner[i] = lgProc[p].user \/ i \in lgMesg
  /\ lgProc' = [lgProc EXCEPT ![p].line = i]
  /\ UNCHANGED <<lgTab, lgTask, lgInit, lgPid, lgHup, lgReload, lgOwner, lgMesg, lgUtmp>>
LgMesg(p) ==
  /\ lgProc[p].kind = "shell" /\ lgOwner[lgProc[p].line] = lgProc[p].user
  /\ lgMesg' \in {lgMesg \cup {lgProc[p].line}, lgMesg \ {lgProc[p].line}}
  /\ UNCHANGED <<lgTab, lgTask, lgInit, lgPid, lgHup, lgReload, lgProc, lgOwner, lgUtmp>>

LgStart ==
  /\ lgTab \in [LgLines -> {"on", "off", "none"}]
  /\ \A i \in LgLines \ LgEdited : lgTab[i] = "on"
  /\ \A i, j \in LgLines : i < j /\ lgTab[i] = "none" => lgTab[j] = "none"
  /\ lgTask = [i \in LgLines |-> [set |-> "none", pid |-> 0]]
  /\ lgInit = "boot" /\ lgPid = 0 /\ lgHup = FALSE /\ lgReload = FALSE
  /\ lgProc = [p \in LgPids |-> NoProc]
  /\ lgOwner = [i \in LgLines |-> "root"] /\ lgMesg = {}
  /\ lgUtmp = [i \in LgLines |-> "none"]

LgInitStep ==
  \/ \E ok \in BOOLEAN : LgBoot(ok)
  \/ LgSingle \/ LgRespawned \/ LgReread
  \/ \E i, p \in LgLines : LgRespawn(i, p)
  \/ \E p \in LgPids \cup {0} : LgWait(p)
  \/ \E n \in LgUsers \cup {""} : LgDead(n)
LgNext ==
  \/ LgInitStep \/ LgSighup
  \/ \E i \in LgEdited, s \in {"on", "off"} : LgEnable(i, s)
  \/ \E p \in LgPids : LgGetty(p) \/ LgTake(p) \/ LgReset(p) \/ LgExit(p) \/ LgMesg(p)
  \/ \E p \in LgPids, u \in LgUsers : LgLogin(p, u)
  \/ \E p \in LgLines, q \in LgJobs : LgJob(p, q)
  \/ \E p \in LgJobs, i \in LgLines : LgWrite(p, i)

\* Without fairness: what is safe.
LgSpec == LgStart /\ [][LgNext]_lgVars

----------------------------------------------------------------------------
(* Properties.                                                              *)

\* While login asks for a name and a password, no process of another user
\* has the terminal open: not a job left behind, not a writer.
PromptPrivate ==
  \A p \in Kind({"prompt"}) : \A q \in LgPids \ {p} :
    Holds(q, lgProc[p].line) => lgProc[q].user = "root"

\* Every session belongs to the task of its terminal, so that its end is
\* noticed; a session that login entered in utmp is shown there until it ends.
SessionsTracked ==
  /\ \A p \in Kind({"getty", "login", "taken", "prompt", "shell"}) :
       lgTask[lgProc[p].line].pid = p
  /\ \A p \in Kind({"shell"}) : lgProc[p].shown => lgUtmp[lgProc[p].line] = lgProc[p].user

\* A terminal that was switched off has no session, unless its getty had not
\* opened the terminal yet when the table was read.
LgLate == {p \in LgPids : lgProc[p].kind = "getty"}
OffIsOff ==
  [][\A i \in LgLines : lgTask[i].set = "on" /\ lgTask'[i].set = "off"
       => \A p \in LgPids \ LgLate : lgProc'[p].line # i \/ lgProc'[p].kind = "zombie"]_lgVars

\* An enabled line does not stay without a process, unless fork fails (then
\* init waits, and tries again only when another child has died).
LinesServed ==
  \A i \in LgLines : (lgTask[i].set = "on" /\ lgTask[i].pid = 0 /\ lgInit # "wait") ~>
     (lgTask[i].pid # 0 \/ lgTask[i].set # "on" \/ TableFull)

\* Each line has one prompt or session, and init knows whose it is.
SessionsExact == PromptPrivate /\ SessionsTracked
=============================================================================

------------------------------- MODULE Accounts -------------------------------
(* The account files /etc/spwd and /etc/passwd, changed by passwd and chsh    *)
(* (cmd/bin/passwd.c) and by mkuser, read through lib/passwd/passwd.c.  The   *)
(* temporary file /etc/spwd.tmp, made with O_EXCL, is the lock.               *)
(* A definition Mut... is a wrong form of the definition below it.            *)
EXTENDS Naturals

CONSTANTS
  AcProcs,     \* runs of passwd
  AcUsers,     \* names
  AcUser,      \* the user a run is for
  NewUsers     \* users that mkuser makes

ASSUME AccountsAssumption ==
  /\ AcUser \in [AcProcs -> AcUsers] /\ NewUsers \cap AcUsers = {}
  /\ AcProcs \cap {"nil", "broken"} = {}   \* these are no runs of passwd

VARIABLES
  acSpwd,      \* contents of /etc/spwd: user -> who set the entry last
  acPass,      \* contents of /etc/passwd: user -> the entry is there
  acTspwd,     \* /etc/spwd.tmp: its owner, NoTemp or, still written, partial
  acTpwd,      \* /etc/passwd.tmp, the same
  acAt,        \* where a run is
  acFile,      \* pwfile of a run: "current" or the contents of a file that
               \* has lost its name
  acNew,       \* what a run has written into its temporary files
  acMk,        \* users that are entered in spwd and not in passwd yet
  acBad        \* history: fclose or the second rename has failed

acVars == <<acSpwd, acPass, acTspwd, acTpwd, acAt, acFile, acNew, acMk, acBad>>

nil       == "nil"
AcNames   == AcUsers \cup NewUsers
NoTemp    == [by |-> nil, whole |-> FALSE]
Contents(p) == IF acFile[p].stale THEN acFile[p].data ELSE acSpwd
\* rename over /etc/spwd: who has the old file open keeps reading it
Kept == [p \in AcProcs |-> IF acAt[p] # "start" /\ ~acFile[p].stale
                           THEN [stale |-> TRUE, data |-> acSpwd] ELSE acFile[p]]
CurrentFile == [stale |-> FALSE, data |-> [u \in AcNames |-> nil]]
AcGo(p, to) == acAt' = [acAt EXCEPT ![p] = to]
Unlinked(p) == acTspwd' = NoTemp /\ acTpwd' = NoTemp

----------------------------------------------------------------------------
\* main: getpwnam or getpwuid opens the database, which stays open; a wrong
\* old password or unequal new ones end the run.
AcAsk(p) ==
  /\ acAt[p] = "start" /\ AcGo(p, "asked")
  /\ acFile' = [acFile EXCEPT ![p] = CurrentFile]
  /\ UNCHANGED <<acSpwd, acPass, acTspwd, acTpwd, acNew, acMk, acBad>>
AcRefuse(p) ==
  /\ acAt[p] = "asked" /\ AcGo(p, "done")
  /\ UNCHANGED <<acSpwd, acPass, acTspwd, acTpwd, acFile, acNew, acMk, acBad>>

\* setpass: the lock; while it is taken the run sleeps and tries again.
MutLockFree == TRUE
LockFree    == acTspwd = NoTemp
AcLock(p) ==
  /\ acAt[p] = "asked" /\ LockFree
  /\ acTspwd' = [by |-> p, whole |-> FALSE] /\ AcGo(p, "locked")
  /\ UNCHANGED <<acSpwd, acPass, acTpwd, acFile, acNew, acMk, acBad>>
\* /etc/passwd.tmp must not exist either; a run that finds it gives up.
AcTemp(p) ==
  /\ acAt[p] = "locked"
  /\ \/ /\ acTpwd = NoTemp
        /\ acTpwd' = [by |-> p, whole |-> FALSE] /\ AcGo(p, "open") /\ UNCHANGED acTspwd
     \/ /\ acTpwd # NoTemp
        /\ acTspwd' = NoTemp /\ AcGo(p, "done") /\ UNCHANGED acTpwd
  /\ UNCHANGED <<acSpwd, acPass, acFile, acNew, acMk, acBad>>

MutOwn(p) == AcUsers
Own(p)    == {AcUser[p]}
\* The loop over getpwent, from the file opened in main; putpwent may fail.
\* When fclose fails, with the disk full, nobody looks and the files are cut.
\* The files hold well-formed lines, as putpwent writes them: the loop would end
\* at any other, or at a line that cannot be read, and lose what is behind it.
AcCopy(p) ==
  /\ acAt[p] = "open"
  /\ \/ /\ acNew' = [acNew EXCEPT ![p] = [u \in AcNames |-> IF u \in Own(p) THEN p ELSE Contents(p)[u]]]
        /\ acTspwd' = [acTspwd EXCEPT !.whole = (acTspwd.by = p)]
        /\ acTpwd' = [acTpwd EXCEPT !.whole = (acTpwd.by = p)]
        /\ AcGo(p, "copied") /\ UNCHANGED acBad
     \/ /\ Unlinked(p) /\ AcGo(p, "done") /\ UNCHANGED <<acNew, acBad>>
     \/ /\ ~acBad /\ acBad' = TRUE /\ AcGo(p, "copied")
        /\ UNCHANGED <<acTspwd, acTpwd, acNew>>
  /\ UNCHANGED <<acSpwd, acPass, acFile, acMk>>

\* rename of spwd.tmp, which also gives the lock back, and of passwd.tmp.
Broken == [u \in AcNames |-> "broken"]
Named(temp) == IF temp.whole THEN acNew[temp.by] ELSE Broken
AcRename1(p) ==
  /\ acAt[p] = "copied"
  /\ acTspwd # NoTemp
  /\ acSpwd' = Named(acTspwd) /\ acTspwd' = NoTemp
  /\ acFile' = Kept /\ AcGo(p, "renamed")
  /\ UNCHANGED <<acPass, acTpwd, acNew, acMk, acBad>>
AcRename2(p) ==
  /\ acAt[p] = "renamed"
  /\ acTpwd # NoTemp
  /\ acPass' = [u \in AcNames |-> Named(acTpwd)[u] # nil] /\ acTpwd' = NoTemp
  /\ AcGo(p, "done")
  /\ UNCHANGED <<acSpwd, acTspwd, acFile, acNew, acMk, acBad>>
\* A rename fails.  After the first one spwd.tmp may be the lock of another
\* run, and is removed all the same.
AcNoRename(p) ==
  /\ \/ acAt[p] = "copied" /\ UNCHANGED acBad
     \/ acAt[p] = "renamed" /\ ~acBad /\ acBad' = TRUE
  /\ Unlinked(p) /\ AcGo(p, "done")
  /\ UNCHANGED <<acSpwd, acPass, acFile, acNew, acMk>>

\* A run dies (power, or SIGKILL): its temporary files stay.
AcDie(p) ==
  /\ acAt[p] \in {"asked", "locked", "open", "copied", "renamed"} /\ AcGo(p, "dead")
  /\ UNCHANGED <<acSpwd, acPass, acTspwd, acTpwd, acFile, acNew, acMk, acBad>>

\* mkuser appends to the one file, then to the other.
Mkuser1(u) ==
  /\ acSpwd[u] = nil /\ acMk = {}
  /\ acSpwd' = [acSpwd EXCEPT ![u] = "mkuser"] /\ acMk' = {u}
  /\ UNCHANGED <<acPass, acTspwd, acTpwd, acAt, acFile, acNew, acBad>>
Mkuser2(u) ==
  /\ u \in acMk /\ acMk' = {}
  /\ acPass' = [acPass EXCEPT ![u] = TRUE]
  /\ UNCHANGED <<acSpwd, acTspwd, acTpwd, acAt, acFile, acNew, acBad>>

AcInit ==
  /\ acSpwd = [u \in AcNames |-> IF u \in AcUsers THEN "install" ELSE nil]
  /\ acPass = [u \in AcNames |-> u \in AcUsers]
  /\ acTspwd = NoTemp /\ acTpwd = NoTemp
  /\ acAt = [p \in AcProcs |-> "start"]
  /\ acFile = [p \in AcProcs |-> CurrentFile]
  /\ acNew = [p \in AcProcs |-> [u \in AcNames |-> nil]]
  /\ acMk = {} /\ acBad = FALSE

AcStep(p) ==
  AcLock(p) \/ AcTemp(p) \/ AcCopy(p) \/ AcRename1(p) \/ AcRename2(p) \/ AcNoRename(p)
AcNext ==
  \/ \E p \in AcProcs : AcAsk(p) \/ AcRefuse(p) \/ AcStep(p) \/ AcDie(p)
  \/ \E u \in NewUsers : Mkuser1(u) \/ Mkuser2(u)
AcSpec == AcInit /\ [][AcNext]_acVars

----------------------------------------------------------------------------
(* Properties.                                                              *)

\* Whoever reads /etc/spwd or /etc/passwd, at any moment and after any crash,
\* finds every account that was there at the installation, as long as setpass
\* did not meet a failure that it does not look at or handles wrongly.
DatabaseWhole == ~acBad => \A u \in AcUsers : acSpwd[u] \notin {nil, "broken"} /\ acPass[u]

\* A change loses another one only if the run that makes it had opened the
\* database before the other was made: then it writes what it read.
OnlyStaleLoses ==
  [][~acBad => \A u \in AcNames : acSpwd'[u] # acSpwd[u] =>
       \/ acSpwd[u] = nil
       \/ \E p \in AcProcs : acAt[p] = "copied" /\ acAt'[p] = "renamed"
                             /\ (AcUser[p] = u \/ acFile[p].stale
                                 \/ acSpwd[u] = "mkuser")]_acVars
=============================================================================

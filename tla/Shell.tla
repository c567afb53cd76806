------------------------------- MODULE Shell --------------------------------
(* cmd/sh/sh.c: lines and the commands on them, built-in commands, pipelines, *)
(* jobs and the environment.  A command is whatever the line asks for, chosen *)
(* with \E; what subst, split and quot make of its words is left out, the number   *)
(* of stages and the trailing & are kept.                                     *)
(* A definition Mut... is a wrong form of the definition below it.            *)
EXTENDS Integers, FiniteSets, Sequences, SequencesExt

CONSTANTS
  ShPids,      \* processes the shell and its pipelines can have
  ShPipes,     \* pipes the system has room for
  MaxStages,   \* longest pipeline
  ScriptLen,   \* lines of the script or of .profile
  ShLabels     \* lines of it that are labels

ASSUME ShellAssumption ==
  /\ ShPids \subseteq Nat \ {0} /\ ShPipes \subseteq Nat \ {0}
  /\ MaxStages \in Nat \ {0} /\ ScriptLen \in Nat
  /\ ShLabels \subseteq 1 .. ScriptLen

VARIABLES
  shPc,        \* "main", "read" a line, "run" a command of it, "wait", "over"
  shSource,    \* "stdin", "file", "profile" (then stdin) or "arg" (-c)
  shLine,      \* lines of the source already read
  shRest,      \* commands of the line after the one that runs
  shFg,        \* the process waited for, or 0
  shLast,      \* lastst
  shWant,      \* history: the status of the last command that has one
  shProc       \* the processes below the shell

shVars == <<shPc, shSource, shLine, shRest, shFg, shLast, shWant, shProc>>

NotFound == 127     \* ERR_EXEC and the other errors of the shell itself
Statuses == {0, NotFound}   \* what a program or a built-in ends with
tty      == 0       \* standard input or output that is no pipe

Nobody == [st |-> "none", job |-> "none", left |-> 0, stage |-> 0,
           in |-> tty, out |-> tty, fds |-> {}, code |-> 0]
Unused     == {p \in ShPids : shProc[p].st = "none"}
ShRunning(p) == shProc[p].st \in {"excom", "prog"}
Ends(p)    == IF ShRunning(p)
              THEN shProc[p].fds \cup {<<shProc[p].in, "r">>, <<shProc[p].out, "w">>}
              ELSE {}
FreePipes  == {q \in ShPipes : \A p \in ShPids, e \in {"r", "w"} : <<q, e>> \notin Ends(p)}
Fresh(S)   == CHOOSE x \in S : \A y \in S : x <= y

-----------------------------------------------------------------------------
\* loop, doline: the next command of the line, or the next line.
NextCommand ==
  /\ shPc' = IF shRest > 0 THEN "run" ELSE "read"
  /\ shRest' = IF shRest > 0 THEN shRest - 1 ELSE 0

InFile == shSource \in {"file", "profile"}

\* readln gives a line, of one or two commands; a label is skipped by doline.
ShReadLine ==
  /\ shPc = "read" /\ shSource # "arg"
  /\ InFile => shLine < ScriptLen
  /\ shLine' = IF InFile THEN shLine + 1 ELSE shLine
  /\ \/ /\ ~(InFile /\ shLine + 1 \in ShLabels)
        /\ shPc' = "run"
        /\ shRest' \in 0 .. 1
     \/ UNCHANGED <<shPc, shRest>>                \* a comment, or nothing
  /\ UNCHANGED <<shSource, shFg, shLast, shWant, shProc>>

\* The source has ended: after .profile the shell goes on with its terminal.
ShReadEnd ==
  /\ shPc = "read"
  /\ InFile => shLine = ScriptLen
  /\ IF shSource = "profile"
     THEN shSource' = "stdin" /\ shPc' = "read" /\ shLine' = 0
     ELSE shPc' = "over" /\ UNCHANGED <<shSource, shLine>>
  /\ UNCHANGED <<shRest, shFg, shLast, shWant, shProc>>

-----------------------------------------------------------------------------
\* Built-in commands: :, cd, umask, ulimit, unset, newgrp of a shell that is no login
\* shell; exec and newgrp that fail.
BuiltinSets(st) ==
  /\ shLast' = st /\ shWant' = st
  /\ NextCommand
  /\ UNCHANGED <<shSource, shFg, shProc>>

CmdBuiltin ==
  /\ shPc = "run"
  /\ \E st \in Statuses : BuiltinSets(st)
  /\ UNCHANGED shLine

\* exit; exec and newgrp put another program in the shell's place.
CmdExit ==
  /\ shPc = "run"
  /\ shPc' = "over"
  /\ UNCHANGED <<shSource, shLine, shRest, shFg, shLast, shWant, shProc>>

\* goto.  It reads the lines up to the label into the buffer doline is working
\* on, so that what follows on the line is what the buffer then holds.
CmdGoto ==
  /\ shPc = "run"
  /\ \/ /\ ~InFile /\ \E st \in {0, NotFound} : BuiltinSets(st)   \* 0: stdin is a regular file
        /\ UNCHANGED shLine
     \/ /\ InFile
        /\ \E l \in ShLabels \cup {0} :
             /\ shLine' = IF l = 0 THEN ScriptLen ELSE l
             /\ shLast' = IF l = 0 THEN NotFound ELSE 0   \* ERR_NOLABEL, an error too
             /\ shWant' = shLast'
        /\ \/ shPc' = "read" /\ shRest' = 0
           \/ shRest > 0 /\ shPc' = "run" /\ shRest' \in 0 .. 1
        /\ UNCHANGED <<shSource, shFg, shProc>>

\* An assignment (putenv, see below) leaves $? alone; unset sets it.
CmdAssign ==
  /\ shPc = "run"
  /\ NextCommand
  /\ UNCHANGED <<shSource, shLine, shFg, shLast, shWant, shProc>>

-----------------------------------------------------------------------------
\* runcom: a process for the whole pipeline; the shell waits unless & ends it.
ShFork(n, job) ==
  /\ shPc = "run"
  /\ \/ /\ Unused # {}
        /\ LET p == Fresh(Unused) IN
             /\ shProc' = [shProc EXCEPT ![p] = [Nobody EXCEPT !.st = "excom", !.job = job, !.left = n, !.stage = n]]
             /\ IF job = "fg"
                THEN shPc' = "wait" /\ shFg' = p /\ UNCHANGED shRest
                ELSE NextCommand /\ UNCHANGED shFg
        /\ UNCHANGED <<shLast, shWant>>
     \/ /\ shLast' = NotFound /\ shWant' = NotFound       \* ERR_FORK
        /\ NextCommand /\ UNCHANGED <<shFg, shProc>>
  /\ UNCHANGED <<shSource, shLine>>

\* while (wait(&st) != pid): other jobs are taken up and forgotten; a wait that
\* a signal interrupts starts again.
MutTaken(p) == TRUE
Taken(p)    == p = shFg

ShWait(p) ==
  /\ shPc = "wait"
  /\ shProc[p].st = "zombie" /\ shProc[p].job \in {"fg", "bg"}
  /\ shProc' = [shProc EXCEPT ![p] = Nobody]
  /\ IF Taken(p)
     THEN shLast' = shProc[p].code /\ shFg' = 0 /\ NextCommand
     ELSE UNCHANGED <<shLast, shFg, shPc, shRest>>
  /\ UNCHANGED <<shSource, shLine, shWant>>

\* The process ends, with the status st; the shell that waits for it should
\* report that one.  Of a stage nobody asks for the status: code stays the
\* process whose child it is.
ShEnded(p, st) ==
  /\ shProc' = [x \in ShPids |->
                 IF x = p THEN [Nobody EXCEPT !.st = IF shProc[p].job = "init" THEN "none" ELSE "zombie",
                                              !.job = shProc[p].job,
                                              !.code = IF shProc[p].job = "stage" THEN shProc[p].code ELSE st]
                 ELSE IF shProc[x].job = "stage" /\ shProc[x].code = p        \* init's
                 THEN IF shProc[x].st = "zombie" THEN Nobody ELSE [shProc[x] EXCEPT !.job = "init", !.code = 0]
                 ELSE shProc[x]]
  /\ shWant' = IF shPc = "wait" /\ shFg = p THEN st ELSE shWant
  /\ UNCHANGED <<shPc, shSource, shLine, shRest, shFg, shLast>>

\* excom with a pipe: the left side goes to a new process, which keeps both
\* ends; this process goes on with the right side and the reading end.
MutRightEnds(p, q) == shProc[p].fds \cup {<<q, "w">>}
RightEnds(p, q)    == shProc[p].fds

ShStage(p) ==
  /\ shProc[p].st = "excom" /\ shProc[p].left > 1
  /\ \/ /\ Unused # {} /\ FreePipes # {}
        /\ LET c == Fresh(Unused)
               q == Fresh(FreePipes)
           IN shProc' = [shProc EXCEPT
                ![c] = [shProc[p] EXCEPT !.job = "stage", !.left = 1, !.code = p,
                          !.stage = shProc[p].stage - shProc[p].left + 1,
                          !.out = q, !.fds = @ \cup {<<q, "r">>, <<q, "w">>}],
                ![p] = [shProc[p] EXCEPT !.left = @ - 1, !.in = q, !.fds = RightEnds(p, q)]]
        /\ UNCHANGED <<shPc, shSource, shLine, shRest, shFg, shLast, shWant>>
     \/ ShEnded(p, NotFound)                          \* no pipe or no process

\* redir, globx, execvp; a file that cannot be opened or run ends the process.
ShExec(p) ==
  /\ shProc[p].st = "excom" /\ shProc[p].left = 1
  /\ \/ /\ shProc' = [shProc EXCEPT ![p].st = "prog"]
        /\ UNCHANGED <<shPc, shSource, shLine, shRest, shFg, shLast, shWant>>
     \/ ShEnded(p, NotFound)

\* The program ends by itself, or by a signal.
ShProgEnds(p) ==
  /\ shProc[p].st = "prog"
  /\ \E st \in Statuses : ShEnded(p, st)

-----------------------------------------------------------------------------
\* main: interactive, a script, a login shell with its .profile, or -c.
ShMain ==
  /\ shPc = "main"
  /\ shSource' \in {"stdin", "file", "profile", "arg"}
  /\ shPc' = IF shSource' = "arg" THEN "run" ELSE "read"
  /\ shRest' \in IF shSource' = "arg" THEN 0 .. 1 ELSE {0}
  /\ UNCHANGED <<shLine, shFg, shLast, shWant, shProc>>

ShInit ==
  /\ shPc = "main" /\ shSource = "stdin" /\ shLine = 0 /\ shRest = 0
  /\ shFg = 0 /\ shLast = 0 /\ shWant = 0
  /\ shProc = [p \in ShPids |-> Nobody]

ShNext ==
  \/ ShMain \/ ShReadLine \/ ShReadEnd \/ CmdBuiltin \/ CmdExit \/ CmdGoto \/ CmdAssign
  \/ \E n \in 1 .. MaxStages : ShFork(n, "fg") \/ ShFork(n, "bg")
  \/ \E p \in ShPids : ShWait(p) \/ ShStage(p) \/ ShExec(p) \/ ShProgEnds(p)

-----------------------------------------------------------------------------
\* $? is the status of the last foreground command or built-in, whatever jobs
\* end while the shell waits.
StatusOwn == shPc \in {"read", "run"} => shLast = shWant

\* A stage that reads a pipe can come to its end: only stages to its left hold
\* the writing end.
EofReaches ==
  \A p, w \in ShPids :
    (shProc[p].st = "prog" /\ shProc[p].in # tty /\ <<shProc[p].in, "w">> \in Ends(w))
      => shProc[w].stage < shProc[p].stage

\* Jobs and pipelines end as they should: the status is the right command's and
\* the end of the input can be reached.
JobsExact == StatusOwn /\ EofReaches

-----------------------------------------------------------------------------
(* The variables of cmd/sh/sh.c: nenv and the flags envdup that say which     *)
(* strings putenv made itself and may free.                                   *)

CONSTANTS
  ShVars,      \* names of variables
  MAXENV

ASSUME EnvironAssumption == MAXENV \in Nat \ {0} /\ IsFiniteSet(ShVars)

VARIABLES
  nenv,        \* the variables: their names, and whether strdup made the string
  envdup       \* whether putenv may free the string

envVars == <<nenv, envdup>>

\* Positions count from 1; the last flag stands for the byte after envdup,
\* which putenv and unsetenv touch when the table is full.
Flags       == 1 .. MAXENV + 1
Position(v) == {i \in 1 .. Len(nenv) : nenv[i].name = v}

\* putenv of a variable that is set, its old string freed; of a new one; and
\* without memory, or with a full table, which is reported only.
Putenv(v) ==
  \/ \E i \in Position(v) :
       /\ nenv' = [nenv EXCEPT ![i].own = TRUE]
       /\ envdup' = [envdup EXCEPT ![i] = TRUE]
  \/ /\ Position(v) = {} /\ Len(nenv) < MAXENV
     /\ nenv' = Append(nenv, [name |-> v, own |-> TRUE])
     /\ envdup' = [envdup EXCEPT ![Len(nenv) + 2] = FALSE, ![Len(nenv) + 1] = TRUE]
  \/ UNCHANGED envVars

\* unsetenv moves the later entries down, and their flags with them.
MutFlagsAfter(i) == envdup
FlagsAfter(i) ==
  [j \in Flags |-> IF i <= j /\ j <= Len(nenv) THEN envdup[j + 1] ELSE envdup[j]]

Unsetenv(v) ==
  \E i \in Position(v) : nenv' = RemoveAt(nenv, i) /\ envdup' = FlagsAfter(i)

\* copyenv takes over the caller's strings, as many as there is room for; main
\* runs the command of -c before it, with nothing in nenv.
Copyenv(E) == [i \in 1 .. (IF Len(E) < MAXENV THEN Len(E) ELSE MAXENV) |-> [name |-> E[i], own |-> FALSE]]

Taking(E) ==
  /\ nenv = <<>> /\ \A i \in Flags : ~envdup[i]
  /\ nenv' = Copyenv(E) /\ UNCHANGED envdup

EnvInit == nenv = <<>> /\ envdup = [i \in Flags |-> FALSE]

EnvNext == \/ \E E \in SetToSeqs(ShVars) : Taking(E)
           \/ \E v \in ShVars : Putenv(v) \/ Unsetenv(v)

ShellSpec == /\ ShInit /\ EnvInit
             /\ [][(ShNext /\ UNCHANGED envVars) \/ (EnvNext /\ UNCHANGED shVars)]_<<shVars, envVars>>

-----------------------------------------------------------------------------
\* putenv frees a string only if it made it, and no variable is there twice.
EnvOwned ==
  \A i \in 1 .. Len(nenv) :
    /\ envdup[i] = nenv[i].own
    /\ \A j \in 1 .. Len(nenv) : nenv[i].name = nenv[j].name => i = j

\* The shell as a whole (sh.c): its jobs and the strings of its environment.
ShellExact == JobsExact /\ EnvOwned
=============================================================================

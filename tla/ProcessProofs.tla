--------------------------- MODULE ProcessProofs ---------------------------
(* The process table invariants, proved for every table size, user limit    *)
(* and wrap point of the pid counter.                                       *)
EXTENDS Process, Memory, Alarm, FiniteSetTheorems, WellFoundedInduction, TLAPS

\* init is never a zombie: do_exit panics before it marks it.
InitLive == pid[init] = 1 /\ ~exited[init]

\* WaiterHasChild over slots instead of indices of pact.
WaiterInv ==
  \A s \in Live : st[s] = "wait" =>
    \E p \in Used : pid[p] # 1 /\ parent[p] = s

\* The inductive invariant: the properties of the runs support each other
\* (a pid is unique because pact is exact, a reap keeps every parent alive
\* because what it removes is a zombie).
IInv == /\ TypeOK /\ PactExact /\ PidsUnique /\ ParentLive /\ SessionLed
        /\ InitLive /\ WaiterInv /\ KillDefault

USE ProcessAssumption DEF ProcessAssumption, Slots, init, NULL, Sig

\* After proc_init only init is there.
LEMMA InitIInv == Init => IInv
<1> SUFFICES ASSUME Init PROVE IInv
  OBVIOUS
<1>0. init \in Slots /\ 1 \in 1 .. MAXPROCS
  OBVIOUS
<1>1. TypeOK
  <2>1. exited \in [Slots -> BOOLEAN] /\ panicked \in BOOLEAN
    BY Zenon DEF Init
  <2>2. st \in [Slots -> {"user", "wait", "pause"}]
    BY Zenon DEF Init
  <2>3. /\ sig \in [Slots -> SUBSET Sig] /\ sig_ign \in [Slots -> SUBSET Sig]
        /\ sig_usr \in [Slots -> SUBSET Sig]
    BY DEF Init
  <2> QED
    BY <1>0, <2>1, <2>2, <2>3 DEF Init, TypeOK
<1>2. Used = {0} /\ Live = {0} /\ Active = {0}
  BY DEF Init, Used, Live, Active
<1> QED
  BY <1>1, <1>2 DEF Init, IInv, PactExact, PidsUnique, ParentLive, SessionLed,
     InitLive, WaiterInv, KillDefault

\* A used slot is missing, so pact is not full: the index fork writes exists.
LEMMA PactRoom ==
  ASSUME TypeOK, PactExact, NEW c \in Slots, pid[c] = 0
  PROVE  npact < MAXPROCS
<1> DEFINE I == 0 .. npact - 1
           f == [i \in I |-> pact[i]]
<1>1. c \notin Used
  BY DEF Used
<1>2. \A i \in I : pact[i] \in Slots \ {c}
  BY <1>1 DEF PactExact, Active, Used
<1>3. f \in Injection(I, Slots \ {c})
  BY <1>2 DEF PactExact, Injection, IsInjective
<1>4. IsFiniteSet(Slots) /\ Cardinality(Slots) = MAXPROCS
  BY FS_Interval
<1>5. IsFiniteSet(Slots \ {c}) /\ Cardinality(Slots \ {c}) = MAXPROCS - 1
  <2> HIDE DEF Slots
  <2> QED BY <1>4, FS_RemoveElement
<1>6. Cardinality(I) = npact
  BY FS_Interval DEF TypeOK
<1>7. Cardinality(I) <= Cardinality(Slots \ {c})
  <2> HIDE DEF f, I
  <2> QED BY <1>3, <1>5, FS_Injection
<1> QED
  BY <1>5, <1>6, <1>7 DEF TypeOK

----------------------------------------------------------------------------
(* Steps that leave the table itself alone.                                 *)

\* A step that leaves pids, sessions, parents and pact alone and sends nobody
\* to sleep in sys_waitpid keeps the invariant.
LEMMA FrameIInv ==
  ASSUME IInv, TypeOK', KillDefault',
         UNCHANGED <<pid, psid, parent, exited, pact, npact>>,
         \A s \in Live : st'[s] = "wait" => st[s] = "wait"
  PROVE  IInv'
<1>1. Used' = Used /\ Live' = Live /\ Active' = Active
  BY DEF Used, Live, Active
<1>2. PactExact' /\ PidsUnique' /\ ParentLive' /\ SessionLed' /\ InitLive'
  BY <1>1 DEF IInv, PactExact, PidsUnique, ParentLive, SessionLed, InitLive
<1>3. WaiterInv'
  BY <1>1 DEF IInv, WaiterInv
<1> QED
  BY <1>2, <1>3 DEF IInv

\* sys_setsid.
LEMMA SetsidIInv == ASSUME IInv, NEW s \in Slots, Setsid(s) PROVE IInv'
<1>1. TypeOK'
  BY DEF IInv, Setsid, TypeOK, ids, sigs, tab
<1>2. Used' = Used /\ Live' = Live /\ Active' = Active
  BY DEF Setsid, Used, Live, Active, ids, sigs, tab
<1>3. PactExact' /\ PidsUnique' /\ ParentLive' /\ InitLive' /\ KillDefault'
  BY <1>2 DEF IInv, PactExact, PidsUnique, ParentLive, InitLive, KillDefault,
     Setsid, sigs, tab
<1>4. SessionLed'
  <2>1. s \in Live /\ pid' = pid /\ psid' = [psid EXCEPT ![s] = pid[s]]
    BY DEF Setsid, Running
  <2>2. SUFFICES ASSUME NEW t \in Used, psid'[t] # 0
                 PROVE  \E l \in Live : pid[l] = psid'[t]
    BY <1>2, <2>1 DEF SessionLed
  <2>3. CASE t = s
    BY <2>1, <2>3 DEF IInv, TypeOK
  <2>4. CASE t # s
    BY <2>1, <2>2, <2>4 DEF IInv, TypeOK, SessionLed
  <2> QED
    BY <2>3, <2>4
<1>5. WaiterInv'
  BY <1>2 DEF IInv, WaiterInv, Setsid
<1> QED
  BY <1>1, <1>3, <1>4, <1>5 DEF IInv

\* sys_waitpid that goes to sleep.
LEMMA WaitBlockIInv ==
  ASSUME IInv, NEW s \in Slots, NEW w \in WaitArgs, WaitBlock(s, w)
  PROVE  IInv'
<1>0. w \in Int
  <2>1. \A t \in Slots : pid[t] \in Int
    BY DEF IInv, TypeOK
  <2>2. w = -1 \/ \E t \in Used : w = pid[t]
    BY DEF WaitArgs
  <2> QED
    BY <2>1, <2>2 DEF Used
<1>1. TypeOK'
  BY <1>0 DEF IInv, WaitBlock, TypeOK, ids, sigs, tab
<1>2. Used' = Used /\ Live' = Live /\ Active' = Active
  BY DEF WaitBlock, Used, Live, Active, tab
<1>3. /\ PactExact' /\ PidsUnique' /\ ParentLive' /\ SessionLed' /\ InitLive'
      /\ KillDefault'
  BY <1>2 DEF IInv, PactExact, PidsUnique, ParentLive, SessionLed, InitLive,
     KillDefault, WaitBlock, sigs, tab
<1>4. \E p \in Used : pid[p] # 1 /\ parent[p] = s
  BY DEF WaitBlock, HasNone, Children, IInv, PactExact, Active
<1>5. WaiterInv'
  <2>1. /\ pid' = pid /\ parent' = parent
        /\ \A t \in Slots : t # s => st'[t] = st[t]
    BY DEF WaitBlock, IInv, TypeOK
  <2> QED
    BY <1>2, <1>4, <2>1 DEF IInv, WaiterInv, Live, Used
<1> QED
  BY <1>1, <1>3, <1>5 DEF IInv

----------------------------------------------------------------------------
(* Steps that change the table.                                             *)

\* do_exit, for any values of the signal variables it leaves behind.
LEMMA DoExitIInv ==
  ASSUME IInv, NEW c \in Live, NEW base \in [Slots -> SUBSET Sig],
         DoExit(c, base), UNCHANGED st,
         sig_usr' \in [Slots -> SUBSET Sig],
         \A s \in Slots : KILL \notin sig_usr'[s]
  PROVE  IInv'
<1> USE DEF DoExit, ids, tab
<1>0. c \in Slots /\ c # 0 /\ pid' = pid /\ pact' = pact /\ npact' = npact
  BY DEF Live, Used
<1>1. TypeOK'
  <2>1. sig' \in [Slots -> SUBSET Sig]
    BY DEF IInv, TypeOK
  <2>2. /\ parent' \in [Slots -> Slots \cup {NULL}]
        /\ psid' \in [Slots -> Nat]
    BY DEF IInv, TypeOK
  <2>3. exited' \in [Slots -> BOOLEAN]
    BY DEF IInv, TypeOK
  <2> QED
    BY <2>1, <2>2, <2>3 DEF IInv, TypeOK
<1>2. Used' = Used /\ Active' = Active /\ Live' = Live \ {c}
  BY <1>0 DEF Used, Live, Active, IInv, TypeOK
<1>3. PactExact' /\ PidsUnique'
  BY <1>0, <1>2 DEF IInv, PactExact, PidsUnique
<1>4. InitLive' /\ KillDefault'
  BY <1>0 DEF IInv, InitLive, KillDefault, TypeOK
<1>5. 0 \in Live'
  BY <1>0, <1>2 DEF IInv, InitLive, Live, Used
<1>6. Active = Used
  BY DEF IInv, PactExact
<1>7. \A s \in Used : parent'[s] = IF parent[s] = c THEN 0 ELSE parent[s]
  BY <1>6 DEF Heirs, Used, IInv, TypeOK
<1>8. ParentLive'
  <2>1. \A s \in Used : parent[s] \in Live
    BY DEF IInv, ParentLive
  <2>2. \A s \in Used : parent'[s] \in Live'
    <3> SUFFICES ASSUME NEW s \in Used PROVE parent'[s] \in Live'
      OBVIOUS
    <3> HIDE DEF DoExit
    <3>1. CASE parent[s] = c
      BY <1>5, <1>7, <3>1
    <3>2. CASE parent[s] # c
      <4>1. parent'[s] = parent[s]
        BY <1>7, <3>2
      <4> QED
        BY <1>2, <2>1, <3>2, <4>1
    <3> QED
      BY <3>1, <3>2
  <2> QED
    BY <1>2, <2>2, Zenon DEF ParentLive
<1>9. \A s \in Used : psid'[s] = IF psid[s] = pid[c] THEN 0 ELSE psid[s]
  BY <1>6 DEF Members, Used, IInv, TypeOK
<1>10. SessionLed'
  BY <1>0, <1>2, <1>9, ZenonT(60) DEF IInv, SessionLed
<1>11. WaiterInv'
  BY <1>0, <1>2, <1>7, ZenonT(60) DEF IInv, WaiterInv
<1> QED
  BY <1>1, <1>3, <1>4, <1>8, <1>10, <1>11 DEF IInv

\* sys_fork.
LEMMA ForkIInv == ASSUME IInv, NEW s \in Slots, Fork(s) PROVE IInv'
<1>1. s \in Live /\ wpid' = wpid /\ panicked' = panicked
  BY DEF Fork, Running
<1>2. PICK c \in Slots, n \in Allocpid :
        /\ pid[c] = 0
        /\ nextpid' = n
        /\ pid'     = [pid EXCEPT ![c] = n]
        /\ psid'    = [psid EXCEPT ![c] = psid[s]]
        /\ parent'  = [parent EXCEPT ![c] = s]
        /\ exited'  = [exited EXCEPT ![c] = FALSE]
        /\ ruid'    = [ruid EXCEPT ![c] = ruid[s]]
        /\ euid'    = [euid EXCEPT ![c] = euid[s]]
        /\ sig'     = [sig EXCEPT ![c] = sig[s]]
        /\ sig_ign' = [sig_ign EXCEPT ![c] = sig_ign[s]]
        /\ sig_usr' = [sig_usr EXCEPT ![c] = sig_usr[s]]
        /\ st'      = [st EXCEPT ![c] = "user"]
        /\ pact'    = [pact EXCEPT ![npact] = c]
        /\ npact'   = npact + 1
  BY DEF Fork
<1>3. npact < MAXPROCS
  BY <1>2, PactRoom DEF IInv
<1>4. n \in Nat /\ n >= 2 /\ n \notin Pids
  BY DEF Allocpid, IInv, TypeOK
<1>5. TypeOK'
  <2>1. pid' \in [Slots -> Nat] /\ nextpid' \in Nat \ {0}
    BY <1>2, <1>4, SMTT(60) DEF IInv, TypeOK
  <2>6. psid' \in [Slots -> Nat]
    BY <1>2 DEF IInv, TypeOK
  <2>5. /\ parent' \in [Slots -> Slots \cup {NULL}]
        /\ ruid' \in [Slots -> Uids] /\ euid' \in [Slots -> Uids]
    BY <1>2 DEF IInv, TypeOK
  <2>2. exited' \in [Slots -> BOOLEAN] /\ st' \in [Slots -> {"user", "wait", "pause"}]
    BY <1>2 DEF IInv, TypeOK
  <2>3. /\ sig' \in [Slots -> SUBSET Sig] /\ sig_ign' \in [Slots -> SUBSET Sig]
        /\ sig_usr' \in [Slots -> SUBSET Sig]
    BY <1>2 DEF IInv, TypeOK
  <2>4. pact' \in [Slots -> Slots \cup {NULL}] /\ npact' \in 1 .. MAXPROCS
    BY <1>2, <1>3 DEF IInv, TypeOK
  <2> QED
    BY <1>1, <2>1, <2>2, <2>3, <2>4, <2>5, <2>6 DEF IInv, TypeOK
<1>6. c \notin Used /\ c # s /\ s \in Used /\ Active = Used
  BY <1>1, <1>2 DEF Used, Live, IInv, PactExact
<1>7. Used' = Used \cup {c} /\ Live' = Live \cup {c}
  BY <1>2, <1>4, <1>6, SMTT(60) DEF Used, Live, IInv, TypeOK
<1>8. /\ \A i \in 0 .. npact - 1 : pact'[i] = pact[i] /\ pact[i] # c
      /\ pact'[npact] = c
  <2>1. npact \in Slots /\ \A i \in 0 .. npact - 1 : i \in Slots /\ i # npact
    BY <1>3 DEF IInv, TypeOK
  <2>2. \A i \in 0 .. npact - 1 : pact[i] # c
    BY <1>6, Zenon DEF Active
  <2>3. pact' = [pact EXCEPT ![npact] = c] /\ DOMAIN pact = Slots
    BY <1>2 DEF IInv, TypeOK
  <2> QED
    BY <2>1, <2>2, <2>3
<1>9. PactExact'
  <2>1. \A i \in 0 .. npact' - 1 : i \in 0 .. npact - 1 \/ i = npact
    BY <1>2 DEF IInv, TypeOK
  <2>2. Active' = Active \cup {c}
    <3>1. \A i \in 0 .. npact - 1 : i \in 0 .. npact' - 1
      BY <1>2 DEF IInv, TypeOK
    <3>2. npact \in 0 .. npact' - 1
      BY <1>2 DEF IInv, TypeOK
    <3> QED
      BY <1>8, <2>1, <3>1, <3>2, Zenon DEF Active
  <2>3. \A i, j \in 0 .. npact' - 1 : pact'[i] = pact'[j] => i = j
    BY <1>8, <2>1 DEF IInv, PactExact
  <2> QED
    BY <1>6, <1>7, <2>2, <2>3 DEF PactExact
<1>10. \A t \in Used : /\ pid'[t] = pid[t] /\ psid'[t] = psid[t]
                       /\ parent'[t] = parent[t] /\ st'[t] = st[t]
                       /\ t # c /\ t \in Slots
  BY <1>2, <1>6 DEF Used, IInv, TypeOK
<1>11. /\ pid'[c] = n /\ psid'[c] = psid[s] /\ parent'[c] = s
       /\ st'[c] = "user"
  BY <1>2 DEF IInv, TypeOK
<1>12. PidsUnique'
  <2>1. \A t \in Used : pid[t] # n
    BY <1>4, <1>6 DEF Pids
  <2> QED
    BY <1>7, <1>10, <1>11, <2>1 DEF IInv, PidsUnique
<1>13. ParentLive'
  BY <1>1, <1>7, <1>10, <1>11 DEF IInv, ParentLive
<1>14. SessionLed'
  <2>1. \A l \in Live : l \in Used
    BY DEF Live
  <2>2. \A t \in Used' : psid'[t] # 0 => \E l \in Live : pid[l] = psid'[t]
    BY <1>6, <1>7, <1>10, <1>11 DEF IInv, SessionLed
  <2> QED
    BY <1>7, <1>10, <2>1, <2>2 DEF SessionLed
<1>15. InitLive'
  <2>1. 0 \in Slots /\ c # 0
    BY <1>2 DEF IInv, InitLive
  <2> QED
    BY <1>2, <2>1 DEF IInv, InitLive, TypeOK
<1>16. WaiterInv'
  BY <1>7, <1>10, <1>11 DEF IInv, WaiterInv, Live
<1>17. KillDefault'
  BY <1>2 DEF IInv, KillDefault, TypeOK
<1> QED
  BY <1>5, <1>9, <1>12, <1>13, <1>14, <1>15, <1>16, <1>17 DEF IInv

\* The end of sys_waitpid, for any values of st and wpid that put nobody to
\* sleep and take the caller s out of its wait.
LEMMA ReapIInv ==
  ASSUME IInv, NEW s \in Live, NEW w, Reap(s, w),
         st' \in [Slots -> {"user", "wait", "pause"}],
         wpid' \in [Slots -> Int],
         st'[s] # "wait",
         \A t \in Slots : st'[t] = "wait" => st[t] = "wait"
  PROVE  IInv'
<1>1. PICK zi \in Zombies(s, w) :
        LET z == pact[zi]
        IN /\ pid'     = [pid EXCEPT ![z] = 0]
           /\ psid'    = [psid EXCEPT ![z] = 0]
           /\ parent'  = [parent EXCEPT ![z] = NULL]
           /\ exited'  = [exited EXCEPT ![z] = FALSE]
           /\ ruid'    = [ruid EXCEPT ![z] = 0]
           /\ euid'    = [euid EXCEPT ![z] = 0]
           /\ sig'     = [sig EXCEPT ![z] = {}]
           /\ sig_ign' = [sig_ign EXCEPT ![z] = {}]
           /\ sig_usr' = [sig_usr EXCEPT ![z] = {}]
           /\ pact'    = Moved(zi)
           /\ npact'   = npact - 1
           /\ UNCHANGED <<nextpid, panicked>>
  BY DEF Reap
<1> DEFINE z == pact[zi]
<1>2. /\ zi \in 0 .. npact - 1 /\ pid[z] # 0 /\ pid[z] # 1 /\ exited[z]
      /\ parent[z] = s
  BY DEF Zombies, Children
<1>3. Active = Used
  BY DEF IInv, PactExact
<1>4. z \in Used /\ z \in Slots /\ z \notin Live
  BY <1>2, <1>3 DEF Active, Used, Live
<1>5. 0 \in Live /\ z # 0
  BY <1>4 DEF IInv, InitLive, Live, Used
<1>6. npact >= 2
  <2>1. PICK j \in 0 .. npact - 1 : pact[j] = 0
    BY <1>3, <1>5 DEF Active, Live
  <2>2. j # zi
    BY <1>5, <2>1
  <2> QED
    BY <1>2, <2>2 DEF IInv, TypeOK
<1>7. TypeOK'
  <2>1. pid' \in [Slots -> Nat] /\ psid' \in [Slots -> Nat]
    BY <1>1, <1>4 DEF IInv, TypeOK
  <2>2. /\ parent' \in [Slots -> Slots \cup {NULL}]
        /\ ruid' \in [Slots -> Uids] /\ euid' \in [Slots -> Uids]
    BY <1>1, <1>4 DEF IInv, TypeOK
  <2>3. exited' \in [Slots -> BOOLEAN]
    BY <1>1, <1>4 DEF IInv, TypeOK
  <2>4. /\ sig' \in [Slots -> SUBSET Sig] /\ sig_ign' \in [Slots -> SUBSET Sig]
        /\ sig_usr' \in [Slots -> SUBSET Sig]
    BY <1>1, <1>4 DEF IInv, TypeOK
  <2>5. pact' \in [Slots -> Slots \cup {NULL}]
    <3>1. pact' = [pact EXCEPT ![zi] = pact[npact - 1]]
      BY <1>1 DEF Moved
    <3>2. npact - 1 \in Slots /\ pact \in [Slots -> Slots \cup {NULL}]
      BY DEF IInv, TypeOK
    <3> QED
      BY <3>1, <3>2
  <2>6. npact' \in 1 .. MAXPROCS
    BY <1>1, <1>6 DEF IInv, TypeOK
  <2> QED
    BY <1>1, <2>1, <2>2, <2>3, <2>4, <2>5, <2>6 DEF IInv, TypeOK
<1>8. Used' = Used \ {z}
  BY <1>1, <1>4 DEF Used, IInv, TypeOK
<1>9. \A t \in Slots : t # z => /\ pid'[t] = pid[t] /\ psid'[t] = psid[t]
                               /\ parent'[t] = parent[t]
                               /\ exited'[t] = exited[t]
  BY <1>1, <1>4 DEF IInv, TypeOK
<1>10. Live' = Live
  <2>1. \A t \in Live : t \in Slots /\ t # z
    BY <1>4 DEF Live, Used
  <2> QED
    BY <1>4, <1>8, <1>9, <2>1 DEF Live, Used
<1>11. PactExact'
  <2> DEFINE last == npact - 1
  <2>1. \A i \in 0 .. npact' - 1 :
          i \in 0 .. npact - 1 /\ i # last /\
          pact'[i] = IF i = zi THEN pact[last] ELSE pact[i]
    <3>1. pact' = [pact EXCEPT ![zi] = pact[npact - 1]] /\ npact' = npact - 1
      BY <1>1 DEF Moved
    <3>2. DOMAIN pact = Slots /\ npact \in 1 .. MAXPROCS
      BY DEF IInv, TypeOK
    <3> QED
      BY <1>2, <3>1, <3>2
  <2>2. \A i \in 0 .. npact - 1 : i # last => i \in 0 .. npact' - 1
    BY <1>1 DEF IInv, TypeOK
  <2>3. last \in 0 .. npact - 1
    BY <1>6 DEF IInv, TypeOK
  <2>4. \A i, j \in 0 .. npact - 1 : pact[i] = pact[j] => i = j
    BY DEF IInv, PactExact
  <2> HIDE DEF last
  <2>5. \A i, j \in 0 .. npact' - 1 : pact'[i] = pact'[j] => i = j
    BY <2>1, <2>3, <2>4
  <2>6. \A i \in 0 .. npact' - 1 : pact'[i] \in Active /\ pact'[i] # z
    BY <1>2, <2>1, <2>3, <2>4, SMTT(60) DEF Active
  <2>7. ASSUME NEW t \in Active, t # z
        PROVE  \E i \in 0 .. npact' - 1 : pact'[i] = t
    <3>1. PICK i \in 0 .. npact - 1 : pact[i] = t
      BY DEF Active
    <3>2. i # zi
      BY <2>7, <3>1
    <3>3. CASE i = last
      BY <1>2, <2>1, <2>2, <3>1, <3>2, <3>3
    <3>4. CASE i # last
      BY <2>1, <2>2, <3>1, <3>2, <3>4
    <3> QED
      BY <3>3, <3>4
  <2>8. Active' = Active \ {z}
    <3>1. Active' = {pact'[i] : i \in 0 .. npact' - 1}
      BY DEF Active
    <3> QED
      BY <2>6, <2>7, <3>1
  <2> QED
    BY <1>3, <1>8, <2>5, <2>8 DEF PactExact
<1>12. PidsUnique'
  BY <1>8, <1>9 DEF IInv, PidsUnique, Used
<1>13. ParentLive'
  BY <1>8, <1>9, <1>10 DEF IInv, ParentLive, Used
<1>14. SessionLed'
  <2>1. \A l \in Live : pid'[l] = pid[l]
    BY <1>4, <1>9 DEF Live, Used
  <2> QED
    BY <1>8, <1>9, <1>10, <2>1, SMTT(60) DEF IInv, SessionLed, Used
<1>15. InitLive'
  BY <1>5, <1>9 DEF IInv, InitLive
<1>16. WaiterInv'
  <2> SUFFICES ASSUME NEW t \in Live, st'[t] = "wait"
               PROVE  \E p \in Used' : pid'[p] # 1 /\ parent'[p] = t
    BY <1>10 DEF WaiterInv
  <2>1. t # s /\ t \in Slots /\ st[t] = "wait"
    BY DEF Live, Used
  <2>2. PICK p \in Used : pid[p] # 1 /\ parent[p] = t
    BY <2>1 DEF IInv, WaiterInv
  <2>3. p # z /\ p \in Slots
    BY <1>2, <2>1, <2>2 DEF Used
  <2> QED
    BY <1>8, <1>9, <2>2, <2>3
<1>17. KillDefault'
  BY <1>1, <1>4 DEF IInv, KillDefault, TypeOK
<1> QED
  BY <1>7, <1>11, <1>12, <1>13, <1>14, <1>15, <1>16, <1>17 DEF IInv

----------------------------------------------------------------------------
\* sys_waitpid that wakes up.
LEMMA WaitWakeIInv == ASSUME IInv, NEW s \in Slots, WaitWake(s) PROVE IInv'
<1>1. /\ s \in Live
      /\ st' = [st EXCEPT ![s] = "user"] /\ wpid' = [wpid EXCEPT ![s] = 0]
  BY DEF WaitWake
<1>2. /\ st' \in [Slots -> {"user", "wait", "pause"}]
      /\ wpid' \in [Slots -> Int]
      /\ st'[s] # "wait"
      /\ \A t \in Slots : st'[t] = "wait" => st[t] = "wait"
  BY <1>1 DEF IInv, TypeOK
<1>3. CASE UNCHANGED <<pid, psid, parent, exited, ids, sigs, tab, panicked>>
  <2>1. TypeOK' /\ KillDefault'
    BY <1>2, <1>3 DEF IInv, TypeOK, KillDefault, ids, sigs, tab
  <2> QED
    BY <1>2, <1>3, <2>1, FrameIInv DEF Live, Used, tab
<1>4. CASE Reap(s, wpid[s])
  BY <1>1, <1>2, <1>4, ReapIInv
<1> QED
  BY <1>3, <1>4 DEF WaitWake

\* The delivery of signals.
LEMMA PushsigIInv == ASSUME IInv, NEW s \in Slots, Pushsig(s) PROVE IInv'
<1> DEFINE got  == sig[s] \ sig_ign[s]
           usr  == got \cap sig_usr[s]
           base == [sig EXCEPT ![s] = {}]
<1>1. s \in Live /\ sig_usr' = [sig_usr EXCEPT ![s] = @ \ usr]
  BY DEF Pushsig
<1>2. base \in [Slots -> SUBSET Sig]
  BY DEF IInv, TypeOK
<1>3. /\ sig_usr' \in [Slots -> SUBSET Sig]
      /\ \A t \in Slots : KILL \notin sig_usr'[t]
  <2> HIDE DEF usr
  <2> QED BY <1>1 DEF IInv, TypeOK, KillDefault
<1> HIDE DEF base, usr
<1>4. CASE /\ sig' = base /\ panicked' \in BOOLEAN
           /\ UNCHANGED <<pid, psid, parent, exited, ids, sig_ign, tab, st,
                          wpid>>
  <2>1. TypeOK' /\ KillDefault'
    BY <1>2, <1>3, <1>4 DEF IInv, TypeOK, KillDefault, ids, tab
  <2> QED
    BY <1>4, <2>1, FrameIInv DEF tab
<1>5. CASE DoExit(s, base) /\ UNCHANGED st
  BY <1>1, <1>2, <1>3, <1>5, DoExitIInv
<1>6. panicked \in BOOLEAN /\ TRUE \in BOOLEAN
  BY DEF IInv, TypeOK
<1> QED
  BY <1>4, <1>5, <1>6 DEF Pushsig, base

\* The calls that change neither the table nor who sleeps in sys_waitpid.
LEMMA QuietIInv ==
  ASSUME IInv, NEW s \in Slots,
         \/ Pause(s) \/ PauseWake(s)
         \/ \E k \in KillArgs, g \in Sig : Kill(s, k, g)
         \/ \E u \in Uids : Setuid(s, u) \/ Exec(s, u)
         \/ \E u \in Uids, g \in Sig : Killu(s, u, g)
         \/ \E g \in Sig, h \in Handlers : Signal(s, g, h)
         \/ \E g \in KSig : ExecAbort(s, g)
  PROVE  IInv'
<1> USE DEF ids, sigs, tab
<1>1. CASE Pause(s)
  <2>1. TypeOK' /\ KillDefault' /\ \A t \in Slots : st'[t] = "wait" => st[t] = "wait"
    BY <1>1 DEF IInv, TypeOK, KillDefault, Pause
  <2> QED BY <1>1, <2>1, FrameIInv DEF Pause, Live, Used
<1>2. CASE PauseWake(s)
  <2>1. TypeOK' /\ KillDefault' /\ \A t \in Slots : st'[t] = "wait" => st[t] = "wait"
    BY <1>2 DEF IInv, TypeOK, KillDefault, PauseWake
  <2> QED BY <1>2, <2>1, FrameIInv DEF PauseWake, Live, Used
<1>3. ASSUME NEW P, NEW g \in Sig
      PROVE  SendsigAll(s, P, g) \in [Slots -> SUBSET Sig]
  BY DEF SendsigAll, IInv, TypeOK
<1>4. ASSUME NEW k \in KillArgs, NEW g \in Sig, Kill(s, k, g) PROVE IInv'
  <2>1. TypeOK' /\ KillDefault'
    BY <1>3, <1>4 DEF IInv, TypeOK, KillDefault, Kill
  <2> QED BY <1>4, <2>1, FrameIInv DEF Kill
<1>5. ASSUME NEW u \in Uids, Setuid(s, u) PROVE IInv'
  <2>1. TypeOK' /\ KillDefault'
    BY <1>5 DEF IInv, TypeOK, KillDefault, Setuid
  <2> QED BY <1>5, <2>1, FrameIInv DEF Setuid
<1>6. ASSUME NEW u \in Uids, Exec(s, u) PROVE IInv'
  <2>1. TypeOK' /\ KillDefault'
    BY <1>6 DEF IInv, TypeOK, KillDefault, Exec
  <2> QED BY <1>6, <2>1, FrameIInv DEF Exec
<1>7. ASSUME NEW u \in Uids, NEW g \in Sig, Killu(s, u, g) PROVE IInv'
  <2>1. TypeOK' /\ KillDefault'
    BY <1>3, <1>7 DEF IInv, TypeOK, KillDefault, Killu
  <2> QED BY <1>7, <2>1, FrameIInv DEF Killu
<1>8. ASSUME NEW g \in Sig, NEW h \in Handlers, Signal(s, g, h) PROVE IInv'
  <2>1. \E a, b \in SUBSET Sig :
          /\ KILL \notin a /\ KILL \notin b
          /\ sig_ign' = [sig_ign EXCEPT ![s] = a]
          /\ sig_usr' = [sig_usr EXCEPT ![s] = b]
    <3>1. /\ KILL \notin sig_ign[s] /\ sig_ign[s] \in SUBSET Sig
          /\ KILL \notin sig_usr[s] /\ sig_usr[s] \in SUBSET Sig
          /\ g # KILL
      BY <1>8 DEF IInv, TypeOK, KillDefault, Signal, Catchable
    <3>2. /\ (IF h = "ign" THEN sig_ign[s] \cup {g} ELSE sig_ign[s] \ {g})
               \in {a \in SUBSET Sig : KILL \notin a}
          /\ (IF h = "usr" THEN sig_usr[s] \cup {g} ELSE sig_usr[s] \ {g})
               \in {a \in SUBSET Sig : KILL \notin a}
      BY <3>1
    <3> QED
      BY <1>8, <3>2 DEF Signal
  <2>2. TypeOK' /\ KillDefault'
    <3>1. PICK a, b \in SUBSET Sig :
            /\ KILL \notin a /\ KILL \notin b
            /\ sig_ign' = [sig_ign EXCEPT ![s] = a]
            /\ sig_usr' = [sig_usr EXCEPT ![s] = b]
      BY <2>1
    <3>2. /\ sig_ign' \in [Slots -> SUBSET Sig]
          /\ sig_usr' \in [Slots -> SUBSET Sig]
      BY <3>1 DEF IInv, TypeOK
    <3>3. KillDefault'
      BY <3>1 DEF IInv, TypeOK, KillDefault
    <3>4. UNCHANGED <<pid, psid, parent, exited, ruid, euid, sig, pact, npact,
                      nextpid, st, wpid, panicked>>
      BY <1>8 DEF Signal
    <3> QED
      BY <3>2, <3>3, <3>4 DEF IInv, TypeOK
  <2> QED BY <1>8, <2>2, FrameIInv DEF Signal
<1>9. ASSUME NEW g \in KSig, ExecAbort(s, g) PROVE IInv'
  <2>1. TypeOK' /\ KillDefault'
    <3>1. /\ sig' \in [Slots -> SUBSET Sig] /\ sig_ign' \in [Slots -> SUBSET Sig]
          /\ sig_usr' \in [Slots -> SUBSET Sig]
      BY <1>9 DEF IInv, TypeOK, ExecAbort
    <3>2. KillDefault'
      BY <1>9 DEF IInv, TypeOK, KillDefault, ExecAbort
    <3>3. UNCHANGED <<pid, psid, parent, exited, ruid, euid, pact, npact,
                      nextpid, st, wpid, panicked>>
      BY <1>9 DEF ExecAbort
    <3> QED
      BY <3>1, <3>2, <3>3 DEF IInv, TypeOK
  <2> QED BY <1>9, <2>1, FrameIInv DEF ExecAbort
<1> QED
  BY <1>1, <1>2, <1>4, <1>5, <1>6, <1>7, <1>8, <1>9

\* sys__exit.
LEMMA ExitIInv == ASSUME IInv, NEW s \in Slots, Exit(s) PROVE IInv'
<1>1. CASE DoExit(s, sig) /\ UNCHANGED <<sig_usr, st>>
  BY <1>1, DoExitIInv DEF Exit, Running, IInv, TypeOK, KillDefault
<1>2. CASE /\ panicked' = TRUE
           /\ UNCHANGED <<pid, psid, parent, exited, ids, sig, sig_ign, tab,
                          wpid, sig_usr, st>>
  <2>1. TypeOK' /\ KillDefault'
    BY <1>2 DEF IInv, TypeOK, KillDefault, ids, tab
  <2> QED BY <1>2, <2>1, FrameIInv DEF tab
<1> QED
  BY <1>1, <1>2 DEF Exit

\* Every step keeps the inductive invariant.
LEMMA NextIInv == IInv /\ [Next]_vars => IInv'
<1> SUFFICES ASSUME IInv, [Next]_vars PROVE IInv'
  OBVIOUS
<1>1. CASE UNCHANGED vars
  <2>1. TypeOK' /\ KillDefault'
    BY <1>1 DEF IInv, TypeOK, KillDefault, vars, ids, sigs, tab
  <2> QED BY <1>1, <2>1, FrameIInv DEF vars, tab
<1>2. ASSUME NEW s \in Slots, Wake(s) PROVE IInv'
  BY <1>2, PushsigIInv, WaitWakeIInv, QuietIInv DEF Wake
<1>3. ASSUME NEW s \in Slots, Syscall(s) PROVE IInv'
  <2>1. ASSUME NEW w \in WaitArgs, WaitReap(s, w) PROVE IInv'
    <3>1. /\ s \in Live /\ st[s] = "user" /\ Reap(s, w)
          /\ st' = st /\ wpid' = wpid
      BY <2>1 DEF WaitReap, Running
    <3> QED BY <3>1, ReapIInv DEF IInv, TypeOK
  <2> QED
    BY <1>3, <2>1, ExitIInv, ForkIInv, QuietIInv, SetsidIInv, WaitBlockIInv
       DEF Syscall
<1> QED
  BY <1>1, <1>2, <1>3 DEF Next

\* The inductive invariant holds throughout, whatever system calls programs
\* make (init's program included).
THEOREM Invariance == Spec => []IInv
<1> QED BY InitIInv, NextIInv, PTL DEF Spec

\* The inductive invariant implies the properties the runs check.
LEMMA IInvImplies ==
  IInv => /\ TypeOK /\ PactExact /\ PidsUnique /\ ParentLive /\ SessionLed
          /\ WaiterHasChild /\ KillDefault
<1> SUFFICES ASSUME IInv, NEW s \in Live, st[s] = "wait"
             PROVE  Children(s) # {}
  BY DEF IInv, WaiterHasChild
<1>1. PICK p \in Used : pid[p] # 1 /\ parent[p] = s
  BY DEF IInv, WaiterInv
<1>2. PICK i \in 0 .. npact - 1 : pact[i] = p
  BY DEF IInv, PactExact, Active
<1> QED
  BY <1>1, <1>2 DEF Children, Used

\* Only a zombie loses its pid, only to a live parent that is back in user
\* code; a zombie stays one and can only be handed on to init.
LEMMA ZombieStep ==
  ASSUME IInv, [Next]_vars, NEW s \in Slots
  PROVE  /\ pid[s] # 0 /\ pid'[s] # pid[s] =>
              /\ exited[s] /\ pid'[s] = 0
              /\ parent[s] \in Live /\ st'[parent[s]] = "user"
         /\ pid[s] # 0 /\ exited[s] /\ pid'[s] # 0 =>
              exited'[s] /\ parent'[s] \in {parent[s], init}
<1> USE DEF ids, sigs, tab
<1>1. CASE UNCHANGED <<pid, parent, exited>>
  BY <1>1
<1>2. ASSUME NEW c \in Live, NEW base, DoExit(c, base)
      PROVE  /\ pid' = pid
             /\ exited[s] => exited'[s]
             /\ parent'[s] \in {parent[s], init}
  <2>1. s = c \/ exited'[s] = exited[s]
    BY <1>2 DEF DoExit, IInv, TypeOK
  <2> QED
    BY <1>2, <2>1 DEF DoExit, IInv, TypeOK, Live
<1>3. ASSUME NEW t \in Slots, Fork(t)
      PROVE  pid[s] # 0 => /\ pid'[s] = pid[s] /\ parent'[s] = parent[s]
                           /\ exited'[s] = exited[s]
  BY <1>3, ZenonT(60) DEF Fork, IInv, TypeOK
<1>4. ASSUME NEW t \in Live, NEW w, Reap(t, w), st'[t] = "user"
      PROVE  \/ /\ exited[s] /\ pid'[s] = 0
                /\ parent[s] \in Live /\ st'[parent[s]] = "user"
             \/ /\ pid'[s] = pid[s] /\ parent'[s] = parent[s]
                /\ exited'[s] = exited[s]
  <2>1. PICK zi \in Zombies(t, w) :
          /\ pid' = [pid EXCEPT ![pact[zi]] = 0]
          /\ parent' = [parent EXCEPT ![pact[zi]] = NULL]
          /\ exited' = [exited EXCEPT ![pact[zi]] = FALSE]
    BY <1>4 DEF Reap
  <2>2. exited[pact[zi]] /\ parent[pact[zi]] = t
    BY DEF Zombies, Children
  <2> QED
    BY <1>4, <2>1, <2>2 DEF IInv, TypeOK
<1>5. ASSUME NEW t \in Slots, Wake(t)
      PROVE  \/ UNCHANGED <<pid, parent, exited>>
             \/ \E base : t \in Live /\ DoExit(t, base)
             \/ t \in Live /\ Reap(t, wpid[t]) /\ st'[t] = "user"
  <2>1. CASE Pushsig(t)
    BY <2>1 DEF Pushsig
  <2>2. CASE WaitWake(t)
    BY <2>2 DEF WaitWake, IInv, TypeOK
  <2>3. CASE PauseWake(t)
    BY <2>3 DEF PauseWake
  <2> QED
    BY <1>5, <2>1, <2>2, <2>3 DEF Wake
<1>6. ASSUME NEW t \in Slots, Syscall(t)
      PROVE  \/ UNCHANGED <<pid, parent, exited>>
             \/ \E base : t \in Live /\ DoExit(t, base)
             \/ Fork(t)
             \/ \E w \in WaitArgs : t \in Live /\ Reap(t, w) /\ st'[t] = "user"
  BY <1>6 DEF Syscall, Exit, Pause, Setsid, WaitReap, WaitBlock, Kill, Setuid,
     Exec, Killu, Signal, ExecAbort, Running
<1> QED
  BY <1>1, <1>2, <1>3, <1>4, <1>5, <1>6 DEF Next, vars

\* The life of a zombie, for every behaviour of the process table.
THEOREM ZombieStepsHold == Spec => ZombieSteps
<1>1. IInv /\ [Next]_vars =>
        [\A s \in Slots :
           /\ pid[s] # 0 /\ pid'[s] # pid[s] =>
                /\ exited[s] /\ pid'[s] = 0
                /\ parent[s] \in Live /\ st'[parent[s]] = "user"
           /\ pid[s] # 0 /\ exited[s] /\ pid'[s] # 0 =>
                exited'[s] /\ parent'[s] \in {parent[s], init}]_vars
  BY ZombieStep
<1> QED
  BY <1>1, Invariance, PTL DEF Spec, ZombieSteps

\* Every variable of the process table keeps its type; in particular npact
\* never exceeds the array it indexes.
THEOREM TypeCorrect == Spec => []TypeOK
<1> QED BY Invariance, IInvImplies, PTL

\* pact lists the used slots exactly once, for every number of slots.
THEOREM PactCorrect == Spec => []PactExact
<1> QED BY Invariance, IInvImplies, PTL

\* Pids stay unique across the wrap of allocpid, for every wrap point.
THEOREM PidsCorrect == Spec => []PidsUnique
<1> QED BY Invariance, IInvImplies, PTL

\* Nobody is ever the child of a zombie or of a freed slot.
THEOREM ParentCorrect == Spec => []ParentLive
<1> QED BY Invariance, IInvImplies, PTL

\* A session id is always the pid of a live process.
THEOREM SessionCorrect == Spec => []SessionLed
<1> QED BY Invariance, IInvImplies, PTL

\* Nobody sleeps in sys_waitpid without a child.
THEOREM WaiterCorrect == Spec => []WaiterHasChild
<1> QED BY Invariance, IInvImplies, PTL

\* SIGKILL keeps its default action.
THEOREM KillCorrect == Spec => []KillDefault
<1> QED BY Invariance, IInvImplies, PTL

\* The table as a whole, as fork, exit and wait keep it, for every number of
\* slots, every wrap point of the pids and every set of users and signals.
THEOREM TableCorrect == Spec => []TableExact
<1>1. IInv => TableExact
  BY IInvImplies DEF TableExact
<1> QED BY <1>1, Invariance, PTL
----------------------------------------------------------------------------
(* Alarms.                                                                  *)

\* An alarm that is set is due when its time is over, and no signal is pending
\* while it is set: alarm() is only called by a program that has no signal.
Left == {Off} \cup {r \in Int : r >= -1}
AlInv ==
  /\ alCurr \in AlProcs
  /\ alRem \in [AlProcs -> Left] /\ alDue \in [AlProcs -> Left]
  /\ alSig \in [AlProcs -> BOOLEAN]
  /\ \A p \in AlProcs : Set(alRem[p]) => ~alSig[p] /\ alDue[p] = alRem[p]
  /\ NotEarly

\* A look at p's alarm that finds it due sends the signal and clears the alarm.
LEMMA ChkalarmAlInv ==
  ASSUME AlInv, NEW p \in AlProcs, NEW rem \in [AlProcs -> Left],
         Chkalarm(p, rem), alCurr' \in AlProcs, alDue' \in [AlProcs -> Left],
         \A q \in AlProcs : Set(rem[q]) => Set(alRem[q]) /\ alDue'[q] = rem[q],
         \A q \in AlProcs : Set(alDue'[q]) <=> Set(alDue[q]),
         \A q \in AlProcs : alDue[q] <= 0 => alDue'[q] <= 0
  PROVE  AlInv'
<1> DEFINE sent == [alSig EXCEPT ![p] = TRUE]
           off == [rem EXCEPT ![p] = Off]
<1> USE DEF Left, Set, Off
<1>1. CASE Due(p)
  <2>1. alSig' = sent /\ alRem' = off
    BY <1>1 DEF Chkalarm
  <2>2. sent \in [AlProcs -> BOOLEAN] /\ \A q \in AlProcs : q # p => (sent[q] <=> alSig[q])
    BY Zenon DEF AlInv
  <2>3. off \in [AlProcs -> Left] /\ off[p] = Off /\ \A q \in AlProcs : q # p => off[q] = rem[q]
    OBVIOUS
  <2>4. alDue'[p] <= 0 /\ Set(alDue'[p])
    BY <1>1 DEF Due, AlInv
  <2>5. NotEarly'
    BY <2>1, <2>2, <2>4 DEF NotEarly, AlInv
  <2> QED
    BY <2>1, <2>2, <2>3, <2>5 DEF AlInv
<1>2. CASE ~Due(p)
  <2>1. alSig' = alSig /\ alRem' = rem
    BY <1>2 DEF Chkalarm
  <2>2. NotEarly'
    BY <2>1 DEF NotEarly, AlInv
  <2> QED
    BY <2>1, <2>2 DEF AlInv
<1> QED
  BY <1>1, <1>2

\* A tick keeps what is not set, and moves an alarm with the time it is due.
LEMMA TickedLeft ==
  ASSUME NEW r \in Left
  PROVE  Ticked(r) \in Left /\ (Set(Ticked(r)) <=> Set(r)) /\ (r <= 0 => Ticked(r) <= 0)
BY DEF Ticked, Left, Set, Off

LEMMA AlNextAlInv == AlInv /\ [AlNext]_alVars => AlInv'
<1> SUFFICES ASSUME AlInv, [AlNext]_alVars PROVE AlInv'
  OBVIOUS
<1> USE AlarmAssumption DEF AlarmAssumption
<1>1. CASE AlTick
  <2> DEFINE rem == [p \in AlProcs |-> Ticked(alRem[p])]
             due == [p \in AlProcs |-> Ticked(alDue[p])]
  <2>1. Chkalarm(alCurr, rem) /\ alDue' = due /\ alCurr' = alCurr
    BY <1>1 DEF AlTick
  <2>2. rem \in [AlProcs -> Left] /\ due \in [AlProcs -> Left]
    BY TickedLeft DEF AlInv
  <2>3. \A q \in AlProcs : /\ Set(rem[q]) => Set(alRem[q]) /\ due[q] = rem[q]
                           /\ Set(due[q]) <=> Set(alDue[q])
                           /\ alDue[q] <= 0 => due[q] <= 0
    BY TickedLeft DEF AlInv
  <2> QED
    BY <2>1, <2>2, <2>3, ChkalarmAlInv DEF AlInv
<1>2. ASSUME NEW p \in AlProcs, AlSwitch(p) PROVE AlInv'
  <2>1. /\ Chkalarm(p, alRem) /\ alDue' = alDue /\ alCurr' = p
        /\ alRem \in [AlProcs -> Left] /\ alDue \in [AlProcs -> Left]
        /\ \A q \in AlProcs : Set(alRem[q]) => alDue[q] = alRem[q]
    BY <1>2 DEF AlSwitch, AlInv
  <2> QED
    BY <2>1, ChkalarmAlInv
<1>3. ASSUME NEW p \in AlProcs, AlWake(p) \/ AlSignal(p) PROVE AlInv'
  <2>1. CASE AlWake(p)
    BY <2>1 DEF AlWake, AlInv, NotEarly
  <2>2. CASE AlSignal(p)
    <3>1. /\ alRem' = alRem /\ alCurr' = alCurr /\ alSig[p]
          /\ alDue' = [alDue EXCEPT ![p] = Off] /\ alSig' = [alSig EXCEPT ![p] = FALSE]
      BY <2>2 DEF AlSignal
    <3>2. /\ alSig' \in [AlProcs -> BOOLEAN] /\ ~alSig'[p]
          /\ \A q \in AlProcs : q # p => (alSig'[q] <=> alSig[q])
      BY <3>1, Zenon DEF AlInv
    <3>3. /\ alDue' \in [AlProcs -> Left] /\ ~Set(alRem[p])
          /\ \A q \in AlProcs : q # p => alDue'[q] = alDue[q]
      BY <3>1 DEF AlInv, Left
    <3> QED
      BY <3>1, <3>2, <3>3 DEF AlInv, NotEarly
  <2> QED
    BY <1>3, <2>1, <2>2
<1>4. ASSUME NEW p \in AlProcs, NEW s \in 0 .. MaxSec, SysAlarm(p, s) \/ SysSleep(p, s)
      PROVE  AlInv'
  <2>1. CASE SysAlarm(p, s)
    <3> DEFINE r == IF s > 0 THEN s ELSE Off
    <3>1. /\ alSig' = alSig /\ alCurr' = alCurr /\ ~alSig[p] /\ r \in Left
          /\ alRem' = [alRem EXCEPT ![p] = r] /\ alDue' = [alDue EXCEPT ![p] = r]
      BY <2>1 DEF SysAlarm, AlRunning, Left
    <3> QED
      BY <3>1 DEF AlInv, NotEarly
  <2>2. CASE SysSleep(p, s)
    BY <2>2 DEF SysSleep, AlInv, NotEarly
  <2> QED
    BY <1>4, <2>1, <2>2
<1>5. ASSUME NEW d \in {-1, 1, MaxSec}, SysStime(d) PROVE AlInv'
  <2> DEFINE moved(r) == IF Set(r) THEN (IF r - d < -1 THEN -1 ELSE r - d) ELSE Off
  <2>1. \A r \in Left : moved(r) \in Left /\ (Set(moved(r)) => Set(r))
    BY DEF Left, Set, Off
  <2>2. /\ alRem' = [p \in AlProcs |-> moved(alRem[p])]
        /\ alDue' = [p \in AlProcs |-> IF alSig[p] THEN alDue[p] ELSE moved(alDue[p])]
        /\ alSig' = alSig /\ alCurr' = alCurr
    BY <1>5 DEF SysStime
  <2> HIDE DEF moved
  <2> QED
    BY <2>1, <2>2 DEF AlInv, NotEarly
<1>6. CASE UNCHANGED alVars
  BY <1>6 DEF alVars, AlInv, NotEarly
<1> QED
  BY <1>1, <1>2, <1>3, <1>4, <1>5, <1>6 DEF AlNext

\* SIGALRM never comes before its time and never after alarm(0), for any number
\* of processes, although the clock looks at the current process alone and
\* stime moves the clock under alarms that are set (clock.c, clock_chkalarm).
THEOREM NotEarlyCorrect == AlSpec => []NotEarly
<1>1. AlInit => AlInv
  BY DEF AlInit, AlInv, NotEarly, Left, Set, Off
<1>2. AlInv => NotEarly
  BY DEF AlInv
<1> QED
  BY <1>1, <1>2, AlNextAlInv, PTL DEF AlSpec
----------------------------------------------------------------------------
(* Memory: counting pages.                                                  *)

Pages == 0 .. UserPages - 1
MemStates == {"free", "live", "dying", "zombie"}
MemTypeOK ==
  /\ {pg_fcount, memHeld, memLost} \subseteq Nat
  /\ ptab \in [MemProcs -> SUBSET Pages]
  /\ mem \in [MemProcs -> [brk : Nat, stk : Int, astk : Nat, base : Nat, end : Nat]]
  /\ memState \in [MemProcs -> MemStates]

\* Every set of numbers has a least one; induction over Nat rests on it.
LEMMA LeastNat ==
  ASSUME NEW T, T \subseteq Nat, T # {}
  PROVE  \E n \in T : \A m \in T : n <= m
<1> DEFINE R == OpToRel(<, Nat)
<1>1. IsWellFoundedOn(R, Nat)
  BY NatLessThanWellFounded
<1> HIDE DEF R
<1>2. PICK n \in T : \A m \in T : ~ (<<m, n>> \in R)
  BY <1>1, WFMin
<1>3. \A m \in T : <<m, n>> \in R <=> m < n
  BY DEF R, OpToRel
<1>4. \A m \in T : ~(m < n)
  BY <1>2, <1>3, Zenon
<1> QED
  BY <1>4, SMT

\* The elements of W with fewer than k smaller ones: the first k of W.
Under(W, v) == {x \in W : x < v}
First(W, k) == {v \in W : Cardinality(Under(W, v)) < k}

LEMMA FirstStep ==
  ASSUME NEW W, W \subseteq Nat, IsFiniteSet(W), NEW k \in Nat, k < Cardinality(W),
         Cardinality(First(W, k)) = k
  PROVE  Cardinality(First(W, k + 1)) = k + 1
<1> DEFINE A == First(W, k)
<1>0. /\ A \subseteq W /\ IsFiniteSet(A)
      /\ \A v \in W : /\ Under(W, v) \subseteq W /\ IsFiniteSet(Under(W, v))
                      /\ Cardinality(Under(W, v)) \in Nat
  <2>1. A \subseteq W /\ \A v \in W : Under(W, v) \subseteq W
    BY DEF First, Under
  <2> QED
    BY <2>1, FS_Subset, FS_CardinalityType
<1>a. Cardinality(A) = k /\ \A x \in A : Cardinality(Under(W, x)) < k
  BY DEF First
<1>b. \A x \in W \ A : ~(Cardinality(Under(W, x)) < k)
  BY DEF First
<1>1. W \ A # {}
  BY <1>0
<1>2. PICK v0 \in W \ A : \A x \in W \ A : v0 <= x
  <2> HIDE DEF A
  <2> QED
    BY <1>1, LeastNat
<1>c. v0 \in Nat /\ v0 \in W /\ v0 \notin A
  BY <1>2
<1> HIDE DEF A
<1>3. Under(W, v0) \subseteq A
  <2> SUFFICES ASSUME NEW y \in Under(W, v0) PROVE y \in A
    OBVIOUS
  <2>1. y \in W /\ y \in Nat /\ y < v0
    BY DEF Under
  <2> QED
    BY <2>1, <1>2, <1>c
<1>4. \A x \in A : x < v0
  <2> SUFFICES ASSUME NEW x \in A, x >= v0 PROVE FALSE
    BY <1>0, <1>c
  <2>0. x \in Nat /\ x \in W
    BY <1>0
  <2>1. Under(W, v0) \subseteq Under(W, x)
    <3> SUFFICES ASSUME NEW y \in Under(W, v0) PROVE y \in Under(W, x)
      OBVIOUS
    <3>1. y \in W /\ y \in Nat /\ y < v0
      BY DEF Under
    <3>2. y < x
      BY <3>1, <2>0, <1>c
    <3> QED
      BY <3>1, <3>2 DEF Under
  <2>2. Cardinality(Under(W, v0)) <= Cardinality(Under(W, x))
    BY <2>0, <2>1, <1>0, FS_Subset
  <2>3. Cardinality(Under(W, x)) < k /\ ~(Cardinality(Under(W, v0)) < k)
    BY <1>a, <1>b, <1>c
  <2> QED
    BY <2>0, <2>2, <2>3, <1>0, <1>c
<1>5. Under(W, v0) = A
  BY <1>0, <1>3, <1>4 DEF Under
<1>6. \A x \in W \ A : x # v0 => ~(Cardinality(Under(W, x)) < k + 1)
  <2> TAKE x \in W \ A
  <2> HAVE x # v0
  <2>1. v0 < x /\ x \in Nat /\ x \in W
    BY <1>2, <1>c
  <2>2. A \cup {v0} \subseteq Under(W, x)
    <3>1. \A y \in A : y \in W /\ y \in Nat /\ y < v0
      BY <1>0, <1>4
    <3> QED
      BY <3>1, <1>c, <2>1 DEF Under
  <2>3. Cardinality(A \cup {v0}) = k + 1
    BY <1>0, <1>a, <1>c, FS_AddElement
  <2>4. k + 1 <= Cardinality(Under(W, x))
    <3>1. IsFiniteSet(Under(W, x)) /\ A \cup {v0} \in SUBSET Under(W, x)
      BY <2>1, <2>2, <1>0
    <3> QED
      BY <3>1, <2>3, FS_Subset
  <2> QED
    BY <2>1, <2>4, <1>0
<1>7. First(W, k + 1) = A \cup {v0}
  <2>1. \A x \in A : Cardinality(Under(W, x)) < k + 1
    BY <1>0, <1>a
  <2>2. Cardinality(Under(W, v0)) < k + 1
    BY <1>5, <1>a
  <2> QED
    BY <1>0, <1>c, <1>6, <2>1, <2>2 DEF First
<1> QED
  BY <1>0, <1>a, <1>c, <1>7, FS_AddElement, SMTT(60)

\* Pages that are taken one by one, from the lowest on, are as many as there
\* are: newregion and growstk take k of the missing pages (umem.c).
LEMMA FirstCount ==
  ASSUME NEW W, W \subseteq Nat, IsFiniteSet(W), NEW k \in Nat, k <= Cardinality(W)
  PROVE  Cardinality(First(W, k)) = k
<1> DEFINE Bad == {i \in Nat : i <= Cardinality(W) /\ Cardinality(First(W, i)) # i}
<1> SUFFICES ASSUME Bad # {} PROVE FALSE
  OBVIOUS
<1>1. PICK n \in Bad : \A m \in Bad : n <= m
  BY LeastNat
<1>2. CASE n = 0
  <2>1. First(W, 0) = {}
    <3>1. \A v \in W : Cardinality(Under(W, v)) \in Nat
      <4>1. \A v \in W : Under(W, v) \subseteq W
        BY DEF Under
      <4> QED
        BY <4>1, FS_Subset, FS_CardinalityType
    <3>2. \A v \in W : ~(Cardinality(Under(W, v)) < 0)
      BY <3>1
    <3> QED
      BY <3>2 DEF First
  <2> QED
    BY <1>1, <1>2, <2>1, FS_EmptySet
<1>3. CASE n # 0
  <2>1. n - 1 \in Nat /\ n - 1 < n /\ n \in Nat /\ Cardinality(W) \in Nat
    BY <1>1, <1>3, FS_CardinalityType
  <2>2. Cardinality(First(W, n - 1)) = n - 1 /\ n - 1 < Cardinality(W)
    BY <1>1, <2>1
  <2>3. Cardinality(First(W, (n - 1) + 1)) = (n - 1) + 1
    BY <2>1, <2>2, FirstStep
  <2> QED
    BY <1>1, <2>1, <2>3
<1> QED
  BY <1>2, <1>3
\* Division by the size of a page.
LEMMA PageOfBounds ==
  ASSUME NEW a \in Int
  PROVE  PageOf(a) \in Int /\ PageOf(a) * PgUnit <= a /\ a < PageOf(a) * PgUnit + PgUnit
BY MemoryAssumption DEF PageOf, MemoryAssumption

LEMMA PageOfIs ==
  ASSUME NEW a \in Int, NEW q \in Int, q * PgUnit <= a, a < q * PgUnit + PgUnit
  PROVE  PageOf(a) = q
<1> DEFINE r == PageOf(a)
           u == PgUnit
<1>0. u \in Nat \ {0}
  BY MemoryAssumption DEF MemoryAssumption
<1>1. r \in Int /\ r * u <= a /\ a < r * u + u
  BY PageOfBounds
<1>2. q * u <= a /\ a < q * u + u
  OBVIOUS
<1> HIDE DEF r, u
<1>3. ASSUME r + 1 <= q PROVE FALSE
  <2>1. (r + 1) * u <= q * u
    BY <1>0, <1>1, <1>3
  <2> QED
    BY <1>0, <1>1, <1>2, <2>1
<1>4. ASSUME q + 1 <= r PROVE FALSE
  <2>1. (q + 1) * u <= r * u
    BY <1>0, <1>1, <1>4
  <2> QED
    BY <1>0, <1>1, <1>2, <2>1
<1> QED
  BY <1>1, <1>3, <1>4 DEF r

LEMMA PageOfMonotone ==
  ASSUME NEW a \in Int, NEW b \in Int, a <= b
  PROVE  PageOf(a) <= PageOf(b)
<1> DEFINE q == PageOf(a)
           r == PageOf(b)
           u == PgUnit
<1>0. u \in Nat \ {0}
  BY MemoryAssumption DEF MemoryAssumption
<1>1. q \in Int /\ r \in Int /\ q * u <= a /\ b < r * u + u
  BY PageOfBounds
<1> HIDE DEF q, r, u
<1> SUFFICES ASSUME r + 1 <= q PROVE FALSE
  BY <1>1 DEF q, r
<1>2. (r + 1) * u <= q * u
  BY <1>0, <1>1
<1> QED
  BY <1>0, <1>1, <1>2

LEMMA UserSize ==
  /\ PgUnit \in Nat \ {0} /\ UserPages \in Nat \ {0}
  /\ USER_SIZE \in Nat \ {0} /\ USER_SIZE >= PgUnit
  /\ PageOf(0) = 0 /\ PageOf(USER_SIZE) = UserPages /\ PageOf(USER_SIZE - 1) = UserPages - 1
  /\ \A q \in Int : PageOf(q * PgUnit) = q
<1>1. PgUnit \in Nat \ {0} /\ UserPages \in Nat \ {0}
  BY MemoryAssumption DEF MemoryAssumption
<1>2. UserPages * PgUnit \in Nat /\ UserPages * PgUnit >= PgUnit
  BY <1>1
<1>3. \A q \in Int : PageOf(q * PgUnit) = q
  <2> TAKE q \in Int
  <2>1. q * PgUnit \in Int /\ q * PgUnit <= q * PgUnit /\ q * PgUnit < q * PgUnit + PgUnit
    BY <1>1
  <2> QED
    BY <2>1, PageOfIs
<1>4. PageOf(UserPages * PgUnit - 1) = UserPages - 1
  <2>1. (UserPages - 1) * PgUnit = UserPages * PgUnit - PgUnit
    BY <1>1
  <2> QED
    BY <1>1, <1>2, <2>1, PageOfIs
<1>5. PageOf(0) = 0
  BY <1>1, PageOfIs
<1> QED
  BY <1>1, <1>2, <1>3, <1>4, <1>5 DEF USER_SIZE

LEMMA PageOfRange ==
  ASSUME NEW a \in Int
  PROVE  /\ a >= 0 => PageOf(a) >= 0
         /\ a < USER_SIZE => PageOf(a) <= UserPages - 1
         /\ a <= USER_SIZE => PageOf(a) <= UserPages
BY PageOfMonotone, UserSize

\* The pages brk asks for are those of the addresses below the break.
LEMMA PageOfBrk ==
  ASSUME NEW a \in Nat
  PROVE  PageOf(a + PgUnit - 1) - 1 = PageOf(a - 1)
<1> DEFINE q == PageOf(a - 1)
           u == PgUnit
<1>0. u \in Nat \ {0}
  BY UserSize
<1>1. q \in Int /\ q * u <= a - 1 /\ a - 1 < q * u + u
  BY PageOfBounds
<1>2. (q + 1) * u = q * u + u
  BY <1>0, <1>1
<1>3. a + u - 1 \in Int /\ (q + 1) * u <= a + u - 1 /\ a + u - 1 < (q + 1) * u + u
  BY <1>0, <1>1, <1>2
<1>4. PageOf(a + u - 1) = q + 1
  BY <1>1, <1>3, PageOfIs
<1> QED
  BY <1>1, <1>4

\* What newregion, pcalloc and growstk keep: a page leaves the free list for
\* the page table, or comes back, and none is lost or made.
Conserves(f, t, r) ==
  /\ r.free \in Nat /\ r.tab \in SUBSET Pages
  /\ r.free + Cardinality(r.tab) = f + Cardinality(t)

LEMMA PagesFinite ==
  ASSUME NEW T \in SUBSET Pages
  PROVE  IsFiniteSet(T) /\ Cardinality(T) \in Nat /\ T \subseteq Nat
<1>1. IsFiniteSet(Pages)
  BY UserSize, FS_Interval DEF Pages
<1>2. Pages \subseteq Nat
  BY UserSize DEF Pages
<1>3. IsFiniteSet(T)
  BY <1>1, FS_Subset
<1> QED
  BY <1>2, <1>3, FS_CardinalityType

LEMMA TakeSound ==
  ASSUME NEW s, s.free \in Nat, s.tab \in SUBSET Pages,
         NEW want \in SUBSET Pages, want \cap s.tab = {}
  PROVE  LET r == TakePages(s, want)
         IN  /\ Conserves(s.free, s.tab, r) /\ r.ok \in BOOLEAN
             /\ s.tab \subseteq r.tab
             /\ r.ok => want \subseteq r.tab
             /\ r.stray = 0
<1>0. /\ IsFiniteSet(want) /\ Cardinality(want) \in Nat /\ want \subseteq Nat
      /\ IsFiniteSet(s.tab) /\ Cardinality(s.tab) \in Nat
  BY PagesFinite
<1>1. ASSUME NEW W \in SUBSET want
      PROVE  /\ Cardinality(s.tab \cup W) = Cardinality(s.tab) + Cardinality(W)
             /\ Cardinality(W) \in Nat /\ s.tab \cup W \in SUBSET Pages
  <2>1. IsFiniteSet(W) /\ s.tab \cap W = {} /\ Cardinality(W) \in Nat
    BY PagesFinite
  <2>2. Cardinality(s.tab \cup W) = Cardinality(s.tab) + Cardinality(W) - Cardinality(s.tab \cap W)
    BY <1>0, <2>1, FS_Union
  <2>3. Cardinality(s.tab \cap W) = 0
    BY <2>1, FS_EmptySet
  <2>4. Cardinality(s.tab \cup W) = Cardinality(s.tab) + Cardinality(W)
    BY <1>0, <2>1, <2>2, <2>3, SMT
  <2>5. s.tab \cup W \in SUBSET Pages
    BY Zenon
  <2> QED
    BY <2>1, <2>4, <2>5, Zenon
<1>2. CASE Cardinality(want) <= s.free
  <2>1. TakePages(s, want) = [ok |-> TRUE, free |-> s.free - Cardinality(want),
                              tab |-> s.tab \cup want, stray |-> 0]
    BY <1>2 DEF TakePages
  <2>2. /\ Cardinality(s.tab \cup want) = Cardinality(s.tab) + Cardinality(want)
        /\ s.tab \cup want \in SUBSET Pages
    BY <1>1
  <2>3. s.free - Cardinality(want) \in Nat
    BY <1>0, <1>2
  <2> QED
    BY <1>0, <2>1, <2>2, <2>3 DEF Conserves
<1>3. CASE ~(Cardinality(want) <= s.free)
  <2> DEFINE some == First(want, s.free)
  <2>1. TakePages(s, want) = [ok |-> FALSE, free |-> 0, tab |-> s.tab \cup some, stray |-> 0]
    BY <1>3 DEF TakePages, First, Under
  <2>2. some \in SUBSET want
    BY DEF First
  <2>3. Cardinality(some) = s.free
    <3>1. s.free <= Cardinality(want)
      BY <1>0, <1>3
    <3> QED
      BY <1>0, <3>1, FirstCount
  <2> HIDE DEF some
  <2>4. /\ Cardinality(s.tab \cup some) = Cardinality(s.tab) + Cardinality(some)
        /\ s.tab \cup some \in SUBSET Pages
    BY <1>1, <2>2
  <2> QED
    BY <1>0, <2>1, <2>3, <2>4 DEF Conserves
<1> QED
  BY <1>2, <1>3

\* A region that ends at address 0, as long as nothing is written behind the
\* page table.
LEMMA WrapsSound ==
  ASSUME NEW s, s.free \in Nat, s.tab \in SUBSET Pages, NEW base \in Nat, base < USER_SIZE,
         NEW behind \in Nat
  PROVE  LET r == NewregionWraps(s, base, behind)
         IN  r.stray = 0 =>
               /\ Conserves(s.free, s.tab, r) /\ r.ok \in BOOLEAN /\ s.tab \subseteq r.tab
<1> DEFINE want == Missing(s.tab, PageOf(base), UserPages - 1)
           t == TakePages(s, want)
           n == IF behind <= t.free THEN behind ELSE t.free
<1>1. NewregionWraps(s, base, behind)
        = [ok |-> t.ok /\ behind <= t.free, free |-> t.free - n, tab |-> t.tab, stray |-> n]
  BY DEF NewregionWraps
<1>2. want \in SUBSET Pages /\ want \cap s.tab = {}
  <2>1. PageOf(base) \in Int /\ PageOf(base) >= 0
    BY PageOfRange, PageOfBounds
  <2> QED
    BY <2>1, UserSize DEF Missing, Pages
<1> HIDE DEF want
<1>3. Conserves(s.free, s.tab, t) /\ t.ok \in BOOLEAN /\ s.tab \subseteq t.tab
  BY <1>2, TakeSound
<1> HIDE DEF t
<1> QED
  BY <1>1, <1>3 DEF Conserves

LEMMA NewregionSound ==
  ASSUME NEW s, s.free \in Nat, s.tab \in SUBSET Pages, NEW base \in Nat, NEW end \in Nat,
         NEW behind \in Nat
  PROVE  LET r == Newregion(s, base, end, behind)
         IN  /\ end > 0 => r.stray = 0
             /\ r.stray = 0 =>
                  /\ Conserves(s.free, s.tab, r) /\ r.ok \in BOOLEAN
                  /\ s.tab \subseteq r.tab
                  /\ r.ok => PageOf(base) .. PageOf(end - 1) \subseteq r.tab
<1> DEFINE r == Newregion(s, base, end, behind)
<1>1. CASE base >= USER_SIZE \/ end >= USER_SIZE
  <2>1. r = [ok |-> FALSE, free |-> s.free, tab |-> s.tab, stray |-> 0]
    BY <1>1 DEF Newregion
  <2> QED
    BY <2>1 DEF Conserves
<1>2. CASE ~(base >= USER_SIZE \/ end >= USER_SIZE) /\ end = 0
  <2>1. r = NewregionWraps(s, base, behind) /\ base < USER_SIZE
    BY <1>2, UserSize DEF Newregion
  <2>2. r.stray = 0 =>
          /\ Conserves(s.free, s.tab, r) /\ r.ok \in BOOLEAN /\ s.tab \subseteq r.tab
    BY <2>1, WrapsSound
  <2>3. PageOf(base) .. PageOf(end - 1) = {}
    <3>1. PageOf(base) \in Int /\ PageOf(base) >= 0
      BY PageOfRange, PageOfBounds
    <3>2. PageOf(0 - 1) = -1
      BY UserSize, PageOfIs
    <3> QED
      BY <1>2, <3>1, <3>2
  <2> HIDE DEF r
  <2>4. r.stray = 0 =>
          /\ Conserves(s.free, s.tab, r) /\ r.ok \in BOOLEAN /\ s.tab \subseteq r.tab
          /\ r.ok => PageOf(base) .. PageOf(end - 1) \subseteq r.tab
    BY <2>2, <2>3
  <2> QED
    BY <1>2, <2>4 DEF r
<1>3. CASE ~(base >= USER_SIZE \/ end >= USER_SIZE) /\ end # 0
  <2> DEFINE want == Missing(s.tab, PageOf(base), LastPage(end))
  <2>1. r = TakePages(s, want)
    BY <1>3 DEF Newregion
  <2>2. PageOf(base) >= 0 /\ PageOf(end - 1) <= UserPages - 1
        /\ PageOf(base) \in Int /\ PageOf(end - 1) \in Int
    <3>1. end - 1 \in Int /\ end - 1 < USER_SIZE
      BY <1>3, UserSize
    <3> QED
      BY <3>1, PageOfRange, PageOfBounds
  <2>3. want \in SUBSET Pages /\ want \cap s.tab = {}
        /\ PageOf(base) .. PageOf(end - 1) \subseteq s.tab \cup want
    BY <2>2, UserSize DEF Missing, LastPage, Pages
  <2> HIDE DEF want
  <2> QED
    BY <2>1, <2>3, TakeSound
<1> QED
  BY <1>1, <1>2, <1>3

LEMMA PcallocSound ==
  ASSUME NEW s, s.free \in Nat, s.tab \in SUBSET Pages, NEW behind \in Nat,
         NEW m, m.base \in Nat, m.end \in Nat, m.brk \in Nat
  PROVE  LET r == Pcalloc(s, m, behind)
         IN  r.stray = 0 =>
             /\ Conserves(s.free, s.tab, r) /\ r.ok \in BOOLEAN
             /\ r.ok => /\ PageOf(m.base) .. PageOf(m.end - 1) \subseteq r.tab
                        /\ PageOf(0) .. PageOf(m.brk - 1) \subseteq r.tab
<1> DEFINE r1 == Newregion(s, m.base, m.end, behind)
           r2 == IF r1.ok THEN Newregion(r1, 0, m.brk, 0) ELSE r1
           p == Pcalloc(s, m, behind)
<1>1. r1.stray = 0 =>
        /\ Conserves(s.free, s.tab, r1) /\ r1.ok \in BOOLEAN
        /\ r1.ok => PageOf(m.base) .. PageOf(m.end - 1) \subseteq r1.tab
  BY NewregionSound
<1>2. Conserves(s.free, s.tab, r1) => r1.free \in Nat /\ r1.tab \in SUBSET Pages
      /\ r1.free + Cardinality(r1.tab) = s.free + Cardinality(s.tab)
  BY DEF Conserves
<1>3. /\ p.stray = r1.stray /\ p.ok = r2.ok
      /\ r2.ok => p.free = r2.free /\ p.tab = r2.tab
      /\ ~r2.ok => p.free = r2.free + Cardinality(r2.tab) /\ p.tab = {}
  BY DEF Pcalloc
<1> HIDE DEF r1, p
<1> SUFFICES ASSUME r1.stray = 0
             PROVE  /\ Conserves(s.free, s.tab, p) /\ p.ok \in BOOLEAN
                    /\ p.ok => /\ PageOf(m.base) .. PageOf(m.end - 1) \subseteq p.tab
                               /\ PageOf(0) .. PageOf(m.brk - 1) \subseteq p.tab
  BY <1>3 DEF p
<1>6. r1.stray = 0 /\ Cardinality({}) = 0 /\ {} \in SUBSET Pages
  BY FS_EmptySet
<1>4. CASE r1.ok
  <2> DEFINE n == Newregion(r1, 0, m.brk, 0)
  <2>1. n.stray = 0
    <3>1. m.brk = 0 => n = NewregionWraps(r1, 0, 0)
      BY UserSize DEF Newregion
    <3>2. NewregionWraps(r1, 0, 0).stray = 0
      <4> DEFINE t == TakePages(r1, Missing(r1.tab, PageOf(0), UserPages - 1))
      <4>1. NewregionWraps(r1, 0, 0).stray = IF 0 <= t.free THEN 0 ELSE t.free
        BY DEF NewregionWraps
      <4>2. t.free \in Nat
        <5>1. Missing(r1.tab, PageOf(0), UserPages - 1) \in SUBSET Pages
              /\ Missing(r1.tab, PageOf(0), UserPages - 1) \cap r1.tab = {}
          BY UserSize DEF Missing, Pages
        <5> QED
          BY <1>1, <1>2, <5>1, TakeSound DEF Conserves
      <4> HIDE DEF t
      <4> QED
        BY <4>1, <4>2
    <3>3. m.brk > 0 => n.stray = 0
      BY <1>1, <1>2, NewregionSound
    <3> HIDE DEF n
    <3> QED
      BY <3>1, <3>2, <3>3
  <2>2. /\ Conserves(r1.free, r1.tab, n) /\ n.ok \in BOOLEAN /\ r1.tab \subseteq n.tab
        /\ n.ok => PageOf(0) .. PageOf(m.brk - 1) \subseteq n.tab
    BY <1>1, <1>2, <2>1, NewregionSound
  <2>3. r2 = n
    BY <1>4
  <2> HIDE DEF n, r2
  <2>4. Conserves(s.free, s.tab, r2) /\ r2.ok \in BOOLEAN
        /\ (r2.ok => /\ PageOf(m.base) .. PageOf(m.end - 1) \subseteq r2.tab
                     /\ PageOf(0) .. PageOf(m.brk - 1) \subseteq r2.tab)
    BY <1>1, <1>2, <1>4, <2>2, <2>3 DEF Conserves
  <2>5. CASE r2.ok
    BY <1>3, <2>4, <2>5 DEF Conserves
  <2>6. CASE ~r2.ok
    <3>1. r2.free + Cardinality(r2.tab) \in Nat
      BY <2>4, PagesFinite DEF Conserves
    <3>2. p.ok = FALSE /\ p.tab = {} /\ p.free = r2.free + Cardinality(r2.tab)
      <4>1. p.ok = r2.ok /\ r2.ok \in BOOLEAN
        BY <1>3, <2>4
      <4> QED
        BY <1>3, <2>6, <4>1
    <3>3. r2.free + Cardinality(r2.tab) = s.free + Cardinality(s.tab)
      BY <2>4 DEF Conserves
    <3>4. Conserves(s.free, s.tab, p)
      BY ONLY <1>6, <3>1, <3>2, <3>3 DEF Conserves
    <3> QED
      BY <3>2, <3>4
  <2> QED
    BY <2>5, <2>6
<1>5. CASE ~r1.ok
  <2>1. r2 = r1
    BY <1>5
  <2>2. r1.free + Cardinality(r1.tab) \in Nat
    BY <1>1, <1>2, PagesFinite
  <2> QED
    BY ONLY <1>1, <1>2, <1>3, <1>5, <1>6, <2>1, <2>2, FS_EmptySet DEF Conserves
<1> QED
  BY <1>4, <1>5

\* The stack ends at the top of memory and is mapped down to astk, a whole page.
StackMapped(astk, pages) ==
  /\ astk \in Nat /\ astk <= USER_SIZE /\ astk = PageOf(astk) * PgUnit
  /\ astk < USER_SIZE => PageOf(astk) .. PageOf(USER_SIZE - 1) \subseteq pages

LEMMA GrowstkSound ==
  ASSUME NEW s, s.free \in Nat, s.tab \in SUBSET Pages, NEW a \in Nat, NEW m,
         m.astk \in Nat, m.astk <= USER_SIZE
  PROVE  LET r == Growstk(s, m, a)
         IN  /\ Conserves(s.free, s.tab, r) /\ s.tab \subseteq r.tab /\ r.astk \in Nat
             /\ StackMapped(m.astk, s.tab) => StackMapped(r.astk, r.tab)
<1>1. CASE a >= m.astk
  <2>1. Growstk(s, m, a) = [ok |-> TRUE, free |-> s.free, tab |-> s.tab, astk |-> m.astk]
    BY <1>1 DEF Growstk
  <2> QED
    BY <2>1 DEF Conserves
<1>2. CASE ~(a >= m.astk)
  <2> DEFINE want == Missing(s.tab, PageOf(a), PageOf(m.astk) - 1)
             r == TakePages(s, want)
             k == PageOf(a) * PgUnit
  <2>1. Growstk(s, m, a) = [ok |-> r.ok, free |-> r.free, tab |-> r.tab,
                            astk |-> IF r.ok THEN k ELSE m.astk]
    BY <1>2 DEF Growstk
  <2>2. /\ PageOf(a) \in Nat /\ PageOf(m.astk) \in Int
        /\ PageOf(m.astk) <= UserPages /\ k \in Nat /\ k <= a /\ a < USER_SIZE
        /\ PageOf(k) = PageOf(a)
    <3>1. PageOf(a) \in Nat /\ PageOf(m.astk) \in Int /\ PageOf(m.astk) <= UserPages
      BY PageOfRange, PageOfBounds
    <3>2. k \in Nat /\ PageOf(k) = PageOf(a)
      BY <3>1, UserSize
    <3>3. k <= a
      BY PageOfBounds
    <3>4. a < USER_SIZE
      BY <1>2, UserSize
    <3> QED
      BY <3>1, <3>2, <3>3, <3>4
  <2>3. want \in SUBSET Pages /\ want \cap s.tab = {}
        /\ PageOf(a) .. PageOf(m.astk) - 1 \subseteq s.tab \cup want
    BY <2>2, UserSize DEF Missing, Pages
  <2> HIDE DEF want
  <2>4. /\ Conserves(s.free, s.tab, r) /\ r.ok \in BOOLEAN /\ s.tab \subseteq r.tab
        /\ r.ok => want \subseteq r.tab
    BY <2>3, TakeSound
  <2> HIDE DEF r, k
  <2>5. ASSUME StackMapped(m.astk, s.tab), r.ok PROVE StackMapped(k, r.tab)
    <3>1. PageOf(a) .. UserPages - 1 \subseteq r.tab
      <4>1. CASE m.astk < USER_SIZE
        BY <4>1, <2>2, <2>3, <2>4, <2>5, UserSize DEF StackMapped
      <4>2. CASE m.astk = USER_SIZE
        BY <4>2, <2>2, <2>3, <2>4, <2>5, UserSize
      <4> QED
        BY <4>1, <4>2, UserSize
    <3>2. k = PageOf(k) * PgUnit
      BY <2>2 DEF k
    <3> QED
      BY <2>2, <3>1, <3>2, UserSize DEF StackMapped
  <2> QED
    BY <2>1, <2>2, <2>4, <2>5 DEF Conserves, StackMapped
<1> QED
  BY <1>1, <1>2
----------------------------------------------------------------------------
(* Memory: the steps.                                                       *)

MemRecords == [brk : Nat, stk : Int, astk : Nat, base : Nat, end : Nat]
Stack(x) == IF x # "free" THEN 1 ELSE 0
Table(x) == IF x \in {"live", "dying"} THEN 1 ELSE 0

\* What a process that may run can touch is mapped.
ProcBacked(m, pages) ==
  /\ m.brk > 0 => PageOf(0) .. PageOf(m.brk - 1) \subseteq pages
  /\ m.end > m.base => PageOf(m.base) .. PageOf(m.end - 1) \subseteq pages
  /\ StackMapped(m.astk, pages)

\* The inductive invariant: pages are counted, a slot without a program has no
\* page table, and what a live process can touch is mapped.
MemInv ==
  /\ MemTypeOK
  /\ PagesExact
  /\ \A p \in MemProcs : /\ memState[p] \in {"free", "zombie"} => ptab[p] = {}
                         /\ MemLive(p) => ProcBacked(mem[p], ptab[p])

LEMMA MappedFinite ==
  ASSUME MemTypeOK, NEW Q \in SUBSET MemProcs
  PROVE  /\ IsFiniteSet(UNION {{p} \X ptab[p] : p \in Q})
         /\ Cardinality(UNION {{p} \X ptab[p] : p \in Q}) \in Nat
<1> DEFINE all == MemProcs \X Pages
           M == UNION {{p} \X ptab[p] : p \in Q}
<1>1. IsFiniteSet(MemProcs) /\ IsFiniteSet(Pages)
  BY MemoryAssumption, UserSize, FS_Interval DEF MemoryAssumption, Pages
<1>2. IsFiniteSet(all)
  BY <1>1, FS_Product
<1>3. M \in SUBSET all
  <2> SUFFICES ASSUME NEW p \in Q, NEW e \in {p} \X ptab[p] PROVE e \in all
    BY Zenon
  <2>1. p \in MemProcs /\ ptab[p] \in SUBSET Pages
    BY DEF MemTypeOK
  <2> QED
    BY <2>1
<1> HIDE DEF all, M
<1>4. IsFiniteSet(M)
  BY <1>2, <1>3, FS_Subset
<1> QED
  BY <1>4, FS_CardinalityType DEF M

LEMMA MappedChange ==
  ASSUME MemTypeOK, NEW p \in MemProcs, NEW T \in SUBSET Pages,
         ptab' = [ptab EXCEPT ![p] = T]
  PROVE  /\ Cardinality(Mapped) \in Nat /\ Cardinality(Mapped') \in Nat
         /\ Cardinality(Mapped') = Cardinality(Mapped) - Cardinality(ptab[p]) + Cardinality(T)
<1> DEFINE Rest == UNION {{q} \X ptab[q] : q \in MemProcs \ {p}}
<1>1. /\ IsFiniteSet(Rest) /\ Cardinality(Rest) \in Nat
  <2>1. MemProcs \ {p} \in SUBSET MemProcs
    OBVIOUS
  <2> QED
    BY <2>1, MappedFinite
<1>2. ASSUME NEW U \in SUBSET Pages
      PROVE  /\ Cardinality(Rest \cup ({p} \X U)) = Cardinality(Rest) + Cardinality(U)
             /\ Cardinality(U) \in Nat
  <2>1. IsFiniteSet(U) /\ Cardinality(U) \in Nat
    BY PagesFinite
  <2>2. IsFiniteSet({p}) /\ Cardinality({p}) = 1
    BY FS_Singleton
  <2>3. IsFiniteSet({p} \X U) /\ Cardinality({p} \X U) = Cardinality({p}) * Cardinality(U)
    BY <2>1, <2>2, FS_Product
  <2>4. Cardinality({p} \X U) = Cardinality(U)
    BY <2>1, <2>2, <2>3
  <2>5. Rest \cap ({p} \X U) = {}
    OBVIOUS
  <2>6. Cardinality(Rest \cup ({p} \X U))
          = Cardinality(Rest) + Cardinality({p} \X U) - Cardinality(Rest \cap ({p} \X U))
    BY <1>1, <2>3, FS_Union
  <2>7. Cardinality(Rest \cap ({p} \X U)) = 0
    BY <2>5, FS_EmptySet
  <2> HIDE DEF Rest
  <2> QED
    BY <1>1, <2>1, <2>4, <2>6, <2>7
<1>3. Mapped = Rest \cup ({p} \X ptab[p])
  BY DEF Mapped
<1>4. Mapped' = Rest \cup ({p} \X T)
  <2>1. Mapped' = UNION {{q} \X ptab'[q] : q \in MemProcs}
    BY DEF Mapped
  <2>2. ptab'[p] = T /\ \A q \in MemProcs \ {p} : ptab'[q] = ptab[q]
    BY DEF MemTypeOK
  <2> QED
    BY <2>1, <2>2
<1>5. ptab[p] \in SUBSET Pages
  BY DEF MemTypeOK
<1> HIDE DEF Rest
<1>6. Cardinality(Mapped) = Cardinality(Rest) + Cardinality(ptab[p]) /\ Cardinality(ptab[p]) \in Nat
  BY <1>2, <1>3, <1>5
<1>7. Cardinality(Mapped') = Cardinality(Rest) + Cardinality(T) /\ Cardinality(T) \in Nat
  BY <1>2, <1>4
<1> QED
  BY <1>1, <1>6, <1>7

LEMMA CountChange ==
  ASSUME MemTypeOK, NEW K \in SUBSET MemStates, NEW p \in MemProcs, NEW x \in MemStates,
         memState' = [memState EXCEPT ![p] = x]
  PROVE  LET S == {q \in MemProcs : memState[q] \in K}
             T == {q \in MemProcs : memState'[q] \in K}
         IN  /\ Cardinality(S) \in Nat /\ Cardinality(T) \in Nat
             /\ Cardinality(T) = Cardinality(S) - (IF memState[p] \in K THEN 1 ELSE 0)
                                                + (IF x \in K THEN 1 ELSE 0)
<1> DEFINE S == {q \in MemProcs : memState[q] \in K}
           T == {q \in MemProcs : memState'[q] \in K}
           R == S \ {p}
<1>1. IsFiniteSet(MemProcs) /\ S \in SUBSET MemProcs
  BY MemoryAssumption DEF MemoryAssumption
<1>2. IsFiniteSet(S) /\ Cardinality(S) \in Nat
  <2> HIDE DEF S
  <2>1. IsFiniteSet(S)
    BY <1>1, FS_Subset
  <2> QED
    BY <2>1, FS_CardinalityType
<1>3. memState'[p] = x /\ \A q \in MemProcs \ {p} : memState'[q] = memState[q]
  BY DEF MemTypeOK
<1>4. (p \in S <=> memState[p] \in K) /\ T = IF x \in K THEN R \cup {p} ELSE R
  <2>1. \A q \in MemProcs : q \in T <=> IF q = p THEN x \in K ELSE q \in S
    BY <1>3
  <2> QED
    BY <2>1
<1> HIDE DEF S, T
<1>5. /\ IsFiniteSet(R) /\ Cardinality(R) \in Nat
      /\ Cardinality(R) = IF p \in S THEN Cardinality(S) - 1 ELSE Cardinality(S)
  <2>1. /\ IsFiniteSet(R)
        /\ Cardinality(R) = IF p \in S THEN Cardinality(S) - 1 ELSE Cardinality(S)
    BY <1>2, FS_RemoveElement
  <2> QED
    BY <2>1, FS_CardinalityType
<1>6. Cardinality(R \cup {p}) = Cardinality(R) + 1
  BY <1>5, FS_AddElement
<1> HIDE DEF R
<1>7. /\ Cardinality(T) \in Nat
      /\ Cardinality(T) = Cardinality(S) - (IF memState[p] \in K THEN 1 ELSE 0)
                                         + (IF x \in K THEN 1 ELSE 0)
  BY <1>2, <1>4, <1>5, <1>6
<1> QED
  BY <1>2, <1>7, Zenon DEF S, T

LEMMA StacksChange ==
  ASSUME MemTypeOK, NEW p \in MemProcs, NEW x \in MemStates,
         memState' = [memState EXCEPT ![p] = x]
  PROVE  /\ {KStacks, KStacks', KTables, KTables'} \subseteq Nat
         /\ KStacks' = KStacks - Stack(memState[p]) + Stack(x)
         /\ KTables' = KTables - Table(memState[p]) + Table(x)
<1> DEFINE notfree == MemStates \ {"free"}
           running == {"live", "dying"}
           F  == {q \in MemProcs : memState[q] # "free"}
           F1 == {q \in MemProcs : memState'[q] # "free"}
<1>1. notfree \in SUBSET MemStates /\ running \in SUBSET MemStates
  BY DEF MemStates
<1>2. \A q \in MemProcs : memState[q] \in MemStates /\ memState'[q] \in MemStates
  BY DEF MemTypeOK
<1>3. /\ F = {q \in MemProcs : memState[q] \in notfree}
      /\ F1 = {q \in MemProcs : memState'[q] \in notfree}
      /\ \A y \in MemStates : y \in notfree <=> y # "free"
  BY <1>2
<1>4. KStacks = Cardinality(F) /\ KStacks' = Cardinality(F1)
  BY DEF KStacks
<1>5. /\ KTables = Cardinality({q \in MemProcs : memState[q] \in running})
      /\ KTables' = Cardinality({q \in MemProcs : memState'[q] \in running})
  BY DEF KTables
<1>6. /\ Cardinality(F) \in Nat /\ Cardinality(F1) \in Nat
      /\ Cardinality(F1) = Cardinality(F) - (IF memState[p] \in notfree THEN 1 ELSE 0)
                                          + (IF x \in notfree THEN 1 ELSE 0)
  <2> HIDE DEF notfree
  <2> QED
    BY <1>1, <1>3, CountChange
<1>7. /\ KTables \in Nat /\ KTables' \in Nat
      /\ KTables' = KTables - (IF memState[p] \in running THEN 1 ELSE 0)
                            + (IF x \in running THEN 1 ELSE 0)
  <2> HIDE DEF running
  <2> QED
    BY <1>1, <1>5, CountChange
<1> HIDE DEF F, F1
<1>8. KStacks' = KStacks - Stack(memState[p]) + Stack(x) /\ KStacks \in Nat /\ KStacks' \in Nat
  BY <1>2, <1>3, <1>4, <1>6 DEF Stack
<1> QED
  BY <1>7, <1>8 DEF Table

\* Every step is one of this form: it changes one process, and takes as many
\* pages from the free list as it puts elsewhere.
LEMMA StepMemInv ==
  ASSUME MemInv, NEW p \in MemProcs, NEW T \in SUBSET Pages, NEW m \in MemRecords,
         NEW x \in MemStates, {pg_fcount', memHeld', memLost'} \subseteq Nat,
         ptab' = [ptab EXCEPT ![p] = T], mem' = [mem EXCEPT ![p] = m],
         memState' = [memState EXCEPT ![p] = x],
         pg_fcount' + memHeld' + memLost' + Stack(x) + Table(x) + Cardinality(T)
           = pg_fcount + memHeld + memLost + Stack(memState[p]) + Table(memState[p])
               + Cardinality(ptab[p]),
         x \in {"free", "zombie"} => T = {},
         x = "live" => ProcBacked(m, T)
  PROVE  MemInv'
<1>1. MemTypeOK'
  BY DEF MemInv, MemTypeOK, MemRecords
<1>2. PagesExact'
  <2>1. /\ Cardinality(Mapped) \in Nat /\ Cardinality(Mapped') \in Nat
        /\ Cardinality(Mapped') = Cardinality(Mapped) - Cardinality(ptab[p]) + Cardinality(T)
    BY MappedChange DEF MemInv
  <2>2. /\ KStacks \in Nat /\ KStacks' \in Nat /\ KTables \in Nat /\ KTables' \in Nat
        /\ KStacks' = KStacks - Stack(memState[p]) + Stack(x)
        /\ KTables' = KTables - Table(memState[p]) + Table(x)
    BY StacksChange DEF MemInv
  <2>3. Cardinality(ptab[p]) \in Nat /\ Cardinality(T) \in Nat
    BY PagesFinite DEF MemInv, MemTypeOK
  <2>4. Stack(x) \in Nat /\ Table(x) \in Nat /\ Stack(memState[p]) \in Nat
        /\ Table(memState[p]) \in Nat
    BY DEF Stack, Table
  <2>5. /\ pg_fcount \in Nat /\ memHeld \in Nat /\ memLost \in Nat /\ NPages \in Nat
        /\ pg_fcount' \in Nat /\ memHeld' \in Nat /\ memLost' \in Nat
        /\ pg_fcount + memHeld + memLost + KStacks + KTables + Cardinality(Mapped) = NPages
    BY MemoryAssumption DEF MemInv, MemTypeOK, PagesExact, MemoryAssumption
  <2>6. pg_fcount' + memHeld' + memLost' + KStacks' + KTables' + Cardinality(Mapped') = NPages
    BY <2>1, <2>2, <2>3, <2>4, <2>5
  <2> QED
    BY <2>6 DEF PagesExact
<1>3. \A q \in MemProcs : /\ memState'[q] \in {"free", "zombie"} => ptab'[q] = {}
                          /\ memState'[q] = "live" => ProcBacked(mem'[q], ptab'[q])
  <2> TAKE q \in MemProcs
  <2>1. CASE q = p
    BY <2>1 DEF MemInv, MemTypeOK, MemRecords
  <2>2. CASE q # p
    <3>1. memState'[q] = memState[q] /\ mem'[q] = mem[q] /\ ptab'[q] = ptab[q]
      BY <2>2 DEF MemInv, MemTypeOK
    <3> QED
      BY <3>1 DEF MemInv, MemLive
  <2> QED
    BY <2>1, <2>2
<1> QED
  BY <1>1, <1>2, <1>3 DEF MemInv, MemLive
\* What the proofs of the actions use of the invariant.
LEMMA MemFacts ==
  ASSUME MemInv, NEW p \in MemProcs
  PROVE  /\ pg_fcount \in Nat /\ memHeld \in Nat /\ memLost \in Nat
         /\ ptab[p] \in SUBSET Pages /\ mem[p] \in MemRecords /\ memState[p] \in MemStates
         /\ ptab = [ptab EXCEPT ![p] = ptab[p]] /\ mem = [mem EXCEPT ![p] = mem[p]]
         /\ memState = [memState EXCEPT ![p] = memState[p]]
         /\ Cardinality(ptab[p]) \in Nat
         /\ memState[p] \in {"free", "zombie"} => ptab[p] = {}
         /\ memState[p] = "live" => ProcBacked(mem[p], ptab[p])
<1>1. ptab[p] \in SUBSET Pages
  BY DEF MemInv, MemTypeOK
<1>2. Cardinality(ptab[p]) \in Nat
  BY <1>1, PagesFinite
<1>3. /\ pg_fcount \in Nat /\ memHeld \in Nat /\ memLost \in Nat
      /\ mem[p] \in MemRecords /\ memState[p] \in MemStates
      /\ ptab = [ptab EXCEPT ![p] = ptab[p]] /\ mem = [mem EXCEPT ![p] = mem[p]]
      /\ memState = [memState EXCEPT ![p] = memState[p]]
  BY DEF MemInv, MemTypeOK, MemRecords
<1> QED
  BY <1>1, <1>2, <1>3 DEF MemInv, MemLive

LEMMA StutterMemInv ==
  ASSUME MemInv, UNCHANGED <<pg_fcount, ptab, mem, memState, memHeld, memLost>>
  PROVE  MemInv'
<1>1. Mapped' = Mapped /\ KStacks' = KStacks /\ KTables' = KTables
  BY DEF Mapped, KStacks, KTables
<1>2. MemTypeOK' /\ PagesExact'
  BY <1>1 DEF MemInv, MemTypeOK, PagesExact
<1> QED
  BY <1>2 DEF MemInv, MemLive

LEMMA ForkMemInv ==
  ASSUME MemInv, NEW p \in MemProcs, NEW q \in MemProcs, MemFork(p, q)
  PROVE  MemInv'
<1> DEFINE n == Cardinality(ptab[p])
           copied == IF pg_fcount - 2 < n THEN pg_fcount - 2 ELSE n
<1>1. /\ memState[p] = "live" /\ memState[q] = "free" /\ memHeld' = memHeld /\ memLost' = memLost
  BY DEF MemFork, MemLive
<1>2. CASE /\ pg_fcount >= n + 2 /\ pg_fcount' = pg_fcount - (n + 2)
           /\ ptab' = [ptab EXCEPT ![q] = ptab[p]] /\ mem' = [mem EXCEPT ![q] = mem[p]]
           /\ memState' = [memState EXCEPT ![q] = "live"]
  <2>1. pg_fcount - (n + 2) \in Nat
    BY <1>2, MemFacts
  <2>2. ptab[q] = {} /\ Cardinality(ptab[q]) = 0
    BY <1>1, MemFacts, FS_EmptySet
  <2>3. Stack("live") = 1 /\ Table("live") = 1 /\ Stack("free") = 0 /\ Table("free") = 0
        /\ "live" \in MemStates
    BY DEF Stack, Table, MemStates
  <2>4. /\ ptab[p] \in SUBSET Pages /\ mem[p] \in MemRecords /\ ProcBacked(mem[p], ptab[p])
        /\ n \in Nat /\ pg_fcount \in Nat /\ memHeld \in Nat /\ memLost \in Nat
    BY <1>1, MemFacts
  <2>5. pg_fcount' + memHeld' + memLost' + Stack("live") + Table("live") + Cardinality(ptab[p])
          = pg_fcount + memHeld + memLost + Stack(memState[q]) + Table(memState[q])
              + Cardinality(ptab[q])
    BY <1>1, <1>2, <2>2, <2>3, <2>4
  <2>6. pg_fcount' \in Nat /\ memHeld' \in Nat /\ memLost' \in Nat
    BY <1>1, <1>2, <2>1, <2>4
  <2>7. /\ ptab' = [ptab EXCEPT ![q] = ptab[p]] /\ mem' = [mem EXCEPT ![q] = mem[p]]
        /\ memState' = [memState EXCEPT ![q] = "live"]
    BY <1>2
  <2> HIDE DEF n, copied
  <2> QED
    BY <2>3, <2>4, <2>5, <2>6, <2>7, StepMemInv
<1>3. CASE /\ pg_fcount < n + 2
           /\ pg_fcount' = IF pg_fcount < 2 THEN pg_fcount ELSE pg_fcount - copied + PccopyBack(copied)
           /\ UNCHANGED <<ptab, mem, memState>>
  <2>1. pg_fcount' = pg_fcount
    BY <1>3, MemFacts DEF PccopyBack
  <2>2. UNCHANGED <<pg_fcount, ptab, mem, memState, memHeld, memLost>>
    BY <1>1, <1>3, <2>1
  <2> QED
    BY <2>2, StutterMemInv
<1> QED
  BY <1>2, <1>3 DEF MemFork

LEMMA ExitMemInv ==
  ASSUME MemInv, NEW p \in MemProcs, MemExit(p) \/ MemReap(p)
  PROVE  MemInv'
<1>0. /\ NoMem \in MemRecords /\ {} \in SUBSET Pages /\ Cardinality({}) = 0
      /\ "zombie" \in MemStates /\ "free" \in MemStates
      /\ Stack("zombie") = 1 /\ Table("zombie") = 0 /\ Stack("free") = 0 /\ Table("free") = 0
      /\ Stack("live") = 1 /\ Table("live") = 1 /\ Stack("dying") = 1 /\ Table("dying") = 1
  BY FS_EmptySet DEF NoMem, MemRecords, MemStates, Stack, Table
<1>1. CASE MemExit(p)
  <2> DEFINE f == pg_fcount + Cardinality(ptab[p]) + 1
  <2>1. /\ ptab' = [ptab EXCEPT ![p] = {}] /\ mem' = [mem EXCEPT ![p] = NoMem]
        /\ memState' = [memState EXCEPT ![p] = "zombie"]
        /\ pg_fcount' = f /\ memHeld' = memHeld /\ memLost' = memLost
        /\ memState[p] \in {"live", "dying"}
    BY <1>1 DEF MemExit
  <2>2. f \in Nat /\ memHeld \in Nat /\ memLost \in Nat /\ pg_fcount \in Nat
        /\ Cardinality(ptab[p]) \in Nat
    BY MemFacts
  <2>3. pg_fcount' + memHeld' + memLost' + Stack("zombie") + Table("zombie") + Cardinality({})
          = pg_fcount + memHeld + memLost + Stack(memState[p]) + Table(memState[p])
              + Cardinality(ptab[p])
    BY <1>0, <2>1, <2>2
  <2> HIDE DEF f
  <2> QED
    BY <1>0, <2>1, <2>2, <2>3, StepMemInv
<1>2. CASE MemReap(p)
  <2> DEFINE f == pg_fcount + 1
  <2>1. /\ ptab' = [ptab EXCEPT ![p] = ptab[p]] /\ mem' = [mem EXCEPT ![p] = mem[p]]
        /\ memState' = [memState EXCEPT ![p] = "free"]
        /\ pg_fcount' = f /\ memHeld' = memHeld /\ memLost' = memLost
        /\ memState[p] = "zombie" /\ ptab[p] = {}
    BY <1>2, MemFacts DEF MemReap
  <2>2. f \in Nat /\ memHeld \in Nat /\ memLost \in Nat /\ pg_fcount \in Nat
        /\ Cardinality(ptab[p]) \in Nat /\ ptab[p] \in SUBSET Pages /\ mem[p] \in MemRecords
    BY MemFacts
  <2>3. pg_fcount' + memHeld' + memLost' + Stack("free") + Table("free") + Cardinality(ptab[p])
          = pg_fcount + memHeld + memLost + Stack(memState[p]) + Table(memState[p])
              + Cardinality(ptab[p])
    BY <1>0, <2>1, <2>2
  <2> HIDE DEF f
  <2> QED
    BY <1>0, <2>1, <2>2, <2>3, StepMemInv
<1> QED
  BY <1>1, <1>2

\* A call of a live process that changes its page table, its addresses or the
\* pages that are lost or held.
LEMMA LiveMemInv ==
  ASSUME MemInv, NEW p \in MemProcs, memState[p] = "live",
         NEW T \in SUBSET Pages, NEW m \in MemRecords,
         NEW x \in {"live", "dying"},
         ptab' = [ptab EXCEPT ![p] = T], mem' = [mem EXCEPT ![p] = m],
         memState' = [memState EXCEPT ![p] = x],
         pg_fcount' \in Nat, memHeld' = memHeld, memLost' \in Nat,
         pg_fcount' + memLost' + Cardinality(T) = pg_fcount + memLost + Cardinality(ptab[p]),
         x = "live" => ProcBacked(m, T)
  PROVE  MemInv'
<1>1. Stack("live") = 1 /\ Table("live") = 1 /\ Stack("dying") = 1 /\ Table("dying") = 1
      /\ x \in MemStates /\ Stack(x) = 1 /\ Table(x) = 1
  BY DEF Stack, Table, MemStates
<1>2. memHeld \in Nat /\ memLost \in Nat /\ pg_fcount \in Nat /\ Cardinality(ptab[p]) \in Nat
      /\ Cardinality(T) \in Nat
  BY MemFacts, PagesFinite
<1>3. pg_fcount' + memHeld' + memLost' + Stack(x) + Table(x) + Cardinality(T)
        = pg_fcount + memHeld + memLost + Stack(memState[p]) + Table(memState[p])
            + Cardinality(ptab[p])
  BY <1>1, <1>2
<1>4. x \in {"free", "zombie"} => T = {}
  OBVIOUS
<1> QED
  BY <1>1, <1>2, <1>3, <1>4, StepMemInv

\* What is mapped stays mapped when pages are added.
LEMMA BackedGrows ==
  ASSUME NEW m, NEW T, NEW U, T \subseteq U, ProcBacked(m, T)
  PROVE  ProcBacked(m, U)
BY DEF ProcBacked, StackMapped

LEMMA FailsMemInv ==
  ASSUME MemInv, NEW p \in MemProcs, NEW script \in BOOLEAN, ExecFails(p, script)
  PROVE  MemInv'
<1>1. /\ memState[p] = "live" /\ memHeld' = memHeld
      /\ UNCHANGED <<ptab, mem, memState>>
      /\ \/ pg_fcount' = pg_fcount /\ memLost' = memLost
         \/ pg_fcount > 3 /\ pg_fcount' = pg_fcount - 1 /\ memLost' = memLost + 1
  BY DEF ExecFails, MemLive
<1>2. /\ memLost \in Nat /\ pg_fcount \in Nat /\ Cardinality(ptab[p]) \in Nat
      /\ ptab[p] \in SUBSET Pages /\ mem[p] \in MemRecords /\ ProcBacked(mem[p], ptab[p])
      /\ ptab' = [ptab EXCEPT ![p] = ptab[p]] /\ mem' = [mem EXCEPT ![p] = mem[p]]
      /\ memState' = [memState EXCEPT ![p] = memState[p]]
  BY <1>1, MemFacts
<1>3. /\ pg_fcount' \in Nat /\ memLost' \in Nat
      /\ pg_fcount' + memLost' + Cardinality(ptab[p])
           = pg_fcount + memLost + Cardinality(ptab[p])
  BY <1>1, <1>2
<1>4. memState' = [memState EXCEPT ![p] = "live"]
  BY <1>1, <1>2
<1> QED
  BY <1>1, <1>2, <1>3, <1>4, LiveMemInv

LEMMA BrkMemInv ==
  ASSUME MemInv, NEW p \in MemProcs, NEW a \in Addr, Brk(p, a)
  PROVE  MemInv'
<1> DEFINE want == Missing(ptab[p], 0, PageOf(a + PgUnit - 1) - 1)
           r == TakePages(Here(p), want)
           m == [mem[p] EXCEPT !.brk = IF r.ok THEN a ELSE mem[p].brk]
<1>1. /\ memState[p] = "live" /\ memHeld' = memHeld /\ memLost' = memLost
      /\ memState' = memState
      /\ pg_fcount' = r.free /\ ptab' = [ptab EXCEPT ![p] = r.tab]
      /\ mem' = [mem EXCEPT ![p] = m]
  BY DEF Brk, MemLive, Becomes
<1>2. a \in Nat /\ a <= USER_SIZE
  BY UserSize DEF Addr
<1>3. PageOf(a - 1) \in Int /\ PageOf(a - 1) <= UserPages - 1
      /\ PageOf(a + PgUnit - 1) - 1 = PageOf(a - 1)
    <2>1. a - 1 \in Int /\ a - 1 < USER_SIZE
    BY <1>2, UserSize
  <2> QED
    BY <2>1, <1>2, PageOfRange, PageOfBrk, PageOfBounds
<1>4. /\ Here(p).free = pg_fcount /\ Here(p).tab = ptab[p]
      /\ pg_fcount \in Nat /\ memLost \in Nat /\ ptab[p] \in SUBSET Pages /\ mem[p] \in MemRecords
      /\ ProcBacked(mem[p], ptab[p])
  BY <1>1, MemFacts DEF Here
<1>5. /\ want \in SUBSET Pages /\ want \cap ptab[p] = {}
      /\ 0 .. PageOf(a - 1) \subseteq ptab[p] \cup want
  BY <1>3, UserSize DEF Missing, Pages
<1> HIDE DEF want
<1>6. /\ Conserves(pg_fcount, ptab[p], r) /\ r.ok \in BOOLEAN /\ ptab[p] \subseteq r.tab
      /\ r.ok => want \subseteq r.tab
  BY <1>4, <1>5, TakeSound
<1> HIDE DEF r
<1>7. /\ m \in MemRecords /\ m.brk = (IF r.ok THEN a ELSE mem[p].brk)
      /\ m.base = mem[p].base /\ m.end = mem[p].end /\ m.astk = mem[p].astk
  BY <1>2, <1>4 DEF MemRecords
<1> HIDE DEF m
<1>8. ProcBacked(m, r.tab)
  <2>1. ProcBacked(mem[p], r.tab)
    BY <1>4, <1>6, BackedGrows
  <2>2. r.ok => PageOf(0) .. PageOf(a - 1) \subseteq r.tab
    BY <1>5, <1>6, UserSize
  <2> QED
    BY <1>7, <2>1, <2>2 DEF ProcBacked
<1>9. memState' = [memState EXCEPT ![p] = "live"]
  BY <1>1, MemFacts
<1>10. pg_fcount' + memLost' + Cardinality(r.tab) = pg_fcount + memLost + Cardinality(ptab[p])
       /\ r.free \in Nat /\ r.tab \in SUBSET Pages
  <2>1. Cardinality(r.tab) \in Nat /\ Cardinality(ptab[p]) \in Nat
    BY <1>6, <1>4, PagesFinite DEF Conserves
  <2> QED
    BY <2>1, <1>1, <1>4, <1>6 DEF Conserves
<1>11. pg_fcount' \in Nat /\ memLost' \in Nat
  BY <1>1, <1>4, <1>10
<1> QED
  BY <1>1, <1>7, <1>8, <1>9, <1>10, <1>11, LiveMemInv

LEMMA NewregionMemInv ==
  ASSUME MemInv, NEW p \in MemProcs, NEW a \in Addr, NEW b \in Addr, NEW behind \in Nat,
         SysNewregion(p, a, b, behind), memStray' = 0
  PROVE  MemInv'
<1> DEFINE r == Newregion(Here(p), a, b, behind)
<1>1. /\ memState[p] = "live" /\ memHeld' = memHeld /\ memLost' = memLost
      /\ memState' = memState /\ mem' = mem
      /\ pg_fcount' = r.free /\ ptab' = [ptab EXCEPT ![p] = r.tab] /\ r.stray = 0
  BY DEF SysNewregion, MemLive, Becomes
<1>2. a \in Nat /\ b \in Nat
  BY UserSize DEF Addr
<1>3. /\ Here(p).free = pg_fcount /\ Here(p).tab = ptab[p]
      /\ pg_fcount \in Nat /\ memLost \in Nat /\ ptab[p] \in SUBSET Pages /\ mem[p] \in MemRecords
      /\ ProcBacked(mem[p], ptab[p])
  BY <1>1, MemFacts DEF Here
<1>4. Conserves(pg_fcount, ptab[p], r) /\ ptab[p] \subseteq r.tab
  BY <1>1, <1>2, <1>3, NewregionSound
<1> HIDE DEF r
<1>5. ProcBacked(mem[p], r.tab)
  BY <1>3, <1>4, BackedGrows
<1>6. memState' = [memState EXCEPT ![p] = "live"] /\ mem' = [mem EXCEPT ![p] = mem[p]]
  BY <1>1, MemFacts
<1>7. /\ pg_fcount' \in Nat /\ memLost' \in Nat /\ r.tab \in SUBSET Pages
      /\ pg_fcount' + memLost' + Cardinality(r.tab) = pg_fcount + memLost + Cardinality(ptab[p])
  <2>1. Cardinality(r.tab) \in Nat /\ Cardinality(ptab[p]) \in Nat
    BY <1>3, <1>4, PagesFinite DEF Conserves
  <2> QED
    BY <2>1, <1>1, <1>3, <1>4 DEF Conserves
<1> QED
  BY <1>1, <1>3, <1>5, <1>6, <1>7, LiveMemInv

LEMMA UfaultMemInv ==
  ASSUME MemInv, NEW p \in MemProcs, NEW v \in Pages, Ufault(p, v)
  PROVE  MemInv'
<1> DEFINE T == ptab[p] \cup {v}
<1>1. /\ memState[p] = "live" /\ memHeld' = memHeld /\ memLost' = memLost
      /\ memState' = memState /\ mem' = mem /\ v \notin ptab[p]
      /\ pg_fcount > 0 /\ pg_fcount' = pg_fcount - 1 /\ ptab' = [ptab EXCEPT ![p] = T]
  BY DEF Ufault, MemLive
<1>2. /\ pg_fcount \in Nat /\ memLost \in Nat /\ ptab[p] \in SUBSET Pages /\ mem[p] \in MemRecords
      /\ ProcBacked(mem[p], ptab[p])
  BY <1>1, MemFacts
<1>3. T \in SUBSET Pages /\ Cardinality(T) = Cardinality(ptab[p]) + 1 /\ Cardinality(ptab[p]) \in Nat
  <2>1. IsFiniteSet(ptab[p]) /\ Cardinality(ptab[p]) \in Nat
    BY <1>2, PagesFinite
  <2>2. Cardinality(T) = Cardinality(ptab[p]) + 1
    BY <1>1, <2>1, FS_AddElement
  <2> QED
    BY <1>2, <2>1, <2>2
<1> HIDE DEF T
<1>4. ProcBacked(mem[p], T)
  BY <1>2, BackedGrows DEF T
<1>5. memState' = [memState EXCEPT ![p] = "live"] /\ mem' = [mem EXCEPT ![p] = mem[p]]
  BY <1>1, MemFacts
<1>6. /\ pg_fcount' \in Nat /\ memLost' \in Nat
      /\ pg_fcount' + memLost' + Cardinality(T) = pg_fcount + memLost + Cardinality(ptab[p])
  BY <1>1, <1>2, <1>3
<1> QED
  BY <1>1, <1>2, <1>3, <1>4, <1>5, <1>6, LiveMemInv

LEMMA UrchkMemInv ==
  ASSUME MemInv, NEW p \in MemProcs, NEW a \in Addr, Urchk(p, a)
  PROVE  MemInv'
<1> DEFINE g == Growstk(Here(p), mem[p], a)
           m == [mem[p] EXCEPT !.astk = g.astk]
<1>1. /\ memState[p] = "live" /\ memHeld' = memHeld /\ memLost' = memLost
      /\ memState' = memState
      /\ pg_fcount' = g.free /\ ptab' = [ptab EXCEPT ![p] = g.tab]
      /\ mem' = [mem EXCEPT ![p] = m]
  BY DEF Urchk, MemLive, Becomes
<1>2. a \in Nat
  BY UserSize DEF Addr
<1>3. /\ Here(p).free = pg_fcount /\ Here(p).tab = ptab[p]
      /\ pg_fcount \in Nat /\ memLost \in Nat /\ ptab[p] \in SUBSET Pages /\ mem[p] \in MemRecords
      /\ ProcBacked(mem[p], ptab[p])
  BY <1>1, MemFacts DEF Here
<1>4. mem[p].astk \in Nat /\ mem[p].astk <= USER_SIZE /\ StackMapped(mem[p].astk, ptab[p])
  BY <1>3 DEF ProcBacked, StackMapped
<1>5. /\ Conserves(pg_fcount, ptab[p], g) /\ ptab[p] \subseteq g.tab /\ g.astk \in Nat
      /\ StackMapped(g.astk, g.tab)
  BY <1>2, <1>3, <1>4, GrowstkSound
<1> HIDE DEF g
<1>6. /\ m \in MemRecords /\ m.brk = mem[p].brk /\ m.base = mem[p].base /\ m.end = mem[p].end
      /\ m.astk = g.astk
  BY <1>3, <1>5 DEF MemRecords
<1> HIDE DEF m
<1>7. ProcBacked(m, g.tab)
  BY <1>3, <1>5, <1>6 DEF ProcBacked
<1>8. memState' = [memState EXCEPT ![p] = "live"]
  BY <1>1, MemFacts
<1>9. /\ pg_fcount' \in Nat /\ memLost' \in Nat /\ g.tab \in SUBSET Pages
      /\ pg_fcount' + memLost' + Cardinality(g.tab) = pg_fcount + memLost + Cardinality(ptab[p])
  <2>1. Cardinality(g.tab) \in Nat /\ Cardinality(ptab[p]) \in Nat
    BY <1>3, <1>5, PagesFinite DEF Conserves
  <2> QED
    BY <2>1, <1>1, <1>3, <1>5 DEF Conserves
<1> QED
  BY <1>1, <1>6, <1>7, <1>8, <1>9, LiveMemInv

LEMMA KernelMemInv ==
  ASSUME MemInv, NEW n \in {-1, 1}, KernelPage(n)
  PROVE  MemInv'
<1> DEFINE p == MemInit
<1>1. /\ p \in MemProcs /\ memHeld + n >= 0 /\ pg_fcount >= n
      /\ memHeld' = memHeld + n /\ pg_fcount' = pg_fcount - n
      /\ UNCHANGED <<ptab, mem, memState, memLost>>
  BY MemoryAssumption DEF KernelPage, MemoryAssumption
<1> HIDE DEF p
<1>2. /\ pg_fcount \in Nat /\ memHeld \in Nat /\ memLost \in Nat
      /\ ptab[p] \in SUBSET Pages /\ mem[p] \in MemRecords /\ memState[p] \in MemStates
      /\ Cardinality(ptab[p]) \in Nat
      /\ memState[p] \in {"free", "zombie"} => ptab[p] = {}
      /\ memState[p] = "live" => ProcBacked(mem[p], ptab[p])
  BY <1>1, MemFacts
<1>3. /\ ptab' = [ptab EXCEPT ![p] = ptab[p]] /\ mem' = [mem EXCEPT ![p] = mem[p]]
      /\ memState' = [memState EXCEPT ![p] = memState[p]]
  BY <1>1, MemFacts
<1>4. {pg_fcount', memHeld', memLost'} \subseteq Nat
  BY <1>1, <1>2
<1>5. Stack(memState[p]) \in Nat /\ Table(memState[p]) \in Nat
  BY DEF Stack, Table
<1>6. pg_fcount' + memHeld' + memLost' + Stack(memState[p]) + Table(memState[p]) + Cardinality(ptab[p])
        = pg_fcount + memHeld + memLost + Stack(memState[p]) + Table(memState[p])
            + Cardinality(ptab[p])
  BY <1>1, <1>2, <1>5
<1> DEFINE T == ptab[p]
           x == memState[p]
<1>7. /\ T \in SUBSET Pages /\ x \in MemStates /\ ptab' = [ptab EXCEPT ![p] = T]
      /\ memState' = [memState EXCEPT ![p] = x]
      /\ x \in {"free", "zombie"} => T = {}
      /\ x = "live" => ProcBacked(mem[p], T)
      /\ pg_fcount' + memHeld' + memLost' + Stack(x) + Table(x) + Cardinality(T)
           = pg_fcount + memHeld + memLost + Stack(memState[p]) + Table(memState[p])
               + Cardinality(ptab[p])
  BY <1>2, <1>3, <1>6
<1>8. p \in MemProcs /\ mem[p] \in MemRecords /\ mem' = [mem EXCEPT ![p] = mem[p]]
  BY <1>1, <1>2, <1>3
<1> HIDE DEF T, x
<1> QED
  BY <1>4, <1>7, <1>8, StepMemInv

LEMMA ExecMemInv ==
  ASSUME MemInv, NEW p \in MemProcs, NEW script \in BOOLEAN, NEW loads \in BOOLEAN,
         NEW base \in {0, PgUnit}, NEW end \in Addr, NEW stack \in {1, USER_SIZE - 1},
         NEW args \in Nat, NEW behind \in Nat,
         MemExec(p, script, base, end, stack, args, loads, behind), memStray' = 0
  PROVE  MemInv'
<1> DEFINE tmp == IF script THEN 4 ELSE 3
           m == ExecMem(base, end, stack, args)
           s == [free |-> pg_fcount - tmp + Cardinality(ptab[p]), tab |-> {}]
           r == Pcalloc(s, m, behind)
           a == USER_SIZE - args
           g == IF m.stk <= a THEN Growstk(r, m, a)
                ELSE [ok |-> FALSE, free |-> r.free, tab |-> r.tab, astk |-> m.astk]
           good == r.ok /\ loads
           m2 == [m EXCEPT !.astk = g.astk]
<1>1. /\ memState[p] = "live" /\ pg_fcount >= tmp /\ memHeld' = memHeld
      /\ mem' = [mem EXCEPT ![p] = IF good THEN m2 ELSE m]
      /\ ptab' = [ptab EXCEPT ![p] = IF good THEN g.tab ELSE r.tab]
      /\ memState' = [memState EXCEPT ![p] = IF good THEN "live" ELSE "dying"]
      /\ pg_fcount' = IF good THEN g.free + 3 ELSE r.free + tmp
      /\ memLost' = IF good /\ script THEN memLost + 1 ELSE memLost
      /\ r.stray = 0
  BY DEF MemExec, MemLive
<1>2. /\ pg_fcount \in Nat /\ memLost \in Nat /\ ptab[p] \in SUBSET Pages
      /\ Cardinality(ptab[p]) \in Nat
  BY MemFacts
<1>3. /\ base \in Nat /\ end \in Nat /\ stack \in Nat /\ stack <= USER_SIZE
      /\ USER_SIZE \in Nat \ {0}
  BY UserSize DEF Addr
<1>4. /\ m \in MemRecords /\ m.base = base /\ m.end = end /\ m.astk = USER_SIZE
      /\ m.stk = IF a >= stack THEN a - stack ELSE Wrap32 + a - stack
  BY <1>3 DEF ExecMem, MemRecords, Wrap32
<1>5. m.stk <= a => a \in Nat
  BY <1>3, <1>4 DEF Wrap32
<1> HIDE DEF m
<1>6. /\ s.free \in Nat /\ s.tab \in SUBSET Pages /\ Cardinality(s.tab) = 0
      /\ s.free = pg_fcount - tmp + Cardinality(ptab[p]) /\ tmp \in {3, 4}
  BY <1>1, <1>2, FS_EmptySet
<1> HIDE DEF s
<1>7. /\ Conserves(s.free, s.tab, r) /\ r.ok \in BOOLEAN
      /\ r.ok => /\ PageOf(m.base) .. PageOf(m.end - 1) \subseteq r.tab
                 /\ PageOf(0) .. PageOf(m.brk - 1) \subseteq r.tab
  BY <1>1, <1>4, <1>6, PcallocSound DEF MemRecords
<1> HIDE DEF r
<1>8. r.free \in Nat /\ r.tab \in SUBSET Pages /\ r.free + Cardinality(r.tab) = s.free
      /\ Cardinality(r.tab) \in Nat
  BY <1>6, <1>7, PagesFinite DEF Conserves
<1>9. StackMapped(m.astk, r.tab) /\ m.astk \in Nat /\ m.astk <= USER_SIZE
  BY <1>3, <1>4, UserSize DEF StackMapped, USER_SIZE
<1> HIDE DEF a
<1>10. /\ Conserves(r.free, r.tab, g) /\ r.tab \subseteq g.tab /\ g.astk \in Nat
       /\ StackMapped(g.astk, g.tab)
  <2>1. CASE m.stk <= a
    <3>1. g = Growstk(r, m, a)
      BY <2>1
    <3> QED
      BY <1>5, <1>8, <1>9, <2>1, <3>1, GrowstkSound
  <2>2. CASE ~(m.stk <= a)
    <3>1. g.free = r.free /\ g.tab = r.tab /\ g.astk = m.astk
      BY <2>2
    <3> QED
      BY <1>8, <1>9, <3>1 DEF Conserves
  <2> QED
    BY <2>1, <2>2
<1> HIDE DEF g
<1>11. g.free \in Nat /\ g.tab \in SUBSET Pages /\ g.free + Cardinality(g.tab) = s.free
       /\ Cardinality(g.tab) \in Nat
  BY <1>8, <1>10, PagesFinite DEF Conserves
<1>12. /\ m2 \in MemRecords /\ m2.brk = m.brk /\ m2.base = m.base /\ m2.end = m.end
       /\ m2.astk = g.astk
  BY <1>4, <1>10 DEF MemRecords
<1> HIDE DEF m2
<1>13. CASE good
  <2>1. /\ mem' = [mem EXCEPT ![p] = m2] /\ ptab' = [ptab EXCEPT ![p] = g.tab]
        /\ memState' = [memState EXCEPT ![p] = "live"]
        /\ pg_fcount' = g.free + 3
        /\ memLost' = IF script THEN memLost + 1 ELSE memLost
    BY <1>1, <1>13
  <2>2. ProcBacked(m2, g.tab)
    BY <1>7, <1>10, <1>12, <1>13 DEF ProcBacked
  <2>3. /\ pg_fcount' \in Nat /\ memLost' \in Nat
        /\ pg_fcount' + memLost' + Cardinality(g.tab) = pg_fcount + memLost + Cardinality(ptab[p])
    BY <1>2, <1>6, <1>11, <2>1
  <2>4. /\ memState[p] = "live" /\ memHeld' = memHeld /\ m2 \in MemRecords
        /\ g.tab \in SUBSET Pages /\ "live" \in {"live", "dying"}
    BY <1>1, <1>11, <1>12
  <2> HIDE DEF good
  <2> QED
    BY <2>1, <2>2, <2>3, <2>4, LiveMemInv
<1>14. CASE ~good
  <2>1. /\ mem' = [mem EXCEPT ![p] = m] /\ ptab' = [ptab EXCEPT ![p] = r.tab]
        /\ memState' = [memState EXCEPT ![p] = "dying"]
        /\ pg_fcount' = r.free + tmp /\ memLost' = memLost
    BY <1>1, <1>14
  <2>2. /\ pg_fcount' \in Nat /\ memLost' \in Nat
        /\ pg_fcount' + memLost' + Cardinality(r.tab) = pg_fcount + memLost + Cardinality(ptab[p])
    BY <1>2, <1>6, <1>8, <2>1
  <2>3. /\ memState[p] = "live" /\ memHeld' = memHeld /\ m \in MemRecords
        /\ r.tab \in SUBSET Pages /\ "dying" \in {"live", "dying"} /\ "dying" # "live"
    BY <1>1, <1>4, <1>8
  <2> HIDE DEF good
  <2> QED
    BY <2>1, <2>2, <2>3, LiveMemInv
<1> QED
  BY <1>13, <1>14

\* The invariant holds until a word behind a page table is overwritten.
MemSafe == memStray = 0 => MemInv

LEMMA MemNextMemSafe == MemSafe /\ [MemNext]_memVars => MemSafe'
<1> SUFFICES ASSUME MemSafe, [MemNext]_memVars, memStray' = 0 PROVE MemInv'
  BY DEF MemSafe
<1>0. MemInv
  BY DEF MemSafe, MemNext, memVars
<1>b. \A end : Behind(end) \subseteq Nat
  BY MemoryAssumption DEF Behind, MemoryAssumption
<1>1. ASSUME NEW p \in MemProcs, NEW q \in MemProcs, MemFork(p, q) PROVE MemInv'
  BY <1>0, <1>1, ForkMemInv
<1>2. ASSUME NEW p \in MemProcs, MemExit(p) \/ MemReap(p) PROVE MemInv'
  BY <1>0, <1>2, ExitMemInv
<1>3. ASSUME NEW p \in MemProcs, NEW s \in BOOLEAN, ExecFails(p, s) PROVE MemInv'
  BY <1>0, <1>3, FailsMemInv
<1>4. ASSUME NEW p \in MemProcs, NEW s \in BOOLEAN, NEW loads \in BOOLEAN,
             NEW base \in {0, PgUnit}, NEW end \in Addr, NEW stack \in {1, USER_SIZE - 1},
             NEW args \in {PgUnit + 1}, NEW behind \in Behind(end),
             MemExec(p, s, base, end, stack, args, loads, behind)
      PROVE  MemInv'
  <2>1. args \in Nat /\ behind \in Nat
    BY UserSize, <1>b
  <2> QED
    BY <1>0, <1>4, <2>1, ExecMemInv
<1>5. ASSUME NEW p \in MemProcs, NEW a \in Addr, Brk(p, a) \/ Urchk(p, a) PROVE MemInv'
  BY <1>0, <1>5, BrkMemInv, UrchkMemInv
<1>6. ASSUME NEW p \in MemProcs, NEW a \in Addr, NEW b \in Addr, NEW behind \in Behind(b),
             SysNewregion(p, a, b, behind)
      PROVE  MemInv'
  BY <1>0, <1>b, <1>6, NewregionMemInv
<1>7. ASSUME NEW p \in MemProcs, NEW v \in 0 .. UserPages - 1, Ufault(p, v) PROVE MemInv'
  BY <1>0, <1>7, UfaultMemInv DEF Pages
<1>8. ASSUME NEW n \in {-1, 1}, KernelPage(n) PROVE MemInv'
  BY <1>0, <1>8, KernelMemInv
<1>9. CASE UNCHANGED memVars
  BY <1>0, <1>9, StutterMemInv DEF memVars
<1> QED
  BY <1>1, <1>2, <1>3, <1>4, <1>5, <1>6, <1>7, <1>8, <1>9, ZenonT(60) DEF MemNext, MemStep

LEMMA InitMemInv == MemInitial => MemInv
<1> SUFFICES ASSUME MemInitial PROVE MemInv
  OBVIOUS
<1>0. /\ NPages \in Nat /\ NPages > 1 /\ MemInit \in MemProcs
      /\ USER_SIZE \in Nat /\ USER_SIZE = PageOf(USER_SIZE) * PgUnit
  BY MemoryAssumption, UserSize DEF MemoryAssumption, USER_SIZE
<1> DEFINE m == StartMem
<1>1. m \in MemRecords /\ m.brk = 0 /\ m.base = 0 /\ m.end = 0 /\ m.astk = USER_SIZE
  BY <1>0 DEF MemRecords, StartMem
<1>2. /\ pg_fcount = NPages - 2 /\ memHeld = 0 /\ memLost = 0
      /\ ptab = [p \in MemProcs |-> {}] /\ mem = [p \in MemProcs |-> m]
      /\ memState = [p \in MemProcs |-> IF p = MemInit THEN "live" ELSE "free"]
  BY DEF MemInitial
<1> HIDE DEF m
<1>3. MemTypeOK
  BY <1>0, <1>1, <1>2 DEF MemTypeOK, MemRecords, MemStates
<1>4. Mapped = {} /\ Cardinality(Mapped) = 0
  <2>1. Mapped = {}
    BY <1>2 DEF Mapped
  <2> QED
    BY <2>1, FS_EmptySet
<1>5. KStacks = 1 /\ KTables = 1
  <2>1. /\ {p \in MemProcs : memState[p] # "free"} = {MemInit}
        /\ {p \in MemProcs : memState[p] \in {"live", "dying"}} = {MemInit}
    BY <1>0, <1>2
  <2> QED
    BY <2>1, FS_Singleton DEF KStacks, KTables
<1>6. PagesExact
  BY <1>0, <1>2, <1>4, <1>5 DEF PagesExact
<1>7. ProcBacked(m, {})
  BY <1>0, <1>1 DEF ProcBacked, StackMapped
<1> QED
  BY <1>2, <1>3, <1>6, <1>7 DEF MemInv

\* No page is ever lost or free twice, whatever fork, exec, brk, newregion, page
\* faults, exit and wait do, with whatever addresses and wherever they run out
\* of pages, and everything the kernel may copy to or from is mapped, until the
\* loop of a newregion that ends at address 0 overwrites a word behind its page
\* table: for any number of processes, any amount of memory and any size of a
\* page (page.c, umem.c, ualloc.c).
THEOREM MemoryCorrect == MemSpec => []MemoryExact
<1>1. MemSafe => MemoryExact
  BY DEF MemSafe, MemInv, MemoryExact, AccessBacked, Backed, ProcBacked, StackMapped
<1>2. MemInitial => MemSafe
  BY InitMemInv DEF MemSafe
<1> QED
  BY <1>1, <1>2, MemNextMemSafe, PTL DEF MemSpec
=============================================================================

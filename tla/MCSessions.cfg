SPECIFICATION MCSpec
CONSTANTS
  MAXPROCS = 2
  MAXUPROC = 1
  PidMax = 3
  Uids = {0, 1}
  KSig = {KILL}
  USig = {CHLD}
  KILL = KILL
  CHLD = CHLD
  Handlers = {"dfl", "ign", "usr"}
  LgLines = {1, 2}
  LgEdited = {2}
  LgJobs = {11}
  LgUsers = {"u"}
  AcProcs = {"p1", "p2", "p3"}
  AcUsers = {"a", "b"}
  AcUser <- MCUser
  NewUsers = {"n"}
  MlSenders = {"m1", "m2", "m3"}
  MlReaders = {"r1", "r2"}
  MAXMSG = 2
INVARIANTS SessionsExact DatabaseWhole MailKept
PROPERTIES KillTerminates OffIsOff LinesServed OnlyStaleLoses
CHECK_DEADLOCK FALSE

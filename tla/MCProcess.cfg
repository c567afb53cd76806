SPECIFICATION MCSpec
CONSTANTS
  MAXPROCS = 3
  MAXUPROC = 2
  PidMax = 3
  Uids = {0}
  KSig = {KILL}
  USig = {CHLD}
  KILL = KILL
  CHLD = CHLD
  Handlers = {"dfl"}
  MemProcs = {1, 2}
  MemInit = 1
  NPages = 8
  PgUnit = 2
  UserPages = 3
  AlProcs = {1, 2}
  MaxSec = 2
  MaxCalls = 3
INVARIANTS TableExact MemoryExact NotEarly
PROPERTIES TableFrees TimersEnd
CHECK_DEADLOCK FALSE

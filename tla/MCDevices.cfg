SPECIFICATION MCSpec
CONSTANTS
  Procs = {p1, p2}
  PIPE_BUF = 1
  NFILE = 2
  MaxCount = 1
  MaxLeak = 0
  PHYS_UNITS = {0, 1}
  NCYL = 2
  FD_MAX_RETRIES = 2
  FD_MOTOR_TIMEOUT = 1
  HdUnits = {0}
  HdCyls = 3
  CylSectors = 1
  CylRange = 3
  NParts = 2
  PartSizes = {1, 2}
  BlkRange = 6
  Dblock = 3
  Nblocks = 10
  Direct = 1
  PerMap = 2
  DirEnts = 2
  MAXLNK = 1
  FkSizes = {0, 2}
  MaxDamage = 2
INVARIANTS FdKnown PartsExact FsckWorks
PROPERTIES PipeEnds FdEnds
CHECK_DEADLOCK FALSE

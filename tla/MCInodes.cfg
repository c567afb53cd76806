SPECIFICATION MCSpec
CONSTANTS
  Devs = {hd0, hd1}
  rootdev = hd0
  NSUPER = 2
  NINODE = 3
  Inos = {1, 2}
  ROOT = 1
  Blank = {}
  BusyDirs = FALSE
  MaxHeld = 2
  MtRuns = {1, 2}
  MtDirs = {"u", "v"}
  MtMax = 3
INVARIANTS InodesExact ChangesKept MtabExact
CHECK_DEADLOCK FALSE
VIEW View

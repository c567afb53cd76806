SPECIFICATION MCSpec
CONSTANTS
  Procs = {p1, p2}
  PIPE_BUF = 2
  NFILE = 2
  MaxCount = 3
  MaxLeak = 1
  OfProcs = {1, 2}
  OfFirst = 1
  OfRoot = {1}
  OfFiles = {f1, f2}
  OfFds = {0, 1}
  MaxLost = 1
INVARIANTS RingWhole PipeCounted OpenExact
PROPERTIES RefinesQueue
SYMMETRY Symmetry
CHECK_DEADLOCK FALSE
VIEW View

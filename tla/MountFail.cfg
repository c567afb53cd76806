SPECIFICATION Spec
CONSTANTS
  Devs = {hd0, hd1}
  rootdev = hd0
  NSUPER = 2
  NINODE = 3
  Inos = {1, 2}
  ROOT = 1
  Blank = {}
  BusyDirs = FALSE
  MaxHeld = 2
INVARIANTS MapOfUnused
CHECK_DEADLOCK FALSE

SPECIFICATION MCSpec
CONSTANTS
  Files = {f1, f2}
  NBLOCKS = 5
  DBLOCK = 1
  FAN = 2
  BMAP0_SIZE = 1
  BMAP1_SIZE = 1
  BMAP2_SIZE = 1
  FSLIMIT = 3
  Starts = {1, 3, 5}
  Lengths = {2}
  root = root
  NmInos = {root, i2, i3, i4}
  none = none
  Entries = {a, b}
  NLINK_MAX = 4
  MovesDirs = FALSE
  NmMaxHeld = 2
  MaxStrays = 1
INVARIANTS BlocksExact NamesExact
PROPERTIES RefinesStore
SYMMETRY Symmetry

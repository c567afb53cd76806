SPECIFICATION FbSpec
CONSTANTS
  Files = {f1, f2}
  NBLOCKS = 6
  DBLOCK = 1
  FAN = 2
  BMAP0_SIZE = 1
  BMAP1_SIZE = 1
  BMAP2_SIZE = 2
  FSLIMIT = 11
  Starts = {6}
  Lengths = {1}
INVARIANTS MapsInRange

SPECIFICATION NmSpec
CONSTANTS
  root = root
  NmInos = {root, i2, i3}
  none = none
  Entries = {a, b}
  NLINK_MAX = 4
  MovesDirs = TRUE
  NmMaxHeld = 1
  MaxStrays = 0
INVARIANT NlinkExact
